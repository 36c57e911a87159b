---------------------------- MODULE MCHostSession ----------------------------
(* Instances of HostSession for TLC: v1 and v2 use the key a, v3 the key b. *)
EXTENDS HostSession
CONSTANTS v1, v2, v3, a, b, right, all, some
KeyOf == [p \in Procs |-> IF p = v3 THEN b ELSE a]
RightPin == [p \in Procs |-> right]
NoPin == [p \in Procs |-> None]
=============================================================================
