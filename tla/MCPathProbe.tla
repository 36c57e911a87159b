---------------------------- MODULE MCPathProbe ----------------------------
(* Two live paths and a candidate of the viewer's that leads nowhere. *)
EXTENDS PathProbe
CONSTANTS lan, wan, dead

TwoAndADead == [s \in Side |-> IF s = "viewer" THEN {lan, wan, dead} ELSE {lan, wan}]
ViewerNat == [s \in Side |-> IF s = "viewer" THEN {wan} ELSE {}]
=============================================================================
