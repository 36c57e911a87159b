------------------------------- MODULE MCAuth -------------------------------
(* Instances of AuthHistory for TLC. *)
EXTENDS AuthHistory
CONSTANTS p1, p2, right, bad, garbage, tok1, tok2, tok3, all
=============================================================================
