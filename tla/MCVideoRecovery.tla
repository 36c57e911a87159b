--------------------------- MODULE MCVideoRecovery ---------------------------
(* The instance of VideoRecovery for TLC: two targets, 5 % apart and more,  *)
(* and a host that allows less than the viewer asks for.                    *)
EXTENDS VideoRecovery
=============================================================================
