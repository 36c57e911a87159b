-------------------------- MODULE MCFrameAssembler --------------------------
(* Model-checking instance of FrameAssembler: three frames of 7, 9 and 3    *)
(* bytes in chunks of 2, so that k is 4, "too large" and 2, the last chunk  *)
(* is padded and the stale window is passed.  After a failover the first    *)
(* and the last frame can have one number, and their chunks meet in every   *)
(* way: garbage, an error of the codec, a panic.                            *)
EXTENDS FrameAssembler

MCNalBytes == [f \in Frames |-> CASE f = 0 -> 7 [] f = 1 -> 9 [] OTHER -> 3]
MCPolicy   == [max_k |-> 4, max_m |-> 1, parity_ratio_pct |-> 25, min_m |-> 1]

=============================================================================
