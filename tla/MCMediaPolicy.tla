---------------------------- MODULE MCMediaPolicy ----------------------------
(* Constants of the runs of MediaPolicy: two backends per codec, as on Linux   *)
(* (VA-API and OpenH264) and Windows (NVENC and Media Foundation).             *)
EXTENDS MediaPolicy

CONSTANTS hw, sw

TwoBackends == {hw, sw}
ViewerBitrates == {50}
Waits == <<1, 2, 3>>
Schedule == [n \in 0..3 |-> IF n = 0 THEN 0 ELSE Waits[n]]
=============================================================================
