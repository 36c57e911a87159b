----------------------------- MODULE MCRendezvous -----------------------------
(* Instances of Rendezvous for TLC. *)
EXTENDS Rendezvous, TLC

CONSTANTS h1, h2, v1, v2, idA, idB, k1, k2

\* h2 claims the id of h1 with a key of its own.
ImpostorKey == (h1 :> k1) @@ (h2 :> k2)
OneKey      == (h1 :> k1)
BothIdA     == (h1 :> idA) @@ (h2 :> idA)
\* h1 asks for no id and is given one.
Fresh       == (h1 :> NoId)
WantsA      == (v1 :> idA) @@ (v2 :> idA)
OneWantsA   == (v1 :> idA)
Symmetry    == Permutations({v1, v2})
OneShard    == (v1 :> 0)
SoleShard   == (v1 :> 0) @@ (v2 :> 0)
=============================================================================
