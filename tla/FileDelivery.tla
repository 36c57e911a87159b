---------------------------- MODULE FileDelivery ----------------------------
(***************************************************************************)
(* What a file transfer of crates/filetransfer promises: the receiver      *)
(* reports a file as complete only when it is one the sender offered, as   *)
(* long as it was when it was offered, under a path that nothing else has, *)
(* and what has been reported never changes again, unless no path of a     *)
(* name is left: then the one of the bare name is used once more.          *)
(***************************************************************************)
EXTENDS Naturals

CONSTANTS Files, Names, Suffixes

VARIABLES
  offered,     \* files offered, each with its length at that moment
  taken,       \* the paths in use
  delivered,   \* function from the paths reported as complete to what is there
  overwritten  \* paths used more than once, of which nothing is promised

vars == <<offered, taken, delivered, overwritten>>

Init ==
  /\ offered = {} /\ taken = {} /\ overwritten = {}
  /\ delivered = [p \in {} |-> p]

Offer ==
  /\ \E o \in offered' : o \in [file : Files, len : Nat] /\ offered' = offered \cup {o}
  /\ UNCHANGED <<taken, delivered, overwritten>>

Take ==
  /\ \E p \in (Names \X Suffixes) \ taken : taken' = taken \cup {p}
  /\ UNCHANGED <<offered, delivered, overwritten>>

Deliver ==
  /\ \E p \in taken \ (DOMAIN delivered \cup overwritten), o \in offered :
        delivered' = [q \in DOMAIN delivered \cup {p} |-> IF q = p THEN o ELSE delivered[q]]
  /\ UNCHANGED <<offered, taken, overwritten>>

Overwrite ==
  /\ \E n \in Names :
       /\ {n} \X Suffixes \subseteq taken
       /\ overwritten' = overwritten \cup {<<n, 0>>}
       /\ delivered' = [p \in DOMAIN delivered \ {<<n, 0>>} |-> delivered[p]]
  /\ UNCHANGED <<offered, taken>>

Next == Offer \/ Take \/ Deliver \/ Overwrite

Spec == Init /\ [][Next]_vars
=============================================================================
