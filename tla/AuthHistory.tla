----------------------------- MODULE AuthHistory -----------------------------
(***************************************************************************)
(* AuthValidator with any Hello of any peer at any time, and the history   *)
(* its promises are about: when a peer got wrong PINs checked, and which   *)
(* ephemerals were drawn and granted.                                      *)
(***************************************************************************)
EXTENDS AuthValidator, Sequences

CONSTANTS MaxFails      \* bound: wrong PINs of one peer before the right one

ASSUME HistoryAssumption == MaxFails \in Nat

VARIABLES
  ages,      \* the wrong PINs of a peer since it last got in, oldest first, as
             \* the ticks since each, which are counted up to pin_lockout
  drawn,     \* the ephemerals drawn, in order
  grants     \* the ephemerals granted: [value, age, latest]

history == <<ages, drawn, grants>>
historyVars == <<authVars, history>>

HistoryInit ==
  /\ AuthInit
  /\ ages = [p \in Peers |-> << >>]
  /\ drawn = << >> /\ grants = << >>

Latest == IF drawn = << >> THEN None ELSE drawn[Len(drawn)]

Hello(p, method, payload) ==
  LET wrong == Checked(p, method, payload) /\ payload # Pin
      isIn  == Verdict(p, method, payload).code = "Grant"
  IN  /\ Validate(p, method, payload)
      /\ wrong => Len(ages[p]) < MaxFails
      /\ ages' = [ages EXCEPT ![p] = IF isIn THEN << >>
                                     ELSE IF wrong THEN Append(@, 0) ELSE @]
      /\ grants' = IF mode = "Ephemeral" /\ isIn
                   THEN Append(grants, [value |-> payload, age |-> ephemeral.age,
                                        latest |-> Latest])
                   ELSE grants
      /\ UNCHANGED drawn

\* The operator draws ephemerals in ephemeral mode.
Rotate(t) ==
  /\ mode = "Ephemeral"
  /\ \A i \in 1..Len(drawn) : drawn[i] # t
  /\ RotateEphemeral(t)
  /\ drawn' = Append(drawn, t)
  /\ UNCHANGED <<ages, grants>>

Older(n) == IF n < pin_lockout THEN n + 1 ELSE n

Tick ==
  /\ AuthTick
  /\ ages' = [p \in Peers |-> [i \in 1..Len(ages[p]) |-> Older(ages[p][i])]]
  /\ UNCHANGED <<drawn, grants>>

HistoryNext ==
  \/ \E p \in Peers, method \in Methods, payload \in Payloads : Hello(p, method, payload)
  \/ \E t \in Tokens : Rotate(t)
  \/ Tick

HistorySpec == HistoryInit /\ [][HistoryNext]_historyVars
-----------------------------------------------------------------------------
\* How many wrong PINs a peer gets checked in a row: one more once failed_count has
\* wrapped, since the 256th makes it 0.
Guesses(p) == IF Len(ages[p]) < U8 THEN max_pin_attempts ELSE max_pin_attempts + 1

\* Within any pin_lockout ticks a peer gets no more wrong PINs checked than Guesses,
\* however it spreads them over lockouts and malformed payloads, and for ever: one
\* that so many younger ones follow is pin_lockout ticks old.
BoundedGuesses ==
  \A p \in Peers : \A i \in 1..Len(ages[p]) :
    i + Guesses(p) <= Len(ages[p]) => ages[p][i] = pin_lockout

\* Nobody is locked out by the failures of others: a locked peer has sent
\* max_pin_attempts wrong PINs itself since it last got in.
OwnFailuresOnly ==
  \A p \in Peers : locked[p] > 0 => Len(ages[p]) >= max_pin_attempts

\* An ephemeral opens one session, while it is the latest one drawn and not
\* older than ephemeral_lifetime.
EphemeralOnce ==
  /\ \A i \in 1..Len(grants) : /\ grants[i].value = grants[i].latest
                                /\ grants[i].age <= ephemeral_lifetime
  /\ \A i, j \in 1..Len(grants) : grants[i].value = grants[j].value => i = j

=============================================================================
