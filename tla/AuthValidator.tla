---------------------------- MODULE AuthValidator ----------------------------
(***************************************************************************)
(* The host's Hello-time authentication (crates/host/src/auth.rs): the     *)
(* verdict on a Hello depends on the host's mode, on the peers it knows,   *)
(* on the per-peer PIN counter with its lockout and on the single-use      *)
(* ephemeral.  One validator lives as long as the host process and the     *)
(* accept loop calls it for one viewer at a time.                          *)
(*                                                                         *)
(* A peer is identified by its Noise public key.  Time advances in ticks.  *)
(***************************************************************************)
EXTENDS Naturals

CONSTANTS
  Peers,
  Modes,                 \* the values of HostAuthConfig.mode to look at
  Pin,                   \* the PIN behind pin_hash
  Payloads,              \* what viewers put into auth_payload, the right PIN and
                         \* ephemerals among them
  Malformed,             \* payloads that are not UTF-8
  Tokens,                \* the values generate_ephemeral can draw
  max_pin_attempts, pin_lockout, ephemeral_lifetime,
  Perms, default_permissions,
  None

U8 == 256                \* failed_count is a u8; release builds wrap it

ASSUME AuthAssumption ==
  /\ Modes \subseteq {"Tofu", "Pin", "Ephemeral"}
  /\ Malformed \subseteq Payloads /\ Tokens \subseteq Payloads \ Malformed
  /\ Pin \in Payloads \ Malformed
  /\ max_pin_attempts \in 1..(U8 - 1)
  /\ pin_lockout \in Nat \ {0} /\ ephemeral_lifetime \in Nat
  /\ default_permissions \in Perms /\ None \notin Perms

Methods == {"Tofu", "Pin", "Ephemeral"}

VARIABLES
  mode,        \* HostAuthConfig.mode, which a validator keeps
  known,       \* host-peers.toml: the permissions saved for a peer, or None
  failed,      \* PinAttemptState.failed_count, 0 for a peer without entry
  locked,      \* ticks until PinAttemptState.locked_until, 0 once it has passed
  ephemeral    \* EphemeralState as [value, age], or None

authVars == <<mode, known, failed, locked, ephemeral>>

AuthInit ==
  /\ mode \in Modes
  /\ known \in [Peers -> Perms \union {None}]
  /\ failed = [p \in Peers |-> 0]
  /\ locked = [p \in Peers |-> 0]
  /\ ephemeral = None

-----------------------------------------------------------------------------
Granted(perms)  == [code |-> "Grant", perms |-> perms]
Rejected(code)  == [code |-> code, perms |-> None]

\* known_peers is consulted for the permissions only.
GrantedTo(p) == Granted(IF known[p] = None THEN default_permissions ELSE known[p])

TofuVerdict(p, method) ==
  IF method # "Tofu" THEN Rejected("ConsentDenied")
  ELSE IF known[p] # None THEN Granted(known[p])
  ELSE [code |-> "NeedsConsent", perms |-> default_permissions]

PinVerdict(p, method, payload) ==
  CASE method # "Pin"       -> Rejected("PinRequired")
    [] method = "Pin" /\ locked[p] > 0 -> Rejected("AuthLockout")
    [] method = "Pin" /\ locked[p] = 0 ->
         IF payload = Pin THEN GrantedTo(p) ELSE Rejected("AuthFailed")

EphemeralValid(payload) ==
  /\ ephemeral # None
  /\ ephemeral.age <= ephemeral_lifetime
  /\ payload = ephemeral.value

EphemeralVerdict(p, method, payload) ==
  IF method # "Ephemeral" THEN Rejected("EphemeralRequired")
  ELSE IF EphemeralValid(payload) THEN GrantedTo(p) ELSE Rejected("AuthFailed")

Verdict(p, method, payload) ==
  CASE mode = "Tofu"      -> TofuVerdict(p, method)
    [] mode = "Pin"       -> PinVerdict(p, method, payload)
    [] mode = "Ephemeral" -> EphemeralVerdict(p, method, payload)

-----------------------------------------------------------------------------
(***************************************************************************)
(* What a validation leaves behind.                                        *)
(***************************************************************************)

\* The PIN was checked against the hash: a locked peer's or a payload that is
\* no UTF-8 never is.
Checked(p, method, payload) ==
  mode = "Pin" /\ method = "Pin" /\ locked[p] = 0 /\ payload \notin Malformed

\* Mutant of AtLimit: the lockout comes one wrong PIN late.
AtLimit_Late(n) == n > max_pin_attempts
AtLimit(n) == n >= max_pin_attempts

\* Mutant of Counted: failures of all peers go into one counter.
Counted_All(p) == Peers
Counted(p) == {p}

CountFailure(p) ==
  LET n == (failed[p] + 1) % U8 IN
  /\ failed' = [q \in Peers |-> IF q \in Counted(p) THEN n ELSE failed[q]]
  /\ locked' = [q \in Peers |-> IF q \in Counted(p) /\ AtLimit(n)
                                THEN pin_lockout ELSE locked[q]]

ClearFailures(p) ==
  failed' = [failed EXCEPT ![p] = 0] /\ UNCHANGED locked

\* Mutant of Consume: a granted ephemeral stays active.
Consume_Keep == UNCHANGED ephemeral
Consume == ephemeral' = None

Validate(p, method, payload) ==
  /\ IF Checked(p, method, payload)
     THEN IF payload = Pin THEN ClearFailures(p) ELSE CountFailure(p)
     ELSE UNCHANGED <<failed, locked>>
  /\ IF mode = "Ephemeral" /\ method = "Ephemeral" /\ EphemeralValid(payload)
     THEN Consume ELSE UNCHANGED ephemeral
  /\ UNCHANGED <<mode, known>>

RotateEphemeral(t) ==
  /\ ephemeral' = [value |-> t, age |-> 0]
  /\ UNCHANGED <<mode, known, failed, locked>>

Elapse(n) == IF n > 0 THEN n - 1 ELSE 0

AuthTick ==
  /\ locked' = [p \in Peers |-> Elapse(locked[p])]
  /\ ephemeral' = IF ephemeral = None \/ ephemeral.age > ephemeral_lifetime
                  THEN ephemeral ELSE [ephemeral EXCEPT !.age = @ + 1]
  /\ UNCHANGED <<mode, known, failed>>

AuthTypeOK ==
  /\ mode \in Modes
  /\ known \in [Peers -> Perms \union {None}]
  /\ failed \in [Peers -> 0..(U8 - 1)]
  /\ locked \in [Peers -> 0..pin_lockout]
  /\ ephemeral \in [value : Tokens, age : 0..(ephemeral_lifetime + 1)] \union {None}
=============================================================================
