----------------------------- MODULE MediaPolicy -----------------------------
(***************************************************************************)
(* The policy-driven encoder of a host session: PolicyDriven around one    *)
(* encoder (inner), its HealthMonitor, the HistoryTable of the backends    *)
(* and the video loop that calls next_frame.  The scores that order the    *)
(* candidates are abstracted to any order; the hard filter's static part   *)
(* (codec, size, force_sw) is the choice of Backends; an encode latency is *)
(* told apart only at the end of a window, where the average is over 1.5   *)
(* budgets, under 1.2, or between.                                         *)
(***************************************************************************)
EXTENDS Integers

CONSTANTS
  Backends,                   \* the backends that encode the session's codec
  None,
  Bitrates,                   \* the bitrates a viewer asks for
  initial_bitrate_bps,
  window_size_frames, deg_window_count_required, rec_window_count_required,
  failure_threshold,
  no_success_timeout,         \* in ticks
  CooldownMin, CooldownMax,   \* in ticks: 10 s and 300 s
  MinBps,                     \* bound: no degradation is looked at below it
  Backoff,                    \* Backoff[n]: the wait the design sets after n failures
  MaxFails,                   \* bound: failures of a backend told apart
  MaxChanges                  \* bound: changes of the backends' conditions

Conditions == {"works", "errs", "lost", "stalls"}

ASSUME PolicyAssumption ==
  /\ None \notin Backends
  /\ Bitrates \subseteq Nat /\ initial_bitrate_bps \in Nat
  /\ window_size_frames \in Nat \ {0}
  /\ deg_window_count_required \in Nat \ {0} /\ rec_window_count_required \in Nat \ {0}
  /\ failure_threshold \in Nat \ {0} /\ no_success_timeout \in Nat
  /\ CooldownMin \in Nat \ {0} /\ CooldownMax \in Nat /\ CooldownMin <= CooldownMax
  /\ MinBps \in Nat /\ MaxFails \in Nat \ {0} /\ MaxChanges \in Nat

\* 10 s, 20 s, 40 s, ... up to 300 s.
ASSUME BackoffAssumption ==
  /\ Backoff \in [0..MaxFails -> 0..CooldownMax]
  /\ Backoff[0] = 0 /\ Backoff[1] = CooldownMin /\ Backoff[MaxFails] = CooldownMax
  /\ \A n \in 1..MaxFails - 1 :
        Backoff[n + 1] = IF 2 * Backoff[n] > CooldownMax THEN CooldownMax ELSE 2 * Backoff[n]
  /\ \A n \in 1..MaxFails : Backoff[n] >= CooldownMin

VARIABLES
  cond,            \* what a running encoder of each backend does
  avail,           \* the backends the factory can create
  changes,
  user_override,   \* the backend of --encoder, or None
  pc,              \* "loop", or the attempt next_frame is at: "first", "retry"
  out,             \* what the last call of next_frame returned
  inner,           \* inner_kind
  current_bps,     \* current_bitrate_bps
  encoder_bps,     \* the bitrate inner encodes at
  monitor,         \* the HealthMonitor
  cool,            \* per backend: length of its cooldown, ticks left of it
  since, fails     \* history: ticks since its last recorded failure, and how many

env == <<cond, avail, changes, user_override>>
driven == <<inner, current_bps, encoder_bps>>
history == <<since, fails>>
vars == <<env, pc, out, driven, monitor, cool, history>>

Capped(n, limit) == IF n > limit THEN limit ELSE n

States == {"Healthy", "Degraded", "Failing", "Lost"}

FreshMonitor == [state |-> "Healthy", failures |-> 0, deg |-> 0, rec |-> 0,
                 frames |-> 0, idle |-> 0]

Init ==
  /\ cond = [b \in Backends |-> "works"]
  /\ avail = Backends /\ changes = 0
  /\ user_override \in Backends \union {None}
  /\ pc = "loop" /\ out = "none"
  /\ inner \in Backends /\ (user_override # None => inner = user_override)
  /\ current_bps = initial_bitrate_bps /\ encoder_bps = initial_bitrate_bps
  /\ monitor = FreshMonitor
  /\ cool = [b \in Backends |-> [len |-> 0, left |-> 0]]
  /\ since = [b \in Backends |-> CooldownMax] /\ fails = [b \in Backends |-> 0]

-----------------------------------------------------------------------------
\* The video loop: drain the bitrate requests, then call next_frame.
Call ==
  /\ pc = "loop" /\ pc' = "first" /\ out' = "none"
  /\ \/ UNCHANGED driven
     \/ \E bps \in Bitrates : /\ current_bps' = bps /\ encoder_bps' = bps
                              /\ UNCHANGED inner
  /\ UNCHANGED <<env, monitor, cool, history>>

-----------------------------------------------------------------------------
(***************************************************************************)
(* HealthMonitor.  A failure count beyond failure_threshold is not told    *)
(* apart from failure_threshold.                                           *)
(***************************************************************************)
Levels == {"within", "over", "between", "under"}

\* Mutant of Counted: the frame count goes on after the end of a window.
Counted_Unreset(m, level) ==
  [m EXCEPT !.failures = 0, !.idle = 0, !.frames = @ + 1,
            !.deg = IF level = "within" THEN @ ELSE IF level = "over" THEN @ + 1 ELSE 0,
            !.rec = IF level = "within" THEN @ ELSE IF level = "under" THEN @ + 1 ELSE 0]

\* The monitor after record_encode, without the change of state.
Counted(m, level) ==
  LET over == level = "over"  under == level = "under"
  IN [m EXCEPT !.failures = 0, !.idle = 0,
               !.frames = IF level = "within" THEN @ + 1 ELSE 0,
               !.deg = IF level = "within" THEN @ ELSE IF over THEN @ + 1 ELSE 0,
               !.rec = IF level = "within" THEN @ ELSE IF under THEN @ + 1 ELSE 0]

\* "within" is a frame that does not end its window.
LevelPossible(m, level) == (level = "within") <=> (m.frames + 1 < window_size_frames)

Degrades(m, level) ==
  m.state = "Healthy" /\ Counted(m, level).deg >= deg_window_count_required
Recovers(m, level) ==
  m.state = "Degraded" /\ Counted(m, level).rec >= rec_window_count_required

\* record_encode: Failing and Lost stay, and go on counting windows.
RecordEncode(m, level) ==
  LET c == Counted(m, level)
  IN  CASE Degrades(m, level) -> [c EXCEPT !.state = "Degraded", !.deg = 0]
        [] Recovers(m, level) -> [c EXCEPT !.state = "Healthy", !.rec = 0]
        [] OTHER -> [c EXCEPT !.deg = Capped(@, deg_window_count_required),
                              !.rec = Capped(@, rec_window_count_required)]

\* record_failure, and whether it asks for a failover.
RecordFailure(m, lost) ==
  LET n == Capped(m.failures + 1, failure_threshold)
  IN  IF lost THEN [m EXCEPT !.state = "Lost"]
      ELSE [m EXCEPT !.failures = n,
                     !.state = IF n = failure_threshold \/ m.idle > no_success_timeout
                               THEN "Failing" ELSE @]

\* Mutant of AsksFailover: only a lost device is failed over from.
AsksFailover_LostOnly(m, lost) == lost

AsksFailover(m, lost) ==
  \/ lost
  \/ m.failures + 1 >= failure_threshold
  \/ m.idle > no_success_timeout

-----------------------------------------------------------------------------
(***************************************************************************)
(* HistoryTable and the filter of rank.                                    *)
(***************************************************************************)
\* Mutant of NextCooldown: the length is taken after the failure time is set.
NextCooldown_Left(c) ==
  LET next == Capped(2 * c.left, CooldownMax)
  IN  IF next < CooldownMin THEN CooldownMin ELSE next

\* The first cooldown is CooldownMin, each later one twice the last.
NextCooldown(c) ==
  LET next == Capped(2 * c.len, CooldownMax)
  IN  IF next < CooldownMin THEN CooldownMin ELSE next

Punished(b) ==
  [cool EXCEPT ![b] = [len |-> NextCooldown(cool[b]), left |-> NextCooldown(cool[b])]]

\* The backends rank lists once inner is in the table, and inner excluded.
Candidates == {b \in Backends : /\ b # inner /\ cool[b].left = 0
                                /\ user_override \in {None, b}}

-----------------------------------------------------------------------------
(***************************************************************************)
(* PolicyDriven.                                                           *)
(***************************************************************************)
Returns(result) == pc' = "loop" /\ out' = result

\* The encoder yields a frame; Healthy -> Degraded lowers the bitrate to 85 %.
FrameEncoded(level) ==
  /\ pc \in {"first", "retry"} /\ cond[inner] = "works"
  /\ LevelPossible(monitor, level)
  /\ Degrades(monitor, level) => current_bps >= MinBps
  /\ monitor' = RecordEncode(monitor, level)
  /\ IF Degrades(monitor, level)
     THEN /\ current_bps' = (current_bps * 85) \div 100
          /\ encoder_bps' = (current_bps * 85) \div 100
     ELSE UNCHANGED <<current_bps, encoder_bps>>
  /\ Returns("frame")
  /\ UNCHANGED <<env, inner, cool, history>>

EncodeFails(lost) == cond[inner] = IF lost THEN "lost" ELSE "errs"

\* Mutant of Retained: the new encoder keeps the bitrate it was created with.
Retained_Initial == initial_bitrate_bps

\* The bitrate of a new encoder, once it has been told the retained one.
Retained == current_bps

\* swap_to_next: the failure is on record whatever comes of the swap.
Recorded ==
  /\ cool' = Punished(inner)
  /\ since' = [since EXCEPT ![inner] = 0]
  /\ fails' = [fails EXCEPT ![inner] = Capped(@ + 1, MaxFails)]

Swap(next) ==
  /\ next \in Candidates /\ next \in avail
  /\ inner' = next /\ encoder_bps' = Retained
  /\ monitor' = FreshMonitor
  /\ pc' = "retry" /\ UNCHANGED <<current_bps, out>>

NoSwap(lost) ==
  /\ Candidates \subseteq avail => Candidates = {}
  /\ monitor' = RecordFailure(monitor, lost)
  /\ Returns("error") /\ UNCHANGED driven

\* The first attempt fails and the monitor asks for a failover.
FailsOver(lost) ==
  /\ pc = "first" /\ EncodeFails(lost) /\ AsksFailover(monitor, lost)
  /\ Recorded
  /\ NoSwap(lost) \/ \E next \in Backends : Swap(next)
  /\ UNCHANGED env

\* An attempt fails and the error is returned: the monitor asks for nothing,
\* or this was the second attempt.
AttemptFails(lost) ==
  /\ pc \in {"first", "retry"} /\ EncodeFails(lost)
  /\ pc = "first" => ~AsksFailover(monitor, lost)
  /\ monitor' = RecordFailure(monitor, lost)
  /\ Returns("error")
  /\ UNCHANGED <<env, driven, cool, history>>

-----------------------------------------------------------------------------
\* Outside: a backend changes what it does, or the factory what it can create.
Change ==
  /\ changes < MaxChanges /\ changes' = changes + 1
  /\ \/ \E b \in Backends, c \in Conditions :
          cond[b] # c /\ cond' = [cond EXCEPT ![b] = c] /\ UNCHANGED avail
     \/ \E b \in Backends :
          avail' = (IF b \in avail THEN avail \ {b} ELSE avail \union {b}) /\ UNCHANGED cond
  /\ UNCHANGED <<user_override, pc, out, driven, monitor, cool, history>>

Tick ==
  /\ monitor' = [monitor EXCEPT !.idle = Capped(@ + 1, no_success_timeout + 1)]
  /\ cool' = [b \in Backends |-> [cool[b] EXCEPT !.left = IF @ > 0 THEN @ - 1 ELSE 0]]
  /\ since' = [b \in Backends |-> Capped(since[b] + 1, CooldownMax)]
  /\ UNCHANGED <<env, pc, out, driven, fails>>

Attempt == \/ \E level \in Levels : FrameEncoded(level)
           \/ \E lost \in BOOLEAN : FailsOver(lost) \/ AttemptFails(lost)

Next == Call \/ Attempt \/ Change \/ Tick

Spec == Init /\ [][Next]_vars

\* The video loop keeps calling, an encoder that does not stall answers, and
\* time passes.
FairSpec == Spec /\ WF_vars(Call) /\ WF_vars(Attempt) /\ WF_vars(Tick)
-----------------------------------------------------------------------------
\* Counters stay within their thresholds, cooldowns and clocks within
\* CooldownMax.
TypeOK ==
  /\ cond \in [Backends -> Conditions] /\ avail \subseteq Backends
  /\ changes \in 0..MaxChanges /\ user_override \in Backends \union {None}
  /\ pc \in {"loop", "first", "retry"} /\ out \in {"none", "frame", "error"}
  /\ inner \in Backends /\ current_bps \in Nat /\ encoder_bps \in Nat
  /\ monitor \in [state : States, failures : 0..failure_threshold,
                  deg : 0..deg_window_count_required, rec : 0..rec_window_count_required,
                  frames : 0..window_size_frames - 1, idle : 0..no_success_timeout + 1]
  /\ cool \in [Backends -> [len : 0..CooldownMax, left : 0..CooldownMax]]
  /\ since \in [Backends -> 0..CooldownMax] /\ fails \in [Backends -> 0..MaxFails]

\* The encoder in use, whichever it is, encodes at the bitrate the viewer or a
\* degradation set last.
BitrateRetained == encoder_bps = current_bps

\* A failover goes to a backend that has waited out its backoff, and a backend
\* chosen with --encoder is never left.
SwapsAllowed ==
  [][inner' # inner => /\ since[inner'] >= Backoff[fails[inner']]
                       /\ user_override = None]_vars

\* When some backend works and can be created for good, frames go on coming:
\* failures, lost devices, cooldowns and failed swaps do not stop the picture.
\* (An encoder that neither answers nor fails does: nothing times it out.)
PictureReturns ==
  \A b \in Backends :
    (/\ user_override = None
     /\ <>[](cond[b] = "works" /\ b \in avail)
     /\ []<>(cond[inner] # "stalls")) => []<>(out = "frame")
=============================================================================
