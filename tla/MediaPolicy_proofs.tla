-------------------------- MODULE MediaPolicy_proofs --------------------------
(***************************************************************************)
(* Every encoder in use runs at the retained bitrate, and no failover      *)
(* breaks a backoff or the user's choice: for all backends, thresholds,    *)
(* cooldowns and bitrates.                                                 *)
(***************************************************************************)
EXTENDS MediaPolicy, TLAPS

\* The table's cooldowns are the schedule's, and what is left of one is at
\* least what the clock says.
CooldownInv ==
  /\ cool \in [Backends -> [len : 0..CooldownMax, left : 0..CooldownMax]]
  /\ since \in [Backends -> 0..CooldownMax] /\ fails \in [Backends -> 0..MaxFails]
  /\ inner \in Backends
  /\ \A b \in Backends : /\ cool[b].len = Backoff[fails[b]]
                         /\ since[b] + cool[b].left >= cool[b].len

\* The cooldown after one more failure is the schedule's next one.
LEMMA NextIsScheduled ==
  ASSUME NEW n \in 0..MaxFails, NEW c \in [len : 0..CooldownMax, left : 0..CooldownMax],
         c.len = Backoff[n]
  PROVE  /\ NextCooldown(c) = Backoff[Capped(n + 1, MaxFails)]
         /\ NextCooldown(c) \in 0..CooldownMax
         /\ Capped(n + 1, MaxFails) \in 0..MaxFails
<1>1. /\ CooldownMin \in Nat \ {0} /\ CooldownMax \in Nat /\ CooldownMin <= CooldownMax
      /\ MaxFails \in Nat \ {0} /\ n \in Nat /\ n <= MaxFails
  BY PolicyAssumption
<1>2. Backoff[n] \in 0..CooldownMax
  BY BackoffAssumption
<1>3. CASE n = 0
  BY <1>1, <1>3, BackoffAssumption DEF NextCooldown, Capped
<1>4. CASE n \in 1..MaxFails - 1
  <2>1. /\ Backoff[n + 1] = IF 2 * Backoff[n] > CooldownMax THEN CooldownMax ELSE 2 * Backoff[n]
        /\ Backoff[n + 1] >= CooldownMin /\ Backoff[n + 1] \in 0..CooldownMax
    BY <1>1, <1>4, BackoffAssumption
  <2>2. Capped(n + 1, MaxFails) = n + 1
    BY <1>1, <1>4 DEF Capped
  <2> QED BY <1>1, <1>2, <1>4, <2>1, <2>2 DEF NextCooldown, Capped
<1>5. CASE n = MaxFails
  <2>1. Backoff[n] = CooldownMax /\ Capped(n + 1, MaxFails) = MaxFails
    BY <1>1, <1>5, BackoffAssumption DEF Capped
  <2> QED BY <1>1, <1>5, <2>1 DEF NextCooldown, Capped
<1> QED BY <1>1, <1>3, <1>4, <1>5

\* No backend has failed at first.
LEMMA CooldownInit == Init => CooldownInv
BY PolicyAssumption, BackoffAssumption DEF Init, CooldownInv

\* A recorded failure starts the schedule's next cooldown and the clock.
LEMMA RecordedInv ==
  ASSUME CooldownInv, Recorded, inner' \in Backends
  PROVE  CooldownInv'
<1>1. /\ CooldownMax \in Nat /\ fails[inner] \in 0..MaxFails
      /\ cool[inner] \in [len : 0..CooldownMax, left : 0..CooldownMax]
      /\ cool[inner].len = Backoff[fails[inner]]
  BY PolicyAssumption DEF CooldownInv
<1> DEFINE next == NextCooldown(cool[inner])
<1>2. /\ next = Backoff[Capped(fails[inner] + 1, MaxFails)] /\ next \in 0..CooldownMax
      /\ Capped(fails[inner] + 1, MaxFails) \in 0..MaxFails
  BY <1>1, NextIsScheduled
<1>3. /\ cool' = [cool EXCEPT ![inner] = [len |-> next, left |-> next]]
      /\ since' = [since EXCEPT ![inner] = 0]
      /\ fails' = [fails EXCEPT ![inner] = Capped(fails[inner] + 1, MaxFails)]
  BY DEF Recorded, Punished
<1> HIDE DEF next
<1>4. /\ cool' \in [Backends -> [len : 0..CooldownMax, left : 0..CooldownMax]]
      /\ since' \in [Backends -> 0..CooldownMax] /\ fails' \in [Backends -> 0..MaxFails]
  BY <1>1, <1>2, <1>3 DEF CooldownInv
<1>5. ASSUME NEW b \in Backends
      PROVE  cool'[b].len = Backoff[fails'[b]] /\ since'[b] + cool'[b].left >= cool'[b].len
  <2>1. CASE b = inner
    <3>1. /\ cool'[b] = [len |-> next, left |-> next] /\ since'[b] = 0
          /\ fails'[b] = Capped(fails[inner] + 1, MaxFails)
      BY <1>3, <2>1 DEF CooldownInv
    <3> QED BY <1>2, <3>1
  <2>2. CASE b # inner
    <3>1. cool'[b] = cool[b] /\ since'[b] = since[b] /\ fails'[b] = fails[b]
      BY <1>3, <2>2 DEF CooldownInv
    <3> QED BY <3>1 DEF CooldownInv
  <2> QED BY <2>1, <2>2
<1> QED BY <1>4, <1>5 DEF CooldownInv

\* A tick moves the clocks and the cooldowns together.
LEMMA TickInv ==
  ASSUME CooldownInv, Tick
  PROVE  CooldownInv'
<1>1. CooldownMax \in Nat
  BY PolicyAssumption
<1>2. fails' = fails /\ inner' = inner
  BY DEF Tick, driven
<1>3. ASSUME NEW b \in Backends
      PROVE  /\ cool'[b] \in [len : 0..CooldownMax, left : 0..CooldownMax]
             /\ since'[b] \in 0..CooldownMax
             /\ cool'[b].len = cool[b].len
             /\ since'[b] + cool'[b].left >= cool'[b].len
  <2> DEFINE less == IF cool[b].left > 0 THEN cool[b].left - 1 ELSE 0
  <2>1. /\ cool[b] \in [len : 0..CooldownMax, left : 0..CooldownMax]
        /\ since[b] \in 0..CooldownMax /\ since[b] + cool[b].left >= cool[b].len
    BY DEF CooldownInv
  <2>2. cool'[b] = [cool[b] EXCEPT !.left = less]
    BY DEF Tick
  <2>3. cool'[b] = [len |-> cool[b].len, left |-> less]
    BY <2>1, <2>2
  <2>4. since'[b] = IF since[b] + 1 > CooldownMax THEN CooldownMax ELSE since[b] + 1
    BY DEF Tick, Capped
  <2>5. less \in 0..CooldownMax /\ less + 1 >= cool[b].left /\ cool[b].len \in 0..CooldownMax
    BY <1>1, <2>1
  <2> HIDE DEF less
  <2> QED BY <1>1, <2>1, <2>3, <2>4, <2>5
<1>4. cool' = [b \in Backends |-> cool'[b]] /\ since' = [b \in Backends |-> since'[b]]
  BY DEF Tick
<1>5. /\ cool' \in [Backends -> [len : 0..CooldownMax, left : 0..CooldownMax]]
      /\ since' \in [Backends -> 0..CooldownMax]
  BY <1>3, <1>4
<1>6. ASSUME NEW b \in Backends PROVE cool'[b].len = Backoff[fails'[b]]
  <2>1. cool[b].len = Backoff[fails[b]]
    BY DEF CooldownInv
  <2> QED BY <1>2, <1>3, <2>1
<1> QED BY <1>2, <1>3, <1>5, <1>6 DEF CooldownInv

\* Every other step leaves the table and its clocks alone.
LEMMA CooldownStep == CooldownInv /\ [Next]_vars => CooldownInv'
<1> SUFFICES ASSUME CooldownInv, [Next]_vars PROVE CooldownInv'
  OBVIOUS
<1>1. CASE Call
  BY <1>1 DEF Call, CooldownInv, driven, history
<1>2. CASE \E level \in Levels : FrameEncoded(level)
  BY <1>2 DEF FrameEncoded, CooldownInv, driven, history
<1>3. CASE \E lost \in BOOLEAN : FailsOver(lost)
  <2>1. Recorded /\ inner' \in Backends
    BY <1>3 DEF FailsOver, NoSwap, Swap, Candidates, driven, CooldownInv
  <2> QED BY <2>1, RecordedInv
<1>4. CASE \E lost \in BOOLEAN : AttemptFails(lost)
  BY <1>4 DEF AttemptFails, CooldownInv, driven, history
<1>5. CASE Change
  BY <1>5 DEF Change, CooldownInv, driven, history
<1>6. CASE Tick
  BY <1>6, TickInv
<1>7. CASE UNCHANGED vars
  BY <1>7 DEF vars, CooldownInv, driven, history
<1> QED BY <1>1, <1>2, <1>3, <1>4, <1>5, <1>6, <1>7 DEF Next, Attempt

\* The backend of --encoder is the one in use.
OverrideInv == user_override = None \/ user_override = inner

\* No step changes the backend of --encoder or leaves it.
LEMMA OverrideStep == OverrideInv /\ [Next]_vars => OverrideInv'
<1> SUFFICES ASSUME OverrideInv, [Next]_vars PROVE OverrideInv'
  OBVIOUS
<1> USE DEF OverrideInv, env, driven
<1>1. CASE Call
  BY <1>1 DEF Call
<1>2. CASE \E level \in Levels : FrameEncoded(level)
  BY <1>2 DEF FrameEncoded
<1>3. CASE \E lost \in BOOLEAN : FailsOver(lost)
  BY <1>3 DEF FailsOver, NoSwap, Swap, Candidates
<1>4. CASE \E lost \in BOOLEAN : AttemptFails(lost)
  BY <1>4 DEF AttemptFails
<1>5. CASE Change \/ Tick \/ UNCHANGED vars
  BY <1>5 DEF Change, Tick, vars
<1> QED BY <1>1, <1>2, <1>3, <1>4, <1>5 DEF Next, Attempt

\* Only a swap changes the backend in use.
LEMMA StepWaits ==
  ASSUME CooldownInv, OverrideInv, [Next]_vars, inner' # inner
  PROVE  since[inner'] >= Backoff[fails[inner']] /\ user_override = None
<1>1. \E lost \in BOOLEAN : FailsOver(lost)
  BY DEF Next, Attempt, Call, FrameEncoded, AttemptFails, Change, Tick, vars, driven
<1>2. PICK next \in Backends : Swap(next)
  BY <1>1 DEF FailsOver, NoSwap, driven
<1>3. inner' = next /\ next # inner /\ cool[next].left = 0 /\ user_override \in {None, next}
  BY <1>2 DEF Swap, Candidates
<1>4. /\ cool[next].len = Backoff[fails[next]]
      /\ since[next] + cool[next].left >= cool[next].len
      /\ since[next] \in 0..CooldownMax
  BY DEF CooldownInv
<1>5. since[next] >= Backoff[fails[next]]
  BY <1>3, <1>4, PolicyAssumption
<1> QED BY <1>3, <1>5 DEF OverrideInv

\* A failover waits out the backend's backoff and never leaves the backend of
\* --encoder (swap_to_next, rank and record_failure of media-policy).
THEOREM FailoverKeepsBackoff == Spec => SwapsAllowed
<1>1. Init => CooldownInv /\ OverrideInv
  BY CooldownInit DEF Init, OverrideInv
<1>2. CooldownInv /\ OverrideInv /\ [Next]_vars => CooldownInv' /\ OverrideInv'
  BY CooldownStep, OverrideStep
<1>3. CooldownInv /\ OverrideInv /\ [Next]_vars
        => [inner' # inner => /\ since[inner'] >= Backoff[fails[inner']]
                              /\ user_override = None]_vars
  BY StepWaits
<1> QED BY <1>1, <1>2, <1>3, PTL DEF Spec, SwapsAllowed

\* The encoder in use encodes at the bitrate set last, across degradations and
\* failovers.
THEOREM EncoderRetainsBitrate == Spec => []BitrateRetained
<1>1. Init => BitrateRetained
  BY DEF Init, BitrateRetained
<1>2. BitrateRetained /\ [Next]_vars => BitrateRetained'
  <2> SUFFICES ASSUME BitrateRetained, [Next]_vars PROVE BitrateRetained'
    OBVIOUS
  <2> USE DEF BitrateRetained, driven
  <2>1. CASE Call
    BY <2>1 DEF Call
  <2>2. CASE \E level \in Levels : FrameEncoded(level)
    BY <2>2 DEF FrameEncoded
  <2>3. CASE \E lost \in BOOLEAN : FailsOver(lost)
    BY <2>3 DEF FailsOver, NoSwap, Swap, Retained
  <2>4. CASE \E lost \in BOOLEAN : AttemptFails(lost)
    BY <2>4 DEF AttemptFails
  <2>5. CASE Change \/ Tick \/ UNCHANGED vars
    BY <2>5 DEF Change, Tick, vars
  <2> QED BY <2>1, <2>2, <2>3, <2>4, <2>5 DEF Next, Attempt
<1> QED BY <1>1, <1>2, PTL DEF Spec

-----------------------------------------------------------------------------
\* What the monitor counts stays within its thresholds.
Monitors == [state : States, failures : 0..failure_threshold,
             deg : 0..deg_window_count_required, rec : 0..rec_window_count_required,
             frames : 0..window_size_frames - 1, idle : 0..no_success_timeout + 1]

\* The thresholds are numbers.
LEMMA Thresholds ==
  /\ window_size_frames \in Nat /\ window_size_frames >= 1
  /\ deg_window_count_required \in Nat /\ deg_window_count_required >= 1
  /\ rec_window_count_required \in Nat /\ rec_window_count_required >= 1
  /\ failure_threshold \in Nat /\ failure_threshold >= 1
  /\ no_success_timeout \in Nat /\ Bitrates \subseteq Nat /\ initial_bitrate_bps \in Nat
  /\ MaxChanges \in Nat /\ None \notin Backends
BY PolicyAssumption

\* record_encode keeps the monitor's counters within their thresholds.
LEMMA EncodeMonitored ==
  ASSUME NEW m \in Monitors, NEW level \in Levels, LevelPossible(m, level)
  PROVE  RecordEncode(m, level) \in Monitors
<1> DEFINE deg == IF level = "within" THEN m.deg ELSE IF level = "over" THEN m.deg + 1 ELSE 0
           rec == IF level = "within" THEN m.rec ELSE IF level = "under" THEN m.rec + 1 ELSE 0
           frames == IF level = "within" THEN m.frames + 1 ELSE 0
           c == [state |-> m.state, failures |-> 0, deg |-> deg, rec |-> rec,
                 frames |-> frames, idle |-> 0]
<1>1. /\ m.state \in States /\ m.deg \in 0..deg_window_count_required
      /\ m.rec \in 0..rec_window_count_required /\ m.frames \in 0..window_size_frames - 1
  BY DEF Monitors
<1>2. m = [state |-> m.state, failures |-> m.failures, deg |-> m.deg, rec |-> m.rec,
           frames |-> m.frames, idle |-> m.idle]
  BY DEF Monitors
<1>3. Counted(m, level) = c
  <2>1. Counted(m, level) =
          [m EXCEPT !.failures = 0, !.idle = 0, !.frames = frames, !.deg = deg, !.rec = rec]
    BY DEF Counted
  <2> HIDE DEF deg, rec, frames
  <2> QED BY <1>2, <2>1
<1>4. frames \in 0..window_size_frames - 1 /\ deg \in Nat /\ rec \in Nat
  BY <1>1, Thresholds DEF LevelPossible
<1>5. CASE Degrades(m, level)
  <2>1. RecordEncode(m, level) = [state |-> "Degraded", failures |-> 0, deg |-> 0, rec |-> rec,
                                  frames |-> frames, idle |-> 0]
    <3>1. ~Recovers(m, level)
      BY <1>5 DEF Recovers, Degrades
    <3>2. RecordEncode(m, level) = [Counted(m, level) EXCEPT !.state = "Degraded", !.deg = 0]
      BY <1>5, <3>1 DEF RecordEncode
    <3> HIDE DEF deg, rec, frames, c
    <3>3. RecordEncode(m, level) = [c EXCEPT !.state = "Degraded", !.deg = 0]
      BY <1>3, <3>2
    <3> QED BY <3>3 DEF c
  <2>2. deg # 0
    BY <1>3, <1>5, Thresholds DEF Degrades
  <2>3. rec \in 0..rec_window_count_required
    BY <1>1, <2>2, Thresholds
  <2> HIDE DEF rec, frames
  <2> QED BY <1>4, <2>1, <2>3, Thresholds DEF Monitors, States
<1>6. CASE Recovers(m, level) /\ ~Degrades(m, level)
  <2>1. RecordEncode(m, level) = [state |-> "Healthy", failures |-> 0, deg |-> deg, rec |-> 0,
                                  frames |-> frames, idle |-> 0]
    <3>1. RecordEncode(m, level) = [Counted(m, level) EXCEPT !.state = "Healthy", !.rec = 0]
      BY <1>6 DEF RecordEncode
    <3> HIDE DEF deg, rec, frames, c
    <3>2. RecordEncode(m, level) = [c EXCEPT !.state = "Healthy", !.rec = 0]
      BY <1>3, <3>1
    <3> QED BY <3>2 DEF c
  <2>2. rec # 0
    BY <1>3, <1>6, Thresholds DEF Recovers
  <2>3. deg \in 0..deg_window_count_required
    BY <1>1, <2>2, Thresholds
  <2> HIDE DEF deg, frames
  <2> QED BY <1>4, <2>1, <2>3, Thresholds DEF Monitors, States
<1>7. CASE ~Degrades(m, level) /\ ~Recovers(m, level)
  <2>1. RecordEncode(m, level) = [state |-> m.state, failures |-> 0,
                                  deg |-> Capped(deg, deg_window_count_required),
                                  rec |-> Capped(rec, rec_window_count_required),
                                  frames |-> frames, idle |-> 0]
    <3>1. RecordEncode(m, level) =
            [Counted(m, level) EXCEPT !.deg = Capped(@, deg_window_count_required),
                                      !.rec = Capped(@, rec_window_count_required)]
      BY <1>7 DEF RecordEncode
    <3> HIDE DEF deg, rec, frames, c
    <3>2. RecordEncode(m, level) =
            [c EXCEPT !.deg = Capped(@, deg_window_count_required),
                      !.rec = Capped(@, rec_window_count_required)]
      BY <1>3, <3>1
    <3> QED BY <3>2 DEF c
  <2>2. /\ Capped(deg, deg_window_count_required) \in 0..deg_window_count_required
        /\ Capped(rec, rec_window_count_required) \in 0..rec_window_count_required
    BY <1>4, Thresholds DEF Capped
  <2> HIDE DEF deg, rec, frames
  <2> QED BY <1>1, <1>4, <2>1, <2>2, Thresholds DEF Monitors
<1> QED BY <1>5, <1>6, <1>7

\* So does record_failure.
LEMMA FailureMonitored ==
  ASSUME NEW m \in Monitors, NEW lost \in BOOLEAN
  PROVE  RecordFailure(m, lost) \in Monitors
<1> DEFINE n == Capped(m.failures + 1, failure_threshold)
<1>1. n \in 0..failure_threshold
  BY Thresholds DEF Monitors, Capped
<1>2. "Lost" \in States /\ "Failing" \in States
  BY DEF States
<1> HIDE DEF n
<1>3. CASE lost
  BY <1>2, <1>3 DEF RecordFailure, Monitors
<1>4. CASE ~lost
  <2>1. \E s \in {m.state, "Failing"} :
          RecordFailure(m, lost) = [m EXCEPT !.failures = n, !.state = s]
    BY <1>4 DEF RecordFailure, n
  <2> QED BY <1>1, <1>2, <2>1 DEF Monitors
<1> QED BY <1>3, <1>4

\* The types, with what CooldownInv says of the table.
LEMMA TypeStep ==
  ASSUME TypeOK, CooldownInv, CooldownInv', [Next]_vars
  PROVE  TypeOK'
<1> USE DEF env, driven, history
<1>1. /\ cool' \in [Backends -> [len : 0..CooldownMax, left : 0..CooldownMax]]
      /\ since' \in [Backends -> 0..CooldownMax] /\ fails' \in [Backends -> 0..MaxFails]
      /\ inner' \in Backends
  BY DEF CooldownInv
<1>2. /\ cond \in [Backends -> Conditions] /\ avail \subseteq Backends
      /\ changes \in 0..MaxChanges /\ user_override \in Backends \union {None}
      /\ pc \in {"loop", "first", "retry"} /\ out \in {"none", "frame", "error"}
      /\ current_bps \in Nat /\ encoder_bps \in Nat /\ monitor \in Monitors
  BY DEF TypeOK, Monitors
<1>3. FreshMonitor \in Monitors
  BY Thresholds DEF FreshMonitor, Monitors, States
<1>4. SUFFICES /\ cond' \in [Backends -> Conditions] /\ avail' \subseteq Backends
               /\ changes' \in 0..MaxChanges /\ user_override' \in Backends \union {None}
               /\ pc' \in {"loop", "first", "retry"} /\ out' \in {"none", "frame", "error"}
               /\ current_bps' \in Nat /\ encoder_bps' \in Nat /\ monitor' \in Monitors
  BY <1>1 DEF TypeOK, Monitors
<1>5. CASE Call
  BY <1>2, <1>5, Thresholds DEF Call
<1>6. ASSUME NEW level \in Levels, FrameEncoded(level) PROVE TypeOK'
  <2>1. monitor' \in Monitors
    BY <1>2, <1>6, EncodeMonitored DEF FrameEncoded
  <2>2. (current_bps * 85) \div 100 \in Nat
    BY <1>2
  <2>3. current_bps' \in Nat /\ encoder_bps' \in Nat
    BY <1>2, <1>6, <2>2 DEF FrameEncoded
  <2>4. UNCHANGED env /\ pc' = "loop" /\ out' = "frame"
    BY <1>6 DEF FrameEncoded, Returns
  <2> QED BY <1>1, <1>2, <2>1, <2>3, <2>4 DEF TypeOK, Monitors
<1>7. ASSUME NEW lost \in BOOLEAN, FailsOver(lost) PROVE TypeOK'
  <2>1. UNCHANGED env
    BY <1>7 DEF FailsOver
  <2>2. CASE NoSwap(lost)
    <3>1. monitor' \in Monitors
      BY <1>2, <2>2, FailureMonitored DEF NoSwap
    <3> QED BY <1>1, <1>2, <2>1, <2>2, <3>1 DEF NoSwap, Returns, TypeOK, Monitors
  <2>3. CASE \E next \in Backends : Swap(next)
    BY <1>1, <1>2, <1>3, <2>1, <2>3 DEF Swap, Retained, TypeOK, Monitors
  <2> QED BY <1>7, <2>2, <2>3 DEF FailsOver
<1>8. ASSUME NEW lost \in BOOLEAN, AttemptFails(lost) PROVE TypeOK'
  <2>1. monitor' \in Monitors
    BY <1>2, <1>8, FailureMonitored DEF AttemptFails
  <2> QED BY <1>1, <1>2, <1>8, <2>1 DEF AttemptFails, Returns, TypeOK, Monitors
<1>9. CASE Change
  BY <1>2, <1>9, Thresholds DEF Change
<1>10. CASE Tick
  <2>1. monitor' \in Monitors
    <3>1. Capped(monitor.idle + 1, no_success_timeout + 1) \in 0..no_success_timeout + 1
      BY <1>2, Thresholds DEF Monitors, Capped
    <3>2. monitor' = [monitor EXCEPT !.idle = Capped(monitor.idle + 1, no_success_timeout + 1)]
      BY <1>2, <1>10 DEF Tick, Monitors
    <3> QED BY <1>2, <3>1, <3>2 DEF Monitors
  <2> QED BY <1>2, <1>10, <2>1 DEF Tick
<1>11. CASE UNCHANGED vars
  BY <1>2, <1>11 DEF vars
<1> QED BY <1>1, <1>5, <1>6, <1>7, <1>8, <1>9, <1>10, <1>11 DEF Next, Attempt, TypeOK, Monitors

\* The monitor's counters stay within their thresholds, the cooldowns within
\* CooldownMax, for any windows, thresholds and timeouts.
THEOREM TypeCorrect == Spec => []TypeOK
<1>1. Init => TypeOK /\ CooldownInv
  <2>1. ASSUME Init PROVE TypeOK
    <3>1. FreshMonitor \in Monitors
      BY Thresholds DEF FreshMonitor, Monitors, States
    <3>2. cond \in [Backends -> Conditions]
      BY <2>1 DEF Init, Conditions
    <3>3. CooldownInv
      BY <2>1, CooldownInit
    <3> QED BY <2>1, <3>1, <3>2, <3>3, Thresholds DEF Init, TypeOK, CooldownInv, Monitors
  <2> QED BY <2>1, CooldownInit
<1>2. TypeOK /\ CooldownInv /\ [Next]_vars => TypeOK' /\ CooldownInv'
  BY CooldownStep, TypeStep
<1> QED BY <1>1, <1>2, PTL DEF Spec
=============================================================================
