---------------------------- MODULE VideoRecovery ----------------------------
(***************************************************************************)
(* The loops that keep a session's picture right: the host's video loop    *)
(* (crates/host/src/lib.rs) with the producer behind it, the network, the  *)
(* viewer's receive loop with its IdrRequester (crates/viewer/src/lib.rs), *)
(* and the viewer's bitrate ticks (crates/transport/src/bitrate_control.rs)*)
(* with the host's answer to them.                                         *)
(*                                                                         *)
(* A frame is a key frame or a delta; "old" marks one whose number lies    *)
(* below the assembler's window, as after a failover, when the new         *)
(* producer counts from 0.  H264 stands for the policy-driven producers,   *)
(* whose encoder makes key frames only on demand and whose decoder reports *)
(* a missing reference; H265 for the ffmpeg producers, which make one per  *)
(* GOP and whose decoder may show a delta without its reference.  Whether  *)
(* the viewer hears of a delta it has no picture for is `reports`.  What   *)
(* PolicyDriven decides is MediaPolicy, what the assembler does is         *)
(* FrameAssembler.                                                         *)
(***************************************************************************)
EXTENDS Integers, Sequences

CONSTANTS
  min_bps, max_bps,     \* the viewer's range; the host's lower bound is the same
  ai_step_bps,          \* additive increase
  host_max_bps,         \* the host's --bitrate-mbps
  Gop,                  \* frames of an ffmpeg encoder from key frame to key frame
  MaxBehind,            \* bound: frames of a new producer that are below the window
  MaxFrames, MaxRates,  \* bounds: frames and SetBitrate messages under way
  MaxFaults             \* bound: losses, encoder errors and failovers

ASSUME RatesAssumption ==
  /\ {min_bps, max_bps, ai_step_bps, host_max_bps} \subseteq Nat \ {0}
  /\ min_bps =< max_bps /\ min_bps =< host_max_bps
ASSUME BoundsAssumption ==
  /\ {Gop, MaxFrames, MaxRates} \subseteq Nat \ {0}
  /\ {MaxBehind, MaxFaults} \subseteq Nat

VARIABLES
  codec,        \* of the session
  reports,      \* the viewer is told when it has no picture for a delta: a Linux one
                \* is with an empty decoder, any one whose decoder fails on a delta
                \* without its reference; a Windows one takes Ok(None) for success
  producer,     \* "ready", "poisoned" or "gone": its encoder was dropped
  video,        \* the video task: "running" or "dead"
  force_idr,    \* the flag between the host's control and video loops
  idr_pending,  \* the producer's own flag
  behind,       \* frames until the producer's numbers reach the viewer's window
  since_key,    \* frames since the last key frame of an ffmpeg encoder
  rate,         \* the bitrate in force at the host
  frames,       \* frames under way to the viewer
  idr_msg,      \* a RequestIdr is under way to the host
  rates,        \* SetBitrate messages under way to the video loop
  decoder,      \* "empty" (needs_idr), "synced" or "broken": a reference is missing
  marked,       \* IdrRequester.needs_idr_pending
  cooling,      \* less than IDR_COOLDOWN since the last request
  partial,      \* the assembler holds chunks that will not complete a frame
  purged,       \* purged_since_tick > 0
  had_purge,    \* a purge has found something (a history variable)
  target, last_sent,    \* BitrateController
  heard,        \* "sent": the last word on the bitrate is a SetBitrate under way
                \* or taken in; "none" was sent, "lost": it is, "own": the host's,
                \* "refused": the encoder did not take it
  faults        \* how much of the budget MaxFaults is used

session  == <<codec, reports>>
hostVars == <<producer, video, force_idr, idr_pending, behind, since_key, rate>>
netVars  == <<frames, idr_msg, rates, heard>>
viewVars == <<decoder, marked, cooling, partial>>
aimdVars == <<purged, had_purge, target, last_sent>>
vars == <<session, hostVars, netVars, viewVars, aimdVars, faults>>

Frame == [key : BOOLEAN, old : BOOLEAN]

Init ==
  /\ codec \in {"H264", "H265"} /\ reports \in BOOLEAN
  /\ producer = "ready" /\ video = "running"
  /\ force_idr = FALSE /\ idr_pending = TRUE
  /\ behind = 0 /\ since_key = 0 /\ rate = host_max_bps
  /\ frames = <<>> /\ idr_msg = FALSE /\ rates = <<>> /\ heard = "none"
  /\ decoder = "empty" /\ marked = FALSE /\ cooling = FALSE /\ partial = FALSE
  /\ purged = FALSE /\ had_purge = FALSE /\ target = max_bps /\ last_sent = max_bps
  /\ faults = 0

Fault == faults < MaxFaults /\ faults' = faults + 1

-----------------------------------------------------------------------------
(* The host's control loop and its video loop.                             *)

Least(a, b) == IF a < b THEN a ELSE b
Most(a, b)  == IF a < b THEN b ELSE a

\* Mutant of Clamp: no upper limit.
Clamp_Floor(bps) == Most(bps, min_bps)
\* What the control loop makes of the bitrate it is asked for.
Clamp(bps) == Least(Most(bps, min_bps), host_max_bps)

RecvRequestIdr ==
  /\ idr_msg /\ idr_msg' = FALSE /\ force_idr' = TRUE
  /\ UNCHANGED <<session, producer, video, idr_pending, behind, since_key, rate,
                 frames, rates, heard, viewVars, aimdVars, faults>>

Newest(q) == q[Len(q)]

\* The drained bitrate; a producer without an encoder has none to set.
Drained == IF rates # <<>> /\ (codec = "H264" \/ producer = "ready")
           THEN Clamp(Newest(rates)) ELSE rate
\* set_target_bitrate logs that the encoder refused it, and the host goes on: the
\* encoder keeps its old one and `rate` is what PolicyDriven retains.
Refusable == heard' \in IF heard \in {"sent", "refused"} THEN {"sent", "refused"} ELSE {heard}
DrainRates == /\ rates' = <<>> /\ rate' = Drained
              /\ IF rates = <<>> THEN heard' = heard ELSE Refusable

\* The flag swapped into the producer's at the top of every round.
Asked == idr_pending \/ force_idr

GopDue == codec = "H265" /\ since_key >= Gop

Sends(key) ==
  /\ Len(frames) < MaxFrames
  /\ frames' = Append(frames, [key |-> key, old |-> behind > 0])
  /\ behind' = Most(behind - 1, 0)
  /\ since_key' = IF codec = "H265" THEN (IF key THEN 1 ELSE since_key + 1) ELSE 0

\* One round: capture, encode and send.
Encoded == Sends(Asked \/ GopDue) /\ idr_pending' = FALSE

VideoFrame ==
  /\ video = "running" /\ producer = "ready"
  /\ DrainRates /\ force_idr' = FALSE
  /\ Encoded
  /\ UNCHANGED <<session, producer, video, idr_msg, viewVars, aimdVars, faults>>

\* Mutant of KeptByCapture: the flag is taken before the capture.
KeptByCapture_Taken == FALSE
KeptByCapture == Asked

\* The capture has nothing (would_block) or fails: next_frame returns before
\* it takes the flag.
CaptureFails ==
  /\ video = "running" /\ producer = "ready"
  /\ DrainRates /\ force_idr' = FALSE
  /\ idr_pending' = KeptByCapture
  /\ UNCHANGED <<session, producer, video, behind, since_key, frames, idr_msg, viewVars, aimdVars, faults>>

\* encode fails after the flag is taken.  LinuxSwProducer keeps its encoder, the
\* closure of the ffmpeg producers drops theirs.
EncodeFails ==
  /\ video = "running" /\ producer = "ready" /\ Fault
  /\ DrainRates /\ force_idr' = FALSE
  /\ idr_pending' = FALSE
  /\ producer' = IF codec = "H264" THEN "ready" ELSE "gone"
  /\ UNCHANGED <<session, video, behind, since_key, frames, idr_msg, viewVars, aimdVars>>

\* A panic on the blocking pool.
EncoderPanics ==
  /\ video = "running" /\ producer = "ready" /\ Fault
  /\ DrainRates /\ force_idr' = FALSE
  /\ producer' = "poisoned" /\ idr_pending' \in {FALSE, Asked}
  /\ UNCHANGED <<session, video, behind, since_key, frames, idr_msg, viewVars, aimdVars>>

\* PolicyDriven finds the encoder too slow: it lowers the bitrate on its own and
\* asks for a key frame, and the frame just encoded still goes out.
Degrades ==
  /\ video = "running" /\ producer = "ready" /\ codec = "H264" /\ Fault
  /\ rates' = <<>> /\ rate' = (Drained * 17) \div 20 /\ heard' = "own"
  /\ force_idr' = FALSE /\ Sends(Asked) /\ idr_pending' = TRUE
  /\ UNCHANGED <<session, producer, video, idr_msg, viewVars, aimdVars>>

\* A round with a poisoned producer: next_frame returns at once.
PoisonedFrame ==
  /\ video = "running" /\ producer = "poisoned"
  /\ DrainRates /\ force_idr' = FALSE /\ idr_pending' = Asked
  /\ UNCHANGED <<session, producer, video, behind, since_key, frames, idr_msg, viewVars, aimdVars, faults>>

\* next_frame without an encoder panics, which ends the task and nothing else.
EncoderMissing ==
  /\ video = "running" /\ producer = "gone"
  /\ video' = "dead"
  /\ DrainRates /\ force_idr' = FALSE
  /\ UNCHANGED <<session, producer, idr_pending, behind, since_key, frames, idr_msg, viewVars, aimdVars, faults>>

\* PolicyDriven: the first attempt fails, another backend takes over with the
\* retained bitrate and a key frame, and its frames count from 0.  Where there is
\* no other, or it cannot be created, EncodeFails and PoisonedFrame stand for it.
FailsOver ==
  /\ video = "running" /\ codec = "H264"
  /\ IF producer = "ready" THEN Fault ELSE faults' = faults
  /\ rates' = <<>> /\ rate' = Drained /\ Refusable /\ force_idr' = FALSE
  /\ producer' = "ready"
  /\ Len(frames) < MaxFrames
  /\ \E b \in 0..MaxBehind :
       /\ frames' = Append(frames, [key |-> TRUE, old |-> b > 0])
       /\ behind' = Most(b - 1, 0)
  /\ idr_pending' = FALSE
  /\ UNCHANGED <<session, video, since_key, idr_msg, viewVars, aimdVars>>

-----------------------------------------------------------------------------
(* The network, and the viewer's receive loop.                             *)

\* What a frame that does not reach it does to the decoder.
Missed == IF decoder = "synced" THEN "broken" ELSE decoder

\* A frame is lost as a whole, or so many of its chunks are that it stays partial.
LoseFrame ==
  /\ frames # <<>> /\ Fault
  /\ frames' = Tail(frames) /\ decoder' = Missed
  /\ partial' \in (IF Head(frames).old THEN {partial} ELSE {partial, TRUE})
  /\ UNCHANGED <<session, hostVars, idr_msg, rates, heard, marked, cooling, aimdVars>>

LoseRequestIdr ==
  /\ idr_msg /\ idr_msg' = FALSE /\ Fault
  /\ UNCHANGED <<session, hostVars, frames, rates, heard, viewVars, aimdVars>>

LoseRate ==
  /\ rates # <<>> /\ Fault
  /\ rates' = Tail(rates) /\ heard' = IF Len(rates) = 1 THEN "lost" ELSE heard
  /\ UNCHANGED <<session, hostVars, frames, idr_msg, viewVars, aimdVars>>

\* try_send_idr_request, with `m` for the mark.
TrySendIdrRequest(m) ==
  IF m /\ ~cooling
  THEN marked' = FALSE /\ cooling' = TRUE /\ idr_msg' = TRUE
  ELSE marked' = m /\ UNCHANGED <<cooling, idr_msg>>

\* Mutant of MayReport: the outcome Ok(None) of a key frame asks as well.
MayReport_Key(f) ==
  CASE f.key -> BOOLEAN
    [] ~f.key /\ decoder = "synced" -> {FALSE}
    [] ~f.key /\ decoder # "synced" ->
         IF reports /\ (decoder = "empty" \/ codec = "H264") THEN {TRUE} ELSE BOOLEAN
\* Whether the decoder's outcome marks the requester: an error, or on Linux no picture
\* yet from a delta.
MayReport(f) ==
  CASE f.key \/ decoder = "synced" -> {FALSE}
    [] ~f.key /\ decoder # "synced" ->
         IF reports /\ (decoder = "empty" \/ codec = "H264") THEN {TRUE} ELSE BOOLEAN

\* A complete frame leaves the assembler with its first k chunks.  Nothing remembers
\* it, so the parity chunks that follow are taken for the start of a frame.
Leftover == partial' \in {partial, TRUE}

\* Mutant of RecvVideo: a decode error is logged and does not mark.
RecvVideo_NotMarked ==
  /\ frames # <<>> /\ ~Head(frames).old
  /\ frames' = Tail(frames) /\ Leftover
  /\ decoder' = IF Head(frames).key THEN "synced" ELSE decoder
  /\ \E reported \in MayReport(Head(frames)) :
       TrySendIdrRequest(marked \/ (reported /\ decoder = "empty"))
  /\ UNCHANGED <<session, hostVars, rates, heard, aimdVars, faults>>
RecvVideo ==
  /\ frames # <<>> /\ ~Head(frames).old
  /\ frames' = Tail(frames) /\ Leftover
  /\ decoder' = IF Head(frames).key THEN "synced" ELSE decoder
  /\ \E reported \in MayReport(Head(frames)) : TrySendIdrRequest(marked \/ reported)
  /\ UNCHANGED <<session, hostVars, rates, heard, aimdVars, faults>>

\* A frame below the window never leaves recv.
RecvOld ==
  /\ frames # <<>> /\ Head(frames).old
  /\ frames' = Tail(frames) /\ decoder' = Missed
  /\ UNCHANGED <<session, hostVars, idr_msg, rates, heard, marked, cooling, partial,
                 aimdVars, faults>>

\* recv returned nothing for a second: the only place that purges.
RecvTimeout ==
  /\ frames = <<>>
  /\ partial' = FALSE /\ purged' = (purged \/ partial) /\ had_purge' = (had_purge \/ partial)
  /\ TrySendIdrRequest(marked \/ partial)
  /\ UNCHANGED <<session, hostVars, frames, rates, heard, decoder, target, last_sent, faults>>

CooldownOver ==
  /\ cooling /\ cooling' = FALSE
  /\ UNCHANGED <<session, hostVars, netVars, decoder, marked, partial, aimdVars, faults>>

-----------------------------------------------------------------------------
(* The viewer's ticks.                                                     *)

\* aimd_step after a window whose loss ratio lies in the given band.
Stepped(band) ==
  CASE band = "high" -> {Most((target * 7) \div 10, min_bps)}
    [] band = "mid"  -> {target}
    [] band = "low"  -> {target, Least(target + ai_step_bps, max_bps)} \* cooldown_after_md

\* Frames of the window are not counted: with a purge in it the ratio may be any.
Bands == IF purged THEN {"low", "mid", "high"} ELSE {"low"}

\* More than 5 % off what was sent last.
ShouldSend(t) ==
  20 * (IF t < last_sent THEN last_sent - t ELSE t - last_sent) > last_sent

\* Mutant of SendRate: mark_sent without looking at the result.
SendRate_MarkedAnyway(t) ==
  \/ Len(rates) < MaxRates /\ rates' = Append(rates, t) /\ last_sent' = t /\ heard' = "sent"
  \/ last_sent' = t /\ UNCHANGED <<rates, heard>>
\* send_control succeeds, or fails and leaves the last bitrate sent as it was.
SendRate(t) ==
  \/ /\ Len(rates) < MaxRates
     /\ rates' = Append(rates, t) /\ last_sent' = t /\ heard' = "sent"
  \/ UNCHANGED <<rates, last_sent, heard>>

BitrateTick ==
  /\ purged' = FALSE /\ had_purge' = had_purge
  /\ \E band \in Bands : target' \in Stepped(band)
  /\ IF ShouldSend(target') THEN SendRate(target')
                            ELSE UNCHANGED <<rates, last_sent, heard>>
  /\ UNCHANGED <<session, hostVars, frames, idr_msg, viewVars, faults>>

-----------------------------------------------------------------------------
Recv == RecvVideo \/ RecvOld
Next == \/ RecvRequestIdr \/ VideoFrame \/ CaptureFails \/ EncodeFails \/ EncoderPanics \/ Degrades
        \/ PoisonedFrame \/ EncoderMissing \/ FailsOver
        \/ LoseFrame \/ LoseRequestIdr \/ LoseRate
        \/ Recv \/ RecvTimeout \/ CooldownOver \/ BitrateTick
Spec == Init /\ [][Next]_vars

\* The host's tasks and the viewer's receive loop run, the screen can be
\* captured again and again, what was not lost arrives, and time passes.  No failover
\* is due: there may be one backend only, or none that can be created.
Rounds == VideoFrame \/ EncoderMissing
FairSpec == /\ Spec
            /\ WF_vars(Rounds) /\ WF_vars(Recv)
            /\ WF_vars(RecvRequestIdr) /\ WF_vars(CooldownOver)

-----------------------------------------------------------------------------
\* The types, and the bitrate is never above the host's limit, whatever the viewer asks.
TypeOK ==
  /\ codec \in {"H264", "H265"} /\ reports \in BOOLEAN
  /\ producer \in {"ready", "poisoned", "gone"} /\ video \in {"running", "dead"}
  /\ {force_idr, idr_pending, idr_msg, marked, cooling, partial, purged, had_purge} \subseteq BOOLEAN
  /\ behind \in 0..MaxBehind /\ since_key \in 0..Gop
  /\ rate \in 0..host_max_bps
  /\ frames \in Seq(Frame) /\ Len(frames) =< MaxFrames
  /\ rates \in Seq(min_bps..max_bps) /\ Len(rates) =< MaxRates
  /\ decoder \in {"empty", "synced", "broken"} /\ heard \in {"none", "sent", "lost", "own", "refused"}
  /\ target \in min_bps..max_bps /\ last_sent \in min_bps..max_bps
  /\ faults \in 0..MaxFaults

\* Without a loss, an encoder error or a failover the viewer's picture is never
\* broken, and unless a silent second made it purge what the assembler was left with
\* it neither asks for a key frame nor lowers the bitrate (viewer/src/lib.rs
\* try_send_idr_request, aimd_step).
NothingLostNothingAsked ==
  faults = 0 => /\ decoder # "broken"
                /\ had_purge \/ (~idr_msg /\ ~marked /\ ~force_idr /\ target = max_bps)

\* Once the host has taken in all it was sent, it streams at the bitrate the
\* viewer sent last, within its own limits: no failed send, burst of messages or
\* failover leaves the two apart (bitrate_control.rs mark_sent, the drain of
\* host/src/lib.rs).  Four things do: the viewer never sent one, the last was lost,
\* the encoder refused it, the host has degraded since.
RateAgrees ==
  heard = "sent" /\ rates = <<>> /\ producer = "ready" => rate = Clamp(last_sent)

\* A key frame that the host was asked for stays owed until one is encoded or the
\* encoder fails: a capture without a picture does not use it up (host/src/lib.rs
\* swaps the flag before next_frame, next_frame takes its own after the capture).
RequestKept ==
  [][Asked /\ ~Asked' => \/ faults' > faults \/ video' = "dead"
                         \/ frames # frames' /\ frames'[Len(frames')].key]_vars

\* There is nothing that could encode: the ffmpeg producers lose their encoder to one
\* error, and a poisoned one shows nothing unless a failover replaces it.
NoVideo == video = "dead" \/ producer = "poisoned"

\* An encoder that makes key frames on demand only, and a viewer that may not know
\* it needs one.
NobodyAsks == codec = "H264" /\ ~reports

\* Whatever was lost, frames, requests or the answers to them, the viewer's picture
\* is right again some time later, as long as there is video and the viewer is told
\* of what it misses or the encoder makes key frames of itself (the loop of
\* IdrRequester, RequestIdr, force_idr_flag and request_idr).
PictureHeals == []<>(decoder = "synced" \/ NoVideo \/ NobodyAsks)
=============================================================================
