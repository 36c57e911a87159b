------------------------ MODULE VideoRecovery_proofs ------------------------
(***************************************************************************)
(* What VideoRecovery keeps, for all bitrates, GOPs, numbers of frames     *)
(* under way and of faults: its types, that nothing is asked for while     *)
(* nothing is missing, that host and viewer agree on the bitrate, and that *)
(* a key frame asked for stays owed.                                       *)
(***************************************************************************)
EXTENDS VideoRecovery, SequenceTheorems, TLAPS

\* Without a fault the frames form one stream that begins with a key frame: it is
\* owed, under way or shown.
StreamInv ==
  faults = 0 =>
    /\ producer = "ready" /\ behind = 0
    /\ \A i \in 1..Len(frames) : ~frames[i].old
    /\ decoder # "broken"
    /\ decoder = "empty" => IF frames = <<>> THEN idr_pending ELSE frames[1].key
    /\ had_purge \/ (~idr_msg /\ ~marked /\ ~force_idr /\ ~purged /\ target = max_bps)

\* If the last word is the viewer's, it is the newest message or what the host has set,
\* be it that the encoder refused it.
RateInv ==
  heard \in {"sent", "refused"} =>
    IF rates = <<>> THEN codec = "H264" \/ producer = "ready" => rate = Clamp(last_sent)
                    ELSE rates[Len(rates)] = last_sent

IInv == TypeOK /\ StreamInv /\ RateInv

-----------------------------------------------------------------------------
(* The operators.                                                          *)

\* The parameters are numbers.
LEMMA Parameters ==
  /\ min_bps \in Nat /\ min_bps >= 1 /\ max_bps \in Nat /\ min_bps <= max_bps
  /\ ai_step_bps \in Nat /\ host_max_bps \in Nat /\ min_bps <= host_max_bps
  /\ Gop \in Nat /\ Gop >= 1 /\ MaxFrames \in Nat /\ MaxFrames >= 1
  /\ MaxRates \in Nat /\ MaxRates >= 1 /\ MaxBehind \in Nat /\ MaxFaults \in Nat
BY RatesAssumption, BoundsAssumption

\* The host's clamp returns a bitrate it allows.
LEMMA ClampBounds ==
  ASSUME NEW b \in Nat
  PROVE  Clamp(b) \in min_bps..host_max_bps
BY Parameters DEF Clamp, Least, Most

\* What a round makes of the drained messages.
LEMMA DrainedType ==
  ASSUME IInv
  PROVE  /\ Drained \in 0..host_max_bps
         /\ heard \in {"sent", "refused"} /\ (codec = "H264" \/ producer = "ready")
              => Drained = Clamp(last_sent)
<1>1. CASE rates # <<>> /\ (codec = "H264" \/ producer = "ready")
  <2>1. Newest(rates) = rates[Len(rates)] /\ Newest(rates) \in min_bps..max_bps
    <3>1. rates \in Seq(min_bps..max_bps) /\ rates # <<>>
      BY <1>1 DEF IInv, TypeOK
    <3>2. Len(rates) \in 1..Len(rates)
      BY <3>1
    <3>3. rates[Len(rates)] \in min_bps..max_bps
      BY <3>1, <3>2, ElementOfSeq
    <3> QED BY <3>3 DEF Newest
  <2>2. Drained = Clamp(Newest(rates)) /\ Newest(rates) \in Nat
    BY <1>1, <2>1, Parameters DEF Drained
  <2>3. Drained \in min_bps..host_max_bps
    BY <2>2, ClampBounds
  <2>4. heard \in {"sent", "refused"} => Newest(rates) = last_sent
    BY <1>1, <2>1 DEF IInv, RateInv
  <2> QED BY <2>2, <2>3, <2>4, Parameters
<1>2. CASE ~(rates # <<>> /\ (codec = "H264" \/ producer = "ready"))
  BY <1>2 DEF Drained, IInv, TypeOK, RateInv
<1> QED BY <1>1, <1>2

\* Sending a frame appends it.
LEMMA SendsFrame ==
  ASSUME IInv, NEW key \in BOOLEAN, Sends(key), key \/ codec = "H264" \/ since_key < Gop
  PROVE  /\ frames' = Append(frames, [key |-> key, old |-> behind > 0])
         /\ frames' \in Seq(Frame) /\ Len(frames') = Len(frames) + 1 /\ Len(frames') <= MaxFrames
         /\ behind' \in 0..MaxBehind /\ (behind = 0 => behind' = 0)
         /\ since_key' \in 0..Gop
<1>1. [key |-> key, old |-> behind > 0] \in Frame /\ behind \in 0..MaxBehind /\ since_key \in 0..Gop
  BY DEF Frame, IInv, TypeOK
<1>2. codec \in {"H264", "H265"} /\ frames \in Seq(Frame) /\ Len(frames) \in Nat
  BY DEF IInv, TypeOK
<1> QED BY <1>1, <1>2, Parameters DEF Sends, Most

-----------------------------------------------------------------------------
(* The host's steps.                                                       *)

\* A round that drains the bitrates keeps the agreement, unless it revives a
\* producer that could not take them in.
LEMMA Drains ==
  ASSUME IInv, rates' = <<>>, rate' = Drained, heard' = heard \/ Refusable,
         codec' = codec, last_sent' = last_sent,
         codec = "H265" /\ producer' = "ready" => producer = "ready"
  PROVE  /\ RateInv' /\ rates' \in Seq(min_bps..max_bps) /\ Len(rates') <= MaxRates
         /\ rate' \in 0..host_max_bps
         /\ heard' \in {"none", "sent", "lost", "own", "refused"}
<1>1. /\ rates' = <<>> /\ rate' = Drained
      /\ heard' \in {"none", "sent", "lost", "own", "refused"}
      /\ heard' \in {"sent", "refused"} => heard \in {"sent", "refused"}
  BY DEF Refusable, IInv, TypeOK
<1>2. /\ Drained \in 0..host_max_bps
      /\ heard \in {"sent", "refused"} /\ (codec = "H264" \/ producer = "ready")
              => Drained = Clamp(last_sent)
  BY DrainedType
<1>3. codec \in {"H264", "H265"}
  BY DEF IInv, TypeOK
<1>4. heard' \in {"sent", "refused"} /\ (codec' = "H264" \/ producer' = "ready")
        => rate' = Clamp(last_sent')
  BY <1>1, <1>2, <1>3
<1>5. RateInv'
  BY <1>1, <1>4 DEF RateInv, Clamp, Least, Most
<1>6. rates' \in Seq(min_bps..max_bps) /\ Len(rates') = 0
  BY <1>1
<1> QED BY <1>1, <1>2, <1>5, <1>6, Parameters

\* A stream goes on with the frame a round sends.
LEMMA StreamGoesOn ==
  ASSUME IInv, NEW key \in BOOLEAN, Sends(key), idr_pending => key,
         producer' = producer, decoder' = decoder, had_purge' = had_purge,
         idr_msg' = idr_msg, marked' = marked, force_idr' = FALSE, purged' = purged,
         target' = target, faults' = faults,
         key \/ codec = "H264" \/ since_key < Gop
  PROVE  StreamInv'
<1> SUFFICES ASSUME faults = 0
             PROVE  /\ producer' = "ready" /\ behind' = 0
                    /\ \A i \in 1..Len(frames') : ~frames'[i].old
                    /\ decoder' # "broken"
                    /\ decoder' = "empty" => IF frames' = <<>> THEN idr_pending' ELSE frames'[1].key
                    /\ had_purge' \/ (~idr_msg' /\ ~marked' /\ ~force_idr' /\ ~purged'
                                      /\ target' = max_bps)
  BY DEF StreamInv
<1>1. /\ producer = "ready" /\ behind = 0
      /\ \A i \in 1..Len(frames) : ~frames[i].old
      /\ decoder # "broken"
      /\ decoder = "empty" => IF frames = <<>> THEN idr_pending ELSE frames[1].key
      /\ had_purge \/ (~idr_msg /\ ~marked /\ ~force_idr /\ ~purged /\ target = max_bps)
  BY DEF IInv, StreamInv
<1> DEFINE new == [key |-> key, old |-> behind > 0]
<1>2. frames' = Append(frames, new) /\ behind' = 0 /\ frames \in Seq(Frame) /\ new \in Frame
  BY <1>1, SendsFrame DEF IInv, TypeOK, Frame
<1>3. new.key = key /\ ~new.old
  <2>1. ~(behind > 0)
    BY <1>1
  <2> QED BY <2>1
<1> HIDE DEF new
<1>4. /\ Len(frames') = Len(frames) + 1 /\ frames' # <<>> /\ Len(frames) \in Nat
      /\ \A i \in 1..Len(frames) : frames'[i] = frames[i]
      /\ frames'[Len(frames) + 1] = new
  BY <1>2, AppendProperties
<1>5. \A i \in 1..Len(frames') : ~frames'[i].old
  BY <1>1, <1>3, <1>4
<1>6. decoder' = "empty" => frames'[1].key
  <2>1. CASE frames = <<>>
    <3>1. Len(frames) = 0
      BY <2>1
    <3>2. frames'[1] = new
      BY <1>4, <3>1
    <3>3. decoder' = "empty" => idr_pending
      BY <1>1, <2>1
    <3> QED BY <1>3, <3>2, <3>3
  <2>2. CASE frames # <<>>
    <3>1. 1 \in 1..Len(frames)
      BY <1>2, <2>2
    <3>2. frames'[1] = frames[1]
      BY <1>4, <3>1
    <3>3. decoder' = "empty" => frames[1].key
      BY <1>1, <2>2
    <3> QED BY <3>2, <3>3
  <2> QED BY <2>1, <2>2
<1>7. decoder' = "empty" => IF frames' = <<>> THEN idr_pending' ELSE frames'[1].key
  BY <1>4, <1>6
<1>8. had_purge' \/ (~idr_msg' /\ ~marked' /\ ~force_idr' /\ ~purged' /\ target' = max_bps)
  BY <1>1
<1> QED BY <1>1, <1>2, <1>5, <1>7, <1>8

\* Capture, encode and send.
LEMMA VideoFrameInv ==
  ASSUME IInv, VideoFrame
  PROVE  IInv'
<1> DEFINE key == Asked \/ GopDue
<1>1. key \in BOOLEAN /\ Sends(key) /\ (idr_pending => key)
  BY DEF VideoFrame, Encoded, Asked, GopDue
<1>2. key \/ codec = "H264" \/ since_key < Gop
  BY Parameters DEF GopDue, IInv, TypeOK
<1> HIDE DEF key
<1>3. /\ frames' \in Seq(Frame) /\ Len(frames') <= MaxFrames
      /\ behind' \in 0..MaxBehind /\ since_key' \in 0..Gop
  BY <1>1, <1>2, SendsFrame
<1>4. /\ RateInv' /\ rates' \in Seq(min_bps..max_bps) /\ Len(rates') <= MaxRates
      /\ rate' \in 0..host_max_bps
      /\ heard' \in {"none", "sent", "lost", "own", "refused"}
  BY Drains DEF VideoFrame, DrainRates, session, aimdVars
<1>5. StreamInv'
  BY <1>1, <1>2, StreamGoesOn DEF VideoFrame, session, viewVars, aimdVars
<1>6. TypeOK'
  BY <1>3, <1>4 DEF IInv, TypeOK, VideoFrame, Encoded, session, viewVars, aimdVars
<1> QED BY <1>4, <1>5, <1>6 DEF IInv

\* A capture without a picture leaves the key frame owed.
LEMMA CaptureFailsInv ==
  ASSUME IInv, CaptureFails
  PROVE  IInv'
<1>1. /\ RateInv' /\ rates' \in Seq(min_bps..max_bps) /\ Len(rates') <= MaxRates
      /\ rate' \in 0..host_max_bps
      /\ heard' \in {"none", "sent", "lost", "own", "refused"}
  BY Drains DEF CaptureFails, DrainRates, session, aimdVars
<1>2. idr_pending' \in BOOLEAN /\ (idr_pending => idr_pending')
  BY DEF CaptureFails, KeptByCapture, Asked, IInv, TypeOK
<1>3. TypeOK'
  BY <1>1, <1>2 DEF IInv, TypeOK, CaptureFails, session, viewVars, aimdVars
<1>4. StreamInv'
  BY <1>2 DEF IInv, StreamInv, CaptureFails, session, viewVars, aimdVars
<1> QED BY <1>1, <1>3, <1>4 DEF IInv

\* After a fault nothing is said of the stream.
LEMMA FaultCounts ==
  ASSUME IInv, Fault
  PROVE  faults' \in 0..MaxFaults /\ faults' # 0 /\ faults' > faults /\ StreamInv'
<1>1. faults' \in 0..MaxFaults /\ faults' # 0 /\ faults' > faults
  BY Parameters DEF Fault, IInv, TypeOK
<1> QED BY <1>1 DEF StreamInv

\* An encode error.
LEMMA EncodeFailsInv ==
  ASSUME IInv, EncodeFails
  PROVE  IInv'
<1>1. faults' \in 0..MaxFaults /\ StreamInv'
  BY FaultCounts DEF EncodeFails
<1>2. /\ RateInv' /\ rates' \in Seq(min_bps..max_bps) /\ Len(rates') <= MaxRates
      /\ rate' \in 0..host_max_bps
      /\ heard' \in {"none", "sent", "lost", "own", "refused"}
  BY Drains DEF EncodeFails, DrainRates, session, IInv, TypeOK, aimdVars
<1>3. TypeOK'
  BY <1>1, <1>2 DEF IInv, TypeOK, EncodeFails, session, viewVars, aimdVars
<1> QED BY <1>1, <1>2, <1>3 DEF IInv

\* A panic of the encoder.
LEMMA EncoderPanicsInv ==
  ASSUME IInv, EncoderPanics
  PROVE  IInv'
<1>1. faults' \in 0..MaxFaults /\ StreamInv'
  BY FaultCounts DEF EncoderPanics
<1>2. /\ RateInv' /\ rates' \in Seq(min_bps..max_bps) /\ Len(rates') <= MaxRates
      /\ rate' \in 0..host_max_bps
      /\ heard' \in {"none", "sent", "lost", "own", "refused"}
  BY Drains DEF EncoderPanics, DrainRates, session, aimdVars
<1>3. idr_pending' \in BOOLEAN
  BY DEF EncoderPanics, Asked, IInv, TypeOK
<1>4. TypeOK'
  BY <1>1, <1>2, <1>3 DEF IInv, TypeOK, EncoderPanics, session, viewVars, aimdVars
<1> QED BY <1>1, <1>2, <1>4 DEF IInv

\* A degradation: the host has the last word on the bitrate.
LEMMA DegradesInv ==
  ASSUME IInv, Degrades
  PROVE  IInv'
<1>1. faults' \in 0..MaxFaults /\ StreamInv'
  BY FaultCounts DEF Degrades
<1>2. RateInv'
  BY DEF Degrades, RateInv
<1>3. Drained \in 0..host_max_bps
  BY DrainedType
<1>4. (Drained * 17) \div 20 \in 0..host_max_bps
  BY <1>3, Parameters
<1>5. Asked \in BOOLEAN /\ Sends(Asked) /\ codec = "H264"
  BY DEF Degrades, Asked, IInv, TypeOK
<1>6. /\ frames' \in Seq(Frame) /\ Len(frames') <= MaxFrames
      /\ behind' \in 0..MaxBehind /\ since_key' \in 0..Gop
  BY <1>5, SendsFrame
<1>7. rates' \in Seq(min_bps..max_bps) /\ Len(rates') <= MaxRates
  BY Parameters DEF Degrades
<1>8. TypeOK'
  BY <1>1, <1>4, <1>6, <1>7 DEF IInv, TypeOK, Degrades, session, viewVars, aimdVars
<1> QED BY <1>1, <1>2, <1>8 DEF IInv

\* A round with a poisoned producer.
LEMMA PoisonedFrameInv ==
  ASSUME IInv, PoisonedFrame
  PROVE  IInv'
<1>1. faults' # 0
  BY DEF PoisonedFrame, IInv, StreamInv
<1>2. /\ RateInv' /\ rates' \in Seq(min_bps..max_bps) /\ Len(rates') <= MaxRates
      /\ rate' \in 0..host_max_bps
      /\ heard' \in {"none", "sent", "lost", "own", "refused"}
  BY Drains DEF PoisonedFrame, DrainRates, session, aimdVars
<1>3. idr_pending' \in BOOLEAN
  BY DEF PoisonedFrame, Asked, IInv, TypeOK
<1>4. TypeOK'
  BY <1>2, <1>3 DEF IInv, TypeOK, PoisonedFrame, session, viewVars, aimdVars
<1> QED BY <1>1, <1>2, <1>4 DEF IInv, StreamInv

\* The panic of a round without an encoder.
LEMMA EncoderMissingInv ==
  ASSUME IInv, EncoderMissing
  PROVE  IInv'
<1>1. faults' # 0
  BY DEF EncoderMissing, IInv, StreamInv
<1>2. /\ RateInv' /\ rates' \in Seq(min_bps..max_bps) /\ Len(rates') <= MaxRates
      /\ rate' \in 0..host_max_bps
      /\ heard' \in {"none", "sent", "lost", "own", "refused"}
  BY Drains DEF EncoderMissing, DrainRates, session, aimdVars
<1>3. TypeOK'
  BY <1>2 DEF IInv, TypeOK, EncoderMissing, session, viewVars, aimdVars
<1> QED BY <1>1, <1>2, <1>3 DEF IInv, StreamInv

\* A failover: the next producer's numbers may lie below the window.
LEMMA FailsOverInv ==
  ASSUME IInv, FailsOver
  PROVE  IInv'
<1>1. faults' \in 0..MaxFaults /\ faults' # 0
  <2>1. CASE producer = "ready"
    BY <2>1, FaultCounts DEF FailsOver
  <2>2. CASE producer # "ready"
    BY <2>2 DEF FailsOver, IInv, TypeOK, StreamInv
  <2> QED BY <2>1, <2>2
<1>2. /\ RateInv' /\ rates' \in Seq(min_bps..max_bps) /\ Len(rates') <= MaxRates
      /\ rate' \in 0..host_max_bps
      /\ heard' \in {"none", "sent", "lost", "own", "refused"}
  BY Drains DEF FailsOver, session, aimdVars
<1>3. PICK b \in 0..MaxBehind : /\ frames' = Append(frames, [key |-> TRUE, old |-> b > 0])
                                /\ behind' = Most(b - 1, 0)
  BY DEF FailsOver
<1>4. behind' \in 0..MaxBehind
  BY <1>3, Parameters DEF Most
<1>5. frames' \in Seq(Frame) /\ Len(frames') <= MaxFrames
  <2>1. [key |-> TRUE, old |-> b > 0] \in Frame /\ frames \in Seq(Frame)
    BY DEF Frame, IInv, TypeOK
  <2>2. Len(frames) < MaxFrames
    BY DEF FailsOver
  <2> QED BY <1>3, <2>1, <2>2, Parameters
<1>6. TypeOK'
  BY <1>1, <1>2, <1>4, <1>5 DEF IInv, TypeOK, FailsOver, session, viewVars, aimdVars
<1> QED BY <1>1, <1>2, <1>6 DEF IInv, StreamInv

\* The host takes in a request.
LEMMA RecvRequestIdrInv ==
  ASSUME IInv, RecvRequestIdr
  PROVE  IInv'
<1>1. TypeOK'
  BY DEF IInv, TypeOK, RecvRequestIdr, session, viewVars, aimdVars
<1>2. StreamInv'
  BY DEF IInv, StreamInv, RecvRequestIdr, session, viewVars, aimdVars
<1>3. RateInv'
  BY DEF IInv, RateInv, RecvRequestIdr, session, viewVars, aimdVars, Clamp, Least, Most
<1> QED BY <1>1, <1>2, <1>3 DEF IInv

-----------------------------------------------------------------------------
(* The network's steps and the viewer's.                                   *)

\* The bitrate is a matter of five variables.
LEMMA RateUnchanged ==
  ASSUME IInv, UNCHANGED <<heard, rates, codec, producer, rate, last_sent>>
  PROVE  RateInv'
BY DEF IInv, RateInv, Clamp, Least, Most

\* The rest of a queue of frames.
LEMMA FramesTail ==
  ASSUME IInv, frames # <<>>
  PROVE  /\ Head(frames) \in Frame /\ Head(frames) = frames[1]
         /\ Tail(frames) \in Seq(Frame) /\ Len(Tail(frames)) = Len(frames) - 1
         /\ Len(frames) \in Nat \ {0}
         /\ \A i \in 1..Len(Tail(frames)) : Tail(frames)[i] = frames[i + 1]
BY HeadTailProperties DEF IInv, TypeOK

\* A lost frame.
LEMMA LoseFrameInv ==
  ASSUME IInv, LoseFrame
  PROVE  IInv'
<1>1. faults' \in 0..MaxFaults /\ StreamInv'
  BY FaultCounts DEF LoseFrame
<1>2. frames' \in Seq(Frame) /\ Len(frames') <= MaxFrames
  <2>1. frames # <<>> /\ frames' = Tail(frames)
    BY DEF LoseFrame
  <2>2. Len(frames) <= MaxFrames
    BY DEF IInv, TypeOK
  <2> QED BY <2>1, <2>2, FramesTail, Parameters
<1>3. partial' \in BOOLEAN /\ decoder' \in {"empty", "synced", "broken"}
  BY DEF LoseFrame, Missed, IInv, TypeOK
<1>4. TypeOK'
  BY <1>1, <1>2, <1>3 DEF IInv, TypeOK, LoseFrame, session, hostVars, aimdVars
<1>5. RateInv'
  BY RateUnchanged DEF LoseFrame, session, hostVars, aimdVars
<1> QED BY <1>1, <1>4, <1>5 DEF IInv

\* A lost request.
LEMMA LoseRequestIdrInv ==
  ASSUME IInv, LoseRequestIdr
  PROVE  IInv'
<1>1. faults' \in 0..MaxFaults /\ StreamInv'
  BY FaultCounts DEF LoseRequestIdr
<1>2. TypeOK'
  BY <1>1 DEF IInv, TypeOK, LoseRequestIdr, session, hostVars, viewVars, aimdVars
<1>3. RateInv'
  BY RateUnchanged DEF LoseRequestIdr, session, hostVars, aimdVars
<1> QED BY <1>1, <1>2, <1>3 DEF IInv

\* A lost SetBitrate: if it was the newest, the host does not know better.
LEMMA LoseRateInv ==
  ASSUME IInv, LoseRate
  PROVE  IInv'
<1>1. faults' \in 0..MaxFaults /\ StreamInv'
  BY FaultCounts DEF LoseRate
<1>2. /\ rates \in Seq(min_bps..max_bps) /\ rates # <<>> /\ rates' = Tail(rates)
      /\ Len(rates) <= MaxRates
  BY DEF LoseRate, IInv, TypeOK
<1>3. /\ rates' \in Seq(min_bps..max_bps) /\ Len(rates') = Len(rates) - 1
      /\ Len(rates) \in Nat \ {0}
      /\ \A i \in 1..Len(rates') : rates'[i] = rates[i + 1]
  BY <1>2, HeadTailProperties
<1>4. heard' \in {"none", "sent", "lost", "own", "refused"}
  BY DEF LoseRate, IInv, TypeOK
<1>5. TypeOK'
  <2>1. Len(rates') <= MaxRates
    BY <1>2, <1>3, Parameters
  <2> QED BY <1>1, <1>3, <1>4, <2>1 DEF IInv, TypeOK, LoseRate, session, hostVars, viewVars, aimdVars
<1>6. RateInv'
  <2>1. CASE Len(rates) = 1
    BY <2>1 DEF LoseRate, RateInv
  <2>2. CASE Len(rates) # 1
    <3>1. rates' # <<>> /\ Len(rates') \in 1..Len(rates')
      BY <1>3, <2>2
    <3>2. rates'[Len(rates')] = rates[Len(rates)]
      BY <1>3, <3>1
    <3>3. heard' = heard /\ last_sent' = last_sent
      BY <2>2 DEF LoseRate, session, aimdVars
    <3>4. heard \in {"sent", "refused"} => rates[Len(rates)] = last_sent
      BY <1>2 DEF IInv, RateInv
    <3> QED BY <3>1, <3>2, <3>3, <3>4 DEF RateInv
  <2> QED BY <2>1, <2>2
<1> QED BY <1>1, <1>5, <1>6 DEF IInv

\* What a request leaves behind.
LEMMA TriesToSend ==
  ASSUME IInv, NEW m \in BOOLEAN, TrySendIdrRequest(m)
  PROVE  /\ {marked', cooling', idr_msg'} \subseteq BOOLEAN
         /\ ~m /\ ~idr_msg => ~marked' /\ ~idr_msg'
BY DEF TrySendIdrRequest, IInv, TypeOK

\* A frame below the window.
LEMMA RecvOldInv ==
  ASSUME IInv, RecvOld
  PROVE  IInv'
<1>1. frames # <<>> /\ Head(frames).old /\ frames' = Tail(frames)
  BY DEF RecvOld
<1>2. faults # 0
  <2>1. 1 \in 1..Len(frames) /\ frames[1].old
    BY <1>1, FramesTail
  <2> QED BY <2>1 DEF IInv, StreamInv
<1>3. frames' \in Seq(Frame) /\ Len(frames') <= MaxFrames
  <2>1. Len(frames) <= MaxFrames
    BY DEF IInv, TypeOK
  <2> QED BY <1>1, <2>1, FramesTail, Parameters
<1>4. decoder' \in {"empty", "synced", "broken"}
  BY DEF RecvOld, Missed, IInv, TypeOK
<1>5. TypeOK'
  BY <1>3, <1>4 DEF IInv, TypeOK, RecvOld, session, hostVars, aimdVars
<1>6. StreamInv'
  BY <1>2 DEF RecvOld, StreamInv
<1>7. RateInv'
  BY RateUnchanged DEF RecvOld, session, hostVars, aimdVars
<1> QED BY <1>5, <1>6, <1>7 DEF IInv

\* A frame that is decoded.
LEMMA RecvVideoInv ==
  ASSUME IInv, RecvVideo
  PROVE  IInv'
<1>1. frames # <<>> /\ frames' = Tail(frames) /\ Head(frames) \in Frame
  BY FramesTail DEF RecvVideo
<1>2. PICK reported \in MayReport(Head(frames)) : TrySendIdrRequest(marked \/ reported)
  BY DEF RecvVideo
<1>3. reported \in BOOLEAN
  BY <1>1 DEF MayReport, IInv, TypeOK
<1>4. /\ {marked', cooling', idr_msg'} \subseteq BOOLEAN
      /\ ~marked /\ ~reported /\ ~idr_msg => ~marked' /\ ~idr_msg'
  <2>1. (marked \/ reported) \in BOOLEAN
    BY <1>3
  <2> QED BY <1>2, <2>1, TriesToSend
<1>5. frames' \in Seq(Frame) /\ Len(frames') <= MaxFrames
  <2>1. Len(frames) <= MaxFrames
    BY DEF IInv, TypeOK
  <2> QED BY <1>1, <2>1, FramesTail, Parameters
<1>6. decoder' \in {"empty", "synced", "broken"} /\ partial' \in BOOLEAN
  BY DEF RecvVideo, Leftover, IInv, TypeOK
<1>7. TypeOK'
  BY <1>4, <1>5, <1>6 DEF IInv, TypeOK, RecvVideo, session, hostVars, aimdVars
<1>8. StreamInv'
  <2> SUFFICES ASSUME faults = 0
               PROVE  /\ producer' = "ready" /\ behind' = 0
                      /\ \A i \in 1..Len(frames') : ~frames'[i].old
                      /\ decoder' = "synced"
                      /\ had_purge' \/ (~idr_msg' /\ ~marked' /\ ~force_idr' /\ ~purged'
                                        /\ target' = max_bps)
    BY DEF StreamInv, RecvVideo
  <2>1. /\ producer = "ready" /\ behind = 0
        /\ \A i \in 1..Len(frames) : ~frames[i].old
        /\ decoder \in {"empty", "synced"} /\ (decoder = "empty" => Head(frames).key)
        /\ had_purge \/ (~idr_msg /\ ~marked /\ ~force_idr /\ ~purged /\ target = max_bps)
    BY <1>1, FramesTail DEF IInv, TypeOK, StreamInv
  <2>2. decoder' = "synced" /\ ~reported
    BY <1>1, <2>1 DEF RecvVideo, MayReport
  <2>3. \A i \in 1..Len(frames') : ~frames'[i].old
    <3>1. ASSUME NEW i \in 1..Len(frames') PROVE ~frames'[i].old
      <4>1. i + 1 \in 1..Len(frames) /\ frames'[i] = frames[i + 1]
        BY <1>1, FramesTail
      <4> QED BY <2>1, <4>1
    <3> QED BY <3>1
  <2> QED BY <1>4, <2>1, <2>2, <2>3 DEF RecvVideo, session, hostVars, aimdVars
<1>9. RateInv'
  BY RateUnchanged DEF RecvVideo, session, hostVars, aimdVars
<1> QED BY <1>7, <1>8, <1>9 DEF IInv

\* A silent second.
LEMMA RecvTimeoutInv ==
  ASSUME IInv, RecvTimeout
  PROVE  IInv'
<1>1. (marked \/ partial) \in BOOLEAN /\ TrySendIdrRequest(marked \/ partial)
  BY DEF RecvTimeout, IInv, TypeOK
<1>2. /\ {marked', cooling', idr_msg'} \subseteq BOOLEAN
      /\ ~marked /\ ~partial /\ ~idr_msg => ~marked' /\ ~idr_msg'
  BY <1>1, TriesToSend
<1>3. TypeOK'
  BY <1>2 DEF IInv, TypeOK, RecvTimeout, session, hostVars
<1>4. StreamInv'
  BY <1>2 DEF IInv, StreamInv, RecvTimeout, session, hostVars
<1>5. RateInv'
  BY RateUnchanged DEF RecvTimeout, session, hostVars
<1> QED BY <1>3, <1>4, <1>5 DEF IInv

\* The request's cooldown.
LEMMA CooldownOverInv ==
  ASSUME IInv, CooldownOver
  PROVE  IInv'
<1>1. TypeOK'
  BY DEF IInv, TypeOK, CooldownOver, session, hostVars, netVars, aimdVars
<1>2. StreamInv'
  BY DEF IInv, StreamInv, CooldownOver, session, hostVars, netVars, aimdVars
<1>3. RateInv'
  BY RateUnchanged DEF CooldownOver, session, hostVars, netVars, aimdVars
<1> QED BY <1>1, <1>2, <1>3 DEF IInv

\* A tick of the bitrate.
LEMMA BitrateTickInv ==
  ASSUME IInv, BitrateTick
  PROVE  IInv'
<1>1. PICK band \in Bands : target' \in Stepped(band)
  BY DEF BitrateTick
<1>2. target \in min_bps..max_bps /\ last_sent \in min_bps..max_bps
  BY DEF IInv, TypeOK
<1>3. band \in {"low", "mid", "high"} /\ (~purged => band = "low")
  BY <1>1 DEF Bands
<1>4. target' \in min_bps..max_bps /\ (~purged /\ target = max_bps => target' = max_bps)
  <2>1. CASE band = "high"
    <3>1. target' = Most((target * 7) \div 10, min_bps)
      BY <1>1, <2>1 DEF Stepped
    <3>2. (target * 7) \div 10 \in 0..max_bps
      BY <1>2, Parameters
    <3> QED BY <1>3, <2>1, <3>1, <3>2, Parameters DEF Most
  <2>2. CASE band = "mid"
    BY <1>1, <1>2, <1>3, <2>2 DEF Stepped
  <2>3. CASE band = "low"
    <3>1. target' = target \/ target' = Least(target + ai_step_bps, max_bps)
      BY <1>1, <2>3 DEF Stepped
    <3> QED BY <1>2, <3>1, Parameters DEF Least
  <2> QED BY <1>3, <2>1, <2>2, <2>3
<1>5. \/ UNCHANGED <<rates, last_sent, heard>>
      \/ /\ Len(rates) < MaxRates
         /\ rates' = Append(rates, target') /\ last_sent' = target' /\ heard' = "sent"
  BY DEF BitrateTick, SendRate
<1>6. /\ RateInv' /\ rates' \in Seq(min_bps..max_bps) /\ Len(rates') <= MaxRates
      /\ last_sent' \in min_bps..max_bps /\ heard' \in {"none", "sent", "lost", "own", "refused"}
  <2>1. CASE UNCHANGED <<rates, last_sent, heard>>
    BY <2>1, RateUnchanged DEF IInv, TypeOK, BitrateTick, session, hostVars
  <2>2. CASE /\ Len(rates) < MaxRates
             /\ rates' = Append(rates, target') /\ last_sent' = target' /\ heard' = "sent"
    <3>1. rates \in Seq(min_bps..max_bps) /\ Len(rates) \in Nat
      BY DEF IInv, TypeOK
    <3>2. /\ rates' \in Seq(min_bps..max_bps) /\ Len(rates') = Len(rates) + 1
          /\ rates'[Len(rates) + 1] = target'
      BY <1>4, <2>2, <3>1, AppendProperties
    <3>3. rates' # <<>> /\ rates'[Len(rates')] = last_sent'
      BY <2>2, <3>1, <3>2
    <3>4. RateInv'
      BY <3>3 DEF RateInv
    <3> QED BY <1>4, <2>2, <3>1, <3>2, <3>4, Parameters
  <2> QED BY <1>5, <2>1, <2>2
<1>7. TypeOK'
  BY <1>4, <1>6 DEF IInv, TypeOK, BitrateTick, session, hostVars, viewVars
<1>8. StreamInv'
  BY <1>4 DEF IInv, StreamInv, BitrateTick, session, hostVars, viewVars
<1> QED BY <1>6, <1>7, <1>8 DEF IInv

-----------------------------------------------------------------------------
(* The theorems.                                                           *)

\* IInv holds at the start.
LEMMA InitInv ==
  ASSUME Init
  PROVE  IInv
<1>1. TypeOK
  <2>1. /\ codec \in {"H264", "H265"} /\ producer = "ready" /\ video = "running"
        /\ reports \in BOOLEAN /\ decoder = "empty" /\ heard = "none" /\ faults \in 0..MaxFaults
    BY Parameters DEF Init
  <2>2. {force_idr, idr_pending, idr_msg, marked, cooling, partial, purged, had_purge}
          \subseteq BOOLEAN
    BY DEF Init
  <2>3. /\ behind \in 0..MaxBehind /\ since_key \in 0..Gop /\ rate \in 0..host_max_bps
        /\ target \in min_bps..max_bps /\ last_sent \in min_bps..max_bps
    BY Parameters DEF Init
  <2>4. /\ frames \in Seq(Frame) /\ Len(frames) <= MaxFrames
        /\ rates \in Seq(min_bps..max_bps) /\ Len(rates) <= MaxRates
    BY Parameters DEF Init
  <2> QED BY <2>1, <2>2, <2>3, <2>4 DEF TypeOK
<1>2. StreamInv
  BY DEF Init, StreamInv
<1>3. RateInv
  BY DEF Init, RateInv
<1> QED BY <1>1, <1>2, <1>3 DEF IInv

\* Every step keeps it.
LEMMA StepInv ==
  ASSUME IInv, [Next]_vars
  PROVE  IInv'
<1>1. CASE UNCHANGED vars
  <2>1. TypeOK'
    BY <1>1 DEF IInv, TypeOK, vars, session, hostVars, netVars, viewVars, aimdVars
  <2>2. StreamInv'
    BY <1>1 DEF IInv, StreamInv, vars, session, hostVars, netVars, viewVars, aimdVars
  <2>3. RateInv'
    BY <1>1, RateUnchanged DEF vars, session, hostVars, netVars, viewVars, aimdVars
  <2> QED BY <2>1, <2>2, <2>3 DEF IInv
<1>2. CASE Next
  BY <1>2, RecvRequestIdrInv, VideoFrameInv, CaptureFailsInv, EncodeFailsInv, EncoderPanicsInv,
     DegradesInv, PoisonedFrameInv, EncoderMissingInv, FailsOverInv, LoseFrameInv,
     LoseRequestIdrInv, LoseRateInv, RecvVideoInv, RecvOldInv, RecvTimeoutInv,
     CooldownOverInv, BitrateTickInv DEF Next, Recv
<1> QED BY <1>1, <1>2

\* The types, and the bitrate is never above the host's limit.
THEOREM TypeCorrect == Spec => []TypeOK
<1>1. IInv => TypeOK
  BY DEF IInv
<1> QED BY <1>1, InitInv, StepInv, PTL DEF Spec

\* Without a fault the viewer's picture is never broken, and unless a silent second
\* made it purge it asks for no key frame and no lower bitrate (viewer/src/lib.rs).
THEOREM NothingMissingNothingAsked == Spec => []NothingLostNothingAsked
<1>1. IInv => NothingLostNothingAsked
  BY DEF IInv, StreamInv, NothingLostNothingAsked
<1> QED BY <1>1, InitInv, StepInv, PTL DEF Spec

\* The host streams at the bitrate the viewer sent last, within its own limits
\* (bitrate_control.rs mark_sent, the drain of host/src/lib.rs).
THEOREM RatesAgree == Spec => []RateAgrees
<1>1. IInv => RateAgrees
  BY DEF IInv, RateInv, RateAgrees
<1> QED BY <1>1, InitInv, StepInv, PTL DEF Spec

\* The frame just sent is the last one under way.
LEMMA LastSent ==
  ASSUME IInv, NEW key \in BOOLEAN, NEW o \in BOOLEAN,
         frames' = Append(frames, [key |-> key, old |-> o])
  PROVE  frames # frames' /\ frames'[Len(frames')].key = key
<1>1. [key |-> key, old |-> o] \in Frame /\ frames \in Seq(Frame) /\ Len(frames) \in Nat
  BY DEF IInv, TypeOK, Frame
<1>2. /\ Len(frames') = Len(frames) + 1
      /\ frames'[Len(frames) + 1] = [key |-> key, old |-> o]
  BY <1>1, AppendProperties
<1>3. frames'[Len(frames')] = [key |-> key, old |-> o]
  BY <1>2
<1>4. frames # frames'
  BY <1>1, <1>2
<1> QED BY <1>3, <1>4

\* What a step may do to a key frame that is owed.
KeptOrPaid == Asked /\ ~Asked' => \/ faults' > faults \/ video' = "dead"
                                  \/ frames # frames' /\ frames'[Len(frames')].key

\* No step forgets it.
LEMMA StepKeeps ==
  ASSUME IInv, Next, Asked, ~Asked'
  PROVE  KeptOrPaid
<1>1. CASE VideoFrame
  <2>1. frames' = Append(frames, [key |-> Asked \/ GopDue, old |-> behind > 0])
    BY <1>1 DEF VideoFrame, Encoded, Sends
  <2>2. (Asked \/ GopDue) = TRUE
    BY DEF Asked
  <2>3. frames' = Append(frames, [key |-> TRUE, old |-> behind > 0])
    BY <2>1, <2>2
  <2>4. (behind > 0) \in BOOLEAN
    OBVIOUS
  <2>5. frames # frames' /\ frames'[Len(frames')].key = TRUE
    BY <2>3, <2>4, LastSent
  <2> QED BY <2>5 DEF KeptOrPaid
<1>2. CASE EncodeFails \/ EncoderPanics \/ Degrades \/ LoseFrame \/ LoseRequestIdr \/ LoseRate
  <2>1. Fault
    BY <1>2 DEF EncodeFails, EncoderPanics, Degrades, LoseFrame, LoseRequestIdr, LoseRate
  <2> QED BY <2>1, FaultCounts DEF KeptOrPaid
<1>3. CASE EncoderMissing
  BY <1>3 DEF EncoderMissing, KeptOrPaid
<1>4. CASE FailsOver
  <2>1. PICK b \in 0..MaxBehind : frames' = Append(frames, [key |-> TRUE, old |-> b > 0])
    BY <1>4 DEF FailsOver
  <2>2. frames # frames' /\ frames'[Len(frames')].key = TRUE
    BY <2>1, LastSent
  <2> QED BY <2>2 DEF KeptOrPaid
<1>5. CASE CaptureFails
  BY <1>5 DEF CaptureFails, KeptByCapture, Asked
<1>6. CASE PoisonedFrame
  BY <1>6 DEF PoisonedFrame, Asked
<1>7. CASE RecvRequestIdr
  BY <1>7 DEF RecvRequestIdr, Asked
<1>8. CASE RecvVideo \/ RecvOld \/ RecvTimeout \/ CooldownOver \/ BitrateTick
  BY <1>8 DEF RecvVideo, RecvOld, RecvTimeout, CooldownOver, BitrateTick, session, hostVars, Asked
<1> QED BY <1>1, <1>2, <1>3, <1>4, <1>5, <1>6, <1>7, <1>8 DEF Next, Recv

\* A key frame that was asked for stays owed until one is sent or the encoder fails
\* (host/src/lib.rs swaps the flag before next_frame).
THEOREM KeyFrameOwed == Spec => RequestKept
<1>1. ASSUME IInv, [Next]_vars
      PROVE  [KeptOrPaid]_vars
  <2>1. CASE UNCHANGED vars
    BY <2>1
  <2>2. CASE Next
    BY <1>1, <2>2, StepKeeps DEF KeptOrPaid
  <2> QED BY <1>1, <2>1, <2>2
<1>2. [][KeptOrPaid]_vars => RequestKept
  BY PTL DEF RequestKept, KeptOrPaid
<1> QED BY <1>1, <1>2, InitInv, StepInv, PTL DEF Spec
=============================================================================
