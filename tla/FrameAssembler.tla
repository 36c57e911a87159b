---------------------------- MODULE FrameAssembler ----------------------------
(***************************************************************************)
(* The video path of crates/transport, end to end: send_video packetizes   *)
(* the frames of the encoder; UDP loses, duplicates and reorders their      *)
(* packets; FrameAssembler::feed collects them, completes a frame as soon   *)
(* as it holds k chunks, and FrameAssembler::purge drops and reports the    *)
(* frames that stayed incomplete for too long.                              *)
(*                                                                          *)
(* A frame is identified by its place in the stream.  The number it is sent *)
(* under is its producer's, and a producer made by a failover counts from 0 *)
(* again, so chunks of two frames may meet in one entry.  Which frames did  *)
(* is history that the code does not have: a packet's frame, an entry's     *)
(* frames, and mixed.                                                       *)
(*                                                                          *)
(* The assembler is guarded by one mutex in CustomUdpTransport, so feed     *)
(* and purge are atomic with respect to each other.                         *)
(***************************************************************************)
EXTENDS Packetize

CONSTANTS
  MaxFrame,          \* bound: frames 0 .. MaxFrame are produced
  NalBytes,          \* [Frames -> Nat]: size of each access unit
  KeyFrames,         \* SUBSET Frames: the frames that are IDRs
  ChunkLen,          \* cfg.chunk_payload_len
  Policy,            \* cfg.fec_policy
  STALE_SEQ_WINDOW,
  AssemblyTimeout,   \* DEFAULT_ASSEMBLY_TIMEOUT, in clock ticks
  MaxTime,           \* bound on the clock
  MaxFaults          \* bound on failovers and duplicated packets together

Frames == 0 .. MaxFrame
Seqs   == Frames     \* no number is greater than the frames sent

ASSUME AssemblerAssumption ==
  /\ MaxFrame \in Nat /\ MaxTime \in Nat /\ MaxFaults \in Nat
  /\ AssemblyTimeout \in Nat
  /\ NalBytes \in [Frames -> Nat]
  /\ KeyFrames \subseteq Frames
  /\ ChunkLen \in Nat \ {0}
  /\ Policy \in FecPolicy
  /\ STALE_SEQ_WINDOW \in Nat \ {0}

VARIABLES
  next_frame,      \* the next frame the host sends
  next_seq,        \* seq of the producer in use
  net,             \* packets in flight; one never delivered is lost
  faults,          \* failovers and duplicates so far
  now,             \* the receiver's clock
  partials,        \* FrameAssembler.partials
  high_water_seq,  \* FrameAssembler.high_water_seq
  result,          \* what the last feed or purge returned
  number,          \* history: the number each frame was sent under
  fed,             \* history: chunks of a frame taken in since its last purge
  completed,       \* history: frames handed to the consumer
  mixed            \* history: frames that shared an entry with another

sender   == <<next_frame, next_seq, number>>
assembly == <<partials, high_water_seq>>
history  == <<fed, completed, mixed>>
vars == <<next_frame, next_seq, net, faults, now, partials, high_water_seq, result,
          number, fed, completed, mixed>>

\* The sizes packetize chooses for each frame.
KM == [f \in Frames |-> compute_k_m(Policy, NalBytes[f], ChunkLen)]
Sendable(f) == KM[f] # TooLarge /\ CodecOk(KM[f])

\* The access units as the encoder produces them.
Nal == [f \in Frames |-> [n \in 0 .. NalBytes[f] - 1 |-> <<f, n>>]]

\* The keyframe bit of video_flags, as the set of the bits that are on.
kf_flag(f) == IF f \in KeyFrames THEN {"IS_KEYFRAME"} ELSE {}

Chunks(f) == 0 .. KM[f].k + KM[f].m - 1

Payload ==
  [f \in Frames |-> [i \in Chunks(f) |-> ChunkPayload(f, Nal[f], ChunkLen, KM[f].k, i)]]

\* VideoPacket: the header fields the receiver uses, and the shard.
Packet(f, idx) ==
  [frame         |-> f,   \* history
   frame_seq     |-> number[f],
   chunk_idx     |-> idx,
   source_chunks |-> KM[f].k,
   parity_chunks |-> KM[f].m,
   frame_payload_bytes |-> NalBytes[f],
   video_flags   |-> kf_flag(f),
   chunk_payload |-> Payload[f][idx]]

\* What packetize makes of a frame; in net, a packet is its frame and index.
packetize(f) == IF Sendable(f) THEN {<<f, idx>> : idx \in Chunks(f)} ELSE {}

\* An empty HashMap.
NoEntries == [i \in {} |-> i]

Init ==
  /\ next_frame = 0 /\ next_seq = 0 /\ net = {} /\ faults = 0 /\ now = 0
  /\ partials = NoEntries
  /\ high_water_seq = 0
  /\ result = [kind |-> "None"]
  /\ number = [f \in Frames |-> 0] /\ fed = [f \in Frames |-> {}]
  /\ completed = {} /\ mixed = {}

(***************************************************************************)
(* Sender.  A frame packetize refuses (FrameTooLarge, FecConfig) is logged *)
(* and skipped by the host's video task; its sequence number is used up.   *)
(***************************************************************************)
send_video ==
  /\ next_frame \in Frames
  /\ next_frame' = next_frame + 1
  /\ next_seq' = next_seq + 1
  /\ number' = [number EXCEPT ![next_frame] = next_seq]
  /\ net' = net \union packetize(next_frame)
  /\ UNCHANGED <<faults, now, assembly, result, history>>

\* The encoder is replaced, and its producer with it.
Failover ==
  /\ next_seq > 0 /\ faults < MaxFaults
  /\ next_seq' = 0 /\ faults' = faults + 1
  /\ UNCHANGED <<next_frame, number, net, now, assembly, result, history>>

(***************************************************************************)
(* Receiver: the outcomes of feed.                                         *)
(***************************************************************************)
\* Mutant of Stale: the window is one frame too wide.
Stale_OffByOne(p) == p.frame_seq + STALE_SEQ_WINDOW < high_water_seq

Stale(p) == p.frame_seq + STALE_SEQ_WINDOW < high_water_seq + 1

\* An index out of bounds ends the program that receives.
Alive == result.kind # "Panic"

\* A packet is consumed by its delivery, unless the network duplicated it.
Deliver(p) ==
  /\ Alive
  /\ \/ net' = net \ {<<p.frame, p.chunk_idx>>} /\ UNCHANGED faults
     \/ faults < MaxFaults /\ faults' = faults + 1 /\ UNCHANGED net
  /\ UNCHANGED <<sender, now>>

NewEntry(p, bytes) ==
  [frames        |-> {},  \* history
   first_seen    |-> now,
   source_chunks |-> p.source_chunks,
   frame_payload_bytes |-> bytes,
   is_keyframe   |-> p.video_flags,
   chunks        |-> NoEntries]

\* Mutant of Entry: the length of the frame is taken from the one chunk.
Entry_ChunkLength(p) ==
  IF p.frame_seq \in DOMAIN partials
  THEN partials[p.frame_seq]
  ELSE NewEntry(p, AtMost(p.frame_payload_bytes, ChunkLen))

\* partials.entry(frame_seq).or_insert_with(...)
Entry(p) ==
  IF p.frame_seq \in DOMAIN partials
  THEN partials[p.frame_seq]
  ELSE NewEntry(p, p.frame_payload_bytes)

\* The entry once the packet's chunk is in it: of packets that disagree on
\* the sizes, the first is trusted.
Extended(p) ==
  LET e == Entry(p)
  IN  [frames        |-> e.frames \union {p.frame},
       first_seen    |-> e.first_seen,
       source_chunks |-> e.source_chunks,
       frame_payload_bytes |-> e.frame_payload_bytes,
       is_keyframe   |-> e.is_keyframe \union p.video_flags,
       chunks        |-> [i \in DOMAIN e.chunks \union {p.chunk_idx} |->
                            IF i = p.chunk_idx THEN p.chunk_payload ELSE e.chunks[i]]]

\* Mutant of Have: parity chunks do not count towards k.
Have_SourceOnly(e) == Cardinality({i \in DOMAIN e.chunks : i < e.source_chunks})

Have(e) == Cardinality(DOMAIN e.chunks)

(***************************************************************************)
(* try_complete looks at as many slots as the packet at hand announces,    *)
(* for the number of source chunks that the entry was made with.           *)
(***************************************************************************)
Slots(p) == 0 .. p.source_chunks + p.parity_chunks - 1

Shards(p) == [i \in DOMAIN Extended(p).chunks \intersect Slots(p) |-> Extended(p).chunks[i]]

MissingSource(p) == ~ (0 .. Extended(p).source_chunks - 1 \subseteq DOMAIN Shards(p))

\* shards[i].is_none() is asked for an i beyond the last slot.
Overruns(p) ==
  /\ Slots(p) \subseteq DOMAIN Shards(p)
  /\ Extended(p).source_chunks - 1 \notin Slots(p)

FecFails(p) == MissingSource(p) /\ Cardinality(DOMAIN Shards(p)) < p.source_chunks

\* The frames whose packets the codec may take the shards for.
CodewordOf(p) ==
  {f \in Frames :
     /\ KM[f].k = p.source_chunks
     /\ \A i \in Used(DOMAIN Shards(p), p.source_chunks) :
          i \in Chunks(f) /\ Shards(p)[i] = Payload[f][i]}

\* FecCodec::reconstruct, called with at least k shards.
Reconstruct(p) ==
  IF CodewordOf(p) # {}
  THEN SourceShards(Nal[CHOOSE f \in CodewordOf(p) : TRUE], ChunkLen, p.source_chunks)
  ELSE Garbage(Shards(p), ChunkLen, p.source_chunks)

RecoveredSource(p) == IF MissingSource(p) THEN Reconstruct(p) ELSE Shards(p)

\* The EncodedFrame rebuilt from the source shards, of which there are k.
AssembledFrame(p) ==
  LET e == Extended(p)
      k == IF MissingSource(p) THEN AtMost(e.source_chunks, p.source_chunks)
                               ELSE e.source_chunks
  IN  [seq         |-> p.frame_seq,
       is_keyframe |-> e.is_keyframe,
       nal_units   |-> Stitch(RecoveredSource(p), k, ChunkLen, e.frame_payload_bytes)]

PutPartial(s, e) ==
  [t \in DOMAIN partials \union {s} |-> IF t = s THEN e ELSE partials[t]]
DropPartials(S) == [t \in DOMAIN partials \ S |-> partials[t]]

FeedStale(p) ==
  /\ Deliver(p)
  /\ Stale(p)
  /\ result' = [kind |-> "Stale"]
  /\ UNCHANGED <<assembly, history>>

FeedRepeated(p) ==
  /\ Deliver(p)
  /\ ~Stale(p)
  /\ p.chunk_idx \in DOMAIN Entry(p).chunks
  /\ result' = [kind |-> "Pending"]
  /\ UNCHANGED <<assembly, history>>

\* A chunk is taken in, and noted in the history.
TakeIn(p) ==
  /\ Deliver(p)
  /\ ~Stale(p)
  /\ p.chunk_idx \notin DOMAIN Entry(p).chunks
  /\ fed' = [fed EXCEPT ![p.frame] = @ \union {p.chunk_idx}]
  /\ mixed' = IF Extended(p).frames = {p.frame} THEN mixed
                                                ELSE mixed \union Extended(p).frames

Full(p) == Have(Extended(p)) >= Extended(p).source_chunks

\* Too few chunks, or the codec refuses the ones there are: the entry stays.
FeedPending(p) ==
  /\ TakeIn(p)
  /\ \/ ~Full(p) /\ result' = [kind |-> "Pending"]
     \/ Full(p) /\ FecFails(p) /\ result' = [kind |-> "FecFailed", of |-> p.frame]
     \/ Full(p) /\ Overruns(p) /\ result' = [kind |-> "Panic", of |-> p.frame]
  /\ partials' = PutPartial(p.frame_seq, Extended(p))
  /\ UNCHANGED <<high_water_seq, completed>>

FeedComplete(p) ==
  /\ TakeIn(p)
  /\ Full(p) /\ ~FecFails(p) /\ ~Overruns(p)
  /\ partials' = DropPartials({p.frame_seq})
  /\ high_water_seq' = AtLeast(high_water_seq, p.frame_seq)
  /\ result' = [kind |-> "Complete", of |-> p.frame, frame |-> AssembledFrame(p)]
  /\ completed' = completed \union {p.frame}

feed(p) == FeedStale(p) \/ FeedRepeated(p) \/ FeedPending(p) \/ FeedComplete(p)

(***************************************************************************)
(* purge: drops every entry older than the timeout, raises the high-water  *)
(* mark to the newest of them, and returns their sequence numbers.         *)
(***************************************************************************)
TimedOut == {s \in DOMAIN partials : now - partials[s].first_seen > AssemblyTimeout}

\* The high-water mark after folding max over the purged sequence numbers.
RaisedHighWater(S) ==
  CHOOSE h \in S \union {high_water_seq} : \A s \in S \union {high_water_seq} : s <= h

purge ==
  /\ Alive
  /\ partials' = DropPartials(TimedOut)
  /\ high_water_seq' = RaisedHighWater(TimedOut)
  /\ result' = [kind |-> "Purged", seqs |-> TimedOut]
  /\ fed' = [f \in Frames |-> IF number[f] \in TimedOut THEN {} ELSE fed[f]]
  /\ UNCHANGED <<sender, net, faults, now, completed, mixed>>

Tick ==
  /\ now < MaxTime
  /\ now' = now + 1
  /\ UNCHANGED <<sender, net, faults, assembly, result, history>>

Next ==
  \/ send_video
  \/ Failover
  \/ \E q \in net : feed(Packet(q[1], q[2]))
  \/ purge
  \/ Tick

Spec == Init /\ [][Next]_vars

-----------------------------------------------------------------------------
(***************************************************************************)
(* Properties.                                                             *)
(***************************************************************************)
SentFrames == {f \in Frames : f < next_frame /\ Sendable(f)}

\* The entry that the packets of frame f lead to, whichever arrived first.
OfFrame(f, e) ==
  /\ e.frames = {f}
  /\ e.source_chunks = KM[f].k
  /\ e.frame_payload_bytes = NalBytes[f]
  /\ e.is_keyframe = kf_flag(f)
  /\ DOMAIN e.chunks \subseteq Chunks(f)
  /\ \A i \in DOMAIN e.chunks : e.chunks[i] = Payload[f][i]

GoodEntry(s, e) ==
  /\ e.first_seen \in 0 .. now
  /\ e.frames # {} /\ e.frames \subseteq {f \in SentFrames : number[f] = s}
  /\ e.frames \subseteq mixed \/ \E f \in Frames : OfFrame(f, e)

\* Type invariant: the state of the sender, the network and the assembler.
\* Every packet in flight is one packetize made, and every assembly entry
\* agrees with the packets of its frame, unless two frames met in it.
TypeOK ==
  /\ next_frame \in 0 .. MaxFrame + 1 /\ next_seq \in 0 .. next_frame
  /\ faults \in 0 .. MaxFaults /\ now \in 0 .. MaxTime
  /\ number \in [Frames -> Seqs]
  /\ net \subseteq UNION {packetize(f) : f \in SentFrames}
  /\ DOMAIN partials \subseteq Seqs
  /\ \A s \in DOMAIN partials : GoodEntry(s, partials[s])
  /\ high_water_seq \in Seqs
  /\ fed \in [Frames -> SUBSET (UNION {Chunks(f) : f \in Frames})]
  /\ completed \subseteq SentFrames /\ mixed \subseteq SentFrames
  /\ result.kind \in {"Complete", "FecFailed", "Panic"} => result.of \in SentFrames

\* Whatever packets were lost, repeated or reordered, and whether the last
\* (padded) chunk arrived or was rebuilt from parity, a frame handed to the
\* decoder is byte for byte the one the encoder produced, without padding,
\* and carries its keyframe flag, and feed neither fails nor panics: unless
\* chunks of two frames that a failover gave one number met in an entry.
FrameIntegrity ==
  /\ result.kind = "Complete" /\ result.of \notin mixed =>
       result.frame = [seq         |-> number[result.of],
                       is_keyframe |-> kf_flag(result.of),
                       nal_units   |-> Nal[result.of]]
  /\ result.kind \in {"FecFailed", "Panic"} => result.of \in mixed

\* No frame is left behind: once k distinct chunks of a frame have been taken
\* in with no purge of it in between, it has been handed to the decoder, with
\* the same exception.
EnoughChunksDelivered ==
  \A f \in Frames \ mixed :
    Sendable(f) /\ Cardinality(fed[f]) >= KM[f].k => f \in completed

\* Reordering is bounded, failovers or not: the number of the frame just
\* handed over is less than STALE_SEQ_WINDOW below any handed over before it.
BoundedReordering ==
  result.kind = "Complete" =>
    \A t \in completed : number[t] < result.frame.seq + STALE_SEQ_WINDOW
=============================================================================
