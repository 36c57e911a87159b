------------------------ MODULE FrameAssembler_proofs ------------------------
(***************************************************************************)
(* Proofs about FrameAssembler, for every frame size, FEC policy, window   *)
(* and timeout.                                                            *)
(***************************************************************************)
EXTENDS FrameAssembler, FiniteSetTheorems, WellFoundedInduction, TLAPS

(***************************************************************************)
(* Arithmetic of the sizing policy.                                        *)
(***************************************************************************)

\* Division of naturals by a positive natural: quotient and remainder, as the
\* chunk offsets of packetize and of the stitching loop use them.
LEMMA DivMod ==
  ASSUME NEW n \in Nat, NEW d \in Nat \ {0}
  PROVE  /\ n \div d \in Nat
         /\ n % d \in 0 .. d - 1
         /\ n = ((n \div d) * d) + (n % d)
BY SMT

\* The sizes of a frame are the ones compute_k_m returns.
LEMMA KMIs ==
  ASSUME NEW f \in Frames
  PROVE  KM[f] = compute_k_m(Policy, NalBytes[f], ChunkLen)
BY DEF KM

\* compute_k_m yields natural numbers, and a positive k unless the frame is
\* too large.
LEMMA KMNat ==
  ASSUME NEW f \in Frames
  PROVE  /\ KM[f].k \in Nat
         /\ KM[f].m \in Nat
         /\ Sendable(f) => KM[f].k > 0 /\ KM[f].m > 0
<1> DEFINE c == compute_k_m(Policy, NalBytes[f], ChunkLen)
<1>1. c.k \in Nat /\ c.m \in Nat
  BY AssemblerAssumption
     DEF compute_k_m, raw_k, TooLarge, DivCeil, AtLeast, AtMost, FecPolicy
<1> HIDE DEF c
<1>2. KM[f].k \in Nat /\ KM[f].m \in Nat
  BY <1>1, KMIs DEF c
<1> QED BY <1>2 DEF Sendable, CodecOk

\* The k source chunks of a frame cover all of its bytes.
LEMMA ChunksCover ==
  ASSUME NEW f \in Frames, Sendable(f)
  PROVE  NalBytes[f] <= KM[f].k * ChunkLen
<1> DEFINE B == NalBytes[f]
           d == ChunkLen
           q == (B + d - 1) \div d
<1>1. B \in Nat /\ d \in Nat \ {0}
  BY AssemblerAssumption
<1>2. KM[f].k = raw_k(B, d)
  <2>1. compute_k_m(Policy, B, d) = TooLarge \/ compute_k_m(Policy, B, d).k = raw_k(B, d)
    BY DEF compute_k_m
  <2> QED BY <2>1, KMIs DEF Sendable
<1>2a. B + d - 1 \in Nat
  BY <1>1
<1>3. q \in Nat /\ q <= KM[f].k
  <2>1. q \in Nat
    BY <1>1, <1>2a, DivMod
  <2> QED BY <2>1, <1>2 DEF raw_k, AtLeast, DivCeil
<1>4. B <= q * d
  <2>1. B + d - 1 = (q * d) + ((B + d - 1) % d) /\ (B + d - 1) % d \in 0 .. d - 1
    BY <1>1, <1>2a, DivMod
  <2>2. q * d \in Nat
    BY <1>1, <1>3
  <2> HIDE DEF q
  <2> QED BY <1>1, <2>1, <2>2
<1>5. q * d <= KM[f].k * d
  <2>1. \A a, b \in Nat : a <= b => a * d <= b * d
    BY <1>1
  <2> QED BY <2>1, <1>3, KMNat
<1> HIDE DEF q
<1> QED BY <1>1, <1>3, <1>4, <1>5, KMNat

(***************************************************************************)
(* What try_complete rebuilds.                                             *)
(***************************************************************************)

\* A non-empty set of naturals has a least element; one below N a greatest.
LEMMA MinimumExists ==
  ASSUME NEW T \in SUBSET Nat, T # {}
  PROVE  \E h \in T : \A x \in T : h <= x
<1> DEFINE R == {ss \in Nat \X Nat : ss[1] < ss[2]}
<1>1. IsWellFoundedOn(R, Nat)
  BY NatLessThanWellFounded, Zenon DEF OpToRel
<1> HIDE DEF R
<1>2. \E h \in T : \A x \in T : ~(<<x, h>> \in R)
  BY <1>1, WFMin, Zenon
<1>3. PICK h \in T : \A x \in T : ~(<<x, h>> \in R)
  BY <1>2
<1>4. \A x \in T : ~(x < h)
  BY <1>3 DEF R
<1> QED BY <1>4

\* A bounded non-empty set of naturals has a greatest element.
LEMMA MaximumExists ==
  ASSUME NEW N \in Nat, NEW T \in SUBSET (0 .. N), T # {}
  PROVE  \E h \in T : \A x \in T : x <= h
<1> DEFINE C == {N - x : x \in T}
<1>1. C \in SUBSET Nat /\ C # {}
  <2>1. \A x \in T : N - x \in Nat
    OBVIOUS
  <2>2. PICK x \in T : TRUE
    OBVIOUS
  <2> QED BY <2>1, <2>2
<1>2. PICK c \in C : \A d \in C : c <= d
  BY <1>1, MinimumExists
<1>3. PICK h \in T : c = N - h
  BY <1>2
<1>4. \A x \in T : N - h <= N - x
  BY <1>2, <1>3
<1> QED BY <1>3, <1>4

\* The interval of the first n naturals has n elements.
LEMMA IntervalSize ==
  ASSUME NEW n \in Nat
  PROVE  IsFiniteSet(0 .. n - 1) /\ Cardinality(0 .. n - 1) = n
<1>1. 0 \in Int /\ n - 1 \in Int
  OBVIOUS
<1>2. /\ IsFiniteSet(0 .. n - 1)
      /\ Cardinality(0 .. n - 1) = IF 0 > n - 1 THEN 0 ELSE (n - 1) - 0 + 1
  BY <1>1, FS_Interval
<1> QED BY <1>2

\* A set of at least k chunks of a frame without all of its source chunks has
\* a parity chunk among the first k: one that the codec decodes from.
LEMMA ParityUsed ==
  ASSUME NEW f \in Frames, Sendable(f), NEW D, D \subseteq Chunks(f),
         Cardinality(D) >= KM[f].k, ~(0 .. KM[f].k - 1 \subseteq D)
  PROVE  \E i \in Used(D, KM[f].k) : i >= KM[f].k
<1> DEFINE k == KM[f].k
           P == {i \in D : i >= k}
<1>0. k \in Nat /\ KM[f].m \in Nat /\ k > 0
  BY KMNat
<1>1. D \subseteq Nat
  BY <1>0 DEF Chunks
<1>2. ASSUME NEW E, E \subseteq D, E \subseteq 0 .. k - 1
      PROVE  Cardinality(E) \in Nat /\ Cardinality(E) < k
  <2>1. IsFiniteSet(0 .. k - 1) /\ Cardinality(0 .. k - 1) = k
    BY <1>0, IntervalSize
  <2>2. E \in SUBSET (0 .. k - 1) /\ E # 0 .. k - 1
    BY <1>2
  <2>3. /\ IsFiniteSet(E)
        /\ Cardinality(E) <= Cardinality(0 .. k - 1)
        /\ Cardinality(0 .. k - 1) = Cardinality(E) => 0 .. k - 1 = E
    BY <2>1, <2>2, FS_Subset
  <2>4. Cardinality(E) \in Nat
    BY <2>3, FS_CardinalityType
  <2> QED BY <2>1, <2>2, <2>3, <2>4, <1>0
<1>3. P # {}
  <2> SUFFICES ASSUME P = {} PROVE FALSE
    OBVIOUS
  <2>1. D \subseteq 0 .. k - 1
    BY <1>0, <1>1
  <2>2. Cardinality(D) \in Nat /\ Cardinality(D) < k
    BY <2>1, <1>2
  <2> QED BY <2>2, <1>0
<1>4. PICK i \in P : \A j \in P : i <= j
  BY <1>1, <1>3, MinimumExists
<1>5. {j \in D : j < i} \subseteq 0 .. k - 1
  BY <1>0, <1>1, <1>4
<1>6. Cardinality({j \in D : j < i}) < k
  BY <1>2, <1>5
<1> QED BY <1>4, <1>6 DEF Used

\* The source shards of a frame are its first k chunks.
LEMMA SourceChunks ==
  ASSUME NEW f \in Frames, NEW i \in Chunks(f), i < KM[f].k
  PROVE  Payload[f][i] = SourceShards(Nal[f], ChunkLen, KM[f].k)[i]
BY KMNat DEF Payload, Chunks, ChunkPayload, SourceShards

\* A parity chunk carries the name of its frame.
LEMMA ParityNamesFrame ==
  ASSUME NEW f \in Frames, NEW g \in Frames, NEW i \in Chunks(f), i >= KM[f].k,
         i \in Chunks(g), KM[g].k = KM[f].k, Payload[f][i] = Payload[g][i]
  PROVE  f = g
<1>1. 0 \in 0 .. ChunkLen - 1
  BY AssemblerAssumption
<1>2. Payload[f][i] = ParityShard(f, ChunkLen, i) /\ Payload[g][i] = ParityShard(g, ChunkLen, i)
  BY KMNat DEF Payload, Chunks, ChunkPayload
<1>3. ParityShard(f, ChunkLen, i)[0] = <<f, i, 0>> /\ ParityShard(g, ChunkLen, i)[0] = <<g, i, 0>>
  BY <1>1 DEF ParityShard
<1>4. <<f, i, 0>> = <<g, i, 0>>
  BY <1>2, <1>3
<1> QED BY <1>4

\* Stitching the source shards of a frame yields its access unit: every byte
\* in its place and no padding.
LEMMA StitchedNal ==
  ASSUME NEW f \in Frames, Sendable(f), NEW src,
         \A i \in 0 .. KM[f].k - 1 :
           src[i] = SourceShards(Nal[f], ChunkLen, KM[f].k)[i]
  PROVE  Stitch(src, KM[f].k, ChunkLen, NalBytes[f]) = Nal[f]
<1> DEFINE B == NalBytes[f]
           d == ChunkLen
           k == KM[f].k
<1>1. B \in Nat /\ d \in Nat \ {0} /\ k \in Nat /\ B <= k * d
  BY AssemblerAssumption, KMNat, ChunksCover
<1>2. AtMost(B, k * d) = B
  BY <1>1 DEF AtMost
<1>3. Nal[f] = [n \in 0 .. B - 1 |-> <<f, n>>]
  BY DEF Nal
<1>4. ASSUME NEW n \in 0 .. B - 1
      PROVE  src[n \div d][n % d] = <<f, n>>
  <2>1. /\ n \in Nat /\ n \div d \in Nat /\ n % d \in 0 .. d - 1
        /\ n = ((n \div d) * d) + (n % d)
    <3>1. n \in Nat
      BY <1>1
    <3> QED BY <3>1, <1>1, DivMod
  <2>2. n \div d < k
    <3>1. \A q \in Nat : q >= k => q * d >= k * d
      BY <1>1
    <3>2. n < k * d
      <4>1. n < B /\ k * d \in Nat
        BY <1>1
      <4> HIDE DEF B, k, d
      <4> QED BY <1>1, <2>1, <4>1
    <3>3. (n \div d) * d <= n
      <4>1. (n \div d) * d \in Nat
        BY <1>1, <2>1
      <4> QED BY <4>1, <2>1, <1>1
    <3> HIDE DEF k, d
    <3> QED BY <3>1, <3>2, <3>3, <2>1, <1>1
  <2>3. src[n \div d] = SourceShard(Nal[f], d, n \div d)
    <3>1. n \div d \in 0 .. k - 1
      BY <2>1, <2>2, <1>1
    <3> QED BY <3>1 DEF SourceShards
  <2>4. SourceShard(Nal[f], d, n \div d)[n % d]
          = IF ((n \div d) * d) + (n % d) \in DOMAIN Nal[f]
            THEN Nal[f][((n \div d) * d) + (n % d)] ELSE Pad
    BY <2>1 DEF SourceShard
  <2>5. n \in DOMAIN Nal[f] /\ Nal[f][n] = <<f, n>>
    BY <1>3
  <2> QED BY <2>1, <2>3, <2>4, <2>5
<1>5. Stitch(src, k, d, B) = [n \in 0 .. B - 1 |-> src[n \div d][n % d]]
  BY <1>2 DEF Stitch
<1> QED BY <1>3, <1>4, <1>5

(***************************************************************************)
(* The inductive invariant.                                                *)
(***************************************************************************)

\* feed completes a frame as soon as it can: no entry of one frame holds k chunks.
Unfinished ==
  \A s \in DOMAIN partials :
    partials[s].frames \subseteq mixed \/ ~ (Have(partials[s]) >= partials[s].source_chunks)

\* Frame f has chunks in the entry of its number.
InEntry(f) == number[f] \in DOMAIN partials /\ f \in partials[number[f]].frames

\* Until a frame completes, its entry holds exactly the chunks taken in.
FedTracked ==
  \A f \in Frames \ (completed \union mixed) :
    fed[f] = IF InEntry(f) THEN DOMAIN partials[number[f]].chunks ELSE {}

\* The high-water mark covers every completed frame.
HighWaterCovers == \A f \in completed : number[f] <= high_water_seq

IInv ==
  /\ TypeOK /\ Unfinished /\ FedTracked /\ HighWaterCovers
  /\ FrameIntegrity /\ BoundedReordering

\* What is in the network is a chunk of a sent frame.
LEMMA NetIsSent ==
  ASSUME TypeOK, NEW q \in net
  PROVE  q[1] \in SentFrames /\ q[2] \in Chunks(q[1]) /\ q = <<q[1], q[2]>>
BY DEF TypeOK, packetize

\* The fields of a packet.
LEMMA PacketFields ==
  ASSUME NEW f, NEW idx
  PROVE  /\ Packet(f, idx).frame = f /\ Packet(f, idx).frame_seq = number[f]
         /\ Packet(f, idx).chunk_idx = idx
         /\ Packet(f, idx).source_chunks = KM[f].k
         /\ Packet(f, idx).parity_chunks = KM[f].m
         /\ Packet(f, idx).frame_payload_bytes = NalBytes[f]
         /\ Packet(f, idx).video_flags = kf_flag(f)
         /\ Packet(f, idx).chunk_payload = Payload[f][idx]
BY DEF Packet

\* What the entry found or made for a packet, and the entry with its chunk
\* added, have in common with the frame the packet belongs to.
LEMMA EntryGood ==
  ASSUME TypeOK, NEW f \in SentFrames, NEW idx \in Chunks(f), NEW p, p = Packet(f, idx)
  PROVE  /\ Extended(p).frames = Entry(p).frames \union {f}
         /\ Extended(p).frames \subseteq {g \in SentFrames : number[g] = number[f]}
         /\ Extended(p).first_seen \in 0 .. now
         /\ DOMAIN Extended(p).chunks = DOMAIN Entry(p).chunks \union {idx}
         /\ Extended(p).frames = {f} /\ f \notin mixed => OfFrame(f, Extended(p))
<1> DEFINE s == number[f]
<1>1. /\ p.frame = f /\ p.frame_seq = s /\ p.chunk_idx = idx
      /\ p.source_chunks = KM[f].k
      /\ p.frame_payload_bytes = NalBytes[f]
      /\ p.video_flags = kf_flag(f)
      /\ p.chunk_payload = Payload[f][idx]
  BY PacketFields
<1>2. /\ Entry(p).frames \subseteq {g \in SentFrames : number[g] = s}
      /\ Entry(p).first_seen \in 0 .. now
  <2>1. CASE s \in DOMAIN partials
    BY <2>1, <1>1 DEF TypeOK, Entry, GoodEntry
  <2>2. CASE s \notin DOMAIN partials
    BY <2>2, <1>1 DEF TypeOK, Entry, NewEntry
  <2> QED BY <2>1, <2>2
<1>3. /\ Extended(p).frames = Entry(p).frames \union {f}
      /\ Extended(p).first_seen = Entry(p).first_seen
      /\ Extended(p).source_chunks = Entry(p).source_chunks
      /\ Extended(p).frame_payload_bytes = Entry(p).frame_payload_bytes
      /\ Extended(p).is_keyframe = Entry(p).is_keyframe \union kf_flag(f)
      /\ DOMAIN Extended(p).chunks = DOMAIN Entry(p).chunks \union {idx}
      /\ \A i \in DOMAIN Extended(p).chunks :
           Extended(p).chunks[i] = IF i = idx THEN Payload[f][idx] ELSE Entry(p).chunks[i]
  BY <1>1 DEF Extended
<1>4. ASSUME Extended(p).frames = {f}, f \notin mixed
      PROVE  OfFrame(f, Extended(p))
  <2>1. /\ Entry(p).source_chunks = KM[f].k
        /\ Entry(p).frame_payload_bytes = NalBytes[f]
        /\ Entry(p).is_keyframe = kf_flag(f)
        /\ DOMAIN Entry(p).chunks \subseteq Chunks(f)
        /\ \A i \in DOMAIN Entry(p).chunks : Entry(p).chunks[i] = Payload[f][i]
    <3>1. CASE s \in DOMAIN partials
      <4>1. Entry(p) = partials[s] /\ GoodEntry(s, partials[s])
        BY <3>1, <1>1 DEF Entry, TypeOK
      <4>2. partials[s].frames = {f}
        BY <4>1, <1>3, <1>4 DEF GoodEntry
      <4>3. OfFrame(f, partials[s])
        BY <4>1, <4>2, <1>4 DEF GoodEntry, OfFrame
      <4> QED BY <4>1, <4>3 DEF OfFrame
    <3>2. CASE s \notin DOMAIN partials
      BY <3>2, <1>1 DEF Entry, NewEntry, NoEntries
    <3> QED BY <3>1, <3>2
  <2> QED BY <2>1, <1>3, <1>4 DEF OfFrame
<1> QED BY <1>1, <1>2, <1>3, <1>4

\* With k chunks of one frame in its entry, try_complete has what it needs.
LEMMA NoFailure ==
  ASSUME NEW f \in Frames, Sendable(f), NEW idx \in Chunks(f), NEW p, p = Packet(f, idx),
         OfFrame(f, Extended(p))
  PROVE  /\ Slots(p) = Chunks(f)
         /\ DOMAIN Shards(p) = DOMAIN Extended(p).chunks
         /\ \A i \in DOMAIN Shards(p) : Shards(p)[i] = Payload[f][i]
         /\ Full(p) => ~ FecFails(p) /\ ~ Overruns(p)
<1>1. KM[f].k \in Nat /\ KM[f].m \in Nat /\ KM[f].k > 0 /\ KM[f].m > 0
  BY KMNat
<1>2. Slots(p) = Chunks(f)
  BY PacketFields DEF Slots, Chunks
<1>3. /\ DOMAIN Shards(p) = DOMAIN Extended(p).chunks
      /\ \A i \in DOMAIN Shards(p) : Shards(p)[i] = Payload[f][i]
  BY <1>2 DEF Shards, OfFrame
<1>4. ~ Overruns(p)
  BY <1>1, <1>2 DEF Overruns, OfFrame, Chunks
<1>5. Full(p) => ~ FecFails(p)
  <2>1. IsFiniteSet(Chunks(f))
    <3>1. PICK n \in Nat : n = KM[f].k + KM[f].m
      BY <1>1
    <3>2. Chunks(f) = 0 .. n - 1
      BY <3>1, <1>1 DEF Chunks
    <3> QED BY <3>2, IntervalSize
  <2>2. IsFiniteSet(DOMAIN Extended(p).chunks)
    BY <2>1, FS_Subset DEF OfFrame
  <2>3. Cardinality(DOMAIN Extended(p).chunks) \in Nat
    BY <2>2, FS_CardinalityType
  <2>4. p.source_chunks = KM[f].k /\ Extended(p).source_chunks = KM[f].k
    BY PacketFields DEF OfFrame
  <2> QED BY <1>1, <1>3, <2>3, <2>4 DEF Full, FecFails, Have
<1> QED BY <1>2, <1>3, <1>4, <1>5

\* Whichever k chunks of a frame arrived, try_complete rebuilds the frame.
LEMMA FrameRebuilt ==
  ASSUME NEW f \in Frames, Sendable(f), NEW idx \in Chunks(f), NEW p, p = Packet(f, idx),
         OfFrame(f, Extended(p)), Full(p)
  PROVE  AssembledFrame(p)
           = [seq |-> number[f], is_keyframe |-> kf_flag(f), nal_units |-> Nal[f]]
<1> DEFINE k == KM[f].k
           src == SourceShards(Nal[f], ChunkLen, k)
           D == DOMAIN Shards(p)
<1>1. k \in Nat /\ k > 0
  BY KMNat
<1>2. /\ p.source_chunks = k /\ p.frame_seq = number[f]
      /\ Extended(p).source_chunks = k
      /\ Extended(p).frame_payload_bytes = NalBytes[f]
      /\ Extended(p).is_keyframe = kf_flag(f)
  BY PacketFields DEF OfFrame
<1>3. /\ D \subseteq Chunks(f) /\ Cardinality(D) >= k
      /\ \A i \in D : Shards(p)[i] = Payload[f][i]
  BY <1>2, NoFailure DEF OfFrame, Full, Have
<1>4. \A i \in 0 .. k - 1 : RecoveredSource(p)[i] = src[i]
  <2>1. CASE ~ MissingSource(p)
    <3>1. 0 .. k - 1 \subseteq D
      BY <2>1, <1>2 DEF MissingSource
    <3>2. ASSUME NEW i \in 0 .. k - 1 PROVE Shards(p)[i] = src[i]
      <4>1. i \in Chunks(f) /\ i < k /\ Shards(p)[i] = Payload[f][i]
        BY <3>1, <1>1, <1>3
      <4> QED BY <4>1, SourceChunks
    <3> QED BY <2>1, <3>2 DEF RecoveredSource
  <2>2. CASE MissingSource(p)
    <3>1. ~ (0 .. k - 1 \subseteq D)
      BY <2>2, <1>2 DEF MissingSource
    <3>2. PICK i \in Used(D, k) : i >= k
      BY <3>1, <1>3, ParityUsed
    <3>3. i \in D /\ i \in Chunks(f)
      BY <3>2, <1>3 DEF Used
    <3>4. f \in CodewordOf(p)
      <4>1. \A j \in Used(D, k) : j \in D
        BY DEF Used
      <4> QED BY <4>1, <1>2, <1>3 DEF CodewordOf
    <3>5. ASSUME NEW g \in CodewordOf(p) PROVE g = f
      <4>1. g \in Frames /\ KM[g].k = k /\ i \in Chunks(g) /\ Payload[g][i] = Payload[f][i]
        BY <3>2, <3>3, <1>2, <1>3 DEF CodewordOf
      <4> QED BY <4>1, <3>2, <3>3, ParityNamesFrame
    <3>6. (CHOOSE g \in CodewordOf(p) : TRUE) = f
      BY <3>4, <3>5
    <3>7. Reconstruct(p) = src
      BY <3>4, <3>6, <1>2 DEF Reconstruct
    <3> QED BY <2>2, <3>7 DEF RecoveredSource
  <2> QED BY <2>1, <2>2
<1>5. Stitch(RecoveredSource(p), k, ChunkLen, NalBytes[f]) = Nal[f]
  BY <1>4, StitchedNal
<1>6. AtMost(k, k) = k
  BY DEF AtMost
<1> QED BY <1>2, <1>5, <1>6 DEF AssembledFrame

\* An assembler that has seen nothing satisfies the inductive invariant.
THEOREM InitInv == Init => IInv
<1> SUFFICES ASSUME Init PROVE IInv
  OBVIOUS
<1> USE AssemblerAssumption
<1>1. TypeOK
  BY DEF Init, TypeOK, NoEntries, Seqs, Frames
<1>2. Unfinished /\ FedTracked /\ HighWaterCovers
  BY DEF Init, Unfinished, FedTracked, HighWaterCovers, NoEntries, InEntry
<1>3. FrameIntegrity /\ BoundedReordering
  BY DEF Init, FrameIntegrity, BoundedReordering
<1> QED BY <1>1, <1>2, <1>3 DEF IInv

\* Handing a frame to packetize preserves the invariant: only the number of a
\* frame that nothing refers to changes.
LEMMA SendInv ==
  ASSUME IInv, send_video
  PROVE  IInv'
<1> USE DEF IInv
<1>0. next_frame \in Frames /\ next_seq \in Seqs /\ next_frame' = next_frame + 1
  BY AssemblerAssumption DEF TypeOK, send_video, Seqs, Frames
<1>1. /\ \A f \in SentFrames : f \in SentFrames' /\ number'[f] = number[f]
      /\ next_frame \notin SentFrames
      /\ number' \in [Frames -> Seqs]
      /\ \A f \in Frames : f # next_frame => number'[f] = number[f]
  BY <1>0 DEF send_video, SentFrames, TypeOK, Frames
<1>2. UNCHANGED <<faults, now, partials, high_water_seq, result, fed, completed, mixed>>
  BY DEF send_video, assembly, history
<1>3. \A s \in DOMAIN partials : GoodEntry(s, partials[s])'
  BY <1>1, <1>2 DEF TypeOK, GoodEntry, OfFrame
<1>4. TypeOK'
  <2>1. net' \subseteq UNION {packetize(f) : f \in SentFrames'}
    <3>1. Sendable(next_frame) => next_frame \in SentFrames'
      BY <1>0 DEF SentFrames, Frames
    <3>2. packetize(next_frame) \subseteq UNION {packetize(f) : f \in SentFrames'}
      BY <3>1 DEF packetize
    <3> QED BY <1>1, <3>2 DEF TypeOK, send_video
  <2>2. next_frame' \in 0 .. MaxFrame + 1 /\ next_seq' \in 0 .. next_frame'
    BY AssemblerAssumption, <1>0 DEF TypeOK, send_video, Frames
  <2> QED BY <1>1, <1>2, <1>3, <2>1, <2>2 DEF TypeOK
<1>5. (Unfinished /\ HighWaterCovers)'
  BY <1>1, <1>2 DEF Unfinished, HighWaterCovers, Have, TypeOK
<1>6. FedTracked'
  <2> SUFFICES ASSUME NEW f \in Frames, f \notin completed, f \notin mixed
               PROVE  fed[f] = IF InEntry(f)' THEN DOMAIN partials[number'[f]].chunks ELSE {}
    BY <1>2 DEF FedTracked
  <2>1. CASE f # next_frame
    BY <2>1, <1>1, <1>2 DEF FedTracked, InEntry
  <2>2. CASE f = next_frame
    BY <2>2, <1>1, <1>2 DEF FedTracked, InEntry, TypeOK, GoodEntry
  <2> QED BY <2>1, <2>2
<1>7. (FrameIntegrity /\ BoundedReordering)'
  BY <1>1, <1>2 DEF FrameIntegrity, BoundedReordering, TypeOK
<1> QED BY <1>4, <1>5, <1>6, <1>7

\* A failover and time alone preserve the invariant.
LEMMA FailoverTickInv ==
  ASSUME IInv, Failover \/ Tick
  PROVE  IInv'
<1> USE DEF IInv
<1>1. /\ UNCHANGED <<next_frame, number, net, partials, high_water_seq, result, fed,
                     completed, mixed>>
      /\ next_seq' \in 0 .. next_frame
      /\ faults' \in 0 .. MaxFaults
      /\ now' \in 0 .. MaxTime /\ now <= now'
  BY AssemblerAssumption DEF Failover, Tick, TypeOK, sender, assembly, history
<1>2. SentFrames' = SentFrames
  BY <1>1 DEF SentFrames
<1>3. \A s \in DOMAIN partials : GoodEntry(s, partials[s])'
  BY <1>1, <1>2, AssemblerAssumption DEF TypeOK, GoodEntry, OfFrame
<1>4. TypeOK'
  BY <1>1, <1>2, <1>3 DEF TypeOK
<1>5. (Unfinished /\ FedTracked /\ HighWaterCovers /\ FrameIntegrity /\ BoundedReordering)'
  BY <1>1 DEF Unfinished, FedTracked, HighWaterCovers, FrameIntegrity,
              BoundedReordering, Have, InEntry
<1> QED BY <1>4, <1>5

\* Purging raises the high-water mark to a frame at least as new as before.
LEMMA RaisedHighWaterFact ==
  ASSUME TypeOK, NEW S \in SUBSET Seqs
  PROVE  RaisedHighWater(S) \in Seqs /\ RaisedHighWater(S) >= high_water_seq
<1> DEFINE T == S \union {high_water_seq}
<1>1. T \in SUBSET (0 .. MaxFrame) /\ T # {}
  BY DEF TypeOK, Seqs, Frames
<1>2. \E h \in T : \A x \in T : x <= h
  BY <1>1, MaximumExists, AssemblerAssumption
<1>3. RaisedHighWater(S) \in T /\ \A x \in T : x <= RaisedHighWater(S)
  BY <1>2 DEF RaisedHighWater
<1> QED BY <1>3, AssemblerAssumption DEF TypeOK, Seqs, Frames

\* purge preserves the invariant: it only drops entries and raises the
\* high-water mark.
LEMMA PurgeInv ==
  ASSUME IInv, purge
  PROVE  IInv'
<1> USE DEF IInv
<1>0. TimedOut \in SUBSET Seqs
  BY DEF TimedOut, TypeOK
<1>1. /\ DOMAIN partials' = DOMAIN partials \ TimedOut
      /\ \A s \in DOMAIN partials' : s \in DOMAIN partials /\ partials'[s] = partials[s]
  BY DEF purge, DropPartials
<1>2. high_water_seq' \in Seqs /\ high_water_seq' >= high_water_seq
  BY <1>0, RaisedHighWaterFact DEF purge
<1>3. /\ UNCHANGED <<next_frame, next_seq, number, net, faults, now, completed, mixed>>
      /\ result'.kind = "Purged"
      /\ fed' = [f \in Frames |-> IF number[f] \in TimedOut THEN {} ELSE fed[f]]
  BY DEF purge, sender
<1>4. SentFrames' = SentFrames
  BY <1>3 DEF SentFrames
<1>5. TypeOK'
  <2>1. \A s \in DOMAIN partials' : GoodEntry(s, partials[s])'
    BY <1>1, <1>3, <1>4 DEF TypeOK, GoodEntry, OfFrame
  <2>2. fed' \in [Frames -> SUBSET (UNION {Chunks(f) : f \in Frames})]
    BY <1>3 DEF TypeOK
  <2> QED BY <1>0, <1>1, <1>2, <1>3, <1>4, <2>1, <2>2 DEF TypeOK
<1>6. Unfinished'
  BY <1>1, <1>3 DEF Unfinished, Have
<1>7. FedTracked'
  BY <1>0, <1>1, <1>3 DEF FedTracked, InEntry
<1>8. HighWaterCovers'
  BY <1>2, <1>3, AssemblerAssumption DEF HighWaterCovers, TypeOK, Seqs, Frames, SentFrames
<1>9. (FrameIntegrity /\ BoundedReordering)'
  BY <1>3 DEF FrameIntegrity, BoundedReordering
<1> QED BY <1>5, <1>6, <1>7, <1>8, <1>9

\* Delivering a packet leaves only packets packetize made in the network.
LEMMA DeliverNet ==
  ASSUME TypeOK, NEW p, Deliver(p)
  PROVE  /\ net' \subseteq net
         /\ faults' \in 0 .. MaxFaults
         /\ UNCHANGED <<next_frame, next_seq, number, now>>
         /\ SentFrames' = SentFrames
BY AssemblerAssumption DEF Deliver, TypeOK, sender, SentFrames

\* A packet that feed rejects, as stale or as a chunk it has, preserves the invariant.
LEMMA FeedIdleInv ==
  ASSUME IInv, NEW p, FeedStale(p) \/ FeedRepeated(p)
  PROVE  IInv'
<1> USE DEF IInv
<1>1. /\ Deliver(p) /\ result'.kind \in {"Stale", "Pending"}
      /\ UNCHANGED <<partials, high_water_seq, fed, completed, mixed>>
  BY DEF FeedStale, FeedRepeated, assembly, history
<1>2. /\ net' \subseteq net /\ faults' \in 0 .. MaxFaults
      /\ UNCHANGED <<next_frame, next_seq, number, now>>
      /\ SentFrames' = SentFrames
  BY <1>1, DeliverNet
<1>3. \A s \in DOMAIN partials : GoodEntry(s, partials[s])'
  BY <1>1, <1>2 DEF TypeOK, GoodEntry, OfFrame
<1>4. TypeOK'
  BY <1>1, <1>2, <1>3 DEF TypeOK
<1>5. (Unfinished /\ FedTracked /\ HighWaterCovers /\ FrameIntegrity /\ BoundedReordering)'
  BY <1>1, <1>2 DEF Unfinished, FedTracked, HighWaterCovers, FrameIntegrity,
                    BoundedReordering, Have, InEntry
<1> QED BY <1>4, <1>5

\* Taking a chunk in: what it leaves alone, and that the entry with the chunk
\* is good again, or two frames have met in it.
LEMMA TakeInFacts ==
  ASSUME IInv, NEW f \in SentFrames, NEW idx \in Chunks(f), NEW p, p = Packet(f, idx),
         NEW e, e = Extended(p), TakeIn(p)
  PROVE  /\ net' \subseteq net /\ faults' \in 0 .. MaxFaults
         /\ UNCHANGED <<next_frame, next_seq, number, now>>
         /\ SentFrames' = SentFrames
         /\ mixed \subseteq mixed' /\ mixed' \subseteq SentFrames
         /\ fed' = [fed EXCEPT ![f] = @ \union {idx}]
         /\ fed' \in [Frames -> SUBSET (UNION {Chunks(g) : g \in Frames})]
         /\ f \notin mixed' => e.frames = {f} /\ OfFrame(f, e)
         /\ f \in e.frames /\ \A g \in e.frames : g # f => e.frames \subseteq mixed'
         /\ GoodEntry(number[f], e)'
<1> USE DEF IInv
<1>1. /\ net' \subseteq net /\ faults' \in 0 .. MaxFaults
      /\ UNCHANGED <<next_frame, next_seq, number, now>>
      /\ SentFrames' = SentFrames
  BY DeliverNet DEF TakeIn
<1>2. p.frame = f /\ p.chunk_idx = idx /\ p.frame_seq = number[f]
  BY PacketFields
<1>3. /\ fed' = [fed EXCEPT ![f] = @ \union {idx}]
      /\ mixed' = IF e.frames = {f} THEN mixed ELSE mixed \union e.frames
  BY <1>2 DEF TakeIn
<1>4. f \in Frames
  BY DEF SentFrames
<1>5. fed' \in [Frames -> SUBSET (UNION {Chunks(g) : g \in Frames})]
  BY <1>3, <1>4 DEF TypeOK
<1>6. /\ f \in e.frames
      /\ e.frames \subseteq {g \in SentFrames : number[g] = number[f]}
      /\ e.first_seen \in 0 .. now
      /\ e.frames = {f} /\ f \notin mixed => OfFrame(f, e)
  BY EntryGood
<1>7. /\ mixed \subseteq mixed' /\ mixed' \subseteq SentFrames
      /\ f \notin mixed' => e.frames = {f} /\ OfFrame(f, e)
      /\ \A g \in e.frames : g # f => e.frames \subseteq mixed'
  BY <1>3, <1>6 DEF TypeOK
<1>8. GoodEntry(number[f], e)'
  <2>1. e.frames \subseteq mixed' \/ OfFrame(f, e)
    BY <1>6, <1>7
  <2>2. OfFrame(f, e) => OfFrame(f, e)'
    BY DEF OfFrame
  <2> QED BY <1>1, <1>4, <1>6, <2>1, <2>2 DEF GoodEntry
<1> QED BY <1>1, <1>3, <1>5, <1>6, <1>7, <1>8

\* A packet that does not complete its frame preserves the invariant.
LEMMA FeedPendingInv ==
  ASSUME IInv, NEW f \in SentFrames, NEW idx \in Chunks(f), NEW p, p = Packet(f, idx),
         FeedPending(p)
  PROVE  IInv'
<1> USE DEF IInv
<1>0. PICK e : e = Extended(p)
  OBVIOUS
<1> DEFINE s == number[f]
<1>1. /\ net' \subseteq net /\ faults' \in 0 .. MaxFaults
      /\ UNCHANGED <<next_frame, next_seq, number, now, high_water_seq, completed>>
      /\ SentFrames' = SentFrames
      /\ mixed \subseteq mixed' /\ mixed' \subseteq SentFrames
      /\ fed' = [fed EXCEPT ![f] = @ \union {idx}]
      /\ fed' \in [Frames -> SUBSET (UNION {Chunks(g) : g \in Frames})]
      /\ f \notin mixed' => e.frames = {f} /\ OfFrame(f, e)
      /\ f \in e.frames /\ \A g \in e.frames : g # f => e.frames \subseteq mixed'
      /\ GoodEntry(s, e)'
  BY <1>0, TakeInFacts DEF FeedPending
<1>2. f \in Frames /\ Sendable(f) /\ s \in Seqs
  BY DEF SentFrames, TypeOK
<1>3. /\ DOMAIN partials' = DOMAIN partials \union {s}
      /\ partials'[s] = e
      /\ \A t \in DOMAIN partials : t # s => partials'[t] = partials[t]
  BY <1>0, PacketFields DEF FeedPending, PutPartial
<1>4. \A t \in DOMAIN partials : GoodEntry(t, partials[t]) => GoodEntry(t, partials[t])' \/ t = s
  BY <1>1, <1>3 DEF GoodEntry, OfFrame
<1>5. f \notin mixed' => ~ (Have(e) >= e.source_chunks) /\ result'.kind = "Pending"
  <2>1. f \notin mixed' => (Full(p) => ~ FecFails(p) /\ ~ Overruns(p))
    BY <1>0, <1>1, <1>2, NoFailure
  <2> QED BY <1>0, <2>1 DEF FeedPending, Full
<1>6. \/ result'.kind = "Pending"
      \/ result'.kind \in {"FecFailed", "Panic"} /\ result'.of = f
  BY PacketFields DEF FeedPending
<1>7. TypeOK'
  <2>1. \A t \in DOMAIN partials' : GoodEntry(t, partials[t])'
    BY <1>1, <1>3, <1>4 DEF TypeOK
  <2>2. DOMAIN partials' \subseteq Seqs
    BY <1>2, <1>3 DEF TypeOK
  <2>3. result'.kind \in {"Complete", "FecFailed", "Panic"} => result'.of \in SentFrames
    BY <1>6
  <2> QED BY <1>1, <2>1, <2>2, <2>3 DEF TypeOK
<1>8. Unfinished'
  <2> SUFFICES ASSUME NEW t \in DOMAIN partials'
               PROVE  \/ partials'[t].frames \subseteq mixed'
                      \/ ~ (Have(partials'[t]) >= partials'[t].source_chunks)
    BY DEF Unfinished, Have
  <2>1. CASE t = s
    BY <2>1, <1>1, <1>3, <1>5
  <2>2. CASE t # s
    BY <2>2, <1>1, <1>3 DEF Unfinished
  <2> QED BY <2>1, <2>2
<1>9. FedTracked'
  <2> SUFFICES ASSUME NEW g \in Frames, g \notin completed, g \notin mixed'
               PROVE  fed'[g] = IF InEntry(g)' THEN DOMAIN partials'[number[g]].chunks ELSE {}
    BY <1>1 DEF FedTracked
  <2>0. fed[g] = IF InEntry(g) THEN DOMAIN partials[number[g]].chunks ELSE {}
    BY <1>1 DEF FedTracked
  <2>1. InEntry(g)' <=> number[g] \in DOMAIN partials' /\ g \in partials'[number[g]].frames
    BY <1>1 DEF InEntry
  <2>e. /\ e.frames = Entry(p).frames \union {f}
        /\ DOMAIN e.chunks = DOMAIN Entry(p).chunks \union {idx}
    BY <1>0, EntryGood
  <2>2. CASE g = f
    <3>1. /\ InEntry(f) => DOMAIN Entry(p).chunks = DOMAIN partials[s].chunks
          /\ ~ InEntry(f) => DOMAIN Entry(p).chunks = {}
      <4>1. CASE s \in DOMAIN partials
        <5>1. Entry(p) = partials[s] /\ GoodEntry(s, partials[s])
          BY <4>1, PacketFields DEF Entry, TypeOK
        <5>2. partials[s].frames = {f}
          BY <5>1, <2>2, <2>e, <1>1 DEF GoodEntry
        <5> QED BY <4>1, <5>1, <5>2 DEF InEntry
      <4>2. CASE s \notin DOMAIN partials
        BY <4>2, PacketFields DEF Entry, NewEntry, NoEntries, InEntry
      <4> QED BY <4>1, <4>2
    <3>2. fed'[f] = fed[f] \union {idx}
      BY <1>1, <1>2 DEF TypeOK
    <3> QED BY <2>0, <2>1, <2>2, <2>e, <3>1, <3>2, <1>1, <1>3
  <2>3. CASE g # f
    <3>1. fed'[g] = fed[g]
      BY <2>3, <1>1 DEF TypeOK
    <3>2. CASE number[g] = s
      <4>1. g \notin e.frames
        BY <2>3, <1>1
      <4>2. ~ InEntry(g)' /\ ~ InEntry(g)
        BY <3>2, <4>1, <2>1, <2>e, <1>3, PacketFields DEF InEntry, Entry
      <4> QED BY <2>0, <3>1, <4>2
    <3>3. CASE number[g] # s
      BY <2>0, <2>1, <3>1, <3>3, <1>3 DEF InEntry
    <3> QED BY <3>2, <3>3
  <2> QED BY <2>2, <2>3
<1>10. (HighWaterCovers /\ FrameIntegrity /\ BoundedReordering)'
  BY <1>1, <1>5, <1>6 DEF HighWaterCovers, FrameIntegrity, BoundedReordering
<1> QED BY <1>7, <1>8, <1>9, <1>10

\* A packet that completes a frame preserves the invariant: what is stitched is
\* the frame that was sent, unless another one met it.
LEMMA FeedCompleteInv ==
  ASSUME IInv, NEW f \in SentFrames, NEW idx \in Chunks(f), NEW p, p = Packet(f, idx),
         FeedComplete(p)
  PROVE  IInv'
<1> USE DEF IInv
<1>0. PICK e : e = Extended(p)
  OBVIOUS
<1> DEFINE s == number[f]
<1>1. /\ net' \subseteq net /\ faults' \in 0 .. MaxFaults
      /\ UNCHANGED <<next_frame, next_seq, number, now>>
      /\ SentFrames' = SentFrames
      /\ mixed \subseteq mixed' /\ mixed' \subseteq SentFrames
      /\ fed' = [fed EXCEPT ![f] = @ \union {idx}]
      /\ fed' \in [Frames -> SUBSET (UNION {Chunks(g) : g \in Frames})]
      /\ f \notin mixed' => e.frames = {f} /\ OfFrame(f, e)
      /\ f \in e.frames /\ \A g \in e.frames : g # f => e.frames \subseteq mixed'
  BY <1>0, TakeInFacts DEF FeedComplete
<1>2. f \in Frames /\ Sendable(f) /\ s \in Seqs
  BY DEF SentFrames, TypeOK
<1>3. /\ DOMAIN partials' = DOMAIN partials \ {s}
      /\ \A t \in DOMAIN partials' : t \in DOMAIN partials /\ partials'[t] = partials[t]
  BY PacketFields DEF FeedComplete, DropPartials
<1>4. /\ completed' = completed \union {f}
      /\ high_water_seq' = AtLeast(high_water_seq, s)
      /\ result'.kind = "Complete" /\ result'.of = f /\ result'.frame = AssembledFrame(p)
      /\ result'.frame.seq = s
  BY PacketFields DEF FeedComplete, AssembledFrame
<1>5. /\ high_water_seq' \in Seqs
      /\ high_water_seq' >= high_water_seq /\ high_water_seq' >= s
  BY <1>2, <1>4, AssemblerAssumption DEF AtLeast, TypeOK, Seqs, Frames
<1>6. TypeOK'
  <2>1. \A t \in DOMAIN partials' : GoodEntry(t, partials[t])'
    BY <1>1, <1>3 DEF TypeOK, GoodEntry, OfFrame
  <2> QED BY <1>1, <1>3, <1>4, <1>5, <2>1 DEF TypeOK
<1>7. Unfinished'
  BY <1>1, <1>3 DEF Unfinished, Have
<1>8. FedTracked'
  <2> SUFFICES ASSUME NEW g \in Frames, g \notin completed, g # f, g \notin mixed'
               PROVE  fed'[g] = IF InEntry(g)' THEN DOMAIN partials'[number[g]].chunks ELSE {}
    BY <1>1, <1>4 DEF FedTracked
  <2>0. /\ fed[g] = IF InEntry(g) THEN DOMAIN partials[number[g]].chunks ELSE {}
        /\ fed'[g] = fed[g]
    BY <1>1 DEF FedTracked, TypeOK
  <2>1. InEntry(g)' <=> number[g] \in DOMAIN partials' /\ g \in partials'[number[g]].frames
    BY <1>1 DEF InEntry
  <2>2. CASE number[g] = s
    <3>1. e.frames = Entry(p).frames \union {f} /\ g \notin e.frames
      BY <1>0, <1>1, EntryGood
    <3>2. ~ InEntry(g)' /\ ~ InEntry(g)
      BY <2>1, <2>2, <3>1, <1>3, PacketFields DEF InEntry, Entry
    <3> QED BY <2>0, <3>2
  <2>3. CASE number[g] # s
    BY <2>0, <2>1, <2>3, <1>3 DEF InEntry
  <2> QED BY <2>2, <2>3
<1>9. \A t \in completed' : number[t] \in Int /\ (number[t] <= high_water_seq \/ number[t] = s)
  BY <1>4 DEF HighWaterCovers, TypeOK, Seqs, Frames, SentFrames
<1>10. /\ high_water_seq \in Int /\ high_water_seq' \in Int /\ s \in Int
       /\ STALE_SEQ_WINDOW \in Int /\ STALE_SEQ_WINDOW > 0
  BY <1>2, <1>5, AssemblerAssumption DEF TypeOK, Seqs, Frames
<1>11. HighWaterCovers'
  BY <1>1, <1>5, <1>9, <1>10 DEF HighWaterCovers
<1>12. FrameIntegrity'
  <2>1. f \notin mixed' => AssembledFrame(p)
            = [seq |-> number[f], is_keyframe |-> kf_flag(f), nal_units |-> Nal[f]]
    BY <1>0, <1>1, <1>2, FrameRebuilt DEF FeedComplete
  <2> QED BY <1>1, <1>4, <2>1 DEF FrameIntegrity
<1>13. BoundedReordering'
  <2>1. high_water_seq < s + STALE_SEQ_WINDOW
    <3>1. ~ Stale(p) /\ p.frame_seq = s
      BY PacketFields DEF FeedComplete, TakeIn
    <3> QED BY <1>10, <3>1 DEF Stale
  <2>2. \A t \in completed' : number'[t] < s + STALE_SEQ_WINDOW
    BY <1>1, <1>9, <1>10, <2>1
  <2> QED BY <1>4, <2>2 DEF BoundedReordering
<1> QED BY <1>6, <1>7, <1>8, <1>11, <1>12, <1>13

\* Every step of the specification preserves the inductive invariant.
THEOREM InvStep == IInv /\ [Next]_vars => IInv'
<1> SUFFICES ASSUME IInv, [Next]_vars PROVE IInv'
  OBVIOUS
<1>1. CASE send_video
  BY <1>1, SendInv
<1>2. ASSUME NEW q \in net, feed(Packet(q[1], q[2])) PROVE IInv'
  <2>1. q[1] \in SentFrames /\ q[2] \in Chunks(q[1])
    BY NetIsSent DEF IInv
  <2>2. PICK f, idx : f = q[1] /\ idx = q[2]
    OBVIOUS
  <2>3. PICK p : p = Packet(f, idx)
    OBVIOUS
  <2>4. feed(p)
    BY <1>2, <2>2, <2>3
  <2> QED BY <2>1, <2>2, <2>3, <2>4, FeedIdleInv, FeedPendingInv, FeedCompleteInv DEF feed
<1>3. CASE purge
  BY <1>3, PurgeInv
<1>4. CASE Failover \/ Tick
  BY <1>4, FailoverTickInv
<1>5. CASE UNCHANGED vars
  BY <1>5 DEF vars, IInv, TypeOK, GoodEntry, OfFrame, SentFrames, Unfinished, FedTracked,
              HighWaterCovers, FrameIntegrity, BoundedReordering, Have, InEntry
<1> QED BY <1>1, <1>2, <1>3, <1>4, <1>5 DEF Next

\* IInv is an invariant of the specification.
THEOREM Invariance == Spec => []IInv
BY InitInv, InvStep, PTL DEF Spec

\* The type invariant holds for every instance: in particular every packet in
\* flight is of a sent frame, and every assembly entry is consistent with one
\* sent frame unless two frames of one number met in it.
THEOREM TypeCorrect == Spec => []TypeOK
<1>1. IInv => TypeOK
  BY DEF IInv
<1> QED BY <1>1, Invariance, PTL

\* Whatever feed hands to the decoder is the frame the encoder produced, and
\* feed neither fails nor panics, for every frame size, chunk length and FEC
\* policy, as long as no failover made chunks of two frames meet in one entry.
THEOREM FramesAreIntact == Spec => []FrameIntegrity
<1>1. IInv => FrameIntegrity
  BY DEF IInv
<1> QED BY <1>1, Invariance, PTL

\* feed never hands over a frame STALE_SEQ_WINDOW or more behind the newest.
THEOREM ReorderingIsBounded == Spec => []BoundedReordering
<1>1. IInv => BoundedReordering
  BY DEF IInv
<1> QED BY <1>1, Invariance, PTL

\* A frame of which k distinct chunks were taken in has been handed over.
THEOREM NothingLeftBehind == Spec => []EnoughChunksDelivered
<1>1. IInv => EnoughChunksDelivered
  <2> SUFFICES ASSUME IInv, NEW f \in Frames, f \notin mixed, Sendable(f), f \notin completed,
                      Cardinality(fed[f]) >= KM[f].k
               PROVE  FALSE
    BY DEF EnoughChunksDelivered
  <2>1. KM[f].k \in Nat /\ KM[f].k > 0
    BY KMNat
  <2>2. CASE InEntry(f)
    <3>1. PICK s : s = number[f]
      OBVIOUS
    <3>2. /\ s \in DOMAIN partials /\ f \in partials[s].frames
          /\ fed[f] = DOMAIN partials[s].chunks
      BY <2>2, <3>1 DEF IInv, FedTracked, InEntry
    <3>3. GoodEntry(s, partials[s])
      BY <3>2 DEF IInv, TypeOK
    <3>4. OfFrame(f, partials[s])
      BY <3>2, <3>3 DEF GoodEntry, OfFrame
    <3> QED BY <3>2, <3>4 DEF IInv, Unfinished, Have, OfFrame
  <2>3. CASE ~ InEntry(f)
    BY <2>1, <2>3, FS_EmptySet DEF IInv, FedTracked
  <2> QED BY <2>2, <2>3
<1> QED BY <1>1, Invariance, PTL
=============================================================================
