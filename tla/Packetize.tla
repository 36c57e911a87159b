------------------------------ MODULE Packetize ------------------------------
(***************************************************************************)
(* The sender half of the video path (crates/transport): the FEC sizing    *)
(* policy, the splitting of an encoded frame into equally long shards, and *)
(* the Reed-Solomon codec.                                                 *)
(*                                                                         *)
(* A byte of an access unit is identified by its frame and its offset, one  *)
(* of a parity shard by frame, index and offset, and the padding byte is a  *)
(* value of its own, so a misplaced or lost byte, one of another frame and  *)
(* leaked padding all make a different frame.  The Reed-Solomon library is  *)
(* external, and all that is assumed of it is that k shards of a frame      *)
(* determine its k source shards, that fewer do not, and that a mixture of  *)
(* frames yields bytes of none.                                             *)
(***************************************************************************)
EXTENDS Integers, FiniteSets

CONSTANTS
  MAX_SOURCE_CHUNKS,  \* packetize.rs: hard ceiling on k
  MAX_SHARDS          \* fec.rs: hard ceiling on k + m

ASSUME CeilingAssumption ==
  /\ MAX_SOURCE_CHUNKS \in Nat \ {0}
  /\ MAX_SHARDS \in Nat \ {0}

DivCeil(a, b) == (a + b - 1) \div b
AtLeast(a, b) == IF a < b THEN b ELSE a
AtMost(a, b)  == IF b < a THEN b ELSE a

\* FecPolicy: the four sizing parameters.
FecPolicy == [max_k : Nat, max_m : Nat, parity_ratio_pct : Nat, min_m : Nat]

TooLarge == [k |-> 0, m |-> 0]   \* compute_k_m's None; a real k is positive

raw_k(nal_bytes, len) == AtLeast(DivCeil(nal_bytes, len), 1)

\* FecPolicy::compute_k_m
compute_k_m(policy, nal_bytes, len) ==
  IF \/ len = 0
     \/ raw_k(nal_bytes, len) > MAX_SOURCE_CHUNKS
     \/ raw_k(nal_bytes, len) > policy.max_k
  THEN TooLarge
  ELSE LET k == raw_k(nal_bytes, len)
       IN  [k |-> k,
            m |-> AtMost(AtLeast(DivCeil(k * policy.parity_ratio_pct, 100),
                                 policy.min_m),
                         policy.max_m)]

\* FecCodec::new accepts exactly these sizes.
CodecOk(km) == km.k > 0 /\ km.m > 0 /\ km.k + km.m <= MAX_SHARDS

\* The padding byte, and a byte that no encoder produced.
Pad   == << >>
Noise == <<"noise">>

\* The i-th source shard (0-based): its slice of the access unit, zero padded.
SourceShard(nal, len, i) ==
  [j \in 0 .. len - 1 |-> IF i * len + j \in DOMAIN nal THEN nal[i * len + j] ELSE Pad]

SourceShards(nal, len, k) == [i \in 0 .. k - 1 |-> SourceShard(nal, len, i)]

\* FecCodec::encode_parity, for frame f.
ParityShard(f, len, idx) == [j \in 0 .. len - 1 |-> <<f, idx, j>>]

\* What packet chunk_idx of frame f carries as chunk_payload.
ChunkPayload(f, nal, len, k, chunk_idx) ==
  IF chunk_idx < k THEN SourceShard(nal, len, chunk_idx) ELSE ParityShard(f, len, chunk_idx)

\* The shards the codec decodes from: the first k it is given.
Used(D, k) == {i \in D : Cardinality({j \in D : j < i}) < k}

\* What the codec makes of shards that are not all of one frame.
Garbage(chunks, len, k) ==
  [i \in 0 .. k - 1 |->
     IF i \in DOMAIN chunks THEN chunks[i] ELSE [j \in 0 .. len - 1 |-> Noise]]

\* Mutant of Stitch: whole shards are appended, padding included.
Stitch_Padded(source, k, len, total_bytes) ==
  [n \in 0 .. k * len - 1 |-> source[n \div len][n % len]]

\* try_complete's stitching loop: shard i contributes its first
\* min(len, total - i*len) bytes, so byte n comes from shard n div len.
Stitch(source, k, len, total_bytes) ==
  [n \in 0 .. AtMost(total_bytes, k * len) - 1 |-> source[n \div len][n % len]]
=============================================================================
