------------------------ MODULE FileTransfer_proofs ------------------------
(***************************************************************************)
(* FileTransfer implements FileDelivery, for all files, chunk sizes,       *)
(* buffers and bounds.  The invariant that carries the proof relates each  *)
(* datagram and each transfer in progress to the history of where the      *)
(* sender cut the file.                                                    *)
(***************************************************************************)
EXTENDS FileTransfer, SequenceTheorems, WellFoundedInduction, TLAPS

Entries == [file : Files, total : Nat, cuts : Seq(Nat)]

\* What datagram m says of its transfer is what log l has of it.
Carried(m, l) ==
  /\ m.type = "begin" => /\ m.id \in DOMAIN l
                         /\ m.file = l[m.id].file /\ m.total = l[m.id].total
  /\ m.type = "chunk" => /\ m.id \in DOMAIN l /\ m.file = l[m.id].file
                         /\ m.seq + 2 <= Len(l[m.id].cuts)
                         /\ m.from = l[m.id].cuts[m.seq + 1]
                         /\ m.to = l[m.id].cuts[m.seq + 2]
                         /\ m.from <= m.to

\* Transfer t of id has the bytes up to the cut before its next chunk.
Follows(id, t, l) ==
  /\ id \in DOMAIN l
  /\ t.total_bytes = l[id].total
  /\ t.next_chunk_seq + 1 <= Len(l[id].cuts)
  /\ t.written_bytes = l[id].cuts[t.next_chunk_seq + 1]

\* They are at its path, unless that has been created again.
Stored(id, t) ==
  /\ t.dest \in DOMAIN recvDir
  /\ t.dest \notin overwritten =>
       /\ t.dest \notin completed
       /\ recvDir[t.dest] = [file |-> log[id].file, len |-> t.written_bytes, intact |-> TRUE]

SenderInv ==
  sender # Idle => /\ sender.id \in DOMAIN log
                   /\ Len(log[sender.id].cuts) = sender.seq + 1
                   /\ log[sender.id].cuts[sender.seq + 1] = sender.at

NetInv == \A d \in net : Carried(d.msg, log)

TransferInv ==
  /\ \A id \in DOMAIN transfers : Follows(id, transfers[id], log) /\ Stored(id, transfers[id])
  /\ \A i, j \in DOMAIN transfers :
       i # j => transfers[i].dest # transfers[j].dest \/ transfers[i].dest \in overwritten

CompletedInv == \A p \in completed \ overwritten : recvDir[p].intact

IInv == TypeOK /\ SenderInv /\ NetInv /\ TransferInv /\ CompletedInv

\* Log k has all that log l has.
Extends(k, l) ==
  \A id \in DOMAIN l :
    /\ id \in DOMAIN k /\ k[id].file = l[id].file /\ k[id].total = l[id].total
    /\ Len(k[id].cuts) \in Nat /\ Len(l[id].cuts) <= Len(k[id].cuts)
    /\ \A i \in 1 .. Len(l[id].cuts) : k[id].cuts[i] = l[id].cuts[i]

\* A step of the sender only adds to the log: a cut of a transfer, or a transfer.
LogStep ==
  /\ Extends(log', log)
  /\ \/ DOMAIN log' = DOMAIN log
     \/ \E x \in Nat : DOMAIN log' = DOMAIN log \cup {x} /\ log'[x].cuts = <<0>>

-----------------------------------------------------------------------------
\* Every set of numbers that is not empty has a least element.
LEMMA LeastNat == ASSUME NEW T \in SUBSET Nat, T # {} PROVE \E i \in T : \A j \in T : i <= j
<1> DEFINE R == {ss \in Nat \X Nat : ss[1] < ss[2]}
<1>1. IsWellFoundedOn(R, Nat)
  BY NatLessThanWellFounded DEF OpToRel
<1> HIDE DEF R
<1>2. PICK x \in T : \A y \in T : ~ (<<y, x>> \in R)
  BY <1>1, WFMin
<1>3. ASSUME NEW y \in T PROVE x <= y
  <2>1. x \in Nat /\ y \in Nat
    OBVIOUS
  <2>2. ~ (<<y, x>> \in R)
    BY <1>2
  <2>3. CASE y < x
    <3>1. <<y, x>> \in R
      BY <2>1, <2>3 DEF R
    <3> QED BY <3>1, <2>2
  <2> QED BY <2>1, <2>3
<1> QED BY <1>3

\* While a candidate is left, unique_path returns a path of that name that is free.
LEMMA UniqueIsFree ==
  ASSUME NEW n \in Names, \E i \in Suffixes : <<n, i>> \notin DOMAIN recvDir
  PROVE  unique_path(n) \in Paths \ DOMAIN recvDir
<1> DEFINE free == {i \in Suffixes : <<n, i>> \notin DOMAIN recvDir}
<1>1. free \in SUBSET Nat /\ free # {}
  BY FileAssumption
<1>2. \E i \in free : \A j \in free : i <= j
  BY <1>1, LeastNat
<1> DEFINE c == CHOOSE i \in free : \A j \in free : i <= j
<1>3. c \in free
  BY <1>2
<1>4. unique_path(n) = <<n, c>>
  BY <1>1 DEF unique_path
<1>5. c \in Suffixes /\ <<n, c>> \notin DOMAIN recvDir
  BY <1>3
<1> HIDE DEF c
<1> QED BY <1>4, <1>5 DEF Paths

\* When none is left it returns the bare one.
LEMMA UniqueIsBare ==
  ASSUME NEW n \in Names, ~ \E i \in Suffixes : <<n, i>> \notin DOMAIN recvDir
  PROVE  /\ unique_path(n) = <<n, 0>> /\ <<n, 0>> \in Paths /\ <<n, 0>> \in DOMAIN recvDir
         /\ {n} \X Suffixes \subseteq DOMAIN recvDir
<1>1. 0 \in Suffixes
  BY FileAssumption
<1>2. {i \in Suffixes : <<n, i>> \notin DOMAIN recvDir} = {}
  OBVIOUS
<1>3. unique_path(n) = <<n, 0>>
  BY <1>2 DEF unique_path
<1>4. {n} \X Suffixes \subseteq DOMAIN recvDir
  OBVIOUS
<1> QED BY <1>1, <1>3, <1>4 DEF Paths

\* What a datagram says stays true when the log grows.
LEMMA StaysCarried ==
  ASSUME NEW l \in Seq(Entries), NEW k \in Seq(Entries), Extends(k, l),
         NEW m \in Datagrams, Carried(m, l)
  PROVE  Carried(m, k)
<1>1. CASE m.type = "begin"
  BY <1>1 DEF Carried, Extends
<1>2. CASE m.type = "chunk"
  <2>1. m.id \in DOMAIN l /\ m.seq \in Nat /\ l[m.id] \in Entries
    BY <1>2 DEF Carried, Datagrams
  <2>2. Len(l[m.id].cuts) \in Nat /\ m.seq + 2 <= Len(l[m.id].cuts)
    BY <1>2, <2>1 DEF Carried, Entries
  <2>3. m.seq + 1 \in 1 .. Len(l[m.id].cuts) /\ m.seq + 2 \in 1 .. Len(l[m.id].cuts)
    BY <2>1, <2>2
  <2>4. /\ m.id \in DOMAIN k /\ k[m.id].file = l[m.id].file
        /\ Len(k[m.id].cuts) \in Nat /\ Len(l[m.id].cuts) <= Len(k[m.id].cuts)
        /\ k[m.id].cuts[m.seq + 1] = l[m.id].cuts[m.seq + 1]
        /\ k[m.id].cuts[m.seq + 2] = l[m.id].cuts[m.seq + 2]
    BY <2>1, <2>3 DEF Extends
  <2>5. m.seq + 2 <= Len(k[m.id].cuts)
    BY <2>1, <2>2, <2>4
  <2> QED BY <1>2, <2>4, <2>5 DEF Carried
<1>3. CASE m.type = "end"
  BY <1>3 DEF Carried
<1> QED BY <1>1, <1>2, <1>3 DEF Datagrams

\* The receiver's invariant is not disturbed when only the log grows.
LEMMA ReceiverKept ==
  ASSUME TypeOK, TransferInv, CompletedInv, log' \in Seq(Entries), Extends(log', log),
         UNCHANGED recvVars
  PROVE  TransferInv' /\ CompletedInv'
<1> USE DEF recvVars
<1>1. ASSUME NEW id \in DOMAIN transfers
      PROVE  Follows(id, transfers[id], log') /\ Stored(id, transfers[id])'
  <2> DEFINE t == transfers[id]
  <2>1. Follows(id, t, log) /\ Stored(id, t) /\ id \in DOMAIN log
    BY DEF TransferInv, Follows
  <2>2. t.next_chunk_seq \in Nat /\ log[id] \in Entries
    <3>1. t.next_chunk_seq \in Nat
      BY DEF TypeOK
    <3>2. log \in Seq(Entries)
      BY DEF TypeOK, Entries
    <3> QED BY <2>1, <3>1, <3>2
  <2>3. t.next_chunk_seq + 1 \in 1 .. Len(log[id].cuts)
    BY <2>1, <2>2 DEF Follows, Entries
  <2>4. /\ id \in DOMAIN log' /\ log'[id].file = log[id].file /\ log'[id].total = log[id].total
        /\ Len(log[id].cuts) <= Len(log'[id].cuts) /\ Len(log'[id].cuts) \in Nat
        /\ log'[id].cuts[t.next_chunk_seq + 1] = log[id].cuts[t.next_chunk_seq + 1]
    BY <2>1, <2>3 DEF Extends
  <2>5. Follows(id, t, log')
    <3>1. Len(log[id].cuts) \in Nat
      BY <2>2 DEF Entries
    <3> HIDE DEF t
    <3> QED BY <2>1, <2>2, <2>4, <3>1 DEF Follows
  <2>6. Stored(id, t)'
    BY <2>1, <2>4 DEF Stored
  <2> QED BY <2>5, <2>6
<1>2. TransferInv'
  BY <1>1 DEF TransferInv
<1> QED BY <1>2 DEF CompletedInv

\* A log that a transfer is appended to has all it had.
LEMMA AppendExtends ==
  ASSUME NEW l \in Seq(Entries), NEW e \in Entries
  PROVE  /\ Append(l, e) \in Seq(Entries) /\ Extends(Append(l, e), l)
         /\ DOMAIN Append(l, e) = DOMAIN l \cup {Len(l) + 1} /\ Append(l, e)[Len(l) + 1] = e
<1>1. /\ Append(l, e) \in Seq(Entries) /\ Len(Append(l, e)) = Len(l) + 1
      /\ \A i \in 1 .. Len(l) : Append(l, e)[i] = l[i]
      /\ Append(l, e)[Len(l) + 1] = e
  BY AppendProperties
<1>2. DOMAIN Append(l, e) = 1 .. Len(l) + 1 /\ DOMAIN l = 1 .. Len(l) /\ Len(l) \in Nat
  BY <1>1, LenProperties
<1>3. ASSUME NEW id \in DOMAIN l
      PROVE  id \in DOMAIN Append(l, e) /\ Append(l, e)[id] = l[id] /\ Len(l[id].cuts) \in Nat
  BY <1>1, <1>2 DEF Entries
<1>4. Extends(Append(l, e), l)
  BY <1>3 DEF Extends
<1> QED BY <1>1, <1>2, <1>4

\* A log where one transfer gets more cuts has all it had.
LEMMA CutExtends ==
  ASSUME NEW l \in Seq(Entries), NEW id \in DOMAIN l, NEW e \in Entries,
         e.file = l[id].file, e.total = l[id].total, Len(l[id].cuts) <= Len(e.cuts),
         \A i \in 1 .. Len(l[id].cuts) : e.cuts[i] = l[id].cuts[i]
  PROVE  /\ [l EXCEPT ![id] = e] \in Seq(Entries) /\ Extends([l EXCEPT ![id] = e], l)
         /\ DOMAIN [l EXCEPT ![id] = e] = DOMAIN l /\ [l EXCEPT ![id] = e][id] = e
<1> DEFINE k == [l EXCEPT ![id] = e]
<1>1. id \in 1 .. Len(l)
  BY LenProperties
<1>2. /\ k \in Seq(Entries) /\ Len(k) = Len(l)
      /\ \A j \in 1 .. Len(l) : k[j] = IF j = id THEN e ELSE l[j]
  BY <1>1, ExceptSeq
<1> HIDE DEF k
<1>3. DOMAIN k = 1 .. Len(l) /\ DOMAIN l = 1 .. Len(l) /\ k[id] = e
  BY <1>1, <1>2, LenProperties
<1>4. ASSUME NEW j \in DOMAIN l
      PROVE  /\ j \in DOMAIN k /\ k[j].file = l[j].file /\ k[j].total = l[j].total
             /\ Len(k[j].cuts) \in Nat /\ Len(l[j].cuts) <= Len(k[j].cuts)
             /\ \A i \in 1 .. Len(l[j].cuts) : k[j].cuts[i] = l[j].cuts[i]
  <2>1. CASE j = id
    <3>1. Len(e.cuts) \in Nat
      BY DEF Entries
    <3> QED BY <1>3, <2>1, <3>1
  <2>2. CASE j # id
    <3>1. k[j] = l[j] /\ l[j] \in Entries
      BY <1>2, <1>3, <2>2
    <3> QED BY <1>3, <3>1 DEF Entries
  <2> QED BY <2>1, <2>2
<1>5. Extends(k, l)
  BY <1>4 DEF Extends
<1> QED BY <1>1, <1>2, <1>3, <1>5 DEF k

\* TypeOK holds after a step of the sender when the variables it changes keep their
\* types and a new datagram carries the nonce used for it.
LEMMA SenderTypes ==
  ASSUME TypeOK, UNCHANGED recvVars, UNCHANGED <<clean, lost, dups>>,
         place' \in [Files -> {"absent", "outgoing", "sent"}], len' \in [Files -> Nat],
         sender' \in {Idle} \cup [id : Nat, stage : {"reading", "moving"}, seq : Nat, at : Nat],
         log' \in Seq(Entries), ended' \subseteq Nat,
         \/ UNCHANGED <<nonce, net>>
         \/ \E m \in Datagrams : Send(m)
  PROVE  TypeOK'
<1>1. nonce' \in Nat /\ \A d \in net' : d.nonce \in 0 .. nonce' - 1 /\ d.msg \in Datagrams
  <2>1. nonce \in Nat /\ \A d \in net : d.nonce \in 0 .. nonce - 1 /\ d.msg \in Datagrams
    BY DEF TypeOK
  <2>2. CASE UNCHANGED <<nonce, net>>
    BY <2>1, <2>2
  <2>3. ASSUME NEW m \in Datagrams, Send(m)
        PROVE  nonce' \in Nat /\ \A d \in net' : d.nonce \in 0 .. nonce' - 1 /\ d.msg \in Datagrams
    <3>1. nonce' = nonce + 1 /\ net' = net \cup {[nonce |-> nonce, msg |-> m]}
      BY <2>3 DEF Send
    <3> QED BY <2>1, <3>1
  <2> QED BY <2>2, <2>3
<1> QED BY <1>1 DEF TypeOK, recvVars, Entries

\* The invariant holds after a step of the sender that only adds to the log, when
\* the new datagram says what the log does.
LEMMA SenderStep ==
  ASSUME IInv, TypeOK', SenderInv', UNCHANGED recvVars, LogStep,
         \/ UNCHANGED net
         \/ \E m \in Datagrams : Send(m) /\ Carried(m, log')
  PROVE  IInv' /\ LogStep
<1>1. log \in Seq(Entries) /\ log' \in Seq(Entries)
  BY DEF IInv, TypeOK, Entries
<1>2. \A d \in net : d.msg \in Datagrams /\ Carried(d.msg, log')
  BY <1>1, StaysCarried DEF IInv, NetInv, TypeOK, LogStep
<1>3. NetInv'
  <2>1. CASE UNCHANGED net
    BY <1>2, <2>1 DEF NetInv
  <2>2. ASSUME NEW m \in Datagrams, Send(m), Carried(m, log') PROVE NetInv'
    BY <1>2, <2>2 DEF NetInv, Send
  <2> QED BY <2>1, <2>2
<1>4. TransferInv' /\ CompletedInv'
  BY <1>1, ReceiverKept DEF IInv, LogStep
<1> QED BY <1>3, <1>4 DEF IInv

\* A log extends itself.
LEMMA SameExtends == ASSUME NEW l \in Seq(Entries) PROVE Extends(l, l)
<1>1. \A id \in DOMAIN l : l[id] \in Entries
  BY LenProperties
<1> QED BY <1>1 DEF Extends, Entries

\* The invariant after every step of the sender.
LEMMA SenderKeepsIInv ==
  ASSUME IInv, \/ \E f \in Files : Appears(f) \/ Grows(f) \/ BeginSend(f)
               \/ SendChunk \/ SendEnd \/ SendFails \/ MoveToSent
  PROVE  IInv' /\ LogStep
<1> USE DEF IInv
<1>t. /\ place \in [Files -> {"absent", "outgoing", "sent"}] /\ len \in [Files -> Nat]
      /\ sender \in {Idle} \cup [id : Nat, stage : {"reading", "moving"}, seq : Nat, at : Nat]
      /\ log \in Seq(Entries) /\ ended \subseteq Nat
  BY DEF TypeOK, Entries
<1>s. log' = log => LogStep
  BY <1>t, SameExtends DEF LogStep
<1>1. ASSUME NEW f \in Files, Appears(f) PROVE IInv' /\ LogStep
  <2>1. place' \in [Files -> {"absent", "outgoing", "sent"}]
    BY <1>1, <1>t DEF Appears
  <2>2. TypeOK'
    BY <1>1, <1>t, <2>1, SenderTypes DEF Appears, netVars
  <2>3. SenderInv'
    BY <1>1 DEF Appears, SenderInv
  <2> QED BY <1>1, <1>s, <2>2, <2>3, SenderStep DEF Appears, netVars
<1>2. ASSUME NEW f \in Files, Grows(f) PROVE IInv' /\ LogStep
  <2>1. len' \in [Files -> Nat]
    BY <1>2, <1>t DEF Grows
  <2>2. TypeOK'
    BY <1>2, <1>t, <2>1, SenderTypes DEF Grows, netVars
  <2>3. SenderInv'
    BY <1>2 DEF Grows, SenderInv
  <2> QED BY <1>2, <1>s, <2>2, <2>3, SenderStep DEF Grows, netVars
<1>3. ASSUME NEW f \in Files, BeginSend(f) PROVE IInv' /\ LogStep
  <2> DEFINE id == Len(log) + 1
             e  == [file |-> f, total |-> len[f], cuts |-> <<0>>]
             m  == [type |-> "begin", id |-> id, file |-> f, total |-> len[f]]
  <2>1. /\ log' = Append(log, e) /\ Send(m)
        /\ sender' = [id |-> id, stage |-> "reading", seq |-> 0, at |-> 0]
        /\ UNCHANGED <<place, len, ended, recvVars>>
    BY <1>3 DEF BeginSend
  <2>2. id \in Nat /\ len[f] \in Nat /\ m \in Datagrams
    BY <1>t DEF Datagrams
  <2>3. e \in Entries /\ e.cuts = <<0>> /\ e.file = f /\ e.total = len[f]
    BY <2>2 DEF Entries
  <2> HIDE DEF e
  <2>4. /\ log' \in Seq(Entries) /\ Extends(log', log)
        /\ DOMAIN log' = DOMAIN log \cup {id} /\ log'[id] = e
    BY <1>t, <2>1, <2>3, AppendExtends
  <2>l. LogStep
    BY <2>2, <2>3, <2>4 DEF LogStep
  <2>5. Carried(m, log')
    BY <2>3, <2>4 DEF Carried
  <2>6. SenderInv'
    <3>1. sender'.id = id /\ sender'.seq = 0 /\ sender'.at = 0
      BY <2>1
    <3>2. log'[id].cuts = <<0>> /\ id \in DOMAIN log'
      BY <2>3, <2>4
    <3> HIDE DEF id
    <3>3. Len(<<0>>) = 0 + 1 /\ <<0>>[0 + 1] = 0
      OBVIOUS
    <3> QED BY <3>1, <3>2, <3>3 DEF SenderInv
  <2>7. sender' \in [id : Nat, stage : {"reading", "moving"}, seq : Nat, at : Nat]
    BY <2>1, <2>2
  <2> HIDE DEF m
  <2>8. TypeOK'
    BY <1>t, <2>1, <2>2, <2>4, <2>7, SenderTypes DEF Send
  <2> QED BY <2>1, <2>2, <2>5, <2>6, <2>8, <2>l, SenderStep
<1>4. ASSUME SendChunk PROVE IInv' /\ LogStep
  <2> DEFINE id == sender.id
             f  == log[id].file
  <2>1. sender # Idle /\ sender.stage = "reading"
    BY <1>4 DEF SendChunk, Sending
  <2>2. PICK n \in 1 .. CHUNK_BYTES :
          /\ Send([type |-> "chunk", id |-> id, seq |-> sender.seq,
                   file |-> f, from |-> sender.at, to |-> sender.at + n])
          /\ log' = [log EXCEPT ![id].cuts = Append(@, sender.at + n)]
          /\ sender' = [sender EXCEPT !.seq = @ + 1, !.at = @ + n]
          /\ UNCHANGED <<place, len, ended, recvVars>>
    BY <1>4 DEF SendChunk
  <2> DEFINE m == [type |-> "chunk", id |-> id, seq |-> sender.seq,
                   file |-> f, from |-> sender.at, to |-> sender.at + n]
  <2>3. /\ sender \in [id : Nat, stage : {"reading", "moving"}, seq : Nat, at : Nat]
        /\ id \in DOMAIN log /\ Len(log[id].cuts) = sender.seq + 1
        /\ log[id].cuts[sender.seq + 1] = sender.at /\ n \in Nat /\ log[id] \in Entries
    <3>1. n \in Nat
      BY FileAssumption
    <3> QED BY <1>t, <2>1, <3>1 DEF SenderInv
  <2>4. /\ sender.seq \in Nat /\ sender.at \in Nat /\ id \in Nat /\ sender.at + n \in Nat
        /\ sender'.id = id /\ sender'.seq = sender.seq + 1 /\ sender'.at = sender.at + n
        /\ f \in Files
    <3>1. sender.seq \in Nat /\ sender.at \in Nat /\ id \in Nat /\ sender.at + n \in Nat
      BY <2>3
    <3>2. sender'.id = id /\ sender'.seq = sender.seq + 1 /\ sender'.at = sender.at + n
      BY <2>2, <2>3
    <3>3. f \in Files
      BY <2>3 DEF Entries
    <3> QED BY <3>1, <3>2, <3>3
  <2>5. /\ log' \in Seq(Entries) /\ LogStep /\ Extends(log', log) /\ id \in DOMAIN log'
        /\ Len(log'[id].cuts) = Len(log[id].cuts) + 1
        /\ log'[id].cuts[Len(log[id].cuts) + 1] = sender.at + n
    <3> DEFINE v == sender.at + n
               c == Append(log[id].cuts, v)
               e == [log[id] EXCEPT !.cuts = c]
    <3>1. log' = [log EXCEPT ![id] = e] /\ log[id] \in Entries /\ id \in DOMAIN log
      BY <2>2, <2>3
    <3>2. log[id].cuts \in Seq(Nat) /\ v \in Nat
      BY <2>4, <3>1 DEF Entries
    <3> HIDE DEF v
    <3>3. /\ c \in Seq(Nat) /\ Len(c) = Len(log[id].cuts) + 1 /\ Len(log[id].cuts) \in Nat
          /\ \A i \in 1 .. Len(log[id].cuts) : c[i] = log[id].cuts[i]
          /\ c[Len(log[id].cuts) + 1] = v
      BY <3>2, AppendProperties
    <3> HIDE DEF c
    <3>4. /\ e \in Entries /\ e.file = log[id].file /\ e.total = log[id].total /\ e.cuts = c
      BY <3>1, <3>3 DEF Entries
    <3>6. /\ Len(log[id].cuts) <= Len(e.cuts)
          /\ \A i \in 1 .. Len(log[id].cuts) : e.cuts[i] = log[id].cuts[i]
      BY <3>3, <3>4
    <3> HIDE DEF e, id, f
    <3>5. /\ log' \in Seq(Entries) /\ Extends(log', log) /\ DOMAIN log' = DOMAIN log /\ log'[id] = e
      BY <1>t, <3>1, <3>4, <3>6, CutExtends
    <3>7. LogStep /\ id \in DOMAIN log'
      BY <3>1, <3>5 DEF LogStep
    <3> QED BY <3>3, <3>4, <3>5, <3>7 DEF v
  <2>6. log'[id].cuts[sender.seq + 1] = sender.at /\ log'[id].file = f
    <3>1. sender.seq + 1 \in 1 .. Len(log[id].cuts)
      BY <2>3, <2>4
    <3>2. /\ log'[id].file = log[id].file
          /\ log'[id].cuts[sender.seq + 1] = log[id].cuts[sender.seq + 1]
      BY <2>3, <2>5, <3>1 DEF Extends
    <3> QED BY <2>3, <3>2
  <2>7. m \in Datagrams
    BY <2>4 DEF Datagrams
  <2>8. Carried(m, log')
    <3>1. /\ m.id \in DOMAIN log' /\ m.file = log'[m.id].file
          /\ m.from = log'[m.id].cuts[m.seq + 1] /\ m.from <= m.to
      BY <2>3, <2>4, <2>5, <2>6
    <3>2. sender.seq + 1 + 1 = sender.seq + 2 /\ sender.seq + 2 <= Len(log'[id].cuts)
      BY <2>3, <2>4, <2>5
    <3>3. m.to = log'[m.id].cuts[m.seq + 2] /\ m.seq + 2 <= Len(log'[m.id].cuts)
      BY <2>3, <2>5, <3>2
    <3> QED BY <3>1, <3>3 DEF Carried
  <2>9. SenderInv'
    BY <2>3, <2>4, <2>5 DEF SenderInv
  <2>10. Send(m) /\ UNCHANGED <<place, len, ended, recvVars>>
    BY <2>2
  <2>11. sender' \in [id : Nat, stage : {"reading", "moving"}, seq : Nat, at : Nat]
    <3>1. sender'.stage = sender.stage /\ sender' = [sender EXCEPT !.seq = @ + 1, !.at = @ + n]
      BY <2>2, <2>3
    <3>2. sender.stage \in {"reading", "moving"} /\ sender.seq + 1 \in Nat
      BY <2>3
    <3>3. sender' = [id |-> id, stage |-> sender.stage, seq |-> sender.seq + 1, at |-> sender.at + n]
      BY <2>3, <3>1
    <3> QED BY <2>4, <3>2, <3>3
  <2> HIDE DEF m
  <2>12. TypeOK'
    BY <1>t, <2>5, <2>7, <2>10, <2>11, SenderTypes DEF Send
  <2> QED BY <2>5, <2>7, <2>8, <2>9, <2>10, <2>12, SenderStep
<1>5. ASSUME SendEnd PROVE IInv' /\ LogStep
  <2> DEFINE m == [type |-> "end", id |-> sender.id]
  <2>1. /\ sender # Idle /\ Send(m) /\ ended' = ended \cup {sender.id}
        /\ sender' = [sender EXCEPT !.stage = "moving"]
        /\ UNCHANGED <<place, len, log, recvVars>>
    BY <1>5 DEF SendEnd, Sending
  <2>2. /\ sender.id \in Nat /\ sender'.id = sender.id /\ sender'.seq = sender.seq
        /\ sender'.at = sender.at
        /\ sender' \in [id : Nat, stage : {"reading", "moving"}, seq : Nat, at : Nat]
    BY <1>t, <2>1
  <2>3. m \in Datagrams /\ Carried(m, log')
    BY <2>2 DEF Datagrams, Carried
  <2>4. SenderInv'
    BY <2>1, <2>2 DEF SenderInv
  <2> HIDE DEF m
  <2>5. TypeOK'
    BY <1>t, <2>1, <2>2, <2>3, SenderTypes DEF Send
  <2> QED BY <1>s, <2>1, <2>3, <2>4, <2>5, SenderStep
<1>6. ASSUME SendFails PROVE IInv' /\ LogStep
  <2>1. TypeOK'
    BY <1>6, <1>t, SenderTypes DEF SendFails, netVars
  <2>2. SenderInv'
    BY <1>6 DEF SendFails, SenderInv
  <2> QED BY <1>6, <1>s, <2>1, <2>2, SenderStep DEF SendFails, netVars
<1>7. ASSUME MoveToSent PROVE IInv' /\ LogStep
  <2>1. place' \in [Files -> {"absent", "outgoing", "sent"}]
    BY <1>7, <1>t DEF MoveToSent
  <2>2. TypeOK'
    BY <1>7, <1>t, <2>1, SenderTypes DEF MoveToSent, netVars
  <2>3. SenderInv'
    BY <1>7 DEF MoveToSent, SenderInv
  <2> QED BY <1>7, <1>s, <2>2, <2>3, SenderStep DEF MoveToSent, netVars
<1> QED BY <1>1, <1>2, <1>3, <1>4, <1>5, <1>6, <1>7

-----------------------------------------------------------------------------
(* The receiver. *)

RecvTypes ==
  /\ \A id \in DOMAIN transfers :
       /\ transfers[id] \in [dest : Paths, total_bytes : Nat, written_bytes : Nat, next_chunk_seq : Nat]
       /\ transfers[id].written_bytes <= transfers[id].total_bytes
  /\ DOMAIN recvDir \subseteq Paths
  /\ \A p \in DOMAIN recvDir : recvDir[p] \in [file : Files, len : Nat, intact : BOOLEAN]
  /\ completed \subseteq DOMAIN recvDir /\ overwritten \subseteq DOMAIN recvDir

RecvInv == RecvTypes /\ TransferInv /\ CompletedInv

Reported == completed \ overwritten
Reports == [p \in Reported |-> Content(p)]

\* What FileDelivery allows a step to do to the reported files.
SameStep == Reports' = Reports /\ overwritten' = overwritten /\ DOMAIN recvDir' = DOMAIN recvDir
TakeStep ==
  /\ Reports' = Reports /\ overwritten' = overwritten
  /\ \E p \in Paths \ DOMAIN recvDir : DOMAIN recvDir' = DOMAIN recvDir \cup {p}
DeliverStep ==
  /\ overwritten' = overwritten /\ DOMAIN recvDir' = DOMAIN recvDir
  /\ \E p \in DOMAIN recvDir \ (Reported \cup overwritten), id \in DOMAIN log :
       Reports' = [q \in Reported \cup {p} |-> IF q = p THEN Snapshot(id) ELSE Reports[q]]
OverwriteStep ==
  /\ DOMAIN recvDir' = DOMAIN recvDir
  /\ \E n \in Names : /\ {n} \X Suffixes \subseteq DOMAIN recvDir
                      /\ overwritten' = overwritten \cup {<<n, 0>>}
                      /\ Reports' = [p \in Reported \ {<<n, 0>>} |-> Reports[p]]
ReportStep == SameStep \/ TakeStep \/ DeliverStep \/ OverwriteStep

\* While the log and what is completed stay as they are, so do the reports.
LEMMA SameReports ==
  ASSUME Reported' = Reported, \A p \in Reported : recvDir'[p] = recvDir[p]
  PROVE  Reports' = Reports
<1>1. \A p \in Reported : Content(p)' = Content(p)
  BY DEF Content
<1> QED BY <1>1 DEF Reports

\* A step that leaves the receiver alone, but for transfers it forgets.
LEMMA SameSteps ==
  ASSUME UNCHANGED <<recvDir, completed, overwritten>>
  PROVE  SameStep
<1>1. Reported' = Reported
  BY DEF Reported
<1> QED BY <1>1, SameReports DEF SameStep

\* A file that begins gets a path of its own, and starts empty.
LEMMA BeginKeeps ==
  ASSUME RecvInv, log' = log, NEW m \in Datagrams, m.type = "begin", Carried(m, log),
         log \in Seq(Entries), \A id \in DOMAIN log : log[id].cuts[1] = 0 /\ Len(log[id].cuts) >= 1,
         RoomFor(m), NEW ok, HandleBegin(m, ok)
  PROVE  RecvInv' /\ ReportStep /\ overwritten' = overwritten
<1> USE DEF RecvInv
<1>1. CASE m.total > max_bytes \/ ~ok
  <2>1. UNCHANGED recvVars
    BY <1>1 DEF HandleBegin, Dropped
  <2>2. RecvInv'
    BY <2>1 DEF recvVars, RecvTypes, TransferInv, CompletedInv, Follows, Stored
  <2>3. SameStep
    BY <2>1, SameSteps DEF recvVars
  <2> QED BY <2>2, <2>3 DEF ReportStep, SameStep
<1>2. CASE ~(m.total > max_bytes \/ ~ok)
  <2> DEFINE dest == unique_path(NameOf[m.file])
             t == [dest |-> dest, total_bytes |-> m.total, written_bytes |-> 0, next_chunk_seq |-> 0]
             c == [file |-> m.file, len |-> 0, intact |-> TRUE]
  <2>1. m.file \in Files /\ m.total \in Nat /\ m.id \in DOMAIN log
        /\ m.file = log[m.id].file /\ m.total = log[m.id].total
    BY DEF Datagrams, Carried
  <2>2. dest \in Paths \ DOMAIN recvDir
    <3>1. NameOf[m.file] \in Names
      BY <2>1, FileAssumption
    <3>2. \E i \in Suffixes : <<NameOf[m.file], i>> \notin DOMAIN recvDir
      BY DEF RoomFor
    <3> QED BY <3>1, <3>2, UniqueIsFree
  <2>3. transfers' = Insert(transfers, m.id, t) /\ recvDir' = Insert(recvDir, dest, c)
        /\ completed' = completed /\ overwritten' = overwritten \cup ({dest} \cap DOMAIN recvDir)
    BY <1>2 DEF HandleBegin
  <2>o. overwritten' = overwritten /\ dest \notin overwritten /\ Reported' = Reported
    BY <2>2, <2>3 DEF RecvTypes, Reported
  <2>4. t.dest = dest /\ t.total_bytes = m.total /\ t.written_bytes = 0 /\ t.next_chunk_seq = 0
    OBVIOUS
  <2>5. t \in [dest : Paths, total_bytes : Nat, written_bytes : Nat, next_chunk_seq : Nat]
    BY <2>1, <2>2
  <2>6. c \in [file : Files, len : Nat, intact : BOOLEAN] /\ c.intact = TRUE
    BY <2>1
  <2>c. c = [file |-> log[m.id].file, len |-> 0, intact |-> TRUE]
    BY <2>1
  <2> HIDE DEF dest, t, c
  <2>7. /\ DOMAIN transfers' = DOMAIN transfers \cup {m.id} /\ transfers'[m.id] = t
        /\ \A id \in DOMAIN transfers : id # m.id => transfers'[id] = transfers[id]
    BY <2>3 DEF Insert
  <2>8. /\ DOMAIN recvDir' = DOMAIN recvDir \cup {dest} /\ recvDir'[dest] = c
        /\ \A p \in DOMAIN recvDir : recvDir'[p] = recvDir[p]
    <3>1. DOMAIN recvDir' = DOMAIN recvDir \cup {dest} /\ recvDir'[dest] = c
      BY <2>3 DEF Insert
    <3>2. ASSUME NEW p \in DOMAIN recvDir PROVE recvDir'[p] = recvDir[p]
      <4>1. p # dest
        BY <2>2
      <4> QED BY <2>3, <4>1 DEF Insert
    <3> QED BY <3>1, <3>2
  <2>9. RecvTypes'
    <3>1. ASSUME NEW id \in DOMAIN transfers'
          PROVE  /\ transfers'[id] \in [dest : Paths, total_bytes : Nat, written_bytes : Nat, next_chunk_seq : Nat]
                 /\ transfers'[id].written_bytes <= transfers'[id].total_bytes
      <4>1. CASE id = m.id
        BY <2>1, <2>4, <2>5, <2>7, <4>1
      <4>2. CASE id # m.id
        BY <2>7, <4>2 DEF RecvTypes
      <4> QED BY <4>1, <4>2
    <3>2. /\ DOMAIN recvDir' \subseteq Paths /\ completed' \subseteq DOMAIN recvDir'
          /\ \A p \in DOMAIN recvDir' : recvDir'[p] \in [file : Files, len : Nat, intact : BOOLEAN]
      BY <2>2, <2>3, <2>6, <2>8 DEF RecvTypes
    <3> QED BY <2>o, <2>8, <3>1, <3>2 DEF RecvTypes
  <2>10. TransferInv'
    <3>1. ASSUME NEW id \in DOMAIN transfers, id # m.id
          PROVE  /\ Follows(id, transfers[id], log') /\ Stored(id, transfers[id])'
                 /\ transfers[id].dest \in DOMAIN recvDir
      <4>1. Follows(id, transfers[id], log) /\ Stored(id, transfers[id])
        BY DEF TransferInv
      <4>2. Stored(id, transfers[id])'
        BY <2>3, <2>o, <2>7, <2>8, <3>1, <4>1 DEF Stored
      <4> QED BY <4>1, <4>2 DEF Stored
    <3>2. Follows(m.id, t, log')
      <4>1. log[m.id].cuts[1] = 0 /\ Len(log[m.id].cuts) >= 1
        BY <2>1
      <4>2. t.next_chunk_seq + 1 = 1
        BY <2>4
      <4>3. t.next_chunk_seq + 1 <= Len(log[m.id].cuts)
        <5>1. Len(log[m.id].cuts) \in Nat
          BY <2>1 DEF Entries
        <5> QED BY <4>1, <4>2, <5>1
      <4> QED BY <2>1, <2>4, <4>1, <4>2, <4>3 DEF Follows
    <3>3. Stored(m.id, transfers[m.id])'
      <4>1. dest \notin completed
        BY <2>2 DEF RecvTypes
      <4> QED BY <2>3, <2>4, <2>7, <2>8, <2>c, <4>1 DEF Stored
    <3>4. ASSUME NEW i \in DOMAIN transfers', NEW j \in DOMAIN transfers', i # j
          PROVE  transfers'[i].dest # transfers'[j].dest \/ transfers'[i].dest \in overwritten'
      <4>1. CASE i = m.id
        <5>1. transfers'[j] = transfers[j] /\ transfers[j].dest \in DOMAIN recvDir
          BY <2>7, <3>1, <3>4, <4>1
        <5> QED BY <2>2, <2>4, <2>7, <4>1, <5>1
      <4>2. CASE j = m.id
        <5>1. transfers'[i] = transfers[i] /\ transfers[i].dest \in DOMAIN recvDir
          BY <2>7, <3>1, <3>4, <4>2
        <5> QED BY <2>2, <2>4, <2>7, <4>2, <5>1
      <4>3. CASE i # m.id /\ j # m.id
        BY <2>o, <2>7, <3>4, <4>3 DEF TransferInv
      <4> QED BY <4>1, <4>2, <4>3
    <3>5. ASSUME NEW id \in DOMAIN transfers'
          PROVE  Follows(id, transfers'[id], log') /\ Stored(id, transfers[id])'
      BY <2>7, <3>1, <3>2, <3>3
    <3> QED BY <3>4, <3>5 DEF TransferInv
  <2>11. CompletedInv'
    BY <2>3, <2>o, <2>8 DEF CompletedInv, RecvTypes
  <2>12. Reports' = Reports
    BY <2>o, <2>8, SameReports DEF RecvTypes, Reported
  <2>13. TakeStep
    BY <2>2, <2>o, <2>8, <2>12 DEF TakeStep
  <2> QED BY <2>o, <2>9, <2>10, <2>11, <2>13 DEF ReportStep
<1> QED BY <1>1, <1>2

\* Without a path left, the bare one is created again, and of nothing else is less
\* said than before.
LEMMA BeginAgainKeeps ==
  ASSUME RecvInv, log' = log, NEW m \in Datagrams, m.type = "begin", Carried(m, log),
         log \in Seq(Entries), \A id \in DOMAIN log : log[id].cuts[1] = 0 /\ Len(log[id].cuts) >= 1,
         ~RoomFor(m), NEW ok, ~(m.total > max_bytes \/ ~ok), HandleBegin(m, ok)
  PROVE  RecvInv' /\ ReportStep
<1> USE DEF RecvInv
<1> DEFINE n == NameOf[m.file]
           dest == <<n, 0>>
           t == [dest |-> dest, total_bytes |-> m.total, written_bytes |-> 0, next_chunk_seq |-> 0]
           c == [file |-> m.file, len |-> 0, intact |-> TRUE]
<1>1. /\ m.file \in Files /\ m.total \in Nat /\ m.id \in DOMAIN log
      /\ m.total = log[m.id].total /\ n \in Names
  BY FileAssumption DEF Datagrams, Carried
<1>2. /\ unique_path(n) = dest /\ dest \in Paths /\ dest \in DOMAIN recvDir
      /\ {n} \X Suffixes \subseteq DOMAIN recvDir
  BY <1>1, UniqueIsBare DEF RoomFor
<1>3. /\ transfers' = Insert(transfers, m.id, t) /\ recvDir' = Insert(recvDir, dest, c)
      /\ completed' = completed /\ overwritten' = overwritten \cup {dest}
  BY <1>2 DEF HandleBegin
<1>4. /\ t.dest = dest /\ t.total_bytes = m.total /\ t.written_bytes = 0 /\ t.next_chunk_seq = 0
      /\ t \in [dest : Paths, total_bytes : Nat, written_bytes : Nat, next_chunk_seq : Nat]
      /\ c \in [file : Files, len : Nat, intact : BOOLEAN]
  BY <1>1, <1>2
<1> HIDE DEF n, dest, t, c
<1>5. /\ DOMAIN transfers' = DOMAIN transfers \cup {m.id} /\ transfers'[m.id] = t
      /\ \A id \in DOMAIN transfers : id # m.id => transfers'[id] = transfers[id]
  BY <1>3 DEF Insert
<1>6. /\ DOMAIN recvDir' = DOMAIN recvDir /\ recvDir'[dest] = c
      /\ \A p \in DOMAIN recvDir : p # dest => recvDir'[p] = recvDir[p]
  BY <1>2, <1>3 DEF Insert
<1>7. RecvTypes'
  <2>1. ASSUME NEW id \in DOMAIN transfers'
        PROVE  /\ transfers'[id] \in [dest : Paths, total_bytes : Nat, written_bytes : Nat, next_chunk_seq : Nat]
               /\ transfers'[id].written_bytes <= transfers'[id].total_bytes
    <3>1. CASE id = m.id
      BY <1>1, <1>4, <1>5, <3>1
    <3>2. CASE id # m.id
      BY <1>5, <3>2 DEF RecvTypes
    <3> QED BY <3>1, <3>2
  <2>2. /\ DOMAIN recvDir' \subseteq Paths /\ completed' \subseteq DOMAIN recvDir'
        /\ overwritten' \subseteq DOMAIN recvDir'
        /\ \A p \in DOMAIN recvDir' : recvDir'[p] \in [file : Files, len : Nat, intact : BOOLEAN]
    BY <1>2, <1>3, <1>4, <1>6 DEF RecvTypes
  <2> QED BY <2>1, <2>2 DEF RecvTypes
<1>8. TransferInv'
  <2>1. ASSUME NEW id \in DOMAIN transfers, id # m.id
        PROVE  Follows(id, transfers[id], log') /\ Stored(id, transfers[id])'
    <3>1. Follows(id, transfers[id], log) /\ Stored(id, transfers[id])
      BY DEF TransferInv
    <3> QED BY <1>3, <1>5, <1>6, <2>1, <3>1 DEF Stored
  <2>2. Follows(m.id, t, log')
    <3>1. log[m.id].cuts[1] = 0 /\ Len(log[m.id].cuts) >= 1 /\ log[m.id] \in Entries
      BY <1>1
    <3>2. t.next_chunk_seq + 1 = 1 /\ t.next_chunk_seq + 1 <= Len(log[m.id].cuts)
      BY <1>4, <3>1 DEF Entries
    <3> QED BY <1>1, <1>4, <3>1, <3>2 DEF Follows
  <2>3. Stored(m.id, transfers[m.id])'
    BY <1>2, <1>3, <1>4, <1>5, <1>6 DEF Stored
  <2>4. ASSUME NEW id \in DOMAIN transfers'
        PROVE  Follows(id, transfers'[id], log') /\ Stored(id, transfers[id])'
    BY <1>5, <2>1, <2>2, <2>3
  <2>5. ASSUME NEW i \in DOMAIN transfers', NEW j \in DOMAIN transfers', i # j
        PROVE  transfers'[i].dest # transfers'[j].dest \/ transfers'[i].dest \in overwritten'
    <3>1. CASE i = m.id \/ j = m.id
      BY <1>3, <1>4, <1>5, <3>1
    <3>2. CASE i # m.id /\ j # m.id
      BY <1>3, <1>5, <2>5, <3>2 DEF TransferInv
    <3> QED BY <3>1, <3>2
  <2> QED BY <2>4, <2>5 DEF TransferInv
<1>9. Reported' = Reported \ {dest} /\ \A p \in Reported' : p \in Reported /\ recvDir'[p] = recvDir[p]
  BY <1>3, <1>6 DEF Reported, RecvTypes
<1>10. CompletedInv'
  BY <1>9 DEF CompletedInv, Reported
<1>11. OverwriteStep
  <2>1. \A p \in Reported' : Content(p)' = Content(p)
    BY <1>9 DEF Content
  <2>2. Reports' = [p \in Reported \ {dest} |-> Reports[p]]
    BY <1>9, <2>1 DEF Reports
  <2> QED BY <1>1, <1>2, <1>3, <1>6, <2>2 DEF OverwriteStep, dest
<1> QED BY <1>7, <1>8, <1>10, <1>11 DEF ReportStep

\* A transfer that is dropped leaves its partial file, and disturbs no other.
LEMMA ForgetKeeps ==
  ASSUME RecvInv, log' = log, NEW id \in DOMAIN transfers, Forget(id),
         UNCHANGED <<recvDir, completed, overwritten>>
  PROVE  RecvInv' /\ ReportStep
<1>1. /\ DOMAIN transfers' \subseteq DOMAIN transfers
      /\ \A i \in DOMAIN transfers' : transfers'[i] = transfers[i]
  BY DEF Forget, Restrict
<1>2. RecvTypes'
  BY <1>1 DEF RecvInv, RecvTypes
<1>3. TransferInv'
  <2>1. ASSUME NEW i \in DOMAIN transfers'
        PROVE  Follows(i, transfers[i], log') /\ Stored(i, transfers[i])' /\ transfers'[i] = transfers[i]
    BY <1>1 DEF RecvInv, TransferInv, Stored
  <2> QED BY <1>1, <2>1 DEF RecvInv, TransferInv
<1>4. CompletedInv'
  BY DEF RecvInv, CompletedInv
<1>5. SameStep
  BY SameSteps
<1> QED BY <1>2, <1>3, <1>4, <1>5 DEF RecvInv, ReportStep

\* A chunk that is accepted is the next piece of the file.
LEMMA ChunkKeeps ==
  ASSUME RecvInv, log' = log, log \in Seq(Entries), NEW m \in Datagrams, m.type = "chunk",
         Carried(m, log), NEW ok, HandleChunk(m, ok)
  PROVE  RecvInv' /\ ReportStep
<1> DEFINE t == transfers[m.id]
<1>1. CASE m.id \notin DOMAIN transfers
  <2>1. UNCHANGED recvVars
    BY <1>1 DEF HandleChunk, Dropped
  <2>2. RecvInv'
    BY <2>1 DEF RecvInv, recvVars, RecvTypes, TransferInv, CompletedInv, Follows, Stored
  <2>3. SameStep
    BY <2>1, SameSteps DEF recvVars
  <2> QED BY <2>2, <2>3 DEF ReportStep
<1>2. CASE m.id \in DOMAIN transfers /\ ~(InOrder(t, m) /\ Fits(t, m) /\ ok)
  <2>1. Forget(m.id) /\ UNCHANGED <<recvDir, completed, overwritten>>
    BY <1>2 DEF HandleChunk
  <2> QED BY <1>2, <2>1, ForgetKeeps
<1>3. CASE m.id \in DOMAIN transfers /\ InOrder(t, m) /\ Fits(t, m) /\ ok
  <2> DEFINE n == m.to - m.from
             w == [t EXCEPT !.written_bytes = @ + n, !.next_chunk_seq = @ + 1]
             c == Written(recvDir[t.dest], t.written_bytes, m)
  <2>1. /\ transfers' = [transfers EXCEPT ![m.id] = w]
        /\ recvDir' = [recvDir EXCEPT ![t.dest] = c] /\ completed' = completed
        /\ overwritten' = overwritten
    BY <1>3 DEF HandleChunk
  <2>2. /\ t \in [dest : Paths, total_bytes : Nat, written_bytes : Nat, next_chunk_seq : Nat]
        /\ Follows(m.id, t, log) /\ Stored(m.id, t)
    BY <1>3 DEF RecvInv, RecvTypes, TransferInv
  <2>3. /\ m.seq \in Nat /\ m.from \in Nat /\ m.to \in Nat /\ m.from <= m.to /\ m.id \in DOMAIN log
        /\ m.file = log[m.id].file /\ m.seq + 2 <= Len(log[m.id].cuts)
        /\ m.from = log[m.id].cuts[m.seq + 1] /\ m.to = log[m.id].cuts[m.seq + 2]
    BY DEF Datagrams, Carried
  <2>4. n \in Nat /\ t.written_bytes + n <= t.total_bytes /\ m.seq = t.next_chunk_seq
    <3>1. n \in Nat
      BY <2>3
    <3>2. t.written_bytes + n <= t.total_bytes /\ m.seq = t.next_chunk_seq
      BY <1>3 DEF Fits, InOrder
    <3> QED BY <3>1, <3>2
  <2>e. /\ log[m.id] \in Entries /\ t.next_chunk_seq \in Nat /\ Len(log[m.id].cuts) \in Nat
        /\ log[m.id].file \in Files /\ t.written_bytes \in Nat
    <3>1. log[m.id] \in Entries
      BY <2>3
    <3>2. t.next_chunk_seq \in Nat /\ t.written_bytes \in Nat
      BY <2>2
    <3> QED BY <3>1, <3>2 DEF Entries
  <2>5. t.written_bytes = m.from /\ t.written_bytes + n = m.to
    <3>1. t.written_bytes = m.from
      BY <2>2, <2>3, <2>4 DEF Follows
    <3>2. m.from \in Nat /\ m.to \in Nat
      BY <2>3
    <3>3. m.from + n = m.to
      BY <3>2
    <3> HIDE DEF n
    <3> QED BY <3>1, <3>3
  <2>6. t.dest \notin overwritten =>
          c = [file |-> log[m.id].file, len |-> t.written_bytes + n, intact |-> TRUE]
    <3> SUFFICES ASSUME t.dest \notin overwritten
                 PROVE  c = [file |-> log[m.id].file, len |-> t.written_bytes + n, intact |-> TRUE]
      OBVIOUS
    <3>1. /\ recvDir[t.dest].file = log[m.id].file /\ recvDir[t.dest].len = t.written_bytes
          /\ recvDir[t.dest].intact = TRUE
      BY <2>2 DEF Stored
    <3>2. (recvDir[t.dest].intact /\ m.file = recvDir[t.dest].file /\ m.from = t.written_bytes
           /\ t.written_bytes <= recvDir[t.dest].len) = TRUE
      BY <2>3, <2>e, <2>5, <3>1
    <3>3. Most(recvDir[t.dest].len, t.written_bytes + n) = t.written_bytes + n
      BY <2>4, <2>e, <3>1 DEF Most
    <3> QED BY <3>1, <3>2, <3>3 DEF Written
  <2>t. c \in [file : Files, len : Nat, intact : BOOLEAN]
    <3>1. recvDir[t.dest] \in [file : Files, len : Nat, intact : BOOLEAN]
      BY <2>2 DEF Stored, RecvInv, RecvTypes
    <3>2. Most(recvDir[t.dest].len, t.written_bytes + n) \in Nat
      BY <2>4, <2>e, <3>1 DEF Most
    <3>3. c.intact \in BOOLEAN /\ c.file \in Files /\ c.len \in Nat
      BY <3>1, <3>2 DEF Written
    <3> QED BY <3>3 DEF Written
  <2>7. /\ w.dest = t.dest /\ w.total_bytes = t.total_bytes
        /\ w.written_bytes = t.written_bytes + n /\ w.next_chunk_seq = t.next_chunk_seq + 1
        /\ w \in [dest : Paths, total_bytes : Nat, written_bytes : Nat, next_chunk_seq : Nat]
    <3>1. w = [dest |-> t.dest, total_bytes |-> t.total_bytes,
               written_bytes |-> t.written_bytes + n, next_chunk_seq |-> t.next_chunk_seq + 1]
      <4>1. t \in [dest : Paths, total_bytes : Nat, written_bytes : Nat, next_chunk_seq : Nat]
        BY <2>2
      <4> HIDE DEF n, t
      <4>2. DOMAIN t = {"dest", "total_bytes", "written_bytes", "next_chunk_seq"}
        BY <4>1
      <4>3. /\ DOMAIN w = {"dest", "total_bytes", "written_bytes", "next_chunk_seq"}
            /\ w = [i \in DOMAIN w |-> w[i]]
        BY <4>1, <4>2
      <4>4. /\ w.dest = t.dest /\ w.total_bytes = t.total_bytes
            /\ w.written_bytes = t.written_bytes + n /\ w.next_chunk_seq = t.next_chunk_seq + 1
        BY <4>1, <4>2
      <4> HIDE DEF w
      <4> QED BY <4>3, <4>4
    <3>2. /\ t.dest \in Paths /\ t.total_bytes \in Nat
          /\ t.written_bytes + n \in Nat /\ t.next_chunk_seq + 1 \in Nat
      BY <2>2, <2>4
    <3> HIDE DEF w, t, n
    <3> QED BY <3>1, <3>2
  <2> HIDE DEF c, w, n
  <2>8. /\ DOMAIN transfers' = DOMAIN transfers /\ transfers'[m.id] = w
        /\ \A i \in DOMAIN transfers : i # m.id => transfers'[i] = transfers[i]
    BY <1>3, <2>1
  <2>d. t.dest \in DOMAIN recvDir /\ t.dest \notin Reported
    BY <2>2 DEF Stored, Reported
  <2>9. /\ DOMAIN recvDir' = DOMAIN recvDir /\ recvDir'[t.dest] = c
        /\ \A p \in DOMAIN recvDir : p # t.dest => recvDir'[p] = recvDir[p]
    BY <2>1, <2>d
  <2>10. RecvTypes'
    <3>1. ASSUME NEW i \in DOMAIN transfers'
          PROVE  /\ transfers'[i] \in [dest : Paths, total_bytes : Nat, written_bytes : Nat, next_chunk_seq : Nat]
                 /\ transfers'[i].written_bytes <= transfers'[i].total_bytes
      <4>1. CASE i = m.id
        BY <2>4, <2>7, <2>8, <4>1
      <4>2. CASE i # m.id
        BY <2>8, <4>2 DEF RecvInv, RecvTypes
      <4> QED BY <4>1, <4>2
    <3>3. /\ DOMAIN recvDir' \subseteq Paths /\ completed' \subseteq DOMAIN recvDir'
          /\ overwritten' \subseteq DOMAIN recvDir'
          /\ \A p \in DOMAIN recvDir' : recvDir'[p] \in [file : Files, len : Nat, intact : BOOLEAN]
      BY <2>1, <2>9, <2>t DEF RecvInv, RecvTypes
    <3> QED BY <3>1, <3>3 DEF RecvTypes
  <2>11. TransferInv'
    <3>1. ASSUME NEW i \in DOMAIN transfers, i # m.id
          PROVE  /\ Follows(i, transfers[i], log') /\ Stored(i, transfers[i])'
      <4>1. /\ Follows(i, transfers[i], log) /\ Stored(i, transfers[i])
            /\ transfers[i].dest # t.dest \/ transfers[i].dest \in overwritten
        BY <1>3, <3>1 DEF RecvInv, TransferInv
      <4>2. Stored(i, transfers[i])'
        BY <2>1, <2>8, <2>9, <3>1, <4>1 DEF Stored
      <4> QED BY <4>1, <4>2
    <3>2. Follows(m.id, w, log')
      <4>2. w.next_chunk_seq + 1 = m.seq + 2
        BY <2>4, <2>7, <2>e
      <4> QED BY <2>2, <2>3, <2>5, <2>7, <4>2 DEF Follows
    <3>3. Stored(m.id, transfers[m.id])'
      <4>1. transfers'[m.id].dest = t.dest /\ transfers'[m.id].written_bytes = t.written_bytes + n
        BY <2>7, <2>8
      <4>2. /\ t.dest \in DOMAIN recvDir' /\ overwritten' = overwritten
            /\ t.dest \notin overwritten => t.dest \notin completed'
        BY <2>1, <2>9, <2>d DEF Reported
      <4>3. t.dest \notin overwritten =>
              recvDir'[t.dest] = [file |-> log'[m.id].file, len |-> t.written_bytes + n, intact |-> TRUE]
        BY <2>6, <2>9
      <4> HIDE DEF t
      <4> QED BY <4>1, <4>2, <4>3 DEF Stored
    <3>4. ASSUME NEW i \in DOMAIN transfers', NEW j \in DOMAIN transfers', i # j
          PROVE  transfers'[i].dest # transfers'[j].dest \/ transfers'[i].dest \in overwritten'
      <4>1. transfers[i].dest # transfers[j].dest \/ transfers[i].dest \in overwritten
        BY <2>8, <3>4 DEF RecvInv, TransferInv
      <4>2. transfers'[i].dest = transfers[i].dest /\ transfers'[j].dest = transfers[j].dest
        BY <2>7, <2>8
      <4> QED BY <2>1, <4>1, <4>2
    <3>5. ASSUME NEW i \in DOMAIN transfers'
          PROVE  Follows(i, transfers'[i], log') /\ Stored(i, transfers[i])'
      BY <2>8, <3>1, <3>2, <3>3
    <3> QED BY <3>4, <3>5 DEF TransferInv
  <2>12. Reported' = Reported /\ \A p \in Reported : p # t.dest /\ p \in DOMAIN recvDir
    BY <2>1, <2>d DEF RecvInv, RecvTypes, Reported
  <2>13. CompletedInv' /\ SameStep
    BY <2>1, <2>9, <2>12, SameReports DEF RecvInv, CompletedInv, Reported, SameStep
  <2> QED BY <2>10, <2>11, <2>13 DEF RecvInv, ReportStep
<1> QED BY <1>1, <1>2, <1>3

\* A file is reported only when it is the snapshot that was announced.
LEMMA EndKeeps ==
  ASSUME RecvInv, log' = log, NEW m \in Datagrams, m.type = "end", HandleEnd(m)
  PROVE  RecvInv' /\ ReportStep
<1> DEFINE t == transfers[m.id]
<1>1. CASE m.id \notin DOMAIN transfers
  <2>1. UNCHANGED recvVars
    BY <1>1 DEF HandleEnd, Dropped
  <2>2. RecvInv'
    BY <2>1 DEF RecvInv, recvVars, RecvTypes, TransferInv, CompletedInv, Follows, Stored
  <2>3. SameStep
    BY <2>1, SameSteps DEF recvVars
  <2> QED BY <2>2, <2>3 DEF ReportStep
<1>2. CASE m.id \in DOMAIN transfers /\ ~Whole(t)
  <2>1. Forget(m.id) /\ UNCHANGED <<recvDir, completed, overwritten>>
    BY <1>2 DEF HandleEnd
  <2> QED BY <1>2, <2>1, ForgetKeeps
<1>3. CASE m.id \in DOMAIN transfers /\ Whole(t)
  <2>1. /\ Forget(m.id) /\ recvDir' = recvDir /\ completed' = completed \cup {t.dest}
        /\ overwritten' = overwritten
    BY <1>3 DEF HandleEnd
  <2>2. /\ DOMAIN transfers' = DOMAIN transfers \ {m.id}
        /\ \A i \in DOMAIN transfers' : transfers'[i] = transfers[i]
    BY <2>1 DEF Forget, Restrict
  <2>3. Follows(m.id, t, log) /\ Stored(m.id, t) /\ t.written_bytes = t.total_bytes
    BY <1>3 DEF RecvInv, TransferInv, Whole
  <2>4. /\ t.dest \in DOMAIN recvDir /\ m.id \in DOMAIN log
        /\ t.dest \notin overwritten =>
             /\ t.dest \notin completed
             /\ recvDir[t.dest] = [file |-> log[m.id].file, len |-> log[m.id].total, intact |-> TRUE]
    BY <2>3 DEF Follows, Stored
  <2>5. RecvTypes'
    BY <2>1, <2>2, <2>4 DEF RecvInv, RecvTypes
  <2>6. TransferInv'
    <3>1. ASSUME NEW i \in DOMAIN transfers'
          PROVE  Follows(i, transfers[i], log') /\ Stored(i, transfers[i])' /\ transfers'[i] = transfers[i]
      <4>1. /\ Follows(i, transfers[i], log) /\ Stored(i, transfers[i])
            /\ transfers[i].dest # t.dest \/ transfers[i].dest \in overwritten
            /\ transfers'[i] = transfers[i]
        BY <1>3, <2>2 DEF RecvInv, TransferInv
      <4> QED BY <2>1, <4>1 DEF Stored
    <3>2. \A i, j \in DOMAIN transfers' :
            i # j => transfers'[i].dest # transfers'[j].dest \/ transfers'[i].dest \in overwritten'
      BY <2>1, <2>2 DEF RecvInv, TransferInv
    <3> QED BY <3>1, <3>2 DEF TransferInv
  <2>7. CompletedInv'
    BY <2>1, <2>4 DEF RecvInv, CompletedInv
  <2>8. CASE t.dest \in overwritten
    <3>1. Reported' = Reported
      BY <2>1, <2>8 DEF Reported
    <3>2. SameStep
      BY <2>1, <3>1, SameReports DEF SameStep
    <3> QED BY <2>5, <2>6, <2>7, <3>2 DEF RecvInv, ReportStep
  <2>9. CASE t.dest \notin overwritten
    <3>1. PICK p \in DOMAIN recvDir \ (Reported \cup overwritten) : p = t.dest
      BY <2>4, <2>9 DEF Reported
    <3>2. Content(p)' = Snapshot(m.id) /\ \A q \in Reported : Content(q)' = Content(q)
      BY <2>1, <2>4, <2>9, <3>1 DEF Content, Snapshot
    <3>3. Reported' = Reported \cup {p}
      BY <2>1, <2>9, <3>1 DEF Reported
    <3>4. Reports' = [q \in Reported \cup {p} |-> IF q = p THEN Snapshot(m.id) ELSE Reports[q]]
      BY <3>1, <3>2, <3>3 DEF Reports
    <3>5. DeliverStep
      BY <2>1, <2>4, <3>4 DEF DeliverStep
    <3> QED BY <2>5, <2>6, <2>7, <3>5 DEF RecvInv, ReportStep
  <2> QED BY <2>8, <2>9
<1> QED BY <1>1, <1>2, <1>3

\* Whatever arrives, the receiver's invariant is kept and the reports change as
\* FileDelivery says.
LEMMA ReceiveKeeps ==
  ASSUME RecvInv, log' = log, log \in Seq(Entries),
         \A id \in DOMAIN log : log[id].cuts[1] = 0 /\ Len(log[id].cuts) >= 1,
         NEW m \in Datagrams, Carried(m, log), NEW ok, Receive(m, ok)
  PROVE  RecvInv' /\ ReportStep /\ (RoomFor(m) => overwritten' = overwritten)
<1>1. CASE Truncated(m)
  <2>1. m.type = "chunk"
    BY <1>1 DEF Truncated
  <2>2. UNCHANGED recvVars
    BY <1>1, <2>1 DEF Receive, Dropped
  <2>3. RecvInv'
    BY <2>2 DEF RecvInv, recvVars, RecvTypes, TransferInv, CompletedInv, Follows, Stored
  <2>4. SameStep
    BY <2>2, SameSteps DEF recvVars
  <2> QED BY <2>3, <2>4 DEF ReportStep, SameStep
<1>2. CASE m.type = "begin"
  <2>1. HandleBegin(m, ok)
    BY <1>2 DEF Receive, Truncated
  <2>2. CASE RoomFor(m)
    BY <1>2, <2>1, <2>2, BeginKeeps
  <2>3. CASE m.total > max_bytes \/ ~ok
    <3>1. UNCHANGED recvVars
      BY <2>1, <2>3 DEF HandleBegin, Dropped
    <3>2. RecvInv'
      BY <3>1 DEF RecvInv, recvVars, RecvTypes, TransferInv, CompletedInv, Follows, Stored
    <3>3. SameStep
      BY <3>1, SameSteps DEF recvVars
    <3> QED BY <3>2, <3>3 DEF ReportStep, SameStep
  <2>4. CASE ~RoomFor(m) /\ ~(m.total > max_bytes \/ ~ok)
    BY <1>2, <2>1, <2>4, BeginAgainKeeps
  <2> QED BY <2>2, <2>3, <2>4
<1>3. CASE m.type = "chunk" /\ ~Truncated(m)
  <2>1. HandleChunk(m, ok)
    BY <1>3 DEF Receive
  <2>2. overwritten' = overwritten
    BY <2>1 DEF HandleChunk, Dropped, recvVars
  <2> QED BY <1>3, <2>1, <2>2, ChunkKeeps
<1>4. CASE m.type = "end"
  <2>1. HandleEnd(m)
    BY <1>4 DEF Receive, Truncated
  <2>2. overwritten' = overwritten
    BY <2>1 DEF HandleEnd, Dropped, recvVars
  <2> QED BY <1>4, <2>1, <2>2, EndKeeps
<1>5. m.type \in {"begin", "chunk", "end"}
  BY DEF Datagrams
<1> QED BY <1>1, <1>2, <1>3, <1>4, <1>5

-----------------------------------------------------------------------------
(* The invariant of the whole specification. *)

\* Every file is cut at 0 first.
CutsInv == \A id \in DOMAIN log : log[id].cuts[1] = 0 /\ Len(log[id].cuts) >= 1

Inv == IInv /\ CutsInv

\* The initial states.
LEMMA InitInv == Init => Inv
<1> SUFFICES ASSUME Init PROVE Inv
  OBVIOUS
<1>1. /\ DOMAIN transfers = {} /\ DOMAIN recvDir = {} /\ completed = {} /\ overwritten = {}
      /\ ended = {} /\ net = {}
      /\ sender = Idle /\ log = <<>> /\ DOMAIN log = {} /\ log \in Seq(Entries)
  BY DEF Init
<1>2. TypeOK
  <2>1. place \in [Files -> {"absent", "outgoing", "sent"}] /\ len \in [Files -> Nat]
    BY DEF Init
  <2>2. nonce \in Nat /\ clean \in BOOLEAN /\ lost \in 0 .. MaxLost /\ dups \in 0 .. MaxDups
    BY FileAssumption DEF Init
  <2> QED BY <1>1, <2>1, <2>2 DEF TypeOK, Entries
<1> QED BY <1>1, <1>2 DEF Inv, IInv, SenderInv, NetInv, TransferInv, CompletedInv, CutsInv

\* Steps of the sender keep the invariant and report nothing.
LEMMA SenderKeeps ==
  ASSUME Inv, \/ \E f \in Files : Appears(f) \/ Grows(f) \/ BeginSend(f)
              \/ SendChunk \/ SendEnd \/ SendFails \/ MoveToSent
  PROVE  Inv' /\ LogStep /\ UNCHANGED recvVars
<1>1. IInv' /\ LogStep
  BY SenderKeepsIInv DEF Inv
<1>2. UNCHANGED recvVars
  BY DEF Appears, Grows, BeginSend, SendChunk, SendEnd, SendFails, MoveToSent
<1>3. ASSUME NEW id \in DOMAIN log' PROVE log'[id].cuts[1] = 0 /\ Len(log'[id].cuts) >= 1
  <2>1. CASE id \in DOMAIN log
    <3>1. log[id].cuts[1] = 0 /\ Len(log[id].cuts) >= 1 /\ Len(log[id].cuts) \in Nat
      <4>1. log \in Seq(Entries)
        BY DEF Inv, IInv, TypeOK, Entries
      <4>2. log[id] \in Entries
        BY <2>1, <4>1
      <4> QED BY <2>1, <4>2 DEF Inv, CutsInv, Entries
    <3>2. 1 \in 1 .. Len(log[id].cuts)
      BY <3>1
    <3>3. /\ Len(log'[id].cuts) \in Nat /\ Len(log[id].cuts) <= Len(log'[id].cuts)
          /\ log'[id].cuts[1] = log[id].cuts[1]
      BY <1>1, <2>1, <3>2 DEF LogStep, Extends
    <3> QED BY <3>1, <3>3
  <2>2. CASE id \notin DOMAIN log
    <3>1. log'[id].cuts = <<0>>
      BY <1>1, <2>2 DEF LogStep
    <3> QED BY <3>1
  <2> QED BY <2>1, <2>2
<1> QED BY <1>1, <1>2, <1>3 DEF Inv, CutsInv

\* The invariant after a step that leaves the log as it is and takes datagrams out.
LEMMA ReceiverStep ==
  ASSUME Inv, RecvInv', log' = log, UNCHANGED <<place, len>>,
         sender' \in {Idle, sender}, ended' \subseteq ended, net' \subseteq net,
         nonce' = nonce \/ (nonce' = 0 /\ net' = {}),
         clean' \in BOOLEAN, lost' \in 0 .. MaxLost, dups' \in 0 .. MaxDups
  PROVE  Inv'
<1> USE DEF Inv, IInv
<1>1. nonce' \in Nat /\ \A d \in net' : d.nonce \in 0 .. nonce' - 1 /\ d.msg \in Datagrams
  BY DEF TypeOK
<1>2. TypeOK'
  BY <1>1 DEF TypeOK, RecvInv, RecvTypes
<1>3. SenderInv'
  BY DEF SenderInv
<1>4. NetInv'
  BY DEF NetInv
<1>5. CutsInv'
  BY DEF CutsInv
<1> QED BY <1>2, <1>3, <1>4, <1>5 DEF RecvInv

\* Every datagram that is delivered keeps the invariant.
LEMMA DeliverKeeps ==
  ASSUME Inv, NEW d \in net, Deliver(d)
  PROVE  Inv' /\ ReportStep /\ (clean' => overwritten' = overwritten)
<1>1. /\ d.msg \in Datagrams /\ Carried(d.msg, log)
      /\ UNCHANGED sendVars /\ lost' = lost
  BY DEF Inv, IInv, TypeOK, NetInv, Deliver
<1>2. PICK ok \in BOOLEAN, again \in BOOLEAN :
        /\ Receive(d.msg, ok)
        /\ again => dups < MaxDups
        /\ dups' = IF again THEN dups + 1 ELSE dups
        /\ net' = IF again THEN net ELSE net \ {d}
        /\ clean' = (clean /\ ok /\ ~again /\ Older(d) = {} /\ RoomFor(d.msg))
  BY DEF Deliver
<1>3. RecvInv /\ log \in Seq(Entries) /\ log' = log
  BY <1>1 DEF Inv, IInv, RecvInv, RecvTypes, TypeOK, Entries, sendVars
<1>4. RecvInv' /\ ReportStep /\ (RoomFor(d.msg) => overwritten' = overwritten)
  BY <1>1, <1>2, <1>3, ReceiveKeeps DEF Inv, CutsInv
<1>5. dups' \in 0 .. MaxDups /\ net' \subseteq net
  <2>1. dups \in 0 .. MaxDups /\ MaxDups \in Nat
    BY FileAssumption DEF Inv, IInv, TypeOK
  <2> QED BY <1>2, <2>1
<1>6. clean' \in BOOLEAN
  BY <1>2
<1>7. lost' \in 0 .. MaxLost
  BY <1>1 DEF Inv, IInv, TypeOK
<1> QED BY <1>1, <1>2, <1>3, <1>4, <1>5, <1>6, <1>7, ReceiverStep DEF sendVars

\* The invariant is inductive.
LEMMA StepInv == Inv /\ [Next]_vars => Inv'
<1> SUFFICES ASSUME Inv, [Next]_vars PROVE Inv'
  OBVIOUS
<1>1. ASSUME \/ \E f \in Files : Appears(f) \/ Grows(f) \/ BeginSend(f)
             \/ SendChunk \/ SendEnd \/ SendFails \/ MoveToSent
      PROVE  Inv'
  BY <1>1, SenderKeeps
<1>2. ASSUME NEW d \in net, Deliver(d) PROVE Inv'
  BY <1>2, DeliverKeeps
<1>r. RecvInv
  BY DEF Inv, IInv, RecvInv, RecvTypes, TypeOK
<1>3. ASSUME NEW d \in net, Lose(d) PROVE Inv'
  <2>1. RecvInv' /\ log' = log /\ UNCHANGED <<place, len, sender, ended, nonce, dups>>
    BY <1>3, <1>r DEF Lose, recvVars, sendVars, RecvInv, RecvTypes, TransferInv, CompletedInv, Follows, Stored
  <2>2. lost' \in 0 .. MaxLost /\ dups' \in 0 .. MaxDups
    <3>1. lost \in 0 .. MaxLost /\ MaxLost \in Nat /\ dups \in 0 .. MaxDups
      BY FileAssumption DEF Inv, IInv, TypeOK
    <3> QED BY <1>3, <2>1, <3>1 DEF Lose
  <2>3. net' \subseteq net /\ clean' \in BOOLEAN
    BY <1>3 DEF Lose
  <2> QED BY <2>1, <2>2, <2>3, ReceiverStep
<1>4. ASSUME NewSession PROVE Inv'
  <2>1. /\ DOMAIN transfers' = {} /\ log' = log /\ sender' = Idle /\ ended' = {} /\ net' = {} /\ nonce' = 0
        /\ clean' = TRUE /\ UNCHANGED <<place, len, recvDir, completed, overwritten, lost, dups>>
    BY <1>4 DEF NewSession
  <2>2. RecvInv'
    BY <1>r, <2>1 DEF RecvInv, RecvTypes, TransferInv, CompletedInv
  <2>3. lost' \in 0 .. MaxLost /\ dups' \in 0 .. MaxDups /\ clean' \in BOOLEAN
    BY <2>1 DEF Inv, IInv, TypeOK
  <2> QED BY <2>1, <2>2, <2>3, ReceiverStep
<1>5. CASE UNCHANGED vars
  <2>1. RecvInv'
    BY <1>5, <1>r DEF vars, RecvInv, RecvTypes, TransferInv, CompletedInv, Follows, Stored
  <2>2. lost' \in 0 .. MaxLost /\ dups' \in 0 .. MaxDups /\ clean' \in BOOLEAN
    BY <1>5 DEF vars, Inv, IInv, TypeOK
  <2> QED BY <1>5, <2>1, <2>2, ReceiverStep DEF vars
<1> QED BY <1>1, <1>2, <1>3, <1>4, <1>5 DEF Next

\* What TransferReceiver counts, the log and the directory stay of their types, and
\* no transfer writes more than was announced.
THEOREM TypeCorrect == Spec => []TypeOK
<1>1. Inv => TypeOK
  BY DEF Inv, IInv
<1> QED BY InitInv, StepInv, <1>1, PTL DEF Spec

Offers == {Snapshot(id) : id \in DOMAIN log}

\* A transfer that begins offers a snapshot of its file; other steps of the sender
\* offer nothing new.
LEMMA OfferStep ==
  ASSUME Inv, Inv', LogStep, SameStep
  PROVE  [FD!Next]_(FD!vars)
<1>1. \A id \in DOMAIN log : id \in DOMAIN log' /\ Snapshot(id)' = Snapshot(id)
  BY DEF LogStep, Extends, Snapshot
<1>2. CASE DOMAIN log' = DOMAIN log
  <2>1. Offers' = Offers
    BY <1>1, <1>2 DEF Offers
  <2> QED BY <2>1 DEF FD!vars, Offers, Reports, Reported, SameStep
<1>3. ASSUME NEW x \in Nat, DOMAIN log' = DOMAIN log \cup {x} PROVE FD!Offer
  <2> DEFINE o == Snapshot(x)'
  <2>1. o \in [file : Files, len : Nat]
    <3>1. log' \in Seq(Entries)
      BY DEF Inv, IInv, TypeOK, Entries
    <3>2. log'[x] \in Entries
      BY <1>3, <3>1
    <3> QED BY <3>2 DEF Snapshot, Entries
  <2>2. Offers' = Offers \cup {o}
    BY <1>1, <1>3 DEF Offers
  <2> HIDE DEF o
  <2>3. \E oo \in Offers' : oo \in [file : Files, len : Nat] /\ Offers' = Offers \cup {oo}
    BY <2>1, <2>2
  <2> QED BY <2>3 DEF FD!Offer, Offers, Reports, Reported, SameStep
<1> QED BY <1>2, <1>3 DEF LogStep, FD!Next

\* The file transfer implements FileDelivery.
THEOREM Implements == Spec => DeliversSnapshots
<1>1. Init => FD!Init
  <2> SUFFICES ASSUME Init PROVE FD!Init
    OBVIOUS
  <2>1. DOMAIN log = {} /\ completed = {} /\ overwritten = {} /\ DOMAIN recvDir = {}
    BY DEF Init
  <2> QED BY <2>1 DEF FD!Init
<1>2. Inv /\ [Next]_vars => [FD!Next]_(FD!vars)
  <2> SUFFICES ASSUME Inv, [Next]_vars PROVE [FD!Next]_(FD!vars)
    OBVIOUS
  <2>s. ASSUME ReportStep, log' = log PROVE [FD!Next]_(FD!vars)
    <3>1. Offers' = Offers
      BY <2>s DEF Offers, Snapshot
    <3>2. CASE SameStep
      BY <3>1, <3>2 DEF FD!vars, Offers, Reports, Reported, SameStep
    <3>3. CASE TakeStep
      <4>1. FD!Take
        BY <3>1, <3>3 DEF FD!Take, TakeStep, Offers, Reports, Reported, Paths
      <4> QED BY <4>1 DEF FD!Next
    <3>4. CASE DeliverStep
      <4>1. PICK p \in DOMAIN recvDir \ (Reported \cup overwritten), id \in DOMAIN log :
              Reports' = [q \in Reported \cup {p} |-> IF q = p THEN Snapshot(id) ELSE Reports[q]]
        BY <3>4 DEF DeliverStep
      <4>2. DOMAIN Reports = Reported /\ Snapshot(id) \in Offers
        BY DEF Reports, Offers
      <4> DEFINE o == Snapshot(id)
      <4>3. /\ p \in DOMAIN recvDir \ (DOMAIN Reports \cup overwritten) /\ o \in Offers
            /\ Reports' = [q \in DOMAIN Reports \cup {p} |-> IF q = p THEN o ELSE Reports[q]]
        BY <4>1, <4>2
      <4> HIDE DEF o
      <4>4. \E pp \in DOMAIN recvDir \ (DOMAIN Reports \cup overwritten), oo \in Offers :
              Reports' = [q \in DOMAIN Reports \cup {pp} |-> IF q = pp THEN oo ELSE Reports[q]]
        BY <4>3
      <4>5. FD!Deliver
        BY <3>1, <3>4, <4>4 DEF FD!Deliver, DeliverStep, Offers, Reports, Reported
      <4> QED BY <4>5 DEF FD!Next
    <3>5. CASE OverwriteStep
      <4>1. PICK n \in Names : /\ {n} \X Suffixes \subseteq DOMAIN recvDir
                               /\ overwritten' = overwritten \cup {<<n, 0>>}
                               /\ Reports' = [p \in Reported \ {<<n, 0>>} |-> Reports[p]]
        BY <3>5 DEF OverwriteStep
      <4>2. DOMAIN Reports = Reported
        BY DEF Reports
      <4>3. FD!Overwrite
        BY <3>1, <3>5, <4>1, <4>2 DEF FD!Overwrite, OverwriteStep, Offers, Reports, Reported
      <4> QED BY <4>3 DEF FD!Next
    <3> QED BY <2>s, <3>2, <3>3, <3>4, <3>5 DEF ReportStep
  <2>1. ASSUME \/ \E f \in Files : Appears(f) \/ Grows(f) \/ BeginSend(f)
               \/ SendChunk \/ SendEnd \/ SendFails \/ MoveToSent
        PROVE  [FD!Next]_(FD!vars)
    <3>1. Inv' /\ LogStep /\ UNCHANGED recvVars
      BY <2>1, SenderKeeps
    <3>2. SameStep
      BY <3>1, SameSteps DEF recvVars
    <3> QED BY <3>1, <3>2, OfferStep
  <2>2. ASSUME NEW d \in net, Deliver(d) PROVE [FD!Next]_(FD!vars)
    <3>1. ReportStep /\ log' = log
      BY <2>2, DeliverKeeps DEF Deliver, sendVars
    <3> QED BY <2>s, <3>1
  <2>3. ASSUME UNCHANGED <<log, recvDir, completed, overwritten>> PROVE [FD!Next]_(FD!vars)
    <3>1. SameStep
      BY <2>3, SameSteps
    <3> QED BY <2>s, <2>3, <3>1 DEF ReportStep
  <2>4. ASSUME NEW d \in net, Lose(d) PROVE UNCHANGED <<log, recvDir, completed, overwritten>>
    BY <2>4 DEF Lose, sendVars, recvVars
  <2>5. ASSUME NewSession \/ UNCHANGED vars PROVE UNCHANGED <<log, recvDir, completed, overwritten>>
    BY <2>5 DEF NewSession, vars
  <2> QED BY <2>1, <2>2, <2>3, <2>4, <2>5 DEF Next
<1> QED BY InitInv, StepInv, <1>1, <1>2, PTL DEF Spec, DeliversSnapshots, FD!Spec

-----------------------------------------------------------------------------
(* A session without trouble delivers what was sent in it. *)

\* The datagrams of transfer id that are in flight, and the order they were sent in.
Of(id) == {d \in net : d.msg.id = id}
Precedes(x, y) ==
  \/ x.type = "begin" /\ y.type # "begin"
  \/ x.type = "chunk" /\ y.type = "end"
  \/ x.type = "chunk" /\ y.type = "chunk" /\ x.seq < y.seq

\* Every datagram is sent once, and those of a transfer in their order.
OrderInv ==
  \A d, e \in net : d.msg.id = e.msg.id =>
    /\ Precedes(d.msg, e.msg) => d.nonce < e.nonce
    /\ d # e => Precedes(d.msg, e.msg) \/ Precedes(e.msg, d.msg)

\* Transfers are in the log, with a length that handle accepts and cuts that do not
\* go back, and they are cut no more once their end is sent.
BookInv ==
  /\ ended \subseteq DOMAIN log
  /\ sender # Idle => (sender.id \in ended <=> sender.stage = "moving")
  /\ \A d \in net : d.msg.id \in DOMAIN log /\ (d.msg.type = "end" => d.msg.id \in ended)
  /\ \A id \in DOMAIN log :
       /\ log[id].total <= max_bytes
       /\ \A i \in 1 .. Len(log[id].cuts) : log[id].cuts[i] <= log[id].cuts[Len(log[id].cuts)]

\* What SentArrives makes an exception of, and what it leads to.
Spoiled(id) ==
  \/ \E i \in 1 .. Len(log[id].cuts) : log[id].cuts[i] > log[id].total
  \/ ~ChunksFit(id)
  \/ id \in ended /\ ~AsAnnounced(id)

\* The chunks from number k on, and the end if it was sent, are in flight.
InFlight(id, k) ==
  /\ \A j \in k .. Len(log[id].cuts) - 2 :
       \E d \in Of(id) : d.msg.type = "chunk" /\ d.msg.seq = j
  /\ id \in ended => \E d \in Of(id) : d.msg.type = "end"

\* Nothing of a transfer has been handled, or its begin and just the chunks before
\* the next one.
Waits(id) == (\E d \in Of(id) : d.msg.type = "begin") /\ InFlight(id, 0)
Runs(id) ==
  /\ id \in DOMAIN transfers /\ transfers[id].dest \notin overwritten
  /\ \A d \in Of(id) :
       /\ d.msg.type # "begin"
       /\ d.msg.type = "chunk" => d.msg.seq >= transfers[id].next_chunk_seq
  /\ InFlight(id, transfers[id].next_chunk_seq)

Live(id) == id \in ended \/ (Sending = "reading" /\ sender.id = id)
Fares(id) == Spoiled(id) \/ HasArrived(id) \/ Waits(id) \/ Runs(id)

CleanInv == clean => \A id \in DOMAIN log : Live(id) => Fares(id)

SessionInv == OrderInv /\ BookInv /\ CleanInv

\* No two datagrams precede each other, and none precedes itself.
LEMMA OneWay ==
  ASSUME NEW x \in Datagrams, NEW y \in Datagrams, Precedes(x, y)
  PROVE  ~Precedes(y, x)
<1>1. \A z \in Datagrams : z.type = "chunk" => z.seq \in Nat
  BY DEF Datagrams
<1> QED BY <1>1 DEF Precedes

\* A datagram that all others of its transfer precede can be sent.
LEMMA SentInOrder ==
  ASSUME TypeOK, OrderInv, NEW m \in Datagrams, Send(m),
         \A d \in Of(m.id) : Precedes(d.msg, m)
  PROVE  OrderInv'
<1> DEFINE new == [nonce |-> nonce, msg |-> m]
<1>1. net' = net \cup {new} /\ new.nonce = nonce /\ new.msg = m
  BY DEF Send
<1>2. \A d \in net : d.nonce < nonce /\ d.msg \in Datagrams
  BY DEF TypeOK
<1> HIDE DEF new
<1>3. ASSUME NEW d \in net', NEW e \in net', d.msg.id = e.msg.id
      PROVE  /\ Precedes(d.msg, e.msg) => d.nonce < e.nonce
             /\ d # e => Precedes(d.msg, e.msg) \/ Precedes(e.msg, d.msg)
  <2>1. CASE d \in net /\ e \in net
    BY <1>3, <2>1 DEF OrderInv
  <2>2. CASE d \in net /\ e = new
    <3>1. d \in Of(m.id)
      BY <1>1, <1>3, <2>2 DEF Of
    <3> QED BY <1>1, <1>2, <2>2, <3>1
  <2>3. CASE d = new /\ e \in net
    <3>1. e \in Of(m.id)
      BY <1>1, <1>3, <2>3 DEF Of
    <3>2. Precedes(e.msg, d.msg) /\ ~Precedes(d.msg, e.msg)
      BY <1>1, <1>2, <2>3, <3>1, OneWay
    <3> QED BY <3>2
  <2>4. CASE d = new /\ e = new
    <3>1. ~Precedes(m, m)
      BY OneWay
    <3> QED BY <1>1, <2>4, <3>1
  <2> QED BY <1>1, <2>1, <2>2, <2>3, <2>4
<1> QED BY <1>3 DEF OrderInv

\* A message that is sent is in flight.
LEMMA SentIsInFlight ==
  ASSUME NEW m, Send(m)
  PROVE  \E d \in net' : d.msg = m
<1> DEFINE new == [nonce |-> nonce, msg |-> m]
<1>1. new \in net' /\ new.msg = m
  BY DEF Send
<1> HIDE DEF new
<1> QED BY <1>1

\* The datagram that is sent first is handled first.
LEMMA OldestFirst ==
  ASSUME OrderInv, NEW d \in net, Older(d) = {}, NEW e \in Of(d.msg.id), e # d
  PROVE  Precedes(d.msg, e.msg)
<1>1. e \in net /\ e.msg.id = d.msg.id
  BY DEF Of
<1>2. ~(e.nonce < d.nonce)
  BY <1>1 DEF Older
<1> QED BY <1>1, <1>2 DEF OrderInv

\* How a transfer fares depends on its entry of the log, its datagrams, its end and
\* its place at the receiver.
LEMMA SameFares ==
  ASSUME NEW id, Fares(id), log'[id] = log[id], Of(id)' = Of(id),
         id \in ended' <=> id \in ended,
         id \in DOMAIN transfers =>
           id \in DOMAIN transfers' /\ transfers'[id] = transfers[id],
         HasArrived(id) => HasArrived(id)', overwritten' = overwritten
  PROVE  Fares(id)'
<1>1. CASE Spoiled(id)
  <2>1. Spoiled(id)'
    BY <1>1 DEF Spoiled, ChunksFit, AsAnnounced
  <2> QED BY <2>1 DEF Fares
<1>2. CASE HasArrived(id)
  BY <1>2 DEF Fares
<1>3. \A k : InFlight(id, k) => InFlight(id, k)'
  BY DEF InFlight
<1>4. CASE Waits(id)
  <2>1. Waits(id)'
    BY <1>3, <1>4 DEF Waits
  <2> QED BY <2>1 DEF Fares
<1>5. CASE Runs(id)
  <2>1. InFlight(id, transfers[id].next_chunk_seq)'
    BY <1>5 DEF Runs, InFlight
  <2>2. Runs(id)'
    BY <1>5, <2>1 DEF Runs, InFlight
  <2> QED BY <2>2 DEF Fares
<1> QED BY <1>1, <1>2, <1>4, <1>5 DEF Fares

\* What has arrived stays.
LEMMA StaysArrived ==
  ASSUME ReportStep, overwritten' = overwritten, log' = log, NEW id \in DOMAIN log, HasArrived(id)
  PROVE  HasArrived(id)'
<1>1. PICK p \in Reported : Content(p) = Snapshot(id)
  BY DEF HasArrived, Reported
<1>2. Reports[p] = Content(p) /\ DOMAIN Reports = Reported
  BY DEF Reports
<1>3. DOMAIN Reports' = Reported' /\ \A q \in Reported' : Reports'[q] = Content(q)'
  BY DEF Reports
<1>4. p \in Reported' /\ Reports'[p] = Reports[p]
  <2>1. CASE Reports' = Reports
    BY <1>2, <1>3, <2>1
  <2>2. CASE DeliverStep
    BY <1>3, <2>2 DEF DeliverStep
  <2>3. CASE OverwriteStep
    <3>1. PICK n \in Names : /\ overwritten' = overwritten \cup {<<n, 0>>}
                             /\ Reports' = [q \in Reported \ {<<n, 0>>} |-> Reports[q]]
      BY <2>3 DEF OverwriteStep
    <3>2. p # <<n, 0>>
      BY <3>1 DEF Reported
    <3> QED BY <1>3, <3>1, <3>2
  <2> QED BY <2>1, <2>2, <2>3 DEF ReportStep, SameStep, TakeStep
<1>5. Content(p)' = Snapshot(id)' /\ p \in Reported'
  BY <1>1, <1>2, <1>3, <1>4 DEF Snapshot
<1> QED BY <1>5 DEF HasArrived, Reported

\* Steps that send and handle nothing.
LEMMA QuietStep ==
  ASSUME SessionInv, UNCHANGED <<log, net, ended, clean>>, UNCHANGED recvVars,
         sender' \in {sender, Idle}
  PROVE  SessionInv'
<1>1. OrderInv'
  BY DEF SessionInv, OrderInv
<1>2. BookInv'
  BY DEF SessionInv, BookInv
<1>3. ASSUME clean', NEW id \in DOMAIN log', Live(id)' PROVE Fares(id)'
  <2>1. Live(id) /\ id \in DOMAIN log
    BY <1>3 DEF Live, Sending
  <2>2. Fares(id)
    BY <1>3, <2>1 DEF SessionInv, CleanInv
  <2>3. HasArrived(id) => HasArrived(id)'
    BY DEF HasArrived, Content, Snapshot, recvVars
  <2>4. Of(id)' = Of(id)
    BY DEF Of
  <2> QED BY <2>2, <2>3, <2>4, SameFares DEF recvVars
<1>4. CleanInv'
  BY <1>3 DEF CleanInv
<1> QED BY <1>1, <1>2, <1>4 DEF SessionInv

\* A transfer that begins waits for its begin to be handled.
LEMMA BeginSession ==
  ASSUME Inv, SessionInv, NEW f \in Files, BeginSend(f)
  PROVE  SessionInv'
<1>0. PICK id : id = Len(log) + 1
  OBVIOUS
<1> DEFINE e  == [file |-> f, total |-> len[f], cuts |-> <<0>>]
           m  == [type |-> "begin", id |-> id, file |-> f, total |-> len[f]]
<1>1. /\ sender = Idle /\ len[f] <= max_bytes /\ log' = Append(log, e) /\ Send(m)
      /\ sender' = [id |-> id, stage |-> "reading", seq |-> 0, at |-> 0]
      /\ UNCHANGED <<ended, clean>> /\ UNCHANGED recvVars
  BY <1>0 DEF BeginSend, Send
<1>2. /\ TypeOK /\ log \in Seq(Entries) /\ len[f] \in Nat /\ net' = net \cup {[nonce |-> nonce, msg |-> m]}
  BY <1>1 DEF Inv, IInv, TypeOK, Entries, Send
<1>3. id \in Nat /\ id \notin DOMAIN log /\ m \in Datagrams
  <2>1. DOMAIN log = 1 .. Len(log) /\ Len(log) \in Nat
    BY <1>2, LenProperties
  <2> QED BY <1>0, <1>2, <2>1 DEF Datagrams
<1>4. e \in Entries /\ e.cuts = <<0>> /\ e.total = len[f]
  BY <1>2 DEF Entries
<1> HIDE DEF e
<1>5. /\ DOMAIN log' = DOMAIN log \cup {id} /\ log'[id] = e
      /\ \A j \in DOMAIN log : log'[j] = log[j]
  <2>1. DOMAIN log' = DOMAIN log \cup {id} /\ log'[id] = e
    BY <1>0, <1>1, <1>2, <1>4, AppendExtends
  <2>2. \A j \in 1 .. Len(log) : log'[j] = log[j]
    BY <1>1, <1>2, <1>4, AppendProperties
  <2>3. DOMAIN log = 1 .. Len(log)
    BY <1>2, LenProperties
  <2> QED BY <2>1, <2>2, <2>3
<1>6. m.id = id /\ m.type = "begin" /\ sender'.id = id /\ sender'.stage = "reading" /\ sender' # Idle
  <2>1. sender' \in [id : Nat, stage : {"reading", "moving"}, seq : Nat, at : Nat]
    BY <1>1, <1>3
  <2> QED BY <1>1, <2>1, FileAssumption
<1> HIDE DEF m
<1>7. id \notin ended /\ Of(id) = {}
  BY <1>3 DEF SessionInv, BookInv, Of
<1>8. OrderInv'
  BY <1>1, <1>2, <1>3, <1>6, <1>7, SentInOrder DEF SessionInv
<1>9. BookInv'
  <2>1. \A d \in net' : d.msg.id \in DOMAIN log' /\ (d.msg.type = "end" => d.msg.id \in ended')
    BY <1>1, <1>2, <1>5, <1>6 DEF SessionInv, BookInv
  <2>2. ASSUME NEW j \in DOMAIN log'
        PROVE  /\ log'[j].total <= max_bytes
               /\ \A i \in 1 .. Len(log'[j].cuts) : log'[j].cuts[i] <= log'[j].cuts[Len(log'[j].cuts)]
    <3>1. CASE j = id
      <4>1. Len(<<0>>) = 1 /\ \A i \in 1 .. 1 : <<0>>[i] <= <<0>>[1]
        OBVIOUS
      <4> QED BY <1>1, <1>4, <1>5, <3>1, <4>1
    <3>2. CASE j \in DOMAIN log
      BY <1>5, <3>2 DEF SessionInv, BookInv
    <3> QED BY <1>5, <3>1, <3>2
  <2> QED BY <1>1, <1>5, <1>6, <1>7, <2>1, <2>2 DEF SessionInv, BookInv
<1>10. ASSUME clean', NEW j \in DOMAIN log', Live(j)' PROVE Fares(j)'
  <2>1. CASE j = id
    <3>1. \E d \in Of(id)' : d.msg.type = "begin"
      <4>1. PICK d \in net' : d.msg = m
        BY <1>1, SentIsInFlight
      <4> QED BY <1>6, <4>1 DEF Of
    <3>2. 0 .. Len(log'[id].cuts) - 2 = {}
      <4>1. Len(log'[id].cuts) = 1
        BY <1>4, <1>5
      <4> QED BY <4>1
    <3>3. InFlight(id, 0)'
      BY <1>1, <1>7, <3>2 DEF InFlight
    <3> QED BY <2>1, <3>1, <3>3 DEF Waits, Fares
  <2>2. CASE j \in DOMAIN log
    <3>1. j # id
      BY <1>3, <2>2
    <3>2. j \in ended
      BY <1>1, <1>6, <1>10, <3>1 DEF Live, Sending
    <3>3. Fares(j)
      BY <1>1, <1>10, <2>2, <3>2 DEF SessionInv, CleanInv, Live
    <3>4. Of(j)' = Of(j)
      BY <1>2, <1>6, <3>1 DEF Of
    <3>5. HasArrived(j) => HasArrived(j)'
      BY <1>1, <1>5, <2>2 DEF HasArrived, Content, Snapshot, recvVars
    <3> QED BY <1>1, <1>5, <2>2, <3>3, <3>4, <3>5, SameFares DEF recvVars
  <2> QED BY <1>5, <2>1, <2>2
<1>11. CleanInv'
  BY <1>10 DEF CleanInv
<1> QED BY <1>8, <1>9, <1>11 DEF SessionInv

\* The end of a transfer is sent behind all its chunks.
LEMMA EndSession ==
  ASSUME Inv, SessionInv, SendEnd
  PROVE  SessionInv'
<1>0. PICK id : id = sender.id
  OBVIOUS
<1> DEFINE m  == [type |-> "end", id |-> id]
<1>1. /\ sender # Idle /\ sender.stage = "reading" /\ Send(m) /\ ended' = ended \cup {id}
      /\ sender' = [sender EXCEPT !.stage = "moving"]
      /\ UNCHANGED <<log, clean>> /\ UNCHANGED recvVars
  BY <1>0 DEF SendEnd, Sending, Send
<1>2. /\ TypeOK /\ net' = net \cup {[nonce |-> nonce, msg |-> m]}
      /\ sender \in [id : Nat, stage : {"reading", "moving"}, seq : Nat, at : Nat]
      /\ id \in DOMAIN log
  BY <1>0, <1>1 DEF Inv, IInv, TypeOK, SenderInv, Send
<1>3. /\ m \in Datagrams /\ m.id = id /\ m.type = "end" /\ sender' # Idle
      /\ sender'.id = id /\ sender'.stage = "moving"
  <2>1. sender' \in [id : Nat, stage : {"reading", "moving"}, seq : Nat, at : Nat]
    BY <1>1, <1>2
  <2> QED BY <1>0, <1>1, <1>2, <2>1, FileAssumption DEF Datagrams
<1> HIDE DEF m
<1>4. id \notin ended
  BY <1>0, <1>1 DEF SessionInv, BookInv
<1>5. \A d \in Of(id) : Precedes(d.msg, m)
  <2>1. \A d \in Of(id) : d.msg.type # "end" /\ d.msg \in Datagrams
    BY <1>2, <1>4 DEF SessionInv, BookInv, Of, TypeOK
  <2>2. \A d \in Of(id) : d.msg.type \in {"begin", "chunk"}
    BY <2>1 DEF Datagrams
  <2> QED BY <1>3, <2>2 DEF Precedes
<1>6. OrderInv'
  BY <1>1, <1>2, <1>3, <1>5, SentInOrder DEF SessionInv
<1>7. BookInv'
  <2>1. \A d \in net' : d.msg.id \in DOMAIN log' /\ (d.msg.type = "end" => d.msg.id \in ended')
    BY <1>1, <1>2, <1>3 DEF SessionInv, BookInv
  <2> QED BY <1>0, <1>1, <1>2, <1>3, <2>1 DEF SessionInv, BookInv
<1>8. ASSUME clean', NEW j \in DOMAIN log', Live(j)' PROVE Fares(j)'
  <2>1. Live(j) /\ j \in DOMAIN log
    BY <1>0, <1>1, <1>2, <1>3, <1>8 DEF Live, Sending
  <2>2. Fares(j)
    BY <1>1, <1>8, <2>1 DEF SessionInv, CleanInv
  <2>3. HasArrived(j) => HasArrived(j)'
    BY <1>1 DEF HasArrived, Content, Snapshot, recvVars
  <2>4. CASE j # id
    <3>1. Of(j)' = Of(j)
      BY <1>2, <1>3, <2>4 DEF Of
    <3> QED BY <1>1, <2>2, <2>3, <2>4, <3>1, SameFares DEF recvVars
  <2>5. CASE j = id
    <3>1. /\ \A d \in Of(id) : d \in Of(id)'
          /\ \A d \in Of(id)' : d \in Of(id) \/ d.msg = m
      BY <1>2 DEF Of
    <3>2. \E d \in Of(id)' : d.msg.type = "end"
      <4>1. PICK d \in net' : d.msg = m
        BY <1>1, SentIsInFlight
      <4> QED BY <1>3, <4>1 DEF Of
    <3>3. \A k : InFlight(id, k) => InFlight(id, k)'
      BY <1>1, <3>1, <3>2 DEF InFlight
    <3>4. CASE Spoiled(id)
      <4>1. Spoiled(id)'
        BY <1>1, <1>4, <3>4 DEF Spoiled, ChunksFit
      <4> QED BY <2>5, <4>1 DEF Fares
    <3>5. CASE HasArrived(id)
      BY <2>3, <2>5, <3>5 DEF Fares
    <3>6. CASE Waits(id)
      <4>1. Waits(id)'
        BY <3>1, <3>3, <3>6 DEF Waits
      <4> QED BY <2>5, <4>1 DEF Fares
    <3>7. CASE Runs(id)
      <4>1. transfers' = transfers /\ overwritten' = overwritten
        BY <1>1 DEF recvVars
      <4>2. \A d \in Of(id)' : /\ d.msg.type # "begin"
                               /\ d.msg.type = "chunk" => d.msg.seq >= transfers[id].next_chunk_seq
        BY <1>3, <3>1, <3>7 DEF Runs
      <4>3. Runs(id)'
        BY <3>3, <3>7, <4>1, <4>2 DEF Runs
      <4> QED BY <2>5, <4>3 DEF Fares
    <3> QED BY <2>2, <2>5, <3>4, <3>5, <3>6, <3>7 DEF Fares
  <2> QED BY <2>4, <2>5
<1>9. CleanInv'
  BY <1>8 DEF CleanInv
<1> QED BY <1>6, <1>7, <1>9 DEF SessionInv

\* A chunk is sent behind those before it.
LEMMA ChunkSession ==
  ASSUME Inv, SessionInv, SendChunk, Inv', LogStep
  PROVE  SessionInv'
<1>0. PICK id : id = sender.id
  OBVIOUS
<1>s. sender # Idle /\ sender.stage = "reading"
  BY DEF SendChunk, Sending
<1>1. PICK n \in 1 .. CHUNK_BYTES :
        /\ Send([type |-> "chunk", id |-> id, seq |-> sender.seq, file |-> log[id].file,
                 from |-> sender.at, to |-> sender.at + n])
        /\ log' = [log EXCEPT ![id].cuts = Append(@, sender.at + n)]
        /\ sender' = [sender EXCEPT !.seq = @ + 1, !.at = @ + n]
        /\ UNCHANGED <<ended, clean>> /\ UNCHANGED recvVars
  BY <1>0 DEF SendChunk, Send
<1> DEFINE m == [type |-> "chunk", id |-> id, seq |-> sender.seq, file |-> log[id].file,
                 from |-> sender.at, to |-> sender.at + n]
           old == log[id].cuts
           new == log'[id].cuts
<1>2. /\ TypeOK /\ log \in Seq(Entries) /\ net' = net \cup {[nonce |-> nonce, msg |-> m]}
      /\ sender \in [id : Nat, stage : {"reading", "moving"}, seq : Nat, at : Nat]
      /\ id \in DOMAIN log /\ n \in Nat
  <2>1. n \in Nat
    BY FileAssumption
  <2> QED BY <1>0, <1>1, <1>s, <2>1 DEF Inv, IInv, TypeOK, SenderInv, Entries, Send
<1>3. /\ log[id] \in Entries /\ old \in Seq(Nat) /\ Len(old) = sender.seq + 1
      /\ old[Len(old)] = sender.at /\ sender.seq \in Nat /\ sender.at \in Nat /\ id \in Nat
  <2>1. log[id] \in Entries
    BY <1>2
  <2>2. Len(old) = sender.seq + 1 /\ old[sender.seq + 1] = sender.at
    BY <1>0, <1>s DEF Inv, IInv, SenderInv
  <2> QED BY <1>0, <1>2, <2>1, <2>2 DEF Entries
<1>4. /\ DOMAIN log' = DOMAIN log /\ \A j \in DOMAIN log : j # id => log'[j] = log[j]
      /\ log'[id].total = log[id].total /\ log'[id].file = log[id].file
      /\ new = Append(old, sender.at + n)
  BY <1>1, <1>2, <1>3 DEF Entries
<1>5. /\ Len(new) = Len(old) + 1 /\ Len(old) \in Nat /\ new \in Seq(Nat)
      /\ \A i \in 1 .. Len(old) : new[i] = old[i]
      /\ new[Len(new)] = sender.at + n
  <2>1. sender.at + n \in Nat
    BY <1>2, <1>3
  <2> DEFINE elt == sender.at + n
  <2>a. /\ new = Append(old, elt) /\ old \in Seq(Nat) /\ elt \in Nat /\ Len(old) \in Nat
    BY <1>3, <1>4, <2>1
  <2> HIDE DEF new, old, elt
  <2>2. /\ Append(old, elt) \in Seq(Nat) /\ Len(Append(old, elt)) = Len(old) + 1
        /\ \A i \in 1 .. Len(old) : Append(old, elt)[i] = old[i]
        /\ Append(old, elt)[Len(old) + 1] = elt
    BY <2>a, AppendProperties
  <2>3. /\ new \in Seq(Nat) /\ Len(new) = Len(old) + 1 /\ Len(old) \in Nat
        /\ \A i \in 1 .. Len(old) : new[i] = old[i]
        /\ new[Len(new)] = elt
    BY <2>a, <2>2, Zenon
  <2> QED BY <2>3, Zenon DEF elt
<1>6. /\ m \in Datagrams /\ m.id = id /\ m.type = "chunk" /\ m.seq = sender.seq
      /\ sender'.id = id /\ sender'.stage = "reading"
  <2>1. m \in Datagrams
    BY <1>2, <1>3 DEF Datagrams, Entries
  <2>2. sender'.id = id /\ sender'.stage = "reading"
    BY <1>0, <1>1, <1>2, <1>s
  <2> HIDE DEF m
  <2>3. m.id = id /\ m.type = "chunk" /\ m.seq = sender.seq
    BY DEF m
  <2> QED BY <2>1, <2>2, <2>3
<1> HIDE DEF m
<1>7. id \notin ended
  BY <1>0, <1>s DEF SessionInv, BookInv
<1>8. \A d \in Of(id) : Precedes(d.msg, m)
  <2>1. ASSUME NEW d \in Of(id) PROVE Precedes(d.msg, m)
    <3>1. d \in net /\ d.msg.id = id /\ d.msg \in Datagrams /\ d.msg.type # "end" /\ Carried(d.msg, log)
      BY <1>2, <1>7 DEF SessionInv, BookInv, Of, TypeOK, Inv, IInv, NetInv
    <3>2. CASE d.msg.type = "begin"
      BY <1>6, <3>2 DEF Precedes
    <3>3. CASE d.msg.type = "chunk"
      <4>1. d.msg.seq \in Nat /\ d.msg.seq + 2 <= Len(old)
        BY <3>1, <3>3 DEF Datagrams, Carried
      <4>2. d.msg.seq < m.seq
        BY <1>3, <1>6, <4>1
      <4> QED BY <1>6, <3>3, <4>2 DEF Precedes
    <3> QED BY <3>1, <3>2, <3>3 DEF Datagrams
  <2> QED BY <2>1
<1>9. Send(m)
  BY <1>1 DEF m
<1>o. OrderInv'
  BY <1>2, <1>6, <1>8, <1>9, SentInOrder DEF SessionInv
<1>10. BookInv'
  <2>1. \A d \in net' : d.msg.id \in DOMAIN log' /\ (d.msg.type = "end" => d.msg.id \in ended')
    BY <1>1, <1>2, <1>4, <1>6 DEF SessionInv, BookInv
  <2>2. ASSUME NEW j \in DOMAIN log'
        PROVE  /\ log'[j].total <= max_bytes
               /\ \A i \in 1 .. Len(log'[j].cuts) : log'[j].cuts[i] <= log'[j].cuts[Len(log'[j].cuts)]
    <3>1. CASE j = id
      <4>1. \A i \in 1 .. Len(old) : old[i] <= sender.at
        BY <1>2, <1>3 DEF SessionInv, BookInv
      <4>2. ASSUME NEW i \in 1 .. Len(new) PROVE new[i] <= new[Len(new)]
        <5> HIDE DEF old, new
        <5>0. new[Len(new)] = sender.at + n /\ sender.at \in Nat /\ n \in Nat
          BY <1>2, <1>3, <1>5, Zenon
        <5>1. CASE i \in 1 .. Len(old)
          <6>1. new[i] = old[i]
            BY <1>5, <5>1, Zenon
          <6>2. old[i] \in Nat /\ old[i] <= sender.at
            BY <1>3, <4>1, <5>1
          <6> QED BY <5>0, <6>1, <6>2
        <5>2. CASE i = Len(new)
          <6>1. new[i] = new[Len(new)]
            BY <5>2, Zenon
          <6> QED BY <5>0, <6>1
        <5> QED BY <1>5, <5>1, <5>2
      <4>3. log[id].total <= max_bytes
        BY <1>2 DEF SessionInv, BookInv
      <4> QED BY <1>4, <3>1, <4>2, <4>3
    <3>2. CASE j # id
      BY <1>4, <3>2 DEF SessionInv, BookInv
    <3> QED BY <3>1, <3>2
  <2> QED BY <1>1, <1>4, <1>6, <1>7, <2>1, <2>2 DEF SessionInv, BookInv
<1>11. ASSUME clean', NEW j \in DOMAIN log', Live(j)' PROVE Fares(j)'
  <2>1. Live(j) /\ j \in DOMAIN log
    BY <1>0, <1>1, <1>4, <1>6, <1>11, <1>s DEF Live, Sending
  <2>2. Fares(j)
    BY <1>1, <1>11, <2>1 DEF SessionInv, CleanInv
  <2>3. HasArrived(j) => HasArrived(j)'
    <3>1. log'[j].file = log[j].file /\ log'[j].total = log[j].total
      BY <1>4, <2>1
    <3> QED BY <1>1, <3>1 DEF HasArrived, Content, Snapshot, recvVars
  <2>4. CASE j # id
    <3>1. Of(j)' = Of(j)
      BY <1>2, <1>6, <2>4 DEF Of
    <3> QED BY <1>1, <1>4, <2>1, <2>2, <2>3, <2>4, <3>1, SameFares DEF recvVars
  <2>5. CASE j = id
    <3>1. /\ \A d \in Of(id) : d \in Of(id)'
          /\ \A d \in Of(id)' : d \in Of(id) \/ d.msg = m
      BY <1>2 DEF Of
    <3>2. \E d \in Of(id)' : d.msg = m
      <4>1. PICK d \in net' : d.msg = m
        BY <1>9, SentIsInFlight
      <4> QED BY <1>6, <4>1 DEF Of
    <3>3. ASSUME NEW k \in Nat, InFlight(id, k) PROVE InFlight(id, k)'
      <4>1. ASSUME NEW i \in k .. Len(new) - 2
            PROVE  \E d \in Of(id)' : d.msg.type = "chunk" /\ d.msg.seq = i
        <5>1. CASE i = m.seq
          BY <1>6, <3>2, <5>1
        <5>2. CASE i # m.seq
          <6>1. i \in k .. Len(old) - 2
            BY <1>3, <1>5, <1>6, <5>2
          <6> QED BY <3>1, <3>3, <6>1 DEF InFlight
        <5> QED BY <5>1, <5>2
      <4> QED BY <1>1, <1>7, <4>1 DEF InFlight
    <3>4. CASE Spoiled(id)
      <4>1. CASE \E i \in 1 .. Len(old) : old[i] > log[id].total
        <5>1. PICK i \in 1 .. Len(old) : old[i] > log[id].total
          BY <4>1
        <5>2. i \in 1 .. Len(new) /\ new[i] > log'[id].total
          BY <1>4, <1>5, <5>1
        <5>3. Spoiled(id)'
          BY <5>2 DEF Spoiled
        <5> QED BY <2>5, <5>3 DEF Fares
      <4>2. CASE ~ChunksFit(id)
        <5>1. PICK i \in 1 .. Len(old) - 1 : ~(old[i + 1] - old[i] <= RecvBuf)
          BY <4>2 DEF ChunksFit
        <5>2. i \in 1 .. Len(new) - 1 /\ new[i + 1] = old[i + 1] /\ new[i] = old[i]
          <6> HIDE DEF old, new
          <6>1. i \in 1 .. Len(old) /\ i + 1 \in 1 .. Len(old) /\ i \in 1 .. Len(new) - 1
            BY <1>5, <5>1
          <6> QED BY <1>5, <6>1
        <5>3. ~ChunksFit(id)'
          BY <5>1, <5>2 DEF ChunksFit
        <5> QED BY <2>5, <5>3 DEF Fares, Spoiled
      <4> QED BY <1>7, <3>4, <4>1, <4>2 DEF Spoiled
    <3>5. CASE HasArrived(id)
      BY <2>3, <2>5, <3>5 DEF Fares
    <3>6. CASE Waits(id)
      <4>1. Waits(id)'
        BY <3>1, <3>3, <3>6 DEF Waits
      <4> QED BY <2>5, <4>1 DEF Fares
    <3>7. CASE Runs(id)
      <4>1. transfers' = transfers /\ overwritten' = overwritten
        BY <1>1 DEF recvVars
      <4>2. transfers[id].next_chunk_seq \in Nat /\ transfers[id].next_chunk_seq + 1 <= Len(old)
        BY <1>2, <3>7 DEF Runs, TypeOK, Inv, IInv, TransferInv, Follows
      <4>3. m.seq >= transfers[id].next_chunk_seq
        BY <1>3, <1>6, <4>2
      <4>4. \A d \in Of(id)' : /\ d.msg.type # "begin"
                               /\ d.msg.type = "chunk" => d.msg.seq >= transfers[id].next_chunk_seq
        BY <1>6, <3>1, <3>7, <4>3 DEF Runs
      <4>5. Runs(id)'
        BY <3>3, <3>7, <4>1, <4>2, <4>4 DEF Runs
      <4> QED BY <2>5, <4>5 DEF Fares
    <3> QED BY <2>2, <2>5, <3>4, <3>5, <3>6, <3>7 DEF Fares
  <2> QED BY <2>4, <2>5
<1>12. CleanInv'
  BY <1>11 DEF CleanInv
<1> QED BY <1>o, <1>10, <1>12 DEF SessionInv

\* The handling of a datagram touches the transfer it is of and no other.
LEMMA OthersStay ==
  ASSUME NEW m, NEW ok, Receive(m, ok), m.type \in {"begin", "chunk", "end"},
         NEW id \in DOMAIN transfers, id # m.id
  PROVE  id \in DOMAIN transfers' /\ transfers'[id] = transfers[id]
<1>1. ASSUME Forget(m.id) PROVE id \in DOMAIN transfers' /\ transfers'[id] = transfers[id]
  BY <1>1 DEF Forget, Restrict
<1>2. ASSUME Dropped PROVE id \in DOMAIN transfers' /\ transfers'[id] = transfers[id]
  BY <1>2 DEF Dropped, recvVars
<1>3. CASE Truncated(m)
  BY <1>2, <1>3 DEF Receive, Truncated
<1>4. CASE m.type = "begin"
  <2>1. HandleBegin(m, ok)
    BY <1>4 DEF Receive, Truncated
  <2> QED BY <1>2, <2>1 DEF HandleBegin, Insert
<1>5. CASE m.type = "chunk" /\ ~Truncated(m)
  <2>1. HandleChunk(m, ok)
    BY <1>5 DEF Receive
  <2> QED BY <1>1, <1>2, <2>1 DEF HandleChunk
<1>6. CASE m.type = "end"
  <2>1. HandleEnd(m)
    BY <1>6 DEF Receive, Truncated
  <2> QED BY <1>1, <1>2, <2>1 DEF HandleEnd
<1> QED BY <1>3, <1>4, <1>5, <1>6

\* When the oldest datagram of an undisturbed session is handled, every transfer goes
\* on as it should.
LEMMA DeliverFares ==
  ASSUME Inv, SessionInv, NEW d \in net, Deliver(d), clean', NEW id \in DOMAIN log, Live(id)
  PROVE  Fares(id)'
<1> DEFINE m == d.msg
<1>1. /\ m \in Datagrams /\ Carried(m, log) /\ TypeOK /\ m.id \in DOMAIN log
      /\ UNCHANGED sendVars
  BY DEF Inv, IInv, TypeOK, NetInv, Deliver, SessionInv, BookInv
<1>2. PICK ok \in BOOLEAN, again \in BOOLEAN :
        /\ Receive(m, ok)
        /\ net' = IF again THEN net ELSE net \ {d}
        /\ clean' = (clean /\ ok /\ ~again /\ Older(d) = {} /\ RoomFor(m))
  BY DEF Deliver
<1>3. clean /\ ok /\ Older(d) = {} /\ net' = net \ {d} /\ RoomFor(m)
  BY <1>2
<1>v. overwritten' = overwritten
  BY DeliverKeeps
<1>4. log' = log /\ ended' = ended
  BY <1>1 DEF sendVars
<1>5. Fares(id)
  BY <1>3 DEF SessionInv, CleanInv
<1>6. HasArrived(id) => HasArrived(id)'
  BY <1>4, <1>v, DeliverKeeps, StaysArrived
<1> HIDE DEF m
<1>m. m = d.msg /\ m.type \in {"begin", "chunk", "end"}
  BY <1>1 DEF m, Datagrams
<1>7. CASE id # m.id
  <2>1. Of(id)' = Of(id)
    BY <1>3, <1>7, <1>m DEF Of
  <2>2. id \in DOMAIN transfers => id \in DOMAIN transfers' /\ transfers'[id] = transfers[id]
    BY <1>2, <1>7, <1>m, OthersStay
  <2> QED BY <1>4, <1>v, <1>5, <1>6, <2>1, <2>2, SameFares
<1>8. CASE id = m.id /\ (Spoiled(id) \/ HasArrived(id))
  <2>1. CASE Spoiled(id)
    <3>1. Spoiled(id)'
      BY <1>4, <2>1 DEF Spoiled, ChunksFit, AsAnnounced
    <3> QED BY <3>1 DEF Fares
  <2> QED BY <1>6, <1>8, <2>1 DEF Fares
<1>9. CASE id = m.id /\ ~Spoiled(id) /\ ~HasArrived(id)
  <2>1. d \in Of(id) /\ Of(id)' = Of(id) \ {d}
    BY <1>3, <1>9, <1>m DEF Of
  <2>2. \A e \in Of(id) : e # d => Precedes(m, e.msg)
    BY <1>3, <1>9, <1>m, OldestFirst DEF SessionInv
  <2>3. CASE Waits(id)
    <3>1. m.type = "begin"
      <4>1. PICK b \in Of(id) : b.msg.type = "begin"
        BY <2>3 DEF Waits
      <4>2. b # d => Precedes(m, b.msg)
        BY <2>2
      <4> QED BY <1>m, <4>1, <4>2 DEF Precedes
    <3>2. m.total <= max_bytes
      <4>1. m.total = log[m.id].total
        BY <1>1, <3>1 DEF Carried
      <4> QED BY <1>1, <4>1 DEF SessionInv, BookInv
    <3>3. /\ id \in DOMAIN transfers' /\ transfers'[id].next_chunk_seq = 0
          /\ transfers'[id].dest \notin overwritten
      <4>1. HandleBegin(m, ok)
        BY <1>2, <3>1 DEF Receive, Truncated
      <4>2. ~(m.total > max_bytes \/ ~ok)
        <5>1. m.total \in Nat /\ max_bytes \in Nat
          BY <1>1, <3>1, FileAssumption DEF Datagrams
        <5> QED BY <1>3, <3>2, <5>1
      <4>3. unique_path(NameOf[m.file]) \notin overwritten
        <5>1. m.file \in Files /\ overwritten \subseteq DOMAIN recvDir
          BY <1>1, <3>1 DEF Datagrams, TypeOK
        <5>2. NameOf[m.file] \in Names
          BY <5>1, FileAssumption
        <5>3. \E i \in Suffixes : <<NameOf[m.file], i>> \notin DOMAIN recvDir
          BY <1>3, <3>1 DEF RoomFor
        <5> QED BY <5>1, <5>2, <5>3, UniqueIsFree
      <4> QED BY <1>9, <4>1, <4>2, <4>3 DEF HandleBegin, Insert
    <3>4. \A e \in Of(id)' : e.msg.type # "begin" /\ (e.msg.type = "chunk" => e.msg.seq >= 0)
      <4>1. ASSUME NEW e \in Of(id)' PROVE e.msg.type # "begin" /\ (e.msg.type = "chunk" => e.msg.seq >= 0)
        <5>1. e \in Of(id) /\ e # d /\ e.msg \in Datagrams
          BY <1>1, <2>1, <4>1 DEF TypeOK, Of
        <5>2. Precedes(m, e.msg)
          BY <2>2, <5>1
        <5> QED BY <3>1, <5>1, <5>2 DEF Precedes, Datagrams
      <4> QED BY <4>1
    <3>5. InFlight(id, 0)'
      BY <1>4, <1>m, <2>1, <2>3, <3>1 DEF Waits, InFlight
    <3>6. Runs(id)'
      BY <1>v, <3>3, <3>4, <3>5 DEF Runs
    <3> QED BY <3>6 DEF Fares
  <2>4. CASE Runs(id)
    <3> DEFINE t == transfers[id]
               cuts == log[id].cuts
    <3>1. /\ id \in DOMAIN transfers /\ Follows(id, t, log) /\ Stored(id, t)
          /\ t.next_chunk_seq \in Nat /\ t.written_bytes \in Nat /\ t.total_bytes \in Nat
          /\ t.dest \notin overwritten
          /\ InFlight(id, t.next_chunk_seq)
      BY <2>4 DEF Runs, Inv, IInv, TypeOK, TransferInv
    <3>2. /\ t.total_bytes = log[id].total /\ t.next_chunk_seq + 1 <= Len(cuts)
          /\ t.written_bytes = cuts[t.next_chunk_seq + 1]
      BY <3>1 DEF Follows
    <3>3. m.type \in {"chunk", "end"} /\ (m.type = "chunk" => m.seq >= t.next_chunk_seq)
      BY <1>m, <2>1, <2>4 DEF Runs
    <3>4. /\ log[id] \in Entries /\ cuts \in Seq(Nat) /\ Len(cuts) \in Nat /\ log[id].total \in Nat
      <4>1. log \in Seq(Entries)
        BY <1>1 DEF TypeOK, Entries
      <4>2. log[id] \in Entries
        BY <4>1
      <4> QED BY <4>2 DEF Entries
    <3>5. CASE m.type = "chunk"
      <4>1. /\ m.seq \in Nat /\ m.from \in Nat /\ m.to \in Nat /\ m.seq + 2 <= Len(cuts)
            /\ m.from = cuts[m.seq + 1] /\ m.to = cuts[m.seq + 2] /\ m.from <= m.to
        BY <1>1, <1>9, <3>5 DEF Carried, Datagrams
      <4>2. m.seq = t.next_chunk_seq
        <5> SUFFICES ASSUME m.seq > t.next_chunk_seq PROVE FALSE
          BY <3>1, <3>3, <3>5, <4>1
        <5>1. t.next_chunk_seq \in t.next_chunk_seq .. Len(cuts) - 2
          <6>1. t.next_chunk_seq \in Nat /\ m.seq \in Nat /\ Len(cuts) \in Nat
            BY <3>1, <3>4, <4>1, Zenon
          <6>2. m.seq + 2 <= Len(cuts)
            BY <4>1, Zenon
          <6> HIDE DEF t, cuts
          <6> QED BY <6>1, <6>2
        <5>2. PICK e \in Of(id) : e.msg.type = "chunk" /\ e.msg.seq = t.next_chunk_seq
          BY <3>1, <5>1 DEF InFlight
        <5>3. e # d
          BY <1>m, <3>1, <4>1, <5>2
        <5>4. Precedes(m, e.msg)
          BY <2>2, <5>3
        <5> QED BY <3>1, <3>5, <4>1, <5>2, <5>4 DEF Precedes
      <4>3. ~Truncated(m)
        <5>a. m.seq + 1 \in 1 .. Len(cuts) - 1 /\ m.seq + 1 + 1 = m.seq + 2
          <6>1. m.seq \in Nat /\ Len(cuts) \in Nat /\ m.seq + 2 <= Len(cuts)
            BY <3>4, <4>1
          <6> HIDE DEF cuts
          <6> QED BY <6>1
        <5>1. ChunksFit(id)
          BY <1>9 DEF Spoiled
        <5>2. m.to - m.from <= RecvBuf
          BY <4>1, <5>a, <5>1 DEF ChunksFit
        <5>3. m.to - m.from \in Int /\ RecvBuf \in Nat
          BY <4>1, FileAssumption
        <5> QED BY <5>2, <5>3 DEF Truncated
      <4>4. InOrder(t, m) /\ Fits(t, m)
        <5>1. m.to <= log[id].total
          <6>1. m.seq + 2 \in 1 .. Len(cuts)
            BY <3>4, <4>1
          <6>2. ~(cuts[m.seq + 2] > log[id].total)
            BY <1>9, <6>1 DEF Spoiled
          <6>3. ~(m.to > log[id].total)
            BY <4>1, <6>2, Zenon
          <6>4. m.to \in Nat /\ log[id].total \in Nat
            BY <3>4, <4>1, Zenon
          <6> QED BY <6>3, <6>4
        <5>2. t.written_bytes = m.from
          BY <3>2, <4>1, <4>2
        <5>3. t.written_bytes + (m.to - m.from) <= t.total_bytes
          <6>1. t.written_bytes + (m.to - m.from) = m.from + (m.to - m.from)
            BY <5>2, Zenon
          <6>2. m.from \in Nat /\ m.to \in Nat
            BY <4>1, Zenon
          <6>3. m.from + (m.to - m.from) = m.to
            BY <6>2
          <6>4. t.total_bytes = log[id].total
            BY <3>2, Zenon
          <6> QED BY <5>1, <6>1, <6>3, <6>4, Zenon
        <5> QED BY <4>2, <5>3 DEF InOrder, Fits
      <4>5. /\ id \in DOMAIN transfers' /\ transfers'[id].next_chunk_seq = t.next_chunk_seq + 1
            /\ transfers'[id].dest = t.dest
        <5>1. HandleChunk(m, ok)
          BY <1>2, <3>5, <4>3 DEF Receive
        <5>2. transfers' = [transfers EXCEPT ![id].written_bytes = @ + (m.to - m.from),
                                             ![id].next_chunk_seq = @ + 1]
          BY <1>3, <1>9, <3>1, <4>4, <5>1 DEF HandleChunk
        <5>3. t \in [dest : Paths, total_bytes : Nat, written_bytes : Nat, next_chunk_seq : Nat]
          BY <3>1 DEF Inv, IInv, TypeOK
        <5> QED BY <3>1, <5>2, <5>3
      <4>6. ASSUME NEW e \in Of(id)'
            PROVE  /\ e.msg.type # "begin"
                   /\ e.msg.type = "chunk" => e.msg.seq >= t.next_chunk_seq + 1
        <5>1. e \in Of(id) /\ e # d /\ e.msg \in Datagrams
          BY <1>1, <2>1, <4>6 DEF TypeOK, Of
        <5>2. Precedes(m, e.msg)
          BY <2>2, <5>1
        <5>3. e.msg.type = "chunk" => e.msg.seq \in Nat /\ m.seq < e.msg.seq
          BY <3>5, <5>1, <5>2 DEF Precedes, Datagrams
        <5>4. e.msg.type # "begin"
          BY <2>4, <5>1 DEF Runs
        <5> QED BY <3>1, <4>1, <4>2, <5>3, <5>4
      <4>k. PICK k : k = t.next_chunk_seq + 1
        OBVIOUS
      <4>7. InFlight(id, k)'
        <5>1. ASSUME NEW j \in t.next_chunk_seq + 1 .. Len(cuts) - 2
              PROVE  \E e \in Of(id)' : e.msg.type = "chunk" /\ e.msg.seq = j
          <6>1. j \in t.next_chunk_seq .. Len(cuts) - 2 /\ j # m.seq
            BY <3>1, <3>4, <4>2, <5>1
          <6>2. PICK e \in Of(id) : e.msg.type = "chunk" /\ e.msg.seq = j
            BY <3>1, <6>1 DEF InFlight
          <6>3. e # d
            BY <1>m, <6>1, <6>2
          <6> QED BY <2>1, <6>2, <6>3
        <5>2. id \in ended => \E e \in Of(id)' : e.msg.type = "end"
          BY <1>m, <2>1, <3>1, <3>5 DEF InFlight
        <5>3. Len(log'[id].cuts) = Len(cuts) /\ ended' = ended
          BY <1>4
        <5> QED BY <4>k, <5>1, <5>2, <5>3 DEF InFlight
      <4>8. Runs(id)'
        BY <1>v, <3>1, <4>5, <4>6, <4>7, <4>k DEF Runs
      <4> QED BY <4>8 DEF Fares
    <3>6. CASE m.type = "end"
      <4>1. id \in ended /\ AsAnnounced(id)
        <5>1. id \in ended
          BY <1>9, <1>m, <3>6 DEF SessionInv, BookInv
        <5> QED BY <1>9, <5>1 DEF Spoiled
      <4>2. t.next_chunk_seq + 1 = Len(cuts)
        <5> SUFFICES ASSUME t.next_chunk_seq + 1 < Len(cuts) PROVE FALSE
          BY <3>1, <3>2, <3>4
        <5>1. t.next_chunk_seq \in t.next_chunk_seq .. Len(cuts) - 2
          BY <3>1, <3>4
        <5>2. PICK e \in Of(id) : e.msg.type = "chunk"
          BY <3>1, <5>1 DEF InFlight
        <5>3. e # d
          BY <1>m, <3>6, <5>2
        <5>4. Precedes(m, e.msg)
          BY <2>2, <5>3
        <5> QED BY <3>6, <5>2, <5>4 DEF Precedes
      <4>3. Whole(t) /\ t.written_bytes = log[id].total
        BY <3>2, <4>1, <4>2 DEF AsAnnounced, Whole
      <4>4. completed' = completed \cup {t.dest} /\ recvDir' = recvDir
        <5>1. HandleEnd(m)
          BY <1>2, <3>6 DEF Receive, Truncated
        <5> QED BY <1>9, <3>1, <4>3, <5>1 DEF HandleEnd
      <4>5. Content(t.dest) = Snapshot(id)
        <5>1. /\ recvDir[t.dest].file = log[id].file /\ recvDir[t.dest].len = log[id].total
              /\ recvDir[t.dest].intact = TRUE
          BY <3>1, <4>3 DEF Stored
        <5> QED BY <5>1 DEF Content, Snapshot
      <4>6. \E p \in completed' \ overwritten' : [file |-> recvDir'[p].file, len |-> IF recvDir'[p].intact THEN recvDir'[p].len ELSE -1]
                                    = [file |-> log'[id].file, len |-> log'[id].total]
        BY <1>4, <1>v, <3>1, <4>4, <4>5 DEF Content, Snapshot
      <4>7. HasArrived(id)'
        BY <4>6 DEF HasArrived, Content, Snapshot
      <4> QED BY <4>7 DEF Fares
    <3> QED BY <3>3, <3>5, <3>6
  <2> QED BY <1>5, <1>9, <2>3, <2>4 DEF Fares
<1> QED BY <1>7, <1>8, <1>9

\* Sessions go on as they should, whatever is sent, handled or lost.
LEMMA StepSession == Inv /\ Inv' /\ SessionInv /\ [Next]_vars => SessionInv'
<1> SUFFICES ASSUME Inv, Inv', SessionInv, [Next]_vars PROVE SessionInv'
  OBVIOUS
<1>1. ASSUME NEW f \in Files, Appears(f) \/ Grows(f) PROVE SessionInv'
  BY <1>1, QuietStep DEF Appears, Grows, netVars
<1>2. ASSUME NEW f \in Files, BeginSend(f) PROVE SessionInv'
  BY <1>2, BeginSession
<1>3. CASE SendChunk
  BY <1>3, SenderKeeps, ChunkSession
<1>4. CASE SendEnd
  BY <1>4, EndSession
<1>5. CASE SendFails \/ MoveToSent
  BY <1>5, QuietStep DEF SendFails, MoveToSent, netVars
<1>6. ASSUME UNCHANGED sendVars, net' \subseteq net, \A id \in DOMAIN log : clean' /\ Live(id) => Fares(id)'
      PROVE  SessionInv'
  <2>1. OrderInv' /\ BookInv'
    BY <1>6 DEF SessionInv, OrderInv, BookInv, sendVars
  <2>2. CleanInv'
    BY <1>6 DEF CleanInv, Live, Sending, sendVars
  <2> QED BY <2>1, <2>2 DEF SessionInv
<1>7. ASSUME NEW d \in net, Deliver(d) PROVE SessionInv'
  <2>1. \A id \in DOMAIN log : clean' /\ Live(id) => Fares(id)'
    BY <1>7, DeliverFares
  <2>2. UNCHANGED sendVars /\ net' \subseteq net
    BY <1>7 DEF Deliver
  <2> QED BY <1>6, <2>1, <2>2
<1>8. ASSUME NEW d \in net, Lose(d) PROVE SessionInv'
  BY <1>6, <1>8 DEF Lose
<1>9. CASE NewSession
  <2>1. sender' = Idle /\ net' = {} /\ ended' = {} /\ log' = log
    BY <1>9 DEF NewSession
  <2>2. OrderInv' /\ BookInv'
    BY <2>1 DEF SessionInv, OrderInv, BookInv
  <2>3. CleanInv'
    BY <2>1 DEF CleanInv, Live, Sending
  <2> QED BY <2>2, <2>3 DEF SessionInv
<1>10. CASE UNCHANGED vars
  BY <1>10, QuietStep DEF vars, recvVars
<1> QED BY <1>1, <1>2, <1>3, <1>4, <1>5, <1>7, <1>8, <1>9, <1>10 DEF Next

\* At the end of a session without trouble every file that was sent has arrived.
LEMMA SessionDelivers == Inv /\ SessionInv => SentArrives
<1> SUFFICES ASSUME Inv, SessionInv, AllHandled, NEW id \in ended, AsAnnounced(id), ChunksFit(id)
             PROVE  HasArrived(id)
  BY DEF SentArrives
<1>1. id \in DOMAIN log /\ Fares(id)
  BY DEF SessionInv, BookInv, CleanInv, AllHandled, Live
<1>2. ~Spoiled(id)
  <2>1. ASSUME NEW i \in 1 .. Len(log[id].cuts), log[id].cuts[i] > log[id].total PROVE FALSE
    <3>1. log \in Seq(Entries)
      BY DEF Inv, IInv, TypeOK, Entries
    <3>2. log[id] \in Entries
      BY <1>1, <3>1
    <3>3. log[id].cuts[i] \in Nat /\ log[id].total \in Nat
      BY <3>2 DEF Entries
    <3>4. log[id].cuts[i] <= log[id].total
      BY <1>1 DEF SessionInv, BookInv, AsAnnounced
    <3> QED BY <2>1, <3>3, <3>4
  <2> QED BY <2>1 DEF Spoiled
<1>3. Of(id) = {}
  BY DEF Of, AllHandled
<1>4. \A k : ~InFlight(id, k)
  BY <1>3 DEF InFlight
<1> QED BY <1>1, <1>2, <1>4 DEF Fares, Waits, Runs

\* In a session in which every datagram arrived once and in order and no I/O call of
\* the receiver failed, every file sent to its end has arrived, unless it grew
\* meanwhile or recv cut off one of its chunks (send_file, TransferReceiver::handle).
THEOREM CleanSessionsDeliver == Spec => []SentArrives
<1>1. Init => SessionInv
  <2> SUFFICES ASSUME Init PROVE SessionInv
    OBVIOUS
  <2>1. DOMAIN log = {} /\ ended = {} /\ net = {} /\ sender = Idle
    BY DEF Init
  <2> QED BY <2>1 DEF SessionInv, OrderInv, BookInv, CleanInv
<1>2. Inv /\ SessionInv /\ [Next]_vars => Inv' /\ SessionInv'
  BY StepInv, StepSession
<1> QED BY InitInv, <1>1, <1>2, SessionDelivers, PTL DEF Spec
=============================================================================
