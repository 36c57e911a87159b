---------------------------- MODULE FileTransfer ----------------------------
(***************************************************************************)
(* Files from the host's outgoing directory to the viewer: the watcher of  *)
(* run_host (host/src/lib.rs), send_file and TransferReceiver of           *)
(* crates/filetransfer, and the datagrams between them, each with the      *)
(* explicit nonce of CustomUdpTransport::send_raw and read into the buffer *)
(* of CustomUdpTransport::recv.  Files dropped on the viewer take the same *)
(* way back, without the watcher.                                          *)
(*                                                                         *)
(* A file only grows: a user copies it into the directory while the        *)
(* watcher polls.  The first n bytes of a file are therefore the same      *)
(* whenever they are read, and a received file is described by the file it *)
(* was named for, its length, and whether it holds just the first bytes.   *)
(***************************************************************************)
EXTENDS Integers, Sequences, FiniteSets, Functions

CONSTANTS
  Files, Names, NameOf,  \* files of the outgoing directory and their names
  FullLen,               \* length of each file once it is copied
  Suffixes,              \* 0 .. n: the "-N" that unique_path tries; 0 is the bare name
  max_bytes,             \* DEFAULT_MAX_TRANSFER_BYTES
  CHUNK_BYTES,           \* bytes read at most for a chunk
  RecvBuf,               \* bytes of a chunk that fit into the buffer of recv
  Window,                \* bound: a datagram overtakes fewer than Window older ones
  MaxIds,                \* bound: transfers begun
  MaxLost, MaxDups,      \* bounds: datagrams lost, and delivered again
  Idle

ASSUME FileAssumption ==
  /\ NameOf \in [Files -> Names] /\ FullLen \in [Files -> Nat]
  /\ max_bytes \in Nat /\ CHUNK_BYTES \in Nat \ {0} /\ RecvBuf \in Nat
  /\ Suffixes \subseteq Nat /\ 0 \in Suffixes /\ MaxLost \in Nat /\ MaxDups \in Nat
  /\ Idle \notin [id : Nat, stage : {"reading", "moving"}, seq : Nat, at : Nat]

VARIABLES
  place,      \* of each file: absent, outgoing or sent
  len,        \* of each file: bytes written by the user
  sender,     \* Idle, or the send_file that the watcher runs
  log,        \* history: transfers begun, with the offsets their chunks were cut at
  nonce,      \* send_nonce
  net,        \* datagrams in flight
  transfers,  \* TransferReceiver::transfers
  recvDir,    \* files of the receiver's directory
  completed,  \* history: paths of ReceiveOutcome::Completed with success
  overwritten, \* history: paths created again because unique_path had none left
  ended,      \* history: transfers of this session whose FileTransferEnd was sent
  clean,      \* history: nothing was lost, repeated, overtaken or failed in this session,
              \* and no path was created again
  lost, dups  \* bounded counts

vars == <<place, len, sender, log, nonce, net, transfers, recvDir, completed,
          overwritten, ended, clean, lost, dups>>

sendVars == <<place, len, sender, log, nonce, ended>>
recvVars == <<transfers, recvDir, completed, overwritten>>
netVars  == <<net, clean, lost, dups>>

Paths == Names \X Suffixes

Init ==
  /\ place = [f \in Files |-> "absent"] /\ len = [f \in Files |-> 0]
  /\ sender = Idle /\ log = <<>> /\ nonce = 0 /\ net = {}
  /\ transfers = [id \in {} |-> id] /\ recvDir = [p \in {} |-> p]
  /\ completed = {} /\ overwritten = {} /\ ended = {} /\ clean = TRUE /\ lost = 0 /\ dups = 0

-----------------------------------------------------------------------------
(* The user and the watcher of the outgoing directory. *)

Appears(f) ==
  /\ place[f] = "absent"
  /\ ~ \E g \in Files : place[g] = "outgoing" /\ NameOf[g] = NameOf[f]
  /\ place' = [place EXCEPT ![f] = "outgoing"]
  /\ UNCHANGED <<len, sender, log, nonce, ended, recvVars, netVars>>

\* The copy goes on even if the watcher has moved the file meanwhile.
Grows(f) ==
  /\ place[f] # "absent" /\ len[f] < FullLen[f]
  /\ len' = [len EXCEPT ![f] = @ + 1]
  /\ UNCHANGED <<place, sender, log, nonce, ended, recvVars, netVars>>

Send(m) ==
  /\ net' = net \cup {[nonce |-> nonce, msg |-> m]}
  /\ nonce' = nonce + 1
  /\ UNCHANGED <<clean, lost, dups>>

\* A poll finds f; a file over the limit fails here and stays for the next poll.
BeginSend(f) ==
  /\ sender = Idle /\ place[f] = "outgoing" /\ len[f] <= max_bytes
  /\ Len(log) < MaxIds
  /\ LET id == Len(log) + 1 IN
       /\ log' = Append(log, [file |-> f, total |-> len[f], cuts |-> <<0>>])
       /\ sender' = [id |-> id, stage |-> "reading", seq |-> 0, at |-> 0]
       /\ Send([type |-> "begin", id |-> id, file |-> f, total |-> len[f]])
  /\ UNCHANGED <<place, len, ended, recvVars>>

Sending == IF sender = Idle THEN "nothing" ELSE sender.stage

\* A read returns up to CHUNK_BYTES bytes, and may return fewer.
SendChunk ==
  /\ Sending = "reading"
  /\ LET f == log[sender.id].file IN
     \E n \in 1 .. CHUNK_BYTES :
       /\ sender.at + n <= len[f]
       /\ Send([type |-> "chunk", id |-> sender.id, seq |-> sender.seq,
                file |-> f, from |-> sender.at, to |-> sender.at + n])
       /\ log' = [log EXCEPT ![sender.id].cuts = Append(@, sender.at + n)]
       /\ sender' = [sender EXCEPT !.seq = @ + 1, !.at = @ + n]
  /\ UNCHANGED <<place, len, ended, recvVars>>

SendEnd ==
  /\ Sending = "reading" /\ sender.at = len[log[sender.id].file]
  /\ Send([type |-> "end", id |-> sender.id])
  /\ ended' = ended \cup {sender.id}
  /\ sender' = [sender EXCEPT !.stage = "moving"]
  /\ UNCHANGED <<place, len, log, recvVars>>

\* The file cannot be opened or read, or send_control fails: no FileTransferEnd.
SendFails ==
  /\ Sending = "reading"
  /\ sender' = Idle
  /\ UNCHANGED <<place, len, log, nonce, ended, recvVars, netVars>>

\* rename; when it fails the file is sent again at the next poll.
MoveToSent ==
  /\ Sending = "moving"
  /\ sender' = Idle
  /\ place' \in {place, [place EXCEPT ![log[sender.id].file] = "sent"]}
  /\ UNCHANGED <<len, log, nonce, ended, recvVars, netVars>>

-----------------------------------------------------------------------------
(* TransferReceiver::handle *)

\* The first candidate that does not exist, or the bare name when there is none.
unique_path(n) ==
  LET free == {i \in Suffixes : <<n, i>> \notin DOMAIN recvDir}
  IN  IF free = {} THEN <<n, 0>> ELSE <<n, CHOOSE i \in free : \A j \in free : i <= j>>

Dropped == UNCHANGED recvVars

\* HashMap::insert, File::create
Insert(f, k, v) == [x \in DOMAIN f \cup {k} |-> IF x = k THEN v ELSE f[x]]

Forget(id) == transfers' = Restrict(transfers, DOMAIN transfers \ {id})

\* Of a begin: too large, or the directory or the file cannot be created (not ok).
HandleBegin(m, ok) ==
  IF m.total > max_bytes \/ ~ok THEN Dropped
  ELSE LET dest == unique_path(NameOf[m.file]) IN
       /\ transfers' = Insert(transfers, m.id, [dest |-> dest, total_bytes |-> m.total,
                                                written_bytes |-> 0, next_chunk_seq |-> 0])
       /\ recvDir' = Insert(recvDir, dest, [file |-> m.file, len |-> 0, intact |-> TRUE])
       /\ overwritten' = overwritten \cup ({dest} \cap DOMAIN recvDir)
       /\ UNCHANGED completed

Most(x, y) == IF x < y THEN y ELSE x

\* Mutant of InOrder: handle does not compare chunk_seq.
InOrder_Any(t, m) == TRUE

InOrder(t, m) == m.seq = t.next_chunk_seq

\* Mutant of Fits: handle does not check the announced length.
Fits_Any(t, m) == TRUE

Fits(t, m) == t.written_bytes + (m.to - m.from) <= t.total_bytes

\* The file in directory entry c once the bytes of m are written at the handle's own
\* position, which is not its end if another transfer has created it again.
Written(c, at, m) ==
  [file |-> c.file, len |-> Most(c.len, at + (m.to - m.from)),
   intact |-> c.intact /\ m.file = c.file /\ m.from = at /\ at <= c.len]

\* Out of order, over the announced length or not writable: the transfer is dropped.
HandleChunk(m, ok) ==
  LET t == transfers[m.id] IN
  IF m.id \notin DOMAIN transfers THEN Dropped
  ELSE IF InOrder(t, m) /\ Fits(t, m) /\ ok
       THEN /\ transfers' = [transfers EXCEPT ![m.id].written_bytes = @ + (m.to - m.from),
                                              ![m.id].next_chunk_seq = @ + 1]
            /\ recvDir' = [recvDir EXCEPT ![t.dest] = Written(@, t.written_bytes, m)]
            /\ UNCHANGED <<completed, overwritten>>
       ELSE Forget(m.id) /\ UNCHANGED <<recvDir, completed, overwritten>>

\* Mutant of Whole: an empty file does not count as whole.
Whole_NotEmpty(t) == t.written_bytes = t.total_bytes /\ t.written_bytes > 0

Whole(t) == t.written_bytes = t.total_bytes

HandleEnd(m) ==
  LET t == transfers[m.id] IN
  IF m.id \notin DOMAIN transfers THEN Dropped
  ELSE /\ Forget(m.id)
       /\ completed' = IF Whole(t) THEN completed \cup {t.dest} ELSE completed
       /\ UNCHANGED <<recvDir, overwritten>>

\* recv drops a datagram that its buffer has cut off.
Truncated(m) == m.type = "chunk" /\ m.to - m.from > RecvBuf

Receive(m, ok) ==
  CASE Truncated(m)                         -> Dropped
    [] m.type = "begin"                     -> HandleBegin(m, ok)
    [] m.type = "chunk" /\ ~Truncated(m)    -> HandleChunk(m, ok)
    [] m.type = "end"                       -> HandleEnd(m)

-----------------------------------------------------------------------------
(* The network, and the end of a session. *)

Older(d) == {e \in net : e.nonce < d.nonce}

\* unique_path has a path left for the file that begins.
RoomFor(m) == m.type = "begin" => \E i \in Suffixes : <<NameOf[m.file], i>> \notin DOMAIN recvDir

Deliver(d) ==
  /\ Cardinality(Older(d)) < Window
  /\ \E ok \in BOOLEAN, again \in BOOLEAN :
       /\ Receive(d.msg, ok)
       /\ again => dups < MaxDups
       /\ dups' = IF again THEN dups + 1 ELSE dups
       /\ net' = IF again THEN net ELSE net \ {d}
       /\ clean' = (clean /\ ok /\ ~again /\ Older(d) = {} /\ RoomFor(d.msg))
  /\ UNCHANGED <<sendVars, lost>>

Lose(d) ==
  /\ lost < MaxLost
  /\ lost' = lost + 1 /\ net' = net \ {d} /\ clean' = FALSE
  /\ UNCHANGED <<sendVars, recvVars, dups>>

\* The tasks of both sides end and a new session starts, with keys of its own.
NewSession ==
  /\ sender' = Idle /\ nonce' = 0 /\ net' = {} /\ transfers' = [id \in {} |-> id]
  /\ ended' = {} /\ clean' = TRUE
  /\ UNCHANGED <<place, len, log, recvDir, completed, overwritten, lost, dups>>

Next ==
  \/ \E f \in Files : Appears(f) \/ Grows(f) \/ BeginSend(f)
  \/ SendChunk \/ SendEnd \/ SendFails \/ MoveToSent
  \/ \E d \in net : Deliver(d) \/ Lose(d)
  \/ NewSession

Spec == Init /\ [][Next]_vars
-----------------------------------------------------------------------------
(* Properties *)

Datagrams ==
  [type : {"begin"}, id : Nat, file : Files, total : Nat]
    \cup [type : {"chunk"}, id : Nat, seq : Nat, file : Files, from : Nat, to : Nat]
    \cup [type : {"end"}, id : Nat]

\* Types, and no more written to a file than was announced (host and viewer keep
\* TransferReceiver's counters beside the file they describe).
TypeOK ==
  /\ place \in [Files -> {"absent", "outgoing", "sent"}] /\ len \in [Files -> Nat]
  /\ sender \in {Idle} \cup [id : Nat, stage : {"reading", "moving"}, seq : Nat, at : Nat]
  /\ log \in Seq([file : Files, total : Nat, cuts : Seq(Nat)])
  /\ nonce \in Nat /\ \A d \in net : d.nonce \in 0 .. nonce - 1 /\ d.msg \in Datagrams
  /\ \A id \in DOMAIN transfers :
       /\ transfers[id] \in [dest : Paths, total_bytes : Nat, written_bytes : Nat, next_chunk_seq : Nat]
       /\ transfers[id].written_bytes <= transfers[id].total_bytes
  /\ DOMAIN recvDir \subseteq Paths
  /\ \A p \in DOMAIN recvDir : recvDir[p] \in [file : Files, len : Nat, intact : BOOLEAN]
  /\ completed \subseteq DOMAIN recvDir /\ overwritten \subseteq DOMAIN recvDir /\ ended \subseteq Nat
  /\ clean \in BOOLEAN /\ lost \in 0 .. MaxLost /\ dups \in 0 .. MaxDups

Snapshot(id) == [file |-> log[id].file, len |-> log[id].total]

\* A length of -1: the bytes at p are not the first ones of the file it is named for.
Content(p) ==
  [file |-> recvDir[p].file, len |-> IF recvDir[p].intact THEN recvDir[p].len ELSE -1]

FD == INSTANCE FileDelivery WITH
        offered   <- {Snapshot(id) : id \in DOMAIN log},
        taken     <- DOMAIN recvDir,
        delivered <- [p \in completed \ overwritten |-> Content(p)]

\* Whatever is lost, repeated, overtaken or cut off, whichever I/O call fails and
\* whenever a session ends, a file that handle reports as complete is one the
\* watcher offered, as long as it was then, even while the user was still copying
\* it; it is at a path of its own, and later transfers leave it alone.  Only when the
\* bare name and all its suffixes are taken is the bare one created again.
DeliversSnapshots == FD!Spec

\* The chunks of transfer id, added up, are what its FileTransferBegin announced.
AsAnnounced(id) == log[id].cuts[Len(log[id].cuts)] = log[id].total

ChunksFit(id) == \A i \in 1 .. Len(log[id].cuts) - 1 : log[id].cuts[i + 1] - log[id].cuts[i] <= RecvBuf

HasArrived(id) == \E p \in completed \ overwritten : Content(p) = Snapshot(id)

AllHandled == clean /\ net = {}

\* In a session in which every datagram arrived once and in order and no I/O call
\* of the receiver failed, a file that send_file has sent to its end has arrived,
\* whatever transfers of the same name or of earlier sessions came before: unless
\* it grew while it was sent, recv cut off one of its chunks, or the session has come
\* to a file with no path left.
SentArrives ==
  AllHandled => \A id \in ended : AsAnnounced(id) /\ ChunksFit(id) => HasArrived(id)
=============================================================================
