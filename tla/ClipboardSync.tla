---------------------------- MODULE ClipboardSync ----------------------------
(***************************************************************************)
(* Clipboard text between host and viewer: on each side a watcher that     *)
(* polls the clipboard's sequence number and sends what is new, and the    *)
(* receive loop that writes what arrives (crates/host/src/lib.rs,          *)
(* crates/viewer/src/lib.rs), over the clipboard of Windows                *)
(* (crates/input-win/src/clipboard.rs) or X11                              *)
(* (crates/input-linux/src/x11_clipboard.rs).                              *)
(*                                                                         *)
(* Watcher and receive loop are tasks of their own.  The watcher's steps   *)
(* are split where it reads the sequence number, reads the clipboard and   *)
(* awaits the lock of last_remote_clipboard; the receive loop's between    *)
(* recording a text and writing it.                                        *)
(***************************************************************************)
EXTENDS Naturals

CONSTANTS
  Texts,        \* what users copy
  Huge,         \* of these, the ones of more than MAX_CLIPBOARD_BYTES
  None,         \* no text
  MaxCopies,    \* bound: copies by the users
  MaxFailures   \* bound: clipboard or socket calls that fail

ASSUME TextsAssumption ==
  /\ Huge \subseteq Texts /\ None \notin Texts
  /\ MaxCopies \in Nat /\ MaxFailures \in Nat

Sides == {"host", "viewer"}
Peer(s) == CHOOSE p \in Sides : p # s

VARIABLES
  os,           \* "windows" or "x11", per side
  allowed,      \* the clipboard permission of the session
  clip,         \* what a paste on the side would give
  seq,          \* clipboard_sequence_number
  owner,        \* X11: "none" before the first write, then "us" until a user copies
  watcher,      \* where the watcher stands
  last_seq, last_sent, current,     \* its locals
  last_remote,  \* last_remote_clipboard
  writing,      \* what the receive loop is about to write
  net,          \* ClipboardText datagrams on their way to a side
  copies, received, sends,          \* how often, per side
  seen, sent,   \* the texts a side has received, has sent
  failures      \* how much of MaxFailures is used

clipboard == <<clip, seq, owner>>
watch == <<watcher, last_seq, last_sent, current>>
counts == <<copies, received, sends, seen, sent>>
vars == <<os, allowed, clipboard, watch, last_remote, writing, net, counts, failures>>

PerSide(v) == [s \in Sides |-> v]
Init ==
  /\ os \in [Sides -> {"windows", "x11"}] /\ allowed \in BOOLEAN
  /\ clip = PerSide(None) /\ seq = PerSide(0) /\ owner = PerSide("none")
  /\ watcher = PerSide("asleep") /\ last_seq = PerSide(0)
  /\ last_sent = PerSide(None) /\ current = PerSide(None)
  /\ last_remote = PerSide(None) /\ writing = PerSide(None)
  /\ net = PerSide({})
  /\ copies = PerSide(0) /\ received = PerSide(0) /\ sends = PerSide(0)
  /\ seen = PerSide({}) /\ sent = PerSide({})
  /\ failures = 0

Fails == failures < MaxFailures /\ failures' = failures + 1

-----------------------------------------------------------------------------
(* The clipboard.                                                          *)

\* Windows counts every change.  Over X11 only the owner thread counts, when the
\* selection is taken from it, and it never takes it back.
Counted(s) == os[s] = "windows" \/ owner[s] = "us"

Copy(s, t) ==
  /\ copies["host"] + copies["viewer"] < MaxCopies
  /\ copies' = [copies EXCEPT ![s] = @ + 1]
  /\ clip' = [clip EXCEPT ![s] = t]
  /\ seq' = [seq EXCEPT ![s] = IF Counted(s) THEN @ + 1 ELSE @]
  /\ owner' = [owner EXCEPT ![s] = IF @ = "us" THEN "other" ELSE @]
  /\ UNCHANGED <<os, allowed, watch, last_remote, writing, net, received, sends, seen, sent,
                 failures>>

\* write_clipboard_text.
Written(s, t) ==
  IF os[s] = "windows"
  THEN clip' = [clip EXCEPT ![s] = t] /\ seq' = [seq EXCEPT ![s] = @ + 1] /\ owner' = owner
  ELSE /\ seq' = seq
       /\ clip' = [clip EXCEPT ![s] = IF owner[s] = "other" THEN @ ELSE t]
       /\ owner' = [owner EXCEPT ![s] = IF @ = "none" THEN "us" ELSE @]

-----------------------------------------------------------------------------
(* The watcher.                                                            *)

\* The number is remembered before the clipboard is read.
Poll(s) ==
  /\ watcher[s] = "asleep" /\ seq[s] # last_seq[s]
  /\ last_seq' = [last_seq EXCEPT ![s] = seq[s]]
  /\ watcher' = [watcher EXCEPT ![s] = "reading"]
  /\ UNCHANGED <<os, allowed, clipboard, last_sent, current, last_remote, writing, net,
                 counts, failures>>

\* read_clipboard_text, and the size limit.
Read(s) ==
  /\ watcher[s] = "reading"
  /\ \/ /\ current' = [current EXCEPT ![s] = clip[s]] /\ failures' = failures
        /\ watcher' = [watcher EXCEPT ![s] =
                         IF clip[s] \in Huge \cup {None} THEN "asleep" ELSE "comparing"]
     \/ /\ Fails /\ current' = current
        /\ watcher' = [watcher EXCEPT ![s] = "asleep"]
  /\ UNCHANGED <<os, allowed, clipboard, last_seq, last_sent, last_remote, writing, net,
                 counts>>

\* Mutant of FromPeer: the watcher knows only what it has sent itself.
FromPeer_Unknown(s) == FALSE
\* The text on the clipboard is the one that came from the peer last.
FromPeer(s) == current[s] = last_remote[s]

Skip(s) ==
  /\ watcher[s] = "comparing"
  /\ current[s] = last_sent[s] \/ FromPeer(s)
  /\ watcher' = [watcher EXCEPT ![s] = "asleep"]
  /\ UNCHANGED <<os, allowed, clipboard, last_seq, last_sent, current, last_remote, writing,
                 net, counts, failures>>

\* Mutant of Send: the number is fetched again after a send.
Send_Refetched(s) ==
  /\ watcher[s] = "comparing"
  /\ current[s] # last_sent[s] /\ ~FromPeer(s)
  /\ watcher' = [watcher EXCEPT ![s] = "asleep"]
  /\ net' = [net EXCEPT ![Peer(s)] = @ \cup {<<current[s], sends[s]>>}]
  /\ last_sent' = [last_sent EXCEPT ![s] = current[s]]
  /\ last_seq' = [last_seq EXCEPT ![s] = seq[s]]
  /\ sends' = [sends EXCEPT ![s] = @ + 1]
  /\ sent' = [sent EXCEPT ![s] = @ \cup {current[s]}]
  /\ UNCHANGED <<os, allowed, clipboard, current, last_remote, writing, copies, received,
                 seen, failures>>
Send(s) ==
  /\ watcher[s] = "comparing"
  /\ current[s] # last_sent[s] /\ ~FromPeer(s)
  /\ watcher' = [watcher EXCEPT ![s] = "asleep"]
  /\ \/ /\ net' = [net EXCEPT ![Peer(s)] = @ \cup {<<current[s], sends[s]>>}]
        /\ last_sent' = [last_sent EXCEPT ![s] = current[s]]
        /\ sends' = [sends EXCEPT ![s] = @ + 1]
        /\ sent' = [sent EXCEPT ![s] = @ \cup {current[s]}]
        /\ failures' = failures
     \/ Fails /\ UNCHANGED <<net, last_sent, sends, sent>>
  /\ UNCHANGED <<os, allowed, clipboard, last_seq, current, last_remote, writing,
                 copies, received, seen>>

-----------------------------------------------------------------------------
(* The network and the receive loop.                                       *)

\* Lost, or longer than recv's 4096 bytes and dropped.
Lose(s, d) ==
  /\ d \in net[s] /\ net' = [net EXCEPT ![s] = @ \ {d}]
  /\ UNCHANGED <<os, allowed, clipboard, watch, last_remote, writing, counts, failures>>

\* In any order.  The host drops a text it has not permitted.
Recv(s, d) ==
  /\ d \in net[s] /\ writing[s] = None
  /\ net' = [net EXCEPT ![s] = @ \ {d}]
  /\ IF s = "host" /\ ~allowed
     THEN UNCHANGED <<last_remote, writing, received, seen>>
     ELSE /\ last_remote' = [last_remote EXCEPT ![s] = d[1]]
          /\ writing' = [writing EXCEPT ![s] = d[1]]
          /\ received' = [received EXCEPT ![s] = @ + 1]
          /\ seen' = [seen EXCEPT ![s] = @ \cup {d[1]}]
  /\ UNCHANGED <<os, allowed, clipboard, watch, copies, sends, sent, failures>>

Write(s) ==
  /\ writing[s] # None
  /\ writing' = [writing EXCEPT ![s] = None]
  /\ \/ Written(s, writing[s]) /\ failures' = failures
     \/ Fails /\ UNCHANGED clipboard
  /\ UNCHANGED <<os, allowed, watch, last_remote, net, counts>>

-----------------------------------------------------------------------------
Watcher(s) == Poll(s) \/ Read(s) \/ Skip(s) \/ Send(s)
RecvLoop(s) == Write(s) \/ \E d \in net[s] : Lose(s, d) \/ Recv(s, d)
Tasks == \E s \in Sides : Watcher(s) \/ RecvLoop(s)
Next == Tasks \/ \E s \in Sides, t \in Texts : Copy(s, t)
Spec == Init /\ [][Next]_vars

\* The watchers poll, the receive loops run, and a datagram arrives or is lost.
FairSpec == Spec /\ \A s \in Sides : WF_vars(Watcher(s)) /\ WF_vars(RecvLoop(s))

-----------------------------------------------------------------------------
OrNone == Texts \cup {None}
\* The types; a watcher is never ahead of the number.
TypeOK ==
  /\ os \in [Sides -> {"windows", "x11"}] /\ allowed \in BOOLEAN
  /\ clip \in [Sides -> OrNone] /\ owner \in [Sides -> {"none", "us", "other"}]
  /\ watcher \in [Sides -> {"asleep", "reading", "comparing"}]
  /\ seq \in [Sides -> Nat] /\ last_seq \in [Sides -> Nat]
  /\ \A s \in Sides : last_seq[s] =< seq[s]
  /\ last_sent \in [Sides -> OrNone] /\ current \in [Sides -> OrNone]
  /\ last_remote \in [Sides -> OrNone] /\ writing \in [Sides -> OrNone]
  /\ net \in [Sides -> SUBSET (Texts \X Nat)]
  /\ copies \in [Sides -> Nat] /\ received \in [Sides -> Nat] /\ sends \in [Sides -> Nat]
  /\ seen \in [Sides -> SUBSET Texts] /\ sent \in [Sides -> SUBSET Texts]
  /\ failures \in 0..MaxFailures

\* A text from the peer is sent back only if another one came in after it: a side
\* never sends more than its user copied and the received texts but one (the
\* comparison with last_remote_clipboard and its place before the write).
EchoesBounded ==
  \A s \in Sides : sends[s] =< copies[s] \/ sends[s] < copies[s] + received[s]

\* What stops the echoes where they stop: the last text a side has received stays with
\* it, so two copies leave nothing to go round once both sides have received one, and
\* at most one text is sent back (last_remote_clipboard of both sides).
TwoCopiesRest ==
  copies["host"] + copies["viewer"] =< 2 => sends["host"] + sends["viewer"] =< 3

\* While no call has failed, a watcher on Windows that has caught up with the number
\* and is back asleep has sent what is on its clipboard, or has it from the peer: a copy
\* made while the watcher is at work is not overlooked (host/src/lib.rs: last_seq is
\* set before the read).
Readable == Texts \ Huge
NothingOverlooked ==
  failures = 0 =>
    \A s \in Sides :
      os[s] = "windows" /\ watcher[s] = "asleep" /\ seq[s] = last_seq[s] /\ clip[s] \in Readable
        => clip[s] \in sent[s] \cup seen[s]

\* So a text that its side has never received, and that stays on a clipboard of
\* Windows, is sent, unless a call fails.
CopyIsSent ==
  \A s \in Sides, t \in Readable :
    (os[s] = "windows" /\ clip[s] = t /\ t \notin seen[s])
      ~> (t \in sent[s] \/ clip[s] # t \/ t \in seen[s] \/ failures > 0)
=============================================================================
