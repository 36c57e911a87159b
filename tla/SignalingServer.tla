--------------------------- MODULE SignalingServer ---------------------------
(***************************************************************************)
(* The signaling server (crates/signaling-server): one task per WebSocket, *)
(* a host registry backed by the persistent host_id/pubkey store, the      *)
(* session table, the bounded channel that feeds each socket, and one      *)
(* timeout task per session.                                               *)
(*                                                                         *)
(* The tables are DashMaps: one operation on them is atomic, two are not.  *)
(* The loops look a session up and await the channel of the other side     *)
(* while they still hold the table's read guard, so a task that waits for  *)
(* room in a channel keeps every writer of that shard of the table out     *)
(* (`waiting` and `Unlocked` below).                                       *)
(*                                                                         *)
(* A session id is represented by the viewer connection it was created     *)
(* for.  ProbeHosts changes no state and is left out.                      *)
(***************************************************************************)
EXTENDS Naturals, Sequences, FiniteSets

CONSTANTS
  HostConns,      \* WebSocket connections opened by hosts
  Viewers,        \* WebSocket connections opened by viewers
  HostIds, Keys,
  KeyOf,          \* [HostConns -> Keys]: the pubkey_b64 a host registers
  IdOf,           \* [HostConns -> HostIds \union {NoId}]: the host_id it asks for
  Wants,          \* [Viewers -> HostIds]: the host_id a viewer connects to
  ShardOf,        \* [Viewers -> Nat]: the session table's shard of a session id
  SEND_CHAN_CAP,
  None, NoId

Conns == HostConns \union Viewers

ASSUME SignalingAssumption ==
  /\ HostConns \cap Viewers = {} /\ None \notin Conns \union Keys
  /\ NoId \notin HostIds
  /\ KeyOf \in [HostConns -> Keys]
  /\ IdOf \in [HostConns -> HostIds \union {NoId}]
  /\ Wants \in [Viewers -> HostIds]
  /\ SEND_CHAN_CAP \in Nat \ {0}

VARIABLES
  store,      \* HostStore: host_id -> pubkey, or None
  hosts,      \* ServerState.hosts: host_id -> the connection registered, or None
  sessions,   \* ServerState.sessions: the live session ids
  host_of,    \* the host_tx a viewer's session was created with, or None
  allocated,  \* the host_id a host connection was registered under, or NoId
  task,       \* where the task of each connection is
  chan,       \* the mpsc channel that feeds each connection's socket
  waiting,    \* what a loop is suspended in: a send, holding a session's read
              \* guard, or a remove, waiting for the guards of others
  timer,      \* the timeout task of each session
  c2s, s2c,   \* the WebSocket streams
  open        \* the connections whose client end is open

serverVars == <<store, hosts, sessions, host_of, allocated, task, chan, waiting,
                timer, c2s, s2c, open>>

ServerInit ==
  /\ store = [i \in HostIds |-> None]
  /\ hosts = [i \in HostIds |-> None]
  /\ sessions = {}
  /\ host_of = [v \in Viewers |-> None]
  /\ allocated = [h \in HostConns |-> NoId]
  /\ task = [c \in Conns |-> "first"]
  /\ chan = [c \in Conns |-> << >>]
  /\ waiting = [c \in Conns |-> None]
  /\ timer = [v \in Viewers |-> "off"]
  /\ c2s = [c \in Conns |-> << >>]
  /\ s2c = [c \in Conns |-> << >>]
  /\ open = Conns

-----------------------------------------------------------------------------
(***************************************************************************)
(* Sockets, channels and the session table's locks.                        *)
(***************************************************************************)
Incoming(c, t) == c2s[c] # << >> /\ Head(c2s[c]).t = t
Consume(c)     == c2s' = [c2s EXCEPT ![c] = Tail(@)]
\* What is written to a socket its client has closed is read by nobody.
SendSocket(c, m) == s2c' = [s2c EXCEPT ![c] = IF c \in open THEN Append(@, m) ELSE @]
Finish(c)      == task' = [task EXCEPT ![c] = "closed"]

Room(c) == Len(chan[c]) < SEND_CHAN_CAP
SendChan(c, m) ==
  \/ task[c] = "closed" /\ UNCHANGED chan
  \/ task[c] # "closed" /\ Room(c) /\ chan' = [chan EXCEPT ![c] = Append(@, m)]

\* A read guard is on the shard of its session; writers of the shard wait.
HoldsGuard(c, v) ==
  waiting[c] # None /\ waiting[c].op = "send" /\ ShardOf[waiting[c].sid] = ShardOf[v]
Unlocked(v) == \A c \in Conns : ~HoldsGuard(c, v)

\* state.hosts.remove(&host_id), whoever is registered under it.
\* Mutant of Unregister: the entry stays.
Unregister_Forgotten(h) == UNCHANGED hosts
Unregister(h) == hosts' = [hosts EXCEPT ![allocated[h]] = None]

-----------------------------------------------------------------------------
(***************************************************************************)
(* First message: register.  HostStore::allocate_or_verify runs under the  *)
(* store's mutex; the registry test and the registry insert are two        *)
(* operations.                                                             *)
(***************************************************************************)

\* Mutant of Verified: an existing row is not compared with the key.
Verified_AnyKey(h, i) == IF IdOf[h] = NoId THEN store[i] = None ELSE i = IdOf[h]

\* The host_id allocate_or_verify returns for connection h: a fresh one when
\* none was asked for, the one asked for when its row is absent or has the key.
Verified(h, i) ==
  IF IdOf[h] = NoId THEN store[i] = None
                    ELSE i = IdOf[h] /\ store[i] \in {None, KeyOf[h]}

\* PubkeyMismatch, or AllocationExhausted: every id drawn was taken.
RegisterRefused(h) ==
  /\ task[h] = "first" /\ Incoming(h, "register")
  /\ IF IdOf[h] = NoId THEN \E i \in HostIds : store[i] # None
                       ELSE ~Verified(h, IdOf[h])
  /\ Consume(h) /\ SendSocket(h, [t |-> "error"]) /\ Finish(h)
  /\ UNCHANGED <<store, hosts, sessions, host_of, allocated, chan, waiting, timer, open>>

RegisterVerified(h) ==
  /\ task[h] = "first" /\ Incoming(h, "register")
  /\ Consume(h)
  /\ \E i \in HostIds :
       /\ Verified(h, i)
       /\ store' = [store EXCEPT ![i] = IF @ = None THEN KeyOf[h] ELSE @]
       /\ IF hosts[i] # None
          THEN /\ SendSocket(h, [t |-> "error"]) /\ Finish(h)   \* HostAlreadyRegistered
               /\ UNCHANGED allocated
          ELSE /\ task' = [task EXCEPT ![h] = "checked"]
               /\ allocated' = [allocated EXCEPT ![h] = i]
               /\ UNCHANGED s2c
  /\ UNCHANGED <<hosts, sessions, host_of, chan, waiting, timer, open>>

RegisterInserted(h) ==
  /\ task[h] = "checked"
  /\ hosts' = [hosts EXCEPT ![allocated[h]] = h]
  /\ task' = [task EXCEPT ![h] = "inserted"]
  /\ UNCHANGED <<store, sessions, host_of, allocated, chan, waiting, timer, c2s, s2c, open>>

\* The Registered reply; writing it may fail once the client has closed.
RegisterReplied(h) ==
  /\ task[h] = "inserted"
  /\ \/ /\ SendSocket(h, [t |-> "registered", id |-> allocated[h]])
        /\ task' = [task EXCEPT ![h] = "host_loop"]
        /\ UNCHANGED <<hosts, chan>>
     \/ /\ h \notin open
        /\ Unregister(h)
        /\ chan' = [chan EXCEPT ![h] = << >>]
        /\ Finish(h)
        /\ UNCHANGED s2c
  /\ UNCHANGED <<store, sessions, host_of, allocated, waiting, timer, c2s, open>>

(***************************************************************************)
(* First message: connect.                                                 *)
(***************************************************************************)
ConnectNotFound(v) ==
  /\ task[v] = "first" /\ Incoming(v, "connect")
  /\ hosts[Wants[v]] = None
  /\ Consume(v) /\ SendSocket(v, [t |-> "error"]) /\ Finish(v)
  /\ UNCHANGED <<store, hosts, sessions, host_of, allocated, chan, waiting, timer, open>>

ConnectSession(v) ==
  /\ task[v] = "first" /\ Incoming(v, "connect")
  /\ hosts[Wants[v]] # None
  /\ Unlocked(v)
  /\ Consume(v)
  /\ sessions' = sessions \union {v}
  /\ host_of' = [host_of EXCEPT ![v] = hosts[Wants[v]]]
  /\ task' = [task EXCEPT ![v] = "notify_host"]
  /\ UNCHANGED <<store, hosts, allocated, chan, waiting, timer, s2c, open>>

\* Mutant of NotifyHost: a busy channel drops the SessionStart (try_send).
NotifyHost_TrySend(v) ==
  LET h == host_of[v] IN
  chan' = [chan EXCEPT ![h] = IF task[h] # "closed" /\ @ = << >>
                              THEN Append(@, [t |-> "session_start", sid |-> v]) ELSE @]

\* SessionStart to the host, without the viewer's key (peer_pubkey_b64: None).
NotifyHost(v) == SendChan(host_of[v], [t |-> "session_start", sid |-> v])

ConnectHostTold(v) ==
  /\ task[v] = "notify_host"
  /\ NotifyHost(v)
  /\ task' = [task EXCEPT ![v] = "notify_viewer"]
  /\ UNCHANGED <<store, hosts, sessions, host_of, allocated, waiting, timer, c2s, s2c, open>>

\* SessionStart to the viewer, with the key the host registered; from here on
\* the timeout task runs.
ConnectViewerTold(v) ==
  /\ task[v] = "notify_viewer"
  /\ SendChan(v, [t |-> "session_start", sid |-> v, key |-> KeyOf[host_of[v]]])
  /\ timer' = [timer EXCEPT ![v] = "armed"]
  /\ task' = [task EXCEPT ![v] = "viewer_loop"]
  /\ UNCHANGED <<store, hosts, sessions, host_of, allocated, waiting, c2s, s2c, open>>

-----------------------------------------------------------------------------
(***************************************************************************)
(* host_loop and viewer_loop.                                              *)
(***************************************************************************)
Looping(c) == task[c] \in {"host_loop", "viewer_loop"} /\ waiting[c] = None

\* The connection at the other end of session sid, seen from c.
OtherEnd(c, sid) == IF c \in Viewers THEN host_of[sid] ELSE sid
PeerCandidate(c, sid) == [t |-> "peer_candidate", sid |-> sid, from |-> c]

\* A candidate of a session that is gone is dropped, any other is forwarded.
Forward(c) ==
  /\ Looping(c) /\ Incoming(c, "candidate")
  /\ Consume(c)
  /\ LET sid == Head(c2s[c]).sid IN
       IF sid \in sessions
       THEN SendChan(OtherEnd(c, sid), PeerCandidate(c, sid))
       ELSE UNCHANGED chan
  /\ UNCHANGED <<store, hosts, sessions, host_of, allocated, task, waiting, timer, s2c, open>>

\* The channel is full: the task awaits room with the session's guard held.
ForwardWaits(c) ==
  /\ Looping(c) /\ Incoming(c, "candidate")
  /\ LET sid == Head(c2s[c]).sid IN
       /\ sid \in sessions
       /\ task[OtherEnd(c, sid)] # "closed" /\ ~Room(OtherEnd(c, sid))
       /\ waiting' = [waiting EXCEPT ![c] = [op |-> "send", sid |-> sid]]
  /\ Consume(c)
  /\ UNCHANGED <<store, hosts, sessions, host_of, allocated, task, chan, timer, s2c, open>>

ForwardResumes(c) ==
  /\ waiting[c] # None /\ waiting[c].op = "send"
  /\ SendChan(OtherEnd(c, waiting[c].sid), PeerCandidate(c, waiting[c].sid))
  /\ waiting' = [waiting EXCEPT ![c] = None]
  /\ UNCHANGED <<store, hosts, sessions, host_of, allocated, task, timer, c2s, s2c, open>>

\* Done: a host ends the session it names, a viewer its own.  The remove blocks
\* the whole loop while another task holds a guard of the shard.
DoneReceived(c) ==
  /\ Looping(c) /\ Incoming(c, "done")
  /\ Consume(c)
  /\ LET sid == IF c \in Viewers THEN c ELSE Head(c2s[c]).sid IN
       \/ Unlocked(sid) /\ sessions' = sessions \ {sid} /\ UNCHANGED waiting
       \/ /\ ~Unlocked(sid)
          /\ waiting' = [waiting EXCEPT ![c] = [op |-> "remove", sid |-> sid]]
          /\ UNCHANGED sessions
  /\ UNCHANGED <<store, hosts, host_of, allocated, task, chan, timer, s2c, open>>

RemoveResumes(c) ==
  /\ waiting[c] # None /\ waiting[c].op = "remove"
  /\ Unlocked(waiting[c].sid)
  /\ sessions' = sessions \ {waiting[c].sid}
  /\ waiting' = [waiting EXCEPT ![c] = None]
  /\ UNCHANGED <<store, hosts, host_of, allocated, task, chan, timer, c2s, s2c, open>>

Outbound(c) ==
  /\ Looping(c) /\ chan[c] # << >>
  /\ SendSocket(c, Head(chan[c]))
  /\ chan' = [chan EXCEPT ![c] = Tail(@)]
  /\ UNCHANGED <<store, hosts, sessions, host_of, allocated, task, waiting, timer, c2s, open>>

\* The socket is closed: noticed when everything received is read, or earlier
\* when writing an outbound message fails.
\* Mutant of SocketClosed: the end of the stream goes unnoticed, only a write fails.
SocketClosed_WriteOnly(c) == c \notin open /\ chan[c] # << >>
SocketClosed(c) == c \notin open /\ (c2s[c] = << >> \/ chan[c] # << >>)

\* A task that has not classified its connection yet just returns.
FirstClosed(c) ==
  /\ task[c] = "first" /\ c \notin open /\ c2s[c] = << >>
  /\ Finish(c)
  /\ UNCHANGED <<store, hosts, sessions, host_of, allocated, chan, waiting, timer, c2s, s2c, open>>

HostExit(h) ==
  /\ task[h] = "host_loop" /\ Looping(h) /\ SocketClosed(h)
  /\ Unregister(h)
  /\ chan' = [chan EXCEPT ![h] = << >>]
  /\ Finish(h)
  /\ UNCHANGED <<store, sessions, host_of, allocated, waiting, timer, c2s, s2c, open>>

ViewerBreaks(v) ==
  /\ task[v] = "viewer_loop" /\ Looping(v) /\ SocketClosed(v)
  /\ task' = [task EXCEPT ![v] = "leaving"]
  /\ UNCHANGED <<store, hosts, sessions, host_of, allocated, chan, waiting, timer, c2s, s2c, open>>

RemoveOwnSession(v) == Unlocked(v) /\ sessions' = sessions \ {v}

ViewerExit(v) ==
  /\ task[v] = "leaving"
  /\ RemoveOwnSession(v)
  /\ chan' = [chan EXCEPT ![v] = << >>]
  /\ Finish(v)
  /\ UNCHANGED <<store, hosts, host_of, allocated, waiting, timer, c2s, s2c, open>>

-----------------------------------------------------------------------------
(***************************************************************************)
(* The timeout task: removes the session if it is still there, then tells  *)
(* the host, then the viewer.  The sockets stay open.                      *)
(***************************************************************************)
TimerRemoves(v) == sessions' = sessions \ {v}

TimerFires(v) ==
  /\ timer[v] = "armed"
  /\ Unlocked(v)
  /\ TimerRemoves(v)
  /\ timer' = [timer EXCEPT ![v] = IF v \in sessions THEN "tell_host" ELSE "done"]
  /\ UNCHANGED <<store, hosts, host_of, allocated, task, chan, waiting, c2s, s2c, open>>

TimerTells(v) ==
  /\ \/ /\ timer[v] = "tell_host"
        /\ SendChan(host_of[v], [t |-> "error"])
        /\ timer' = [timer EXCEPT ![v] = "tell_viewer"]
     \/ /\ timer[v] = "tell_viewer"
        /\ SendChan(v, [t |-> "error"])
        /\ timer' = [timer EXCEPT ![v] = "done"]
  /\ UNCHANGED <<store, hosts, sessions, host_of, allocated, task, waiting, c2s, s2c, open>>

-----------------------------------------------------------------------------
HostTask(h) ==
  \/ RegisterRefused(h) \/ RegisterVerified(h) \/ RegisterInserted(h)
  \/ RegisterReplied(h) \/ HostExit(h)
ViewerTask(v) ==
  \/ ConnectNotFound(v) \/ ConnectSession(v)
  \/ ConnectHostTold(v) \/ ConnectViewerTold(v)
  \/ ViewerBreaks(v) \/ ViewerExit(v)
LoopTask(c) ==
  \/ FirstClosed(c)
  \/ Forward(c) \/ ForwardWaits(c) \/ ForwardResumes(c)
  \/ DoneReceived(c) \/ RemoveResumes(c) \/ Outbound(c)
TimeoutTask(v) == TimerFires(v) \/ TimerTells(v)

ServerNext ==
  \/ \E h \in HostConns : HostTask(h)
  \/ \E v \in Viewers : ViewerTask(v) \/ TimeoutTask(v)
  \/ \E c \in Conns : LoopTask(c)
=============================================================================
