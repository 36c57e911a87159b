------------------------------ MODULE Rendezvous ------------------------------
(***************************************************************************)
(* The rendezvous of hosts and viewers through the signaling server        *)
(* (crates/signaling-client/src/rendezvous.rs composed with                *)
(* SignalingServer): a host registers and waits for a session, a viewer    *)
(* connects, both send their candidates, collect those of the other side   *)
(* for an aggregation window, say Done and close the WebSocket.            *)
(*                                                                         *)
(* Every WebSocket connection is one run of rendezvous_as_host or          *)
(* rendezvous_as_viewer; a host that comes back is another connection with *)
(* the same key and id.                                                    *)
(***************************************************************************)
EXTENDS SignalingServer

CONSTANT MaxCands   \* candidates a side sends: Host, then Srflx and Relay if learnt

ASSUME MaxCandsAssumption == MaxCands \in 1..3

VARIABLES
  cl,         \* where each client is
  mysid,      \* the session id its SessionStart named, or None
  peer_key,   \* the peer_pubkey_b64 of a viewer's SessionStart, or None
  collected   \* recv_peer_candidates.collected: who sent the candidates

clientVars == <<cl, mysid, peer_key, collected>>
vars == <<serverVars, clientVars>>

Init ==
  /\ ServerInit
  /\ cl = [c \in Conns |-> "idle"]
  /\ mysid = [c \in Conns |-> None]
  /\ peer_key = [v \in Viewers |-> None]
  /\ collected = [c \in Conns |-> {}]

-----------------------------------------------------------------------------
AtServer == <<store, hosts, sessions, host_of, allocated, task, chan, waiting, timer>>

SendMsgs(c, ms) == c2s' = [c2s EXCEPT ![c] = @ \o ms]
Receive(c, t)   == s2c[c] # << >> /\ Head(s2c[c]).t = t
                     /\ s2c' = [s2c EXCEPT ![c] = Tail(@)]
To(c, stage)    == cl' = [cl EXCEPT ![c] = stage]
Close(c)        == open' = open \ {c} /\ s2c' = [s2c EXCEPT ![c] = << >>]

Start(c) ==
  /\ cl[c] = "idle"
  /\ SendMsgs(c, << [t |-> IF c \in HostConns THEN "register" ELSE "connect"] >>)
  /\ To(c, IF c \in HostConns THEN "registering" ELSE "waiting")
  /\ UNCHANGED <<AtServer, s2c, open, mysid, peer_key, collected>>

Registered(h) ==
  /\ cl[h] = "registering" /\ Receive(h, "registered")
  /\ To(h, "waiting")
  /\ UNCHANGED <<AtServer, c2s, open, mysid, peer_key, collected>>

\* Mutant of SendCandidates: a Srflx or Relay candidate is sent as a Host one, too.
SendCandidates_Twice(c, sid) ==
  \E n \in 1..MaxCands : SendMsgs(c, [k \in 1..(n + 1) |-> [t |-> "candidate", sid |-> sid]])

\* send_candidates: one Candidate message, up to two more.
SendCandidates(c, sid) ==
  \E n \in 1..MaxCands : SendMsgs(c, [k \in 1..n |-> [t |-> "candidate", sid |-> sid]])

Started(c) ==
  /\ cl[c] = "waiting" /\ Receive(c, "session_start")
  /\ LET m == Head(s2c[c]) IN
       /\ mysid' = [mysid EXCEPT ![c] = m.sid]
       /\ peer_key' = IF c \in Viewers THEN [peer_key EXCEPT ![c] = m.key] ELSE peer_key
       /\ SendCandidates(c, m.sid)
  /\ To(c, "collecting")
  /\ UNCHANGED <<AtServer, open, collected>>

Collect(c) ==
  /\ cl[c] = "collecting" /\ Receive(c, "peer_candidate")
  /\ collected' = [collected EXCEPT ![c] = @ \union {Head(s2c[c]).from}]
  /\ UNCHANGED <<AtServer, c2s, open, cl, mysid, peer_key>>

\* The deadline or the aggregation window ends with candidates in hand.
Finished(c) ==
  /\ cl[c] = "collecting" /\ collected[c] # {}
  /\ SendMsgs(c, << [t |-> "done", sid |-> mysid[c]] >>)
  /\ To(c, "finished") /\ Close(c)
  /\ UNCHANGED <<AtServer, mysid, peer_key, collected>>

Expected(c) == CASE cl[c] = "registering" -> "registered"
                 [] cl[c] = "waiting"     -> "session_start"
                 [] cl[c] = "collecting"  -> "peer_candidate"
                 [] OTHER                 -> "nothing"

\* An Error, or any message of another kind than the one expected.
Abort(c) ==
  /\ cl[c] \in {"registering", "waiting", "collecting"}
  /\ s2c[c] # << >> /\ Head(s2c[c]).t # Expected(c)
  /\ To(c, "failed") /\ Close(c)
  /\ UNCHANGED <<AtServer, c2s, mysid, peer_key, collected>>

\* The stage's timeout with nothing in hand, or, with or without candidates, an error
\* of the socket, the server closing it, or a crash: no Done is said.
GiveUp(c) ==
  /\ cl[c] \in {"registering", "waiting", "collecting"}
  /\ To(c, "failed") /\ Close(c)
  /\ UNCHANGED <<AtServer, c2s, mysid, peer_key, collected>>

Client(c) ==
  Registered(c) \/ Started(c) \/ Collect(c) \/ Finished(c) \/ Abort(c) \/ GiveUp(c)

AllOver == \A c \in Conns : cl[c] \in {"finished", "failed"} /\ task[c] = "closed"
TimersOver == \A v \in Viewers : timer[v] \in {"off", "done"}
Terminated == AllOver /\ TimersOver /\ UNCHANGED vars

Server == ServerNext /\ UNCHANGED clientVars
Next ==
  \/ Server
  \/ \E c \in Conns : Start(c) \/ Client(c)
  \/ Terminated

\* The server's tasks and timers run, and every stage of a client has a deadline: as
\* long as one of them can go on, one does.  That is less than the runtime gives, each
\* task gets its turn; more is not needed, for a rendezvous has finitely many steps.
\* Nobody has to start one.
Fairness == WF_vars(Server \/ \E c \in Conns : Client(c))

Spec == Init /\ [][Next]_vars
FairSpec == Spec /\ Fairness
-----------------------------------------------------------------------------
Messages ==
  [t : {"error"}] \union [t : {"registered"}, id : HostIds]
    \union [t : {"session_start"}, sid : Viewers]
    \union [t : {"session_start"}, sid : Viewers, key : Keys]
    \union [t : {"peer_candidate"}, sid : Viewers, from : Conns]
Requests ==
  [t : {"register", "connect"}] \union [t : {"candidate", "done"}, sid : Viewers]

\* The tables, channels and streams hold what the code puts into them.
TypeOK ==
  /\ store \in [HostIds -> Keys \union {None}]
  /\ hosts \in [HostIds -> HostConns \union {None}]
  /\ sessions \subseteq Viewers
  /\ host_of \in [Viewers -> HostConns \union {None}]
  /\ allocated \in [HostConns -> HostIds \union {NoId}]
  /\ task \in [Conns -> {"first", "checked", "inserted", "host_loop", "notify_host",
                         "notify_viewer", "viewer_loop", "leaving", "closed"}]
  /\ chan \in [Conns -> Seq(Messages)] /\ \A c \in Conns : Len(chan[c]) <= SEND_CHAN_CAP
  /\ waiting \in [Conns -> [op : {"send", "remove"}, sid : Viewers] \union {None}]
  /\ timer \in [Viewers -> {"off", "armed", "tell_host", "tell_viewer", "done"}]
  /\ c2s \in [Conns -> Seq(Requests)] /\ s2c \in [Conns -> Seq(Messages)]
  /\ open \subseteq Conns
  /\ cl \in [Conns -> {"idle", "registering", "waiting", "collecting", "finished", "failed"}]
  /\ mysid \in [Conns -> Viewers \union {None}]
  /\ peer_key \in [Viewers -> Keys \union {None}]
  /\ collected \in [Conns -> SUBSET Conns]

\* Viewers that asked for the same host_id are given the same host key, the one
\* the store holds for it, whichever host connections come, go and claim the id
\* in between (allocate_or_verify, ws.rs:112-118).
OneKeyPerId ==
  \A v \in Viewers : peer_key[v] # None => peer_key[v] = store[Wants[v]]

\* A host that completes collected candidates of its own session's viewer only,
\* although recv_peer_candidates ignores the session_id of what it receives and
\* the channel carries the messages of every session of the host.
CandidatesOfOwnSession ==
  \A c \in Conns : cl[c] \in {"collecting", "finished"} =>
    collected[c] \subseteq {IF c \in Viewers THEN host_of[c] ELSE mysid[c]}

\* When every connection is closed and every timeout task has ended, the host
\* registry and the session table are empty again (ws.rs:105, 153, 246, 292).
NothingLeaks ==
  AllOver /\ TimersOver => sessions = {} /\ \A i \in HostIds : hosts[i] = None

\* Nobody ever waits for room in a viewer's channel that takes the candidates of one
\* host, a SessionStart and an Error: not the viewer's own task, which is the one
\* that empties the channel and would wait for itself (ws.rs:138-144), nor the timeout
\* task (ws.rs:165), nor a host's loop with its guard on the session table (ws.rs:218).
ViewerTakesAll ==
  SEND_CHAN_CAP >= MaxCands + 2 =>
    /\ \A v \in Viewers : task[v] = "notify_viewer" \/ timer[v] = "tell_viewer" =>
         Len(chan[v]) < SEND_CHAN_CAP
    /\ \A h \in HostConns : waiting[h] # None => waiting[h].op = "remove"

\* A loop waits for room in the channel of a host with the guard of a session in its
\* hand (ws.rs:264), and the loop of that host, which alone empties the channel, waits
\* for the guard to remove a session of the same shard (ws.rs:226).
CircularWait ==
  \E h \in HostConns, c \in Conns :
    /\ waiting[h] # None /\ waiting[h].op = "remove" /\ HoldsGuard(c, waiting[h].sid)
    /\ OtherEnd(c, waiting[c].sid) = h /\ ~Room(h)

\* Everything that was started is over: no session is left in the table, and the
\* server's task of each connection is closed.
EverythingOver == sessions = {} /\ \A c \in Conns : cl[c] # "idle" => task[c] = "closed"


\* What was started comes to its end: the steps of a rendezvous are finitely many.
EverythingEnds == <>[](EverythingOver \/ CircularWait)

=============================================================================
