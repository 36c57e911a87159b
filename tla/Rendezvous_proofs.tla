-------------------------- MODULE Rendezvous_proofs --------------------------
(***************************************************************************)
(* What the rendezvous keeps for any number of hosts, viewers, ids and     *)
(* keys, any capacity of the channels and any number of candidates: its    *)
(* types, one key per host id, candidates of one's own session only, and   *)
(* empty tables when everybody has left.                                   *)
(***************************************************************************)
EXTENDS Rendezvous, SequenceTheorems, TLAPS

HostTasks == {"first", "checked", "inserted", "host_loop", "closed"}
ViewerTasks == {"first", "notify_host", "notify_viewer", "viewer_loop", "leaving", "closed"}

\* Tasks, what they wait in, and the sessions they are responsible for.
TaskInv ==
  /\ \A h \in HostConns : task[h] \in HostTasks
  /\ \A v \in Viewers : /\ task[v] \in ViewerTasks
                        /\ task[v] \in {"notify_host", "notify_viewer", "viewer_loop"}
                             => host_of[v] # None
                        /\ task[v] = "first" => host_of[v] = None
  /\ \A c \in Conns : waiting[c] # None =>
       /\ task[c] \in {"host_loop", "viewer_loop"}
       /\ waiting[c].op = "send" =>
            IF c \in Viewers THEN waiting[c].sid = c ELSE host_of[waiting[c].sid] = c
  /\ \A v \in sessions : task[v] \in {"notify_host", "notify_viewer", "viewer_loop", "leaving"}

\* A timeout task belongs to a session.
TimerInv == \A v \in Viewers : timer[v] # "off" => host_of[v] # None

\* Whoever is in the registry holds the key that is stored for the id.
RegistryInv ==
  /\ \A h \in HostConns : task[h] \in {"checked", "inserted", "host_loop"} =>
       allocated[h] \in HostIds /\ store[allocated[h]] = KeyOf[h]
  /\ \A i \in HostIds : hosts[i] # None =>
       task[hosts[i]] \in {"inserted", "host_loop"} /\ allocated[hosts[i]] = i
  /\ \A v \in Viewers : host_of[v] # None => store[Wants[v]] = KeyOf[host_of[v]]

\* What can be on its way to a connection: to a viewer its own session with the
\* stored key and its host's candidates, to a host sessions of its own.
Inbox(c) == {m \in Messages :
  /\ m.t = "session_start" =>
       IF c \in Viewers THEN m.sid = c /\ m.key \in Keys /\ m.key = store[Wants[c]]
                        ELSE host_of[m.sid] = c
  /\ m.t = "peer_candidate" =>
       IF c \in Viewers THEN m.from \in HostConns /\ m.from = host_of[c]
                        ELSE m.from = m.sid /\ host_of[m.sid] = c}
\* And what a connection can have sent.
Outbox(c) == {m \in Requests :
  m.t = "candidate" => IF c \in Viewers THEN m.sid = c ELSE host_of[m.sid] = c}

QueueInv == \A c \in Conns :
  chan[c] \in Seq(Inbox(c)) /\ s2c[c] \in Seq(Inbox(c)) /\ c2s[c] \in Seq(Outbox(c))

\* Clients have at most one session, and what they know of it is right.
ClientInv ==
  /\ \A c \in Conns :
       /\ cl[c] \in {"idle", "registering", "waiting"} => mysid[c] = None /\ collected[c] = {}
       /\ cl[c] = "collecting" => mysid[c] # None
       /\ cl[c] \in {"idle", "registering", "waiting", "collecting"} => c \in open
  /\ \A v \in Viewers : mysid[v] \in {None, v}
  /\ \A h \in HostConns : mysid[h] # None => host_of[mysid[h]] = h
  /\ OneKeyPerId /\ CandidatesOfOwnSession

IsStart(m, v) == m.t = "session_start" /\ m.sid = v
\* A host has taken in the SessionStart of v, or will when it reads its socket.
Knows(h, v) == mysid[h] = v \/ \E i \in 1..Len(s2c[h]) : IsStart(s2c[h][i], v)

\* No candidate reaches a host before the SessionStart of its session.
LeadAt(h) ==
  /\ \A j \in 1..Len(s2c[h]) : s2c[h][j].t = "peer_candidate" =>
       \/ mysid[h] = s2c[h][j].from
       \/ \E i \in 1..(j - 1) : IsStart(s2c[h][i], s2c[h][j].from)
  /\ \A j \in 1..Len(chan[h]) : chan[h][j].t = "peer_candidate" =>
       \/ Knows(h, chan[h][j].from)
       \/ \E i \in 1..(j - 1) : IsStart(chan[h][i], chan[h][j].from)
  /\ \A v \in Viewers : task[v] \in {"notify_viewer", "viewer_loop"} /\ host_of[v] = h =>
       \/ task[h] = "closed" \/ Knows(h, v)
       \/ \E i \in 1..Len(chan[h]) : IsStart(chan[h][i], v)
LeadInv == \A h \in HostConns : h \in open => LeadAt(h)

IInv == TypeOK /\ TaskInv /\ TimerInv /\ RegistryInv /\ QueueInv /\ ClientInv /\ LeadInv

-----------------------------------------------------------------------------
(* Sequences and constants.                                                *)

\* The constants.
LEMMA Constants ==
  /\ HostConns \subseteq Conns /\ Viewers \subseteq Conns
  /\ \A c \in Conns : c \in HostConns <=> c \notin Viewers
  /\ None \notin Conns /\ None \notin HostConns /\ None \notin Viewers /\ None \notin Keys
  /\ NoId \notin HostIds /\ SEND_CHAN_CAP \in Nat /\ SEND_CHAN_CAP >= 1
  /\ KeyOf \in [HostConns -> Keys] /\ IdOf \in [HostConns -> HostIds \union {NoId}]
  /\ Wants \in [Viewers -> HostIds] /\ MaxCands \in 1..3
BY SignalingAssumption, MaxCandsAssumption DEF Conns

\* The rest of a queue.
LEMMA TailOf ==
  ASSUME NEW S, NEW q \in Seq(S), q # << >>
  PROVE  /\ Head(q) \in S /\ Head(q) = q[1] /\ Tail(q) \in Seq(S)
         /\ Len(q) \in Nat /\ Len(q) >= 1 /\ Len(Tail(q)) = Len(q) - 1
         /\ \A i \in 1..Len(Tail(q)) : Tail(q)[i] = q[i + 1]
BY HeadTailProperties

\* A queue with one more element.
LEMMA AppendOf ==
  ASSUME NEW S, NEW q \in Seq(S), NEW m \in S
  PROVE  /\ Append(q, m) \in Seq(S) /\ Len(q) \in Nat /\ Len(Append(q, m)) = Len(q) + 1
         /\ \A i \in 1..Len(q) : Append(q, m)[i] = q[i]
         /\ Append(q, m)[Len(q) + 1] = m
BY AppendProperties

\* What is in a connection's queues is a message or a request.
LEMMA Boxes ==
  ASSUME NEW c
  PROVE  Inbox(c) \subseteq Messages /\ Outbox(c) \subseteq Requests
BY DEF Inbox, Outbox

\* Queues that are as QueueInv says are typed.
LEMMA QueueTypes ==
  ASSUME QueueInv
  PROVE  \A c \in Conns : chan[c] \in Seq(Messages) /\ s2c[c] \in Seq(Messages)
                          /\ c2s[c] \in Seq(Requests)
<1> SUFFICES ASSUME NEW c \in Conns
             PROVE  chan[c] \in Seq(Messages) /\ s2c[c] \in Seq(Messages) /\ c2s[c] \in Seq(Requests)
  OBVIOUS
<1>1. chan[c] \in Seq(Inbox(c)) /\ s2c[c] \in Seq(Inbox(c)) /\ c2s[c] \in Seq(Outbox(c))
  BY DEF QueueInv
<1> QED BY <1>1, Boxes, SeqMonotonic

-----------------------------------------------------------------------------
(* What a change of a queue or a table leaves standing.                    *)

\* Queues lose their first element, get one that fits or are emptied.
LEMMA QueueChange ==
  ASSUME IInv,
         \A c \in Conns : Inbox(c) \subseteq Inbox(c)' /\ Outbox(c) \subseteq Outbox(c)',
         \A c \in Conns :
           /\ \/ chan'[c] \in {chan[c], << >>}
              \/ chan[c] # << >> /\ chan'[c] = Tail(chan[c])
              \/ \E m \in Inbox(c) : chan'[c] = Append(chan[c], m)
           /\ \/ s2c'[c] \in {s2c[c], << >>}
              \/ s2c[c] # << >> /\ s2c'[c] = Tail(s2c[c])
              \/ \E m \in Inbox(c) : s2c'[c] = Append(s2c[c], m)
           /\ \/ c2s'[c] = c2s[c]
              \/ c2s[c] # << >> /\ c2s'[c] = Tail(c2s[c])
              \/ \E q \in Seq(Outbox(c)) : c2s'[c] = c2s[c] \o q
  PROVE  /\ QueueInv'
         /\ \A c \in Conns : chan'[c] \in Seq(Messages) /\ s2c'[c] \in Seq(Messages)
                             /\ c2s'[c] \in Seq(Requests)
<1> SUFFICES ASSUME NEW c \in Conns
             PROVE  /\ chan'[c] \in Seq(Inbox(c)') /\ s2c'[c] \in Seq(Inbox(c)')
                    /\ c2s'[c] \in Seq(Outbox(c)')
                    /\ chan'[c] \in Seq(Messages) /\ s2c'[c] \in Seq(Messages)
                    /\ c2s'[c] \in Seq(Requests)
  BY DEF QueueInv
<1>1. chan[c] \in Seq(Inbox(c)) /\ s2c[c] \in Seq(Inbox(c)) /\ c2s[c] \in Seq(Outbox(c))
  BY DEF IInv, QueueInv
<1>2. << >> \in Seq(Inbox(c))
  OBVIOUS
<1>3. chan'[c] \in Seq(Inbox(c))
  <2>1. CASE chan'[c] \in {chan[c], << >>}
    BY <1>1, <1>2, <2>1
  <2>2. CASE chan[c] # << >> /\ chan'[c] = Tail(chan[c])
    BY <1>1, <2>2, TailOf
  <2>3. CASE \E m \in Inbox(c) : chan'[c] = Append(chan[c], m)
    BY <1>1, <2>3, AppendOf
  <2> QED BY <2>1, <2>2, <2>3
<1>4. s2c'[c] \in Seq(Inbox(c))
  <2>1. CASE s2c'[c] \in {s2c[c], << >>}
    BY <1>1, <1>2, <2>1
  <2>2. CASE s2c[c] # << >> /\ s2c'[c] = Tail(s2c[c])
    BY <1>1, <2>2, TailOf
  <2>3. CASE \E m \in Inbox(c) : s2c'[c] = Append(s2c[c], m)
    BY <1>1, <2>3, AppendOf
  <2> QED BY <2>1, <2>2, <2>3
<1>5. c2s'[c] \in Seq(Outbox(c))
  <2>1. CASE c2s'[c] = c2s[c]
    BY <1>1, <2>1
  <2>2. CASE c2s[c] # << >> /\ c2s'[c] = Tail(c2s[c])
    BY <1>1, <2>2, TailOf
  <2>3. CASE \E q \in Seq(Outbox(c)) : c2s'[c] = c2s[c] \o q
    BY <1>1, <2>3, ConcatProperties
  <2> QED BY <2>1, <2>2, <2>3
<1>6. Inbox(c) \subseteq Inbox(c)' /\ Outbox(c) \subseteq Outbox(c)'
  OBVIOUS
<1>7. Inbox(c) \subseteq Messages /\ Outbox(c) \subseteq Requests
  BY Boxes
<1> QED BY <1>3, <1>4, <1>5, <1>6, <1>7, SeqMonotonic

\* What fits is a matter of the store and of the viewers' hosts.
LEMMA SameBoxes ==
  ASSUME UNCHANGED <<store, host_of>>, NEW c \in Conns
  PROVE  Inbox(c)' = Inbox(c) /\ Outbox(c)' = Outbox(c)
BY DEF Inbox, Outbox

\* Clients do not notice what the server does.
LEMMA ClientKept ==
  ASSUME IInv, UNCHANGED <<clientVars, open>>,
         \A i \in HostIds : store[i] # None => store'[i] = store[i],
         \A v \in Viewers : host_of[v] # None => host_of'[v] = host_of[v]
  PROVE  ClientInv'
<1>1. UNCHANGED <<cl, mysid, peer_key, collected, open>>
  BY DEF clientVars
<1>2. OneKeyPerId'
  <2> SUFFICES ASSUME NEW v \in Viewers, peer_key[v] # None PROVE peer_key[v] = store'[Wants[v]]
    BY <1>1 DEF OneKeyPerId
  <2>1. peer_key[v] = store[Wants[v]] /\ Wants[v] \in HostIds
    BY Constants DEF IInv, ClientInv, OneKeyPerId
  <2> QED BY <2>1
<1>3. CandidatesOfOwnSession'
  <2> SUFFICES ASSUME NEW c \in Conns, cl[c] \in {"collecting", "finished"}
               PROVE  collected[c] \subseteq {IF c \in Viewers THEN host_of'[c] ELSE mysid[c]}
    BY <1>1 DEF CandidatesOfOwnSession
  <2>1. collected[c] \subseteq {IF c \in Viewers THEN host_of[c] ELSE mysid[c]}
    BY DEF IInv, ClientInv, CandidatesOfOwnSession
  <2>2. collected[c] \subseteq Conns
    BY DEF IInv, TypeOK
  <2> QED BY <2>1, <2>2, Constants
<1>4. \A h \in HostConns : mysid[h] # None => host_of'[mysid[h]] = h
  <2> SUFFICES ASSUME NEW h \in HostConns, mysid[h] # None PROVE host_of'[mysid[h]] = h
    OBVIOUS
  <2>1. host_of[mysid[h]] = h /\ mysid[h] \in Viewers /\ h # None
    BY Constants DEF IInv, ClientInv, TypeOK
  <2> QED BY <2>1
<1> QED BY <1>1, <1>2, <1>3, <1>4 DEF IInv, ClientInv

\* A host's messages are left alone, and no viewer enters its loop.
LEMMA LeadSame ==
  ASSUME NEW h \in HostConns, LeadAt(h),
         mysid'[h] = mysid[h], s2c'[h] = s2c[h], chan'[h] = chan[h],
         task[h] = "closed" => task'[h] = "closed",
         \A v \in Viewers : task'[v] \in {"notify_viewer", "viewer_loop"} /\ host_of'[v] = h =>
                              \/ task'[h] = "closed"
                              \/ task[v] \in {"notify_viewer", "viewer_loop"} /\ host_of[v] = h
  PROVE  LeadAt(h)'
BY DEF LeadAt, Knows

\* A message is put into its channel: a candidate of a session it will know by then.
LEMMA LeadAppend ==
  ASSUME NEW h \in HostConns, LeadAt(h), NEW S, chan[h] \in Seq(S), NEW m \in S,
         mysid'[h] = mysid[h], s2c'[h] = s2c[h], chan'[h] = Append(chan[h], m),
         m.t = "peer_candidate" => \/ Knows(h, m.from)
                                   \/ \E i \in 1..Len(chan[h]) : IsStart(chan[h][i], m.from),
         task[h] = "closed" => task'[h] = "closed",
         \A v \in Viewers : task'[v] \in {"notify_viewer", "viewer_loop"} /\ host_of'[v] = h =>
                              \/ task[v] \in {"notify_viewer", "viewer_loop"} /\ host_of[v] = h
                              \/ IsStart(m, v)
  PROVE  LeadAt(h)'
<1> DEFINE n == Len(chan[h])
<1>1. /\ n \in Nat /\ Len(chan'[h]) = n + 1
      /\ \A i \in 1..n : chan'[h][i] = chan[h][i]
      /\ chan'[h][n + 1] = m
  BY AppendOf
<1>2. \A v : Knows(h, v)' <=> Knows(h, v)
  BY DEF Knows
<1>3. \A j \in 1..(n + 1) : chan'[h][j].t = "peer_candidate" =>
        \/ Knows(h, chan'[h][j].from)
        \/ \E i \in 1..(j - 1) : IsStart(chan'[h][i], chan'[h][j].from)
  <2> SUFFICES ASSUME NEW j \in 1..(n + 1), chan'[h][j].t = "peer_candidate"
               PROVE  \/ Knows(h, chan'[h][j].from)
                      \/ \E i \in 1..(j - 1) : IsStart(chan'[h][i], chan'[h][j].from)
    OBVIOUS
  <2>1. CASE j = n + 1
    BY <1>1, <2>1
  <2>2. CASE j # n + 1
    <3>1. j \in 1..n /\ chan'[h][j] = chan[h][j] /\ \A i \in 1..(j - 1) : chan'[h][i] = chan[h][i]
      BY <1>1, <2>2
    <3> QED BY <3>1 DEF LeadAt
  <2> QED BY <2>1, <2>2
<1>4. \A v \in Viewers : task'[v] \in {"notify_viewer", "viewer_loop"} /\ host_of'[v] = h =>
        \/ task'[h] = "closed" \/ Knows(h, v)
        \/ \E i \in 1..(n + 1) : IsStart(chan'[h][i], v)
  <2> SUFFICES ASSUME NEW v \in Viewers, task'[v] \in {"notify_viewer", "viewer_loop"},
                      host_of'[v] = h
               PROVE  \/ task'[h] = "closed" \/ Knows(h, v)
                      \/ \E i \in 1..(n + 1) : IsStart(chan'[h][i], v)
    OBVIOUS
  <2>1. CASE IsStart(m, v)
    <3>1. n + 1 \in 1..(n + 1)
      BY <1>1
    <3> QED BY <1>1, <2>1, <3>1
  <2>2. CASE task[v] \in {"notify_viewer", "viewer_loop"} /\ host_of[v] = h
    <3>1. \/ task[h] = "closed" \/ Knows(h, v)
          \/ \E i \in 1..n : IsStart(chan[h][i], v)
      BY <2>2 DEF LeadAt
    <3> QED BY <1>1, <3>1
  <2> QED BY <2>1, <2>2
<1>5. \A j \in 1..Len(s2c'[h]) : s2c'[h][j].t = "peer_candidate" =>
        \/ mysid'[h] = s2c'[h][j].from
        \/ \E i \in 1..(j - 1) : IsStart(s2c'[h][i], s2c'[h][j].from)
  BY DEF LeadAt
<1> QED BY <1>1, <1>2, <1>3, <1>4, <1>5 DEF LeadAt

\* The first message of its channel goes to its socket.
LEMMA LeadOutbound ==
  ASSUME NEW h \in HostConns, LeadAt(h), NEW S, chan[h] \in Seq(S), s2c[h] \in Seq(S),
         chan[h] # << >>, mysid'[h] = mysid[h],
         s2c'[h] = Append(s2c[h], Head(chan[h])), chan'[h] = Tail(chan[h]),
         UNCHANGED <<task, host_of>>
  PROVE  LeadAt(h)'
<1> DEFINE n == Len(s2c[h])
           k == Len(chan[h])
           KnowsThen(v) == mysid'[h] = v \/ \E i \in 1..Len(s2c'[h]) : IsStart(s2c'[h][i], v)
<1>1. /\ k \in Nat /\ k >= 1 /\ Len(chan'[h]) = k - 1 /\ Head(chan[h]) \in S
      /\ Head(chan[h]) = chan[h][1]
      /\ \A i \in 1..(k - 1) : chan'[h][i] = chan[h][i + 1]
  BY TailOf
<1>2. /\ n \in Nat /\ Len(s2c'[h]) = n + 1
      /\ \A i \in 1..n : s2c'[h][i] = s2c[h][i]
      /\ s2c'[h][n + 1] = chan[h][1]
  BY <1>1, AppendOf
<1>3. \A v : KnowsThen(v) <=> Knows(h, v) \/ IsStart(chan[h][1], v)
  <2> SUFFICES ASSUME NEW v PROVE KnowsThen(v) <=> Knows(h, v) \/ IsStart(chan[h][1], v)
    OBVIOUS
  <2>1. (\E i \in 1..(n + 1) : IsStart(s2c'[h][i], v))
          <=> (\E i \in 1..n : IsStart(s2c[h][i], v)) \/ IsStart(chan[h][1], v)
    <3>1. ASSUME NEW i \in 1..(n + 1), IsStart(s2c'[h][i], v)
          PROVE  (\E x \in 1..n : IsStart(s2c[h][x], v)) \/ IsStart(chan[h][1], v)
      <4>1. CASE i = n + 1
        BY <1>2, <3>1, <4>1
      <4>2. CASE i # n + 1
        <5>1. i \in 1..n
          BY <1>2, <4>2
        <5> QED BY <1>2, <3>1, <5>1
      <4> QED BY <4>1, <4>2
    <3>2. ASSUME NEW i \in 1..n, IsStart(s2c[h][i], v)
          PROVE  \E x \in 1..(n + 1) : IsStart(s2c'[h][x], v)
      BY <1>2, <3>2
    <3>3. ASSUME IsStart(chan[h][1], v)
          PROVE  \E x \in 1..(n + 1) : IsStart(s2c'[h][x], v)
      <4>1. n + 1 \in 1..(n + 1)
        BY <1>2
      <4> QED BY <1>2, <3>3, <4>1
    <3> QED BY <3>1, <3>2, <3>3
  <2> QED BY <1>2, <2>1 DEF Knows
<1>4. \A j \in 1..(n + 1) : s2c'[h][j].t = "peer_candidate" =>
        \/ mysid[h] = s2c'[h][j].from
        \/ \E i \in 1..(j - 1) : IsStart(s2c'[h][i], s2c'[h][j].from)
  <2> SUFFICES ASSUME NEW j \in 1..(n + 1), s2c'[h][j].t = "peer_candidate"
               PROVE  \/ mysid[h] = s2c'[h][j].from
                      \/ \E i \in 1..(j - 1) : IsStart(s2c'[h][i], s2c'[h][j].from)
    OBVIOUS
  <2>1. CASE j = n + 1
    <3>1. chan[h][1].t = "peer_candidate" /\ s2c'[h][j] = chan[h][1]
      BY <1>2, <2>1
    <3>2. Knows(h, chan[h][1].from)
      <4>1. 1 \in 1..k /\ 1..(1 - 1) = {}
        BY <1>1
      <4> QED BY <3>1, <4>1 DEF LeadAt
    <3>3. (n + 1) - 1 = n
      BY <1>2
    <3> QED BY <1>2, <2>1, <3>1, <3>2, <3>3 DEF Knows
  <2>2. CASE j # n + 1
    <3>1. j \in 1..n /\ s2c'[h][j] = s2c[h][j] /\ \A i \in 1..(j - 1) : s2c'[h][i] = s2c[h][i]
      BY <1>2, <2>2
    <3> QED BY <3>1 DEF LeadAt
  <2> QED BY <2>1, <2>2
<1>5. \A j \in 1..(k - 1) : chan'[h][j].t = "peer_candidate" =>
        \/ KnowsThen(chan'[h][j].from)
        \/ \E i \in 1..(j - 1) : IsStart(chan'[h][i], chan'[h][j].from)
  <2> SUFFICES ASSUME NEW j \in 1..(k - 1), chan'[h][j].t = "peer_candidate"
               PROVE  \/ KnowsThen(chan'[h][j].from)
                      \/ \E i \in 1..(j - 1) : IsStart(chan'[h][i], chan'[h][j].from)
    OBVIOUS
  <2> DEFINE x == chan'[h][j].from
  <2>1. chan'[h][j] = chan[h][j + 1] /\ j + 1 \in 1..k /\ (j + 1) - 1 = j
    BY <1>1
  <2>2. Knows(h, x) \/ \E i \in 1..j : IsStart(chan[h][i], x)
    BY <2>1 DEF LeadAt
  <2>3. ASSUME NEW i \in 1..j, IsStart(chan[h][i], x)
        PROVE  KnowsThen(x) \/ \E y \in 1..(j - 1) : IsStart(chan'[h][y], x)
    <3>1. CASE i = 1
      BY <1>3, <2>3, <3>1
    <3>2. CASE i # 1
      <4>1. i - 1 \in 1..(j - 1) /\ i - 1 \in 1..(k - 1) /\ (i - 1) + 1 = i
        BY <1>1, <3>2
      <4>2. chan'[h][i - 1] = chan[h][i]
        BY <1>1, <4>1
      <4> QED BY <2>3, <4>1, <4>2
    <3> QED BY <3>1, <3>2
  <2> QED BY <1>3, <2>2, <2>3
<1>6. \A v \in Viewers : task[v] \in {"notify_viewer", "viewer_loop"} /\ host_of[v] = h =>
        \/ task[h] = "closed" \/ KnowsThen(v)
        \/ \E i \in 1..(k - 1) : IsStart(chan'[h][i], v)
  <2> SUFFICES ASSUME NEW v \in Viewers, task[v] \in {"notify_viewer", "viewer_loop"},
                      host_of[v] = h, task[h] # "closed"
               PROVE  KnowsThen(v) \/ \E i \in 1..(k - 1) : IsStart(chan'[h][i], v)
    OBVIOUS
  <2>1. Knows(h, v) \/ \E i \in 1..k : IsStart(chan[h][i], v)
    BY DEF LeadAt
  <2>2. ASSUME NEW i \in 1..k, IsStart(chan[h][i], v)
        PROVE  KnowsThen(v) \/ \E y \in 1..(k - 1) : IsStart(chan'[h][y], v)
    <3>1. CASE i = 1
      BY <1>3, <2>2, <3>1
    <3>2. CASE i # 1
      <4>1. i - 1 \in 1..(k - 1) /\ (i - 1) + 1 = i
        BY <1>1, <3>2
      <4>2. chan'[h][i - 1] = chan[h][i]
        BY <1>1, <4>1
      <4> QED BY <2>2, <4>1, <4>2
    <3> QED BY <3>1, <3>2
  <2> QED BY <1>3, <2>1, <2>2
<1> QED BY <1>1, <1>2, <1>4, <1>5, <1>6 DEF LeadAt, Knows

\* The client takes in the first message: if that is a SessionStart, it knows it.
LEMMA LeadTail ==
  ASSUME NEW h \in HostConns, LeadAt(h), NEW S, s2c[h] \in Seq(S), s2c[h] # << >>,
         s2c'[h] = Tail(s2c[h]), chan'[h] = chan[h], UNCHANGED <<task, host_of>>,
         \/ Head(s2c[h]).t # "session_start" /\ mysid'[h] = mysid[h]
         \/ mysid[h] \notin Viewers /\ mysid'[h] = Head(s2c[h]).sid,
         \A m \in S : m.t = "peer_candidate" => m.from \in Viewers,
         \A i \in 1..Len(chan[h]) : chan[h][i].t = "peer_candidate" => chan[h][i].from \in Viewers
  PROVE  LeadAt(h)'
<1> DEFINE n == Len(s2c[h])
<1>1. /\ n \in Nat /\ n >= 1 /\ Len(s2c'[h]) = n - 1 /\ Head(s2c[h]) = s2c[h][1]
      /\ \A i \in 1..(n - 1) : s2c'[h][i] = s2c[h][i + 1]
  BY TailOf
<1>2. \A v \in Viewers : mysid[h] = v => mysid'[h] = v
  OBVIOUS
<1>3. \A v \in Viewers : IsStart(s2c[h][1], v) => mysid'[h] = v
  BY <1>1 DEF IsStart
<1>4. \A v \in Viewers : Knows(h, v) => Knows(h, v)'
  <2> SUFFICES ASSUME NEW v \in Viewers, NEW i \in 1..n, IsStart(s2c[h][i], v)
               PROVE  Knows(h, v)'
    BY <1>2 DEF Knows
  <2>1. CASE i = 1
    BY <1>3, <2>1 DEF Knows
  <2>2. CASE i # 1
    <3>1. i - 1 \in 1..(n - 1) /\ (i - 1) + 1 = i
      BY <1>1, <2>2
    <3>2. s2c'[h][i - 1] = s2c[h][i]
      BY <1>1, <3>1
    <3> QED BY <1>1, <3>1, <3>2 DEF Knows
  <2> QED BY <2>1, <2>2
<1>5. \A j \in 1..(n - 1) : s2c'[h][j].t = "peer_candidate" =>
        \/ mysid'[h] = s2c'[h][j].from
        \/ \E i \in 1..(j - 1) : IsStart(s2c'[h][i], s2c'[h][j].from)
  <2> SUFFICES ASSUME NEW j \in 1..(n - 1), s2c'[h][j].t = "peer_candidate"
               PROVE  \/ mysid'[h] = s2c'[h][j].from
                      \/ \E i \in 1..(j - 1) : IsStart(s2c'[h][i], s2c'[h][j].from)
    OBVIOUS
  <2> DEFINE x == s2c'[h][j].from
  <2>1. s2c'[h][j] = s2c[h][j + 1] /\ j + 1 \in 1..n /\ (j + 1) - 1 = j
    BY <1>1
  <2>2. x \in Viewers
    <3>1. s2c[h][j + 1] \in S
      BY <2>1, ElementOfSeq
    <3> QED BY <2>1, <3>1
  <2>3. mysid[h] = x \/ \E i \in 1..j : IsStart(s2c[h][i], x)
    BY <2>1 DEF LeadAt
  <2>4. ASSUME NEW i \in 1..j, IsStart(s2c[h][i], x)
        PROVE  mysid'[h] = x \/ \E y \in 1..(j - 1) : IsStart(s2c'[h][y], x)
    <3>1. CASE i = 1
      BY <1>3, <2>2, <2>4, <3>1
    <3>2. CASE i # 1
      <4>1. i - 1 \in 1..(j - 1) /\ i - 1 \in 1..(n - 1) /\ (i - 1) + 1 = i
        BY <1>1, <3>2
      <4>2. s2c'[h][i - 1] = s2c[h][i]
        BY <1>1, <4>1
      <4> QED BY <2>4, <4>1, <4>2
    <3> QED BY <3>1, <3>2
  <2> QED BY <1>2, <2>2, <2>3, <2>4
<1>6. \A j \in 1..Len(chan[h]) : chan[h][j].t = "peer_candidate" =>
        \/ Knows(h, chan[h][j].from)'
        \/ \E i \in 1..(j - 1) : IsStart(chan[h][i], chan[h][j].from)
  BY <1>4 DEF LeadAt
<1>7. \A v \in Viewers : task[v] \in {"notify_viewer", "viewer_loop"} /\ host_of[v] = h =>
        \/ task[h] = "closed" \/ Knows(h, v)'
        \/ \E i \in 1..Len(chan[h]) : IsStart(chan[h][i], v)
  BY <1>4 DEF LeadAt
<1> QED BY <1>1, <1>5, <1>6, <1>7 DEF LeadAt

\* A message that is no candidate goes to its socket directly.
LEMMA LeadSocket ==
  ASSUME NEW h \in HostConns, LeadAt(h), NEW S, s2c[h] \in Seq(S), NEW m \in S,
         m.t # "peer_candidate", s2c'[h] = Append(s2c[h], m),
         mysid'[h] = mysid[h], chan'[h] = chan[h],
         task[h] = "closed" => task'[h] = "closed",
         \A v \in Viewers : task'[v] \in {"notify_viewer", "viewer_loop"} /\ host_of'[v] = h =>
                              task[v] \in {"notify_viewer", "viewer_loop"} /\ host_of[v] = h
  PROVE  LeadAt(h)'
<1> DEFINE n == Len(s2c[h])
           KnowsThen(v) == mysid'[h] = v \/ \E i \in 1..Len(s2c'[h]) : IsStart(s2c'[h][i], v)
<1>1. /\ n \in Nat /\ Len(s2c'[h]) = n + 1
      /\ \A i \in 1..n : s2c'[h][i] = s2c[h][i]
      /\ s2c'[h][n + 1] = m
  BY AppendOf
<1>2. \A v : Knows(h, v) => KnowsThen(v)
  BY <1>1 DEF Knows
<1>3. \A j \in 1..(n + 1) : s2c'[h][j].t = "peer_candidate" =>
        \/ mysid[h] = s2c'[h][j].from
        \/ \E i \in 1..(j - 1) : IsStart(s2c'[h][i], s2c'[h][j].from)
  <2> SUFFICES ASSUME NEW j \in 1..(n + 1), s2c'[h][j].t = "peer_candidate"
               PROVE  \/ mysid[h] = s2c'[h][j].from
                      \/ \E i \in 1..(j - 1) : IsStart(s2c'[h][i], s2c'[h][j].from)
    OBVIOUS
  <2>1. j \in 1..n /\ s2c'[h][j] = s2c[h][j] /\ \A i \in 1..(j - 1) : s2c'[h][i] = s2c[h][i]
    BY <1>1
  <2> QED BY <2>1 DEF LeadAt
<1>4. \A j \in 1..Len(chan[h]) : chan[h][j].t = "peer_candidate" =>
        \/ KnowsThen(chan[h][j].from)
        \/ \E i \in 1..(j - 1) : IsStart(chan[h][i], chan[h][j].from)
  BY <1>2 DEF LeadAt
<1>5. \A v \in Viewers : task'[v] \in {"notify_viewer", "viewer_loop"} /\ host_of'[v] = h =>
        \/ task'[h] = "closed" \/ KnowsThen(v)
        \/ \E i \in 1..Len(chan[h]) : IsStart(chan[h][i], v)
  BY <1>2 DEF LeadAt
<1> QED BY <1>1, <1>3, <1>4, <1>5 DEF LeadAt, Knows

-----------------------------------------------------------------------------
(* Writing to a channel or to a socket.                                    *)

\* A send adds its message or finds nobody there.
LEMMA SendChanType ==
  ASSUME IInv, NEW c \in Conns, NEW m \in Inbox(c), SendChan(c, m)
  PROVE  /\ chan' \in [Conns -> Seq(Messages)]
         /\ \A x \in Conns : Len(chan'[x]) <= SEND_CHAN_CAP
         /\ \A x \in Conns : chan'[x] = chan[x] \/ \E w \in Inbox(x) : chan'[x] = Append(chan[x], w)
         /\ \A x \in Conns : x # c => chan'[x] = chan[x]
         /\ \/ task[c] = "closed" /\ chan'[c] = chan[c]
            \/ task[c] # "closed" /\ chan'[c] = Append(chan[c], m)
<1>1. /\ chan \in [Conns -> Seq(Messages)]
      /\ \A x \in Conns : Len(chan[x]) <= SEND_CHAN_CAP
  BY DEF IInv, TypeOK
<1>2. CASE UNCHANGED chan /\ task[c] = "closed"
  BY <1>1, <1>2
<1>3. CASE /\ task[c] # "closed" /\ Len(chan[c]) < SEND_CHAN_CAP
           /\ chan' = [chan EXCEPT ![c] = Append(@, m)]
  <2>1. m \in Messages
    BY Boxes
  <2>2. /\ Append(chan[c], m) \in Seq(Messages)
        /\ Len(Append(chan[c], m)) = Len(chan[c]) + 1 /\ Len(chan[c]) \in Nat
    BY <1>1, <2>1, AppendOf
  <2>3. Len(Append(chan[c], m)) <= SEND_CHAN_CAP
    BY <1>3, <2>2, Constants
  <2> HIDE DEF SendChan
  <2> QED BY <1>1, <1>3, <2>2, <2>3
<1> QED BY <1>2, <1>3 DEF SendChan, Room

\* A message reaches its socket or is written to a closed one.
LEMMA SocketType ==
  ASSUME IInv, NEW c \in Conns, NEW m \in Inbox(c), SendSocket(c, m)
  PROVE  /\ s2c' \in [Conns -> Seq(Messages)]
         /\ \A x \in Conns : s2c'[x] = s2c[x] \/ \E w \in Inbox(x) : s2c'[x] = Append(s2c[x], w)
         /\ \A x \in Conns : x # c => s2c'[x] = s2c[x]
         /\ c \in open => s2c'[c] = Append(s2c[c], m)
<1>1. s2c \in [Conns -> Seq(Messages)]
  BY DEF IInv, TypeOK
<1>2. m \in Messages
  BY Boxes
<1>3. Append(s2c[c], m) \in Seq(Messages)
  BY <1>1, <1>2, AppendOf
<1> QED BY <1>1, <1>3 DEF SendSocket

\* The server's error fits everywhere.
LEMMA ErrorFits ==
  ASSUME NEW c
  PROVE  [t |-> "error"] \in Inbox(c)
BY DEF Inbox, Messages

\* A request is taken from its stream.
LEMMA ConsumeType ==
  ASSUME IInv, NEW c \in Conns, NEW t, Incoming(c, t), Consume(c)
  PROVE  /\ c2s' \in [Conns -> Seq(Requests)]
         /\ c2s[c] # << >> /\ Head(c2s[c]) \in Outbox(c) /\ Head(c2s[c]).t = t
         /\ \A x \in Conns : \/ c2s'[x] = c2s[x]
                             \/ c2s[x] # << >> /\ c2s'[x] = Tail(c2s[x])
<1>1. c2s \in [Conns -> Seq(Requests)] /\ c2s[c] \in Seq(Outbox(c))
  BY DEF IInv, TypeOK, QueueInv
<1>2. c2s[c] # << >> /\ Head(c2s[c]).t = t
  BY DEF Incoming
<1>3. Head(c2s[c]) \in Outbox(c) /\ Tail(c2s[c]) \in Seq(Requests)
  BY <1>1, <1>2, TailOf
<1> QED BY <1>1, <1>2, <1>3 DEF Consume

\* A send leaves the order of the hosts' messages right.
LEMMA LeadSend ==
  ASSUME IInv, NEW c \in Conns, NEW m \in Inbox(c), SendChan(c, m),
         UNCHANGED <<s2c, mysid, open>>,
         c \in HostConns /\ c \in open /\ task[c] # "closed" /\ m.t = "peer_candidate" =>
           Knows(c, m.from) \/ \E i \in 1..Len(chan[c]) : IsStart(chan[c][i], m.from),
         \A h \in HostConns : task[h] = "closed" => task'[h] = "closed",
         \A h \in HostConns, v \in Viewers :
           task'[v] \in {"notify_viewer", "viewer_loop"} /\ host_of'[v] = h =>
             \/ task[v] \in {"notify_viewer", "viewer_loop"} /\ host_of[v] = h
             \/ h = c /\ IsStart(m, v)
  PROVE  LeadInv'
<1> SUFFICES ASSUME NEW h \in HostConns, h \in open PROVE LeadAt(h)'
  BY DEF LeadInv
<1>1. LeadAt(h) /\ h \in Conns
  BY Constants DEF IInv, LeadInv
<1>2. CASE h # c
  <2>1. chan'[h] = chan[h]
    BY <1>1, <1>2, SendChanType
  <2> QED BY <1>1, <1>2, <2>1, LeadSame
<1>3. CASE h = c /\ task[c] = "closed"
  <2>1. chan'[h] = chan[h]
    BY <1>3, SendChanType
  <2> QED BY <1>1, <1>3, <2>1, LeadSame
<1>4. CASE h = c /\ task[c] # "closed"
  <2>1. chan'[h] = Append(chan[h], m)
    BY <1>4, SendChanType
  <2>2. chan[h] \in Seq(Inbox(h)) /\ m \in Inbox(h)
    BY <1>1, <1>4 DEF IInv, QueueInv
  <2> QED BY <1>1, <1>4, <2>1, <2>2, LeadAppend
<1> QED BY <1>2, <1>3, <1>4

-----------------------------------------------------------------------------
(* Steps of the server.                                                    *)

\* What fits still fits when keys are stored and sessions get their host.
LEMMA BoxesGrow ==
  ASSUME IInv, NEW c \in Conns,
         \A i \in HostIds : store[i] # None => store'[i] = store[i],
         \A v \in Viewers : host_of[v] # None => host_of'[v] = host_of[v]
  PROVE  Inbox(c) \subseteq Inbox(c)' /\ Outbox(c) \subseteq Outbox(c)'
<1>1. ASSUME NEW m \in Inbox(c) PROVE m \in Inbox(c)'
  <2>1. m.t \in {"session_start", "peer_candidate"} => m.sid \in Viewers
    BY DEF Inbox, Messages
  <2>2. c # None /\ (c \in Viewers => Wants[c] \in HostIds)
    BY Constants
  <2> QED BY <2>1, <2>2, Constants DEF Inbox
<1>2. ASSUME NEW m \in Outbox(c) PROVE m \in Outbox(c)'
  <2>1. m.t = "candidate" => m.sid \in Viewers
    BY DEF Outbox, Requests
  <2> QED BY <2>1, Constants DEF Outbox
<1> QED BY <1>1, <1>2

\* A step of the server leaves the clients alone and their queues well filled.
LEMMA ServerKeeps ==
  ASSUME IInv, UNCHANGED <<clientVars, open>>,
         \A i \in HostIds : store[i] # None => store'[i] = store[i],
         \A v \in Viewers : host_of[v] # None => host_of'[v] = host_of[v],
         \A v \in Viewers : timer'[v] # timer[v] => host_of[v] # None,
         \A c \in Conns :
           /\ \/ chan'[c] \in {chan[c], << >>}
              \/ chan[c] # << >> /\ chan'[c] = Tail(chan[c])
              \/ \E m \in Inbox(c) : chan'[c] = Append(chan[c], m)
           /\ \/ s2c'[c] = s2c[c]
              \/ \E m \in Inbox(c) : s2c'[c] = Append(s2c[c], m)
           /\ \/ c2s'[c] = c2s[c]
              \/ c2s[c] # << >> /\ c2s'[c] = Tail(c2s[c]),
         store' \in [HostIds -> Keys \union {None}],
         hosts' \in [HostIds -> HostConns \union {None}],
         sessions' \subseteq Viewers,
         host_of' \in [Viewers -> HostConns \union {None}],
         allocated' \in [HostConns -> HostIds \union {NoId}],
         task' \in [Conns -> HostTasks \union ViewerTasks],
         chan' \in [Conns -> Seq(Messages)], \A c \in Conns : Len(chan'[c]) <= SEND_CHAN_CAP,
         waiting' \in [Conns -> [op : {"send", "remove"}, sid : Viewers] \union {None}],
         timer' \in [Viewers -> {"off", "armed", "tell_host", "tell_viewer", "done"}],
         c2s' \in [Conns -> Seq(Requests)], s2c' \in [Conns -> Seq(Messages)],
         TaskInv', RegistryInv', LeadInv'
  PROVE  IInv'
<1>1. \A c \in Conns : Inbox(c) \subseteq Inbox(c)' /\ Outbox(c) \subseteq Outbox(c)'
  BY BoxesGrow
<1>2. \A c \in Conns : \/ c2s'[c] = c2s[c]
                       \/ c2s[c] # << >> /\ c2s'[c] = Tail(c2s[c])
                       \/ \E q \in Seq(Outbox(c)) : c2s'[c] = c2s[c] \o q
  OBVIOUS
<1>3. \A c \in Conns : \/ s2c'[c] \in {s2c[c], << >>}
                       \/ s2c[c] # << >> /\ s2c'[c] = Tail(s2c[c])
                       \/ \E m \in Inbox(c) : s2c'[c] = Append(s2c[c], m)
  OBVIOUS
<1>4. QueueInv'
  BY <1>1, <1>2, <1>3, QueueChange
<1>5. ClientInv'
  BY ClientKept
<1>6. TypeOK'
  <2>1. task' \in [Conns -> {"first", "checked", "inserted", "host_loop", "notify_host",
                             "notify_viewer", "viewer_loop", "leaving", "closed"}]
    BY DEF HostTasks, ViewerTasks
  <2>2. /\ open' \subseteq Conns
        /\ cl' \in [Conns -> {"idle", "registering", "waiting", "collecting", "finished", "failed"}]
        /\ mysid' \in [Conns -> Viewers \union {None}]
        /\ peer_key' \in [Viewers -> Keys \union {None}]
        /\ collected' \in [Conns -> SUBSET Conns]
    BY DEF IInv, TypeOK, clientVars
  <2> QED BY <2>1, <2>2 DEF TypeOK
<1>7. TimerInv'
  BY DEF IInv, TimerInv
<1> QED BY <1>4, <1>5, <1>6, <1>7 DEF IInv

\* The types of the server's variables, as ServerKeeps wants them.
LEMMA ServerTypes ==
  ASSUME IInv
  PROVE  /\ store \in [HostIds -> Keys \union {None}]
         /\ hosts \in [HostIds -> HostConns \union {None}]
         /\ sessions \subseteq Viewers
         /\ host_of \in [Viewers -> HostConns \union {None}]
         /\ allocated \in [HostConns -> HostIds \union {NoId}]
         /\ task \in [Conns -> HostTasks \union ViewerTasks]
         /\ chan \in [Conns -> Seq(Messages)] /\ \A c \in Conns : Len(chan[c]) <= SEND_CHAN_CAP
         /\ waiting \in [Conns -> [op : {"send", "remove"}, sid : Viewers] \union {None}]
         /\ timer \in [Viewers -> {"off", "armed", "tell_host", "tell_viewer", "done"}]
         /\ c2s \in [Conns -> Seq(Requests)] /\ s2c \in [Conns -> Seq(Messages)]
BY DEF IInv, TypeOK, HostTasks, ViewerTasks

\* Hosts whose messages, and whose viewers, a step leaves alone.
LEMMA LeadKept ==
  ASSUME IInv, UNCHANGED <<s2c, chan, mysid, open>>,
         \A h \in HostConns : task[h] = "closed" => task'[h] = "closed",
         \A h \in HostConns, v \in Viewers :
           task'[v] \in {"notify_viewer", "viewer_loop"} /\ host_of'[v] = h =>
             \/ task'[h] = "closed"
             \/ task[v] \in {"notify_viewer", "viewer_loop"} /\ host_of[v] = h
  PROVE  LeadInv'
<1> SUFFICES ASSUME NEW h \in HostConns, h \in open PROVE LeadAt(h)'
  BY DEF LeadInv
<1>1. LeadAt(h)
  BY DEF IInv, LeadInv
<1> QED BY <1>1, LeadSame

\* The same for a step that tells one connection something of another kind than a
\* candidate.
LEMMA LeadTold ==
  ASSUME IInv, NEW c \in Conns, NEW m \in Inbox(c), SendSocket(c, m), m.t # "peer_candidate",
         UNCHANGED <<chan, mysid, open, host_of>>,
         \A h \in HostConns : task[h] = "closed" => task'[h] = "closed",
         \A v \in Viewers : task'[v] \in {"notify_viewer", "viewer_loop"} => task'[v] = task[v]
  PROVE  LeadInv'
<1> SUFFICES ASSUME NEW h \in HostConns, h \in open PROVE LeadAt(h)'
  BY DEF LeadInv
<1>1. LeadAt(h) /\ h \in Conns
  BY Constants DEF IInv, LeadInv
<1>2. CASE h # c
  <2>1. s2c'[h] = s2c[h]
    BY <1>1, <1>2, SocketType
  <2> QED BY <1>1, <2>1, LeadSame
<1>3. CASE h = c
  <2>1. s2c'[h] = Append(s2c[h], m)
    BY <1>3, SocketType
  <2>2. s2c[h] \in Seq(Inbox(h))
    BY <1>1 DEF IInv, QueueInv
  <2> QED BY <1>1, <1>3, <2>1, <2>2, LeadSocket
<1> QED BY <1>2, <1>3

\* A host's task moves on while it waits for nothing.
LEMMA HostTaskInv ==
  ASSUME IInv, NEW h \in HostConns, waiting[h] = None, task'[h] \in HostTasks,
         UNCHANGED <<sessions, host_of, waiting>>,
         \A c \in Conns : c # h => task'[c] = task[c]
  PROVE  TaskInv'
<1>1. \A v \in Viewers : task'[v] = task[v]
  BY Constants
<1>2. \A x \in HostConns : task'[x] \in HostTasks
  BY Constants DEF IInv, TaskInv
<1>3. \A c \in Conns : waiting[c] # None => task'[c] = task[c]
  OBVIOUS
<1> QED BY <1>1, <1>2, <1>3, Constants, ServerTypes DEF IInv, TaskInv

LEMMA StepRefused ==
  ASSUME IInv, NEW h \in HostConns, RegisterRefused(h), UNCHANGED clientVars
  PROVE  IInv'
<1>1. h \in Conns /\ h \notin Viewers
  BY Constants
<1>2. /\ UNCHANGED <<store, hosts, sessions, host_of, allocated, chan, waiting, timer, open>>
      /\ Incoming(h, "register") /\ Consume(h) /\ SendSocket(h, [t |-> "error"])
      /\ task[h] = "first" /\ task' = [task EXCEPT ![h] = "closed"]
  BY DEF RegisterRefused, Finish
<1>3. UNCHANGED mysid
  BY DEF clientVars
<1>4. TaskInv'
  BY <1>1, <1>2 DEF IInv, TypeOK, TaskInv, HostTasks
<1>5. RegistryInv'
  BY <1>1, <1>2 DEF IInv, TypeOK, RegistryInv
<1>6. LeadInv'
  <2> DEFINE m == [t |-> "error"]
  <2>1. m \in Inbox(h) /\ m.t # "peer_candidate"
    BY ErrorFits
  <2>2. \A x \in Conns : task'[x] = IF x = h THEN "closed" ELSE task[x]
    BY <1>2, ServerTypes
  <2>3. /\ \A x \in HostConns : task[x] = "closed" => task'[x] = "closed"
        /\ \A v \in Viewers : task'[v] \in {"notify_viewer", "viewer_loop"} => task'[v] = task[v]
    BY <1>1, <2>2, Constants
  <2> QED BY <1>1, <1>2, <1>3, <2>1, <2>3, LeadTold
<1>7. task' \in [Conns -> HostTasks \union ViewerTasks]
  BY <1>2, ServerTypes DEF HostTasks
<1> QED BY <1>1, <1>2, <1>4, <1>5, <1>6, <1>7, ErrorFits, SocketType, ConsumeType, ServerTypes, ServerKeeps

\* The id a host is verified for is stored with its key.
LEMMA VerifiedKey ==
  ASSUME IInv, NEW h \in HostConns, NEW i \in HostIds, Verified(h, i),
         store' = [store EXCEPT ![i] = IF @ = None THEN KeyOf[h] ELSE @]
  PROVE  /\ store' \in [HostIds -> Keys \union {None}] /\ store'[i] = KeyOf[h]
         /\ \A j \in HostIds : store[j] # None => store'[j] = store[j]
BY Constants, ServerTypes DEF Verified

LEMMA StepVerified ==
  ASSUME IInv, NEW h \in HostConns, RegisterVerified(h), UNCHANGED clientVars
  PROVE  IInv'
<1>1. PICK i \in HostIds :
       /\ Verified(h, i)
       /\ store' = [store EXCEPT ![i] = IF @ = None THEN KeyOf[h] ELSE @]
       /\ IF hosts[i] # None
          THEN /\ SendSocket(h, [t |-> "error"]) /\ task' = [task EXCEPT ![h] = "closed"]
               /\ UNCHANGED allocated
          ELSE /\ task' = [task EXCEPT ![h] = "checked"]
               /\ allocated' = [allocated EXCEPT ![h] = i]
               /\ UNCHANGED s2c
  BY DEF RegisterVerified, Finish
<1>2. /\ UNCHANGED <<hosts, sessions, host_of, chan, waiting, timer, open>>
      /\ Incoming(h, "register") /\ Consume(h) /\ task[h] = "first"
  BY DEF RegisterVerified
<1>3. UNCHANGED mysid /\ h \in Conns /\ h \notin Viewers
  BY Constants DEF clientVars
<1>4. /\ store' \in [HostIds -> Keys \union {None}] /\ store'[i] = KeyOf[h]
      /\ \A j \in HostIds : store[j] # None => store'[j] = store[j]
  BY <1>1, VerifiedKey
<1>5. \A c \in Conns : c # h => task'[c] = task[c]
  BY <1>1, ServerTypes
<1>6. task'[h] \in {"closed", "checked"} /\ task' \in [Conns -> HostTasks \union ViewerTasks]
  BY <1>1, <1>3, ServerTypes DEF HostTasks
<1>7. TaskInv'
  <2>1. waiting[h] = None /\ task'[h] \in HostTasks
    BY <1>2, <1>3, <1>6 DEF IInv, TaskInv, HostTasks
  <2> QED BY <1>2, <1>5, <2>1, HostTaskInv
<1>8. /\ allocated' \in [HostConns -> HostIds \union {NoId}]
      /\ \A x \in HostConns : x # h => allocated'[x] = allocated[x]
      /\ task'[h] = "checked" => allocated'[h] = i
  BY <1>1, <1>3, ServerTypes
<1>9. RegistryInv'
  <2>1. ASSUME NEW x \in HostConns, task'[x] \in {"checked", "inserted", "host_loop"}
        PROVE  allocated'[x] \in HostIds /\ store'[allocated'[x]] = KeyOf[x]
    <3>1. CASE x = h
      BY <1>4, <1>6, <1>8, <2>1, <3>1
    <3>2. CASE x # h
      <4>1. allocated[x] \in HostIds /\ store[allocated[x]] = KeyOf[x] /\ x \in Conns
        BY <1>5, <2>1, <3>2, Constants DEF IInv, RegistryInv
      <4> QED BY <1>4, <1>8, <3>2, <4>1, Constants
    <3> QED BY <3>1, <3>2
  <2>2. ASSUME NEW j \in HostIds, hosts[j] # None
        PROVE  task'[hosts[j]] \in {"inserted", "host_loop"} /\ allocated'[hosts[j]] = j
    <3>1. /\ task[hosts[j]] \in {"inserted", "host_loop"} /\ allocated[hosts[j]] = j
          /\ hosts[j] \in HostConns /\ hosts[j] \in Conns
      BY <2>2, Constants, ServerTypes DEF IInv, RegistryInv
    <3>2. hosts[j] # h
      BY <1>2, <3>1
    <3> QED BY <1>5, <1>8, <3>1, <3>2
  <2>3. ASSUME NEW v \in Viewers, host_of[v] # None
        PROVE  store'[Wants[v]] = KeyOf[host_of[v]]
    <3>1. store[Wants[v]] = KeyOf[host_of[v]] /\ host_of[v] \in HostConns /\ Wants[v] \in HostIds
      BY <2>3, Constants, ServerTypes DEF IInv, RegistryInv
    <3> QED BY <1>4, <3>1, Constants
  <2> QED BY <1>2, <2>1, <2>2, <2>3 DEF RegistryInv
<1>10. /\ \A x \in HostConns : task[x] = "closed" => task'[x] = "closed"
       /\ \A v \in Viewers : task'[v] = task[v]
  BY <1>2, <1>3, <1>5, Constants
<1>11. LeadInv' /\ s2c' \in [Conns -> Seq(Messages)]
       /\ \A c \in Conns : s2c'[c] = s2c[c] \/ \E m \in Inbox(c) : s2c'[c] = Append(s2c[c], m)
  <2>1. CASE hosts[i] # None
    <3> DEFINE m == [t |-> "error"]
    <3>1. m \in Inbox(h) /\ m.t # "peer_candidate" /\ SendSocket(h, m)
      BY <1>1, <2>1, ErrorFits
    <3>2. LeadInv'
      BY <1>2, <1>3, <1>10, <3>1, LeadTold
    <3> QED BY <1>3, <3>1, <3>2, SocketType
  <2>2. CASE hosts[i] = None
    <3>1. UNCHANGED s2c
      BY <1>1, <2>2
    <3>2. LeadInv'
      BY <1>2, <1>3, <1>10, <3>1, LeadKept
    <3> QED BY <3>1, <3>2, ServerTypes
  <2> QED BY <2>1, <2>2
<1> QED BY <1>2, <1>3, <1>4, <1>6, <1>7, <1>8, <1>9, <1>11, ConsumeType, ServerTypes, ServerKeeps

LEMMA StepInserted ==
  ASSUME IInv, NEW h \in HostConns, RegisterInserted(h), UNCHANGED clientVars
  PROVE  IInv'
<1>1. /\ UNCHANGED <<store, sessions, host_of, allocated, chan, waiting, timer, c2s, s2c, open>>
      /\ task[h] = "checked" /\ task' = [task EXCEPT ![h] = "inserted"]
      /\ hosts' = [hosts EXCEPT ![allocated[h]] = h]
  BY DEF RegisterInserted
<1>2. UNCHANGED mysid /\ h \in Conns /\ h \notin Viewers /\ h # None
  BY Constants DEF clientVars
<1>3. \A c \in Conns : task'[c] = IF c = h THEN "inserted" ELSE task[c]
  BY <1>1, ServerTypes
<1>4. TaskInv'
  BY <1>1, <1>2, <1>3, Constants DEF IInv, TypeOK, TaskInv, HostTasks
<1>5. allocated[h] \in HostIds /\ store[allocated[h]] = KeyOf[h]
  BY <1>1 DEF IInv, RegistryInv
<1>6. /\ hosts' \in [HostIds -> HostConns \union {None}] /\ hosts'[allocated[h]] = h
      /\ \A i \in HostIds : i # allocated[h] => hosts'[i] = hosts[i]
  BY <1>1, <1>5, ServerTypes
<1>7. RegistryInv'
  <2>1. \A x \in HostConns : task'[x] \in {"checked", "inserted", "host_loop"} =>
          allocated[x] \in HostIds /\ store[allocated[x]] = KeyOf[x]
    BY <1>1, <1>3, <1>5, Constants DEF IInv, RegistryInv
  <2>2. ASSUME NEW i \in HostIds, hosts'[i] # None
        PROVE  task'[hosts'[i]] \in {"inserted", "host_loop"} /\ allocated[hosts'[i]] = i
    <3>1. CASE i = allocated[h]
      BY <1>2, <1>3, <1>6, <3>1
    <3>2. CASE i # allocated[h]
      <4>1. hosts'[i] = hosts[i] /\ hosts[i] \in HostConns
        BY <1>6, <2>2, <3>2, ServerTypes
      <4>2. task[hosts[i]] \in {"inserted", "host_loop"} /\ allocated[hosts[i]] = i
        BY <2>2, <4>1 DEF IInv, RegistryInv
      <4> QED BY <1>1, <1>3, <4>1, <4>2, Constants
    <3> QED BY <3>1, <3>2
  <2>3. \A v \in Viewers : host_of[v] # None => store[Wants[v]] = KeyOf[host_of[v]]
    BY DEF IInv, RegistryInv
  <2> QED BY <1>1, <2>1, <2>2, <2>3 DEF RegistryInv
<1>8. LeadInv'
  BY <1>1, <1>2, <1>3, Constants, LeadKept
<1>9. task' \in [Conns -> HostTasks \union ViewerTasks]
  BY <1>1, ServerTypes DEF HostTasks
<1> QED BY <1>1, <1>4, <1>6, <1>7, <1>8, <1>9, ServerTypes, ServerKeeps

\* A host leaves the registry with its task, whoever is under its id by then.
LEMMA Unregistered ==
  ASSUME IInv, NEW h \in HostConns, task[h] \in {"inserted", "host_loop"},
         h \notin open, waiting[h] = None, Unregister(h),
         chan' = [chan EXCEPT ![h] = << >>], task' = [task EXCEPT ![h] = "closed"],
         UNCHANGED <<store, sessions, host_of, allocated, waiting, timer, s2c, c2s, open, clientVars>>
  PROVE  IInv'
<1>1. UNCHANGED mysid /\ h \in Conns /\ h \notin Viewers /\ h # None
  BY Constants DEF clientVars
<1>2. \A c \in Conns : /\ task'[c] = IF c = h THEN "closed" ELSE task[c]
                       /\ chan'[c] = IF c = h THEN << >> ELSE chan[c]
  BY ServerTypes
<1>3. TaskInv'
  BY <1>1, <1>2, Constants DEF IInv, TypeOK, TaskInv, HostTasks
<1>4. allocated[h] \in HostIds
  BY DEF IInv, RegistryInv
<1>5. /\ hosts' \in [HostIds -> HostConns \union {None}] /\ hosts'[allocated[h]] = None
      /\ \A i \in HostIds : i # allocated[h] => hosts'[i] = hosts[i]
  BY <1>4, ServerTypes DEF Unregister
<1>6. RegistryInv'
  <2>1. \A x \in HostConns : task'[x] \in {"checked", "inserted", "host_loop"} =>
          allocated[x] \in HostIds /\ store[allocated[x]] = KeyOf[x]
    BY <1>2, Constants DEF IInv, RegistryInv
  <2>2. ASSUME NEW i \in HostIds, hosts'[i] # None
        PROVE  task'[hosts'[i]] \in {"inserted", "host_loop"} /\ allocated[hosts'[i]] = i
    <3>1. i # allocated[h] /\ hosts'[i] = hosts[i] /\ hosts[i] \in HostConns
      BY <1>5, <2>2, ServerTypes
    <3>2. task[hosts[i]] \in {"inserted", "host_loop"} /\ allocated[hosts[i]] = i
      BY <2>2, <3>1 DEF IInv, RegistryInv
    <3>3. hosts[i] # h /\ hosts[i] \in Conns
      BY <3>1, <3>2, Constants
    <3> QED BY <1>2, <3>1, <3>2, <3>3
  <2>3. \A v \in Viewers : host_of[v] # None => store[Wants[v]] = KeyOf[host_of[v]]
    BY DEF IInv, RegistryInv
  <2> QED BY <2>1, <2>2, <2>3 DEF RegistryInv
<1>7. LeadInv'
  <2> SUFFICES ASSUME NEW x \in HostConns, x \in open PROVE LeadAt(x)'
    BY DEF LeadInv
  <2>1. LeadAt(x) /\ chan'[x] = chan[x] /\ x \in Conns
    BY <1>2, Constants DEF IInv, LeadInv
  <2>2. task[x] = "closed" => task'[x] = "closed"
    BY <1>2, <2>1
  <2>3. \A v \in Viewers : task'[v] = task[v]
    BY <1>1, <1>2, Constants
  <2> QED BY <1>1, <2>1, <2>2, <2>3, LeadSame
<1>8. task' \in [Conns -> HostTasks \union ViewerTasks]
  BY ServerTypes DEF HostTasks
<1>9. chan' \in [Conns -> Seq(Messages)] /\ \A c \in Conns : Len(chan'[c]) <= SEND_CHAN_CAP
  BY <1>2, ServerTypes, Constants
<1> QED BY <1>2, <1>3, <1>5, <1>6, <1>7, <1>8, <1>9, ServerTypes, ServerKeeps

LEMMA StepReplied ==
  ASSUME IInv, NEW h \in HostConns, RegisterReplied(h), UNCHANGED clientVars
  PROVE  IInv'
<1>1. /\ UNCHANGED <<store, sessions, host_of, allocated, waiting, timer, c2s, open>>
      /\ task[h] = "inserted"
  BY DEF RegisterReplied
<1>2. UNCHANGED mysid /\ h \in Conns /\ h \notin Viewers /\ h # None
  BY Constants DEF clientVars
<1>3. CASE /\ SendSocket(h, [t |-> "registered", id |-> allocated[h]])
           /\ task' = [task EXCEPT ![h] = "host_loop"]
           /\ UNCHANGED <<hosts, chan>>
  <2> DEFINE m == [t |-> "registered", id |-> allocated[h]]
  <2>1. m \in Inbox(h) /\ m.t # "peer_candidate"
    BY <1>1 DEF IInv, RegistryInv, Inbox, Messages
  <2>2. \A c \in Conns : task'[c] = IF c = h THEN "host_loop" ELSE task[c]
    BY <1>3, ServerTypes
  <2>3. TaskInv'
    <3>1. waiting[h] = None /\ task'[h] \in HostTasks
      BY <1>1, <1>2, <2>2 DEF IInv, TaskInv, HostTasks
    <3> QED BY <1>1, <2>2, <3>1, HostTaskInv
  <2>4. RegistryInv'
    <3>1. \A x \in HostConns : task'[x] \in {"checked", "inserted", "host_loop"} =>
            allocated[x] \in HostIds /\ store[allocated[x]] = KeyOf[x]
      BY <1>1, <2>2, Constants DEF IInv, RegistryInv
    <3>2. \A i \in HostIds : hosts[i] # None =>
            task'[hosts[i]] \in {"inserted", "host_loop"} /\ allocated[hosts[i]] = i
      <4> SUFFICES ASSUME NEW i \in HostIds, hosts[i] # None
                   PROVE  task'[hosts[i]] \in {"inserted", "host_loop"} /\ allocated[hosts[i]] = i
        OBVIOUS
      <4>1. hosts[i] \in Conns /\ task[hosts[i]] \in {"inserted", "host_loop"} /\ allocated[hosts[i]] = i
        BY ServerTypes, Constants DEF IInv, RegistryInv
      <4> QED BY <2>2, <4>1
    <3>3. \A v \in Viewers : host_of[v] # None => store[Wants[v]] = KeyOf[host_of[v]]
      BY DEF IInv, RegistryInv
    <3> QED BY <1>1, <1>3, <3>1, <3>2, <3>3 DEF RegistryInv
  <2>5. /\ \A x \in HostConns : task[x] = "closed" => task'[x] = "closed"
        /\ \A v \in Viewers : task'[v] = task[v]
    BY <1>1, <1>2, <2>2, Constants
  <2>6. LeadInv'
    BY <1>1, <1>2, <1>3, <2>1, <2>5, LeadTold
  <2>7. task' \in [Conns -> HostTasks \union ViewerTasks]
    BY <1>3, ServerTypes DEF HostTasks
  <2>8. s2c' \in [Conns -> Seq(Messages)]
        /\ \A c \in Conns : s2c'[c] = s2c[c] \/ \E w \in Inbox(c) : s2c'[c] = Append(s2c[c], w)
    BY <1>2, <1>3, <2>1, SocketType
  <2> QED BY <1>1, <1>3, <2>3, <2>4, <2>6, <2>7, <2>8, ServerTypes, ServerKeeps
<1>4. CASE /\ h \notin open /\ Unregister(h) /\ chan' = [chan EXCEPT ![h] = << >>]
           /\ task' = [task EXCEPT ![h] = "closed"] /\ UNCHANGED s2c
  <2>1. waiting[h] = None
    BY <1>1, <1>2 DEF IInv, TaskInv
  <2> QED BY <1>1, <1>4, <2>1, Unregistered
<1> QED BY <1>3, <1>4 DEF RegisterReplied, Finish

LEMMA StepHostExit ==
  ASSUME IInv, NEW h \in HostConns, HostExit(h), UNCHANGED clientVars
  PROVE  IInv'
BY Unregistered DEF HostExit, Looping, SocketClosed, Finish

\* A viewer's task moves on while it waits for nothing.
LEMMA ViewerTaskInv ==
  ASSUME IInv, NEW v \in Viewers, waiting[v] = None, UNCHANGED waiting,
         \A c \in Conns : c # v => task'[c] = task[c],
         task'[v] \in ViewerTasks,
         \A x \in Viewers : x # v => host_of'[x] = host_of[x],
         host_of[v] # None => host_of'[v] = host_of[v],
         task'[v] \in {"notify_host", "notify_viewer", "viewer_loop"} => host_of'[v] # None,
         task'[v] = "first" => host_of'[v] = None,
         sessions' \subseteq sessions \union {v},
         v \in sessions' => task'[v] \in {"notify_host", "notify_viewer", "viewer_loop", "leaving"}
  PROVE  TaskInv'
<1>1. \A h \in HostConns : task'[h] = task[h]
  BY Constants
<1>2. \A x \in Viewers : x # v => task'[x] = task[x]
  BY Constants
<1>3. \A h \in HostConns : task'[h] \in HostTasks
  BY <1>1 DEF IInv, TaskInv
<1>4. \A x \in Viewers : /\ task'[x] \in ViewerTasks
                         /\ task'[x] \in {"notify_host", "notify_viewer", "viewer_loop"}
                              => host_of'[x] # None
                         /\ task'[x] = "first" => host_of'[x] = None
  BY <1>2 DEF IInv, TaskInv
<1>5. \A c \in Conns : waiting[c] # None =>
       /\ task'[c] \in {"host_loop", "viewer_loop"}
       /\ waiting[c].op = "send" =>
            IF c \in Viewers THEN waiting[c].sid = c ELSE host_of'[waiting[c].sid] = c
  <2> SUFFICES ASSUME NEW c \in Conns, waiting[c] # None
               PROVE  /\ task'[c] \in {"host_loop", "viewer_loop"}
                      /\ waiting[c].op = "send" =>
                           IF c \in Viewers THEN waiting[c].sid = c ELSE host_of'[waiting[c].sid] = c
    OBVIOUS
  <2>1. /\ task[c] \in {"host_loop", "viewer_loop"} /\ c # v
        /\ waiting[c].op = "send" =>
             IF c \in Viewers THEN waiting[c].sid = c ELSE host_of[waiting[c].sid] = c
    BY DEF IInv, TaskInv
  <2>2. waiting[c].sid \in Viewers /\ c # None
    BY ServerTypes, Constants
  <2> QED BY <2>1, <2>2
<1>6. \A x \in sessions' : task'[x] \in {"notify_host", "notify_viewer", "viewer_loop", "leaving"}
  <2>1. \A x \in sessions : task[x] \in {"notify_host", "notify_viewer", "viewer_loop", "leaving"}
                            /\ x \in Viewers
    BY ServerTypes DEF IInv, TaskInv
  <2> QED BY <1>2, <2>1
<1> QED BY <1>3, <1>4, <1>5, <1>6 DEF TaskInv

\* The registry is left alone, and a viewer's host is one it found there.
LEMMA RegistryKept ==
  ASSUME IInv, UNCHANGED <<store, hosts, allocated>>,
         \A h \in HostConns : task'[h] \in {task[h], "closed"}
                              /\ (task'[h] # task[h] => task[h] = "first"),
         \A v \in Viewers : \/ host_of'[v] = host_of[v]
                            \/ host_of'[v] = hosts[Wants[v]] /\ hosts[Wants[v]] # None
  PROVE  RegistryInv'
<1>1. \A h \in HostConns : task'[h] \in {"checked", "inserted", "host_loop"} =>
        allocated[h] \in HostIds /\ store[allocated[h]] = KeyOf[h]
  BY DEF IInv, RegistryInv
<1>2. \A i \in HostIds : hosts[i] # None =>
        /\ task[hosts[i]] \in {"inserted", "host_loop"} /\ allocated[hosts[i]] = i
        /\ hosts[i] \in HostConns /\ store[i] = KeyOf[hosts[i]]
  BY ServerTypes DEF IInv, RegistryInv
<1>3. \A i \in HostIds : hosts[i] # None =>
        task'[hosts[i]] \in {"inserted", "host_loop"} /\ allocated[hosts[i]] = i
  BY <1>2
<1>4. \A v \in Viewers : host_of'[v] # None => store[Wants[v]] = KeyOf[host_of'[v]]
  BY <1>2, Constants DEF IInv, RegistryInv
<1> QED BY <1>1, <1>3, <1>4 DEF RegistryInv

LEMMA StepNotFound ==
  ASSUME IInv, NEW v \in Viewers, ConnectNotFound(v), UNCHANGED clientVars
  PROVE  IInv'
<1>1. /\ UNCHANGED <<store, hosts, sessions, host_of, allocated, chan, waiting, timer, open>>
      /\ Incoming(v, "connect") /\ Consume(v) /\ SendSocket(v, [t |-> "error"])
      /\ task[v] = "first" /\ task' = [task EXCEPT ![v] = "closed"]
  BY DEF ConnectNotFound, Finish
<1>2. UNCHANGED mysid /\ v \in Conns /\ v \notin HostConns
  BY Constants DEF clientVars
<1>3. \A c \in Conns : task'[c] = IF c = v THEN "closed" ELSE task[c]
  BY <1>1, ServerTypes
<1>4. waiting[v] = None /\ v \notin sessions /\ task'[v] \in ViewerTasks
  BY <1>1, <1>2, <1>3 DEF IInv, TaskInv, ViewerTasks
<1>5. TaskInv'
  BY <1>1, <1>2, <1>3, <1>4, ViewerTaskInv
<1>6. RegistryInv'
  BY <1>1, <1>2, <1>3, Constants, RegistryKept
<1>7. LeadInv'
  <2> DEFINE m == [t |-> "error"]
  <2>1. m \in Inbox(v) /\ m.t # "peer_candidate"
    BY ErrorFits
  <2>2. /\ \A x \in HostConns : task[x] = "closed" => task'[x] = "closed"
        /\ \A x \in Viewers : task'[x] \in {"notify_viewer", "viewer_loop"} => task'[x] = task[x]
    BY <1>2, <1>3, Constants
  <2> QED BY <1>1, <1>2, <2>1, <2>2, LeadTold
<1>8. task' \in [Conns -> HostTasks \union ViewerTasks]
  BY <1>1, ServerTypes DEF ViewerTasks
<1> QED BY <1>1, <1>2, <1>5, <1>6, <1>7, <1>8, ErrorFits, SocketType, ConsumeType, ServerTypes, ServerKeeps

LEMMA StepSession ==
  ASSUME IInv, NEW v \in Viewers, ConnectSession(v), UNCHANGED clientVars
  PROVE  IInv'
<1>1. /\ UNCHANGED <<store, hosts, allocated, chan, waiting, timer, s2c, open>>
      /\ Incoming(v, "connect") /\ Consume(v) /\ hosts[Wants[v]] # None
      /\ task[v] = "first" /\ task' = [task EXCEPT ![v] = "notify_host"]
      /\ sessions' = sessions \union {v}
      /\ host_of' = [host_of EXCEPT ![v] = hosts[Wants[v]]]
  BY DEF ConnectSession
<1>2. UNCHANGED mysid /\ v \in Conns /\ v \notin HostConns /\ Wants[v] \in HostIds
  BY Constants DEF clientVars
<1>3. \A c \in Conns : task'[c] = IF c = v THEN "notify_host" ELSE task[c]
  BY <1>1, ServerTypes
<1>4. /\ \A x \in Viewers : host_of'[x] = IF x = v THEN hosts[Wants[v]] ELSE host_of[x]
      /\ hosts[Wants[v]] \in HostConns /\ host_of[v] = None
      /\ host_of' \in [Viewers -> HostConns \union {None}]
  BY <1>1, <1>2, ServerTypes DEF IInv, TaskInv
<1>5. waiting[v] = None /\ task'[v] \in ViewerTasks
  BY <1>1, <1>2, <1>3 DEF IInv, TaskInv, ViewerTasks
<1>6. TaskInv'
  BY <1>1, <1>2, <1>3, <1>4, <1>5, Constants, ViewerTaskInv
<1>7. RegistryInv'
  BY <1>1, <1>2, <1>3, <1>4, Constants, RegistryKept
<1>8. LeadInv'
  <2>1. \A x \in HostConns : task[x] = "closed" => task'[x] = "closed"
    BY <1>2, <1>3, Constants
  <2>2. \A h \in HostConns, x \in Viewers :
          task'[x] \in {"notify_viewer", "viewer_loop"} /\ host_of'[x] = h =>
            task[x] \in {"notify_viewer", "viewer_loop"} /\ host_of[x] = h
    BY <1>3, <1>4, Constants
  <2> QED BY <1>1, <1>2, <2>1, <2>2, LeadKept
<1>9. task' \in [Conns -> HostTasks \union ViewerTasks]
  BY <1>1, ServerTypes DEF ViewerTasks
<1> QED BY <1>1, <1>2, <1>4, <1>6, <1>7, <1>8, <1>9, ConsumeType, ServerTypes, ServerKeeps

LEMMA StepHostTold ==
  ASSUME IInv, NEW v \in Viewers, ConnectHostTold(v), UNCHANGED clientVars
  PROVE  IInv'
<1>1. /\ UNCHANGED <<store, hosts, sessions, host_of, allocated, waiting, timer, c2s, s2c, open>>
      /\ SendChan(host_of[v], [t |-> "session_start", sid |-> v])
      /\ task[v] = "notify_host" /\ task' = [task EXCEPT ![v] = "notify_viewer"]
  BY DEF ConnectHostTold, NotifyHost
<1>2. UNCHANGED mysid /\ v \in Conns /\ v \notin HostConns
  BY Constants DEF clientVars
<1>3. \A c \in Conns : task'[c] = IF c = v THEN "notify_viewer" ELSE task[c]
  BY <1>1, ServerTypes
<1> DEFINE h == host_of[v]
           m == [t |-> "session_start", sid |-> v]
<1>4. h \in HostConns /\ h \in Conns /\ h \notin Viewers /\ h # None
  BY <1>1, ServerTypes, Constants DEF IInv, TaskInv
<1>5. m \in Inbox(h) /\ IsStart(m, v) /\ m.t # "peer_candidate" /\ SendChan(h, m)
  BY <1>1, <1>4 DEF Inbox, Messages, IsStart
<1>6. waiting[v] = None /\ task'[v] \in ViewerTasks
  BY <1>1, <1>2, <1>3 DEF IInv, TaskInv, ViewerTasks
<1>7. TaskInv'
  BY <1>1, <1>2, <1>3, <1>4, <1>6, ViewerTaskInv
<1>8. RegistryInv'
  BY <1>1, <1>2, <1>3, Constants, RegistryKept
<1>9. LeadInv'
  <2>1. \A x \in HostConns : task[x] = "closed" => task'[x] = "closed"
    BY <1>2, <1>3, Constants
  <2>2. \A y \in HostConns, x \in Viewers :
          task'[x] \in {"notify_viewer", "viewer_loop"} /\ host_of'[x] = y =>
            \/ task[x] \in {"notify_viewer", "viewer_loop"} /\ host_of[x] = y
            \/ y = h /\ IsStart(m, x)
    BY <1>1, <1>2, <1>3, <1>5, Constants
  <2> HIDE DEF h, m
  <2> QED BY <1>1, <1>2, <1>4, <1>5, <2>1, <2>2, LeadSend
<1>10. task' \in [Conns -> HostTasks \union ViewerTasks]
  BY <1>1, ServerTypes DEF ViewerTasks
<1>11. /\ chan' \in [Conns -> Seq(Messages)]
       /\ \A x \in Conns : Len(chan'[x]) <= SEND_CHAN_CAP
       /\ \A x \in Conns : chan'[x] = chan[x] \/ \E w \in Inbox(x) : chan'[x] = Append(chan[x], w)
  <2> HIDE DEF h, m
  <2> QED BY <1>4, <1>5, SendChanType
<1> QED BY <1>1, <1>7, <1>8, <1>9, <1>10, <1>11, ServerTypes, ServerKeeps

LEMMA StepViewerTold ==
  ASSUME IInv, NEW v \in Viewers, ConnectViewerTold(v), UNCHANGED clientVars
  PROVE  IInv'
<1> DEFINE m == [t |-> "session_start", sid |-> v, key |-> KeyOf[host_of[v]]]
<1>1. /\ UNCHANGED <<store, hosts, sessions, host_of, allocated, waiting, c2s, s2c, open>>
      /\ SendChan(v, m) /\ timer' = [timer EXCEPT ![v] = "armed"]
      /\ task[v] = "notify_viewer" /\ task' = [task EXCEPT ![v] = "viewer_loop"]
  BY DEF ConnectViewerTold
<1>2. UNCHANGED mysid /\ v \in Conns /\ v \notin HostConns
  BY Constants DEF clientVars
<1>3. \A c \in Conns : task'[c] = IF c = v THEN "viewer_loop" ELSE task[c]
  BY <1>1, ServerTypes
<1>4. host_of[v] \in HostConns
  BY <1>1, ServerTypes DEF IInv, TaskInv
<1>5. m \in Inbox(v)
  <2>1. KeyOf[host_of[v]] \in Keys /\ store[Wants[v]] = KeyOf[host_of[v]]
    BY <1>4, Constants DEF IInv, RegistryInv
  <2> QED BY <1>2, <2>1 DEF Inbox, Messages
<1>6. waiting[v] = None /\ task'[v] \in ViewerTasks
  BY <1>1, <1>2, <1>3 DEF IInv, TaskInv, ViewerTasks
<1>7. TaskInv'
  BY <1>1, <1>2, <1>3, <1>4, <1>6, Constants, ViewerTaskInv
<1>8. RegistryInv'
  BY <1>1, <1>2, <1>3, Constants, RegistryKept
<1>9. LeadInv'
  <2>1. \A x \in HostConns : task[x] = "closed" => task'[x] = "closed"
    BY <1>2, <1>3, Constants
  <2>2. \A y \in HostConns, x \in Viewers :
          task'[x] \in {"notify_viewer", "viewer_loop"} /\ host_of'[x] = y =>
            task[x] \in {"notify_viewer", "viewer_loop"} /\ host_of[x] = y
    BY <1>1, <1>2, <1>3, Constants
  <2> HIDE DEF m
  <2> QED BY <1>1, <1>2, <1>5, <2>1, <2>2, LeadSend
<1>10. task' \in [Conns -> HostTasks \union ViewerTasks]
  BY <1>1, ServerTypes DEF ViewerTasks
<1>11. /\ timer' \in [Viewers -> {"off", "armed", "tell_host", "tell_viewer", "done"}]
       /\ \A x \in Viewers : timer'[x] # timer[x] => host_of[x] # None
  BY <1>1, <1>4, ServerTypes, Constants
<1>12. /\ chan' \in [Conns -> Seq(Messages)]
       /\ \A x \in Conns : Len(chan'[x]) <= SEND_CHAN_CAP
       /\ \A x \in Conns : chan'[x] = chan[x] \/ \E w \in Inbox(x) : chan'[x] = Append(chan[x], w)
  <2> HIDE DEF m
  <2> QED BY <1>1, <1>2, <1>5, SendChanType
<1> QED BY <1>1, <1>7, <1>8, <1>9, <1>10, <1>11, <1>12, ServerTypes, ServerKeeps

LEMMA StepBreaks ==
  ASSUME IInv, NEW v \in Viewers, ViewerBreaks(v), UNCHANGED clientVars
  PROVE  IInv'
<1>1. /\ UNCHANGED <<store, hosts, sessions, host_of, allocated, chan, waiting, timer, c2s, s2c, open>>
      /\ waiting[v] = None
      /\ task[v] = "viewer_loop" /\ task' = [task EXCEPT ![v] = "leaving"]
  BY DEF ViewerBreaks, Looping
<1>2. UNCHANGED mysid /\ v \in Conns /\ v \notin HostConns
  BY Constants DEF clientVars
<1>3. \A c \in Conns : task'[c] = IF c = v THEN "leaving" ELSE task[c]
  BY <1>1, ServerTypes
<1>4. task'[v] \in ViewerTasks
  BY <1>2, <1>3 DEF ViewerTasks
<1>5. TaskInv'
  BY <1>1, <1>2, <1>3, <1>4, ViewerTaskInv
<1>6. RegistryInv'
  BY <1>1, <1>2, <1>3, Constants, RegistryKept
<1>7. LeadInv'
  <2>1. \A x \in HostConns : task[x] = "closed" => task'[x] = "closed"
    BY <1>2, <1>3, Constants
  <2>2. \A h \in HostConns, x \in Viewers :
          task'[x] \in {"notify_viewer", "viewer_loop"} /\ host_of'[x] = h =>
            task[x] \in {"notify_viewer", "viewer_loop"} /\ host_of[x] = h
    BY <1>1, <1>3, Constants
  <2> QED BY <1>1, <1>2, <2>1, <2>2, LeadKept
<1>8. task' \in [Conns -> HostTasks \union ViewerTasks]
  BY <1>1, ServerTypes DEF ViewerTasks
<1> QED BY <1>1, <1>5, <1>6, <1>7, <1>8, ServerTypes, ServerKeeps

LEMMA StepViewerExit ==
  ASSUME IInv, NEW v \in Viewers, ViewerExit(v), UNCHANGED clientVars
  PROVE  IInv'
<1>1. /\ UNCHANGED <<store, hosts, host_of, allocated, waiting, timer, c2s, s2c, open>>
      /\ sessions' = sessions \ {v} /\ chan' = [chan EXCEPT ![v] = << >>]
      /\ task[v] = "leaving" /\ task' = [task EXCEPT ![v] = "closed"]
  BY DEF ViewerExit, RemoveOwnSession, Finish
<1>2. UNCHANGED mysid /\ v \in Conns /\ v \notin HostConns
  BY Constants DEF clientVars
<1>3. \A c \in Conns : /\ task'[c] = IF c = v THEN "closed" ELSE task[c]
                       /\ chan'[c] = IF c = v THEN << >> ELSE chan[c]
  BY <1>1, ServerTypes
<1>4. task'[v] \in ViewerTasks /\ waiting[v] = None
  BY <1>1, <1>2, <1>3 DEF IInv, TaskInv, ViewerTasks
<1>5. TaskInv'
  BY <1>1, <1>2, <1>3, <1>4, ViewerTaskInv
<1>6. RegistryInv'
  BY <1>1, <1>2, <1>3, Constants, RegistryKept
<1>7. LeadInv'
  <2> SUFFICES ASSUME NEW h \in HostConns, h \in open PROVE LeadAt(h)'
    BY <1>1 DEF LeadInv
  <2>1. LeadAt(h) /\ chan'[h] = chan[h]
    BY <1>2, <1>3, Constants DEF IInv, LeadInv
  <2>2. task[h] = "closed" => task'[h] = "closed"
    BY <1>2, <1>3, Constants
  <2>3. \A x \in Viewers : task'[x] \in {"notify_viewer", "viewer_loop"} => task[x] = task'[x]
    BY <1>3, Constants
  <2> QED BY <1>1, <1>2, <2>1, <2>2, <2>3, LeadSame
<1>8. task' \in [Conns -> HostTasks \union ViewerTasks]
  BY <1>1, ServerTypes DEF ViewerTasks
<1>9. /\ chan' \in [Conns -> Seq(Messages)] /\ \A c \in Conns : Len(chan'[c]) <= SEND_CHAN_CAP
      /\ sessions' \subseteq Viewers
  BY <1>1, <1>3, ServerTypes, Constants
<1> QED BY <1>1, <1>3, <1>5, <1>6, <1>7, <1>8, <1>9, ServerTypes, ServerKeeps

LEMMA StepFirstClosed ==
  ASSUME IInv, NEW c \in Conns, FirstClosed(c), UNCHANGED clientVars
  PROVE  IInv'
<1>1. /\ UNCHANGED <<store, hosts, sessions, host_of, allocated, chan, waiting, timer, c2s, s2c, open>>
      /\ task[c] = "first" /\ task' = [task EXCEPT ![c] = "closed"]
  BY DEF FirstClosed, Finish
<1>2. UNCHANGED mysid
  BY DEF clientVars
<1>3. \A x \in Conns : task'[x] = IF x = c THEN "closed" ELSE task[x]
  BY <1>1, ServerTypes
<1>4. waiting[c] = None
  BY <1>1 DEF IInv, TaskInv
<1>5. TaskInv'
  <2>1. CASE c \in HostConns
    <3>1. task'[c] \in HostTasks
      BY <1>3 DEF HostTasks
    <3> QED BY <1>1, <1>3, <1>4, <2>1, <3>1, HostTaskInv
  <2>2. CASE c \in Viewers
    <3>1. task'[c] \in ViewerTasks /\ c \notin sessions /\ task'[c] = "closed"
      BY <1>1, <1>3 DEF IInv, TaskInv, ViewerTasks
    <3> QED BY <1>1, <1>3, <1>4, <2>2, <3>1, ViewerTaskInv
  <2> QED BY <2>1, <2>2, Constants
<1>6. RegistryInv'
  BY <1>1, <1>3, Constants, RegistryKept
<1>7. LeadInv'
  <2>1. \A x \in HostConns : task[x] = "closed" => task'[x] = "closed"
    BY <1>3, Constants
  <2>2. \A h \in HostConns, x \in Viewers :
          task'[x] \in {"notify_viewer", "viewer_loop"} /\ host_of'[x] = h =>
            task[x] \in {"notify_viewer", "viewer_loop"} /\ host_of[x] = h
    BY <1>1, <1>3, Constants
  <2> QED BY <1>1, <1>2, <2>1, <2>2, LeadKept
<1>8. task' \in [Conns -> HostTasks \union ViewerTasks]
  BY <1>1, ServerTypes DEF ViewerTasks
<1> QED BY <1>1, <1>5, <1>6, <1>7, <1>8, ServerTypes, ServerKeeps

-----------------------------------------------------------------------------
(* The loops of the server.                                                *)

\* A connection in its loop forwards to the other end of its own session.
LEMMA OtherEndFits ==
  ASSUME IInv, NEW c \in Conns, NEW sid \in Viewers,
         task[c] \in {"host_loop", "viewer_loop"},
         IF c \in Viewers THEN sid = c ELSE host_of[sid] = c
  PROVE  /\ OtherEnd(c, sid) \in Conns
         /\ PeerCandidate(c, sid) \in Inbox(OtherEnd(c, sid))
         /\ OtherEnd(c, sid) \in HostConns =>
              /\ c \in Viewers /\ task[c] = "viewer_loop" /\ host_of[c] = OtherEnd(c, sid)
              /\ PeerCandidate(c, sid).from = c
<1>1. CASE c \in Viewers
  <2>1. task[c] = "viewer_loop" /\ host_of[c] # None /\ sid = c
    BY <1>1 DEF IInv, TaskInv, ViewerTasks
  <2>2. host_of[c] \in HostConns
    BY <1>1, <2>1, ServerTypes
  <2> QED BY <1>1, <2>1, <2>2, Constants DEF OtherEnd, PeerCandidate, Inbox, Messages
<1>2. CASE c \notin Viewers
  <2>1. c \in HostConns /\ host_of[sid] = c /\ sid \in Conns /\ sid \notin HostConns
    BY <1>2, Constants
  <2> QED BY <1>2, <2>1, Constants DEF OtherEnd, PeerCandidate, Inbox, Messages
<1> QED BY <1>1, <1>2

\* What a loop or a timer does leaves tasks and tables to the registry alone.
LEMMA LoopKept ==
  ASSUME IInv, UNCHANGED <<store, hosts, host_of, allocated, task>>,
         sessions' \subseteq sessions,
         \A c \in Conns : waiting'[c] \in {None, waiting[c]} \/
            /\ task[c] \in {"host_loop", "viewer_loop"}
            /\ waiting'[c].op = "send" =>
                 IF c \in Viewers THEN waiting'[c].sid = c ELSE host_of[waiting'[c].sid] = c
  PROVE  TaskInv' /\ RegistryInv'
<1>1. TaskInv'
  <2>1. \A c \in Conns : waiting'[c] # None =>
       /\ task[c] \in {"host_loop", "viewer_loop"}
       /\ waiting'[c].op = "send" =>
            IF c \in Viewers THEN waiting'[c].sid = c ELSE host_of[waiting'[c].sid] = c
    BY DEF IInv, TaskInv
  <2> QED BY <2>1 DEF IInv, TaskInv
<1>2. RegistryInv'
  BY DEF IInv, RegistryInv
<1> QED BY <1>1, <1>2

\* A candidate is put into the other end's channel.
LEMMA Forwarded ==
  ASSUME IInv, NEW c \in Conns, NEW sid \in Viewers,
         task[c] \in {"host_loop", "viewer_loop"},
         IF c \in Viewers THEN sid = c ELSE host_of[sid] = c,
         SendChan(OtherEnd(c, sid), PeerCandidate(c, sid)),
         UNCHANGED <<task, host_of, s2c, mysid, open>>
  PROVE  /\ LeadInv'
         /\ chan' \in [Conns -> Seq(Messages)]
         /\ \A x \in Conns : Len(chan'[x]) <= SEND_CHAN_CAP
         /\ \A x \in Conns : chan'[x] = chan[x] \/ \E w \in Inbox(x) : chan'[x] = Append(chan[x], w)
<1> DEFINE o == OtherEnd(c, sid)
           m == PeerCandidate(c, sid)
<1>1. /\ o \in Conns /\ m \in Inbox(o) /\ SendChan(o, m)
      /\ o \in HostConns =>
           /\ c \in Viewers /\ task[c] = "viewer_loop" /\ host_of[c] = o
           /\ m.from = c
  BY OtherEndFits
<1> HIDE DEF o, m
<1>2. o \in HostConns /\ o \in open /\ task[o] # "closed" =>
        Knows(o, m.from) \/ \E i \in 1..Len(chan[o]) : IsStart(chan[o][i], m.from)
  BY <1>1 DEF IInv, LeadInv, LeadAt
<1>3. LeadInv'
  BY <1>1, <1>2, LeadSend
<1> QED BY <1>1, <1>3, SendChanType

LEMMA StepForward ==
  ASSUME IInv, NEW c \in Conns, Forward(c), UNCHANGED clientVars
  PROVE  IInv'
<1>1. /\ UNCHANGED <<store, hosts, sessions, host_of, allocated, task, waiting, timer, s2c, open>>
      /\ Incoming(c, "candidate") /\ Consume(c) /\ task[c] \in {"host_loop", "viewer_loop"}
  BY DEF Forward, Looping
<1>2. UNCHANGED mysid
  BY DEF clientVars
<1> DEFINE sid == Head(c2s[c]).sid
<1>3. sid \in Viewers /\ IF c \in Viewers THEN sid = c ELSE host_of[sid] = c
  BY <1>1, ConsumeType DEF Outbox, Requests
<1>4. TaskInv' /\ RegistryInv'
  BY <1>1, LoopKept
<1>5. /\ LeadInv'
      /\ chan' \in [Conns -> Seq(Messages)]
      /\ \A x \in Conns : Len(chan'[x]) <= SEND_CHAN_CAP
      /\ \A x \in Conns : chan'[x] = chan[x] \/ \E w \in Inbox(x) : chan'[x] = Append(chan[x], w)
  <2>1. CASE sid \in sessions
    <3>1. SendChan(OtherEnd(c, sid), PeerCandidate(c, sid))
      BY <2>1 DEF Forward
    <3> HIDE DEF sid
    <3> QED BY <1>1, <1>2, <1>3, <3>1, Forwarded
  <2>2. CASE sid \notin sessions
    <3>1. UNCHANGED chan
      BY <2>2 DEF Forward
    <3>2. LeadInv'
      BY <1>1, <1>2, <3>1, LeadKept
    <3> QED BY <3>1, <3>2, ServerTypes
  <2> QED BY <2>1, <2>2
<1> QED BY <1>1, <1>4, <1>5, ConsumeType, ServerTypes, ServerKeeps

LEMMA StepForwardWaits ==
  ASSUME IInv, NEW c \in Conns, ForwardWaits(c), UNCHANGED clientVars
  PROVE  IInv'
<1> DEFINE sid == Head(c2s[c]).sid
<1>1. /\ UNCHANGED <<store, hosts, sessions, host_of, allocated, task, chan, timer, s2c, open>>
      /\ Incoming(c, "candidate") /\ Consume(c) /\ task[c] \in {"host_loop", "viewer_loop"}
      /\ waiting' = [waiting EXCEPT ![c] = [op |-> "send", sid |-> sid]]
  BY DEF ForwardWaits, Looping
<1>2. UNCHANGED mysid
  BY DEF clientVars
<1>3. sid \in Viewers /\ IF c \in Viewers THEN sid = c ELSE host_of[sid] = c
  BY <1>1, ConsumeType DEF Outbox, Requests
<1>4. \A x \in Conns : waiting'[x] = IF x = c THEN [op |-> "send", sid |-> sid] ELSE waiting[x]
  BY <1>1, ServerTypes
<1>5. waiting' \in [Conns -> [op : {"send", "remove"}, sid : Viewers] \union {None}]
  BY <1>1, <1>3, ServerTypes
<1>6. TaskInv' /\ RegistryInv'
  <2>1. \A x \in Conns : waiting'[x] \in {None, waiting[x]} \/
            /\ task[x] \in {"host_loop", "viewer_loop"}
            /\ waiting'[x].op = "send" =>
                 IF x \in Viewers THEN waiting'[x].sid = x ELSE host_of[waiting'[x].sid] = x
    BY <1>1, <1>3, <1>4
  <2> QED BY <1>1, <2>1, LoopKept
<1>7. LeadInv'
  BY <1>1, <1>2, LeadKept
<1> QED BY <1>1, <1>5, <1>6, <1>7, ConsumeType, ServerTypes, ServerKeeps

LEMMA StepForwardResumes ==
  ASSUME IInv, NEW c \in Conns, ForwardResumes(c), UNCHANGED clientVars
  PROVE  IInv'
<1> DEFINE sid == waiting[c].sid
<1>1. /\ UNCHANGED <<store, hosts, sessions, host_of, allocated, task, timer, c2s, s2c, open>>
      /\ waiting[c] # None /\ waiting[c].op = "send"
      /\ SendChan(OtherEnd(c, sid), PeerCandidate(c, sid))
      /\ waiting' = [waiting EXCEPT ![c] = None]
  BY DEF ForwardResumes
<1>2. UNCHANGED mysid
  BY DEF clientVars
<1>3. /\ sid \in Viewers /\ task[c] \in {"host_loop", "viewer_loop"}
      /\ IF c \in Viewers THEN sid = c ELSE host_of[sid] = c
  BY <1>1, ServerTypes DEF IInv, TaskInv
<1>4. waiting' \in [Conns -> [op : {"send", "remove"}, sid : Viewers] \union {None}]
      /\ \A x \in Conns : waiting'[x] \in {None, waiting[x]}
  BY <1>1, ServerTypes
<1>5. TaskInv' /\ RegistryInv'
  BY <1>1, <1>4, LoopKept
<1>6. /\ LeadInv'
      /\ chan' \in [Conns -> Seq(Messages)]
      /\ \A x \in Conns : Len(chan'[x]) <= SEND_CHAN_CAP
      /\ \A x \in Conns : chan'[x] = chan[x] \/ \E w \in Inbox(x) : chan'[x] = Append(chan[x], w)
  <2> HIDE DEF sid
  <2> QED BY <1>1, <1>2, <1>3, Forwarded
<1> QED BY <1>1, <1>4, <1>5, <1>6, ServerTypes, ServerKeeps

LEMMA StepDone ==
  ASSUME IInv, NEW c \in Conns, DoneReceived(c), UNCHANGED clientVars
  PROVE  IInv'
<1> DEFINE sid == IF c \in Viewers THEN c ELSE Head(c2s[c]).sid
<1>1. /\ UNCHANGED <<store, hosts, host_of, allocated, task, chan, timer, s2c, open>>
      /\ Incoming(c, "done") /\ Consume(c) /\ task[c] \in {"host_loop", "viewer_loop"}
      /\ \/ sessions' = sessions \ {sid} /\ UNCHANGED waiting
         \/ /\ waiting' = [waiting EXCEPT ![c] = [op |-> "remove", sid |-> sid]]
            /\ UNCHANGED sessions
  BY DEF DoneReceived, Looping
<1>2. UNCHANGED mysid
  BY DEF clientVars
<1>3. sid \in Viewers
  BY <1>1, ConsumeType DEF Outbox, Requests
<1>4. /\ waiting' \in [Conns -> [op : {"send", "remove"}, sid : Viewers] \union {None}]
      /\ \A x \in Conns : waiting'[x] = waiting[x] \/ (x = c /\ waiting'[x].op = "remove")
      /\ sessions' \subseteq sessions
  <2>1. CASE sessions' = sessions \ {sid} /\ UNCHANGED waiting
    BY <2>1, ServerTypes
  <2>2. CASE /\ waiting' = [waiting EXCEPT ![c] = [op |-> "remove", sid |-> sid]]
             /\ UNCHANGED sessions
    <3> HIDE DEF sid
    <3> QED BY <1>3, <2>2, ServerTypes
  <2> QED BY <1>1, <2>1, <2>2
<1>5. TaskInv' /\ RegistryInv'
  <2>1. \A x \in Conns : waiting'[x] \in {None, waiting[x]} \/
            /\ task[x] \in {"host_loop", "viewer_loop"}
            /\ waiting'[x].op = "send" =>
                 IF x \in Viewers THEN waiting'[x].sid = x ELSE host_of[waiting'[x].sid] = x
    BY <1>1, <1>4
  <2> QED BY <1>1, <1>4, <2>1, LoopKept
<1>6. LeadInv'
  BY <1>1, <1>2, LeadKept
<1> QED BY <1>1, <1>4, <1>5, <1>6, ConsumeType, ServerTypes, ServerKeeps

LEMMA StepRemoveResumes ==
  ASSUME IInv, NEW c \in Conns, RemoveResumes(c), UNCHANGED clientVars
  PROVE  IInv'
<1>1. /\ UNCHANGED <<store, hosts, host_of, allocated, task, chan, timer, c2s, s2c, open>>
      /\ sessions' \subseteq sessions
      /\ waiting' = [waiting EXCEPT ![c] = None]
  BY DEF RemoveResumes
<1>2. UNCHANGED mysid
  BY DEF clientVars
<1>3. waiting' \in [Conns -> [op : {"send", "remove"}, sid : Viewers] \union {None}]
      /\ \A x \in Conns : waiting'[x] \in {None, waiting[x]}
  BY <1>1, ServerTypes
<1>4. TaskInv' /\ RegistryInv'
  BY <1>1, <1>3, LoopKept
<1>5. LeadInv'
  BY <1>1, <1>2, LeadKept
<1> QED BY <1>1, <1>3, <1>4, <1>5, ServerTypes, ServerKeeps

LEMMA StepOutbound ==
  ASSUME IInv, NEW c \in Conns, Outbound(c), UNCHANGED clientVars
  PROVE  IInv'
<1> DEFINE m == Head(chan[c])
<1>1. /\ UNCHANGED <<store, hosts, sessions, host_of, allocated, task, waiting, timer, c2s, open>>
      /\ chan[c] # << >> /\ SendSocket(c, m)
      /\ chan' = [chan EXCEPT ![c] = Tail(@)]
  BY DEF Outbound
<1>2. UNCHANGED mysid
  BY DEF clientVars
<1>3. chan[c] \in Seq(Inbox(c)) /\ chan[c] \in Seq(Messages)
  BY ServerTypes DEF IInv, QueueInv
<1>4. /\ m \in Inbox(c) /\ Tail(chan[c]) \in Seq(Messages)
      /\ Len(Tail(chan[c])) = Len(chan[c]) - 1 /\ Len(chan[c]) \in Nat
  BY <1>1, <1>3, TailOf
<1>5. /\ chan' \in [Conns -> Seq(Messages)]
      /\ \A x \in Conns : chan'[x] = IF x = c THEN Tail(chan[c]) ELSE chan[x]
      /\ \A x \in Conns : Len(chan'[x]) <= SEND_CHAN_CAP
  <2> HIDE DEF m
  <2>1. Len(Tail(chan[c])) <= SEND_CHAN_CAP
    BY <1>4, ServerTypes, Constants
  <2> QED BY <1>1, <1>4, <2>1, ServerTypes
<1>6. TaskInv' /\ RegistryInv'
  BY <1>1, LoopKept
<1>7. LeadInv'
  <2> SUFFICES ASSUME NEW h \in HostConns, h \in open PROVE LeadAt(h)'
    BY <1>1 DEF LeadInv
  <2>1. LeadAt(h) /\ h \in Conns
    BY Constants DEF IInv, LeadInv
  <2>2. CASE h # c
    <3>1. s2c'[h] = s2c[h] /\ chan'[h] = chan[h]
      BY <1>1, <1>4, <1>5, <2>1, <2>2, SocketType
    <3> QED BY <1>1, <1>2, <2>1, <3>1, LeadSame
  <2>3. CASE h = c
    <3>1. s2c'[h] = Append(s2c[h], Head(chan[h])) /\ chan'[h] = Tail(chan[h])
      BY <1>1, <1>4, <1>5, <2>3, SocketType
    <3>2. s2c[h] \in Seq(Inbox(h)) /\ chan[h] \in Seq(Inbox(h)) /\ chan[h] # << >>
      BY <1>1, <1>3, <2>3 DEF IInv, QueueInv
    <3> QED BY <1>1, <1>2, <2>1, <3>1, <3>2, LeadOutbound
  <2> QED BY <2>2, <2>3
<1>8. s2c' \in [Conns -> Seq(Messages)]
      /\ \A x \in Conns : s2c'[x] = s2c[x] \/ \E w \in Inbox(x) : s2c'[x] = Append(s2c[x], w)
  <2> HIDE DEF m
  <2> QED BY <1>1, <1>4, SocketType
<1> QED BY <1>1, <1>5, <1>6, <1>7, <1>8, ServerTypes, ServerKeeps

LEMMA StepTimerFires ==
  ASSUME IInv, NEW v \in Viewers, TimerFires(v), UNCHANGED clientVars
  PROVE  IInv'
<1>1. /\ UNCHANGED <<store, hosts, host_of, allocated, task, chan, waiting, c2s, s2c, open>>
      /\ sessions' = sessions \ {v}
      /\ timer' = [timer EXCEPT ![v] = IF v \in sessions THEN "tell_host" ELSE "done"]
  BY DEF TimerFires, TimerRemoves
<1>2. UNCHANGED mysid
  BY DEF clientVars
<1>3. TaskInv' /\ RegistryInv'
  BY <1>1, LoopKept
<1>4. LeadInv'
  BY <1>1, <1>2, LeadKept
<1>5. /\ timer' \in [Viewers -> {"off", "armed", "tell_host", "tell_viewer", "done"}]
      /\ \A x \in Viewers : timer'[x] # timer[x] => host_of[x] # None
  BY <1>1, ServerTypes DEF IInv, TimerInv, TimerFires
<1>6. sessions' \subseteq Viewers
  BY <1>1, ServerTypes
<1> QED BY <1>1, <1>3, <1>4, <1>5, <1>6, ServerTypes, ServerKeeps

LEMMA StepTimerTells ==
  ASSUME IInv, NEW v \in Viewers, TimerTells(v), UNCHANGED clientVars
  PROVE  IInv'
<1> DEFINE m == [t |-> "error"]
<1>1. PICK c \in {host_of[v], v}, s \in {"tell_viewer", "done"} :
        SendChan(c, m) /\ timer' = [timer EXCEPT ![v] = s]
  BY DEF TimerTells
<1>2. /\ UNCHANGED <<store, hosts, sessions, host_of, allocated, task, waiting, c2s, s2c, open>>
      /\ timer[v] # "off"
  BY DEF TimerTells
<1>3. UNCHANGED mysid
  BY DEF clientVars
<1>4. host_of[v] # None
  BY <1>2 DEF IInv, TimerInv
<1>5. c \in Conns /\ m \in Inbox(c) /\ m.t # "peer_candidate" /\ m.t # "session_start"
  BY <1>1, <1>4, ErrorFits, ServerTypes, Constants
<1>6. /\ timer' \in [Viewers -> {"off", "armed", "tell_host", "tell_viewer", "done"}]
      /\ \A x \in Viewers : timer'[x] # timer[x] => host_of[x] # None
  BY <1>1, <1>4, ServerTypes
<1>7. TaskInv' /\ RegistryInv'
  BY <1>2, LoopKept
<1> HIDE DEF m
<1>8. LeadInv'
  BY <1>1, <1>2, <1>3, <1>5, LeadSend
<1>9. /\ chan' \in [Conns -> Seq(Messages)]
      /\ \A x \in Conns : Len(chan'[x]) <= SEND_CHAN_CAP
      /\ \A x \in Conns : chan'[x] = chan[x] \/ \E w \in Inbox(x) : chan'[x] = Append(chan[x], w)
  BY <1>1, <1>5, SendChanType
<1> QED BY <1>2, <1>6, <1>7, <1>8, <1>9, ServerTypes, ServerKeeps

\* Whatever the server does.
LEMMA ServerStep ==
  ASSUME IInv, ServerNext, UNCHANGED clientVars
  PROVE  IInv'
<1>1. ASSUME NEW h \in HostConns, HostTask(h) PROVE IInv'
  BY <1>1, StepRefused, StepVerified, StepInserted, StepReplied, StepHostExit DEF HostTask
<1>2. ASSUME NEW v \in Viewers, ViewerTask(v) PROVE IInv'
  BY <1>2, StepNotFound, StepSession, StepHostTold, StepViewerTold, StepBreaks, StepViewerExit
     DEF ViewerTask
<1>3. ASSUME NEW v \in Viewers, TimeoutTask(v) PROVE IInv'
  BY <1>3, StepTimerFires, StepTimerTells DEF TimeoutTask
<1>4. ASSUME NEW c \in Conns, LoopTask(c) PROVE IInv'
  BY <1>4, StepFirstClosed, StepForward, StepForwardWaits, StepForwardResumes, StepDone,
     StepRemoveResumes, StepOutbound DEF LoopTask
<1> QED BY <1>1, <1>2, <1>3, <1>4 DEF ServerNext

-----------------------------------------------------------------------------
(* Steps of the clients.                                                   *)

\* What the invariants know of a client that is somewhere else.
LEMMA ClientKeeps ==
  ASSUME IInv, UNCHANGED AtServer,
         \A c \in Conns :
           /\ \/ s2c'[c] \in {s2c[c], << >>}
              \/ s2c[c] # << >> /\ s2c'[c] = Tail(s2c[c])
           /\ \/ c2s'[c] = c2s[c]
              \/ \E q \in Seq(Outbox(c)) : c2s'[c] = c2s[c] \o q,
         c2s' \in [Conns -> Seq(Requests)], s2c' \in [Conns -> Seq(Messages)],
         open' \subseteq Conns,
         cl' \in [Conns -> {"idle", "registering", "waiting", "collecting", "finished", "failed"}],
         mysid' \in [Conns -> Viewers \union {None}],
         peer_key' \in [Viewers -> Keys \union {None}],
         collected' \in [Conns -> SUBSET Conns],
         ClientInv', LeadInv'
  PROVE  IInv'
<1>1. /\ UNCHANGED <<store, hosts, sessions, host_of, allocated, task, chan, waiting, timer>>
  BY DEF AtServer
<1>2. \A c \in Conns : Inbox(c) \subseteq Inbox(c)' /\ Outbox(c) \subseteq Outbox(c)'
  BY <1>1, BoxesGrow
<1>3. \A c \in Conns :
           /\ \/ chan'[c] \in {chan[c], << >>}
              \/ chan[c] # << >> /\ chan'[c] = Tail(chan[c])
              \/ \E m \in Inbox(c) : chan'[c] = Append(chan[c], m)
           /\ \/ s2c'[c] \in {s2c[c], << >>}
              \/ s2c[c] # << >> /\ s2c'[c] = Tail(s2c[c])
              \/ \E m \in Inbox(c) : s2c'[c] = Append(s2c[c], m)
           /\ \/ c2s'[c] = c2s[c]
              \/ c2s[c] # << >> /\ c2s'[c] = Tail(c2s[c])
              \/ \E q \in Seq(Outbox(c)) : c2s'[c] = c2s[c] \o q
  BY <1>1
<1>4. QueueInv'
  BY <1>2, <1>3, QueueChange
<1>5. TypeOK'
  BY <1>1 DEF IInv, TypeOK
<1>6. TaskInv' /\ TimerInv' /\ RegistryInv'
  BY <1>1 DEF IInv, TaskInv, TimerInv, RegistryInv
<1> QED BY <1>4, <1>5, <1>6 DEF IInv

\* The clients' types.
LEMMA ClientTypes ==
  ASSUME IInv
  PROVE  /\ c2s \in [Conns -> Seq(Requests)] /\ s2c \in [Conns -> Seq(Messages)]
         /\ open \subseteq Conns
         /\ cl \in [Conns -> {"idle", "registering", "waiting", "collecting", "finished", "failed"}]
         /\ mysid \in [Conns -> Viewers \union {None}]
         /\ peer_key \in [Viewers -> Keys \union {None}]
         /\ collected \in [Conns -> SUBSET Conns]
BY DEF IInv, TypeOK

\* What one client does, the others do not notice.
LEMMA ClientInvOf ==
  ASSUME IInv, NEW c \in Conns, UNCHANGED AtServer,
         \A x \in Conns : x # c => /\ cl'[x] = cl[x] /\ mysid'[x] = mysid[x]
                                   /\ collected'[x] = collected[x]
                                   /\ x \in open => x \in open',
         \A v \in Viewers : v # c => peer_key'[v] = peer_key[v],
         cl'[c] \in {"idle", "registering", "waiting"} => mysid'[c] = None /\ collected'[c] = {},
         cl'[c] = "collecting" => mysid'[c] # None,
         cl'[c] \in {"idle", "registering", "waiting", "collecting"} => c \in open',
         c \in Viewers => /\ mysid'[c] \in {None, c}
                          /\ peer_key'[c] # None => peer_key'[c] = store[Wants[c]],
         c \in HostConns /\ mysid'[c] # None => host_of[mysid'[c]] = c,
         cl'[c] \in {"collecting", "finished"} =>
           collected'[c] \subseteq {IF c \in Viewers THEN host_of[c] ELSE mysid'[c]}
  PROVE  ClientInv'
<1>1. UNCHANGED <<store, host_of>>
  BY DEF AtServer
<1>2. OneKeyPerId'
  <2> SUFFICES ASSUME NEW v \in Viewers, peer_key'[v] # None
               PROVE  peer_key'[v] = store[Wants[v]]
    BY <1>1 DEF OneKeyPerId
  <2> QED BY DEF IInv, ClientInv, OneKeyPerId
<1>3. CandidatesOfOwnSession'
  <2> SUFFICES ASSUME NEW x \in Conns, cl'[x] \in {"collecting", "finished"}
               PROVE  collected'[x] \subseteq {IF x \in Viewers THEN host_of[x] ELSE mysid'[x]}
    BY <1>1 DEF CandidatesOfOwnSession
  <2> QED BY DEF IInv, ClientInv, CandidatesOfOwnSession
<1>4. \A h \in HostConns : mysid'[h] # None => host_of[mysid'[h]] = h
  <2> SUFFICES ASSUME NEW h \in HostConns, mysid'[h] # None PROVE host_of[mysid'[h]] = h
    OBVIOUS
  <2>1. CASE h = c
    BY <2>1
  <2>2. CASE h # c
    BY <2>2, Constants DEF IInv, ClientInv
  <2> QED BY <2>1, <2>2
<1>5. \A v \in Viewers : mysid'[v] \in {None, v}
  BY Constants DEF IInv, ClientInv
<1>6. \A x \in Conns :
        /\ cl'[x] \in {"idle", "registering", "waiting"} => mysid'[x] = None /\ collected'[x] = {}
        /\ cl'[x] = "collecting" => mysid'[x] # None
        /\ cl'[x] \in {"idle", "registering", "waiting", "collecting"} => x \in open'
  <2> SUFFICES ASSUME NEW x \in Conns
               PROVE  /\ cl'[x] \in {"idle", "registering", "waiting"} =>
                           mysid'[x] = None /\ collected'[x] = {}
                      /\ cl'[x] = "collecting" => mysid'[x] # None
                      /\ cl'[x] \in {"idle", "registering", "waiting", "collecting"} => x \in open'
    OBVIOUS
  <2>1. CASE x = c
    BY <2>1
  <2>2. CASE x # c
    <3>1. /\ cl[x] \in {"idle", "registering", "waiting"} => mysid[x] = None /\ collected[x] = {}
          /\ cl[x] = "collecting" => mysid[x] # None
          /\ cl[x] \in {"idle", "registering", "waiting", "collecting"} => x \in open
      BY DEF IInv, ClientInv
    <3>2. cl'[x] = cl[x] /\ mysid'[x] = mysid[x] /\ collected'[x] = collected[x]
          /\ (x \in open => x \in open')
      BY <2>2
    <3> QED BY <3>1, <3>2
  <2> QED BY <2>1, <2>2
<1> QED BY <1>1, <1>2, <1>3, <1>4, <1>5, <1>6 DEF ClientInv

\* A client reads its socket.
LEMMA LeadReceived ==
  ASSUME IInv, NEW c \in Conns, s2c[c] # << >>, s2c' = [s2c EXCEPT ![c] = Tail(@)],
         UNCHANGED <<AtServer, open>>,
         \A x \in Conns : x # c => mysid'[x] = mysid[x],
         c \in HostConns => \/ Head(s2c[c]).t # "session_start" /\ mysid'[c] = mysid[c]
                            \/ mysid[c] \notin Viewers /\ mysid'[c] = Head(s2c[c]).sid
  PROVE  LeadInv'
<1>1. UNCHANGED <<task, host_of, chan>>
  BY DEF AtServer
<1> SUFFICES ASSUME NEW h \in HostConns, h \in open PROVE LeadAt(h)'
  BY DEF LeadInv
<1>2. LeadAt(h) /\ h \in Conns /\ h \notin Viewers
  BY Constants DEF IInv, LeadInv
<1>3. CASE h # c
  <2>1. s2c'[h] = s2c[h] /\ mysid'[h] = mysid[h]
    BY <1>2, <1>3, ClientTypes
  <2> QED BY <1>1, <1>2, <2>1, LeadSame
<1>4. CASE h = c
  <2>1. s2c'[h] = Tail(s2c[h])
    BY <1>4, ClientTypes
  <2>2. chan[h] \in Seq(Inbox(h)) /\ s2c[h] \in Seq(Inbox(h))
    BY <1>2 DEF IInv, QueueInv
  <2>3. \A m \in Inbox(h) : m.t = "peer_candidate" => m.from \in Viewers
    BY <1>2 DEF Inbox, Messages
  <2>4. \A i \in 1..Len(chan[h]) : chan[h][i].t = "peer_candidate" => chan[h][i].from \in Viewers
    BY <2>2, <2>3, ElementOfSeq
  <2> QED BY <1>1, <1>2, <1>4, <2>1, <2>2, <2>3, <2>4, LeadTail
<1> QED BY <1>3, <1>4

\* A client closes its socket.
LEMMA LeadClosed ==
  ASSUME IInv, NEW c \in Conns, Close(c), UNCHANGED <<AtServer, mysid>>
  PROVE  LeadInv' /\ s2c' \in [Conns -> Seq(Messages)] /\ open' \subseteq Conns
         /\ \A x \in Conns : s2c'[x] \in {s2c[x], << >>} /\ (x # c /\ x \in open => x \in open')
<1>1. UNCHANGED <<task, host_of, chan>>
  BY DEF AtServer
<1>2. /\ open' = open \ {c} /\ s2c' = [s2c EXCEPT ![c] = << >>]
      /\ s2c \in [Conns -> Seq(Messages)] /\ open \subseteq Conns
  BY ClientTypes DEF Close
<1>3. ASSUME NEW h \in HostConns, h \in open' PROVE LeadAt(h)'
  <2>1. h # c /\ h \in open /\ h \in Conns
    BY <1>2, <1>3, Constants
  <2>2. s2c'[h] = s2c[h] /\ LeadAt(h)
    BY <1>2, <2>1 DEF IInv, LeadInv
  <2> QED BY <1>1, <2>2, LeadSame
<1> QED BY <1>2, <1>3 DEF LeadInv

\* A client writes to its socket.
LEMMA SendMsgsType ==
  ASSUME IInv, NEW c \in Conns, NEW ms \in Seq(Outbox(c)), SendMsgs(c, ms)
  PROVE  /\ c2s' \in [Conns -> Seq(Requests)]
         /\ \A x \in Conns : \/ c2s'[x] = c2s[x]
                             \/ \E q \in Seq(Outbox(x)) : c2s'[x] = c2s[x] \o q
<1>1. c2s \in [Conns -> Seq(Requests)] /\ ms \in Seq(Requests)
  BY ClientTypes, Boxes, SeqMonotonic
<1>2. c2s[c] \o ms \in Seq(Requests)
  BY <1>1, ConcatProperties
<1> QED BY <1>1, <1>2 DEF SendMsgs

LEMMA StepStart ==
  ASSUME IInv, NEW c \in Conns, Start(c)
  PROVE  IInv'
<1> DEFINE r == [t |-> IF c \in HostConns THEN "register" ELSE "connect"]
           stage == IF c \in HostConns THEN "registering" ELSE "waiting"
<1>1. /\ UNCHANGED <<AtServer, s2c, open, mysid, peer_key, collected>>
      /\ SendMsgs(c, << r >>) /\ cl[c] = "idle" /\ cl' = [cl EXCEPT ![c] = stage]
  BY DEF Start, To
<1>2. UNCHANGED <<task, host_of, chan>>
  BY <1>1 DEF AtServer
<1>3. << r >> \in Seq(Outbox(c))
  <2>1. r \in Outbox(c)
    BY DEF Outbox, Requests
  <2> QED BY <2>1
<1> HIDE DEF r
<1>4. \A x \in Conns : cl'[x] = IF x = c THEN stage ELSE cl[x]
  BY <1>1, ClientTypes
<1>5. mysid[c] = None /\ collected[c] = {} /\ c \in open
  BY <1>1 DEF IInv, ClientInv
<1>6. c \in Viewers /\ peer_key[c] # None => peer_key[c] = store[Wants[c]]
  BY DEF IInv, ClientInv, OneKeyPerId
<1>7. ClientInv'
  BY <1>1, <1>4, <1>5, <1>6, ClientInvOf
<1>8. LeadInv'
  BY <1>1, <1>2, LeadKept
<1>9. cl' \in [Conns -> {"idle", "registering", "waiting", "collecting", "finished", "failed"}]
  BY <1>1, ClientTypes
<1> QED BY <1>1, <1>3, <1>7, <1>8, <1>9, SendMsgsType, ClientTypes, ClientKeeps

LEMMA StepRegistered ==
  ASSUME IInv, NEW c \in Conns, Registered(c)
  PROVE  IInv'
<1>1. /\ UNCHANGED <<AtServer, c2s, open, mysid, peer_key, collected>>
      /\ cl[c] = "registering" /\ cl' = [cl EXCEPT ![c] = "waiting"]
      /\ s2c[c] # << >> /\ Head(s2c[c]).t = "registered" /\ s2c' = [s2c EXCEPT ![c] = Tail(@)]
  BY DEF Registered, Receive, To
<1>2. \A x \in Conns : cl'[x] = IF x = c THEN "waiting" ELSE cl[x]
  BY <1>1, ClientTypes
<1>3. mysid[c] = None /\ collected[c] = {} /\ c \in open
  BY <1>1 DEF IInv, ClientInv
<1>4. c \in Viewers /\ peer_key[c] # None => peer_key[c] = store[Wants[c]]
  BY DEF IInv, ClientInv, OneKeyPerId
<1>5. ClientInv'
  BY <1>1, <1>2, <1>3, <1>4, ClientInvOf
<1>6. LeadInv'
  BY <1>1, LeadReceived
<1>7. cl' \in [Conns -> {"idle", "registering", "waiting", "collecting", "finished", "failed"}]
  BY <1>1, ClientTypes
<1>8. s2c' \in [Conns -> Seq(Messages)]
      /\ \A x \in Conns : s2c'[x] = s2c[x] \/ (s2c[x] # << >> /\ s2c'[x] = Tail(s2c[x]))
  BY <1>1, ClientTypes, TailOf
<1> QED BY <1>1, <1>5, <1>6, <1>7, <1>8, ClientTypes, ClientKeeps

\* A client's SessionStart is its own, with the key that is stored.
LEMMA FirstMessage ==
  ASSUME IInv, NEW c \in Conns, s2c[c] # << >>
  PROVE  /\ Head(s2c[c]) \in Inbox(c) /\ Tail(s2c[c]) \in Seq(Messages)
         /\ Head(s2c[c]) \in Messages
<1>1. s2c[c] \in Seq(Inbox(c)) /\ s2c[c] \in Seq(Messages)
  BY ClientTypes DEF IInv, QueueInv
<1> QED BY <1>1, TailOf

LEMMA StepStarted ==
  ASSUME IInv, NEW c \in Conns, Started(c)
  PROVE  IInv'
<1> DEFINE m == Head(s2c[c])
<1>1. /\ UNCHANGED <<AtServer, open, collected>>
      /\ cl[c] = "waiting" /\ cl' = [cl EXCEPT ![c] = "collecting"]
      /\ s2c[c] # << >> /\ m.t = "session_start" /\ s2c' = [s2c EXCEPT ![c] = Tail(@)]
      /\ mysid' = [mysid EXCEPT ![c] = m.sid]
      /\ peer_key' = IF c \in Viewers THEN [peer_key EXCEPT ![c] = m.key] ELSE peer_key
      /\ SendCandidates(c, m.sid)
  BY DEF Started, Receive, To
<1>2. mysid[c] = None /\ collected[c] = {} /\ c \in open
  BY <1>1 DEF IInv, ClientInv
<1>3. m \in Inbox(c) /\ m \in Messages /\ Tail(s2c[c]) \in Seq(Messages)
  BY <1>1, FirstMessage
<1> HIDE DEF m
<1>4. m.sid \in Viewers
  BY <1>1, <1>3 DEF Messages
<1>5. c \in Viewers => m.sid = c /\ m.key \in Keys /\ m.key = store[Wants[c]]
  BY <1>1, <1>3 DEF Inbox
<1>6. c \notin Viewers => host_of[m.sid] = c
  BY <1>1, <1>3 DEF Inbox
<1>7. PICK n \in 1..MaxCands :
        SendMsgs(c, [k \in 1..n |-> [t |-> "candidate", sid |-> m.sid]])
  BY <1>1 DEF SendCandidates
<1>8. [k \in 1..n |-> [t |-> "candidate", sid |-> m.sid]] \in Seq(Outbox(c))
  <2>1. [t |-> "candidate", sid |-> m.sid] \in Outbox(c)
    BY <1>4, <1>5, <1>6 DEF Outbox, Requests
  <2>2. n \in Nat
    BY Constants
  <2> QED BY <2>1, <2>2, IsASeq
<1>9. \A x \in Conns : /\ cl'[x] = IF x = c THEN "collecting" ELSE cl[x]
                       /\ mysid'[x] = IF x = c THEN m.sid ELSE mysid[x]
  BY <1>1, ClientTypes
<1>10. /\ peer_key' \in [Viewers -> Keys \union {None}]
       /\ \A v \in Viewers : v # c => peer_key'[v] = peer_key[v]
       /\ c \in Viewers => peer_key'[c] = store[Wants[c]]
  BY <1>1, <1>5, ClientTypes
<1>11. ClientInv'
  <2>1. m.sid # None
    BY <1>4, Constants
  <2>2. /\ \A x \in Conns : x # c => /\ cl'[x] = cl[x] /\ mysid'[x] = mysid[x]
                                     /\ collected'[x] = collected[x]
                                     /\ x \in open => x \in open'
        /\ c \in Viewers => mysid'[c] \in {None, c}
        /\ c \in HostConns /\ mysid'[c] # None => host_of[mysid'[c]] = c
        /\ cl'[c] = "collecting" /\ mysid'[c] # None /\ c \in open'
        /\ collected'[c] = {}
    BY <1>1, <1>2, <1>5, <1>6, <1>9, <2>1, Constants
  <2> QED BY <1>1, <1>10, <2>2, ClientInvOf
<1>12. LeadInv'
  <2>1. c \in HostConns => mysid[c] \notin Viewers /\ mysid'[c] = Head(s2c[c]).sid
    BY <1>2, <1>9, Constants DEF m
  <2> QED BY <1>1, <1>9, <2>1, LeadReceived
<1>13. cl' \in [Conns -> {"idle", "registering", "waiting", "collecting", "finished", "failed"}]
       /\ mysid' \in [Conns -> Viewers \union {None}]
  BY <1>1, <1>4, ClientTypes
<1>14. s2c' \in [Conns -> Seq(Messages)]
       /\ \A x \in Conns : s2c'[x] = s2c[x] \/ (s2c[x] # << >> /\ s2c'[x] = Tail(s2c[x]))
  BY <1>1, <1>3, ClientTypes
<1> QED BY <1>1, <1>7, <1>8, <1>10, <1>11, <1>12, <1>13, <1>14, SendMsgsType, ClientTypes, ClientKeeps

LEMMA StepCollect ==
  ASSUME IInv, NEW c \in Conns, Collect(c)
  PROVE  IInv'
<1> DEFINE m == Head(s2c[c])
<1>1. /\ UNCHANGED <<AtServer, c2s, open, cl, mysid, peer_key>>
      /\ cl[c] = "collecting" /\ s2c[c] # << >> /\ m.t = "peer_candidate"
      /\ s2c' = [s2c EXCEPT ![c] = Tail(@)]
      /\ collected' = [collected EXCEPT ![c] = @ \union {m.from}]
  BY DEF Collect, Receive
<1>2. mysid[c] # None /\ c \in open
  BY <1>1 DEF IInv, ClientInv
<1>3. m \in Inbox(c) /\ m \in Messages /\ Tail(s2c[c]) \in Seq(Messages)
  BY <1>1, FirstMessage
<1>4. c \in HostConns => m.from = mysid[c]
  <2> SUFFICES ASSUME c \in HostConns PROVE m.from = mysid[c]
    OBVIOUS
  <2>1. LeadAt(c)
    BY <1>2 DEF IInv, LeadInv
  <2>2. s2c[c] \in Seq(Messages)
    BY ClientTypes
  <2>3. 1 \in 1..Len(s2c[c]) /\ s2c[c][1] = m
    BY <1>1, <2>2, TailOf
  <2>4. ~ \E i \in 1..(1 - 1) : IsStart(s2c[c][i], s2c[c][1].from)
    OBVIOUS
  <2> QED BY <1>1, <2>1, <2>3, <2>4 DEF LeadAt
<1> HIDE DEF m
<1>5. m.from \in Conns
  BY <1>1, <1>3 DEF Messages
<1>6. c \in Viewers => m.from = host_of[c]
  BY <1>1, <1>3 DEF Inbox
<1>7. \A x \in Conns : collected'[x] = IF x = c THEN collected[c] \union {m.from} ELSE collected[x]
  BY <1>1, ClientTypes
<1>8. collected[c] \subseteq {IF c \in Viewers THEN host_of[c] ELSE mysid[c]}
  BY <1>1 DEF IInv, ClientInv, CandidatesOfOwnSession
<1>9. collected'[c] \subseteq {IF c \in Viewers THEN host_of[c] ELSE mysid[c]}
  BY <1>4, <1>6, <1>7, <1>8, Constants
<1>10. /\ c \in Viewers => /\ mysid[c] \in {None, c}
                           /\ peer_key[c] # None => peer_key[c] = store[Wants[c]]
       /\ c \in HostConns /\ mysid[c] # None => host_of[mysid[c]] = c
  BY DEF IInv, ClientInv, OneKeyPerId
<1>11. ClientInv'
  BY <1>1, <1>2, <1>7, <1>9, <1>10, ClientInvOf
<1>12. LeadInv'
  <2>1. Head(s2c[c]).t # "session_start"
    BY <1>1 DEF m
  <2> QED BY <1>1, <2>1, LeadReceived
<1>13. collected' \in [Conns -> SUBSET Conns]
  BY <1>1, <1>5, ClientTypes
<1>14. s2c' \in [Conns -> Seq(Messages)]
       /\ \A x \in Conns : s2c'[x] = s2c[x] \/ (s2c[x] # << >> /\ s2c'[x] = Tail(s2c[x]))
  BY <1>1, <1>3, ClientTypes
<1> QED BY <1>1, <1>11, <1>12, <1>13, <1>14, ClientTypes, ClientKeeps

\* A client that closes its socket has finished or failed.
LEMMA StepClosed ==
  ASSUME IInv, NEW c \in Conns, Close(c), UNCHANGED <<AtServer, mysid, peer_key, collected>>,
         NEW stage \in {"finished", "failed"}, cl' = [cl EXCEPT ![c] = stage],
         cl[c] = "collecting" \/ stage = "failed",
         c2s' \in [Conns -> Seq(Requests)],
         \A x \in Conns : \/ c2s'[x] = c2s[x]
                          \/ \E q \in Seq(Outbox(x)) : c2s'[x] = c2s[x] \o q
  PROVE  IInv'
<1>1. /\ LeadInv' /\ s2c' \in [Conns -> Seq(Messages)] /\ open' \subseteq Conns
      /\ \A x \in Conns : s2c'[x] \in {s2c[x], << >>} /\ (x # c /\ x \in open => x \in open')
  BY LeadClosed
<1>2. \A x \in Conns : cl'[x] = IF x = c THEN stage ELSE cl[x]
  BY ClientTypes
<1>3. cl'[c] = "finished" =>
        collected[c] \subseteq {IF c \in Viewers THEN host_of[c] ELSE mysid[c]}
  BY <1>2 DEF IInv, ClientInv, CandidatesOfOwnSession
<1>4. /\ c \in Viewers => /\ mysid[c] \in {None, c}
                          /\ peer_key[c] # None => peer_key[c] = store[Wants[c]]
      /\ c \in HostConns /\ mysid[c] # None => host_of[mysid[c]] = c
  BY DEF IInv, ClientInv, OneKeyPerId
<1>5. cl'[c] \in {"finished", "failed"}
  BY <1>2
<1>6. ClientInv'
  BY <1>1, <1>2, <1>3, <1>4, <1>5, ClientInvOf
<1>7. cl' \in [Conns -> {"idle", "registering", "waiting", "collecting", "finished", "failed"}]
  BY ClientTypes
<1> QED BY <1>1, <1>6, <1>7, ClientTypes, ClientKeeps

LEMMA StepFinished ==
  ASSUME IInv, NEW c \in Conns, Finished(c)
  PROVE  IInv'
<1> DEFINE r == [t |-> "done", sid |-> mysid[c]]
<1>1. /\ UNCHANGED <<AtServer, mysid, peer_key, collected>>
      /\ cl[c] = "collecting" /\ cl' = [cl EXCEPT ![c] = "finished"] /\ Close(c)
      /\ SendMsgs(c, << r >>)
  BY DEF Finished, To
<1>2. mysid[c] \in Viewers
  BY <1>1, ClientTypes DEF IInv, ClientInv
<1>3. << r >> \in Seq(Outbox(c))
  <2>1. r \in Outbox(c)
    BY <1>2 DEF Outbox, Requests
  <2> QED BY <2>1
<1> HIDE DEF r
<1> QED BY <1>1, <1>3, SendMsgsType, StepClosed

LEMMA StepFailed ==
  ASSUME IInv, NEW c \in Conns, Abort(c) \/ GiveUp(c)
  PROVE  IInv'
<1>1. /\ UNCHANGED <<AtServer, c2s, mysid, peer_key, collected>>
      /\ cl' = [cl EXCEPT ![c] = "failed"] /\ Close(c)
  BY DEF Abort, GiveUp, To
<1> QED BY <1>1, ClientTypes, StepClosed

-----------------------------------------------------------------------------
(* The invariant.                                                          *)

LEMMA InitInv == Init => IInv
<1> SUFFICES ASSUME Init PROVE IInv
  OBVIOUS
<1>1. /\ store = [i \in HostIds |-> None] /\ hosts = [i \in HostIds |-> None]
      /\ sessions = {} /\ host_of = [v \in Viewers |-> None]
      /\ allocated = [h \in HostConns |-> NoId] /\ task = [c \in Conns |-> "first"]
      /\ chan = [c \in Conns |-> << >>] /\ waiting = [c \in Conns |-> None]
      /\ timer = [v \in Viewers |-> "off"]
      /\ c2s = [c \in Conns |-> << >>] /\ s2c = [c \in Conns |-> << >>] /\ open = Conns
  BY DEF Init, ServerInit
<1>2. /\ cl = [c \in Conns |-> "idle"] /\ mysid = [c \in Conns |-> None]
      /\ peer_key = [v \in Viewers |-> None] /\ collected = [c \in Conns |-> {}]
  BY DEF Init
<1>3. TypeOK
  BY <1>1, <1>2, Constants DEF TypeOK
<1>4. TaskInv /\ TimerInv /\ RegistryInv
  BY <1>1, Constants DEF TaskInv, TimerInv, RegistryInv, HostTasks, ViewerTasks
<1>5. QueueInv
  <2>1. \A c \in Conns : chan[c] = << >> /\ s2c[c] = << >> /\ c2s[c] = << >>
    BY <1>1
  <2>2. \A c \in Conns : << >> \in Seq(Inbox(c)) /\ << >> \in Seq(Outbox(c))
    OBVIOUS
  <2> QED BY <2>1, <2>2 DEF QueueInv
<1>6. ClientInv
  BY <1>1, <1>2, Constants DEF ClientInv, OneKeyPerId, CandidatesOfOwnSession
<1>7. LeadInv
  <2> SUFFICES ASSUME NEW h \in HostConns PROVE LeadAt(h)
    BY DEF LeadInv
  <2>1. /\ s2c[h] = << >> /\ chan[h] = << >> /\ \A v \in Viewers : task[v] = "first"
    BY <1>1, Constants
  <2>2. 1..Len(s2c[h]) = {} /\ 1..Len(chan[h]) = {}
    BY <2>1
  <2> QED BY <2>1, <2>2 DEF LeadAt
<1> QED BY <1>3, <1>4, <1>5, <1>6, <1>7 DEF IInv

LEMMA StutterInv ==
  ASSUME IInv, UNCHANGED vars
  PROVE  IInv'
<1>1. /\ UNCHANGED <<store, hosts, sessions, host_of, allocated, task, chan, waiting,
                     timer, c2s, s2c, open, cl, mysid, peer_key, collected>>
  BY DEF vars, serverVars, clientVars
<1>2. TypeOK' /\ TaskInv' /\ TimerInv' /\ RegistryInv'
  BY <1>1 DEF IInv, TypeOK, TaskInv, TimerInv, RegistryInv
<1>3. QueueInv'
  BY <1>1 DEF IInv, QueueInv, Inbox, Outbox
<1>4. ClientInv' /\ LeadInv'
  BY <1>1 DEF IInv, ClientInv, OneKeyPerId, CandidatesOfOwnSession, LeadInv, LeadAt, Knows
<1> QED BY <1>2, <1>3, <1>4 DEF IInv

LEMMA StepInv ==
  ASSUME IInv, [Next]_vars
  PROVE  IInv'
<1>1. CASE Server
  BY <1>1, ServerStep DEF Server
<1>2. ASSUME NEW c \in Conns, Start(c) \/ Client(c) PROVE IInv'
  BY <1>2, StepStart, StepRegistered, StepStarted, StepCollect, StepFinished, StepFailed DEF Client
<1>3. CASE Terminated \/ UNCHANGED vars
  BY <1>3, StutterInv DEF Terminated
<1> QED BY <1>1, <1>2, <1>3 DEF Next

LEMMA Invariance == Spec => []IInv
<1>1. IInv /\ [Next]_vars => IInv'
  BY StepInv
<1> QED BY <1>1, InitInv, PTL DEF Spec

-----------------------------------------------------------------------------
\* The tables, channels and streams hold what the code puts into them, and no
\* channel holds more than SEND_CHAN_CAP messages.
THEOREM TypeCorrect == Spec => []TypeOK
<1>1. IInv => TypeOK
  BY DEF IInv
<1> QED BY <1>1, Invariance, PTL

\* Whatever hosts come and go, a viewer is given the key that is stored for the
\* id it asked for, and the same one as everybody else (ws.rs:112-118).
THEOREM StoredKeyOnly == Spec => []OneKeyPerId
<1>1. IInv => OneKeyPerId
  BY DEF IInv, ClientInv
<1> QED BY <1>1, Invariance, PTL

\* No host is handed a candidate before its SessionStart, so that neither side
\* collects candidates of anybody but the other side of its own session.
THEOREM OwnCandidates == Spec => []CandidatesOfOwnSession
<1>1. IInv => CandidatesOfOwnSession
  BY DEF IInv, ClientInv
<1> QED BY <1>1, Invariance, PTL

\* A closed task has taken its entries with it: when everybody has left, the
\* registry and the session table are empty (ws.rs:105, 153, 246, 292).
THEOREM NothingIsLeft == Spec => []NothingLeaks
<1>1. IInv => NothingLeaks
  <2> SUFFICES ASSUME IInv, AllOver PROVE sessions = {} /\ \A i \in HostIds : hosts[i] = None
    BY DEF NothingLeaks
  <2>1. \A c \in Conns : task[c] = "closed"
    BY DEF AllOver
  <2>2. sessions = {}
    BY <2>1, Constants, ServerTypes DEF IInv, TaskInv
  <2>3. \A i \in HostIds : hosts[i] = None
    <3> SUFFICES ASSUME NEW i \in HostIds, hosts[i] # None PROVE FALSE
      OBVIOUS
    <3>1. hosts[i] \in Conns
      BY Constants, ServerTypes
    <3>2. task[hosts[i]] \in {"inserted", "host_loop"}
      BY DEF IInv, RegistryInv
    <3> QED BY <2>1, <3>1, <3>2
  <2> QED BY <2>2, <2>3
<1> QED BY <1>1, Invariance, PTL

-----------------------------------------------------------------------------
(* Room in the channels of viewers.                                        *)

\* What a host can have in its stream to the server: candidates of its session only,
\* nothing but its register before that, and its Done as the last.
Asked(h) == {m \in Requests : m.t = "candidate" => m.sid = mysid[h]}
RequestAt(h) ==
  /\ c2s[h] \in Seq(Asked(h))
  /\ cl[h] = "idle" => c2s[h] = << >> /\ task[h] = "first"
  /\ cl[h] \in {"registering", "waiting"} => Len(c2s[h]) <= IF task[h] = "first" THEN 1 ELSE 0
  /\ cl[h] = "finished" => c2s[h] = << >> \/ c2s[h][Len(c2s[h])].t = "done"
RequestInv ==
  \A h \in HostConns :
    /\ RequestAt(h)
    /\ task[h] = "first" => \A v \in Viewers : host_of[v] # h

\* What may still come into the channel of v: its SessionStart, the Error of its
\* timeout task, and what its host has not sent yet or has on its way.
Left(h) == IF cl[h] = "finished" /\ c2s[h] # << >> THEN Len(c2s[h]) - 1 ELSE Len(c2s[h])
ToStart(v)  == IF task[v] \in {"notify_host", "notify_viewer"} THEN 1 ELSE 0
ToExpire(v) == IF timer[v] # "done" THEN 1 ELSE 0
ToForward(v) ==
  CASE mysid[host_of[v]] = None -> MaxCands
    [] mysid[host_of[v]] = v    -> Left(host_of[v])
    [] OTHER                    -> 0

\* What is in the channel and what the server itself will add.
Due(v) == Len(chan[v]) + ToStart(v) + ToExpire(v)
RoomAt(v) ==
  IF host_of[v] = None THEN chan[v] = << >> ELSE Due(v) + ToForward(v) <= MaxCands + 2
HostsGoOn == \A h \in HostConns : waiting[h] # None => waiting[h].op = "remove"
TimerOff == \A v \in Viewers :
  task[v] \in {"first", "notify_host", "notify_viewer"} => timer[v] = "off"
RoomInv == RequestInv /\ TimerOff /\ (\A v \in Viewers : RoomAt(v)) /\ HostsGoOn
Large == SEND_CHAN_CAP >= MaxCands + 2

\* The numbers are numbers.
LEMMA Numbers ==
  ASSUME IInv
  PROVE  /\ MaxCands \in Nat /\ SEND_CHAN_CAP \in Nat
         /\ \A c \in Conns : Len(chan[c]) \in Nat /\ Len(c2s[c]) \in Nat
         /\ \A c \in Conns : c2s[c] # << >> => Len(c2s[c]) >= 1
         /\ \A h \in HostConns : Left(h) \in Nat
         /\ \A v \in Viewers : ToStart(v) \in {0, 1} /\ ToExpire(v) \in {0, 1} /\ Due(v) \in Nat
         /\ \A v \in Viewers : host_of[v] # None => ToForward(v) \in Nat
<1>1. MaxCands \in Nat /\ SEND_CHAN_CAP \in Nat /\ HostConns \subseteq Conns
  BY Constants
<1>2. \A c \in Conns : chan[c] \in Seq(Messages) /\ c2s[c] \in Seq(Requests)
  BY ServerTypes
<1>3. \A c \in Conns : Len(chan[c]) \in Nat /\ Len(c2s[c]) \in Nat
  BY <1>2, LenProperties
<1>4. \A c \in Conns : c2s[c] # << >> => Len(c2s[c]) >= 1
  BY <1>2, TailOf
<1>5. \A h \in HostConns : Left(h) \in Nat
  BY <1>1, <1>3, <1>4 DEF Left
<1>6. \A v \in Viewers : ToStart(v) \in {0, 1} /\ ToExpire(v) \in {0, 1} /\ Due(v) \in Nat
  <2> SUFFICES ASSUME NEW v \in Viewers
               PROVE  ToStart(v) \in {0, 1} /\ ToExpire(v) \in {0, 1} /\ Due(v) \in Nat
    OBVIOUS
  <2>1. ToStart(v) \in {0, 1} /\ ToExpire(v) \in {0, 1}
    BY DEF ToStart, ToExpire
  <2>2. Len(chan[v]) \in Nat
    BY <1>3, Constants
  <2>3. Due(v) \in Nat
    BY <2>1, <2>2 DEF Due
  <2> QED BY <2>1, <2>3
<1>7. \A v \in Viewers : host_of[v] # None => host_of[v] \in HostConns
  BY ServerTypes
<1>8. \A v \in Viewers : host_of[v] # None => ToForward(v) \in Nat
  BY <1>1, <1>5, <1>7 DEF ToForward
<1> QED BY <1>1, <1>3, <1>4, <1>5, <1>6, <1>8

\* And so they are after a step.
LEMMA NumbersNext ==
  ASSUME IInv'
  PROVE  /\ \A c \in Conns : Len(chan'[c]) \in Nat /\ Len(c2s'[c]) \in Nat
         /\ \A v \in Viewers : ToStart(v)' \in {0, 1} /\ ToExpire(v)' \in {0, 1} /\ Due(v)' \in Nat
         /\ \A v \in Viewers : host_of'[v] # None => ToForward(v)' \in Nat
<1>1. MaxCands \in Nat /\ HostConns \subseteq Conns
  BY Constants
<1>2. /\ \A c \in Conns : chan'[c] \in Seq(Messages) /\ c2s'[c] \in Seq(Requests)
      /\ \A v \in Viewers : host_of'[v] # None => host_of'[v] \in HostConns
  BY DEF IInv, TypeOK
<1>3. \A c \in Conns : Len(chan'[c]) \in Nat /\ Len(c2s'[c]) \in Nat
  BY <1>2, LenProperties
<1>4. \A c \in Conns : c2s'[c] # << >> => Len(c2s'[c]) >= 1
  BY <1>2, TailOf
<1>5. \A h \in HostConns : Left(h)' \in Nat
  BY <1>1, <1>3, <1>4 DEF Left
<1>6. \A v \in Viewers : ToStart(v)' \in {0, 1} /\ ToExpire(v)' \in {0, 1} /\ Due(v)' \in Nat
  <2> SUFFICES ASSUME NEW v \in Viewers
               PROVE  ToStart(v)' \in {0, 1} /\ ToExpire(v)' \in {0, 1} /\ Due(v)' \in Nat
    OBVIOUS
  <2>1. ToStart(v)' \in {0, 1} /\ ToExpire(v)' \in {0, 1}
    BY DEF ToStart, ToExpire
  <2>2. Len(chan'[v]) \in Nat
    BY <1>3, Constants
  <2>3. Due(v)' \in Nat
    BY <2>1, <2>2 DEF Due
  <2> QED BY <2>1, <2>3
<1>7. \A v \in Viewers : host_of'[v] # None => ToForward(v)' \in Nat
  BY <1>1, <1>2, <1>5 DEF ToForward
<1> QED BY <1>3, <1>6, <1>7

\* A request that the server takes in is not to come any more.
LEMMA Taken ==
  ASSUME IInv, NEW h \in HostConns, RequestAt(h), c2s[h] # << >>, c2s'[h] = Tail(c2s[h]),
         UNCHANGED <<cl, mysid>>
  PROVE  /\ RequestAt(h)' /\ Left(h)' <= Left(h)
         /\ Head(c2s[h]).t = "candidate" =>
              Left(h) >= 1 /\ Left(h)' = Left(h) - 1 /\ Head(c2s[h]).sid = mysid[h]
<1>1. Asked(h)' = Asked(h)
  BY DEF Asked
<1>2. /\ c2s[h] \in Seq(Asked(h)) /\ c2s'[h] \in Seq(Asked(h))
      /\ Head(c2s[h]) \in Asked(h) /\ Head(c2s[h]) = c2s[h][1]
      /\ Len(c2s[h]) \in Nat /\ Len(c2s[h]) >= 1 /\ Len(c2s'[h]) = Len(c2s[h]) - 1
      /\ \A i \in 1..Len(c2s'[h]) : c2s'[h][i] = c2s[h][i + 1]
  BY TailOf DEF RequestAt
<1>3. c2s'[h] = << >> <=> Len(c2s[h]) = 1
  <2>1. c2s'[h] = << >> <=> Len(c2s'[h]) = 0
    BY <1>2, EmptySeq
  <2> QED BY <1>2, <2>1
<1>4. cl[h] = "finished" => c2s[h][Len(c2s[h])].t = "done"
  BY DEF RequestAt
<1>5. cl[h] = "finished" => c2s'[h] = << >> \/ c2s'[h][Len(c2s'[h])].t = "done"
  <2> SUFFICES ASSUME cl[h] = "finished", c2s'[h] # << >> PROVE c2s'[h][Len(c2s'[h])].t = "done"
    OBVIOUS
  <2>1. Len(c2s'[h]) \in 1..Len(c2s'[h]) /\ Len(c2s'[h]) + 1 = Len(c2s[h])
    BY <1>2, <1>3
  <2> QED BY <1>2, <1>4, <2>1
<1>6. cl[h] \in {"registering", "waiting"} => Len(c2s'[h]) <= 0
  BY <1>2 DEF RequestAt
<1>7. RequestAt(h)'
  BY <1>1, <1>2, <1>5, <1>6 DEF RequestAt
<1>8. Left(h)' <= Left(h)
  BY <1>2, <1>3 DEF Left
<1>9. ASSUME Head(c2s[h]).t = "candidate"
      PROVE  Left(h) >= 1 /\ Left(h)' = Left(h) - 1 /\ Head(c2s[h]).sid = mysid[h]
  <2>1. cl[h] = "finished" => Len(c2s[h]) # 1
    BY <1>2, <1>4, <1>9
  <2>2. Head(c2s[h]).sid = mysid[h]
    BY <1>2, <1>9 DEF Asked
  <2> QED BY <1>2, <1>3, <2>1, <2>2 DEF Left
<1> QED BY <1>7, <1>8, <1>9

\* The server only takes requests in.
LEMMA RequestsTaken ==
  ASSUME IInv, RequestInv, UNCHANGED <<cl, mysid>>,
         \A h \in HostConns :
           /\ \/ c2s[h] # << >> /\ c2s'[h] = Tail(c2s[h])
              \/ c2s'[h] = c2s[h] /\ (task'[h] = task[h] \/ task[h] # "first" \/ (h \notin open /\ c2s[h] = << >>))
           /\ task'[h] = "first" => task[h] = "first" /\ \A v \in Viewers : host_of'[v] # h
  PROVE  RequestInv' /\ \A h \in HostConns : Left(h)' <= Left(h)
<1> SUFFICES ASSUME NEW h \in HostConns PROVE RequestAt(h)' /\ Left(h)' <= Left(h)
  BY DEF RequestInv
<1>1. RequestAt(h)
  BY DEF RequestInv
<1>2. CASE c2s[h] # << >> /\ c2s'[h] = Tail(c2s[h])
  BY <1>1, <1>2, Taken
<1>3. CASE c2s'[h] = c2s[h] /\ (task'[h] = task[h] \/ task[h] # "first" \/ (h \notin open /\ c2s[h] = << >>))
  <2>1. Asked(h)' = Asked(h)
    BY DEF Asked
  <2>2. /\ c2s[h] = << >> => Len(c2s[h]) = 0
        /\ h \notin open => cl[h] # "idle"
    BY Constants DEF IInv, ClientInv
  <2>3. RequestAt(h)'
    BY <1>1, <1>3, <2>1, <2>2 DEF RequestAt
  <2>4. Left(h)' = Left(h)
    BY <1>3 DEF Left
  <2> QED BY <2>3, <2>4, Numbers
<1> QED BY <1>2, <1>3

\* A step of the server that lets no more into the channels of viewers than was to come.
LEMMA ServerRoom ==
  ASSUME IInv, RoomInv, IInv', UNCHANGED <<cl, mysid>>,
         \A h \in HostConns :
           /\ \/ c2s[h] # << >> /\ c2s'[h] = Tail(c2s[h])
              \/ c2s'[h] = c2s[h] /\ (task'[h] = task[h] \/ task[h] # "first" \/ (h \notin open /\ c2s[h] = << >>))
           /\ task'[h] = "first" => task[h] = "first" /\ \A v \in Viewers : host_of'[v] # h,
         TimerOff', HostsGoOn',
         \A v \in Viewers :
           \/ RoomAt(v)'
           \/ /\ host_of'[v] = host_of[v] /\ Due(v)' <= Due(v)
              /\ host_of[v] # None \/ (chan[v] = << >> => chan'[v] = << >>)
  PROVE  RoomInv'
<1>1. RequestInv' /\ \A h \in HostConns : Left(h)' <= Left(h)
  BY RequestsTaken DEF RoomInv
<1> SUFFICES ASSUME NEW v \in Viewers PROVE RoomAt(v)'
  BY <1>1 DEF RoomInv
<1>2. RoomAt(v)
  BY DEF RoomInv
<1>3. CASE host_of'[v] = host_of[v] /\ host_of[v] = None /\ (chan[v] = << >> => chan'[v] = << >>)
  BY <1>2, <1>3 DEF RoomAt
<1>4. CASE host_of'[v] = host_of[v] /\ host_of[v] # None /\ Due(v)' <= Due(v)
  <2>1. host_of[v] \in HostConns
    BY <1>4, ServerTypes
  <2>2. ToForward(v)' <= ToForward(v)
    BY <1>1, <1>4, <2>1, Numbers DEF ToForward
  <2>3. /\ ToForward(v) \in Nat /\ ToForward(v)' \in Nat /\ MaxCands \in Nat
        /\ Due(v) \in Nat /\ Due(v)' \in Nat
    BY <1>4, Numbers, NumbersNext
  <2>4. Due(v) + ToForward(v) <= MaxCands + 2
    BY <1>2, <1>4 DEF RoomAt
  <2>5. Due(v)' + ToForward(v)' <= MaxCands + 2
    BY <1>4, <2>2, <2>3, <2>4
  <2> QED BY <1>4, <2>5 DEF RoomAt
<1> QED BY <1>3, <1>4

\* The registration of a host lets nothing into the channel of a viewer.
LEMMA RoomHostTask ==
  ASSUME IInv, RoomInv, IInv', UNCHANGED clientVars, NEW h \in HostConns, HostTask(h)
  PROVE  RoomInv'
<1>1. /\ UNCHANGED <<host_of, timer, waiting, cl, mysid>>
      /\ \A x \in Conns : x # h => task'[x] = task[x] /\ chan'[x] = chan[x] /\ c2s'[x] = c2s[x]
      /\ task'[h] # "first"
      /\ \/ c2s'[h] = c2s[h] /\ task[h] # "first"
         \/ c2s[h] # << >> /\ c2s'[h] = Tail(c2s[h])
  <2>1. /\ h \in Conns /\ task \in [Conns -> HostTasks \union ViewerTasks]
        /\ chan \in [Conns -> Seq(Messages)] /\ c2s \in [Conns -> Seq(Requests)]
    BY ServerTypes, Constants
  <2>2. UNCHANGED <<cl, mysid>>
    BY DEF clientVars
  <2>3. CASE RegisterRefused(h)
    BY <2>1, <2>2, <2>3 DEF RegisterRefused, Finish, Consume, Incoming
  <2>4. CASE RegisterVerified(h)
    BY <2>1, <2>2, <2>4 DEF RegisterVerified, Finish, Consume, Incoming
  <2>5. CASE RegisterInserted(h)
    BY <2>1, <2>2, <2>5 DEF RegisterInserted
  <2>6. CASE RegisterReplied(h)
    BY <2>1, <2>2, <2>6 DEF RegisterReplied, Finish
  <2>7. CASE HostExit(h)
    BY <2>1, <2>2, <2>7 DEF HostExit, Finish
  <2> QED BY <2>3, <2>4, <2>5, <2>6, <2>7 DEF HostTask
<1>2. \A v \in Viewers : v \in Conns /\ v # h
  BY Constants
<1>3. TimerOff' /\ HostsGoOn'
  BY <1>1, <1>2 DEF RoomInv, TimerOff, HostsGoOn
<1>4. \A v \in Viewers : Due(v)' = Due(v) /\ chan'[v] = chan[v] /\ host_of'[v] = host_of[v]
  BY <1>1, <1>2 DEF Due, ToStart, ToExpire
<1>5. \A v \in Viewers : Due(v)' <= Due(v)
  BY <1>4, Numbers
<1>6. \A g \in HostConns :
        /\ \/ c2s[g] # << >> /\ c2s'[g] = Tail(c2s[g])
           \/ c2s'[g] = c2s[g] /\ (task'[g] = task[g] \/ task[g] # "first" \/ (g \notin open /\ c2s[g] = << >>))
        /\ task'[g] = "first" => task[g] = "first" /\ \A v \in Viewers : host_of'[v] # g
  BY <1>1, Constants DEF RoomInv, RequestInv
<1> QED BY <1>1, <1>3, <1>4, <1>5, <1>6, ServerRoom

\* What a step of a viewer's task or loop leaves alone at the hosts.
AtHosts(v) ==
  /\ UNCHANGED <<cl, mysid>>
  /\ \A x \in Conns : x # v => task'[x] = task[x] /\ c2s'[x] = c2s[x] /\ waiting'[x] = waiting[x]

\* Such a step keeps the rest if the viewer's own channel is not filled by it.
LEMMA RoomViewer ==
  ASSUME IInv, RoomInv, IInv', NEW v \in Viewers, AtHosts(v),
         \A x \in Viewers : x # v =>
           /\ host_of'[x] = host_of[x] /\ timer'[x] = timer[x] /\ chan'[x] = chan[x],
         \A h \in HostConns : task[h] = "first" => host_of'[v] # h,
         task'[v] \in {"first", "notify_host", "notify_viewer"} => timer'[v] = "off",
         \/ RoomAt(v)'
         \/ /\ host_of'[v] = host_of[v] /\ Due(v)' <= Due(v)
            /\ host_of[v] # None \/ (chan[v] = << >> => chan'[v] = << >>)
  PROVE  RoomInv'
<1>1. \A h \in HostConns : h \in Conns /\ h # v
  BY Constants
<1>2. \A x \in Viewers : x \in Conns
  BY Constants
<1>3. TimerOff' /\ HostsGoOn'
  BY <1>1, <1>2 DEF RoomInv, TimerOff, HostsGoOn, AtHosts
<1>4. \A x \in Viewers : x # v => Due(x)' = Due(x)
  BY <1>2 DEF Due, ToStart, ToExpire, AtHosts
<1>5. \A x \in Viewers : x # v => Due(x)' <= Due(x)
  BY <1>4, Numbers
<1>6. \A g \in HostConns :
        /\ c2s'[g] = c2s[g] /\ task'[g] = task[g]
        /\ task'[g] = "first" => task[g] = "first" /\ \A x \in Viewers : host_of'[x] # g
  BY <1>1 DEF RoomInv, RequestInv, AtHosts
<1>7. \A x \in Viewers :
        \/ RoomAt(x)'
        \/ /\ host_of'[x] = host_of[x] /\ Due(x)' <= Due(x)
           /\ host_of[x] # None \/ (chan[x] = << >> => chan'[x] = << >>)
  BY <1>5
<1>8. UNCHANGED <<cl, mysid>>
  BY DEF AtHosts
<1> QED BY <1>3, <1>6, <1>7, <1>8, ServerRoom

\* A send to a host lets nothing into the channel of a viewer, any other one message.
LEMMA SentTo ==
  ASSUME IInv, NEW c \in Conns, NEW m, SendChan(c, m)
  PROVE  /\ \A x \in Conns : x # c => chan'[x] = chan[x]
         /\ Len(chan'[c]) <= Len(chan[c]) + 1
<1>1. chan \in [Conns -> Seq(Messages)]
  BY ServerTypes
<1>2. Len(chan[c]) \in Nat
  BY Numbers
<1>3. CASE UNCHANGED chan
  BY <1>2, <1>3
<1>4. CASE chan' = [chan EXCEPT ![c] = Append(@, m)]
  <2>1. chan[c] \in Seq(Messages \union {m})
    BY <1>1, SeqMonotonic
  <2>2. Len(Append(chan[c], m)) = Len(chan[c]) + 1
    BY <2>1, AppendProperties
  <2>3. chan'[c] = Append(chan[c], m) /\ \A x \in Conns : x # c => chan'[x] = chan[x]
    BY <1>1, <1>4
  <2> QED BY <1>2, <2>2, <2>3
<1> QED BY <1>3, <1>4 DEF SendChan

\* The session of a viewer that connects: nothing is on its way to it.
LEMMA RoomSession ==
  ASSUME IInv, RoomInv, IInv', UNCHANGED clientVars, NEW v \in Viewers, ConnectSession(v)
  PROVE  RoomInv'
<1> DEFINE h == hosts[Wants[v]]
<1>1. /\ v \in Conns /\ task \in [Conns -> HostTasks \union ViewerTasks]
      /\ c2s \in [Conns -> Seq(Requests)] /\ host_of \in [Viewers -> HostConns \union {None}]
  BY ServerTypes, Constants
<1>2. /\ task[v] = "first" /\ h # None /\ UNCHANGED <<chan, timer, waiting, cl, mysid>>
      /\ host_of' = [host_of EXCEPT ![v] = h] /\ task' = [task EXCEPT ![v] = "notify_host"]
      /\ c2s' = [c2s EXCEPT ![v] = Tail(@)]
  BY DEF ConnectSession, Consume, clientVars
<1>3. h \in HostConns /\ task[h] \in {"inserted", "host_loop"} /\ h # v /\ h \in Conns
  <2>1. Wants[v] \in HostIds
    BY Constants
  <2> QED BY <1>2, <2>1, ServerTypes, Constants DEF IInv, RegistryInv
<1> HIDE DEF h
<1>4. host_of[v] = None /\ chan[v] = << >> /\ timer[v] = "off"
  BY <1>2 DEF IInv, TaskInv, RoomInv, RoomAt, TimerOff
<1>5. AtHosts(v)
  BY <1>1, <1>2 DEF AtHosts
<1>6. \A x \in Viewers : x # v =>
        host_of'[x] = host_of[x] /\ timer'[x] = timer[x] /\ chan'[x] = chan[x]
  BY <1>1, <1>2
<1>7. \A g \in HostConns : task[g] = "first" => host_of'[v] # g
  BY <1>1, <1>2, <1>3
<1>8. RoomAt(v)'
  <2>1. host_of'[v] = h /\ h # None /\ chan'[v] = << >>
    BY <1>1, <1>2, <1>4
  <2>2. mysid[h] # v
    BY <1>3, <1>4, Constants DEF IInv, ClientInv
  <2>3. ToForward(v)' \in {0, MaxCands}
    BY <1>2, <2>1, <2>2 DEF ToForward
  <2>4. Due(v)' <= 2
    <3>1. ToStart(v)' \in {0, 1} /\ ToExpire(v)' \in {0, 1}
      BY NumbersNext
    <3>2. Len(chan'[v]) = 0
      BY <2>1
    <3> QED BY <3>1, <3>2 DEF Due
  <2>5. Due(v)' \in Nat /\ MaxCands \in Nat
    BY Numbers, NumbersNext
  <2>6. Due(v)' + ToForward(v)' <= MaxCands + 2
    BY <2>3, <2>4, <2>5
  <2> QED BY <2>1, <2>6 DEF RoomAt
<1>9. timer'[v] = "off"
  BY <1>2, <1>4
<1> QED BY <1>5, <1>6, <1>7, <1>8, <1>9, RoomViewer

\* The other steps of a viewer's task.
LEMMA RoomViewerTask ==
  ASSUME IInv, RoomInv, IInv', UNCHANGED clientVars, NEW v \in Viewers, ViewerTask(v)
  PROVE  RoomInv'
<1>1. /\ v \in Conns /\ task \in [Conns -> HostTasks \union ViewerTasks]
      /\ chan \in [Conns -> Seq(Messages)] /\ c2s \in [Conns -> Seq(Requests)]
      /\ host_of \in [Viewers -> HostConns \union {None}]
      /\ timer \in [Viewers -> {"off", "armed", "tell_host", "tell_viewer", "done"}]
  BY ServerTypes, Constants
<1>2. UNCHANGED <<cl, mysid>>
  BY DEF clientVars
<1>3. /\ Due(v) \in Nat /\ Len(chan[v]) \in Nat
      /\ ToStart(v) \in {0, 1} /\ ToExpire(v) \in {0, 1}
      /\ ToStart(v)' \in {0, 1} /\ ToExpire(v)' \in {0, 1}
  BY <1>1, Numbers, NumbersNext
<1>4. \A g \in HostConns : task[g] = "first" => host_of[v] # g
  BY DEF RoomInv, RequestInv
<1>5. task[v] \in {"first", "notify_host", "notify_viewer"} => timer[v] = "off"
  BY DEF RoomInv, TimerOff
<1>6. CASE ConnectNotFound(v)
  <2>1. /\ task' = [task EXCEPT ![v] = "closed"] /\ c2s' = [c2s EXCEPT ![v] = Tail(@)]
        /\ UNCHANGED <<host_of, chan, waiting, timer>>
    BY <1>6 DEF ConnectNotFound, Finish, Consume
  <2>2. AtHosts(v)
    BY <1>1, <1>2, <2>1 DEF AtHosts
  <2>3. Due(v)' <= Due(v)
    <3>1. ToStart(v)' = 0 /\ ToExpire(v)' = ToExpire(v)
      BY <1>1, <2>1 DEF ToStart, ToExpire
    <3> QED BY <1>3, <2>1, <3>1 DEF Due
  <2> QED BY <1>1, <1>4, <2>1, <2>2, <2>3, RoomViewer
<1>7. CASE ConnectHostTold(v)
  <2>1. /\ task[v] = "notify_host" /\ task' = [task EXCEPT ![v] = "notify_viewer"]
        /\ SendChan(host_of[v], [t |-> "session_start", sid |-> v])
        /\ UNCHANGED <<host_of, waiting, timer, c2s>>
    BY <1>7 DEF ConnectHostTold, NotifyHost
  <2>2. host_of[v] \in HostConns
    BY <1>1, <2>1 DEF IInv, TaskInv
  <2>3. \A x \in Viewers : chan'[x] = chan[x]
    BY <2>1, <2>2, SentTo, Constants
  <2>4. AtHosts(v)
    BY <1>1, <1>2, <2>1 DEF AtHosts
  <2>5. Due(v)' <= Due(v)
    <3>1. ToStart(v)' = ToStart(v) /\ ToExpire(v)' = ToExpire(v)
      BY <1>1, <2>1 DEF ToStart, ToExpire
    <3> QED BY <1>3, <2>3, <3>1 DEF Due
  <2> QED BY <1>1, <1>4, <1>5, <2>1, <2>3, <2>4, <2>5, RoomViewer
<1>8. CASE ConnectViewerTold(v)
  <2>1. /\ task[v] = "notify_viewer" /\ task' = [task EXCEPT ![v] = "viewer_loop"]
        /\ SendChan(v, [t |-> "session_start", sid |-> v, key |-> KeyOf[host_of[v]]])
        /\ timer' = [timer EXCEPT ![v] = "armed"] /\ UNCHANGED <<host_of, waiting, c2s>>
    BY <1>8 DEF ConnectViewerTold
  <2>2. Len(chan'[v]) <= Len(chan[v]) + 1 /\ \A x \in Viewers : x # v => chan'[x] = chan[x]
    BY <1>1, <2>1, SentTo, Constants
  <2>3. AtHosts(v)
    BY <1>1, <1>2, <2>1 DEF AtHosts
  <2>4. Due(v)' <= Due(v)
    <3>1. ToStart(v) = 1 /\ ToStart(v)' = 0 /\ ToExpire(v)' = 1 /\ ToExpire(v) = 1
      BY <1>1, <1>5, <2>1 DEF ToStart, ToExpire
    <3>2. Len(chan'[v]) \in Nat
      BY <1>1, NumbersNext
    <3> QED BY <1>3, <2>2, <3>1, <3>2 DEF Due
  <2>5. host_of[v] # None
    BY <2>1 DEF IInv, TaskInv
  <2> QED BY <1>1, <1>4, <2>1, <2>2, <2>3, <2>4, <2>5, RoomViewer
<1>9. CASE ViewerBreaks(v)
  <2>1. /\ task' = [task EXCEPT ![v] = "leaving"]
        /\ UNCHANGED <<host_of, chan, waiting, timer, c2s>>
    BY <1>9 DEF ViewerBreaks
  <2>2. AtHosts(v)
    BY <1>1, <1>2, <2>1 DEF AtHosts
  <2>3. Due(v)' <= Due(v)
    <3>1. ToStart(v)' = 0 /\ ToExpire(v)' = ToExpire(v)
      BY <1>1, <2>1 DEF ToStart, ToExpire
    <3> QED BY <1>3, <2>1, <3>1 DEF Due
  <2> QED BY <1>1, <1>4, <2>1, <2>2, <2>3, RoomViewer
<1>10. CASE ViewerExit(v)
  <2>1. /\ task' = [task EXCEPT ![v] = "closed"] /\ chan' = [chan EXCEPT ![v] = << >>]
        /\ UNCHANGED <<host_of, waiting, timer, c2s>>
    BY <1>10 DEF ViewerExit, Finish
  <2>2. AtHosts(v)
    BY <1>1, <1>2, <2>1 DEF AtHosts
  <2>3. Due(v)' <= Due(v)
    <3>1. ToStart(v)' = 0 /\ ToExpire(v)' = ToExpire(v) /\ Len(chan'[v]) = 0
      BY <1>1, <2>1 DEF ToStart, ToExpire
    <3> QED BY <1>3, <3>1 DEF Due
  <2> QED BY <1>1, <1>4, <2>1, <2>2, <2>3, RoomViewer
<1> QED BY <1>6, <1>7, <1>8, <1>9, <1>10, RoomSession DEF ViewerTask

\* The timeout task of a session: its Error is counted from the start.
LEMMA RoomTimer ==
  ASSUME IInv, RoomInv, IInv', UNCHANGED clientVars, NEW v \in Viewers, TimeoutTask(v)
  PROVE  RoomInv'
<1>1. /\ v \in Conns /\ chan \in [Conns -> Seq(Messages)]
      /\ host_of \in [Viewers -> HostConns \union {None}]
      /\ timer \in [Viewers -> {"off", "armed", "tell_host", "tell_viewer", "done"}]
  BY ServerTypes, Constants
<1>2. UNCHANGED <<task, waiting, c2s, host_of, cl, mysid>> /\ AtHosts(v)
  BY DEF TimeoutTask, TimerFires, TimerTells, clientVars, AtHosts
<1>3. /\ Len(chan[v]) \in Nat /\ Len(chan'[v]) \in Nat
      /\ ToStart(v) \in {0, 1} /\ ToExpire(v) \in {0, 1} /\ ToExpire(v)' \in {0, 1}
  BY <1>1, Numbers, NumbersNext
<1>4. ToStart(v)' = ToStart(v)
  BY <1>2 DEF ToStart
<1>5. \A g \in HostConns : task[g] = "first" => host_of[v] # g
  BY DEF RoomInv, RequestInv
<1>6. timer[v] # "off" /\ timer[v] # "done" /\ \A x \in Viewers : x # v => timer'[x] = timer[x]
  BY <1>1 DEF TimeoutTask, TimerFires, TimerTells
<1>7. task[v] \notin {"first", "notify_host", "notify_viewer"} /\ host_of[v] \in HostConns
  BY <1>1, <1>6 DEF RoomInv, TimerOff, IInv, TimerInv
<1>8. Due(v)' <= Due(v) /\ \A x \in Viewers : x # v => chan'[x] = chan[x]
  <2>1. CASE TimerFires(v)
    <3>1. UNCHANGED chan
      BY <2>1 DEF TimerFires
    <3>2. ToExpire(v) = 1
      BY <1>6 DEF ToExpire
    <3> QED BY <1>3, <1>4, <3>1, <3>2 DEF Due
  <2>2. CASE timer[v] = "tell_host" /\ SendChan(host_of[v], [t |-> "error"])
    <3>1. \A x \in Viewers : chan'[x] = chan[x]
      BY <1>7, <2>2, SentTo, Constants
    <3>2. ToExpire(v) = 1
      BY <1>6 DEF ToExpire
    <3> QED BY <1>3, <1>4, <3>1, <3>2 DEF Due
  <2>3. CASE /\ timer[v] = "tell_viewer" /\ SendChan(v, [t |-> "error"])
             /\ timer' = [timer EXCEPT ![v] = "done"]
    <3>1. Len(chan'[v]) <= Len(chan[v]) + 1 /\ \A x \in Viewers : x # v => chan'[x] = chan[x]
      BY <1>1, <2>3, SentTo, Constants
    <3>2. ToExpire(v) = 1 /\ ToExpire(v)' = 0
      BY <1>1, <2>3 DEF ToExpire
    <3> QED BY <1>3, <1>4, <3>1, <3>2 DEF Due
  <2> QED BY <2>1, <2>2, <2>3 DEF TimeoutTask, TimerTells
<1>9. host_of[v] # None
  BY <1>7, Constants
<1> QED BY <1>2, <1>5, <1>6, <1>7, <1>8, <1>9, RoomViewer

\* A request of a connection is taken in and nothing else changes for the viewers.
LEMMA RoomTaken ==
  ASSUME IInv, RoomInv, IInv', NEW c \in Conns,
         UNCHANGED <<cl, mysid, task, timer, host_of>>,
         c2s[c] # << >>, c2s' = [c2s EXCEPT ![c] = Tail(@)],
         \A x \in Viewers : RoomAt(x)' \/ chan'[x] = chan[x],
         HostsGoOn'
  PROVE  RoomInv'
<1>1. c2s \in [Conns -> Seq(Requests)] /\ HostConns \subseteq Conns
  BY ServerTypes, Constants
<1>2. \A x \in Viewers : chan'[x] = chan[x] => Due(x)' <= Due(x)
  <2> SUFFICES ASSUME NEW x \in Viewers, chan'[x] = chan[x] PROVE Due(x)' <= Due(x)
    OBVIOUS
  <2>1. Due(x)' = Due(x)
    BY DEF Due, ToStart, ToExpire
  <2> QED BY <2>1, Numbers
<1>3. \A g \in HostConns :
        /\ \/ c2s[g] # << >> /\ c2s'[g] = Tail(c2s[g])
           \/ c2s'[g] = c2s[g] /\ task'[g] = task[g]
        /\ task'[g] = "first" => task[g] = "first" /\ \A v \in Viewers : host_of'[v] # g
  BY <1>1 DEF RoomInv, RequestInv
<1>4. TimerOff'
  BY DEF RoomInv, TimerOff
<1> QED BY <1>2, <1>3, <1>4, ServerRoom

\* A step that takes no request in and fills no channel of a viewer.
LEMMA RoomSame ==
  ASSUME IInv, RoomInv, IInv', UNCHANGED <<cl, mysid, timer, host_of, c2s>>,
         \A x \in Conns : task'[x] = task[x] \/ (task'[x] = "closed" /\ x \notin open /\ c2s[x] = << >>),
         \A x \in Viewers : chan'[x] = chan[x] \/ (chan[x] # << >> /\ chan'[x] = Tail(chan[x])),
         HostsGoOn'
  PROVE  RoomInv'
<1>1. \A x \in Viewers : Due(x)' <= Due(x) /\ (chan[x] = << >> => chan'[x] = << >>)
  <2> SUFFICES ASSUME NEW x \in Viewers PROVE Due(x)' <= Due(x) /\ (chan[x] = << >> => chan'[x] = << >>)
    OBVIOUS
  <2>1. /\ x \in Conns /\ chan[x] \in Seq(Messages) /\ Len(chan[x]) \in Nat
        /\ ToStart(x) \in {0, 1} /\ ToStart(x)' \in {0, 1}
    BY ServerTypes, Constants, Numbers, NumbersNext
  <2>2. ToExpire(x)' = ToExpire(x) /\ ToExpire(x) \in {0, 1}
    BY Numbers DEF ToExpire
  <2>3. ToStart(x)' <= ToStart(x)
    <3>1. ToStart(x)' = ToStart(x) \/ ToStart(x)' = 0
      BY <2>1 DEF ToStart
    <3> QED BY <2>1, <3>1
  <2>4. Len(chan'[x]) \in Nat /\ Len(chan'[x]) <= Len(chan[x])
    <3>1. CASE chan'[x] = chan[x]
      BY <2>1, <3>1
    <3>2. CASE chan[x] # << >> /\ chan'[x] = Tail(chan[x])
      <4>1. Len(chan'[x]) = Len(chan[x]) - 1 /\ Len(chan[x]) >= 1
        BY <2>1, <3>2, TailOf
      <4> QED BY <2>1, <4>1
    <3> QED BY <3>1, <3>2
  <2> QED BY <2>1, <2>2, <2>3, <2>4 DEF Due
<1>2. \A g \in HostConns :
        /\ c2s'[g] = c2s[g] /\ (task'[g] = task[g] \/ task[g] # "first" \/ (g \notin open /\ c2s[g] = << >>))
        /\ task'[g] = "first" => task[g] = "first" /\ \A v \in Viewers : host_of'[v] # g
  BY Constants DEF RoomInv, RequestInv
<1>3. TimerOff'
  BY Constants DEF RoomInv, TimerOff
<1> QED BY <1>1, <1>2, <1>3, ServerRoom

\* The next request of a host is a candidate of its session: it was to come.
LEMMA NextCandidate ==
  ASSUME IInv, RoomInv, NEW h \in HostConns, Incoming(h, "candidate"), Consume(h),
         UNCHANGED <<cl, mysid>>
  PROVE  LET sid == Head(c2s[h]).sid
         IN  /\ sid \in Viewers /\ host_of[sid] = h /\ mysid[h] = sid
             /\ Left(h) >= 1 /\ Left(h)' = Left(h) - 1
             /\ Due(sid) + Left(h) <= MaxCands + 2
<1> DEFINE r == Head(c2s[h])
<1>1. h \in Conns /\ c2s \in [Conns -> Seq(Requests)]
  BY ServerTypes, Constants
<1>2. c2s[h] # << >> /\ r.t = "candidate" /\ c2s'[h] = Tail(c2s[h]) /\ r \in Outbox(h)
  BY <1>1, ConsumeType DEF Incoming, Consume
<1>3. r.sid \in Viewers /\ host_of[r.sid] = h
  BY <1>2, Constants DEF Outbox, Requests
<1>4. Left(h) >= 1 /\ Left(h)' = Left(h) - 1 /\ r.sid = mysid[h]
  BY <1>2, Taken DEF RoomInv, RequestInv
<1> HIDE DEF r
<1>5. Due(r.sid) + Left(h) <= MaxCands + 2
  <2>1. ToForward(r.sid) = Left(h)
    BY <1>3, <1>4, Constants DEF ToForward
  <2>2. RoomAt(r.sid) /\ h # None
    BY <1>3, Constants DEF RoomInv
  <2> QED BY <1>3, <2>1, <2>2 DEF RoomAt
<1> QED BY <1>3, <1>4, <1>5 DEF r

\* A candidate of a viewer goes to its host.
LEMMA ToHost ==
  ASSUME IInv, RoomInv, NEW v \in Viewers, NEW sid, NEW m,
         task[v] = "viewer_loop", sid = v, SendChan(OtherEnd(v, sid), m)
  PROVE  \A x \in Viewers : chan'[x] = chan[x]
<1>1. host_of[v] \in HostConns
  BY ServerTypes DEF IInv, TaskInv
<1>2. OtherEnd(v, sid) = host_of[v]
  BY DEF OtherEnd
<1> QED BY <1>1, <1>2, SentTo, Constants

\* One more message in the channel of a viewer is one more in all.
LEMMA OneMore ==
  ASSUME IInv, IInv', NEW v \in Viewers
  PROVE  /\ Len(chan[v]) <= Due(v)
         /\ UNCHANGED <<task, timer>> /\ Len(chan'[v]) <= Len(chan[v]) + 1 => Due(v)' <= Due(v) + 1
<1>1. /\ ToStart(v) \in {0, 1} /\ ToExpire(v) \in {0, 1}
      /\ Len(chan[v]) \in Nat /\ Len(chan'[v]) \in Nat
  BY Numbers, NumbersNext, Constants
<1>2. Len(chan[v]) <= Due(v)
  BY <1>1 DEF Due
<1>3. ASSUME UNCHANGED <<task, timer>>, Len(chan'[v]) <= Len(chan[v]) + 1
      PROVE  Due(v)' <= Due(v) + 1
  <2>1. ToStart(v)' = ToStart(v) /\ ToExpire(v)' = ToExpire(v)
    BY <1>3 DEF ToStart, ToExpire
  <2> QED BY <1>1, <1>3, <2>1 DEF Due
<1> QED BY <1>2, <1>3

LEMMA RoomForward ==
  ASSUME IInv, RoomInv, IInv', UNCHANGED clientVars, NEW c \in Conns, Forward(c)
  PROVE  RoomInv'
<1> PICK sid : sid = Head(c2s[c]).sid
  OBVIOUS
<1>1. /\ Looping(c) /\ Incoming(c, "candidate") /\ Consume(c)
      /\ UNCHANGED <<host_of, task, waiting, timer, cl, mysid>>
      /\ \/ SendChan(OtherEnd(c, sid), PeerCandidate(c, sid))
         \/ UNCHANGED chan
  BY DEF Forward, clientVars
<1>2. c2s[c] # << >> /\ c2s' = [c2s EXCEPT ![c] = Tail(@)] /\ HostsGoOn'
  BY <1>1 DEF Incoming, Consume, RoomInv, HostsGoOn
<1>3. CASE UNCHANGED chan
  BY <1>1, <1>2, <1>3, RoomTaken
<1>4. CASE c \in Viewers /\ SendChan(OtherEnd(c, sid), PeerCandidate(c, sid))
  <2>1. task[c] = "viewer_loop"
    BY <1>1, <1>4, Constants DEF Looping, IInv, TaskInv, ViewerTasks
  <2>2. sid = c
    BY <1>1, <1>4, ConsumeType DEF Outbox
  <2>3. \A x \in Viewers : chan'[x] = chan[x]
    BY <1>4, <2>1, <2>2, ToHost
  <2> QED BY <1>1, <1>2, <2>3, RoomTaken
<1>5. CASE c \in HostConns /\ SendChan(OtherEnd(c, sid), PeerCandidate(c, sid))
  <2>1. /\ sid \in Viewers /\ host_of[sid] = c /\ mysid[c] = sid
        /\ Left(c) >= 1 /\ Left(c)' = Left(c) - 1 /\ Due(sid) + Left(c) <= MaxCands + 2
    BY <1>1, <1>5, NextCandidate
  <2>2. OtherEnd(c, sid) = sid /\ sid \in Conns
    BY <1>5, <2>1, Constants DEF OtherEnd
  <2>3. Len(chan'[sid]) <= Len(chan[sid]) + 1 /\ \A x \in Viewers : x # sid => chan'[x] = chan[x]
    BY <1>5, <2>2, SentTo, Constants
  <2>4. Due(sid)' <= Due(sid) + 1
    BY <1>1, <2>1, <2>3, OneMore
  <2>5. Due(sid) \in Nat /\ Due(sid)' \in Nat /\ Left(c) \in Nat /\ MaxCands \in Nat
    BY <1>5, <2>1, Numbers, NumbersNext
  <2>6. RoomAt(sid)'
    <3>1. ToForward(sid)' = Left(c)'
      BY <1>1, <2>1, Constants DEF ToForward
    <3>2. Due(sid)' + ToForward(sid)' <= MaxCands + 2
      BY <2>1, <2>4, <2>5, <3>1
    <3>3. host_of'[sid] # None
      BY <1>1, <1>5, <2>1, Constants
    <3> QED BY <3>2, <3>3 DEF RoomAt
  <2>7. \A x \in Viewers : RoomAt(x)' \/ chan'[x] = chan[x]
    BY <2>3, <2>6
  <2> QED BY <1>1, <1>2, <2>7, RoomTaken
<1> QED BY <1>1, <1>3, <1>4, <1>5 DEF Conns

\* A host never finds its viewer's channel full.
LEMMA RoomForwardWaits ==
  ASSUME Large, IInv, RoomInv, IInv', UNCHANGED clientVars, NEW c \in Conns, ForwardWaits(c)
  PROVE  RoomInv'
<1> PICK sid : sid = Head(c2s[c]).sid
  OBVIOUS
<1>1. /\ Incoming(c, "candidate") /\ Consume(c) /\ ~Room(OtherEnd(c, sid))
      /\ UNCHANGED <<host_of, task, chan, timer, cl, mysid>>
      /\ waiting' = [waiting EXCEPT ![c] = [op |-> "send", sid |-> sid]]
  BY DEF ForwardWaits, clientVars
<1>2. CASE c \in HostConns
  <2>1. /\ sid \in Viewers /\ Left(c) >= 1 /\ Due(sid) + Left(c) <= MaxCands + 2
    BY <1>1, <1>2, NextCandidate
  <2>2. OtherEnd(c, sid) = sid /\ sid \in Conns
    BY <1>2, <2>1, Constants DEF OtherEnd
  <2>3. /\ Left(c) \in Nat /\ Len(chan[sid]) \in Nat /\ MaxCands \in Nat /\ SEND_CHAN_CAP \in Nat
        /\ ToStart(sid) \in {0, 1} /\ ToExpire(sid) \in {0, 1}
    BY <1>2, <2>1, <2>2, Numbers
  <2>4. Len(chan[sid]) <= Due(sid) /\ Due(sid) \in Nat
    BY <2>1, OneMore, Numbers
  <2>5. Len(chan[sid]) < SEND_CHAN_CAP
    <3> DEFINE n == Len(chan[sid])  d == Due(sid)  l == Left(c)
    <3>1. /\ n \in Nat /\ d \in Nat /\ l \in Nat /\ MaxCands \in Nat /\ SEND_CHAN_CAP \in Nat
          /\ n <= d /\ l >= 1 /\ d + l <= MaxCands + 2 /\ SEND_CHAN_CAP >= MaxCands + 2
      BY <2>1, <2>3, <2>4 DEF Large
    <3> HIDE DEF n, d, l
    <3>2. n < SEND_CHAN_CAP
      BY <3>1
    <3> QED BY <3>2 DEF n
  <2> QED BY <1>1, <2>2, <2>5 DEF Room
<1>3. CASE c \in Viewers
  <2>1. \A h \in HostConns : waiting'[h] = waiting[h]
    BY <1>1, <1>3, ServerTypes, Constants
  <2>2. HostsGoOn'
    BY <2>1 DEF RoomInv, HostsGoOn
  <2>3. c2s[c] # << >> /\ c2s' = [c2s EXCEPT ![c] = Tail(@)]
    BY <1>1 DEF Incoming, Consume
  <2> QED BY <1>1, <2>2, <2>3, RoomTaken
<1> QED BY <1>2, <1>3 DEF Conns

\* The other steps of a loop.
LEMMA RoomLoopTask ==
  ASSUME Large, IInv, RoomInv, IInv', UNCHANGED clientVars, NEW c \in Conns, LoopTask(c)
  PROVE  RoomInv'
<1>1. /\ waiting \in [Conns -> [op : {"send", "remove"}, sid : Viewers] \union {None}]
      /\ chan \in [Conns -> Seq(Messages)] /\ task \in [Conns -> HostTasks \union ViewerTasks]
      /\ HostConns \subseteq Conns /\ Viewers \subseteq Conns /\ None \notin Conns
  BY ServerTypes, Constants
<1>2. UNCHANGED <<cl, mysid>>
  BY DEF clientVars
<1>3. HostsGoOn
  BY DEF RoomInv
<1>4. CASE FirstClosed(c)
  <2>1. c2s[c] = << >> /\ c \notin open /\ task' = [task EXCEPT ![c] = "closed"]
        /\ UNCHANGED <<chan, waiting, timer, host_of, c2s>>
    BY <1>4 DEF FirstClosed, Finish
  <2>2. HostsGoOn'
    BY <1>3, <2>1 DEF HostsGoOn
  <2> QED BY <1>1, <1>2, <2>1, <2>2, RoomSame
<1>5. CASE ForwardResumes(c)
  <2>1. /\ waiting[c] # None /\ waiting[c].op = "send"
        /\ SendChan(OtherEnd(c, waiting[c].sid), PeerCandidate(c, waiting[c].sid))
        /\ waiting' = [waiting EXCEPT ![c] = None]
        /\ UNCHANGED <<host_of, task, timer, c2s>>
    BY <1>5 DEF ForwardResumes
  <2>2. c \in Viewers
    BY <1>3, <2>1 DEF HostsGoOn, Conns
  <2>3. task[c] = "viewer_loop" /\ waiting[c].sid = c
    BY <2>1, <2>2, Constants DEF IInv, TaskInv, ViewerTasks
  <2>4. \A x \in Viewers : chan'[x] = chan[x]
    BY <2>1, <2>2, <2>3, ToHost
  <2>5. HostsGoOn'
    BY <1>1, <1>3, <2>1 DEF HostsGoOn
  <2> QED BY <1>2, <2>1, <2>4, <2>5, RoomSame
<1>6. CASE DoneReceived(c)
  <2> DEFINE sid == IF c \in Viewers THEN c ELSE Head(c2s[c]).sid
  <2>1. /\ c2s[c] # << >> /\ c2s' = [c2s EXCEPT ![c] = Tail(@)]
        /\ UNCHANGED <<host_of, task, chan, timer>>
        /\ \/ UNCHANGED waiting
           \/ waiting' = [waiting EXCEPT ![c] = [op |-> "remove", sid |-> sid]]
    BY <1>6 DEF DoneReceived, Incoming, Consume
  <2> HIDE DEF sid
  <2>2. \A h \in HostConns : waiting'[h] = waiting[h] \/ waiting'[h] = [op |-> "remove", sid |-> sid]
    BY <1>1, <2>1
  <2>3. HostsGoOn'
    <3> SUFFICES ASSUME NEW h \in HostConns, waiting'[h] # None PROVE waiting'[h].op = "remove"
      BY DEF HostsGoOn
    <3>1. CASE waiting'[h] = waiting[h]
      BY <1>3, <3>1 DEF HostsGoOn
    <3>2. CASE waiting'[h] = [op |-> "remove", sid |-> sid]
      BY <3>2
    <3> QED BY <2>2, <3>1, <3>2
  <2> QED BY <1>2, <2>1, <2>3, RoomTaken
<1>7. CASE RemoveResumes(c)
  <2>1. waiting' = [waiting EXCEPT ![c] = None] /\ UNCHANGED <<host_of, task, chan, timer, c2s>>
    BY <1>7 DEF RemoveResumes
  <2>2. HostsGoOn'
    BY <1>1, <1>3, <2>1 DEF HostsGoOn
  <2> QED BY <1>2, <2>1, <2>2, RoomSame
<1>8. CASE Outbound(c)
  <2>1. /\ chan[c] # << >> /\ chan' = [chan EXCEPT ![c] = Tail(@)]
        /\ UNCHANGED <<host_of, task, waiting, timer, c2s>>
    BY <1>8 DEF Outbound
  <2>2. HostsGoOn'
    BY <1>3, <2>1 DEF HostsGoOn
  <2>3. \A x \in Viewers : chan'[x] = chan[x] \/ (chan[x] # << >> /\ chan'[x] = Tail(chan[x]))
    BY <1>1, <2>1
  <2> QED BY <1>2, <2>1, <2>2, <2>3, RoomSame
<1> QED BY <1>4, <1>5, <1>6, <1>7, <1>8, RoomForward, RoomForwardWaits DEF LoopTask

\* A step of a client adds to what its host may pass on no more than was counted.
LEMMA ClientRoom ==
  ASSUME IInv, RoomInv, IInv', UNCHANGED AtServer, NEW c \in Conns,
         \A x \in Conns : x # c => cl'[x] = cl[x] /\ mysid'[x] = mysid[x] /\ c2s'[x] = c2s[x],
         c \in HostConns =>
           /\ RequestAt(c)'
           /\ \/ mysid'[c] = mysid[c] /\ Left(c)' <= Left(c)
              \/ mysid[c] = None /\ mysid'[c] # None /\ Left(c)' <= MaxCands
  PROVE  RoomInv'
<1>1. UNCHANGED <<host_of, task, chan, waiting, timer>>
  BY DEF AtServer
<1>2. HostConns \subseteq Conns /\ MaxCands \in Nat
  BY Constants
<1>3. RequestInv'
  <2> SUFFICES ASSUME NEW h \in HostConns PROVE RequestAt(h)'
    BY <1>1 DEF RoomInv, RequestInv
  <2>1. CASE h # c
    <3>1. RequestAt(h) /\ Asked(h)' = Asked(h)
      BY <1>2, <2>1 DEF RoomInv, RequestInv, Asked
    <3> QED BY <1>1, <1>2, <2>1, <3>1 DEF RequestAt
  <2>2. CASE h = c
    BY <2>2
  <2> QED BY <2>1, <2>2
<1>4. TimerOff' /\ HostsGoOn'
  BY <1>1 DEF RoomInv, TimerOff, HostsGoOn
<1>5. ASSUME NEW v \in Viewers, host_of[v] # None PROVE ToForward(v)' <= ToForward(v)
  <2>1. host_of[v] \in HostConns /\ host_of'[v] = host_of[v]
    BY <1>1, <1>5, ServerTypes
  <2>2. ToForward(v) \in Nat
    BY <1>5, Numbers
  <2>3. CASE host_of[v] # c
    <3>1. ToForward(v)' = ToForward(v)
      BY <1>2, <2>1, <2>3 DEF ToForward, Left
    <3> QED BY <2>2, <3>1
  <2>4. CASE host_of[v] = c /\ mysid'[c] = mysid[c] /\ Left(c)' <= Left(c)
    BY <1>2, <2>1, <2>2, <2>4 DEF ToForward
  <2>5. CASE /\ host_of[v] = c /\ mysid[c] = None /\ mysid'[c] # None /\ Left(c)' <= MaxCands
    <3>1. ToForward(v) = MaxCands
      BY <2>5, Constants DEF ToForward
    <3>2. ToForward(v)' = Left(c)' \/ ToForward(v)' = 0
      BY <2>1, <2>5 DEF ToForward
    <3> QED BY <1>2, <2>5, <3>1, <3>2
  <2> QED BY <2>1, <2>3, <2>4, <2>5
<1>6. ASSUME NEW v \in Viewers PROVE RoomAt(v)'
  <2>1. RoomAt(v)
    BY DEF RoomInv
  <2>2. Due(v)' = Due(v) /\ host_of'[v] = host_of[v] /\ chan'[v] = chan[v]
    BY <1>1 DEF Due, ToStart, ToExpire
  <2>3. CASE host_of[v] = None
    BY <2>1, <2>2, <2>3 DEF RoomAt
  <2>4. CASE host_of[v] # None
    <3>1. /\ ToForward(v) \in Nat /\ ToForward(v)' \in Nat /\ Due(v) \in Nat
      BY <2>2, <2>4, Numbers, NumbersNext
    <3>2. Due(v) + ToForward(v) <= MaxCands + 2
      BY <2>1, <2>4 DEF RoomAt
    <3>3. Due(v)' + ToForward(v)' <= MaxCands + 2
      BY <1>2, <1>5, <2>2, <2>4, <3>1, <3>2
    <3> QED BY <2>2, <2>4, <3>3 DEF RoomAt
  <2> QED BY <2>3, <2>4
<1> QED BY <1>3, <1>4, <1>6 DEF RoomInv

\* A request is added to a stream.
LEMMA Asking ==
  ASSUME IInv, NEW c \in Conns, NEW ms, SendMsgs(c, ms)
  PROVE  c2s'[c] = c2s[c] \o ms /\ \A x \in Conns : x # c => c2s'[x] = c2s[x]
BY ServerTypes DEF SendMsgs

LEMMA RoomStart ==
  ASSUME IInv, RoomInv, IInv', NEW c \in Conns, Start(c)
  PROVE  RoomInv'
<1> DEFINE r == [t |-> IF c \in HostConns THEN "register" ELSE "connect"]
           stage == IF c \in HostConns THEN "registering" ELSE "waiting"
<1>1. /\ UNCHANGED <<AtServer, mysid>> /\ SendMsgs(c, << r >>)
      /\ cl[c] = "idle" /\ cl' = [cl EXCEPT ![c] = stage]
  BY DEF Start, To
<1>2. /\ c2s'[c] = c2s[c] \o << r >> /\ \A x \in Conns : x # c => c2s'[x] = c2s[x]
  BY <1>1, Asking
<1>3. \A x \in Conns : cl'[x] = IF x = c THEN stage ELSE cl[x]
  BY <1>1, ClientTypes
<1>4. mysid[c] = None
  BY <1>1 DEF IInv, ClientInv
<1>5. ASSUME c \in HostConns PROVE RequestAt(c)'
  <2>1. c2s[c] = << >> /\ task[c] = "first"
    BY <1>1, <1>5 DEF RoomInv, RequestInv, RequestAt
  <2>2. c2s'[c] = << r >> /\ r = [t |-> "register"]
    BY <1>2, <1>5, <2>1
  <2>3. r \in Asked(c)'
    BY <2>2 DEF Asked, Requests
  <2>4. task'[c] = "first"
    BY <1>1, <2>1 DEF AtServer
  <2> HIDE DEF r
  <2>5. c2s'[c] \in Seq(Asked(c)') /\ Len(c2s'[c]) = 1
    BY <2>2, <2>3
  <2> QED BY <1>3, <1>5, <2>4, <2>5 DEF RequestAt
<1>6. \A v \in Viewers : host_of[v] = c => mysid'[c] = None
  BY <1>1, <1>4
<1>7. UNCHANGED <<host_of, task, chan, waiting, timer>>
  BY <1>1 DEF AtServer
<1>8. RequestInv'
  <2> SUFFICES ASSUME NEW h \in HostConns PROVE RequestAt(h)'
    BY <1>7 DEF RoomInv, RequestInv
  <2>1. CASE h # c
    <3>1. RequestAt(h) /\ Asked(h)' = Asked(h) /\ h \in Conns
      BY <1>1, Constants DEF RoomInv, RequestInv, Asked
    <3> QED BY <1>2, <1>3, <1>7, <2>1, <3>1 DEF RequestAt
  <2> QED BY <1>5, <2>1
<1>9. ASSUME NEW v \in Viewers PROVE RoomAt(v)'
  <2>1. Due(v)' = Due(v)
    BY <1>7 DEF Due, ToStart, ToExpire
  <2>2. host_of[v] # None => ToForward(v)' = ToForward(v)
    <3> SUFFICES ASSUME host_of[v] # None PROVE ToForward(v)' = ToForward(v)
      OBVIOUS
    <3>1. host_of[v] \in HostConns /\ host_of[v] \in Conns
      BY ServerTypes, Constants
    <3>2. CASE host_of[v] = c
      BY <1>1, <1>4, <1>7, <3>2 DEF ToForward
    <3>3. CASE host_of[v] # c
      BY <1>1, <1>2, <1>3, <1>7, <3>1, <3>3 DEF ToForward, Left
    <3> QED BY <3>2, <3>3
  <2>3. RoomAt(v)
    BY DEF RoomInv
  <2> QED BY <1>7, <2>1, <2>2, <2>3 DEF RoomAt
<1> QED BY <1>7, <1>8, <1>9 DEF RoomInv, TimerOff, HostsGoOn

LEMMA RoomStarted ==
  ASSUME IInv, RoomInv, IInv', NEW c \in Conns, Started(c)
  PROVE  RoomInv'
<1> PICK s : s = Head(s2c[c]).sid
  OBVIOUS
<1>1. /\ UNCHANGED AtServer /\ cl[c] = "waiting" /\ cl' = [cl EXCEPT ![c] = "collecting"]
      /\ s2c[c] # << >> /\ Head(s2c[c]).t = "session_start"
      /\ mysid' = [mysid EXCEPT ![c] = s] /\ SendCandidates(c, s)
  BY DEF Started, Receive, To
<1>2. PICK n \in 1..MaxCands : SendMsgs(c, [k \in 1..n |-> [t |-> "candidate", sid |-> s]])
  BY <1>1 DEF SendCandidates
<1> DEFINE ms == [k \in 1..n |-> [t |-> "candidate", sid |-> s]]
<1>3. /\ c2s'[c] = c2s[c] \o ms /\ \A x \in Conns : x # c => c2s'[x] = c2s[x]
  BY <1>2, Asking
<1>4. \A x \in Conns : /\ cl'[x] = IF x = c THEN "collecting" ELSE cl[x]
                       /\ mysid'[x] = IF x = c THEN s ELSE mysid[x]
  BY <1>1, ClientTypes
<1>5. Head(s2c[c]) \in Inbox(c) /\ Head(s2c[c]) \in Messages
  BY <1>1, FirstMessage
<1>6. s \in Viewers /\ s # None
  BY <1>1, <1>5, Constants DEF Messages
<1>7. ASSUME c \in HostConns PROVE RequestAt(c)' /\ Left(c)' <= MaxCands
  <2>1. host_of[s] = c
    BY <1>1, <1>5, <1>7, Constants DEF Inbox
  <2>2. task[c] # "first" /\ RequestAt(c)
    BY <1>6, <1>7, <2>1 DEF RoomInv, RequestInv
  <2>3. c2s[c] = << >>
    <3>1. Len(c2s[c]) <= 0 /\ c2s[c] \in Seq(Asked(c))
      BY <1>1, <2>2 DEF RequestAt
    <3> QED BY <3>1, EmptySeq, LenProperties
  <2>4. n \in Nat /\ n <= MaxCands /\ MaxCands \in Nat
    BY Constants
  <2>5. [t |-> "candidate", sid |-> s] \in Asked(c)'
    BY <1>4, <1>6 DEF Asked, Requests
  <2>6. ms \in Seq(Asked(c)') /\ Len(ms) = n
    BY <2>4, <2>5, IsASeq
  <2> HIDE DEF ms
  <2>7. c2s'[c] = ms
    BY <1>3, <2>3, <2>6, ConcatEmptySeq
  <2>8. RequestAt(c)'
    BY <1>4, <2>6, <2>7 DEF RequestAt
  <2>9. Left(c)' = n
    BY <1>4, <2>6, <2>7 DEF Left
  <2> QED BY <2>4, <2>8, <2>9
<1>8. mysid[c] = None /\ mysid'[c] # None
  BY <1>1, <1>4, <1>6 DEF IInv, ClientInv
<1> HIDE DEF ms
<1> QED BY <1>1, <1>3, <1>4, <1>7, <1>8, ClientRoom

\* A client that goes on or closes its socket without a request.
LEMMA RoomSilent ==
  ASSUME IInv, RoomInv, IInv', UNCHANGED <<AtServer, c2s, mysid>>, NEW c \in Conns,
         NEW stage \in {"waiting", "collecting", "failed"}, cl' = [cl EXCEPT ![c] = stage],
         cl[c] \in {"registering", "waiting", "collecting"},
         stage = "waiting" => cl[c] = "registering"
  PROVE  RoomInv'
<1>1. \A x \in Conns : cl'[x] = IF x = c THEN stage ELSE cl[x]
  BY ClientTypes
<1>2. ASSUME c \in HostConns PROVE RequestAt(c)' /\ Left(c)' <= Left(c)
  <2>1. RequestAt(c) /\ Asked(c)' = Asked(c) /\ task'[c] = task[c]
    BY <1>2 DEF RoomInv, RequestInv, Asked, AtServer
  <2>2. RequestAt(c)'
    BY <1>1, <2>1 DEF RequestAt
  <2>3. Left(c)' = Left(c)
    BY <1>1 DEF Left
  <2> QED BY <1>2, <2>2, <2>3, Numbers
<1> QED BY <1>1, <1>2, ClientRoom

LEMMA RoomFinished ==
  ASSUME IInv, RoomInv, IInv', NEW c \in Conns, Finished(c)
  PROVE  RoomInv'
<1> PICK r : r = [t |-> "done", sid |-> mysid[c]]
  OBVIOUS
<1>1. /\ UNCHANGED <<AtServer, mysid>> /\ cl[c] = "collecting"
      /\ cl' = [cl EXCEPT ![c] = "finished"] /\ SendMsgs(c, << r >>)
  BY DEF Finished, To
<1>2. /\ c2s'[c] = c2s[c] \o << r >> /\ \A x \in Conns : x # c => c2s'[x] = c2s[x]
  BY <1>1, Asking
<1>3. \A x \in Conns : cl'[x] = IF x = c THEN "finished" ELSE cl[x]
  BY <1>1, ClientTypes
<1>4. ASSUME c \in HostConns PROVE RequestAt(c)' /\ Left(c)' <= Left(c)
  <2>1. RequestAt(c) /\ Asked(c)' = Asked(c)
    BY <1>1, <1>4 DEF RoomInv, RequestInv, Asked
  <2>2. mysid[c] \in Viewers
    BY <1>1, ClientTypes DEF IInv, ClientInv
  <2>3. r \in Asked(c) /\ r.t = "done"
    BY <2>2 DEF Asked, Requests
  <2>4. c2s[c] \in Seq(Asked(c)) /\ << r >> \in Seq(Asked(c)) /\ Len(<< r >>) = 1 /\ << r >>[1] = r
    BY <2>1, <2>3 DEF RequestAt
  <2>5. /\ c2s'[c] \in Seq(Asked(c)) /\ Len(c2s[c]) \in Nat
        /\ Len(c2s'[c]) = Len(c2s[c]) + 1 /\ c2s'[c][Len(c2s[c]) + 1] = r
    BY <1>2, <2>4, ConcatProperties, LenProperties
  <2>6. RequestAt(c)'
    BY <1>3, <2>1, <2>3, <2>5 DEF RequestAt
  <2>7. Left(c)' = Left(c)
    <3>1. c2s'[c] # << >>
      BY <2>5, EmptySeq
    <3> QED BY <1>1, <1>3, <2>5, <3>1 DEF Left
  <2> QED BY <1>4, <2>6, <2>7, Numbers
<1> QED BY <1>1, <1>2, <1>3, <1>4, ClientRoom

LEMMA RoomClient ==
  ASSUME IInv, RoomInv, IInv', NEW c \in Conns, Start(c) \/ Client(c)
  PROVE  RoomInv'
<1>1. CASE Registered(c)
  <2>1. /\ UNCHANGED <<AtServer, c2s, mysid>> /\ cl[c] = "registering"
        /\ cl' = [cl EXCEPT ![c] = "waiting"]
    BY <1>1 DEF Registered, To
  <2> QED BY <2>1, RoomSilent
<1>2. CASE Collect(c)
  <2>1. UNCHANGED <<AtServer, c2s, mysid, cl>> /\ cl[c] = "collecting"
    BY <1>2 DEF Collect
  <2>2. cl' = [cl EXCEPT ![c] = "collecting"]
    BY <2>1, ClientTypes
  <2> QED BY <2>1, <2>2, RoomSilent
<1>3. CASE Abort(c) \/ GiveUp(c)
  <2>1. /\ UNCHANGED <<AtServer, c2s, mysid>> /\ cl[c] \in {"registering", "waiting", "collecting"}
        /\ cl' = [cl EXCEPT ![c] = "failed"]
    BY <1>3 DEF Abort, GiveUp, To
  <2> QED BY <2>1, RoomSilent
<1> QED BY <1>1, <1>2, <1>3, RoomStart, RoomStarted, RoomFinished DEF Client

LEMMA RoomInit == Init => RoomInv
<1> SUFFICES ASSUME Init PROVE RoomInv
  OBVIOUS
<1>1. /\ host_of = [v \in Viewers |-> None] /\ task = [c \in Conns |-> "first"]
      /\ chan = [c \in Conns |-> << >>] /\ waiting = [c \in Conns |-> None]
      /\ timer = [v \in Viewers |-> "off"] /\ c2s = [c \in Conns |-> << >>]
      /\ cl = [c \in Conns |-> "idle"]
  BY DEF Init, ServerInit
<1>2. HostConns \subseteq Conns /\ Viewers \subseteq Conns /\ None \notin HostConns
  BY Constants
<1>3. RequestInv
  BY <1>1, <1>2 DEF RequestInv, RequestAt
<1>4. TimerOff /\ HostsGoOn
  BY <1>1, <1>2 DEF TimerOff, HostsGoOn
<1>5. \A v \in Viewers : RoomAt(v)
  BY <1>1, <1>2 DEF RoomAt
<1> QED BY <1>3, <1>4, <1>5 DEF RoomInv

LEMMA RoomStep ==
  ASSUME Large, IInv, RoomInv, [Next]_vars
  PROVE  RoomInv'
<1>1. IInv'
  BY StepInv
<1>2. CASE Server
  BY <1>1, <1>2, RoomHostTask, RoomViewerTask, RoomTimer, RoomLoopTask DEF Server, ServerNext
<1>3. CASE \E c \in Conns : Start(c) \/ Client(c)
  BY <1>1, <1>3, RoomClient
<1>4. CASE Terminated \/ UNCHANGED vars
  <2>1. UNCHANGED <<host_of, task, chan, waiting, timer, c2s, cl, mysid>>
    BY <1>4 DEF Terminated, vars, serverVars, clientVars
  <2>2. RequestInv' /\ TimerOff' /\ HostsGoOn'
    BY <2>1 DEF RoomInv, RequestInv, RequestAt, Asked, TimerOff, HostsGoOn
  <2>3. \A v \in Viewers : RoomAt(v)'
    BY <2>1 DEF RoomInv, RoomAt, Due, ToStart, ToExpire, ToForward, Left
  <2> QED BY <2>2, <2>3 DEF RoomInv
<1> QED BY <1>2, <1>3, <1>4 DEF Next

\* With channels that take one host's candidates and two messages more, nobody waits
\* for room in a viewer's channel: in particular a viewer's task, which alone empties
\* it, never waits for itself before its loop (ws.rs:144, 165, 218).
THEOREM ViewersHaveRoom == Spec => []ViewerTakesAll
<1>1. Init => IInv /\ (Large => RoomInv)
  BY InitInv, RoomInit
<1>2. IInv /\ (Large => RoomInv) /\ [Next]_vars => IInv' /\ (Large => RoomInv)'
  <2>1. Large' <=> Large
    BY DEF Large
  <2> QED BY <2>1, StepInv, RoomStep
<1>3. IInv /\ (Large => RoomInv) => ViewerTakesAll
  <2> SUFFICES ASSUME IInv, RoomInv, Large PROVE ViewerTakesAll
    BY DEF Large, ViewerTakesAll
  <2>1. ASSUME NEW v \in Viewers, task[v] = "notify_viewer" \/ timer[v] = "tell_viewer"
        PROVE  Len(chan[v]) < SEND_CHAN_CAP
    <3>1. host_of[v] # None
      BY <2>1 DEF IInv, TaskInv, TimerInv
    <3>2. Due(v) + ToForward(v) <= MaxCands + 2
      BY <3>1 DEF RoomInv, RoomAt
    <3>3. ToStart(v) = 1 \/ ToExpire(v) = 1
      BY <2>1 DEF ToStart, ToExpire
    <3>4. /\ Len(chan[v]) \in Nat /\ Due(v) \in Nat /\ ToForward(v) \in Nat
          /\ ToStart(v) \in {0, 1} /\ ToExpire(v) \in {0, 1}
          /\ MaxCands \in Nat /\ SEND_CHAN_CAP \in Nat
      BY <3>1, Numbers, Constants
    <3>5. Due(v) >= Len(chan[v]) + 1
      BY <3>3, <3>4 DEF Due
    <3> QED BY <3>2, <3>4, <3>5 DEF Large
  <2> QED BY <2>1 DEF RoomInv, HostsGoOn, ViewerTakesAll
<1> QED BY <1>1, <1>2, <1>3, PTL DEF Spec
=============================================================================
