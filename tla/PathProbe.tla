------------------------------ MODULE PathProbe ------------------------------
(***************************************************************************)
(* From candidates to a Noise session: probe_and_commit_peer of both sides *)
(* (crates/transport/src/udp.rs), the reset_session with which run_host    *)
(* follows it, and the two Noise messages.                                 *)
(*                                                                         *)
(* A path is a pair of addresses, each side's as the other sees it, so an  *)
(* answer returns on the path of its question, and a candidate is named by *)
(* its path; a path that is not Live swallows what is sent on it.  A       *)
(* restricted NAT or a firewall (Natted) admits datagrams of a path once   *)
(* its own side has sent on that path.  Both sides know the same live      *)
(* paths: what a side does not know, it cannot probe.                      *)
(***************************************************************************)
EXTENDS Naturals, SequencesExt

CONSTANTS Paths, Live, Cands, Natted, None,
          PROBE_RETRY_COUNT,
          MaxFaults      \* bound: lost, overtaken or late datagrams

Side == {"host", "viewer"}
Other(s) == CHOOSE t \in Side : t # s

ASSUME ProbeAssumption ==
  /\ Live \subseteq Paths /\ Live # {} /\ None \notin Paths
  /\ Cands \in [Side -> SUBSET Paths] /\ Natted \in [Side -> SUBSET Live]
  /\ \A s \in Side : Live \subseteq Cands[s]
  /\ PROBE_RETRY_COUNT \in Nat \ {0} /\ MaxFaults \in Nat

VARIABLES
  phase,     \* where each side is
  sends,     \* sends_done: rounds of Probes a side has sent
  pending,   \* the nonces a side waits for, named by their candidate
  peer,      \* CustomUdpTransport.peer
  wire,      \* wire[s][p]: what s has sent on path p and nobody received yet
  opened,    \* the paths a side has sent on
  refused,   \* whether a NAT has refused a datagram
  faults     \* what the network did wrong so far

vars == <<phase, sends, pending, peer, wire, opened, refused, faults>>

Phases == {"idle", "probing", "handshake", "noise", "secured", "failed"}
Messages == {"Probe", "ProbeAck", "NoiseE1", "NoiseE2"}

Init ==
  /\ phase = [s \in Side |-> "idle"]
  /\ sends = [s \in Side |-> 0]
  /\ pending = [s \in Side |-> {}]
  /\ peer = [s \in Side |-> None]
  /\ wire = [s \in Side |-> [p \in Live |-> <<>>]]
  /\ opened = [s \in Side |-> {}]
  /\ refused = FALSE /\ faults = 0

Admits(s, p) == p \in Natted[s] => p \in opened[s]
Listens(s) == phase[s] \in {"probing", "handshake", "noise"}

\* m goes out from s on the paths Q of a network w.  A NAT that does not
\* admit it yet refuses it, or it arrives late enough.
Send(w, s, Q, m) ==
  \E D \in SUBSET {p \in Q \cap Live : ~Admits(Other(s), p)} :
    /\ wire' = [w EXCEPT ![s] = [p \in Live |-> IF p \in Q \ D THEN Append(@[p], m) ELSE @[p]]]
    /\ refused' = (refused \/ D # {})
    /\ opened' = [opened EXCEPT ![s] = @ \cup Q]

\* probe_and_commit_peer starts: a nonce and a Probe for every candidate.
Start(s) ==
  /\ phase[s] = "idle"
  /\ phase' = [phase EXCEPT ![s] = "probing"]
  /\ sends' = [sends EXCEPT ![s] = 1]
  /\ pending' = [pending EXCEPT ![s] = Cands[s]]
  /\ Send(wire, s, Cands[s], "Probe")
  /\ UNCHANGED <<peer, faults>>

\* retry_ticker
Retry(s) ==
  /\ phase[s] = "probing" /\ sends[s] < PROBE_RETRY_COUNT /\ pending[s] # {}
  /\ sends' = [sends EXCEPT ![s] = @ + 1]
  /\ Send(wire, s, pending[s], "Probe")
  /\ UNCHANGED <<phase, pending, peer, faults>>

\* A ProbeAck came on p.  The viewer commits to p and sends its one NoiseE1;
\* the host commits to p too, but run_host goes on with reset_session, which
\* forgets the winner.
Commit(s, p, w) ==
  /\ pending' = [pending EXCEPT ![s] = {}]
  /\ IF s = "viewer"
     THEN /\ phase' = [phase EXCEPT ![s] = "noise"]
          /\ peer' = [peer EXCEPT ![s] = p]
          /\ Send(w, s, {p}, "NoiseE1")
     ELSE /\ phase' = [phase EXCEPT ![s] = "handshake"]
          /\ peer' = [peer EXCEPT ![s] = None]
          /\ wire' = w /\ UNCHANGED <<opened, refused>>
  /\ UNCHANGED sends

\* What the loop of probe_and_commit_peer does with a datagram: it answers a
\* Probe, commits on the answer to one of its own, and drops the rest, a
\* NoiseE1 of a viewer that has committed already included.
HandleProbing(s, p, m, w) ==
  /\ phase[s] = "probing"
  /\ CASE m = "Probe" -> /\ Send(w, s, {p}, "ProbeAck")
                         /\ UNCHANGED <<phase, sends, pending, peer>>
       [] m = "ProbeAck" /\ p \in pending[s] -> Commit(s, p, w)
       [] OTHER -> wire' = w /\ UNCHANGED <<phase, sends, pending, peer, opened, refused>>

\* handshake_as_server: the first datagram of anybody names the peer, a
\* NoiseE1 is answered to that peer, anything else is dropped.
HandleHandshake(s, p, m, w) ==
  LET to == IF peer[s] = None THEN p ELSE peer[s] IN
  /\ phase[s] = "handshake"
  /\ peer' = [peer EXCEPT ![s] = to]
  /\ IF m = "NoiseE1"
     THEN /\ phase' = [phase EXCEPT ![s] = "secured"]
          /\ Send(w, s, {to}, "NoiseE2")
     ELSE wire' = w /\ UNCHANGED <<phase, opened, refused>>
  /\ UNCHANGED <<sends, pending>>

\* Mutant of HandleNoise: the answer must come from the peer committed to.
HandleNoise_FromPeer(s, p, m, w) ==
  /\ phase[s] = "noise"
  /\ phase' = IF m = "NoiseE2" /\ p = peer[s] THEN [phase EXCEPT ![s] = "secured"] ELSE phase
  /\ wire' = w
  /\ UNCHANGED <<sends, pending, peer, opened, refused>>

\* handshake_as_client: only a NoiseE2 matters, from wherever it comes.
HandleNoise(s, p, m, w) ==
  /\ phase[s] = "noise"
  /\ phase' = IF m = "NoiseE2" THEN [phase EXCEPT ![s] = "secured"] ELSE phase
  /\ wire' = w
  /\ UNCHANGED <<sends, pending, peer, opened, refused>>

\* recv_from; a datagram that was sent later may come first.
Receive(s) ==
  \E p \in Live : \E i \in 1 .. Len(wire[Other(s)][p]) :
    LET m == wire[Other(s)][p][i]
        w == [wire EXCEPT ![Other(s)][p] = RemoveAt(@, i)]
    IN /\ Admits(s, p)
       /\ faults' = IF i = 1 THEN faults ELSE faults + 1
       /\ faults' <= MaxFaults
       /\ \/ HandleProbing(s, p, m, w)
          \/ HandleHandshake(s, p, m, w)
          \/ HandleNoise(s, p, m, w)

\* Nothing is on its way to a side that still listens.
Quiet == \A s \in Side : Listens(s) => \A p \in Live : wire[Other(s)][p] = <<>> \/ ~Admits(s, p)

Fail(s) ==
  /\ phase' = [phase EXCEPT ![s] = "failed"]
  /\ UNCHANGED <<sends, pending, peer, wire, opened, refused>>

\* A timer of seconds against a round trip of milliseconds: where it fires
\* first, a side was late or a datagram was.
Expires(s) ==
  /\ faults' = IF Quiet /\ phase[Other(s)] # "idle" THEN faults ELSE faults + 1
  /\ faults' <= MaxFaults
  /\ Fail(s)

\* Mutant of ProbeTimeout: the deadline is kept only while candidates remain
\* to be tried, as if somebody would answer the last round for sure.
ProbeTimeout_WhileRetrying(s) ==
  /\ phase[s] = "probing" /\ sends[s] < PROBE_RETRY_COUNT
  /\ Expires(s)

\* The deadline of 10 seconds, far behind the last retry: run_host returns
\* the error, the viewer exits.
ProbeTimeout(s) ==
  /\ phase[s] = "probing" /\ (sends[s] = PROBE_RETRY_COUNT \/ pending[s] = {})
  /\ Expires(s)

\* DEFAULT_HANDSHAKE_TIMEOUT of the viewer; the host waits without one.
NoiseTimeout ==
  /\ phase["viewer"] = "noise"
  /\ Expires("viewer")

\* An error of the socket other than ConnectionReset ends either loop.
SocketError(s) ==
  /\ phase[s] \in {"probing", "noise"} /\ faults < MaxFaults
  /\ faults' = faults + 1
  /\ Fail(s)

Lose ==
  /\ faults < MaxFaults
  /\ \E s \in Side, p \in Live : \E i \in 1 .. Len(wire[s][p]) :
       wire' = [wire EXCEPT ![s][p] = RemoveAt(@, i)]
  /\ faults' = faults + 1
  /\ UNCHANGED <<phase, sends, pending, peer, opened, refused>>

Proceed ==
  \/ \E s \in Side : Start(s) \/ Retry(s) \/ Receive(s) \/ ProbeTimeout(s)
  \/ NoiseTimeout

Next == Proceed \/ (\E s \in Side : SocketError(s)) \/ Lose

Spec == Init /\ [][Next]_vars

\* Both processes run and the network delivers what it does not lose.  No
\* behaviour takes steps for ever, so one condition says it of every action.
FairSpec == Spec /\ WF_vars(Proceed)

-----------------------------------------------------------------------------
\* Types, the budget of Probes a candidate gets, and that a side which waits
\* for no nonce any more has stopped asking (probe_and_commit_peer).
TypeOK ==
  /\ phase \in [Side -> Phases]
  /\ sends \in [Side -> 0 .. PROBE_RETRY_COUNT]
  /\ pending \in [Side -> SUBSET Paths]
  /\ peer \in [Side -> Paths \cup {None}]
  /\ wire \in [Side -> [Live -> Seq(Messages)]]
  /\ opened \in [Side -> SUBSET Paths]
  /\ refused \in BOOLEAN /\ faults \in 0 .. MaxFaults

Connected == \A s \in Side : phase[s] = "secured"

\* Nothing was lost, overtaken or late, and no NAT has refused anything.
Clean == faults = 0 /\ ~refused

\* On a clean network nobody gives up, and as long as not both have their session,
\* and both have started, there is something on its way that somebody will receive
\* (probe_and_commit_peer, handshake_as_server, handshake_as_client).
NothingLeftOnlyWhenConnected ==
  Clean => /\ \A s \in Side : phase[s] # "failed"
           /\ Quiet /\ (\A s \in Side : phase[s] # "idle") => Connected

\* Whoever starts first and however the sides commit to different paths, the
\* host forgets its winner and answers on the path of a stray Probe: as long
\* as each path keeps order, loses nothing and no NAT refuses anything, both
\* sides get their session.  (probe_and_commit_peer stops answering Probes
\* when it returns, and NoiseE1 is sent once.)
BothConnect == <>(Connected \/ ~Clean)

\* probe_and_commit_peer ends by its deadline, whatever the network does.
ProbingEnds == \A s \in Side : phase[s] = "probing" ~> phase[s] # "probing"
=============================================================================
