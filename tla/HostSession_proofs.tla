-------------------------- MODULE HostSession_proofs --------------------------
(***************************************************************************)
(* What the session loop keeps for all sets of viewers, keys, PINs, modes  *)
(* and numbers of duplicates: its types, that a session runs with the      *)
(* permissions its user chose, and that it sends to the viewer they were   *)
(* given to.  Then what the validator it asks keeps on its own, whatever   *)
(* Hellos come to it: how many guesses it lets a peer make, whose guesses  *)
(* lock a peer out, and that an ephemeral opens one session.               *)
(***************************************************************************)
EXTENDS HostSession, AuthHistory, TLAPS

VStates == [at : VStages, crypto : Sessions \union {None}, attempt : Methods,
            used : SUBSET Methods, sends : Nat]

\* A viewer's Noise session is its own and one the host has answered.
ViewerInv ==
  /\ viewer \in [Procs -> VStates]
  /\ \A p \in Procs :
       /\ viewer[p].at \in {"idle", "noise"} => viewer[p].crypto = None
       /\ viewer[p].at \in {"hello", "streaming"} => viewer[p].crypto # None
       /\ viewer[p].crypto # None => /\ viewer[p].crypto.of = p
                                     /\ viewer[p].crypto.no <= handshakes[p]

\* A KeepAlive in the clear.
Clear(d) == d.kind = "KeepAlive" /\ d.under = None

\* What can be on its way: to the host, apart from NoiseE1s and KeepAlives in the
\* clear, only what its sender encrypted under the session it has, to a viewer no
\* NoiseE1.
Proper(d) ==
  /\ d.to = Host => /\ d.from \in Procs
                    /\ d.kind = "E1" => d = ToHost(d.from, "E1", None, None)
                    /\ d.kind # "E1" /\ ~Clear(d) =>
                         d.under # None /\ d.under = viewer[d.from].crypto
  /\ d.to # Host => /\ d.to \in Procs /\ d.kind # "E1"
                    /\ d.kind = "E2" => /\ d.body \in Sessions
                                        /\ d.body.no <= handshakes[d.body.of]
NetInv == \A d \in net : Proper(d)

\* A process's NoiseE1 is answered once more than the network duplicates.
InFlight(p) == IF ToHost(p, "E1", None, None) \in net THEN 1 ELSE 0
CountInv == \A p \in Procs :
  handshakes[p] + InFlight(p) <= (IF viewer[p].at = "idle" THEN 0 ELSE 1) + dups

\* The host's own session is one it has answered, and if its answers go to another
\* address, then the viewer it is with never gets one.
SessionInv ==
  /\ crypto # None => crypto.no <= handshakes[crypto.of]
  /\ stage \in {"consent", "hello", "session"} /\ peer # crypto.of =>
       /\ stage # "session"
       /\ \A p \in Procs : viewer[p].crypto # crypto
       /\ \A d \in net : d.to = crypto.of /\ d.kind = "E2" => d.body # crypto

\* The saved permissions are those the user chose, and without --silent-allow a
\* Hello is read only from a peer that has some.
GrantInv ==
  /\ known = chosen
  /\ stage = "hello" /\ ~silent_allow => known[Key(crypto)] # None
  /\ GrantedAsChosen

IInv == TypeOK /\ ViewerInv /\ NetInv /\ CountInv /\ SessionInv /\ GrantInv

-----------------------------------------------------------------------------
(* The parts that most steps leave alone.                                  *)

\* The constants.
LEMMA Constants ==
  /\ key_of \in [Procs -> Peers] /\ MaxDups \in Nat /\ KEEPALIVE_TIMEOUT \in Nat
  /\ None \notin Procs /\ Host \notin Procs /\ None \notin Perms
  /\ default_permissions \in Perms /\ None \notin Sessions /\ pin_lockout \in Nat
  /\ silent_allow \in BOOLEAN
BY SessionAssumption, NoneAssumption, AuthAssumption DEF Host

\* Fewer datagrams, answers of the host's session added, do not disturb the network.
LEMMA NetKept ==
  ASSUME IInv, UNCHANGED <<viewer, handshakes>>, dups' \in Nat, dups' >= dups,
         \A d \in net' : \/ d \in net
                         \/ d.to \in Procs /\ d.kind \in {"Ack", "Reject"}
  PROVE  ViewerInv' /\ NetInv' /\ CountInv'
<1>1. ViewerInv'
  BY DEF IInv, ViewerInv
<1>2. NetInv'
  <2> SUFFICES ASSUME NEW d \in net' PROVE Proper(d)'
    BY DEF NetInv
  <2>1. CASE d \in net
    <3>1. Proper(d)
      BY <2>1 DEF IInv, NetInv
    <3> QED BY <3>1 DEF Proper
  <2>2. CASE d.to \in Procs /\ d.kind \in {"Ack", "Reject"}
    BY <2>2, Constants DEF Proper
  <2> QED BY <2>1, <2>2
<1>3. CountInv'
  <2> SUFFICES ASSUME NEW p \in Procs
               PROVE  handshakes[p] + InFlight(p)' <= (IF viewer[p].at = "idle" THEN 0 ELSE 1) + dups'
    BY DEF CountInv
  <2>1. InFlight(p)' \in {0, 1} /\ InFlight(p) \in {0, 1} /\ InFlight(p)' <= InFlight(p)
    <3>1. ~(Host \in Procs /\ "E1" \in {"Ack", "Reject"})
      OBVIOUS
    <3>2. ToHost(p, "E1", None, None).to = Host
      BY DEF ToHost
    <3>3. ToHost(p, "E1", None, None) \in net' => ToHost(p, "E1", None, None) \in net
      BY <3>2, Constants
    <3> QED BY <3>3 DEF InFlight
  <2>2. handshakes[p] + InFlight(p) <= (IF viewer[p].at = "idle" THEN 0 ELSE 1) + dups
    BY DEF IInv, CountInv
  <2>3. handshakes[p] \in Nat /\ dups \in Nat
    BY DEF IInv, TypeOK
  <2> QED BY <2>1, <2>2, <2>3
<1> QED BY <1>1, <1>2, <1>3

\* The session is left alone, with no NoiseE2 added and no viewer in a new session.
LEMMA SessionKept ==
  ASSUME IInv, UNCHANGED <<stage, peer, crypto, handshakes>>,
         \A p \in Procs : viewer'[p].crypto = viewer[p].crypto,
         \A d \in net' : d.kind = "E2" => d \in net
  PROVE  SessionInv'
BY DEF IInv, SessionInv

\* The permissions are left alone.
LEMMA GrantKept ==
  ASSUME IInv, UNCHANGED <<known, chosen, stage, crypto, granted>>
  PROVE  GrantInv'
BY DEF IInv, GrantInv, GrantedAsChosen, Key

\* A type is a matter of the host's variables and the viewers' stages.
LEMMA TypeKept ==
  ASSUME IInv, UNCHANGED <<authVars, hostVars, dups>>, ViewerInv'
  PROVE  TypeOK'
<1>1. \A p \in Procs : viewer'[p].at \in VStages /\ viewer'[p].crypto \in Sessions \union {None}
  BY DEF ViewerInv, VStates
<1> QED BY <1>1 DEF IInv, TypeOK, AuthTypeOK, authVars, hostVars

\* Back to the start of the loop, whatever happens to the network.
LEMMA ResetInv ==
  ASSUME IInv, Reset, UNCHANGED <<viewer, known, chosen>>, AuthTypeOK', dups' \in 0..MaxDups,
         dups' >= dups,
         \A d \in net' : \/ d \in net
                         \/ d.to \in Procs /\ d.kind \in {"Ack", "Reject"}
  PROVE  IInv'
<1>1. ViewerInv' /\ NetInv' /\ CountInv'
  BY NetKept, Constants DEF Reset
<1>2. TypeOK'
  BY <1>1, Constants DEF IInv, TypeOK, Reset, CryptoReset, Stages
<1>3. SessionInv'
  BY DEF SessionInv, Reset, CryptoReset
<1>4. GrantInv'
  BY DEF IInv, GrantInv, GrantedAsChosen, Reset
<1> QED BY <1>1, <1>2, <1>3, <1>4 DEF IInv

\* A step of the host outside the Noise wait that changes neither stage nor session.
LEMMA HostQuiet ==
  ASSUME IInv, UNCHANGED <<authVars, stage, peer, crypto, handshakes, granted, viewer, chosen>>,
         silence' \in 0..(KEEPALIVE_TIMEOUT + 1), dups' \in 0..MaxDups, dups' >= dups,
         net' \subseteq net
  PROVE  IInv'
<1>1. ViewerInv' /\ NetInv' /\ CountInv'
  BY NetKept, Constants
<1>2. TypeOK'
  BY DEF IInv, TypeOK, AuthTypeOK, authVars
<1>3. SessionInv'
  BY SessionKept
<1>4. GrantInv'
  BY GrantKept DEF authVars
<1> QED BY <1>1, <1>2, <1>3, <1>4 DEF IInv

-----------------------------------------------------------------------------
(* The host's steps.                                                       *)

\* The network loses a datagram.
LEMMA LoseInv ==
  ASSUME IInv, NEW d \in net, Lose(d)
  PROVE  IInv'
<1>1. dups \in 0..MaxDups /\ silence \in 0..(KEEPALIVE_TIMEOUT + 1)
  BY DEF IInv, TypeOK
<1>2. net' \subseteq net
  BY DEF Lose
<1> QED BY <1>1, <1>2, HostQuiet DEF Lose, hostVars

\* A repeated datagram is counted.
LEMMA Repeats ==
  ASSUME IInv, NEW d, NEW copies \in Again(d), Redelivered(d, copies)
  PROVE  /\ copies \subseteq {d} /\ dups' \in 0..MaxDups /\ dups' >= dups
         /\ dups' = IF d \in copies THEN dups + 1 ELSE dups
<1>1. copies = {} \/ (copies = {d} /\ dups < MaxDups)
  BY DEF Again
<1>2. dups \in 0..MaxDups
  BY DEF IInv, TypeOK
<1> QED BY <1>1, <1>2, Constants DEF Redelivered

\* What is left of the network when nothing but copies are sent.
LEMMA LeftOver ==
  ASSUME NEW d \in net, NEW copies, copies \subseteq {d}, net' = Sent(d, copies)
  PROVE  net' \subseteq net
BY DEF Sent

\* A NoiseE1 for another host ends the round.
LEMMA WrongHostInv ==
  ASSUME IInv, NEW d \in net, NEW copies \in Again(d), Redelivered(d, copies), Reset,
         net' = Sent(d, copies), UNCHANGED <<authVars, viewer, chosen>>
  PROVE  IInv'
<1>1. net' \subseteq net /\ dups' \in 0..MaxDups /\ dups' >= dups
  BY Repeats, LeftOver
<1>2. AuthTypeOK'
  BY DEF IInv, TypeOK, AuthTypeOK, authVars
<1> QED BY <1>1, <1>2, ResetInv DEF authVars

\* Any other datagram in the Noise wait may become the peer.
LEMMA StrayInv ==
  ASSUME IInv, stage = "noise", NEW d \in net, d.to = Host,
         NEW copies \in Again(d), Redelivered(d, copies),
         peer' = Pinned(d), net' = Sent(d, copies),
         UNCHANGED <<authVars, stage, crypto, handshakes, granted, silence, cancelled, viewer, chosen>>
  PROVE  IInv'
<1>1. net' \subseteq net /\ dups' \in 0..MaxDups /\ dups' >= dups
  BY Repeats, LeftOver
<1>2. ViewerInv' /\ NetInv' /\ CountInv'
  BY <1>1, NetKept, Constants
<1>3. peer' \in Procs
  BY DEF IInv, NetInv, Proper, TypeOK, Pinned
<1>4. TypeOK'
  BY <1>1, <1>3 DEF IInv, TypeOK, AuthTypeOK, authVars
<1>5. SessionInv'
  BY DEF IInv, SessionInv
<1>6. GrantInv'
  BY GrantKept DEF authVars
<1> QED BY <1>2, <1>4, <1>5, <1>6 DEF IInv

\* A NoiseE1 is answered under a session nobody has heard of.
LEMMA AnswerE1Inv ==
  ASSUME IInv, stage = "noise", NEW d \in net, d.to = Host, d.kind = "E1",
         NEW copies \in Again(d), Redelivered(d, copies), AnswerE1(d, copies),
         UNCHANGED <<authVars, viewer, chosen>>
  PROVE  IInv'
<1> DEFINE q == d.from
           s == [of |-> q, no |-> handshakes[q] + 1]
           at == Gate(Key(s))
<1>1. q \in Procs /\ d = ToHost(q, "E1", None, None)
  BY DEF IInv, NetInv, Proper
<1>2. handshakes \in [Procs -> 0..(MaxDups + 1)] /\ dups \in 0..MaxDups
  BY DEF IInv, TypeOK
<1>3. handshakes[q] + 1 <= (IF viewer[q].at = "idle" THEN 0 ELSE 1) + dups
  <2>1. InFlight(q) = 1
    BY <1>1 DEF InFlight
  <2> QED BY <1>1, <2>1 DEF IInv, CountInv
<1>4. s \in Sessions
  <2>1. handshakes[q] + 1 \in 1..(MaxDups + 1)
    BY <1>1, <1>2, <1>3, Constants
  <2> QED BY <1>1, <2>1 DEF Sessions
<1>5. s.of = q /\ s.no = handshakes[q] + 1
  OBVIOUS
<1>6. /\ handshakes' = [handshakes EXCEPT ![q] = @ + 1]
      /\ net' = Sent(d, {E2For(E2Target(d), s)} \union copies)
      /\ stage' = at
      /\ peer' = (IF at = "noise" THEN None ELSE Pinned(d))
      /\ crypto' = (IF at = "noise" THEN None ELSE s)
      /\ UNCHANGED <<granted, silence, cancelled>>
  BY DEF AnswerE1
<1>7. at \in {"hello", "consent", "noise"}
  BY DEF Gate
<1>8. at = "hello" /\ ~silent_allow => known[Key(s)] # None
  BY DEF Gate
<1> HIDE DEF s, at
<1>9. /\ copies \subseteq {d} /\ dups' \in 0..MaxDups /\ dups' >= dups
      /\ dups' = IF d \in copies THEN dups + 1 ELSE dups
  BY Repeats
<1>10. Pinned(d) \in Procs
  BY <1>1 DEF Pinned, IInv, TypeOK
<1> DEFINE e2 == ToViewer(Pinned(d), "E2", None, s)
<1>11. net' \subseteq (net \union {e2}) /\ (d \in net' => d \in copies)
  <2>1. e2 # d /\ E2For(E2Target(d), s) = e2
    BY <1>1 DEF E2For, E2Target, ToViewer, ToHost
  <2> QED BY <1>6, <1>9, <2>1 DEF Sent
<1>12. /\ e2.to = Pinned(d) /\ e2.kind = "E2" /\ e2.body = s
  BY DEF ToViewer
<1> HIDE DEF e2
<1>13. \A p \in Procs : handshakes'[p] >= handshakes[p] /\ handshakes'[p] \in 0..(MaxDups + 1)
  <2> SUFFICES ASSUME NEW p \in Procs
               PROVE  handshakes'[p] >= handshakes[p] /\ handshakes'[p] \in 0..(MaxDups + 1)
    OBVIOUS
  <2>1. handshakes[q] \in Nat /\ handshakes[p] \in 0..(MaxDups + 1)
    BY <1>1, <1>2
  <2>2. CASE p = q
    BY <1>1, <1>2, <1>3, <1>6, <2>1, <2>2, Constants
  <2>3. CASE p # q
    BY <1>2, <1>6, <2>1, <2>3
  <2> QED BY <2>2, <2>3
<1>14. handshakes' \in [Procs -> 0..(MaxDups + 1)] /\ handshakes'[q] = handshakes[q] + 1
  BY <1>1, <1>2, <1>6, <1>13
<1>15. ViewerInv'
  <2> SUFFICES ASSUME NEW p \in Procs, viewer[p].crypto # None
               PROVE  viewer[p].crypto.no <= handshakes'[p]
    BY DEF IInv, ViewerInv
  <2>1. viewer[p].crypto \in Sessions /\ viewer[p].crypto.no <= handshakes[p]
    BY DEF IInv, ViewerInv, TypeOK
  <2>2. viewer[p].crypto.no \in Nat /\ handshakes[p] \in Nat /\ handshakes'[p] \in Nat
    BY <1>2, <1>14, <2>1 DEF Sessions
  <2> QED BY <1>13, <2>1, <2>2
<1>16. NetInv'
  <2> SUFFICES ASSUME NEW x \in net' PROVE Proper(x)'
    BY DEF NetInv
  <2>1. CASE x \in net
    <3>1. Proper(x)
      BY <2>1 DEF IInv, NetInv
    <3>2. ASSUME x.to # Host, x.kind = "E2"
          PROVE  x.body.no <= handshakes'[x.body.of]
      <4>1. x.body \in Sessions /\ x.body.no <= handshakes[x.body.of]
        BY <3>1, <3>2 DEF Proper
      <4>2. x.body.of \in Procs /\ x.body.no \in Nat
        BY <4>1 DEF Sessions
      <4>3. handshakes[x.body.of] \in Nat /\ handshakes'[x.body.of] \in Nat
        BY <1>2, <1>14, <4>2
      <4> QED BY <1>13, <4>1, <4>2, <4>3
    <3> QED BY <3>1, <3>2 DEF Proper
  <2>2. CASE x = e2
    <3>1. x.body.no <= handshakes'[x.body.of]
      BY <1>1, <1>2, <1>5, <1>12, <1>14, <2>2
    <3> QED BY <1>4, <1>10, <1>12, <2>2, <3>1, Constants DEF Proper
  <2> QED BY <1>11, <2>1, <2>2
<1>17. CountInv'
  <2> SUFFICES ASSUME NEW p \in Procs
               PROVE  handshakes'[p] + InFlight(p)'
                        <= (IF viewer[p].at = "idle" THEN 0 ELSE 1) + dups'
    BY DEF CountInv
  <2>1. handshakes[p] + InFlight(p) <= (IF viewer[p].at = "idle" THEN 0 ELSE 1) + dups
    BY DEF IInv, CountInv
  <2>2. ToHost(p, "E1", None, None) \in net' => ToHost(p, "E1", None, None) \in net
    BY <1>11, <1>12 DEF ToHost
  <2>3. InFlight(p)' \in {0, 1} /\ InFlight(p) \in {0, 1} /\ InFlight(p)' <= InFlight(p)
    BY <2>2 DEF InFlight
  <2>4. handshakes[p] \in Nat
    BY <1>2
  <2>5. CASE p # q
    <3>1. handshakes'[p] = handshakes[p]
      BY <1>6, <1>2, <2>5
    <3> QED BY <1>2, <1>9, <2>1, <2>3, <2>4, <3>1
  <2>6. CASE p = q
    <3>1. InFlight(p)' = 1 => d \in copies
      BY <1>1, <1>11, <2>6 DEF InFlight
    <3>2. dups' \in Nat /\ dups \in Nat
      BY <1>2, <1>9
    <3> QED BY <1>3, <1>9, <1>14, <2>3, <2>4, <2>6, <3>1, <3>2
  <2> QED BY <2>5, <2>6
<1>18. TypeOK'
  <2>1. peer' \in Procs \union {None} /\ crypto' \in Sessions \union {None}
    BY <1>4, <1>6, <1>10
  <2>2. stage' \in Stages /\ (stage' \in {"noise", "stopped"} <=> crypto' = None)
    BY <1>4, <1>6, <1>7, Constants DEF Stages
  <2>3. crypto' # None => peer' # None
    BY <1>4, <1>6, <1>10, Constants
  <2>4. granted = None
    BY DEF IInv, TypeOK
  <2>5. AuthTypeOK'
    BY DEF IInv, TypeOK, AuthTypeOK, authVars
  <2> QED BY <1>6, <1>7, <1>9, <1>14, <2>1, <2>2, <2>3, <2>4, <2>5 DEF IInv, TypeOK
<1>19. SessionInv'
  <2>1. crypto' # None => crypto'.no <= handshakes'[crypto'.of]
    BY <1>1, <1>2, <1>5, <1>6, <1>14
  <2>2. ASSUME stage' \in {"consent", "hello", "session"}, peer' # crypto'.of
        PROVE  /\ stage' # "session"
               /\ \A p \in Procs : viewer'[p].crypto # crypto'
               /\ \A x \in net' : x.to = crypto'.of /\ x.kind = "E2" => x.body # crypto'
    <3>1. crypto' = s /\ peer' = Pinned(d) /\ stage' # "session"
      BY <1>6, <1>7, <2>2
    <3>2. ASSUME NEW p \in Procs PROVE viewer'[p].crypto # s
      <4>1. viewer[p].crypto # None => viewer[p].crypto.of = p /\ viewer[p].crypto.no <= handshakes[p]
        BY DEF IInv, ViewerInv
      <4>2. s # None /\ handshakes[q] \in Nat
        BY <1>1, <1>2, <1>4, Constants
      <4> QED BY <1>5, <4>1, <4>2
    <3>3. ASSUME NEW x \in net', x.to = q, x.kind = "E2" PROVE x.body # s
      <4>1. x # e2
        BY <1>5, <1>12, <2>2, <3>1, <3>3
      <4>2. x \in net /\ x.to # Host
        BY <1>1, <1>11, <3>3, <4>1, Constants
      <4>3. x.body.no <= handshakes[x.body.of]
        BY <3>3, <4>2 DEF IInv, NetInv, Proper
      <4>4. handshakes[q] \in Nat
        BY <1>1, <1>2
      <4> QED BY <1>5, <4>3, <4>4
    <3> QED BY <1>5, <3>1, <3>2, <3>3
  <2> QED BY <2>1, <2>2 DEF SessionInv
<1>20. GrantInv'
  <2>1. known' = known /\ chosen' = chosen
    BY DEF authVars
  <2>2. stage' = "hello" /\ ~silent_allow => known'[Key(crypto')] # None
    BY <1>6, <1>8, <2>1
  <2> QED BY <1>6, <1>7, <2>1, <2>2 DEF IInv, GrantInv, GrantedAsChosen, Key
<1> QED BY <1>15, <1>16, <1>17, <1>18, <1>19, <1>20 DEF IInv

\* The wait for a Noise handshake.
LEMMA HostRecvNoiseInv ==
  ASSUME IInv, NEW d \in net, HostRecvNoise(d)
  PROVE  IInv'
<1>1. stage = "noise" /\ d.to = Host /\ UNCHANGED <<authVars, viewer, chosen>>
  BY DEF HostRecvNoise
<1>2. PICK copies \in Again(d) :
        /\ Redelivered(d, copies)
        /\ \/ d.kind = "E1" /\ AnswerE1(d, copies)
           \/ Reset /\ net' = Sent(d, copies)
           \/ /\ peer' = Pinned(d) /\ net' = Sent(d, copies)
              /\ UNCHANGED <<stage, crypto, handshakes, granted, silence, cancelled>>
  BY DEF HostRecvNoise
<1>3. CASE d.kind = "E1" /\ AnswerE1(d, copies)
  BY <1>1, <1>2, <1>3, AnswerE1Inv
<1>4. CASE Reset /\ net' = Sent(d, copies)
  BY <1>1, <1>2, <1>4, WrongHostInv
<1>5. CASE /\ peer' = Pinned(d) /\ net' = Sent(d, copies)
           /\ UNCHANGED <<stage, crypto, handshakes, granted, silence, cancelled>>
  BY <1>1, <1>2, <1>5, StrayInv
<1> QED BY <1>2, <1>3, <1>4, <1>5

\* The user accepts: the peer is saved with what was chosen.
LEMMA ConsentAcceptedInv ==
  ASSUME IInv, NEW perms \in Perms, ConsentAccepted(perms)
  PROVE  IInv'
<1>1. /\ stage = "consent" /\ stage' = "hello"
      /\ known' = [known EXCEPT ![Key(crypto)] = perms]
      /\ chosen' = [chosen EXCEPT ![Key(crypto)] = perms]
      /\ UNCHANGED <<mode, failed, locked, ephemeral, peer, crypto, handshakes, granted, silence,
                     viewer, net, dups>>
  BY DEF ConsentAccepted, Recorded
<1>2. crypto # None /\ crypto \in Sessions
  BY <1>1 DEF IInv, TypeOK
<1>3. Key(crypto) \in Peers
  BY <1>2, Constants DEF Key, Sessions
<1>4. known \in [Peers -> Perms \union {None}] /\ known = chosen
  BY DEF IInv, TypeOK, AuthTypeOK, GrantInv
<1>5. known' \in [Peers -> Perms \union {None}] /\ known' = chosen' /\ known'[Key(crypto)] = perms
  BY <1>1, <1>3, <1>4
<1>6. TypeOK'
  BY <1>1, <1>2, <1>5 DEF IInv, TypeOK, AuthTypeOK, Stages
<1>7. ViewerInv' /\ NetInv' /\ CountInv'
  <2>1. dups \in Nat
    BY DEF IInv, TypeOK
  <2> QED BY <1>1, <2>1, NetKept
<1>8. SessionInv'
  BY <1>1 DEF IInv, SessionInv
<1>9. GrantInv'
  BY <1>1, <1>5, Constants DEF GrantInv, GrantedAsChosen, Key
<1> QED BY <1>6, <1>7, <1>8, <1>9 DEF IInv

\* The user refuses, no Hello comes, or the session ends.
LEMMA EndsInv ==
  ASSUME IInv, ConsentRefused \/ HelloWaitEnds \/ Teardown
  PROVE  IInv'
<1>1. Reset /\ UNCHANGED <<authVars, viewer, net, dups, chosen>>
  BY DEF ConsentRefused, HelloWaitEnds, Teardown
<1>2. AuthTypeOK' /\ dups \in 0..MaxDups
  BY <1>1 DEF IInv, TypeOK, AuthTypeOK, authVars
<1> QED BY <1>1, <1>2, ResetInv DEF authVars

\* A verdict leaves the peers alone and grants what is saved, or the default.
LEMMA Validates ==
  ASSUME IInv, NEW k \in Peers, NEW method, NEW payload, Validate(k, method, payload)
  PROVE  AuthTypeOK' /\ known' = known
<1>1. /\ mode \in Modes /\ known \in [Peers -> Perms \union {None}]
      /\ failed \in [Peers -> 0..(U8 - 1)] /\ locked \in [Peers -> 0..pin_lockout]
      /\ ephemeral \in [value : Tokens, age : 0..(ephemeral_lifetime + 1)] \union {None}
  BY DEF IInv, TypeOK, AuthTypeOK
<1>2. failed' \in [Peers -> 0..(U8 - 1)] /\ locked' \in [Peers -> 0..pin_lockout]
  <2>1. CASE ClearFailures(k)
    BY <1>1, <2>1 DEF ClearFailures, U8
  <2>2. CASE CountFailure(k)
    <3> DEFINE n == (failed[k] + 1) % U8
    <3>1. failed[k] \in Nat
      BY <1>1 DEF U8
    <3>2. n \in 0..(U8 - 1)
      BY <3>1 DEF U8
    <3>3. /\ failed' = [q \in Peers |-> IF q \in Counted(k) THEN n ELSE failed[q]]
          /\ locked' = [q \in Peers |-> IF q \in Counted(k) /\ AtLimit(n)
                                        THEN pin_lockout ELSE locked[q]]
      BY <2>2 DEF CountFailure
    <3> HIDE DEF n
    <3> QED BY <1>1, <3>2, <3>3, Constants
  <2>3. CASE UNCHANGED <<failed, locked>>
    BY <1>1, <2>3
  <2> QED BY <2>1, <2>2, <2>3 DEF Validate
<1>3. /\ mode' = mode /\ known' = known
      /\ ephemeral' \in [value : Tokens, age : 0..(ephemeral_lifetime + 1)] \union {None}
  BY <1>1 DEF Validate, Consume
<1> QED BY <1>1, <1>2, <1>3 DEF AuthTypeOK

\* In each mode the permissions granted are the ones known of the peer, or the
\* default ones; without --silent-allow a known peer's are its own.
LEMMA Grants ==
  ASSUME IInv, NEW k \in Peers, NEW hello, Evaluate(k, hello).code = "Grant",
         silent_allow \/ known[k] # None
  PROVE  /\ Evaluate(k, hello).perms = IF known[k] = None THEN default_permissions ELSE known[k]
         /\ Evaluate(k, hello).perms \in Perms
<1> DEFINE v == Verdict(k, hello.method, hello.payload)
<1>1. mode \in {"Tofu", "Pin", "Ephemeral"} /\ known[k] \in Perms \union {None}
  BY AuthAssumption DEF IInv, TypeOK, AuthTypeOK
<1>2. \/ /\ v.code = "Grant"
         /\ v.perms = IF known[k] = None THEN default_permissions ELSE known[k]
      \/ v.code = "NeedsConsent" /\ v.perms = default_permissions /\ known[k] = None
      \/ v.code \notin {"Grant", "NeedsConsent"}
  <2>1. CASE mode = "Tofu"
    <3>1. v = TofuVerdict(k, hello.method)
      BY <2>1 DEF Verdict
    <3> QED BY <3>1 DEF TofuVerdict, Granted, Rejected
  <2>2. CASE mode = "Pin"
    <3>1. v = PinVerdict(k, hello.method, hello.payload)
      BY <2>2 DEF Verdict
    <3>2. locked[k] > 0 \/ locked[k] = 0
      <4>1. locked[k] \in 0..pin_lockout
        BY DEF IInv, TypeOK, AuthTypeOK
      <4> QED BY <4>1, Constants
    <3> QED BY <3>1, <3>2 DEF PinVerdict, GrantedTo, Granted, Rejected
  <2>3. CASE mode = "Ephemeral"
    <3>1. v = EphemeralVerdict(k, hello.method, hello.payload)
      BY <2>3 DEF Verdict
    <3> QED BY <3>1 DEF EphemeralVerdict, GrantedTo, Granted, Rejected
  <2> QED BY <1>1, <2>1, <2>2, <2>3
<1> HIDE DEF v
<1>3. Evaluate(k, hello) = IF v.code # "NeedsConsent" THEN v
                           ELSE IF silent_allow THEN Granted(v.perms) ELSE Rejected("ConsentDenied")
  BY DEF Evaluate, v
<1>4. Evaluate(k, hello).perms = IF known[k] = None THEN default_permissions ELSE known[k]
  BY <1>2, <1>3 DEF Granted, Rejected
<1> QED BY <1>1, <1>4, Constants

\* The Hello is turned down.
LEMMA RejectHelloInv ==
  ASSUME IInv, NEW d \in net, d.to = Host, stage = "hello", NEW code, RejectHello(d, code),
         AuthTypeOK', UNCHANGED <<known, viewer, dups, chosen>>
  PROVE  IInv'
<1>1. peer \in Procs /\ dups \in 0..MaxDups
  BY Constants DEF IInv, TypeOK
<1>2. \A x \in net' : x \in net \/ (x.to \in Procs /\ x.kind \in {"Ack", "Reject"})
  BY <1>1 DEF RejectHello, Sent, ToViewer
<1> QED BY <1>1, <1>2, ResetInv DEF RejectHello

\* The Hello is accepted: its sender has the session, so it is the peer.
LEMMA AckHelloInv ==
  ASSUME IInv, NEW d \in net, d.to = Host, stage = "hello", d.kind = "Hello", Decrypts(d),
         AuthTypeOK', UNCHANGED <<known, viewer, dups, chosen>>, NEW perms \in Perms,
         perms = IF known[Key(crypto)] = None THEN default_permissions ELSE known[Key(crypto)],
         silent_allow \/ known[Key(crypto)] # None,
         AckHello(d, perms)
  PROVE  IInv'
<1>1. peer \in Procs /\ dups \in 0..MaxDups /\ crypto # None /\ crypto \in Sessions
  BY Constants DEF IInv, TypeOK
<1>2. /\ \A x \in net' : x \in net \/ (x.to \in Procs /\ x.kind \in {"Ack", "Reject"})
      /\ \A x \in net' : x.kind = "E2" => x \in net
  BY <1>1 DEF AckHello, Sent, ToViewer
<1>3. /\ granted' = perms /\ silence' = 0 /\ stage' \in {"session", "failed"}
      /\ UNCHANGED <<peer, crypto, handshakes, cancelled>>
  BY DEF AckHello
<1>4. ViewerInv' /\ NetInv' /\ CountInv'
  BY <1>1, <1>2, <1>3, NetKept
<1>5. TypeOK'
  BY <1>1, <1>3, Constants DEF IInv, TypeOK, Stages
<1>6. peer = crypto.of
  <2>1. d.from \in Procs /\ viewer[d.from].crypto = crypto
    BY DEF IInv, NetInv, Proper, Clear, Decrypts, Host
  <2> QED BY <2>1 DEF IInv, SessionInv
<1>7. SessionInv'
  BY <1>3, <1>6 DEF IInv, SessionInv
<1>8. GrantInv'
  BY <1>3, Constants DEF IInv, GrantInv, GrantedAsChosen, Key
<1> QED BY <1>4, <1>5, <1>7, <1>8 DEF IInv

\* A Hello of the session's viewer.
LEMMA HelloArrivesInv ==
  ASSUME IInv, NEW d \in net, HelloArrives(d)
  PROVE  IInv'
<1> DEFINE k == Key(crypto)
           v == Evaluate(k, d.body)
<1>1. /\ stage = "hello" /\ d.to = Host /\ d.kind = "Hello" /\ Decrypts(d)
      /\ UNCHANGED <<viewer, dups, chosen>>
  BY DEF HelloArrives
<1>2. crypto # None /\ crypto \in Sessions
  BY <1>1 DEF IInv, TypeOK
<1>3. k \in Peers
  BY <1>2, Constants DEF Key, Sessions
<1>4. silent_allow \/ known[k] # None
  BY <1>1 DEF IInv, GrantInv
<1>5. CASE RejectHello(d, "UnsupportedCodec") /\ UNCHANGED authVars
  <2>1. AuthTypeOK' /\ known' = known
    BY <1>5 DEF IInv, TypeOK, AuthTypeOK, authVars
  <2> QED BY <1>1, <1>5, <2>1, RejectHelloInv
<1>6. CASE /\ Validate(k, d.body.method, d.body.payload)
           /\ IF v.code = "Grant" THEN AckHello(d, v.perms) ELSE RejectHello(d, v.code)
  <2>1. AuthTypeOK' /\ known' = known
    BY <1>3, <1>6, Validates
  <2>2. CASE v.code = "Grant"
    <3>1. /\ v.perms = IF known[k] = None THEN default_permissions ELSE known[k]
          /\ v.perms \in Perms
      BY <1>3, <1>4, <2>2, Grants
    <3>2. AckHello(d, v.perms)
      BY <1>6, <2>2
    <3> QED BY <1>1, <1>4, <2>1, <3>1, <3>2, AckHelloInv
  <2>3. CASE v.code # "Grant"
    <3>1. RejectHello(d, v.code)
      BY <1>6, <2>3
    <3> QED BY <1>1, <2>1, <3>1, RejectHelloInv
  <2> QED BY <2>2, <2>3
<1> QED BY <1>5, <1>6 DEF HelloArrives

\* A datagram that is read and dropped.
LEMMA HostIgnoresInv ==
  ASSUME IInv, NEW d \in net, HostIgnores(d)
  PROVE  IInv'
<1>1. PICK copies \in Again(d) : Redelivered(d, copies) /\ net' = Sent(d, copies)
  BY DEF HostIgnores
<1>2. net' \subseteq net /\ dups' \in 0..MaxDups /\ dups' >= dups
  BY <1>1, Repeats, LeftOver
<1>3. silence \in 0..(KEEPALIVE_TIMEOUT + 1)
  BY DEF IInv, TypeOK
<1> QED BY <1>2, <1>3, HostQuiet DEF HostIgnores, hostVars

\* A KeepAlive, a tick of the watchdog, the user's Stop.
LEMMA QuietInv ==
  ASSUME IInv, Stop \/ WatchdogTick \/ \E d \in net : KeepAliveArrives(d)
  PROVE  IInv'
<1>1. silence \in 0..(KEEPALIVE_TIMEOUT + 1) /\ dups \in 0..MaxDups
  BY DEF IInv, TypeOK
<1>2. CASE Stop
  BY <1>1, <1>2, HostQuiet DEF Stop
<1>3. CASE WatchdogTick
  <2>1. silence' \in 0..(KEEPALIVE_TIMEOUT + 1)
    BY <1>1, <1>3, Constants DEF WatchdogTick
  <2> QED BY <1>1, <1>3, <2>1, HostQuiet DEF WatchdogTick
<1>4. CASE \E d \in net : KeepAliveArrives(d)
  <2>1. net' \subseteq net /\ silence' = 0
    BY <1>4 DEF KeepAliveArrives, Sent
  <2> QED BY <1>1, <1>4, <2>1, Constants, HostQuiet DEF KeepAliveArrives
<1> QED BY <1>2, <1>3, <1>4

\* The loop ends.
LEMMA HostStopsInv ==
  ASSUME IInv, HostStops
  PROVE  IInv'
<1>1. ViewerInv' /\ NetInv' /\ CountInv'
  <2>1. dups \in Nat
    BY DEF IInv, TypeOK
  <2> QED BY <2>1, NetKept DEF HostStops
<1>2. TypeOK'
  BY DEF IInv, TypeOK, AuthTypeOK, authVars, HostStops, Stages
<1>3. SessionInv'
  BY DEF IInv, SessionInv, HostStops
<1>4. GrantInv'
  BY DEF IInv, GrantInv, GrantedAsChosen, HostStops, authVars
<1> QED BY <1>1, <1>2, <1>3, <1>4 DEF IInv

-----------------------------------------------------------------------------
(* A viewer's steps.                                                       *)

\* A viewer that keeps its session, in a stage that fits it, and sends at most what
\* it encrypts under it.
LEMMA ViewerKept ==
  ASSUME IInv, ViewerOnly, NEW p \in Procs, NEW v \in VStates, Becomes(p, v),
         v.crypto = viewer[p].crypto,
         v.at \in {"idle", "noise"} => v.crypto = None,
         v.at \in {"hello", "streaming"} => v.crypto # None,
         v.at = "idle" => viewer[p].at = "idle",
         \A d \in net' : \/ d \in net
                         \/ /\ d.to = Host /\ d.from = p /\ d.kind # "E1"
                            /\ Clear(d) \/ (d.under # None /\ d.under = v.crypto)
                            /\ d.kind # "E2"
  PROVE  IInv'
<1>1. viewer \in [Procs -> VStates] /\ viewer' = [viewer EXCEPT ![p] = v]
  BY DEF IInv, ViewerInv, Becomes
<1>2. /\ viewer' \in [Procs -> VStates] /\ viewer'[p] = v
      /\ \A q \in Procs : viewer'[q].crypto = viewer[q].crypto
      /\ \A q \in Procs : q # p => viewer'[q] = viewer[q]
  BY <1>1
<1>3. UNCHANGED <<authVars, hostVars, dups, chosen>>
  BY DEF ViewerOnly
<1>4. ViewerInv'
  <2> SUFFICES ASSUME NEW q \in Procs
               PROVE  /\ viewer'[q].at \in {"idle", "noise"} => viewer'[q].crypto = None
                      /\ viewer'[q].at \in {"hello", "streaming"} => viewer'[q].crypto # None
                      /\ viewer'[q].crypto # None => /\ viewer'[q].crypto.of = q
                                                     /\ viewer'[q].crypto.no <= handshakes'[q]
    BY <1>2 DEF ViewerInv
  <2>1. handshakes' = handshakes
    BY <1>3 DEF hostVars
  <2>2. /\ viewer[q].at \in {"idle", "noise"} => viewer[q].crypto = None
        /\ viewer[q].at \in {"hello", "streaming"} => viewer[q].crypto # None
        /\ viewer[q].crypto # None => /\ viewer[q].crypto.of = q
                                      /\ viewer[q].crypto.no <= handshakes[q]
    BY DEF IInv, ViewerInv
  <2>3. CASE q = p
    BY <1>2, <2>1, <2>2, <2>3
  <2>4. CASE q # p
    BY <1>2, <2>1, <2>2, <2>4
  <2> QED BY <2>3, <2>4
<1>5. NetInv'
  <2> SUFFICES ASSUME NEW d \in net' PROVE Proper(d)'
    BY DEF NetInv
  <2>1. handshakes' = handshakes
    BY <1>3 DEF hostVars
  <2>2. CASE d \in net
    <3>1. Proper(d)
      BY <2>2 DEF IInv, NetInv
    <3> QED BY <1>2, <2>1, <3>1 DEF Proper
  <2>3. CASE d \notin net
    BY <1>2, <2>3 DEF Proper
  <2> QED BY <2>2, <2>3
<1>6. CountInv'
  <2> SUFFICES ASSUME NEW q \in Procs
               PROVE  handshakes[q] + InFlight(q)'
                        <= (IF viewer'[q].at = "idle" THEN 0 ELSE 1) + dups
    BY <1>3 DEF CountInv, hostVars
  <2>1. handshakes[q] + InFlight(q) <= (IF viewer[q].at = "idle" THEN 0 ELSE 1) + dups
    BY DEF IInv, CountInv
  <2>2. ToHost(q, "E1", None, None) \in net' => ToHost(q, "E1", None, None) \in net
    BY DEF ToHost
  <2>3. InFlight(q)' \in {0, 1} /\ InFlight(q) \in {0, 1} /\ InFlight(q)' <= InFlight(q)
    BY <2>2 DEF InFlight
  <2>4. viewer'[q].at = "idle" => viewer[q].at = "idle"
    BY <1>2
  <2>5. handshakes[q] \in Nat /\ dups \in Nat
    BY DEF IInv, TypeOK
  <2> QED BY <2>1, <2>3, <2>4, <2>5
<1>7. TypeOK'
  BY <1>3, <1>4, TypeKept
<1>8. SessionInv'
  BY <1>2, <1>3, SessionKept DEF hostVars
<1>9. GrantInv'
  BY <1>3, GrantKept DEF authVars, hostVars
<1> QED BY <1>4, <1>5, <1>6, <1>7, <1>8, <1>9 DEF IInv

\* The process ends.
LEMMA ExitsInv ==
  ASSUME IInv, NEW p \in Procs, ViewerOnly, viewer[p].at # "idle",
         Becomes(p, [viewer[p] EXCEPT !.at = "exited"]), net' \subseteq net
  PROVE  IInv'
<1> DEFINE v == [viewer[p] EXCEPT !.at = "exited"]
<1>1. viewer[p] \in VStates
  BY DEF IInv, ViewerInv
<1>2. v \in VStates /\ v.crypto = viewer[p].crypto /\ v.at = "exited"
  BY <1>1 DEF VStates, VStages
<1> HIDE DEF v
<1> QED BY <1>2, ViewerKept DEF v

\* The process starts.
LEMMA StartInv ==
  ASSUME IInv, NEW p \in Procs, Start(p)
  PROVE  IInv'
<1> DEFINE v == [NewViewer EXCEPT !.at = "noise"]
           e1 == ToHost(p, "E1", None, None)
<1>1. v \in VStates /\ v.at = "noise" /\ v.crypto = None
  BY DEF NewViewer, VStates, VStages, Methods
<1>2. /\ viewer[p].at = "idle" /\ viewer[p].crypto = None
      /\ viewer \in [Procs -> VStates] /\ viewer' = [viewer EXCEPT ![p] = v]
      /\ net' = net \union {e1}
      /\ UNCHANGED <<authVars, hostVars, dups, chosen>>
  BY DEF IInv, ViewerInv, Start, Becomes, ViewerOnly
<1>3. /\ viewer' \in [Procs -> VStates] /\ viewer'[p] = v
      /\ \A q \in Procs : viewer'[q].crypto = viewer[q].crypto
      /\ \A q \in Procs : q # p => viewer'[q] = viewer[q]
  BY <1>1, <1>2
<1>4. /\ e1.to = Host /\ e1.from = p /\ e1.kind = "E1"
      /\ \A q \in Procs : q # p => ToHost(q, "E1", None, None) # e1
  BY DEF ToHost
<1> HIDE DEF v
<1>5. ViewerInv'
  BY <1>1, <1>2, <1>3 DEF IInv, ViewerInv, hostVars
<1>6. NetInv'
  <2> SUFFICES ASSUME NEW d \in net' PROVE Proper(d)'
    BY DEF NetInv
  <2>1. CASE d \in net
    <3>1. Proper(d)
      BY <2>1 DEF IInv, NetInv
    <3> QED BY <1>2, <1>3, <3>1 DEF Proper, hostVars
  <2>2. CASE d = e1
    BY <1>4, <2>2 DEF Proper
  <2> QED BY <1>2, <2>1, <2>2
<1>7. CountInv'
  <2> SUFFICES ASSUME NEW q \in Procs
               PROVE  handshakes[q] + InFlight(q)'
                        <= (IF viewer'[q].at = "idle" THEN 0 ELSE 1) + dups
    BY <1>2 DEF CountInv, hostVars
  <2>1. handshakes[q] + InFlight(q) <= (IF viewer[q].at = "idle" THEN 0 ELSE 1) + dups
    BY DEF IInv, CountInv
  <2>2. handshakes[q] \in Nat /\ dups \in Nat /\ InFlight(q) \in {0, 1} /\ InFlight(q)' \in {0, 1}
    BY DEF IInv, TypeOK, InFlight
  <2>3. CASE q = p
    BY <1>1, <1>2, <1>3, <2>1, <2>2, <2>3
  <2>4. CASE q # p
    <3>1. InFlight(q)' = InFlight(q)
      BY <1>2, <1>4, <2>4 DEF InFlight
    <3> QED BY <1>3, <2>1, <2>4, <3>1
  <2> QED BY <2>3, <2>4
<1>8. TypeOK'
  BY <1>2, <1>5, TypeKept
<1>9. SessionInv'
  <2>1. \A d \in net' : d.kind = "E2" => d \in net
    BY <1>2, <1>4
  <2> QED BY <1>2, <1>3, <2>1, SessionKept DEF hostVars
<1>10. GrantInv'
  BY <1>2, GrantKept DEF authVars, hostVars
<1> QED BY <1>5, <1>6, <1>7, <1>8, <1>9, <1>10 DEF IInv

\* The NoiseE2 for its own NoiseE1: the viewer has a session, and the host sends to
\* it if it is the host's.
LEMMA GetsE2Inv ==
  ASSUME IInv, NEW p \in Procs, NEW d \in net, d.to = p, GetsE2(p, d), ViewerOnly
  PROVE  IInv'
<1>1. CASE d.body.of # p
  <2>1. Exits(p) /\ viewer[p].at = "noise"
    BY <1>1 DEF GetsE2
  <2> QED BY <2>1, ExitsInv DEF Exits
<1>2. CASE d.body.of = p
  <2> DEFINE s == d.body
             v == [viewer[p] EXCEPT !.at = "hello", !.crypto = s, !.sends = 1]
             h == HelloOf(p, s, "Tofu")
  <2>1. /\ viewer[p].at = "noise" /\ d.kind = "E2" /\ viewer[p].crypto = None
        /\ viewer \in [Procs -> VStates] /\ viewer' = [viewer EXCEPT ![p] = v]
        /\ net' = Sent(d, {h})
        /\ UNCHANGED <<authVars, hostVars, dups, chosen>>
    BY <1>2 DEF IInv, ViewerInv, GetsE2, Becomes, ViewerOnly
  <2>2. s \in Sessions /\ s.no <= handshakes[p]
    <3>1. d.to # Host
      BY Constants
    <3> QED BY <1>2, <2>1, <3>1 DEF IInv, NetInv, Proper
  <2>3. v \in VStates /\ v.at = "hello" /\ v.crypto = s
    <3>1. viewer[p] \in VStates
      BY <2>1
    <3> QED BY <2>2, <3>1 DEF VStates, VStages
  <2> HIDE DEF v
  <2>4. /\ viewer' \in [Procs -> VStates] /\ viewer'[p] = v
        /\ \A q \in Procs : q # p => viewer'[q] = viewer[q]
    BY <2>1, <2>3
  <2>5. h.to = Host /\ h.from = p /\ h.kind = "Hello" /\ h.under = s
    BY DEF HelloOf, ToHost
  <2> HIDE DEF h
  <2>6. net' \subseteq net \union {h}
    BY <2>1 DEF Sent
  <2>7. handshakes' = handshakes /\ stage' = stage /\ crypto' = crypto /\ peer' = peer /\ dups' = dups
    BY <2>1 DEF hostVars
  <2>8. ViewerInv'
    <3> SUFFICES ASSUME NEW q \in Procs
                 PROVE  /\ viewer'[q].at \in {"idle", "noise"} => viewer'[q].crypto = None
                        /\ viewer'[q].at \in {"hello", "streaming"} => viewer'[q].crypto # None
                        /\ viewer'[q].crypto # None => /\ viewer'[q].crypto.of = q
                                                       /\ viewer'[q].crypto.no <= handshakes'[q]
      BY <2>4 DEF ViewerInv
    <3>1. CASE q = p
      BY <1>2, <2>2, <2>3, <2>4, <2>7, <3>1, Constants
    <3>2. CASE q # p
      BY <2>4, <2>7, <3>2 DEF IInv, ViewerInv
    <3> QED BY <3>1, <3>2
  <2>9. NetInv'
    <3> SUFFICES ASSUME NEW x \in net' PROVE Proper(x)'
      BY DEF NetInv
    <3>1. CASE x = h
      BY <2>2, <2>3, <2>4, <2>5, <3>1, Constants DEF Proper
    <3>2. CASE x \in net
      <4>1. Proper(x)
        BY <3>2 DEF IInv, NetInv
      <4>2. x.to = Host /\ x.kind # "E1" /\ ~Clear(x) => x.from # p
        BY <2>1, <4>1 DEF Proper
      <4> QED BY <2>4, <2>7, <4>1, <4>2 DEF Proper
    <3> QED BY <2>6, <3>1, <3>2
  <2>10. CountInv'
    <3> SUFFICES ASSUME NEW q \in Procs
                 PROVE  handshakes[q] + InFlight(q)'
                          <= (IF viewer'[q].at = "idle" THEN 0 ELSE 1) + dups
      BY <2>7 DEF CountInv
    <3>1. handshakes[q] + InFlight(q) <= (IF viewer[q].at = "idle" THEN 0 ELSE 1) + dups
      BY DEF IInv, CountInv
    <3>2. ToHost(q, "E1", None, None) \in net' => ToHost(q, "E1", None, None) \in net
      <4>1. ToHost(q, "E1", None, None) # h
        BY <2>5 DEF ToHost
      <4> QED BY <2>6, <4>1
    <3>3. InFlight(q)' \in {0, 1} /\ InFlight(q) \in {0, 1} /\ InFlight(q)' <= InFlight(q)
      BY <3>2 DEF InFlight
    <3>4. viewer'[q].at = "idle" => viewer[q].at = "idle"
      BY <2>3, <2>4
    <3>5. handshakes[q] \in Nat /\ dups \in Nat
      BY DEF IInv, TypeOK
    <3> QED BY <3>1, <3>3, <3>4, <3>5
  <2>11. TypeOK'
    BY <2>1, <2>8, TypeKept
  <2>12. SessionInv'
    <3>1. crypto' # None => crypto'.no <= handshakes'[crypto'.of]
      BY <2>7 DEF IInv, SessionInv
    <3>2. ASSUME stage' \in {"consent", "hello", "session"}, peer' # crypto'.of
          PROVE  /\ stage' # "session"
                 /\ \A q \in Procs : viewer'[q].crypto # crypto'
                 /\ \A x \in net' : x.to = crypto'.of /\ x.kind = "E2" => x.body # crypto'
      <4>1. /\ stage # "session" /\ \A q \in Procs : viewer[q].crypto # crypto
            /\ \A x \in net : x.to = crypto.of /\ x.kind = "E2" => x.body # crypto
        BY <2>7, <3>2 DEF IInv, SessionInv
      <4>2. s # crypto
        BY <1>2, <2>1, <4>1
      <4>3. \A q \in Procs : viewer'[q].crypto # crypto
        BY <2>3, <2>4, <4>1, <4>2
      <4> QED BY <2>5, <2>6, <2>7, <4>1, <4>3
    <3> QED BY <3>1, <3>2 DEF SessionInv
  <2>13. GrantInv'
    BY <2>1, GrantKept DEF authVars, hostVars
  <2> QED BY <2>8, <2>9, <2>10, <2>11, <2>12, <2>13 DEF IInv
<1> QED BY <1>1, <1>2

\* A HelloAck.
LEMMA GetsAckInv ==
  ASSUME IInv, NEW p \in Procs, NEW d \in net, GetsAck(p, d), ViewerOnly
  PROVE  IInv'
<1> DEFINE v == [viewer[p] EXCEPT !.at = "streaming"]
<1>1. viewer[p] \in VStates /\ viewer[p].crypto # None
  BY DEF IInv, ViewerInv, GetsAck
<1>2. v \in VStates /\ v.crypto = viewer[p].crypto /\ v.at = "streaming"
  BY <1>1 DEF VStates, VStages
<1>3. Becomes(p, v) /\ net' \subseteq net
  BY DEF GetsAck, Sent
<1> HIDE DEF v
<1> QED BY <1>1, <1>2, <1>3, ViewerKept

\* Another Hello of the same session.
LEMMA SaysHello ==
  ASSUME NEW p, NEW s, NEW attempt
  PROVE  /\ HelloOf(p, s, attempt).to = Host /\ HelloOf(p, s, attempt).from = p
         /\ HelloOf(p, s, attempt).kind = "Hello" /\ HelloOf(p, s, attempt).under = s
BY DEF HelloOf, ToHost

\* A HelloReject: the next method the viewer has something for, or the end.
LEMMA GetsRejectInv ==
  ASSUME IInv, NEW p \in Procs, NEW d \in net, GetsReject(p, d), ViewerOnly
  PROVE  IInv'
<1> DEFINE next == NextAttempt(viewer[p].attempt, d.body)
<1>1. /\ viewer[p] \in VStates /\ viewer[p].at = "hello" /\ viewer[p].crypto # None
  BY DEF IInv, ViewerInv, GetsReject
<1>2. CASE ~Supplied(p, next)
  <2>1. Exits(p)
    BY <1>2 DEF GetsReject
  <2> QED BY <1>1, <2>1, ExitsInv DEF Exits
<1>3. CASE Supplied(p, next)
  <2> DEFINE v == [viewer[p] EXCEPT !.attempt = next, !.used = @ \union {next}, !.sends = 1]
             h == HelloOf(p, viewer[p].crypto, next)
  <2>1. Becomes(p, v) /\ net' = Sent(d, {h})
    BY <1>3 DEF GetsReject
  <2>2. next \in Methods
    BY <1>3 DEF Supplied, NextAttempt, Methods
  <2> HIDE DEF next
  <2>3. v \in VStates /\ v.crypto = viewer[p].crypto /\ v.at = "hello"
    BY <1>1, <2>2 DEF VStates
  <2>4. /\ h.to = Host /\ h.from = p /\ h.kind = "Hello" /\ h.under = viewer[p].crypto
    BY SaysHello
  <2>5. \A x \in net' : x \in net \/ x = h
    BY <2>1 DEF Sent
  <2> HIDE DEF v, h
  <2>6. \A x \in net' : \/ x \in net
                        \/ /\ x.to = Host /\ x.from = p /\ x.kind # "E1"
                           /\ x.under # None /\ x.under = v.crypto /\ x.kind # "E2"
    BY <1>1, <2>3, <2>4, <2>5
  <2> QED BY <1>1, <2>1, <2>3, <2>6, ViewerKept
<1> QED BY <1>2, <1>3

\* Whatever arrives at a viewer.
LEMMA ViewerReceivesInv ==
  ASSUME IInv, NEW p \in Procs, NEW d \in net, ViewerReceives(p, d)
  PROVE  IInv'
<1>1. d.to = p /\ ViewerOnly
  BY DEF ViewerReceives
<1>2. CASE GetsE2(p, d)
  BY <1>1, <1>2, GetsE2Inv
<1>3. CASE GetsAck(p, d)
  BY <1>1, <1>3, GetsAckInv
<1>4. CASE GetsReject(p, d)
  BY <1>1, <1>4, GetsRejectInv
<1>5. CASE net' = Sent(d, {}) /\ UNCHANGED viewer
  <2>1. net' \subseteq net
    BY <1>5 DEF Sent
  <2>2. silence \in 0..(KEEPALIVE_TIMEOUT + 1) /\ dups \in 0..MaxDups
    BY DEF IInv, TypeOK
  <2> QED BY <1>1, <1>5, <2>1, <2>2, HostQuiet DEF ViewerOnly, hostVars
<1> QED BY <1>2, <1>3, <1>4, <1>5 DEF ViewerReceives

\* A timer, a KeepAlive or the end of the process.
LEMMA ViewerStepInv ==
  ASSUME IInv, NEW p \in Procs, Viewer(p)
  PROVE  IInv'
<1>1. viewer[p] \in VStates
  BY DEF IInv, ViewerInv
<1>2. CASE Start(p)
  BY <1>2, StartInv
<1>3. CASE NoiseTimeout(p) \/ Crash(p)
  <2>1. ViewerOnly /\ Exits(p) /\ viewer[p].at # "idle"
    BY <1>3 DEF NoiseTimeout, Crash, Active
  <2> QED BY <2>1, ExitsInv DEF Exits
<1>4. CASE KeepAlive(p)
  <2> DEFINE k == ToHost(p, "KeepAlive", viewer[p].crypto, None)
  <2>1. viewer[p].at = "streaming" /\ viewer[p].crypto # None
    BY <1>4 DEF IInv, ViewerInv, KeepAlive
  <2>2. k.to = Host /\ k.from = p /\ k.kind = "KeepAlive" /\ k.under = viewer[p].crypto
    BY DEF ToHost
  <2>3. net' = net \union {k} /\ ViewerOnly
    BY <1>4 DEF KeepAlive
  <2> HIDE DEF k
  <2>4. Becomes(p, viewer[p])
    <3>1. viewer' = viewer /\ viewer \in [Procs -> VStates]
      BY <1>4 DEF KeepAlive, IInv, ViewerInv
    <3> QED BY <3>1 DEF Becomes
  <2>5. \A x \in net' : \/ x \in net
                        \/ /\ x.to = Host /\ x.from = p /\ x.kind # "E1"
                           /\ x.under # None /\ x.under = viewer[p].crypto /\ x.kind # "E2"
    BY <2>1, <2>2, <2>3
  <2> QED BY <1>1, <2>1, <2>3, <2>4, <2>5, ViewerKept
<1>6. CASE ClearKeepAlive(p)
  <2> DEFINE k == ToHost(p, "KeepAlive", None, None)
  <2>1. k.to = Host /\ k.from = p /\ k.kind = "KeepAlive" /\ Clear(k)
    BY DEF ToHost, Clear
  <2>2. net' = net \union {k} /\ ViewerOnly
    BY <1>6 DEF ClearKeepAlive
  <2> HIDE DEF k
  <2>3. Becomes(p, viewer[p])
    <3>1. viewer' = viewer /\ viewer \in [Procs -> VStates]
      BY <1>6 DEF ClearKeepAlive, IInv, ViewerInv
    <3> QED BY <3>1 DEF Becomes
  <2>4. /\ viewer[p].at \in {"idle", "noise"} => viewer[p].crypto = None
        /\ viewer[p].at \in {"hello", "streaming"} => viewer[p].crypto # None
    BY DEF IInv, ViewerInv
  <2>5. \A x \in net' : \/ x \in net
                        \/ /\ x.to = Host /\ x.from = p /\ x.kind # "E1"
                           /\ Clear(x) /\ x.kind # "E2"
    BY <2>1, <2>2
  <2> QED BY <1>1, <2>2, <2>3, <2>4, <2>5, ViewerKept
<1>5. CASE HelloRetry(p)
  <2>1. ViewerOnly /\ viewer[p].at = "hello" /\ viewer[p].crypto # None
    BY <1>5 DEF IInv, ViewerInv, HelloRetry
  <2>2. CASE viewer[p].sends < DEFAULT_HELLO_RETRIES
    <3> DEFINE v == [viewer[p] EXCEPT !.sends = @ + 1]
               h == HelloOf(p, viewer[p].crypto, viewer[p].attempt)
    <3>1. Becomes(p, v) /\ net' = net \union {h}
      BY <1>5, <2>2 DEF HelloRetry
    <3>2. v \in VStates /\ v.crypto = viewer[p].crypto /\ v.at = "hello"
      BY <1>1, <2>1 DEF VStates
    <3>3. h.to = Host /\ h.from = p /\ h.kind = "Hello" /\ h.under = viewer[p].crypto
      BY SaysHello
    <3> HIDE DEF v, h
    <3>4. \A x \in net' : \/ x \in net
                          \/ /\ x.to = Host /\ x.from = p /\ x.kind # "E1"
                             /\ x.under # None /\ x.under = v.crypto /\ x.kind # "E2"
      BY <2>1, <3>1, <3>2, <3>3
    <3> QED BY <2>1, <3>1, <3>2, <3>4, ViewerKept
  <2>3. CASE ~(viewer[p].sends < DEFAULT_HELLO_RETRIES)
    <3>1. Exits(p)
      BY <1>5, <2>3 DEF HelloRetry
    <3> QED BY <2>1, <3>1, ExitsInv DEF Exits
  <2> QED BY <2>2, <2>3
<1> QED BY <1>2, <1>3, <1>4, <1>5, <1>6 DEF Viewer

-----------------------------------------------------------------------------
(* The theorems.                                                           *)

\* IInv holds at the start.
LEMMA InitInv ==
  ASSUME Init
  PROVE  IInv
<1>1. TypeOK
  <2>1. AuthTypeOK
    BY Constants DEF Init, AuthInit, AuthTypeOK, U8
  <2>2. \A p \in Procs : viewer[p].at \in VStages /\ viewer[p].crypto \in Sessions \union {None}
    BY DEF Init, NewViewer, VStages
  <2>3. handshakes \in [Procs -> 0..(MaxDups + 1)]
    BY Constants DEF Init
  <2> QED BY <2>1, <2>2, <2>3, Constants DEF Init, TypeOK, Stages
<1>2. ViewerInv
  <2>1. NewViewer \in VStates
    BY DEF NewViewer, VStates, VStages, Methods
  <2> QED BY <2>1 DEF Init, ViewerInv, NewViewer
<1>3. NetInv /\ SessionInv
  BY DEF Init, NetInv, SessionInv
<1>4. CountInv
  BY DEF Init, CountInv, InFlight, NewViewer
<1>5. GrantInv
  BY DEF Init, GrantInv, GrantedAsChosen
<1> QED BY <1>1, <1>2, <1>3, <1>4, <1>5 DEF IInv

\* Every step keeps it.
LEMMA StepInv ==
  ASSUME IInv, [Next]_vars
  PROVE  IInv'
<1>1. CASE UNCHANGED vars
  <2>1. silence \in 0..(KEEPALIVE_TIMEOUT + 1) /\ dups \in 0..MaxDups
    BY DEF IInv, TypeOK
  <2> QED BY <1>1, <2>1, HostQuiet DEF vars, hostVars
<1>2. CASE \E d \in net : HostReceives(d)
  BY <1>2, HostRecvNoiseInv, HelloArrivesInv, HostIgnoresInv, QuietInv DEF HostReceives
<1>3. CASE \E d \in net : Lose(d)
  BY <1>3, LoseInv
<1>4. CASE \E d \in net : \E p \in Procs : ViewerReceives(p, d)
  BY <1>4, ViewerReceivesInv
<1>5. CASE HostSteps
  BY <1>5, ConsentAcceptedInv, EndsInv, QuietInv, HostStopsInv DEF HostSteps
<1>6. CASE \E p \in Procs : Viewer(p)
  BY <1>6, ViewerStepInv
<1> QED BY <1>1, <1>2, <1>3, <1>4, <1>5, <1>6 DEF Next

\* The types, and what belongs to a stage of the loop.
THEOREM TypeCorrect == Spec => []TypeOK
<1>1. IInv => TypeOK
  BY DEF IInv
<1> QED BY <1>1, InitInv, StepInv, PTL DEF Spec

\* A session runs with the permissions its user chose for the viewer's key, or with
\* the default ones under --silent-allow (host/src/lib.rs, auth.rs validate).
THEOREM PermissionsAsChosen == Spec => []GrantedAsChosen
<1>1. IInv => GrantedAsChosen
  BY DEF IInv, GrantInv
<1> QED BY <1>1, InitInv, StepInv, PTL DEF Spec

\* A session sends to the viewer it was granted to, whatever arrived before
\* (transport/src/udp.rs recv, host/src/lib.rs reset_session).
THEOREM GranteeIsPeer == Spec => []TrafficGoesToGrantee
<1>1. IInv => TrafficGoesToGrantee
  BY DEF IInv, SessionInv, TrafficGoesToGrantee
<1> QED BY <1>1, InitInv, StepInv, PTL DEF Spec

-----------------------------------------------------------------------------
(* No Hello but the first of a Noise session is ever judged: a rejection   *)
(* resets the session, and only a rejection makes a viewer try another     *)
(* method.                                                                 *)

\* A Noise session the host has had and will not have again.
Spent(s) ==
  /\ s \in Sessions /\ s # None /\ s # crypto
  /\ s.no <= handshakes[s.of]

\* What exists only after a rejection: the rejection itself, and the Hello that it
\* makes a viewer send.
Late(d) == d.kind = "Reject" \/ (d.kind = "Hello" /\ d.body.method # "Tofu")

\* A viewer that tries another method does it in a spent session, so no method but
\* "Tofu" is looked at.
SpentInv ==
  /\ \A p \in Procs : viewer[p].attempt # "Tofu" => Spent(viewer[p].crypto)
  /\ \A d \in net : Late(d) => Spent(d.under)
  /\ mode # "Tofu" => stage \notin {"session", "failed"}
  /\ failed = [p \in Peers |-> 0]

\* With --auth pin or ephemeral no viewer gets a session, whatever PIN or ephemeral
\* it has, and no PIN is checked (host/src/lib.rs run_host answers a rejection with
\* reset_session, viewer/src/lib.rs run_viewer_auth_loop sends its next Hello in the
\* old session).
PinOpensNothing ==
  /\ mode # "Tofu" => stage \notin {"session", "failed"}
  /\ failed = [p \in Peers |-> 0]

\* A spent session stays spent: the host makes new ones only.
LEMMA SpentStays ==
  ASSUME IInv, NEW s, Spent(s),
         \/ crypto' \in {crypto, None} /\ handshakes' = handshakes
         \/ \E q \in Procs : /\ handshakes' = [handshakes EXCEPT ![q] = @ + 1]
                             /\ crypto' \in {None, [of |-> q, no |-> handshakes[q] + 1]}
  PROVE  Spent(s)'
<1>1. s \in Sessions /\ s # None /\ s # crypto /\ s.no <= handshakes[s.of]
  BY DEF Spent
<1>2. s.of \in Procs /\ s.no \in Nat
  BY <1>1 DEF Sessions
<1>3. handshakes \in [Procs -> 0..(MaxDups + 1)]
  BY DEF IInv, TypeOK
<1>4. CASE crypto' \in {crypto, None} /\ handshakes' = handshakes
  BY <1>1, <1>4 DEF Spent
<1>5. CASE \E q \in Procs : /\ handshakes' = [handshakes EXCEPT ![q] = @ + 1]
                            /\ crypto' \in {None, [of |-> q, no |-> handshakes[q] + 1]}
  <2>1. PICK q \in Procs : /\ handshakes' = [handshakes EXCEPT ![q] = @ + 1]
                           /\ crypto' \in {None, [of |-> q, no |-> handshakes[q] + 1]}
    BY <1>5
  <2>2. handshakes[q] \in Nat /\ handshakes[s.of] \in Nat
    BY <1>2, <1>3, Constants
  <2>3. handshakes'[s.of] \in Nat /\ handshakes'[s.of] >= handshakes[s.of]
    BY <1>2, <1>3, <2>1, <2>2
  <2>4. s.no <= handshakes'[s.of]
    BY <1>1, <1>2, <2>2, <2>3
  <2>5. s # crypto'
    BY <1>1, <1>2, <2>1, <2>2
  <2> QED BY <1>1, <2>4, <2>5 DEF Spent
<1> QED BY <1>4, <1>5

\* Steps of the host without a Hello's verdict: nothing late is sent.
LEMMA HostSpends ==
  ASSUME IInv, SpentInv, UNCHANGED <<mode, failed, viewer>>,
         \A d \in net' : Late(d) => d \in net,
         stage' \in {"session", "failed"} => stage \in {"session", "failed"} \/ mode = "Tofu",
         \/ crypto' \in {crypto, None} /\ handshakes' = handshakes
         \/ \E q \in Procs : /\ handshakes' = [handshakes EXCEPT ![q] = @ + 1]
                             /\ crypto' \in {None, [of |-> q, no |-> handshakes[q] + 1]}
  PROVE  SpentInv'
<1>1. ASSUME NEW s, Spent(s) PROVE Spent(s)'
  BY <1>1, SpentStays
<1>2. \A p \in Procs : viewer'[p].attempt # "Tofu" => Spent(viewer[p].crypto)'
  BY <1>1 DEF SpentInv, Spent
<1>3. \A d \in net' : Late(d) => Spent(d.under)'
  BY <1>1 DEF SpentInv, Spent
<1>4. mode' # "Tofu" => stage' \notin {"session", "failed"}
  BY DEF SpentInv
<1> QED BY <1>2, <1>3, <1>4 DEF SpentInv, Late

\* Steps of a viewer, which leave the host's session alone.
LEMMA ViewerSpends ==
  ASSUME IInv, SpentInv, ViewerOnly,
         \A p \in Procs : viewer'[p].attempt # "Tofu" => Spent(viewer'[p].crypto),
         \A d \in net' : Late(d) => d \in net \/ Spent(d.under)
  PROVE  SpentInv'
<1>1. UNCHANGED <<mode, failed, stage, crypto, handshakes>>
  BY DEF ViewerOnly, authVars, hostVars
<1>2. ASSUME NEW s, Spent(s) PROVE Spent(s)'
  BY <1>1, <1>2 DEF Spent
<1>3. \A p \in Procs : viewer'[p].attempt # "Tofu" => Spent(viewer[p].crypto)'
  BY <1>2
<1>4. \A d \in net' : Late(d) => Spent(d.under)'
  BY <1>2 DEF SpentInv
<1> QED BY <1>1, <1>3, <1>4 DEF SpentInv, Late

\* The wait for a Noise handshake: the new session is new.
LEMMA NoiseSpends ==
  ASSUME IInv, SpentInv, NEW d \in net, HostRecvNoise(d)
  PROVE  SpentInv'
<1>1. stage = "noise" /\ d.to = Host /\ UNCHANGED <<authVars, viewer, chosen>>
  BY DEF HostRecvNoise
<1>2. PICK copies \in Again(d) :
        \/ d.kind = "E1" /\ AnswerE1(d, copies)
        \/ Reset /\ net' = Sent(d, copies)
        \/ /\ net' = Sent(d, copies)
           /\ UNCHANGED <<stage, crypto, handshakes, granted, silence, cancelled>>
  BY DEF HostRecvNoise
<1>3. copies \subseteq {d}
  BY DEF Again
<1>4. CASE d.kind = "E1" /\ AnswerE1(d, copies)
  <2> DEFINE s == [of |-> d.from, no |-> handshakes[d.from] + 1]
             e2 == E2For(E2Target(d), s)
  <2>1. d.from \in Procs
    BY <1>1, <1>4 DEF IInv, NetInv, Proper
  <2>2. /\ handshakes' = [handshakes EXCEPT ![d.from] = @ + 1]
        /\ crypto' \in {None, s} /\ stage' \in {"noise", "consent", "hello"}
        /\ net' = Sent(d, {e2} \union copies)
    BY <1>4 DEF AnswerE1, Gate
  <2>3. e2.kind = "E2"
    BY DEF E2For, ToViewer
  <2> HIDE DEF e2
  <2>4. \A x \in net' : Late(x) => x \in net
    BY <1>3, <2>2, <2>3 DEF Sent, Late
  <2> QED BY <1>1, <2>1, <2>2, <2>4, HostSpends DEF authVars
<1>5. CASE Reset /\ net' = Sent(d, copies)
  BY <1>1, <1>3, <1>5, LeftOver, HostSpends DEF Reset, CryptoReset, authVars
<1>6. CASE /\ net' = Sent(d, copies)
           /\ UNCHANGED <<stage, crypto, handshakes, granted, silence, cancelled>>
  BY <1>1, <1>3, <1>6, LeftOver, HostSpends DEF authVars
<1> QED BY <1>2, <1>4, <1>5, <1>6

\* A Hello that is judged is the first of its session.
LEMMA FirstIsTofu ==
  ASSUME IInv, SpentInv, NEW d \in net, HelloArrives(d)
  PROVE  d.body.method = "Tofu"
BY DEF HelloArrives, Decrypts, SpentInv, Late, Spent

\* Without credentials only a host in the Tofu mode lets anybody in.
LEMMA NothingGranted ==
  ASSUME IInv, NEW k, NEW hello, hello.method = "Tofu", mode # "Tofu"
  PROVE  Evaluate(k, hello).code # "Grant"
<1> DEFINE v == Verdict(k, hello.method, hello.payload)
<1>1. mode \in {"Pin", "Ephemeral"}
  BY AuthAssumption DEF IInv, TypeOK, AuthTypeOK
<1>2. v \in {Rejected("PinRequired"), Rejected("EphemeralRequired")}
  <2>1. CASE mode = "Pin"
    <3>1. v = PinVerdict(k, hello.method, hello.payload)
      BY <2>1 DEF Verdict
    <3>2. hello.method # "Pin"
      OBVIOUS
    <3>3. PinVerdict(k, hello.method, hello.payload) = Rejected("PinRequired")
      BY <3>2 DEF PinVerdict
    <3> QED BY <3>1, <3>3
  <2>2. CASE mode = "Ephemeral"
    <3>1. v = EphemeralVerdict(k, hello.method, hello.payload)
      BY <2>2 DEF Verdict
    <3> QED BY <3>1 DEF EphemeralVerdict
  <2> QED BY <1>1, <2>1, <2>2
<1> QED BY <1>2 DEF Evaluate, Rejected

\* A Hello's rejection spends the session, an Ack is for the Tofu mode.
LEMMA HelloSpends ==
  ASSUME IInv, SpentInv, NEW d \in net, HelloArrives(d)
  PROVE  SpentInv'
<1> DEFINE k == Key(crypto)
           v == Evaluate(k, d.body)
<1>1. /\ stage = "hello" /\ UNCHANGED <<viewer, dups, chosen>> /\ d.body.method = "Tofu"
      /\ Decrypts(d) /\ d.under = crypto /\ crypto # None
  <2>1. stage = "hello" /\ d.to = Host /\ d.kind = "Hello" /\ Decrypts(d)
    BY DEF HelloArrives
  <2>2. d.under # None
    BY <2>1 DEF IInv, NetInv, Proper, Clear
  <2> QED BY <2>1, <2>2, FirstIsTofu DEF HelloArrives, Decrypts
<1>2. crypto \in Sessions /\ crypto.no <= handshakes[crypto.of]
  BY <1>1 DEF IInv, TypeOK, SessionInv
<1>3. ASSUME NEW code, RejectHello(d, code), UNCHANGED <<mode, failed>>
      PROVE  SpentInv'
  <2> DEFINE r == ToViewer(peer, "Reject", crypto, code)
  <2>1. /\ crypto' = None /\ handshakes' = handshakes /\ stage' = "noise"
        /\ net' = Sent(d, {r})
    BY <1>3 DEF RejectHello, Reset, CryptoReset
  <2>2. r.under = d.under
    BY <1>1 DEF ToViewer
  <2> HIDE DEF r
  <2>3. Spent(d.under)'
    BY <1>1, <1>2, <2>1 DEF Spent
  <2>4. ASSUME NEW s, Spent(s) PROVE Spent(s)'
    BY <2>1, <2>4, SpentStays
  <2>5. \A x \in net' : Late(x) => Spent(x.under)'
    BY <2>1, <2>2, <2>3, <2>4 DEF Sent, SpentInv, Spent
  <2>6. \A p \in Procs : viewer'[p].attempt # "Tofu" => Spent(viewer[p].crypto)'
    BY <1>1, <2>4 DEF SpentInv
  <2> QED BY <1>3, <2>1, <2>5, <2>6 DEF SpentInv, Late
<1>4. CASE RejectHello(d, "UnsupportedCodec") /\ UNCHANGED authVars
  BY <1>3, <1>4 DEF authVars
<1>5. CASE /\ Validate(k, d.body.method, d.body.payload)
           /\ IF v.code = "Grant" THEN AckHello(d, v.perms) ELSE RejectHello(d, v.code)
  <2>1. UNCHANGED <<mode, failed>>
    <3>1. ~Checked(k, d.body.method, d.body.payload)
      BY <1>1 DEF Checked
    <3> QED BY <1>5, <3>1 DEF Validate
  <2>2. CASE v.code = "Grant"
    <3> DEFINE a == ToViewer(peer, "Ack", crypto, v.perms)
    <3>1. mode = "Tofu"
      BY <1>1, <2>2, NothingGranted
    <3>2. net' = Sent(d, {a}) /\ UNCHANGED <<crypto, handshakes>>
      BY <1>5, <2>2 DEF AckHello
    <3>3. a.kind = "Ack"
      BY DEF ToViewer
    <3> HIDE DEF a
    <3>4. \A x \in net' : Late(x) => x \in net
      BY <3>2, <3>3 DEF Sent, Late
    <3> QED BY <1>1, <2>1, <3>1, <3>2, <3>4, HostSpends
  <2>3. CASE v.code # "Grant"
    BY <1>3, <1>5, <2>1, <2>3
  <2> QED BY <2>2, <2>3
<1> QED BY <1>4, <1>5 DEF HelloArrives

\* The host's other steps, and a datagram that is lost.
LEMMA OthersSpend ==
  ASSUME IInv, SpentInv,
         \/ \E d \in net : HostIgnores(d) \/ KeepAliveArrives(d) \/ Lose(d)
         \/ HostSteps
  PROVE  SpentInv'
<1>1. CASE \E d \in net : HostIgnores(d) \/ KeepAliveArrives(d) \/ Lose(d)
  <2>1. PICK d \in net : HostIgnores(d) \/ KeepAliveArrives(d) \/ Lose(d)
    BY <1>1
  <2>2. net' \subseteq net
    BY <2>1 DEF HostIgnores, KeepAliveArrives, Lose, Sent, Again
  <2>3. UNCHANGED <<mode, failed, viewer, stage, crypto, handshakes>>
    BY <2>1 DEF HostIgnores, KeepAliveArrives, Lose, authVars, hostVars
  <2> QED BY <2>2, <2>3, HostSpends
<1>2. CASE \E perms \in Perms : ConsentAccepted(perms)
  BY <1>2, HostSpends DEF ConsentAccepted
<1>3. CASE ConsentRefused \/ HelloWaitEnds \/ Teardown
  <2>1. Reset /\ UNCHANGED <<authVars, viewer, net, dups, chosen>>
    BY <1>3 DEF ConsentRefused, HelloWaitEnds, Teardown
  <2> QED BY <2>1, HostSpends DEF Reset, CryptoReset, authVars
<1>4. CASE WatchdogTick \/ Stop
  BY <1>4, HostSpends DEF WatchdogTick, Stop, authVars
<1>5. CASE HostStops
  BY <1>5, HostSpends DEF HostStops, authVars
<1> QED BY <1>1, <1>2, <1>3, <1>4, <1>5 DEF HostSteps

\* A viewer that goes on as v, and may say a Hello of v's session with v's method.
LEMMA GoesOn ==
  ASSUME IInv, SpentInv, ViewerOnly, NEW p \in Procs, NEW v, Becomes(p, v),
         v.attempt # "Tofu" => Spent(v.crypto),
         \A d \in net' : Late(d) => \/ d \in net
                                    \/ v.attempt # "Tofu" /\ d.under = v.crypto
  PROVE  SpentInv'
<1>1. viewer \in [Procs -> VStates]
  BY DEF IInv, ViewerInv
<1>2. \A q \in Procs : viewer'[q] = IF q = p THEN v ELSE viewer[q]
  BY <1>1 DEF Becomes
<1>3. \A q \in Procs : viewer'[q].attempt # "Tofu" => Spent(viewer'[q].crypto)
  BY <1>2 DEF SpentInv
<1>4. \A d \in net' : Late(d) => d \in net \/ Spent(d.under)
  OBVIOUS
<1> QED BY <1>3, <1>4, ViewerSpends

\* A Hello with another method than "Tofu" is late.
LEMMA HelloIsLate ==
  ASSUME NEW p, NEW s, NEW attempt
  PROVE  /\ Late(HelloOf(p, s, attempt)) => attempt # "Tofu"
         /\ HelloOf(p, s, attempt).under = s
BY DEF HelloOf, ToHost, Late

\* A process that ends says nothing more.
LEMMA ExitSpends ==
  ASSUME IInv, SpentInv, NEW p \in Procs, Exits(p), ViewerOnly
  PROVE  SpentInv'
<1> DEFINE v == [viewer[p] EXCEPT !.at = "exited"]
<1>1. viewer[p] \in VStates /\ net' \subseteq net /\ Becomes(p, v)
  BY DEF Exits, IInv, ViewerInv
<1>2. v.attempt = viewer[p].attempt /\ v.crypto = viewer[p].crypto
  BY <1>1 DEF VStates
<1> HIDE DEF v
<1>3. v.attempt # "Tofu" => Spent(v.crypto)
  BY <1>2 DEF SpentInv
<1> QED BY <1>1, <1>3, GoesOn

\* What a viewer does with a datagram: the rejection it reads spent its session.
LEMMA ReceiptSpends ==
  ASSUME IInv, SpentInv, NEW p \in Procs, NEW d \in net, ViewerReceives(p, d)
  PROVE  SpentInv'
<1>1. d.to = p /\ ViewerOnly /\ viewer[p] \in VStates
  BY DEF ViewerReceives, IInv, ViewerInv
<1>2. CASE GetsE2(p, d)
  <2>1. CASE d.body.of = p
    <3> DEFINE v == [viewer[p] EXCEPT !.at = "hello", !.crypto = d.body, !.sends = 1]
               h == HelloOf(p, d.body, "Tofu")
    <3>1. Becomes(p, v) /\ net' = Sent(d, {h}) /\ viewer[p].at = "noise"
      BY <1>2, <2>1 DEF GetsE2
    <3>2. viewer[p].crypto = None
      BY <3>1 DEF IInv, ViewerInv
    <3>3. viewer[p].attempt = "Tofu"
      BY <3>2 DEF SpentInv, Spent
    <3>4. v.attempt = "Tofu"
      BY <1>1, <3>3 DEF VStates
    <3>5. ~Late(h)
      BY HelloIsLate
    <3> HIDE DEF v, h
    <3>6. \A x \in net' : Late(x) => x \in net
      BY <3>1, <3>5 DEF Sent
    <3> QED BY <1>1, <3>1, <3>4, <3>6, GoesOn
  <2>2. CASE d.body.of # p
    BY <1>1, <1>2, <2>2, ExitSpends DEF GetsE2
  <2> QED BY <2>1, <2>2
<1>3. CASE GetsAck(p, d)
  <2> DEFINE v == [viewer[p] EXCEPT !.at = "streaming"]
  <2>1. Becomes(p, v) /\ net' \subseteq net
    BY <1>3 DEF GetsAck, Sent
  <2>2. v.attempt = viewer[p].attempt /\ v.crypto = viewer[p].crypto
    BY <1>1 DEF VStates
  <2> HIDE DEF v
  <2>3. v.attempt # "Tofu" => Spent(v.crypto)
    BY <2>2 DEF SpentInv
  <2> QED BY <1>1, <2>1, <2>3, GoesOn
<1>4. CASE GetsReject(p, d)
  <2> DEFINE next == NextAttempt(viewer[p].attempt, d.body)
  <2>1. d.kind = "Reject" /\ d.under = viewer[p].crypto
    BY <1>4 DEF GetsReject
  <2>2. Spent(viewer[p].crypto)
    BY <2>1 DEF SpentInv, Late
  <2>3. CASE ~Supplied(p, next)
    <3>1. Exits(p)
      BY <1>4, <2>3 DEF GetsReject
    <3> QED BY <1>1, <3>1, ExitSpends
  <2>4. CASE Supplied(p, next)
    <3> DEFINE v == [viewer[p] EXCEPT !.attempt = next, !.used = @ \union {next}, !.sends = 1]
               h == HelloOf(p, viewer[p].crypto, next)
    <3>1. Becomes(p, v) /\ net' = Sent(d, {h})
      BY <1>4, <2>4 DEF GetsReject
    <3>2. v.crypto = viewer[p].crypto /\ v.attempt = next
      BY <1>1 DEF VStates
    <3>3. h.under = viewer[p].crypto /\ (Late(h) => next # "Tofu")
      BY HelloIsLate
    <3> HIDE DEF v, h, next
    <3>4. \A x \in net' : Late(x) => \/ x \in net
                                     \/ v.attempt # "Tofu" /\ x.under = v.crypto
      BY <3>1, <3>2, <3>3 DEF Sent
    <3> QED BY <1>1, <2>2, <3>1, <3>2, <3>4, GoesOn
  <2> QED BY <2>3, <2>4
<1>5. CASE net' = Sent(d, {}) /\ UNCHANGED viewer
  <2>1. net' \subseteq net
    BY <1>5 DEF Sent
  <2>2. \A q \in Procs : viewer'[q].attempt # "Tofu" => Spent(viewer'[q].crypto)
    BY <1>5 DEF SpentInv
  <2> QED BY <1>1, <2>1, <2>2, ViewerSpends
<1> QED BY <1>2, <1>3, <1>4, <1>5 DEF ViewerReceives

\* A viewer's own steps: a Hello is repeated in the session and with the method of
\* the one before.
LEMMA ViewerStepSpends ==
  ASSUME IInv, SpentInv, NEW p \in Procs, Viewer(p)
  PROVE  SpentInv'
<1>1. ViewerOnly /\ viewer[p] \in VStates
  BY DEF Viewer, Start, NoiseTimeout, HelloRetry, KeepAlive, ClearKeepAlive, Crash, IInv, ViewerInv
<1>2. CASE Start(p)
  <2> DEFINE v == [NewViewer EXCEPT !.at = "noise"]
             e1 == ToHost(p, "E1", None, None)
  <2>1. Becomes(p, v) /\ net' = net \union {e1}
    BY <1>2 DEF Start
  <2>2. v.attempt = "Tofu" /\ ~Late(e1)
    BY DEF NewViewer, Late, ToHost
  <2> HIDE DEF v, e1
  <2>3. \A x \in net' : Late(x) => x \in net
    BY <2>1, <2>2
  <2> QED BY <1>1, <2>1, <2>2, <2>3, GoesOn
<1>3. CASE NoiseTimeout(p) \/ Crash(p)
  BY <1>1, <1>3, ExitSpends DEF NoiseTimeout, Crash
<1>4. CASE KeepAlive(p) \/ ClearKeepAlive(p)
  <2>1. PICK under : /\ net' = net \union {ToHost(p, "KeepAlive", under, None)}
                     /\ UNCHANGED viewer
    BY <1>4 DEF KeepAlive, ClearKeepAlive
  <2> DEFINE k == ToHost(p, "KeepAlive", under, None)
  <2>2. ~Late(k)
    BY DEF Late, ToHost
  <2> HIDE DEF k
  <2>3. \A x \in net' : Late(x) => x \in net
    BY <2>1, <2>2 DEF k
  <2>4. \A q \in Procs : viewer'[q].attempt # "Tofu" => Spent(viewer'[q].crypto)
    BY <2>1 DEF SpentInv
  <2> QED BY <1>1, <2>3, <2>4, ViewerSpends
<1>5. CASE HelloRetry(p)
  <2>1. CASE viewer[p].sends < DEFAULT_HELLO_RETRIES
    <3> DEFINE v == [viewer[p] EXCEPT !.sends = @ + 1]
               h == HelloOf(p, viewer[p].crypto, viewer[p].attempt)
    <3>1. Becomes(p, v) /\ net' = net \union {h}
      BY <1>5, <2>1 DEF HelloRetry
    <3>2. v.attempt = viewer[p].attempt /\ v.crypto = viewer[p].crypto
      BY <1>1 DEF VStates
    <3>3. h.under = viewer[p].crypto /\ (Late(h) => viewer[p].attempt # "Tofu")
      BY HelloIsLate
    <3> HIDE DEF v, h
    <3>4. v.attempt # "Tofu" => Spent(v.crypto)
      BY <3>2 DEF SpentInv
    <3>5. \A x \in net' : Late(x) => \/ x \in net
                                     \/ v.attempt # "Tofu" /\ x.under = v.crypto
      BY <3>1, <3>2, <3>3
    <3> QED BY <1>1, <3>1, <3>4, <3>5, GoesOn
  <2>2. CASE ~(viewer[p].sends < DEFAULT_HELLO_RETRIES)
    <3>1. Exits(p)
      BY <1>5, <2>2 DEF HelloRetry
    <3> QED BY <1>1, <3>1, ExitSpends
  <2> QED BY <2>1, <2>2
<1> QED BY <1>2, <1>3, <1>4, <1>5 DEF Viewer

\* SpentInv holds at the start and after every step.
LEMMA SpentInit == Init => SpentInv
BY DEF Init, AuthInit, SpentInv, NewViewer

LEMMA SpentStep ==
  ASSUME IInv, SpentInv, [Next]_vars
  PROVE  SpentInv'
<1>1. CASE UNCHANGED vars
  <2>1. UNCHANGED <<mode, failed, viewer, net, stage, crypto, handshakes>>
    BY <1>1 DEF vars, authVars, hostVars
  <2> QED BY <2>1, HostSpends
<1>2. CASE \E d \in net : HostReceives(d) \/ Lose(d)
  BY <1>2, NoiseSpends, HelloSpends, OthersSpend DEF HostReceives
<1>3. CASE \E d \in net : \E p \in Procs : ViewerReceives(p, d)
  BY <1>3, ReceiptSpends
<1>4. CASE HostSteps
  BY <1>4, OthersSpend
<1>5. CASE \E p \in Procs : Viewer(p)
  BY <1>5, ViewerStepSpends
<1> QED BY <1>1, <1>2, <1>3, <1>4, <1>5 DEF Next

\* With --auth pin or ephemeral nobody gets in, and no failure is ever counted
\* (host/src/lib.rs run_host, host/src/auth.rs validate_pin).
THEOREM NoPinGetsIn == Spec => []PinOpensNothing
<1>1. SpentInv => PinOpensNothing
  BY DEF SpentInv, PinOpensNothing
<1> QED BY <1>1, InitInv, StepInv, SpentInit, SpentStep, PTL DEF Spec

-----------------------------------------------------------------------------
(* The validator on its own, with any Hello of any peer at any time: when  *)
(* wrong PINs are checked (AuthHistory).                                   *)

\* What the validator keeps of a peer in terms of its n wrong PINs: the wrapped
\* counter is n % U8, and where that has reached the limit, the lockout is what is
\* left of pin_lockout since the last of them.
Counter(p) ==
  LET n == Len(ages[p]) IN
  /\ failed[p] = n % U8
  /\ locked[p] = IF n % U8 >= max_pin_attempts THEN pin_lockout - ages[p][n] ELSE 0
  /\ mode # "Pin" => n = 0

\* Ages are in order, and a wrong PIN that locked the peer out was over when the
\* next one was checked.
Spread(s) ==
  /\ \A i, j \in 1..Len(s) : i <= j => s[i] >= s[j]
  /\ \A i \in 1..Len(s) : i < Len(s) /\ i % U8 >= max_pin_attempts => s[i] = pin_lockout

GuessInv ==
  /\ ages \in [Peers -> Seq(0..pin_lockout)]
  /\ failed \in [Peers -> Nat] /\ locked \in [Peers -> Nat]
  /\ \A p \in Peers : Counter(p) /\ Spread(ages[p])

\* The wrapped counter follows the number of wrong PINs.
LEMMA Wraps ==
  ASSUME NEW n \in Nat
  PROVE  /\ n % U8 \in Nat /\ n % U8 <= n
         /\ ((n % U8) + 1) % U8 = (n + 1) % U8 /\ (n + 1) % U8 \in Nat
BY DEF U8

\* The constants.
LEMMA Limits ==
  /\ max_pin_attempts \in Nat /\ 1 <= max_pin_attempts /\ max_pin_attempts < U8
  /\ pin_lockout \in Nat /\ 0 < pin_lockout /\ U8 \in Nat
BY AuthAssumption DEF U8

\* The ages of a peer.
LEMMA Ages ==
  ASSUME NEW S, NEW s \in Seq(S)
  PROVE  Len(s) \in Nat /\ \A i \in 1..Len(s) : s[i] \in S
OBVIOUS

\* One more, the youngest.
LEMMA OneMore ==
  ASSUME NEW s \in Seq(0..pin_lockout)
  PROVE  /\ Append(s, 0) \in Seq(0..pin_lockout) /\ Len(Append(s, 0)) = Len(s) + 1
         /\ Append(s, 0)[Len(s) + 1] = 0
         /\ \A i \in 1..Len(s) : Append(s, 0)[i] = s[i]
<1>1. 0 \in 0..pin_lockout
  BY Limits
<1> QED BY <1>1

\* Among as many wrong PINs in a row as Guesses says, and one more, some but the last
\* locked the peer out: only max_pin_attempts of 256 in a row do not.
LEMMA SomeLocks ==
  ASSUME NEW i \in Nat \ {0}, NEW n \in Nat,
         i + (IF n < U8 THEN max_pin_attempts ELSE max_pin_attempts + 1) <= n
  PROVE  \E j \in i..(n - 1) : j % U8 >= max_pin_attempts
<1> DEFINE m == max_pin_attempts
<1>1. m \in Nat /\ 1 <= m /\ m < U8
  BY Limits
<1> HIDE DEF m
<1>2. CASE n < U8
  <2>1. i + m <= n
    BY <1>2 DEF m
  <2>2. i + m - 1 \in i..(n - 1) /\ (i + m - 1) % U8 >= m
    BY <1>1, <1>2, <2>1 DEF U8
  <2> QED BY <2>2 DEF m
<1>3. CASE ~(n < U8)
  <2>1. i + m + 1 <= n
    BY <1>1, <1>3 DEF m
  <2>2. CASE i % U8 >= m
    <3>1. i \in i..(n - 1)
      BY <1>1, <2>1
    <3> QED BY <2>2, <3>1 DEF m
  <2>3. CASE ~(i % U8 >= m)
    <3> DEFINE j == i + (m - (i % U8))
    <3>1. j \in i..(n - 1) /\ j % U8 = m
      BY <1>1, <2>1, <2>3 DEF U8
    <3> QED BY <1>1, <3>1 DEF m
  <2> QED BY <2>2, <2>3
<1> QED BY <1>2, <1>3

\* What is spread so keeps to the bound.
LEMMA SpreadIsBounded == GuessInv => BoundedGuesses
<1> SUFFICES ASSUME GuessInv, NEW p \in Peers, NEW i \in 1..Len(ages[p]),
                    i + Guesses(p) <= Len(ages[p])
             PROVE  ages[p][i] = pin_lockout
  BY DEF BoundedGuesses
<1> DEFINE s == ages[p]
           n == Len(s)
<1>1. s \in Seq(0..pin_lockout) /\ n \in Nat /\ i \in Nat \ {0} /\ Spread(s)
  BY DEF GuessInv
<1>2. i + (IF n < U8 THEN max_pin_attempts ELSE max_pin_attempts + 1) <= n
  BY DEF Guesses
<1> HIDE DEF s
<1>3. PICK j \in i..(n - 1) : j % U8 >= max_pin_attempts
  BY <1>1, <1>2, SomeLocks
<1>4. j \in 1..n /\ i \in 1..n /\ i <= j /\ j < n
  BY <1>1, <1>3
<1>5. s[j] = pin_lockout /\ s[i] >= s[j]
  BY <1>1, <1>3, <1>4 DEF Spread
<1>6. s[i] \in 0..pin_lockout
  BY <1>1, <1>4, Ages
<1>7. s[i] = pin_lockout
  BY <1>5, <1>6, Limits
<1> QED BY <1>7 DEF s

\* No wrong PIN, no count.
LEMMA GuessesInit == HistoryInit => GuessInv
<1> SUFFICES ASSUME HistoryInit PROVE GuessInv
  OBVIOUS
<1>1. ages \in [Peers -> Seq(0..pin_lockout)]
  BY DEF HistoryInit
<1>2. failed \in [Peers -> Nat] /\ locked \in [Peers -> Nat]
  BY DEF HistoryInit, AuthInit
<1>3. ASSUME NEW p \in Peers PROVE Counter(p) /\ Spread(ages[p])
  <2>1. ages[p] = << >> /\ Len(ages[p]) = 0 /\ failed[p] = 0 /\ locked[p] = 0
    BY DEF HistoryInit, AuthInit
  <2>2. 0 % U8 = 0 /\ ~(0 >= max_pin_attempts)
    BY Limits DEF U8
  <2> QED BY <2>1, <2>2 DEF Counter, Spread
<1> QED BY <1>1, <1>2, <1>3 DEF GuessInv

\* In PIN mode whoever gets in had the right PIN checked.
LEMMA RightPin ==
  ASSUME GuessInv, mode = "Pin", NEW p \in Peers, NEW method, NEW payload
  PROVE  Verdict(p, method, payload).code = "Grant"
           <=> Checked(p, method, payload) /\ payload = Pin
<1>1. Verdict(p, method, payload) = PinVerdict(p, method, payload)
  BY DEF Verdict
<1>2. locked[p] = 0 \/ locked[p] > 0
  BY DEF GuessInv
<1>3. Pin \notin Malformed /\ ~(0 > 0)
  BY AuthAssumption
<1>4. CASE method # "Pin"
  BY <1>1, <1>4 DEF PinVerdict, Rejected, Checked
<1>5. CASE method = "Pin" /\ locked[p] > 0
  BY <1>1, <1>3, <1>5 DEF PinVerdict, Rejected, Checked
<1>6. CASE method = "Pin" /\ locked[p] = 0
  BY <1>1, <1>3, <1>6 DEF PinVerdict, Rejected, GrantedTo, Granted, Checked
<1> QED BY <1>2, <1>4, <1>5, <1>6

\* A wrong PIN is the youngest, counted against its own peer, and checked only when
\* the lockout of the one before it is over.
LEMMA WrongPin ==
  ASSUME GuessInv, NEW p \in Peers, mode' = mode, mode = "Pin", locked[p] = 0, CountFailure(p),
         ages' = [ages EXCEPT ![p] = Append(@, 0)]
  PROVE  GuessInv'
<1> DEFINE s == ages[p]
           n == Len(s)
           c == (failed[p] + 1) % U8
<1>1. /\ s \in Seq(0..pin_lockout) /\ n \in Nat /\ Counter(p) /\ Spread(s)
      /\ failed[p] = n % U8 /\ 0 \in 0..pin_lockout
  BY Limits DEF GuessInv, Counter
<1>2. c = (n + 1) % U8 /\ c \in Nat
  <2>1. ((n % U8) + 1) % U8 = (n + 1) % U8 /\ (n + 1) % U8 \in Nat
    <3>1. n \in Nat
      BY <1>1
    <3> HIDE DEF n
    <3> QED BY <3>1, Wraps
  <2> QED BY <1>1, <2>1
<1>3. /\ failed' = [q \in Peers |-> IF q = p THEN c ELSE failed[q]]
      /\ locked' = [q \in Peers |-> IF q = p /\ c >= max_pin_attempts
                                    THEN pin_lockout ELSE locked[q]]
  BY DEF CountFailure, Counted, AtLimit
<1> HIDE DEF c
<1>4. /\ ages'[p] = Append(s, 0) /\ ages' \in [Peers -> Seq(0..pin_lockout)]
      /\ \A q \in Peers : q # p => ages'[q] = ages[q]
  BY <1>1 DEF GuessInv
<1> DEFINE t == Append(s, 0)
<1>5. /\ Len(t) = n + 1 /\ t[n + 1] = 0 /\ \A i \in 1..n : t[i] = s[i]
      /\ \A i \in 1..Len(t) : i = n + 1 \/ i \in 1..n
      /\ \A i \in 1..n : s[i] \in 0..pin_lockout
  <2>1. /\ Len(t) = n + 1 /\ t[n + 1] = 0 /\ \A i \in 1..n : t[i] = s[i]
        /\ \A i \in 1..n : s[i] \in 0..pin_lockout
    BY <1>1, Ages, OneMore
  <2> HIDE DEF t
  <2> QED BY <1>1, <2>1
<1> HIDE DEF t
<1>6. n % U8 >= max_pin_attempts => n \in 1..n /\ s[n] = pin_lockout
  <2> SUFFICES ASSUME n % U8 >= max_pin_attempts PROVE n \in 1..n /\ s[n] = pin_lockout
    OBVIOUS
  <2>1. n \in 1..n
    <3>1. n \in Nat
      BY <1>1
    <3> HIDE DEF n
    <3> QED BY <3>1, Wraps, Limits
  <2>2. 0 = pin_lockout - s[n]
    BY <1>1 DEF Counter
  <2> QED BY <1>5, <2>1, <2>2, Limits
<1>7. Spread(t)
  <2>1. ASSUME NEW i \in 1..Len(t), NEW j \in 1..Len(t), i <= j PROVE t[i] >= t[j]
    <3>1. CASE j \in 1..n
      <4>1. i \in 1..n
        BY <1>1, <2>1, <3>1
      <4> QED BY <1>1, <1>5, <2>1, <3>1, <4>1 DEF Spread
    <3>2. CASE j = n + 1
      <4>1. t[i] \in 0..pin_lockout
        BY <1>1, <1>5
      <4> QED BY <1>5, <3>2, <4>1, Limits
    <3> QED BY <1>5, <3>1, <3>2
  <2>2. ASSUME NEW i \in 1..Len(t), i < Len(t), i % U8 >= max_pin_attempts
        PROVE  t[i] = pin_lockout
    <3>1. i \in 1..n
      BY <1>1, <1>5, <2>2
    <3>2. CASE i = n
      BY <1>5, <1>6, <2>2, <3>1, <3>2
    <3>3. CASE i # n
      <4>1. i < n
        BY <1>1, <3>1, <3>3
      <4> QED BY <1>1, <1>5, <2>2, <3>1, <4>1 DEF Spread
    <3> QED BY <3>2, <3>3
  <2> QED BY <2>1, <2>2 DEF Spread
<1>8. Counter(p)'
  <2>1. failed'[p] = (n + 1) % U8
    BY <1>2, <1>3
  <2>2. locked'[p] = IF (n + 1) % U8 >= max_pin_attempts THEN pin_lockout - t[n + 1] ELSE 0
    <3>1. locked'[p] = IF c >= max_pin_attempts THEN pin_lockout ELSE locked[p]
      BY <1>3 DEF GuessInv
    <3>2. pin_lockout - t[n + 1] = pin_lockout
      BY <1>5, Limits
    <3> QED BY <1>2, <3>1, <3>2, Zenon
  <2> QED BY <1>4, <1>5, <2>1, <2>2 DEF Counter, t
<1>9. ASSUME NEW q \in Peers, q # p PROVE Counter(q)' /\ Spread(ages'[q])
  <2>1. failed'[q] = failed[q] /\ locked'[q] = locked[q] /\ ages'[q] = ages[q]
    BY <1>3, <1>4, <1>9
  <2> QED BY <2>1 DEF GuessInv, Counter
<1>10. failed' \in [Peers -> Nat] /\ locked' \in [Peers -> Nat]
  BY <1>2, <1>3, Limits DEF GuessInv
<1> QED BY <1>4, <1>7, <1>8, <1>9, <1>10 DEF GuessInv, t

\* The right PIN starts over.
LEMMA RightPinClears ==
  ASSUME GuessInv, NEW p \in Peers, mode' = mode, locked[p] = 0, ClearFailures(p),
         ages' = [ages EXCEPT ![p] = << >>]
  PROVE  GuessInv'
<1>1. /\ ages' \in [Peers -> Seq(0..pin_lockout)] /\ ages'[p] = << >> /\ Len(<< >>) = 0
      /\ failed' \in [Peers -> Nat] /\ failed'[p] = 0 /\ locked' = locked
      /\ \A q \in Peers : q # p => ages'[q] = ages[q] /\ failed'[q] = failed[q]
  BY DEF GuessInv, ClearFailures
<1>2. 0 % U8 = 0 /\ ~(0 >= max_pin_attempts)
  BY Limits DEF U8
<1>3. Counter(p)' /\ Spread(ages'[p])
  BY <1>1, <1>2 DEF Counter, Spread
<1>4. ASSUME NEW q \in Peers, q # p PROVE Counter(q)' /\ Spread(ages'[q])
  BY <1>1, <1>4 DEF GuessInv, Counter
<1> QED BY <1>1, <1>3, <1>4 DEF GuessInv

\* What concerns no PIN.
LEMMA NoPinChecked ==
  ASSUME GuessInv, UNCHANGED <<mode, failed, locked, ages>>
  PROVE  GuessInv'
BY DEF GuessInv, Counter

\* A Hello of anybody.
LEMMA GuessesHello ==
  ASSUME GuessInv, NEW p \in Peers, NEW method \in Methods, NEW payload \in Payloads,
         Hello(p, method, payload)
  PROVE  GuessInv'
<1> DEFINE checked == Checked(p, method, payload)
           isIn == Verdict(p, method, payload).code = "Grant"
<1>1. /\ mode' = mode
      /\ ages' = [ages EXCEPT ![p] = IF isIn THEN << >>
                                     ELSE IF checked /\ payload # Pin THEN Append(@, 0) ELSE @]
      /\ ages \in [Peers -> Seq(0..pin_lockout)]
  BY DEF Hello, Validate, GuessInv
<1>2. CASE mode # "Pin"
  <2>1. ~checked
    BY <1>2 DEF Checked
  <2>2. UNCHANGED <<failed, locked>>
    BY <2>1 DEF Hello, Validate
  <2>3. ages[p] = << >>
    <3>1. Len(ages[p]) = 0
      BY <1>2 DEF GuessInv, Counter
    <3> QED BY <1>1, <3>1
  <2>4. ages' = ages
    BY <1>1, <2>1, <2>3
  <2> QED BY <1>1, <2>2, <2>4, NoPinChecked
<1>3. CASE mode = "Pin" /\ checked /\ payload # Pin
  <2>1. ~isIn
    BY <1>3, RightPin
  <2>2. locked[p] = 0 /\ CountFailure(p)
    BY <1>3 DEF Hello, Validate, Checked
  <2> HIDE DEF isIn, checked
  <2>3. ages' = [ages EXCEPT ![p] = Append(@, 0)]
    BY <1>1, <1>3, <2>1
  <2> QED BY <1>1, <1>3, <2>2, <2>3, WrongPin
<1>4. CASE mode = "Pin" /\ checked /\ payload = Pin
  <2>1. isIn
    BY <1>4, RightPin
  <2>2. locked[p] = 0 /\ ClearFailures(p)
    BY <1>4 DEF Hello, Validate, Checked
  <2> HIDE DEF isIn, checked
  <2>3. ages' = [ages EXCEPT ![p] = << >>]
    BY <1>1, <2>1
  <2> QED BY <1>1, <2>2, <2>3, RightPinClears
<1>5. CASE mode = "Pin" /\ ~checked
  <2>1. ~isIn
    BY <1>5, RightPin
  <2>2. UNCHANGED <<failed, locked>>
    BY <1>5 DEF Hello, Validate
  <2> HIDE DEF isIn, checked
  <2>3. ages' = ages
    BY <1>1, <1>5, <2>1
  <2> QED BY <1>1, <2>2, <2>3, NoPinChecked
<1> QED BY <1>2, <1>3, <1>4, <1>5

\* The lockout and the age of the last wrong PIN run together.
LEMMA GuessesTick ==
  ASSUME GuessInv, Tick
  PROVE  GuessInv'
<1>1. /\ mode' = mode /\ failed' = failed
      /\ locked' = [p \in Peers |-> Elapse(locked[p])]
      /\ ages' = [p \in Peers |-> [i \in 1..Len(ages[p]) |-> Older(ages[p][i])]]
  BY DEF Tick, AuthTick
<1>2. \A a \in 0..pin_lockout :
        /\ Older(a) \in 0..pin_lockout /\ (a = pin_lockout => Older(a) = pin_lockout)
        /\ Elapse(pin_lockout - a) = pin_lockout - Older(a)
        /\ \A b \in 0..pin_lockout : a >= b => Older(a) >= Older(b)
  BY Limits DEF Older, Elapse
<1>3. Elapse(0) = 0 /\ \A a \in Nat : Elapse(a) \in Nat
  BY DEF Elapse
<1>4. ASSUME NEW p \in Peers
      PROVE  ages'[p] \in Seq(0..pin_lockout) /\ Counter(p)' /\ Spread(ages'[p])
  <2> DEFINE s == ages[p]
             t == [i \in 1..Len(s) |-> Older(s[i])]
  <2>1. s \in Seq(0..pin_lockout) /\ Len(s) \in Nat /\ Counter(p) /\ Spread(s)
    BY DEF GuessInv
  <2>2. \A i \in 1..Len(s) : s[i] \in 0..pin_lockout
    BY <2>1, Ages
  <2>3. ages'[p] = t
    BY <1>1
  <2>4. t \in Seq(0..pin_lockout) /\ Len(t) = Len(s) /\ \A i \in 1..Len(s) : t[i] = Older(s[i])
    BY <1>2, <2>1, <2>2
  <2> HIDE DEF t, s
  <2>5. Spread(t)
    BY <1>2, <2>1, <2>2, <2>4 DEF Spread
  <2>6. locked'[p] = IF Len(s) % U8 >= max_pin_attempts THEN pin_lockout - t[Len(s)] ELSE 0
    <3>1. locked'[p] = Elapse(locked[p])
      BY <1>1
    <3>2. CASE Len(s) % U8 >= max_pin_attempts
      <4>1. Len(s) \in 1..Len(s)
        BY <2>1, <3>2, Limits DEF U8
      <4>2. locked[p] = pin_lockout - s[Len(s)]
        BY <2>1, <3>2 DEF Counter, s
      <4> QED BY <1>2, <2>2, <2>4, <3>1, <3>2, <4>1, <4>2
    <3>3. CASE ~(Len(s) % U8 >= max_pin_attempts)
      <4>1. locked[p] = 0
        BY <2>1, <3>3 DEF Counter, s
      <4> QED BY <1>3, <3>1, <3>3, <4>1
    <3> QED BY <3>2, <3>3
  <2>7. Counter(p)'
    BY <1>1, <2>1, <2>3, <2>4, <2>6 DEF Counter, s
  <2> QED BY <2>3, <2>4, <2>5, <2>7
<1>5. ages' \in [Peers -> Seq(0..pin_lockout)]
  BY <1>1, <1>4
<1>6. locked' \in [Peers -> Nat]
  BY <1>1, <1>3 DEF GuessInv
<1> QED BY <1>1, <1>4, <1>5, <1>6 DEF GuessInv

\* Every step keeps it.
LEMMA GuessesStep ==
  ASSUME GuessInv, [HistoryNext]_historyVars
  PROVE  GuessInv'
<1>1. CASE \E t \in Tokens : Rotate(t)
  BY <1>1, NoPinChecked DEF Rotate, RotateEphemeral
<1>2. CASE UNCHANGED historyVars
  BY <1>2, NoPinChecked DEF historyVars, authVars, history
<1> QED BY <1>1, <1>2, GuessesHello, GuessesTick DEF HistoryNext

\* Within a lockout period a peer gets max_pin_attempts wrong PINs checked and, after
\* the counter has wrapped, one more: for any peers, limit, lockout and sequence of
\* Hellos, however long (auth.rs validate_pin).
THEOREM GuessesAreBounded == HistorySpec => []BoundedGuesses
BY GuessesInit, GuessesStep, SpreadIsBounded, PTL DEF HistorySpec

\* Nobody is locked out by the failures of others, for any number of peers and
\* any limit, even when the eight-bit counter wraps.
THEOREM LockedByOwnFailures == HistorySpec => []OwnFailuresOnly
<1>1. ASSUME GuessInv, NEW p \in Peers, locked[p] > 0
      PROVE  Len(ages[p]) >= max_pin_attempts
  <2>1. ages[p] \in Seq(0..pin_lockout) /\ Counter(p)
    BY <1>1 DEF GuessInv
  <2> DEFINE n == Len(ages[p])
  <2>2. locked[p] = IF n % U8 >= max_pin_attempts THEN pin_lockout - ages[p][n] ELSE 0
    BY <2>1 DEF Counter
  <2>3. n \in Nat
    BY <2>1, Ages
  <2> HIDE DEF n
  <2>4. n % U8 >= max_pin_attempts
    BY <1>1, <2>2
  <2>5. n >= max_pin_attempts
    BY <2>3, <2>4, Wraps, Limits
  <2> QED BY <2>5 DEF n
<1>2. GuessInv => OwnFailuresOnly
  BY <1>1 DEF OwnFailuresOnly
<1> QED BY GuessesInit, GuessesStep, <1>2, PTL DEF HistorySpec

-----------------------------------------------------------------------------
(* Which ephemerals are granted.                                           *)

\* What is kept of a grant.
GrantRecords == [value : Payloads, age : Nat, latest : Tokens \union {None}]

\* The active ephemeral is the latest one drawn and has not been granted, and
\* what has been granted had been drawn.
EphemeralInv ==
  /\ drawn \in Seq(Tokens) /\ grants \in Seq(GrantRecords)
  /\ ephemeral \in [value : Tokens, age : Nat] \union {None}
  /\ ephemeral # None =>
       /\ drawn # << >> /\ ephemeral.value = drawn[Len(drawn)]
       /\ \A i \in 1..Len(grants) : grants[i].value # ephemeral.value
  /\ \A i \in 1..Len(grants) : \E j \in 1..Len(drawn) : drawn[j] = grants[i].value
  /\ EphemeralOnce

\* No ephemeral is active before one is drawn.
LEMMA EphemeralInit == HistoryInit => EphemeralInv
BY DEF HistoryInit, AuthInit, EphemeralInv, EphemeralOnce

\* In ephemeral mode a grant is a valid ephemeral, and it is consumed with it.
LEMMA GrantedEphemeral ==
  ASSUME mode = "Ephemeral", NEW p, NEW method, NEW payload
  PROVE  Verdict(p, method, payload).code = "Grant"
           <=> method = "Ephemeral" /\ EphemeralValid(payload)
<1>1. Verdict(p, method, payload) = EphemeralVerdict(p, method, payload)
  BY DEF Verdict
<1> QED BY <1>1 DEF EphemeralVerdict, GrantedTo, Granted, Rejected

\* A Hello that is granted uses the latest ephemeral up, any other leaves it.
LEMMA EphemeralHello ==
  ASSUME EphemeralInv, NEW p \in Peers, NEW method \in Methods, NEW payload \in Payloads,
         Hello(p, method, payload)
  PROVE  EphemeralInv'
<1>1. drawn' = drawn
  BY DEF Hello
<1>2. CASE mode = "Ephemeral" /\ Verdict(p, method, payload).code = "Grant"
  <2> DEFINE g == [value |-> payload, age |-> ephemeral.age, latest |-> Latest]
  <2>1. method = "Ephemeral" /\ EphemeralValid(payload)
    BY <1>2, GrantedEphemeral
  <2>2. ephemeral' = None
    BY <1>2, <2>1 DEF Hello, Validate, Consume
  <2>3. grants' = Append(grants, g)
    BY <1>2 DEF Hello
  <2>4. /\ ephemeral # None /\ payload = ephemeral.value
        /\ ephemeral.age \in Nat /\ ephemeral.age <= ephemeral_lifetime
    BY <2>1 DEF EphemeralValid, EphemeralInv
  <2>5. /\ drawn # << >> /\ Len(drawn) \in Nat \ {0} /\ payload = drawn[Len(drawn)]
        /\ Latest = payload /\ payload \in Tokens
    BY <2>4 DEF EphemeralInv, Latest
  <2>6. g \in GrantRecords /\ g.value = payload /\ g.latest = payload /\ g.age <= ephemeral_lifetime
    BY <2>4, <2>5 DEF GrantRecords
  <2> HIDE DEF g
  <2>7. grants' \in Seq(GrantRecords) /\ Len(grants') = Len(grants) + 1
    BY <2>3, <2>6 DEF EphemeralInv
  <2>8. \A i \in 1..Len(grants') :
          grants'[i] = IF i = Len(grants) + 1 THEN g ELSE grants[i]
    BY <2>3, <2>7 DEF EphemeralInv
  <2>9. EphemeralOnce'
    <3>1. Len(grants) \in Nat /\ \A i \in 1..Len(grants') : i = Len(grants) + 1 \/ i \in 1..Len(grants)
      BY <2>7 DEF EphemeralInv
    <3>2. \A i \in 1..Len(grants) : grants[i].value # payload
      BY <2>4 DEF EphemeralInv
    <3>3. \A i \in 1..Len(grants') : /\ grants'[i].value = grants'[i].latest
                                     /\ grants'[i].age <= ephemeral_lifetime
      BY <2>6, <2>8, <3>1 DEF EphemeralInv, EphemeralOnce
    <3>4. ASSUME NEW i \in 1..Len(grants'), NEW j \in 1..Len(grants'),
                 grants'[i].value = grants'[j].value
          PROVE  i = j
      <4>1. CASE i \in 1..Len(grants) /\ j \in 1..Len(grants)
        <5>1. grants'[i] = grants[i] /\ grants'[j] = grants[j]
          BY <2>8, <3>1, <4>1
        <5>2. \A k, l \in 1..Len(grants) : grants[k].value = grants[l].value => k = l
          BY DEF EphemeralInv, EphemeralOnce
        <5> QED BY <3>4, <4>1, <5>1, <5>2
      <4>2. CASE i = Len(grants) + 1 /\ j \in 1..Len(grants)
        <5>1. grants'[i] = g /\ grants'[j] = grants[j]
          BY <2>8, <3>1, <4>2
        <5> QED BY <2>6, <3>2, <3>4, <4>2, <5>1
      <4>3. CASE i \in 1..Len(grants) /\ j = Len(grants) + 1
        <5>1. grants'[i] = grants[i] /\ grants'[j] = g
          BY <2>8, <3>1, <4>3
        <5> QED BY <2>6, <3>2, <3>4, <4>3, <5>1
      <4> QED BY <3>1, <4>1, <4>2, <4>3
    <3> QED BY <3>3, <3>4 DEF EphemeralOnce
  <2>10. \A i \in 1..Len(grants') : \E j \in 1..Len(drawn) : drawn[j] = grants'[i].value
    <3>1. \A i \in 1..Len(grants') :
             i = Len(grants) + 1 \/ (i \in 1..Len(grants) /\ grants'[i] = grants[i])
      BY <2>7, <2>8 DEF EphemeralInv
    <3>2. grants'[Len(grants) + 1] = g /\ Len(drawn) \in 1..Len(drawn)
      BY <2>5, <2>7, <2>8 DEF EphemeralInv
    <3>3. \A i \in 1..Len(grants) : \E j \in 1..Len(drawn) : drawn[j] = grants[i].value
      BY DEF EphemeralInv
    <3> QED BY <2>5, <2>6, <3>1, <3>2, <3>3
  <2> QED BY <1>1, <2>2, <2>7, <2>9, <2>10 DEF EphemeralInv
<1>3. CASE ~(mode = "Ephemeral" /\ Verdict(p, method, payload).code = "Grant")
  <2>1. grants' = grants
    BY <1>3 DEF Hello
  <2>2. ephemeral' = ephemeral
    BY <1>3, GrantedEphemeral DEF Hello, Validate
  <2> QED BY <1>1, <2>1, <2>2 DEF EphemeralInv, EphemeralOnce
<1> QED BY <1>2, <1>3

\* A drawn ephemeral is new: nothing granted has its value.
LEMMA EphemeralRotate ==
  ASSUME EphemeralInv, NEW t \in Tokens, Rotate(t)
  PROVE  EphemeralInv'
<1>1. grants' = grants /\ drawn' = Append(drawn, t) /\ \A i \in 1..Len(drawn) : drawn[i] # t
  BY DEF Rotate
<1>2. ephemeral' = [value |-> t, age |-> 0]
  BY DEF Rotate, RotateEphemeral
<1>3. /\ drawn' \in Seq(Tokens) /\ Len(drawn') = Len(drawn) + 1 /\ drawn'[Len(drawn')] = t
      /\ \A j \in 1..Len(drawn) : j \in 1..Len(drawn') /\ drawn'[j] = drawn[j]
  BY <1>1 DEF EphemeralInv
<1>4. drawn' # << >>
  BY <1>3 DEF EphemeralInv
<1>5. \A i \in 1..Len(grants) : \E j \in 1..Len(drawn') : drawn'[j] = grants[i].value
  BY <1>3 DEF EphemeralInv
<1>6. \A i \in 1..Len(grants) : grants[i].value # t
  BY <1>1 DEF EphemeralInv
<1>7. ephemeral' \in [value : Tokens, age : Nat] /\ ephemeral'.value = t
  BY <1>2
<1>8. EphemeralOnce'
  BY <1>1 DEF EphemeralInv, EphemeralOnce
<1> QED BY <1>1, <1>3, <1>4, <1>5, <1>6, <1>7, <1>8 DEF EphemeralInv

\* Time only ages the ephemeral.
LEMMA EphemeralTick == ASSUME EphemeralInv, Tick PROVE EphemeralInv'
<1>1. UNCHANGED <<drawn, grants>>
  BY DEF Tick
<1>2. CASE ephemeral = None
  BY <1>1, <1>2 DEF Tick, AuthTick, EphemeralInv, EphemeralOnce
<1>3. CASE ephemeral # None
  <2>1. ephemeral \in [value : Tokens, age : Nat]
    BY <1>3 DEF EphemeralInv
  <2>2. ephemeral' = ephemeral \/ ephemeral' = [ephemeral EXCEPT !.age = @ + 1]
    BY <1>3 DEF Tick, AuthTick
  <2>3. ephemeral' \in [value : Tokens, age : Nat] /\ ephemeral'.value = ephemeral.value
    BY <2>1, <2>2
  <2> QED BY <1>1, <1>3, <2>3 DEF EphemeralInv, EphemeralOnce
<1> QED BY <1>2, <1>3

\* An ephemeral opens one session, while it is the latest one drawn and within
\* its lifetime, for any sequence of Hellos of any peers.
THEOREM EphemeralOpensOnce == HistorySpec => []EphemeralOnce
<1>1. EphemeralInv /\ [HistoryNext]_historyVars => EphemeralInv'
  <2>1. EphemeralInv /\ UNCHANGED historyVars => EphemeralInv'
    BY DEF EphemeralInv, EphemeralOnce, historyVars, authVars, history
  <2> QED BY <2>1, EphemeralHello, EphemeralRotate, EphemeralTick DEF HistoryNext
<1>2. EphemeralInv => EphemeralOnce
  BY DEF EphemeralInv
<1> QED BY EphemeralInit, <1>1, <1>2, PTL DEF HistorySpec

=============================================================================
