--------------------------- MODULE PathProbe_proofs ---------------------------
(***************************************************************************)
(* What path probing keeps for all sets of paths, candidates and NATs and  *)
(* all numbers of retries and faults: its types, and that on a clean       *)
(* network nobody gives up and there is something left to receive until    *)
(* both sides have their session.                                          *)
(***************************************************************************)
EXTENDS PathProbe, TLAPS

-----------------------------------------------------------------------------
(* The two sides and a path's datagrams.                                   *)

LEMMA Others ==
  /\ Other("host") = "viewer" /\ Other("viewer") = "host"
  /\ \A s \in Side : Other(s) \in Side /\ Other(s) # s /\ Other(Other(s)) = s
  /\ \A s \in Side : \A t \in Side : t = s \/ t = Other(s)
<1>1. Other("host") = "viewer" /\ Other("viewer") = "host"
  BY DEF Other, Side
<1> QED BY <1>1 DEF Side

LEMMA Constants ==
  /\ Live \subseteq Paths /\ Live # {} /\ PROBE_RETRY_COUNT \in Nat \ {0} /\ MaxFaults \in Nat
  /\ \A s \in Side : Cands[s] \subseteq Paths /\ Live \subseteq Cands[s]
BY ProbeAssumption

Wires == [Side -> [Live -> Seq(Messages)]]

\* a comes on its way before b.
Before(seq, a, b) == \E i, j \in 1 .. Len(seq) : i < j /\ seq[i] = a /\ seq[j] = b

\* What is left of a path's datagrams when one is taken.
LEMMA Removed ==
  ASSUME NEW seq \in Seq(Messages), NEW i \in 1 .. Len(seq)
  PROVE  RemoveAt(seq, i) \in Seq(Messages)
<1>1. Len(seq) \in Nat /\ SubSeq(seq, 1, i - 1) \in Seq(Messages)
      /\ SubSeq(seq, i + 1, Len(seq)) \in Seq(Messages)
  OBVIOUS
<1> QED BY <1>1 DEF RemoveAt

\* Taking the first one moves the others up.
LEMMA Taken ==
  ASSUME NEW seq \in Seq(Messages), 1 \in 1 .. Len(seq)
  PROVE  /\ Len(RemoveAt(seq, 1)) = Len(seq) - 1
         /\ \A k \in 1 .. Len(seq) - 1 : RemoveAt(seq, 1)[k] = seq[k + 1]
<1>1. Len(seq) \in Nat /\ SubSeq(seq, 1, 1 - 1) = <<>>
  OBVIOUS
<1>2. RemoveAt(seq, 1) = SubSeq(seq, 2, Len(seq))
  BY <1>1 DEF RemoveAt
<1> QED BY <1>1, <1>2

\* What is still on its way after the first one has been taken.
LEMMA Shifted ==
  ASSUME NEW seq \in Seq(Messages), 1 \in 1 .. Len(seq)
  PROVE  /\ RemoveAt(seq, 1) \in Seq(Messages)
         /\ \A m : m # seq[1] /\ Contains(seq, m) => Contains(RemoveAt(seq, 1), m)
         /\ \A m : Contains(RemoveAt(seq, 1), m) => Contains(seq, m)
         /\ \A a, b : a # seq[1] /\ Before(seq, a, b) => Before(RemoveAt(seq, 1), a, b)
         /\ \A a, b : Before(seq, a, b) => Contains(RemoveAt(seq, 1), b)
<1> DEFINE rest == RemoveAt(seq, 1)
<1>1. /\ rest \in Seq(Messages) /\ Len(rest) = Len(seq) - 1
      /\ \A k \in 1 .. Len(rest) : rest[k] = seq[k + 1]
  BY Removed, Taken
<1>2. Len(seq) \in Nat \ {0}
  OBVIOUS
<1> HIDE DEF rest
<1>3. \A k \in 1 .. Len(seq) : k # 1 => k - 1 \in 1 .. Len(rest) /\ rest[k - 1] = seq[k]
  BY <1>1, <1>2
<1>4. \A k \in 1 .. Len(rest) : k + 1 \in 1 .. Len(seq)
  BY <1>1, <1>2
<1>5. ASSUME NEW m, m # seq[1], Contains(seq, m) PROVE Contains(rest, m)
  BY <1>3, <1>5 DEF Contains
<1>6. ASSUME NEW m, Contains(rest, m) PROVE Contains(seq, m)
  BY <1>1, <1>4, <1>6 DEF Contains
<1>7. ASSUME NEW a, NEW b, a # seq[1], Before(seq, a, b) PROVE Before(rest, a, b)
  <2>1. PICK i \in 1 .. Len(seq), j \in 1 .. Len(seq) : i < j /\ seq[i] = a /\ seq[j] = b
    BY <1>7 DEF Before
  <2>2. i # 1 /\ j # 1
    BY <1>7, <2>1
  <2>3. i - 1 < j - 1
    BY <2>1
  <2> QED BY <1>3, <2>1, <2>2, <2>3 DEF Before
<1>8. ASSUME NEW a, NEW b, Before(seq, a, b) PROVE Contains(rest, b)
  <2>1. PICK i \in 1 .. Len(seq), j \in 1 .. Len(seq) : i < j /\ seq[j] = b
    BY <1>8 DEF Before
  <2>2. j # 1
    BY <2>1
  <2> QED BY <1>3, <2>1, <2>2 DEF Contains
<1> QED BY <1>1, <1>5, <1>6, <1>7, <1>8 DEF rest

\* Sending one more.
LEMMA Appended ==
  ASSUME NEW seq \in Seq(Messages), NEW x \in Messages
  PROVE  /\ Append(seq, x) \in Seq(Messages) /\ Append(seq, x) # <<>>
         /\ Append(seq, x)[1] = IF seq = <<>> THEN x ELSE seq[1]
         /\ Contains(Append(seq, x), x)
         /\ \A m : Contains(seq, m) => Contains(Append(seq, x), m)
         /\ \A m : Contains(Append(seq, x), m) => Contains(seq, m) \/ m = x
         /\ \A a, b : Before(seq, a, b) => Before(Append(seq, x), a, b)
         /\ \A a : Contains(seq, a) => Before(Append(seq, x), a, x)
<1> DEFINE more == Append(seq, x)
<1>1. /\ more \in Seq(Messages) /\ Len(more) = Len(seq) + 1 /\ more # <<>>
      /\ \A k \in 1 .. Len(seq) : more[k] = seq[k]
      /\ more[Len(seq) + 1] = x /\ Len(seq) \in Nat
      /\ seq = <<>> <=> Len(seq) = 0
  OBVIOUS
<1> HIDE DEF more
<1>2. \A k \in 1 .. Len(more) : k \in 1 .. Len(seq) \/ k = Len(seq) + 1
  BY <1>1
<1>3. more[1] = IF seq = <<>> THEN x ELSE seq[1]
  BY <1>1
<1>4. Contains(more, x)
  BY <1>1 DEF Contains
<1>5. ASSUME NEW m, Contains(seq, m) PROVE Contains(more, m)
  BY <1>1, <1>5 DEF Contains
<1>6. ASSUME NEW m, Contains(more, m) PROVE Contains(seq, m) \/ m = x
  BY <1>1, <1>2, <1>6 DEF Contains
<1>7. ASSUME NEW a, NEW b, Before(seq, a, b) PROVE Before(more, a, b)
  BY <1>1, <1>7 DEF Before
<1>8. ASSUME NEW a, Contains(seq, a) PROVE Before(more, a, x)
  <2>1. PICK i \in 1 .. Len(seq) : seq[i] = a
    BY <1>8 DEF Contains
  <2>2. /\ i \in 1 .. Len(more) /\ Len(seq) + 1 \in 1 .. Len(more)
        /\ i < Len(seq) + 1 /\ more[i] = a
    BY <1>1, <2>1
  <2> QED BY <1>1, <2>2 DEF Before
<1> QED BY <1>1, <1>3, <1>4, <1>5, <1>6, <1>7, <1>8 DEF more

-----------------------------------------------------------------------------
(* Types.                                                                  *)

\* A send keeps the types.
LEMMA Sends ==
  ASSUME NEW w \in Wires, NEW s \in Side, NEW Q \in SUBSET Paths, NEW m \in Messages,
         opened \in [Side -> SUBSET Paths], refused \in BOOLEAN, Send(w, s, Q, m)
  PROVE  /\ wire' \in Wires /\ opened' \in [Side -> SUBSET Paths] /\ refused' \in BOOLEAN
<1>1. PICK D \in SUBSET {p \in Q \cap Live : ~Admits(Other(s), p)} :
        /\ wire' = [w EXCEPT ![s] =
                      [p \in Live |-> IF p \in Q \ D THEN Append(@[p], m) ELSE @[p]]]
        /\ refused' = (refused \/ D # {})
        /\ opened' = [opened EXCEPT ![s] = @ \cup Q]
  BY DEF Send
<1>2. [p \in Live |-> IF p \in Q \ D THEN Append(w[s][p], m) ELSE w[s][p]]
        \in [Live -> Seq(Messages)]
  BY DEF Wires
<1>3. wire' \in Wires
  BY <1>1, <1>2 DEF Wires
<1>4. opened' \in [Side -> SUBSET Paths] /\ refused' \in BOOLEAN
  BY <1>1
<1> QED BY <1>3, <1>4

\* The network without one of p's datagrams keeps its type.
LEMMA Leaves ==
  ASSUME wire \in Wires, NEW o \in Side, NEW p \in Live, NEW i \in 1 .. Len(wire[o][p]),
         NEW w, w = [wire EXCEPT ![o][p] = RemoveAt(@, i)]
  PROVE  w \in Wires
<1>1. RemoveAt(wire[o][p], i) \in Seq(Messages)
  BY Removed DEF Wires
<1>2. w = [wire EXCEPT ![o] = [wire[o] EXCEPT ![p] = RemoveAt(wire[o][p], i)]]
  OBVIOUS
<1>3. [wire[o] EXCEPT ![p] = RemoveAt(wire[o][p], i)] \in [Live -> Seq(Messages)]
  BY <1>1 DEF Wires
<1> QED BY <1>1, <1>2, <1>3 DEF Wires

\* Starting to probe, and another round.
LEMMA ProbesTyped ==
  ASSUME TypeOK, NEW s \in Side, Start(s) \/ Retry(s)
  PROVE  TypeOK'
<1>1. /\ wire \in Wires /\ opened \in [Side -> SUBSET Paths] /\ refused \in BOOLEAN
      /\ pending[s] \in SUBSET Paths /\ Cands[s] \in SUBSET Paths /\ "Probe" \in Messages
      /\ sends[s] \in 0 .. PROBE_RETRY_COUNT
  BY Constants DEF TypeOK, Wires, Messages
<1>2. wire' \in Wires /\ opened' \in [Side -> SUBSET Paths] /\ refused' \in BOOLEAN
  BY <1>1, Sends DEF Start, Retry
<1>3. phase' \in [Side -> Phases] /\ pending' \in [Side -> SUBSET Paths]
  BY <1>1 DEF TypeOK, Start, Retry, Phases
<1>4. sends' \in [Side -> 0 .. PROBE_RETRY_COUNT]
  <2>1. CASE Start(s)
    <3>1. sends' = [sends EXCEPT ![s] = 1] /\ 1 \in 0 .. PROBE_RETRY_COUNT
      BY <2>1, Constants DEF Start
    <3> QED BY <3>1 DEF TypeOK
  <2>2. CASE Retry(s)
    <3>1. sends' = [sends EXCEPT ![s] = @ + 1] /\ sends[s] + 1 \in 0 .. PROBE_RETRY_COUNT
      BY <1>1, <2>2, Constants DEF Retry
    <3> QED BY <3>1 DEF TypeOK
  <2> QED BY <2>1, <2>2
<1>5. UNCHANGED <<peer, faults>>
  BY DEF Start, Retry
<1> QED BY <1>2, <1>3, <1>4, <1>5 DEF TypeOK, Wires

\* What a side does with a datagram.
LEMMA HandlesTyped ==
  ASSUME TypeOK, NEW s \in Side, NEW p \in Live, NEW m \in Messages, NEW w \in Wires,
         faults' \in 0 .. MaxFaults,
         HandleProbing(s, p, m, w) \/ HandleHandshake(s, p, m, w) \/ HandleNoise(s, p, m, w)
  PROVE  TypeOK'
<1>1. /\ opened \in [Side -> SUBSET Paths] /\ refused \in BOOLEAN /\ p \in Paths
      /\ peer \in [Side -> Paths \cup {None}] /\ phase \in [Side -> Phases]
      /\ pending \in [Side -> SUBSET Paths] /\ sends \in [Side -> 0 .. PROBE_RETRY_COUNT]
      /\ {"ProbeAck", "NoiseE1", "NoiseE2"} \subseteq Messages
      /\ {"noise", "handshake", "secured"} \subseteq Phases
  BY Constants DEF TypeOK, Messages, Phases
<1> DEFINE Net == /\ wire' \in Wires /\ opened' \in [Side -> SUBSET Paths]
                  /\ refused' \in BOOLEAN
           Own == /\ phase' \in [Side -> Phases] /\ pending' \in [Side -> SUBSET Paths]
                  /\ peer' \in [Side -> Paths \cup {None}]
                  /\ sends' \in [Side -> 0 .. PROBE_RETRY_COUNT]
<1>2. ASSUME wire' = w, UNCHANGED <<opened, refused>> PROVE Net
  BY <1>1, <1>2
<1>3. CASE HandleProbing(s, p, m, w)
  <2>1. CASE Send(w, s, {p}, "ProbeAck") /\ UNCHANGED <<phase, sends, pending, peer>>
    <3>1. Net
      BY <1>1, <2>1, Sends
    <3> QED BY <1>1, <2>1, <3>1 DEF TypeOK, Wires
  <2>2. CASE Commit(s, p, w)
    <3>1. Net
      <4>1. CASE s = "viewer"
        BY <1>1, <2>2, <4>1, Sends DEF Commit
      <4>2. CASE s # "viewer"
        BY <1>2, <2>2, <4>2 DEF Commit
      <4> QED BY <4>1, <4>2
    <3>2. Own
      BY <1>1, <2>2 DEF Commit
    <3> QED BY <3>1, <3>2 DEF TypeOK, Wires
  <2>3. CASE wire' = w /\ UNCHANGED <<phase, sends, pending, peer, opened, refused>>
    BY <1>1, <2>3 DEF TypeOK, Wires
  <2> QED BY <1>3, <2>1, <2>2, <2>3 DEF HandleProbing
<1>4. CASE HandleHandshake(s, p, m, w)
  <2> DEFINE to == IF peer[s] = None THEN p ELSE peer[s]
  <2>1. to \in Paths
    BY <1>1
  <2>2. /\ peer' = [peer EXCEPT ![s] = to] /\ UNCHANGED <<sends, pending>>
        /\ \/ phase' = [phase EXCEPT ![s] = "secured"] /\ Send(w, s, {to}, "NoiseE2")
           \/ wire' = w /\ UNCHANGED <<phase, opened, refused>>
    BY <1>4 DEF HandleHandshake
  <2> HIDE DEF to
  <2>3. Own
    BY <1>1, <2>1, <2>2
  <2>4. Net
    BY <1>1, <1>2, <2>1, <2>2, Sends
  <2> QED BY <2>3, <2>4 DEF TypeOK, Wires
<1>5. CASE HandleNoise(s, p, m, w)
  <2>1. Net
    BY <1>2, <1>5 DEF HandleNoise
  <2>2. Own
    BY <1>1, <1>5 DEF HandleNoise
  <2> QED BY <2>1, <2>2 DEF TypeOK, Wires
<1> QED BY <1>3, <1>4, <1>5

LEMMA ReceivesTyped ==
  ASSUME TypeOK, NEW s \in Side, Receive(s)
  PROVE  TypeOK'
<1>1. PICK p \in Live : \E i \in 1 .. Len(wire[Other(s)][p]) :
        LET m == wire[Other(s)][p][i]
            w == [wire EXCEPT ![Other(s)][p] = RemoveAt(@, i)]
        IN /\ faults' = IF i = 1 THEN faults ELSE faults + 1
           /\ faults' <= MaxFaults
           /\ \/ HandleProbing(s, p, m, w)
              \/ HandleHandshake(s, p, m, w)
              \/ HandleNoise(s, p, m, w)
  BY DEF Receive
<1>2. PICK i \in 1 .. Len(wire[Other(s)][p]) :
        LET m == wire[Other(s)][p][i]
            w == [wire EXCEPT ![Other(s)][p] = RemoveAt(@, i)]
        IN /\ faults' = IF i = 1 THEN faults ELSE faults + 1
           /\ faults' <= MaxFaults
           /\ \/ HandleProbing(s, p, m, w)
              \/ HandleHandshake(s, p, m, w)
              \/ HandleNoise(s, p, m, w)
  BY <1>1
<1> DEFINE m == wire[Other(s)][p][i]
           w == [wire EXCEPT ![Other(s)][p] = RemoveAt(@, i)]
<1>3. wire \in Wires /\ Other(s) \in Side /\ faults \in 0 .. MaxFaults
  BY Others DEF TypeOK, Wires
<1>4. w \in Wires
  BY <1>3, Leaves
<1>5. m \in Messages
  BY <1>3 DEF Wires
<1>6. faults' \in 0 .. MaxFaults
  BY <1>2, <1>3, Constants
<1>7. HandleProbing(s, p, m, w) \/ HandleHandshake(s, p, m, w) \/ HandleNoise(s, p, m, w)
  BY <1>2
<1> HIDE DEF m, w
<1> QED BY <1>4, <1>5, <1>6, <1>7, HandlesTyped

\* Ends and losses.
LEMMA EndsTyped ==
  ASSUME TypeOK, Lose \/ NoiseTimeout \/ \E s \in Side : ProbeTimeout(s) \/ SocketError(s)
  PROVE  TypeOK'
<1>1. ASSUME NEW s \in Side, Fail(s), faults' \in 0 .. MaxFaults PROVE TypeOK'
  BY <1>1 DEF TypeOK, Fail, Phases
<1>2. faults \in 0 .. MaxFaults
  BY DEF TypeOK
<1>3. CASE Lose
  <2>1. PICK s \in Side, p \in Live : \E i \in 1 .. Len(wire[s][p]) :
          wire' = [wire EXCEPT ![s][p] = RemoveAt(@, i)]
    BY <1>3 DEF Lose
  <2>2. PICK i \in 1 .. Len(wire[s][p]) : wire' = [wire EXCEPT ![s][p] = RemoveAt(@, i)]
    BY <2>1
  <2>3. wire \in Wires
    BY DEF TypeOK, Wires
  <2>4. wire' \in Wires
    BY <2>2, <2>3, Leaves
  <2>5. faults' \in 0 .. MaxFaults
    BY <1>2, <1>3, Constants DEF Lose
  <2> QED BY <1>3, <2>4, <2>5 DEF Lose, TypeOK, Wires
<1>4. ASSUME NEW s \in Side, Expires(s) PROVE TypeOK'
  <2>1. faults' \in 0 .. MaxFaults
    BY <1>2, <1>4, Constants DEF Expires
  <2> QED BY <1>1, <1>4, <2>1 DEF Expires
<1>5. ASSUME NEW s \in Side, SocketError(s) PROVE TypeOK'
  <2>1. faults' \in 0 .. MaxFaults
    BY <1>2, <1>5, Constants DEF SocketError
  <2> QED BY <1>1, <1>5, <2>1 DEF SocketError
<1>6. "viewer" \in Side
  BY DEF Side
<1> QED BY <1>3, <1>4, <1>5, <1>6 DEF NoiseTimeout, ProbeTimeout

LEMMA TypeInit == Init => TypeOK
<1> SUFFICES ASSUME Init PROVE TypeOK
  OBVIOUS
<1>1. wire \in [Side -> [Live -> Seq(Messages)]]
  <2>1. <<>> \in Seq(Messages)
    OBVIOUS
  <2>2. [p \in Live |-> <<>>] \in [Live -> Seq(Messages)]
    BY <2>1
  <2> QED BY <2>2 DEF Init
<1>2. phase \in [Side -> Phases] /\ sends \in [Side -> 0 .. PROBE_RETRY_COUNT]
  BY Constants DEF Init, Phases
<1>3. pending \in [Side -> SUBSET Paths] /\ opened \in [Side -> SUBSET Paths]
  BY DEF Init
<1>4. peer \in [Side -> Paths \cup {None}] /\ refused \in BOOLEAN
  BY DEF Init
<1>5. faults \in 0 .. MaxFaults
  BY Constants DEF Init
<1> QED BY <1>1, <1>2, <1>3, <1>4, <1>5 DEF TypeOK

LEMMA TypeStep == ASSUME TypeOK, [Next]_vars PROVE TypeOK'
<1>1. CASE UNCHANGED vars
  BY <1>1 DEF TypeOK, vars
<1>2. CASE Next
  BY <1>2, ProbesTyped, ReceivesTyped, EndsTyped DEF Next, Proceed
<1> QED BY <1>1, <1>2

\* The types and the budget of Probes (transport/src/udp.rs probe_and_commit_peer).
THEOREM TypeCorrect == Spec => []TypeOK
BY TypeInit, TypeStep, PTL DEF Spec

-----------------------------------------------------------------------------
(* A clean network.                                                        *)

\* A Probe comes next on a path.
ProbeFirst(seq) == seq # <<>> /\ seq[1] = "Probe"

\* Where the two sides can be: whoever is past probing has had an answer of the
\* other, and neither is secured without the message of the other.
PhaseInv ==
  /\ phase["host"] \in {"idle", "probing", "handshake", "secured"}
  /\ phase["viewer"] \in {"idle", "probing", "noise", "secured"}
  /\ \A s \in Side : phase[s] = "idle" => phase[Other(s)] \in {"idle", "probing"}
  /\ phase["host"] = "secured" => phase["viewer"] \in {"noise", "secured"}
  /\ phase["viewer"] = "secured" => phase["host"] = "secured"

\* What a side has sent so far.
SentInv ==
  /\ \A s \in Side, p \in Live : phase[s] = "idle" => wire[s][p] = <<>>
  /\ \A p \in Live :
       /\ Contains(wire["viewer"][p], "NoiseE1") => phase["viewer"] \in {"noise", "secured"}
       /\ Contains(wire["host"][p], "NoiseE2") => phase["host"] = "secured"

\* A side that has started has opened its paths, and while it probes it waits for
\* an answer on each of them.
StartedInv ==
  \A s \in Side :
    /\ phase[s] # "idle" => Live \subseteq opened[s]
    /\ phase[s] = "probing" => Live \subseteq pending[s]
    /\ peer[s] \in Live \cup {None}

\* What is on its way to a side that waits.  A path keeps order, so a Probe of a side
\* comes before its answers, and who reads an answer has given one on that path.
WaitInv ==
  /\ \A s \in Side :
       phase[s] = "probing" /\ phase[Other(s)] \in {"idle", "probing"} =>
         \A p \in Live : Contains(wire[Other(s)][p], "ProbeAck") \/ ProbeFirst(wire[s][p])
  /\ phase["viewer"] = "probing" /\ phase["host"] = "handshake" =>
       \E p \in Live : Contains(wire["host"][p], "ProbeAck")
  /\ phase["host"] = "probing" /\ phase["viewer"] = "noise" =>
       \E p \in Live : Before(wire["viewer"][p], "ProbeAck", "NoiseE1")
  /\ phase["host"] = "handshake" /\ phase["viewer"] = "noise" =>
       \E p \in Live : Contains(wire["viewer"][p], "NoiseE1")
  /\ phase["host"] = "secured" /\ phase["viewer"] = "noise" =>
       \E p \in Live : Contains(wire["host"][p], "NoiseE2")

Parts == PhaseInv /\ SentInv /\ StartedInv /\ WaitInv
CleanInv == Clean => Parts

\* Who waits for something has something on its way to it.
LEMMA SomethingLeft ==
  ASSUME TypeOK, Parts, Quiet, \A s \in Side : phase[s] # "idle"
  PROVE  Connected
<1>1. "host" \in Side /\ "viewer" \in Side /\ Live # {}
  BY Constants DEF Side
<1>2. \A s \in Side, p \in Live : Admits(s, p)
  BY DEF Parts, StartedInv, Admits
<1>3. ASSUME NEW s \in Side, Listens(s), NEW p \in Live
      PROVE  wire[Other(s)][p] = <<>>
  BY <1>2, <1>3 DEF Quiet
<1>4. ASSUME NEW m PROVE ~Contains(<<>>, m)
  BY DEF Contains
<1>5. ASSUME NEW a, NEW b PROVE ~Before(<<>>, a, b)
  BY DEF Before
<1>6. phase["host"] # "probing"
  <2> SUFFICES ASSUME phase["host"] = "probing" PROVE FALSE
    OBVIOUS
  <2>1. \A p \in Live : wire["viewer"][p] = <<>>
    BY <1>1, <1>3, Others DEF Listens
  <2>2. phase["viewer"] \in {"probing", "noise"}
    BY <1>1 DEF Parts, PhaseInv
  <2>3. CASE phase["viewer"] = "probing"
    <3>1. \A p \in Live : wire["host"][p] = <<>>
      BY <1>1, <1>3, <2>3, Others DEF Listens
    <3>2. \A p \in Live : Contains(wire["viewer"][p], "ProbeAck") \/ ProbeFirst(wire["host"][p])
      BY <1>1, <2>3, Others DEF Parts, WaitInv
    <3> QED BY <1>1, <1>4, <2>1, <3>1, <3>2 DEF ProbeFirst
  <2>4. CASE phase["viewer"] = "noise"
    BY <1>5, <2>1, <2>4 DEF Parts, WaitInv
  <2> QED BY <2>2, <2>3, <2>4
<1>7. phase["host"] # "handshake"
  <2> SUFFICES ASSUME phase["host"] = "handshake" PROVE FALSE
    OBVIOUS
  <2>1. \A p \in Live : wire["viewer"][p] = <<>>
    BY <1>1, <1>3, Others DEF Listens
  <2>2. phase["viewer"] \in {"probing", "noise"}
    BY <1>1 DEF Parts, PhaseInv
  <2>3. CASE phase["viewer"] = "probing"
    <3>1. \A p \in Live : wire["host"][p] = <<>>
      BY <1>1, <1>3, <2>3, Others DEF Listens
    <3> QED BY <1>4, <2>3, <3>1 DEF Parts, WaitInv
  <2>4. CASE phase["viewer"] = "noise"
    BY <1>4, <2>1, <2>4 DEF Parts, WaitInv
  <2> QED BY <2>2, <2>3, <2>4
<1>8. phase["host"] = "secured"
  BY <1>1, <1>6, <1>7 DEF Parts, PhaseInv
<1>9. phase["viewer"] # "noise"
  <2> SUFFICES ASSUME phase["viewer"] = "noise" PROVE FALSE
    OBVIOUS
  <2>1. \A p \in Live : wire["host"][p] = <<>>
    BY <1>1, <1>3, Others DEF Listens
  <2> QED BY <1>4, <1>8, <2>1 DEF Parts, WaitInv
<1>10. phase["viewer"] = "secured"
  BY <1>8, <1>9 DEF Parts, PhaseInv
<1> QED BY <1>8, <1>10 DEF Connected, Side

\* The next datagram x is taken from the other side's path p, and a Probe may be
\* answered on it.
TakenFrom(s, p, x) ==
  /\ 1 \in 1 .. Len(wire[Other(s)][p]) /\ x = wire[Other(s)][p][1]
  /\ \A q \in Live :
       wire'[Other(s)][q] = IF q = p THEN RemoveAt(wire[Other(s)][p], 1) ELSE wire[Other(s)][q]

\* What taking it leaves on its way to s.
LEMMA Takes ==
  ASSUME wire \in Wires, NEW s \in Side, NEW p \in Live, NEW x, TakenFrom(s, p, x)
  PROVE  \A q \in Live :
           /\ \A m : Contains(wire'[Other(s)][q], m) => Contains(wire[Other(s)][q], m)
           /\ \A m : m # x /\ Contains(wire[Other(s)][q], m) => Contains(wire'[Other(s)][q], m)
           /\ \A a, b : a # x /\ Before(wire[Other(s)][q], a, b)
                         => Before(wire'[Other(s)][q], a, b)
           /\ \A a, b : Before(wire[Other(s)][q], a, b) => Contains(wire'[Other(s)][q], b)
           /\ q # p /\ ProbeFirst(wire[Other(s)][q]) => ProbeFirst(wire'[Other(s)][q])
<1>1. Other(s) \in Side
  BY Others
<1>2. \A q \in Live : wire[Other(s)][q] \in Seq(Messages)
  BY <1>1 DEF Wires
<1>3. ASSUME NEW seq \in Seq(Messages), NEW a, NEW b, Before(seq, a, b) PROVE Contains(seq, b)
  BY <1>3 DEF Before, Contains
<1>4. ASSUME NEW q \in Live, q = p
      PROVE  /\ \A m : Contains(wire'[Other(s)][q], m) => Contains(wire[Other(s)][q], m)
             /\ \A m : m # x /\ Contains(wire[Other(s)][q], m) => Contains(wire'[Other(s)][q], m)
             /\ \A a, b : a # x /\ Before(wire[Other(s)][q], a, b)
                           => Before(wire'[Other(s)][q], a, b)
             /\ \A a, b : Before(wire[Other(s)][q], a, b) => Contains(wire'[Other(s)][q], b)
  <2>1. wire'[Other(s)][q] = RemoveAt(wire[Other(s)][p], 1) /\ x = wire[Other(s)][p][1]
    BY <1>4 DEF TakenFrom
  <2>2. 1 \in 1 .. Len(wire[Other(s)][p]) /\ wire[Other(s)][p] \in Seq(Messages)
    BY <1>2 DEF TakenFrom
  <2> QED BY <1>4, <2>1, <2>2, Shifted
<1>5. ASSUME NEW q \in Live, q # p PROVE wire'[Other(s)][q] = wire[Other(s)][q]
  BY <1>5 DEF TakenFrom
<1> QED BY <1>2, <1>3, <1>4, <1>5

\* What s sends comes after all that it has sent.
LEMMA Gives ==
  ASSUME wire \in Wires, NEW s \in Side, NEW Q, NEW m \in Messages,
         \A q \in Live : wire'[s][q] = IF q \in Q THEN Append(wire[s][q], m) ELSE wire[s][q]
  PROVE  \A q \in Live :
           /\ \A n : Contains(wire[s][q], n) => Contains(wire'[s][q], n)
           /\ \A n : n # m /\ Contains(wire'[s][q], n) => Contains(wire[s][q], n)
           /\ \A a, b : Before(wire[s][q], a, b) => Before(wire'[s][q], a, b)
           /\ ProbeFirst(wire[s][q]) => ProbeFirst(wire'[s][q])
           /\ q \in Q => /\ Contains(wire'[s][q], m)
                         /\ wire[s][q] = <<>> /\ m = "Probe" => ProbeFirst(wire'[s][q])
                         /\ \A a : Contains(wire[s][q], a) => Before(wire'[s][q], a, m)
<1>1. \A q \in Live : wire[s][q] \in Seq(Messages)
  BY DEF Wires
<1>2. ASSUME NEW q \in Live, q \notin Q PROVE wire'[s][q] = wire[s][q]
  BY <1>2
<1>3. ASSUME NEW q \in Live, q \in Q
      PROVE  /\ \A n : Contains(wire[s][q], n) => Contains(wire'[s][q], n)
             /\ \A n : n # m /\ Contains(wire'[s][q], n) => Contains(wire[s][q], n)
             /\ \A a, b : Before(wire[s][q], a, b) => Before(wire'[s][q], a, b)
             /\ ProbeFirst(wire[s][q]) => ProbeFirst(wire'[s][q])
             /\ Contains(wire'[s][q], m)
             /\ wire[s][q] = <<>> /\ m = "Probe" => ProbeFirst(wire'[s][q])
             /\ \A a : Contains(wire[s][q], a) => Before(wire'[s][q], a, m)
  <2>1. wire'[s][q] = Append(wire[s][q], m) /\ wire[s][q] \in Seq(Messages)
    BY <1>1, <1>3
  <2> QED BY <2>1, Appended DEF ProbeFirst
<1> QED BY <1>2, <1>3

\* Parts that a step of neither the network nor the phases disturbs.
LEMMA PhasesStay == ASSUME PhaseInv, phase' = phase PROVE PhaseInv'
BY DEF PhaseInv

\* A side reads what does not take it further, and answers a Probe while it probes.
LEMMA ReadsOn ==
  ASSUME wire \in Wires, PhaseInv, SentInv, WaitInv, phase' = phase,
         NEW s \in Side, NEW p \in Live, NEW x, TakenFrom(s, p, x), NEW Q,
         \A q \in Live :
           wire'[s][q] = IF q \in Q THEN Append(wire[s][q], "ProbeAck") ELSE wire[s][q],
         \/ phase[s] = "probing" /\ x # "ProbeAck" /\ (x = "Probe" => p \in Q)
         \/ phase[s] = "handshake" /\ x # "NoiseE1"
         \/ phase[s] = "noise" /\ x # "NoiseE2"
  PROVE  SentInv' /\ WaitInv'
<1> DEFINE o == Other(s)
<1>1. /\ o \in Side /\ o # s /\ Other(o) = s /\ "ProbeAck" \in Messages
      /\ \A t \in Side : t = s \/ t = o
      /\ (s = "host" /\ o = "viewer") \/ (s = "viewer" /\ o = "host")
  BY Others DEF Messages, Side
<1>2. \A q \in Live :
        /\ \A m : Contains(wire'[o][q], m) => Contains(wire[o][q], m)
        /\ \A m : m # x /\ Contains(wire[o][q], m) => Contains(wire'[o][q], m)
        /\ \A a, b : a # x /\ Before(wire[o][q], a, b) => Before(wire'[o][q], a, b)
        /\ q # p /\ ProbeFirst(wire[o][q]) => ProbeFirst(wire'[o][q])
  BY Takes
<1>3. \A q \in Live :
        /\ \A n : Contains(wire[s][q], n) => Contains(wire'[s][q], n)
        /\ \A n : n # "ProbeAck" /\ Contains(wire'[s][q], n) => Contains(wire[s][q], n)
        /\ \A a, b : Before(wire[s][q], a, b) => Before(wire'[s][q], a, b)
        /\ ProbeFirst(wire[s][q]) => ProbeFirst(wire'[s][q])
        /\ q \in Q => Contains(wire'[s][q], "ProbeAck")
  <2> DEFINE m == "ProbeAck"
  <2>1. m \in Messages
    BY <1>1
  <2>2. \A q \in Live : wire'[s][q] = IF q \in Q THEN Append(wire[s][q], m) ELSE wire[s][q]
    OBVIOUS
  <2> HIDE DEF m
  <2>3. \A q \in Live :
          /\ \A n : Contains(wire[s][q], n) => Contains(wire'[s][q], n)
          /\ \A n : n # m /\ Contains(wire'[s][q], n) => Contains(wire[s][q], n)
          /\ \A a, b : Before(wire[s][q], a, b) => Before(wire'[s][q], a, b)
          /\ ProbeFirst(wire[s][q]) => ProbeFirst(wire'[s][q])
          /\ q \in Q => /\ Contains(wire'[s][q], m)
                        /\ wire[s][q] = <<>> /\ m = "Probe" => ProbeFirst(wire'[s][q])
                        /\ \A a : Contains(wire[s][q], a) => Before(wire'[s][q], a, m)
    BY <2>1, <2>2, Gives
  <2> QED BY <2>3 DEF m
<1>4. phase[s] # "idle" /\ phase[o] # "idle"
  <2>1. wire[o][p] # <<>>
    BY DEF TakenFrom
  <2> QED BY <1>1, <2>1 DEF SentInv
<1>5. ProbeFirst(wire[o][p]) => x = "Probe"
  BY DEF TakenFrom, ProbeFirst
<1> HIDE DEF o
<1>6. SentInv'
  BY <1>1, <1>2, <1>3, <1>4 DEF SentInv
<1>7. \A t \in Side :
        phase[t] = "probing" /\ phase[Other(t)] \in {"idle", "probing"} =>
          \A q \in Live : Contains(wire'[Other(t)][q], "ProbeAck") \/ ProbeFirst(wire'[t][q])
  <2> SUFFICES ASSUME NEW t \in Side, phase[t] = "probing", phase[Other(t)] \in {"idle", "probing"},
                      NEW q \in Live
               PROVE  Contains(wire'[Other(t)][q], "ProbeAck") \/ ProbeFirst(wire'[t][q])
    OBVIOUS
  <2>1. Contains(wire[Other(t)][q], "ProbeAck") \/ ProbeFirst(wire[t][q])
    BY DEF WaitInv
  <2>2. CASE t = s
    <3>1. Other(t) = o /\ x # "ProbeAck"
      BY <2>2 DEF o
    <3> QED BY <1>2, <1>3, <2>1, <2>2, <3>1
  <2>3. CASE t = o
    <3>1. Other(t) = s /\ phase[s] = "probing"
      BY <1>1, <1>4, <2>3
    <3>2. CASE q = p /\ ProbeFirst(wire[t][q])
      BY <1>3, <1>5, <2>3, <3>1, <3>2
    <3>3. CASE q # p \/ Contains(wire[Other(t)][q], "ProbeAck")
      BY <1>2, <1>3, <2>1, <2>3, <3>1, <3>3
    <3> QED BY <2>1, <3>2, <3>3
  <2> QED BY <1>1, <2>2, <2>3
<1>8. CASE s = "host"
  <2>1. o = "viewer"
    BY <1>1, <1>8
  <2>2. phase["host"] \in {"probing", "handshake"}
    BY <1>8 DEF PhaseInv
  <2>3. phase["host"] = "probing" /\ phase["viewer"] = "noise" =>
          \E q \in Live : Before(wire'["viewer"][q], "ProbeAck", "NoiseE1")
    BY <1>2, <1>8, <2>1 DEF WaitInv
  <2>4. phase["host"] = "handshake" /\ phase["viewer"] = "noise" =>
          \E q \in Live : Contains(wire'["viewer"][q], "NoiseE1")
    BY <1>2, <1>8, <2>1 DEF WaitInv
  <2>5. phase["viewer"] = "probing" /\ phase["host"] = "handshake" =>
          \E q \in Live : Contains(wire'["host"][q], "ProbeAck")
    BY <1>3, <1>8, <2>1 DEF WaitInv
  <2>6. phase["host"] # "secured"
    BY <2>2
  <2> QED BY <1>6, <1>7, <2>3, <2>4, <2>5, <2>6 DEF WaitInv
<1>9. CASE s = "viewer"
  <2>1. o = "host"
    BY <1>1, <1>9
  <2>2. phase["viewer"] \in {"probing", "noise"}
    BY <1>9 DEF PhaseInv
  <2> QED BY <1>2, <1>3, <1>6, <1>7, <1>9, <2>1, <2>2 DEF WaitInv
<1> QED BY <1>1, <1>6, <1>8, <1>9

\* What a side has opened and waits for, after any of its steps.
LEMMA StartedStays ==
  ASSUME StartedInv,
         \A t \in Side :
           /\ opened[t] \subseteq opened'[t] /\ peer'[t] \in Live \cup {None}
           /\ phase[t] = "idle" => phase'[t] = "idle"
           /\ phase'[t] = "probing" => phase[t] = "probing" /\ pending'[t] = pending[t]
  PROVE  StartedInv'
BY DEF StartedInv

\* A send that no NAT refuses.
LEMMA SendsAll ==
  ASSUME NEW w \in Wires, NEW s \in Side, NEW Q \in SUBSET Paths, NEW m \in Messages,
         TypeOK, Send(w, s, Q, m), ~refused'
  PROVE  /\ \A t \in Side : opened[t] \subseteq opened'[t]
         /\ Q \subseteq opened'[s]
         /\ \A q \in Live : wire'[s][q] = IF q \in Q THEN Append(w[s][q], m) ELSE w[s][q]
         /\ \A t \in Side, q \in Live : t # s => wire'[t][q] = w[t][q]
<1>1. opened \in [Side -> SUBSET Paths] /\ refused \in BOOLEAN
  BY DEF TypeOK
<1>2. PICK D \in SUBSET {p \in Q \cap Live : ~Admits(Other(s), p)} :
        /\ wire' = [w EXCEPT ![s] =
                      [p \in Live |-> IF p \in Q \ D THEN Append(@[p], m) ELSE @[p]]]
        /\ refused' = (refused \/ D # {})
        /\ opened' = [opened EXCEPT ![s] = @ \cup Q]
  BY DEF Send
<1>3. D = {}
  BY <1>2
<1>4. /\ \A q \in Live : wire'[s][q] = IF q \in Q THEN Append(w[s][q], m) ELSE w[s][q]
      /\ \A t \in Side, q \in Live : t # s => wire'[t][q] = w[t][q]
  BY <1>2, <1>3 DEF Wires
<1>5. Q \subseteq opened'[s] /\ \A t \in Side : opened[t] \subseteq opened'[t]
  BY <1>1, <1>2
<1> QED BY <1>4, <1>5

\* A round of Probes adds to what is on its way.
LEMMA RetryKeeps ==
  ASSUME TypeOK, Parts, NEW s \in Side, Retry(s), ~refused'
  PROVE  Parts'
<1>1. /\ wire \in Wires /\ pending[s] \in SUBSET Paths /\ "Probe" \in Messages
      /\ opened \in [Side -> SUBSET Paths] /\ refused \in BOOLEAN
  BY DEF TypeOK, Wires, Messages
<1>2. /\ phase[s] = "probing" /\ Send(wire, s, pending[s], "Probe")
      /\ UNCHANGED <<phase, pending, peer>>
  BY DEF Retry
<1>3. /\ \A t \in Side : opened[t] \subseteq opened'[t]
      /\ pending[s] \subseteq opened'[s]
      /\ \A q \in Live : wire'[s][q] = IF q \in pending[s] THEN Append(wire[s][q], "Probe")
                                       ELSE wire[s][q]
      /\ \A t \in Side, q \in Live : t # s => wire'[t][q] = wire[t][q]
  <2> DEFINE Q == pending[s]
  <2>1. Q \in SUBSET Paths /\ Send(wire, s, Q, "Probe")
    BY <1>1, <1>2
  <2> HIDE DEF Q
  <2>2. /\ \A t \in Side : opened[t] \subseteq opened'[t]
        /\ Q \subseteq opened'[s]
        /\ \A q \in Live : wire'[s][q] = IF q \in Q THEN Append(wire[s][q], "Probe")
                                         ELSE wire[s][q]
        /\ \A t \in Side, q \in Live : t # s => wire'[t][q] = wire[t][q]
    BY <1>1, <2>1, SendsAll
  <2> QED BY <2>2 DEF Q
<1>4. PhaseInv'
  BY <1>2, PhasesStay DEF Parts
<1>5. StartedInv'
  <2>1. \A t \in Side : peer[t] \in Live \cup {None}
    BY DEF Parts, StartedInv
  <2> QED BY <1>2, <1>3, <2>1, StartedStays DEF Parts
<1>6. \A t \in Side, q \in Live :
        /\ \A n : Contains(wire[t][q], n) => Contains(wire'[t][q], n)
        /\ \A n : n # "Probe" /\ Contains(wire'[t][q], n) => Contains(wire[t][q], n)
        /\ \A a, b : Before(wire[t][q], a, b) => Before(wire'[t][q], a, b)
        /\ ProbeFirst(wire[t][q]) => ProbeFirst(wire'[t][q])
        /\ t # s => wire'[t][q] = wire[t][q]
  <2> SUFFICES ASSUME NEW t \in Side, NEW q \in Live
               PROVE  /\ \A n : Contains(wire[t][q], n) => Contains(wire'[t][q], n)
                      /\ \A n : n # "Probe" /\ Contains(wire'[t][q], n) => Contains(wire[t][q], n)
                      /\ \A a, b : Before(wire[t][q], a, b) => Before(wire'[t][q], a, b)
                      /\ ProbeFirst(wire[t][q]) => ProbeFirst(wire'[t][q])
                      /\ t # s => wire'[t][q] = wire[t][q]
    OBVIOUS
  <2>1. CASE wire'[t][q] = wire[t][q]
    BY <2>1
  <2>2. CASE t = s /\ wire'[t][q] = Append(wire[t][q], "Probe")
    <3>1. wire[t][q] \in Seq(Messages)
      BY <1>1 DEF Wires
    <3> QED BY <1>1, <2>2, <3>1, Appended DEF ProbeFirst
  <2> QED BY <1>3, <2>1, <2>2
<1>7. SentInv'
  <2>1. \A t \in Side : phase'[t] = "idle" => t # s /\ phase[t] = "idle"
    BY <1>2
  <2>2. "host" \in Side /\ "viewer" \in Side
    BY DEF Side
  <2> QED BY <1>2, <1>6, <2>1, <2>2 DEF Parts, SentInv
<1>8. WaitInv'
  <2>1. \A t \in Side :
          phase[t] = "probing" /\ phase[Other(t)] \in {"idle", "probing"} =>
            \A q \in Live : Contains(wire'[Other(t)][q], "ProbeAck") \/ ProbeFirst(wire'[t][q])
    BY <1>6, Others DEF Parts, WaitInv
  <2>2. "host" \in Side /\ "viewer" \in Side
    BY DEF Side
  <2> QED BY <1>2, <1>6, <2>1, <2>2 DEF Parts, WaitInv
<1> QED BY <1>4, <1>5, <1>7, <1>8 DEF Parts

\* Starting puts a Probe first on every path.
LEMMA StartKeeps ==
  ASSUME TypeOK, Parts, NEW s \in Side, Start(s), ~refused'
  PROVE  Parts'
<1> DEFINE o == Other(s)
<1>1. /\ wire \in Wires /\ Cands[s] \in SUBSET Paths /\ "Probe" \in Messages
      /\ opened \in [Side -> SUBSET Paths] /\ refused \in BOOLEAN /\ Live \subseteq Cands[s]
  BY Constants DEF TypeOK, Wires, Messages
<1>2. /\ phase[s] = "idle" /\ Send(wire, s, Cands[s], "Probe") /\ UNCHANGED peer
      /\ phase' = [phase EXCEPT ![s] = "probing"] /\ pending' = [pending EXCEPT ![s] = Cands[s]]
  BY DEF Start
<1>3. /\ \A t \in Side : opened[t] \subseteq opened'[t]
      /\ Cands[s] \subseteq opened'[s]
      /\ \A q \in Live : wire'[s][q] = IF q \in Cands[s] THEN Append(wire[s][q], "Probe")
                                       ELSE wire[s][q]
      /\ \A t \in Side, q \in Live : t # s => wire'[t][q] = wire[t][q]
  BY <1>1, <1>2, SendsAll
<1>4. /\ o \in Side /\ o # s /\ Other(o) = s /\ \A t \in Side : t = s \/ t = o
      /\ (s = "host" /\ o = "viewer") \/ (s = "viewer" /\ o = "host")
  BY Others DEF Side
<1>5. phase[o] \in {"idle", "probing"} /\ phase'[o] = phase[o] /\ phase'[s] = "probing"
  BY <1>2, <1>4 DEF Parts, PhaseInv, TypeOK
<1> HIDE DEF o
<1>6. \A q \in Live : wire'[o][q] = wire[o][q] /\ wire[s][q] = <<>>
  BY <1>2, <1>3, <1>4 DEF Parts, SentInv
<1>7. \A q \in Live : wire'[s][q] = Append(<<>>, "Probe")
  BY <1>1, <1>3, <1>6
<1>8. \A q \in Live : ProbeFirst(wire'[s][q]) /\ \A n : n # "Probe" => ~Contains(wire'[s][q], n)
  <2> DEFINE m == "Probe"  one == Append(<<>>, m)
  <2>1. <<>> \in Seq(Messages) /\ \A n : ~Contains(<<>>, n)
    BY DEF Contains
  <2>2. m \in Messages
    BY <1>1
  <2> HIDE DEF m
  <2>3. /\ one # <<>> /\ one[1] = m
        /\ \A n : Contains(one, n) => Contains(<<>>, n) \/ n = m
    BY <2>1, <2>2, Appended
  <2>4. ProbeFirst(one) /\ \A n : n # "Probe" => ~Contains(one, n)
    BY <2>1, <2>3 DEF ProbeFirst, m
  <2> QED BY <1>7, <2>4 DEF m
<1>9. PhaseInv'
  BY <1>4, <1>5 DEF PhaseInv
<1>10. StartedInv'
  <2>1. pending'[s] = Cands[s] /\ pending'[o] = pending[o]
    BY <1>2, <1>4 DEF TypeOK
  <2> QED BY <1>1, <1>2, <1>3, <1>4, <1>5, <2>1 DEF Parts, StartedInv
<1>11. SentInv'
  BY <1>4, <1>5, <1>6, <1>8 DEF Parts, SentInv
<1>12. WaitInv'
  <2>1. phase'["host"] \in {"idle", "probing"} /\ phase'["viewer"] \in {"idle", "probing"}
    BY <1>4, <1>5
  <2>2. phase[o] = "probing" => \A q \in Live : ProbeFirst(wire[o][q])
    <3>1. \A n : ~Contains(<<>>, n)
      BY DEF Contains
    <3>2. phase[o] = "probing" =>
            \A q \in Live : Contains(wire[s][q], "ProbeAck") \/ ProbeFirst(wire[o][q])
      BY <1>2, <1>4 DEF Parts, WaitInv
    <3> QED BY <1>6, <3>1, <3>2
  <2>3. \A t \in Side : phase'[t] = "probing" => \A q \in Live : ProbeFirst(wire'[t][q])
    BY <1>4, <1>5, <1>6, <1>8, <2>2
  <2> QED BY <2>1, <2>3 DEF WaitInv
<1> QED BY <1>9, <1>10, <1>11, <1>12 DEF Parts

\* s has the next datagram x of the other side's path p, and w is left.
Got(s, p, x, w) ==
  /\ w \in Wires /\ x \in Messages
  /\ 1 \in 1 .. Len(wire[Other(s)][p]) /\ x = wire[Other(s)][p][1]
  /\ \A q \in Live :
       /\ w[Other(s)][q] = IF q = p THEN RemoveAt(wire[Other(s)][p], 1) ELSE wire[Other(s)][q]
       /\ w[s][q] = wire[s][q]

\* Without faults what is received is what was sent first.
LEMMA Receipt ==
  ASSUME TypeOK, faults = 0, faults' = 0, NEW s \in Side, Receive(s)
  PROVE  \E p \in Live : \E x, w :
           /\ Got(s, p, x, w)
           /\ HandleProbing(s, p, x, w) \/ HandleHandshake(s, p, x, w) \/ HandleNoise(s, p, x, w)
<1> DEFINE o == Other(s)
<1>1. wire \in Wires /\ o \in Side /\ o # s
  BY Others DEF TypeOK, Wires
<1>2. PICK p \in Live : \E i \in 1 .. Len(wire[o][p]) :
        LET m == wire[o][p][i]
            v == [wire EXCEPT ![o][p] = RemoveAt(@, i)]
        IN /\ faults' = IF i = 1 THEN faults ELSE faults + 1
           /\ \/ HandleProbing(s, p, m, v)
              \/ HandleHandshake(s, p, m, v)
              \/ HandleNoise(s, p, m, v)
  BY DEF Receive
<1>3. PICK i \in 1 .. Len(wire[o][p]) :
        LET m == wire[o][p][i]
            v == [wire EXCEPT ![o][p] = RemoveAt(@, i)]
        IN /\ faults' = IF i = 1 THEN faults ELSE faults + 1
           /\ \/ HandleProbing(s, p, m, v)
              \/ HandleHandshake(s, p, m, v)
              \/ HandleNoise(s, p, m, v)
  BY <1>2
<1>4. i = 1
  BY <1>3
<1> DEFINE x == wire[o][p][1]
           w == [wire EXCEPT ![o][p] = RemoveAt(@, 1)]
<1>5. HandleProbing(s, p, x, w) \/ HandleHandshake(s, p, x, w) \/ HandleNoise(s, p, x, w)
  BY <1>3, <1>4
<1>6. 1 \in 1 .. Len(wire[o][p])
  BY <1>4
<1> HIDE DEF o
<1>7. x \in Messages
  BY <1>1, <1>6 DEF Wires
<1>8. w = [wire EXCEPT ![o][p] = RemoveAt(@, i)]
  BY <1>4
<1> HIDE DEF w
<1>9. /\ w \in Wires
      /\ \A t \in Side, q \in Live :
           w[t][q] = IF t = o /\ q = p THEN RemoveAt(wire[o][p], i) ELSE wire[t][q]
  <2>1. RemoveAt(wire[o][p], i) \in Seq(Messages)
    BY <1>1, Removed DEF Wires
  <2>2. w = [wire EXCEPT ![o] = [wire[o] EXCEPT ![p] = RemoveAt(wire[o][p], i)]]
    BY <1>8
  <2>3. [wire[o] EXCEPT ![p] = RemoveAt(wire[o][p], i)] \in [Live -> Seq(Messages)]
    BY <1>1, <2>1 DEF Wires
  <2> QED BY <1>1, <2>1, <2>2, <2>3 DEF Wires
<1>10. Got(s, p, x, w)
  BY <1>1, <1>4, <1>6, <1>7, <1>9 DEF Got, o
<1> HIDE DEF x
<1> QED BY <1>5, <1>10

\* A datagram that is dropped or, a Probe, answered.
LEMMA StaysKeeps ==
  ASSUME TypeOK, Parts, NEW s \in Side, NEW p \in Live, NEW x, NEW w, Got(s, p, x, w),
         phase' = phase, pending' = pending, peer'[s] \in Live \cup {None},
         peer'[Other(s)] = peer[Other(s)],
         \/ wire' = w /\ opened' = opened /\ ~(phase[s] = "probing" /\ x = "Probe")
         \/ Send(w, s, {p}, "ProbeAck") /\ ~refused',
         \/ phase[s] = "probing" /\ x # "ProbeAck"
         \/ phase[s] = "handshake" /\ x # "NoiseE1"
         \/ phase[s] = "noise" /\ x # "NoiseE2"
  PROVE  Parts'
<1> DEFINE o == Other(s)
<1>1. /\ o \in Side /\ o # s /\ \A t \in Side : t = s \/ t = o
      /\ wire \in Wires /\ "ProbeAck" \in Messages /\ {p} \in SUBSET Paths /\ w \in Wires
  BY Others, Constants DEF Messages, TypeOK, Wires, Got
<1>2. PICK Q : /\ \A q \in Live : wire'[s][q] = IF q \in Q THEN Append(wire[s][q], "ProbeAck")
                                                ELSE wire[s][q]
               /\ \A q \in Live : wire'[o][q] = w[o][q]
               /\ \A t \in Side : opened[t] \subseteq opened'[t]
               /\ phase[s] = "probing" /\ x = "Probe" => p \in Q
  <2>1. CASE wire' = w /\ opened' = opened /\ ~(phase[s] = "probing" /\ x = "Probe")
    <3> DEFINE Q == {}
    <3>1. \A q \in Live : wire'[s][q] = IF q \in Q THEN Append(wire[s][q], "ProbeAck")
                                        ELSE wire[s][q]
      BY <2>1 DEF Got
    <3> HIDE DEF Q
    <3> QED BY <2>1, <3>1
  <2>2. CASE Send(w, s, {p}, "ProbeAck") /\ ~refused'
    <3> DEFINE Q == {p}  m == "ProbeAck"
    <3>1. Q \in SUBSET Paths /\ Send(w, s, Q, m) /\ p \in Q /\ m \in Messages
      BY <1>1, <2>2
    <3> HIDE DEF Q, m
    <3>2. /\ \A t \in Side : opened[t] \subseteq opened'[t]
          /\ Q \subseteq opened'[s]
          /\ \A q \in Live : wire'[s][q] = IF q \in Q THEN Append(w[s][q], m) ELSE w[s][q]
          /\ \A t \in Side, q \in Live : t # s => wire'[t][q] = w[t][q]
      BY <1>1, <2>2, <3>1, SendsAll
    <3>3. \A q \in Live : w[s][q] = wire[s][q]
      BY DEF Got
    <3>4. \A q \in Live : wire'[s][q] = IF q \in Q THEN Append(wire[s][q], "ProbeAck")
                                        ELSE wire[s][q]
      BY <3>2, <3>3 DEF m
    <3>5. \A q \in Live : wire'[o][q] = w[o][q]
      BY <1>1, <3>2
    <3> QED BY <3>1, <3>2, <3>4, <3>5
  <2> QED BY <2>1, <2>2
<1>3. TakenFrom(s, p, x)
  BY <1>2 DEF Got, TakenFrom
<1>4. SentInv' /\ WaitInv'
  BY <1>1, <1>2, <1>3, ReadsOn DEF Parts
<1>5. StartedInv'
  <2>1. \A t \in Side : peer'[t] \in Live \cup {None}
    BY <1>1 DEF Parts, StartedInv
  <2> QED BY <1>2, <2>1, StartedStays DEF Parts
<1> QED BY <1>4, <1>5, PhasesStay DEF Parts

\* The host reads an answer: what the viewer waits for is on its way.
LEMMA HostCommits ==
  ASSUME TypeOK, Parts, NEW p \in Live, NEW w, Got("host", p, "ProbeAck", w),
         phase["host"] = "probing", Commit("host", p, w)
  PROVE  Parts'
<1>1. /\ "host" \in Side /\ "viewer" \in Side /\ Other("host") = "viewer"
      /\ Other("viewer") = "host" /\ wire \in Wires
      /\ \A t \in Side : t = "host" \/ t = "viewer"
  BY Others DEF Side, TypeOK, Wires
<1>2. /\ phase' = [phase EXCEPT !["host"] = "handshake"]
      /\ peer' = [peer EXCEPT !["host"] = None] /\ pending' = [pending EXCEPT !["host"] = {}]
      /\ wire' = w /\ UNCHANGED <<opened, refused>>
  BY DEF Commit
<1>3. phase'["host"] = "handshake" /\ phase'["viewer"] = phase["viewer"]
  BY <1>1, <1>2 DEF TypeOK
<1>4. TakenFrom("host", p, "ProbeAck") /\ \A q \in Live : wire'["host"][q] = wire["host"][q]
  BY <1>2 DEF Got, TakenFrom
<1>5. /\ wire["viewer"][p] # <<>> /\ ~ProbeFirst(wire["viewer"][p])
  BY <1>1, <1>4 DEF TakenFrom, ProbeFirst
<1>6. phase["viewer"] \in {"probing", "noise"}
  BY <1>1, <1>5 DEF Parts, PhaseInv, SentInv
<1>7. \A q \in Live :
        /\ \A m : Contains(wire'["viewer"][q], m) => Contains(wire["viewer"][q], m)
        /\ \A a, b : Before(wire["viewer"][q], a, b) => Contains(wire'["viewer"][q], b)
  <2> DEFINE x == "ProbeAck"  s == "host"
  <2>1. TakenFrom(s, p, x) /\ s \in Side
    BY <1>1, <1>4
  <2> HIDE DEF x, s
  <2>2. \A q \in Live :
          /\ \A m : Contains(wire'[Other(s)][q], m) => Contains(wire[Other(s)][q], m)
          /\ \A a, b : Before(wire[Other(s)][q], a, b) => Contains(wire'[Other(s)][q], b)
    BY <1>1, <2>1, Takes
  <2> QED BY <1>1, <2>2 DEF s
<1>8. PhaseInv'
  BY <1>1, <1>3, <1>6 DEF PhaseInv
<1>9. SentInv'
  BY <1>1, <1>3, <1>4, <1>6, <1>7 DEF Parts, SentInv
<1>10. StartedInv'
  <2>1. \A t \in Side : peer'[t] \in Live \cup {None}
    BY <1>1, <1>2 DEF Parts, StartedInv, TypeOK
  <2>2. \A t \in Side : phase'[t] = "probing" => phase[t] = "probing" /\ pending'[t] = pending[t]
    BY <1>1, <1>2, <1>3 DEF TypeOK
  <2>3. \A t \in Side : phase[t] = "idle" => phase'[t] = "idle"
    BY <1>1, <1>3
  <2> QED BY <1>2, <2>1, <2>2, <2>3, StartedStays DEF Parts
<1>11. phase["viewer"] = "probing" => \E q \in Live : Contains(wire'["host"][q], "ProbeAck")
  <2>1. phase["viewer"] = "probing" =>
          Contains(wire["host"][p], "ProbeAck") \/ ProbeFirst(wire["viewer"][p])
    BY <1>1 DEF Parts, WaitInv
  <2> QED BY <1>4, <1>5, <2>1
<1>12. phase["viewer"] = "noise" => \E q \in Live : Contains(wire'["viewer"][q], "NoiseE1")
  BY <1>7 DEF Parts, WaitInv
<1>13. WaitInv'
  <2>1. \A t \in Side : ~(phase'[t] = "probing" /\ phase'[Other(t)] \in {"idle", "probing"})
    BY <1>1, <1>3
  <2> QED BY <1>3, <1>11, <1>12, <2>1 DEF WaitInv
<1> QED BY <1>8, <1>9, <1>10, <1>13 DEF Parts

\* The viewer reads an answer: its NoiseE1 follows its own answer on that path, or the
\* host waits for it already.
LEMMA ViewerCommits ==
  ASSUME TypeOK, Parts, NEW p \in Live, NEW w, Got("viewer", p, "ProbeAck", w), ~refused',
         phase["viewer"] = "probing", Commit("viewer", p, w)
  PROVE  Parts'
<1>1. /\ "host" \in Side /\ "viewer" \in Side /\ Other("host") = "viewer"
      /\ Other("viewer") = "host" /\ wire \in Wires /\ "NoiseE1" \in Messages
      /\ \A t \in Side : t = "host" \/ t = "viewer"
  BY Others DEF Side, TypeOK, Wires, Messages
<1>2. /\ phase' = [phase EXCEPT !["viewer"] = "noise"]
      /\ peer' = [peer EXCEPT !["viewer"] = p] /\ pending' = [pending EXCEPT !["viewer"] = {}]
      /\ Send(w, "viewer", {p}, "NoiseE1")
  BY DEF Commit
<1>3. phase'["viewer"] = "noise" /\ phase'["host"] = phase["host"]
  BY <1>1, <1>2 DEF TypeOK
<1>4. /\ TakenFrom("viewer", p, "ProbeAck")
      /\ \A q \in Live : wire'["viewer"][q] = IF q \in {p} THEN Append(wire["viewer"][q], "NoiseE1")
                                              ELSE wire["viewer"][q]
      /\ \A t \in Side : opened[t] \subseteq opened'[t]
  <2> DEFINE Q == {p}  m == "NoiseE1"  s == "viewer"
  <2>1. Q \in SUBSET Paths /\ Send(w, s, Q, m) /\ m \in Messages /\ s \in Side /\ w \in Wires
    BY <1>1, <1>2, Constants DEF Got
  <2> HIDE DEF Q, m, s
  <2>2. /\ \A t \in Side : opened[t] \subseteq opened'[t]
        /\ Q \subseteq opened'[s]
        /\ \A q \in Live : wire'[s][q] = IF q \in Q THEN Append(w[s][q], m) ELSE w[s][q]
        /\ \A t \in Side, q \in Live : t # s => wire'[t][q] = w[t][q]
    BY <2>1, SendsAll
  <2>3. \A q \in Live : w["viewer"][q] = wire["viewer"][q]
    BY DEF Got
  <2>4. \A q \in Live : wire'["host"][q] = w["host"][q]
    BY <1>1, <2>2 DEF s
  <2>5. TakenFrom("viewer", p, "ProbeAck")
    BY <1>1, <2>4 DEF Got, TakenFrom
  <2> QED BY <2>2, <2>3, <2>5 DEF Q, m, s
<1>5. /\ wire["host"][p] # <<>> /\ ~ProbeFirst(wire["host"][p])
  BY <1>1, <1>4 DEF TakenFrom, ProbeFirst
<1>6. phase["host"] \in {"probing", "handshake"}
  BY <1>1, <1>5 DEF Parts, PhaseInv, SentInv
<1>7. \A q \in Live : \A m : Contains(wire'["host"][q], m) => Contains(wire["host"][q], m)
  <2> DEFINE x == "ProbeAck"  s == "viewer"
  <2>1. TakenFrom(s, p, x) /\ s \in Side
    BY <1>1, <1>4
  <2> HIDE DEF x, s
  <2>2. \A q \in Live :
          \A m : Contains(wire'[Other(s)][q], m) => Contains(wire[Other(s)][q], m)
    BY <1>1, <2>1, Takes
  <2> QED BY <1>1, <2>2 DEF s
<1>8. /\ Contains(wire'["viewer"][p], "NoiseE1")
      /\ Contains(wire["viewer"][p], "ProbeAck")
           => Before(wire'["viewer"][p], "ProbeAck", "NoiseE1")
  <2>1. wire'["viewer"][p] = Append(wire["viewer"][p], "NoiseE1")
        /\ wire["viewer"][p] \in Seq(Messages)
    BY <1>1, <1>4 DEF Wires
  <2> QED BY <1>1, <2>1, Appended
<1>9. PhaseInv'
  BY <1>1, <1>3, <1>6 DEF PhaseInv
<1>10. SentInv'
  BY <1>1, <1>3, <1>6, <1>7 DEF Parts, SentInv
<1>11. StartedInv'
  <2>1. \A t \in Side : peer'[t] \in Live \cup {None}
    BY <1>1, <1>2 DEF Parts, StartedInv, TypeOK
  <2>2. \A t \in Side : phase'[t] = "probing" => phase[t] = "probing" /\ pending'[t] = pending[t]
    BY <1>1, <1>2, <1>3 DEF TypeOK
  <2>3. \A t \in Side : phase[t] = "idle" => phase'[t] = "idle"
    BY <1>1, <1>3
  <2> QED BY <1>4, <2>1, <2>2, <2>3, StartedStays DEF Parts
<1>12. phase["host"] = "probing" =>
         \E q \in Live : Before(wire'["viewer"][q], "ProbeAck", "NoiseE1")
  <2>1. phase["host"] = "probing" =>
          Contains(wire["viewer"][p], "ProbeAck") \/ ProbeFirst(wire["host"][p])
    BY <1>1 DEF Parts, WaitInv
  <2> QED BY <1>5, <1>8, <2>1
<1>13. WaitInv'
  <2>1. \A t \in Side : ~(phase'[t] = "probing" /\ phase'[Other(t)] \in {"idle", "probing"})
    BY <1>1, <1>3, <1>6
  <2> QED BY <1>3, <1>6, <1>8, <1>12, <2>1 DEF WaitInv
<1> QED BY <1>9, <1>10, <1>11, <1>13 DEF Parts

\* The host answers a NoiseE1 on a path that lives.
LEMMA HostSecures ==
  ASSUME TypeOK, Parts, NEW p \in Live, NEW to \in Live, NEW w, Got("host", p, "NoiseE1", w),
         ~refused', phase["host"] = "handshake",
         phase' = [phase EXCEPT !["host"] = "secured"], Send(w, "host", {to}, "NoiseE2"),
         peer' = [peer EXCEPT !["host"] = to], UNCHANGED pending
  PROVE  Parts'
<1>1. /\ "host" \in Side /\ "viewer" \in Side /\ Other("host") = "viewer"
      /\ Other("viewer") = "host" /\ wire \in Wires /\ "NoiseE2" \in Messages
      /\ \A t \in Side : t = "host" \/ t = "viewer"
  BY Others DEF Side, TypeOK, Wires, Messages
<1>2. phase'["host"] = "secured" /\ phase'["viewer"] = phase["viewer"]
  BY <1>1 DEF TypeOK
<1>3. Contains(wire["viewer"][p], "NoiseE1")
  BY <1>1 DEF Got, Contains
<1>4. phase["viewer"] = "noise"
  BY <1>3 DEF Parts, SentInv, PhaseInv
<1>5. /\ Contains(wire'["host"][to], "NoiseE2")
      /\ \A t \in Side : opened[t] \subseteq opened'[t]
  <2> DEFINE Q == {to}  m == "NoiseE2"  s == "host"
  <2>1. Q \in SUBSET Paths /\ Send(w, s, Q, m) /\ m \in Messages /\ s \in Side /\ w \in Wires
        /\ to \in Q
    BY <1>1, Constants DEF Got
  <2> HIDE DEF Q, m, s
  <2>2. /\ \A t \in Side : opened[t] \subseteq opened'[t]
        /\ Q \subseteq opened'[s]
        /\ \A q \in Live : wire'[s][q] = IF q \in Q THEN Append(w[s][q], m) ELSE w[s][q]
        /\ \A t \in Side, q \in Live : t # s => wire'[t][q] = w[t][q]
    BY <2>1, SendsAll
  <2>3. wire'[s][to] = Append(w[s][to], m) /\ w[s][to] \in Seq(Messages)
    BY <2>1, <2>2 DEF Wires
  <2>4. Contains(wire'[s][to], m)
    BY <2>1, <2>3, Appended
  <2> QED BY <2>2, <2>4 DEF s, m
<1>6. PhaseInv'
  BY <1>1, <1>2, <1>4 DEF PhaseInv
<1>7. SentInv'
  BY <1>1, <1>2, <1>4 DEF SentInv
<1>8. StartedInv'
  <2>1. \A t \in Side : peer'[t] \in Live \cup {None}
    BY <1>1 DEF Parts, StartedInv, TypeOK
  <2>2. \A t \in Side :
          /\ phase[t] = "idle" => phase'[t] = "idle"
          /\ phase'[t] = "probing" => phase[t] = "probing"
    BY <1>1, <1>2
  <2> QED BY <1>5, <2>1, <2>2, StartedStays DEF Parts
<1>9. WaitInv'
  <2>1. \A t \in Side : ~(phase'[t] = "probing" /\ phase'[Other(t)] \in {"idle", "probing"})
    BY <1>1, <1>2, <1>4
  <2> QED BY <1>2, <1>4, <1>5, <2>1 DEF WaitInv
<1> QED BY <1>6, <1>7, <1>8, <1>9 DEF Parts

\* The viewer has its NoiseE2, so the host is done.
LEMMA ViewerSecures ==
  ASSUME TypeOK, Parts, NEW p \in Live, NEW w, Got("viewer", p, "NoiseE2", w),
         phase["viewer"] = "noise", wire' = w,
         phase' = [phase EXCEPT !["viewer"] = "secured"], UNCHANGED <<pending, peer, opened>>
  PROVE  Parts'
<1>1. /\ "host" \in Side /\ "viewer" \in Side /\ Other("host") = "viewer"
      /\ Other("viewer") = "host" /\ \A t \in Side : t = "host" \/ t = "viewer"
  BY Others DEF Side
<1>2. phase'["viewer"] = "secured" /\ phase'["host"] = phase["host"]
  BY <1>1 DEF TypeOK
<1>3. Contains(wire["host"][p], "NoiseE2")
  BY <1>1 DEF Got, Contains
<1>4. phase["host"] = "secured"
  BY <1>3 DEF Parts, SentInv
<1>5. PhaseInv' /\ SentInv'
  BY <1>1, <1>2, <1>4 DEF PhaseInv, SentInv
<1>6. StartedInv'
  BY <1>1, <1>2, <1>4 DEF Parts, StartedInv
<1>7. WaitInv'
  <2>1. \A t \in Side : ~(phase'[t] = "probing" /\ phase'[Other(t)] \in {"idle", "probing"})
    BY <1>1, <1>2, <1>4
  <2> QED BY <1>2, <1>4, <2>1 DEF WaitInv
<1> QED BY <1>5, <1>6, <1>7 DEF Parts

\* A step into a clean state starts in one: faults are never taken back.
LEMMA CleanBefore ==
  ASSUME TypeOK, [Next]_vars, Clean'
  PROVE  Clean /\ faults' = 0 /\ ~refused'
<1>1. faults \in Nat /\ refused \in BOOLEAN /\ faults' = 0 /\ ~refused'
  BY Constants DEF TypeOK, Clean
<1>2. ASSUME NEW w, NEW s, NEW Q, NEW m, Send(w, s, Q, m) PROVE ~refused
  BY <1>1, <1>2 DEF Send
<1>3. CASE UNCHANGED vars
  BY <1>1, <1>3 DEF vars, Clean
<1>4. ASSUME NEW s \in Side, Start(s) \/ Retry(s) PROVE Clean
  <2>1. faults' = faults /\ ~refused
    BY <1>2, <1>4 DEF Start, Retry
  <2> QED BY <1>1, <2>1 DEF Clean
<1>5. ASSUME NEW s \in Side, Receive(s) PROVE Clean
  <2>1. PICK p \in Live : \E i \in 1 .. Len(wire[Other(s)][p]) :
          LET m == wire[Other(s)][p][i]
              w == [wire EXCEPT ![Other(s)][p] = RemoveAt(@, i)]
          IN /\ faults' = IF i = 1 THEN faults ELSE faults + 1
             /\ \/ HandleProbing(s, p, m, w)
                \/ HandleHandshake(s, p, m, w)
                \/ HandleNoise(s, p, m, w)
    BY <1>5 DEF Receive
  <2>2. PICK i \in 1 .. Len(wire[Other(s)][p]) :
          LET m == wire[Other(s)][p][i]
              w == [wire EXCEPT ![Other(s)][p] = RemoveAt(@, i)]
          IN /\ faults' = IF i = 1 THEN faults ELSE faults + 1
             /\ \/ HandleProbing(s, p, m, w)
                \/ HandleHandshake(s, p, m, w)
                \/ HandleNoise(s, p, m, w)
    BY <2>1
  <2> DEFINE m == wire[Other(s)][p][i]
             w == [wire EXCEPT ![Other(s)][p] = RemoveAt(@, i)]
  <2>3. HandleProbing(s, p, m, w) \/ HandleHandshake(s, p, m, w) \/ HandleNoise(s, p, m, w)
    BY <2>2
  <2>4. faults = 0
    BY <1>1, <2>2
  <2> HIDE DEF m, w
  <2>5. ~refused
    BY <1>1, <1>2, <2>3 DEF HandleProbing, HandleHandshake, HandleNoise, Commit
  <2> QED BY <2>4, <2>5 DEF Clean
<1>6. ASSUME NEW s \in Side, Expires(s) PROVE Clean
  BY <1>1, <1>6 DEF Expires, Fail, Clean
<1>7. ASSUME NEW s \in Side, SocketError(s) PROVE Clean
  BY <1>1, <1>7 DEF SocketError, Fail, Clean
<1>8. CASE Lose
  BY <1>1, <1>8 DEF Lose, Clean
<1> QED BY <1>1, <1>3, <1>4, <1>5, <1>6, <1>7, <1>8
        DEF Next, Proceed, ProbeTimeout, NoiseTimeout, Side

\* A datagram of a clean network.
LEMMA ReceiveKeeps ==
  ASSUME TypeOK, Parts, faults = 0, faults' = 0, ~refused', NEW s \in Side, Receive(s)
  PROVE  Parts'
<1>1. PICK p \in Live : \E x, w :
        /\ Got(s, p, x, w)
        /\ HandleProbing(s, p, x, w) \/ HandleHandshake(s, p, x, w) \/ HandleNoise(s, p, x, w)
  BY Receipt
<1>2. PICK x, w :
        /\ Got(s, p, x, w)
        /\ HandleProbing(s, p, x, w) \/ HandleHandshake(s, p, x, w) \/ HandleNoise(s, p, x, w)
  BY <1>1
<1>3. /\ Other(s) \in Side /\ Other(s) # s /\ peer[s] \in Live \cup {None}
      /\ peer \in [Side -> Paths \cup {None}] /\ s \in {"host", "viewer"}
      /\ phase \in [Side -> Phases] /\ None \notin Live
  BY Others, Constants, ProbeAssumption DEF TypeOK, Parts, StartedInv, Side
<1>4. CASE HandleProbing(s, p, x, w)
  <2>1. phase[s] = "probing" /\ p \in pending[s]
    BY <1>4 DEF HandleProbing, Parts, StartedInv
  <2>2. CASE x = "Probe"
    <3>1. Send(w, s, {p}, "ProbeAck") /\ UNCHANGED <<phase, pending, peer>>
      BY <1>4, <2>2 DEF HandleProbing
    <3> QED BY <1>2, <1>3, <2>1, <2>2, <3>1, StaysKeeps
  <2>3. CASE x = "ProbeAck"
    <3>1. Commit(s, p, w)
      BY <1>4, <2>1, <2>3 DEF HandleProbing
    <3>2. CASE s = "host"
      BY <1>2, <2>1, <2>3, <3>1, <3>2, HostCommits
    <3>3. CASE s = "viewer"
      BY <1>2, <2>1, <2>3, <3>1, <3>3, ViewerCommits
    <3> QED BY <1>3, <3>2, <3>3
  <2>4. CASE x \notin {"Probe", "ProbeAck"}
    <3>1. wire' = w /\ UNCHANGED <<phase, pending, peer, opened>>
      BY <1>4, <2>4 DEF HandleProbing
    <3> QED BY <1>2, <1>3, <2>1, <2>4, <3>1, StaysKeeps
  <2> QED BY <2>2, <2>3, <2>4
<1>5. CASE HandleHandshake(s, p, x, w)
  <2> DEFINE to == IF peer[s] = None THEN p ELSE peer[s]
  <2>1. /\ phase[s] = "handshake" /\ peer' = [peer EXCEPT ![s] = to] /\ UNCHANGED pending
        /\ IF x = "NoiseE1"
           THEN phase' = [phase EXCEPT ![s] = "secured"] /\ Send(w, s, {to}, "NoiseE2")
           ELSE wire' = w /\ UNCHANGED <<phase, opened, refused>>
    BY <1>5 DEF HandleHandshake
  <2>2. to \in Live /\ s = "host"
    BY <1>3, <2>1 DEF Parts, PhaseInv
  <2> HIDE DEF to
  <2>3. CASE x = "NoiseE1"
    BY <1>2, <2>1, <2>2, <2>3, HostSecures
  <2>4. CASE x # "NoiseE1"
    <3>1. peer'[s] \in Live \cup {None} /\ peer'[Other(s)] = peer[Other(s)]
      BY <1>3, <2>1, <2>2
    <3> QED BY <1>2, <2>1, <2>4, <3>1, StaysKeeps
  <2> QED BY <2>3, <2>4
<1>6. CASE HandleNoise(s, p, x, w)
  <2>1. phase[s] = "noise" /\ wire' = w /\ UNCHANGED <<pending, peer, opened>>
        /\ phase' = IF x = "NoiseE2" THEN [phase EXCEPT ![s] = "secured"] ELSE phase
    BY <1>6 DEF HandleNoise
  <2>2. s = "viewer"
    BY <1>3, <2>1 DEF Parts, PhaseInv
  <2>3. CASE x = "NoiseE2"
    BY <1>2, <2>1, <2>2, <2>3, ViewerSecures
  <2>4. CASE x # "NoiseE2"
    BY <1>2, <1>3, <2>1, <2>4, StaysKeeps
  <2> QED BY <2>3, <2>4
<1> QED BY <1>2, <1>4, <1>5, <1>6

\* No timer fires first on a clean network: while a side waits and the other has
\* started, something is on its way to one of them.
LEMMA NoTimeout ==
  ASSUME TypeOK, Parts, faults = 0, faults' = 0, NEW s \in Side, Listens(s), Expires(s)
  PROVE  FALSE
<1>1. Quiet /\ phase[Other(s)] # "idle"
  BY DEF Expires
<1>2. \A t \in Side : phase[t] # "idle"
  BY <1>1, Others DEF Listens
<1>3. Connected
  BY <1>1, <1>2, SomethingLeft
<1> QED BY <1>3 DEF Connected, Listens

LEMMA CleanInit == Init => CleanInv
<1> SUFFICES ASSUME Init PROVE Parts
  BY DEF CleanInv
<1>1. /\ "host" \in Side /\ "viewer" \in Side
      /\ \A t \in Side : phase[t] = "idle" /\ peer[t] = None /\ Other(t) \in Side
      /\ \A t \in Side, p \in Live : wire[t][p] = <<>>
  BY Others DEF Init, Side
<1>2. PhaseInv
  BY <1>1 DEF PhaseInv
<1>3. ASSUME NEW m PROVE ~Contains(<<>>, m)
  BY DEF Contains
<1>4. SentInv
  BY <1>1, <1>3 DEF SentInv
<1>5. StartedInv
  BY <1>1 DEF StartedInv
<1>6. WaitInv
  BY <1>1 DEF WaitInv
<1> QED BY <1>2, <1>4, <1>5, <1>6 DEF Parts

LEMMA CleanStep == ASSUME TypeOK, CleanInv, [Next]_vars PROVE CleanInv'
<1> SUFFICES ASSUME Clean' PROVE Parts'
  BY DEF CleanInv
<1>1. faults = 0 /\ faults' = 0 /\ ~refused' /\ Parts
  BY CleanBefore DEF Clean, CleanInv
<1>2. CASE UNCHANGED vars
  <2>1. wire' = wire /\ phase' = phase /\ peer' = peer /\ pending' = pending /\ opened' = opened
    BY <1>2 DEF vars
  <2> QED BY <1>1, <2>1 DEF Parts, PhaseInv, SentInv, StartedInv, WaitInv
<1>3. ASSUME NEW s \in Side, Start(s) PROVE Parts'
  BY <1>1, <1>3, StartKeeps
<1>4. ASSUME NEW s \in Side, Retry(s) PROVE Parts'
  BY <1>1, <1>4, RetryKeeps
<1>5. ASSUME NEW s \in Side, Receive(s) PROVE Parts'
  BY <1>1, <1>5, ReceiveKeeps
<1>6. ASSUME NEW s \in Side, ProbeTimeout(s) PROVE FALSE
  BY <1>1, <1>6, NoTimeout DEF ProbeTimeout, Listens
<1>7. CASE NoiseTimeout
  <2>1. "viewer" \in Side /\ Listens("viewer") /\ Expires("viewer")
    BY <1>7 DEF NoiseTimeout, Listens, Side
  <2> QED BY <1>1, <2>1, NoTimeout
<1>8. ASSUME NEW s \in Side, SocketError(s) PROVE FALSE
  BY <1>1, <1>8 DEF SocketError
<1>9. CASE Lose
  BY <1>1, <1>9 DEF Lose
<1> QED BY <1>2, <1>3, <1>4, <1>5, <1>6, <1>7, <1>8, <1>9 DEF Next, Proceed

\* The two sides get through on a clean network, whoever starts first, in whatever
\* order the paths deliver and whichever path each commits to: nobody gives up, and
\* nobody is left waiting for what was never sent (transport/src/udp.rs
\* probe_and_commit_peer and the two handshakes, host/src/lib.rs reset_session).
THEOREM CleanNetworkConnects == Spec => []NothingLeftOnlyWhenConnected
<1>1. Init => TypeOK /\ CleanInv
  BY TypeInit, CleanInit
<1>2. TypeOK /\ CleanInv /\ [Next]_vars => TypeOK' /\ CleanInv'
  BY TypeStep, CleanStep
<1>3. TypeOK /\ CleanInv => NothingLeftOnlyWhenConnected
  <2> SUFFICES ASSUME TypeOK, Parts, Clean PROVE NothingLeftOnlyWhenConnected
    BY DEF CleanInv, NothingLeftOnlyWhenConnected
  <2>1. \A s \in Side : phase[s] # "failed"
    BY DEF Parts, PhaseInv, Side
  <2> QED BY <2>1, SomethingLeft DEF NothingLeftOnlyWhenConnected
<1> QED BY <1>1, <1>2, <1>3, PTL DEF Spec
=============================================================================
