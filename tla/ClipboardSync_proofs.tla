------------------------ MODULE ClipboardSync_proofs ------------------------
(***************************************************************************)
(* ClipboardSync for all texts, numbers of copies and failures: how often  *)
(* a side can send, how much can go round between the two, and that no     *)
(* copy is overlooked.  What a side may still send without another copy or *)
(* another text from its peer is a chain: the last text sent, the one      *)
(* being compared, and the one on the clipboard if it is still to be read; *)
(* every change from one to the next may be a send.                        *)
(***************************************************************************)
EXTENDS ClipboardSync, FiniteSetTheorems, TLAPS

\* The changes in the chain l, c, k, without c unless hasC, without k unless hasK.
Changes(l, hasC, c, hasK, k) ==
  (IF hasC /\ c # l THEN 1 ELSE 0)
    + (IF hasK /\ k # (IF hasC THEN c ELSE l) THEN 1 ELSE 0)

Unread(s) == (watcher[s] = "reading" \/ seq[s] # last_seq[s]) /\ clip[s] \in Readable

\* The sends that are left if the peer's last text is forgotten, and if it is not.
Possible(s) ==
  Changes(last_sent[s], watcher[s] = "comparing", current[s], Unread(s), clip[s])
Likely(s) ==
  Changes(last_sent[s], watcher[s] = "comparing" /\ ~FromPeer(s), current[s],
          Unread(s) /\ clip[s] # last_remote[s], clip[s])

\* Every copy and every text written allows one send; of the texts received the
\* last one does not, as long as it is remembered.
Budget(s) ==
  /\ sends[s] + Possible(s) <= copies[s] + received[s]
  /\ writing[s] # None => sends[s] + Possible(s) + 1 <= copies[s] + received[s]
  /\ received[s] >= 1 => sends[s] + Likely(s) + 1 <= copies[s] + received[s]

SideInv(s) ==
  /\ writing[s] # None => writing[s] = last_remote[s]
  /\ watcher[s] = "comparing" => current[s] \in Readable
  /\ os[s] = "x11" /\ owner[s] # "other" => seq[s] = 0

IInv == TypeOK /\ \A s \in Sides : SideInv(s) /\ Budget(s)

-----------------------------------------------------------------------------
(* Arithmetic of the chain.                                                *)

\* There are at most two changes.
LEMMA ChangesType ==
  ASSUME NEW l, NEW c, NEW k, NEW hasC \in BOOLEAN, NEW hasK \in BOOLEAN
  PROVE  Changes(l, hasC, c, hasK, k) \in 0..2
BY DEF Changes

\* Another end of the chain makes at most one change more.
LEMMA OtherEnd ==
  ASSUME NEW l, NEW c, NEW k, NEW j, NEW hasC \in BOOLEAN,
         NEW hasK \in BOOLEAN, NEW hasJ \in BOOLEAN
  PROVE  Changes(l, hasC, c, hasJ, j) <= Changes(l, hasC, c, hasK, k) + 1
BY DEF Changes

\* A chain with members left out has no more changes.
LEMMA LeftOut ==
  ASSUME NEW l, NEW c, NEW k, NEW hasC \in BOOLEAN, NEW hasK \in BOOLEAN,
         NEW hadC \in BOOLEAN, NEW hadK \in BOOLEAN,
         hasC => hadC, hasK => hadK
  PROVE  Changes(l, hasC, c, hasK, k) <= Changes(l, hadC, c, hadK, k)
BY DEF Changes

\* The end of the chain moves on to be compared.
LEMMA MovedOn ==
  ASSUME NEW l, NEW c, NEW k, NEW hasK \in BOOLEAN
  PROVE  Changes(l, TRUE, k, hasK, k) <= Changes(l, FALSE, c, TRUE, k)
BY DEF Changes

\* A send uses up a change.
LEMMA UsedUp ==
  ASSUME NEW l, NEW c, NEW k, NEW hasK \in BOOLEAN, c # l
  PROVE  Changes(c, FALSE, c, hasK, k) + 1 <= Changes(l, TRUE, c, hasK, k)
BY DEF Changes

-----------------------------------------------------------------------------
(* Types.                                                                  *)

\* Neither a copy nor a text written makes the number smaller, and over X11 it
\* does not get beyond 1.
LEMMA TypeStep ==
  ASSUME IInv, [Next]_vars
  PROVE  TypeOK'
<1>1. /\ MaxFailures \in Nat /\ Huge \subseteq Texts /\ None \notin Texts
  BY TextsAssumption
<1> USE <1>1 DEF OrNone
<1>2. ASSUME NEW s \in Sides, NEW t \in Texts, Copy(s, t) PROVE TypeOK'
  <2>1. SideInv(s)
    BY DEF IInv
  <2>2. /\ seq' \in [Sides -> Nat] /\ clip' \in [Sides -> OrNone]
        /\ owner' \in [Sides -> {"none", "us", "other"}] /\ copies' \in [Sides -> Nat]
    BY <1>2 DEF IInv, TypeOK, Copy
  <2>3. ASSUME NEW q \in Sides
        PROVE  last_seq'[q] =< seq'[q]
    <3>1. last_seq'[q] = last_seq[q] /\ os'[q] = os[q]
      BY <1>2 DEF Copy, watch
    <3>2. CASE q = s
      <4>1. /\ seq[s] \in Nat /\ last_seq[s] \in Nat /\ last_seq[s] =< seq[s]
            /\ os[s] \in {"windows", "x11"}
        BY DEF IInv, TypeOK
      <4>2. seq'[s] = IF Counted(s) THEN seq[s] + 1 ELSE seq[s]
        BY <1>2 DEF IInv, TypeOK, Copy
      <4> QED BY <2>1, <3>1, <3>2, <4>1, <4>2 DEF Counted, SideInv
    <3>3. CASE q # s
      <4>1. seq'[q] = seq[q]
        BY <1>2, <3>3 DEF IInv, TypeOK, Copy
      <4> QED BY <3>1, <4>1 DEF IInv, TypeOK
    <3> QED BY <3>2, <3>3
  <2> QED BY <1>2, <2>2, <2>3 DEF IInv, TypeOK, Copy, watch
<1>3. ASSUME NEW s \in Sides, Poll(s) PROVE TypeOK'
  BY <1>3 DEF IInv, TypeOK, Poll, clipboard, counts
<1>4. ASSUME NEW s \in Sides, Read(s) PROVE TypeOK'
  BY <1>4 DEF IInv, TypeOK, Read, Fails, clipboard, counts
<1>5. ASSUME NEW s \in Sides, Skip(s) PROVE TypeOK'
  BY <1>5 DEF IInv, TypeOK, Skip, clipboard, counts
<1>6. ASSUME NEW s \in Sides, Send(s) PROVE TypeOK'
  <2>1. current[s] \in Texts
    BY <1>6 DEF IInv, SideInv, Readable, Send
  <2>2. current[s] \in Texts /\ sends[s] \in Nat
    BY <2>1 DEF IInv, TypeOK
  <2>3. net' \in [Sides -> SUBSET (Texts \X Nat)]
    <3>1. CASE net' = net
      BY <3>1 DEF IInv, TypeOK
    <3>2. CASE net' = [net EXCEPT ![Peer(s)] = @ \cup {<<current[s], sends[s]>>}]
      <4>1. <<current[s], sends[s]>> \in Texts \X Nat
        BY <2>2
      <4>2. net \in [Sides -> SUBSET (Texts \X Nat)]
        BY DEF IInv, TypeOK
      <4> QED BY <3>2, <4>1, <4>2
    <3> QED BY <1>6, <3>1, <3>2 DEF Send
  <2>4. /\ last_sent' \in [Sides -> OrNone] /\ sends' \in [Sides -> Nat]
        /\ sent' \in [Sides -> SUBSET Texts] /\ failures' \in 0..MaxFailures
    BY <1>6, <2>2 DEF IInv, TypeOK, Send, Fails
  <2> QED BY <1>6, <2>3, <2>4 DEF IInv, TypeOK, Send, clipboard
<1>7. ASSUME NEW s \in Sides, NEW d \in net[s], Lose(s, d) PROVE TypeOK'
  BY <1>7 DEF IInv, TypeOK, Lose, clipboard, watch, counts
<1>8. ASSUME NEW s \in Sides, NEW d \in net[s], Recv(s, d) PROVE TypeOK'
  <2>1. d[1] \in Texts
    BY DEF IInv, TypeOK
  <2>2. /\ last_remote' \in [Sides -> OrNone] /\ writing' \in [Sides -> OrNone]
        /\ received' \in [Sides -> Nat] /\ seen' \in [Sides -> SUBSET Texts]
    BY <1>8, <2>1 DEF IInv, TypeOK, Recv
  <2>3. net' \in [Sides -> SUBSET (Texts \X Nat)]
    BY <1>8 DEF IInv, TypeOK, Recv
  <2> QED BY <1>8, <2>2, <2>3 DEF IInv, TypeOK, Recv, clipboard, watch
<1>9. ASSUME NEW s \in Sides, Write(s) PROVE TypeOK'
  <2>1. writing[s] \in OrNone
    BY DEF IInv, TypeOK
  <2>2. /\ clip' \in [Sides -> OrNone] /\ owner' \in [Sides -> {"none", "us", "other"}]
        /\ seq' \in [Sides -> Nat] /\ writing' \in [Sides -> OrNone]
        /\ failures' \in 0..MaxFailures
    BY <1>9, <2>1 DEF IInv, TypeOK, Write, Written, Fails, clipboard
  <2>3. seq' = seq \/ (os[s] = "windows" /\ seq' = [seq EXCEPT ![s] = @ + 1])
    BY <1>9 DEF Write, Written, clipboard
  <2>4. ASSUME NEW q \in Sides
        PROVE  last_seq'[q] =< seq'[q]
    <3>1. last_seq'[q] = last_seq[q] /\ os'[q] = os[q]
      BY <1>9 DEF Write, watch
    <3>2. seq'[q] = seq[q] \/ (os[q] = "windows" /\ seq'[q] = seq[q] + 1)
      BY <2>3 DEF IInv, TypeOK
    <3> QED BY <3>1, <3>2 DEF IInv, TypeOK
  <2> QED BY <1>9, <2>2, <2>4 DEF IInv, TypeOK, Write, watch, counts
<1>10. CASE UNCHANGED vars
  BY <1>10 DEF IInv, TypeOK, vars, clipboard, watch, counts
<1> QED BY <1>2, <1>3, <1>4, <1>5, <1>6, <1>7, <1>8, <1>9, <1>10 DEF Next, Tasks, Watcher, RecvLoop

-----------------------------------------------------------------------------
(* The budget.                                                             *)

Same(q) ==
  /\ os'[q] = os[q] /\ clip'[q] = clip[q] /\ seq'[q] = seq[q] /\ owner'[q] = owner[q]
  /\ watcher'[q] = watcher[q] /\ last_seq'[q] = last_seq[q]
  /\ last_sent'[q] = last_sent[q] /\ current'[q] = current[q]
  /\ last_remote'[q] = last_remote[q] /\ writing'[q] = writing[q]
  /\ copies'[q] = copies[q] /\ received'[q] = received[q] /\ sends'[q] = sends[q]

\* Nothing changes for a side that does not step.
LEMMA Elsewhere ==
  ASSUME IInv, NEW q \in Sides, Same(q)
  PROVE  SideInv(q)' /\ Budget(q)'
BY DEF IInv, Same, SideInv, Budget, Possible, Likely, Unread, FromPeer, Readable

\* The numbers of a side, and what is possible of it.
LEMMA Numbers ==
  ASSUME IInv, NEW q \in Sides
  PROVE  /\ copies[q] \in Nat /\ received[q] \in Nat /\ sends[q] \in Nat
         /\ seq[q] \in Nat /\ last_seq[q] \in Nat
         /\ Possible(q) \in 0..2 /\ Likely(q) \in 0..2 /\ Likely(q) <= Possible(q)
         /\ Unread(q) \in BOOLEAN /\ FromPeer(q) \in BOOLEAN
<1>1. /\ (watcher[q] = "comparing") \in BOOLEAN /\ Unread(q) \in BOOLEAN
      /\ (watcher[q] = "comparing" /\ ~FromPeer(q)) \in BOOLEAN
      /\ (Unread(q) /\ clip[q] # last_remote[q]) \in BOOLEAN /\ FromPeer(q) \in BOOLEAN
  BY DEF Unread, FromPeer
<1>2. Possible(q) \in 0..2 /\ Likely(q) \in 0..2
  BY <1>1, ChangesType DEF Possible, Likely
<1>3. Likely(q) <= Possible(q)
  BY <1>1, LeftOut DEF Possible, Likely
<1> QED BY <1>1, <1>2, <1>3 DEF IInv, TypeOK

\* If a side can send no more than before, or one text more for one more copied,
\* it keeps its budget.
LEMMA KeepsBudget ==
  ASSUME IInv, NEW q \in Sides, received'[q] = received[q], writing'[q] = writing[q],
         Possible(q)' \in Nat, Likely(q)' \in Nat,
         \/ copies'[q] = copies[q] /\ sends'[q] = sends[q]
              /\ Possible(q)' <= Possible(q) /\ Likely(q)' <= Likely(q)
         \/ copies'[q] = copies[q] + 1 /\ sends'[q] = sends[q]
              /\ Possible(q)' <= Possible(q) + 1 /\ Likely(q)' <= Likely(q) + 1
         \/ copies'[q] = copies[q] /\ sends'[q] = sends[q] + 1
              /\ Possible(q)' + 1 <= Possible(q) /\ Likely(q)' + 1 <= Likely(q)
  PROVE  Budget(q)'
<1>1. Budget(q)
  BY DEF IInv
<1> QED BY <1>1, Numbers DEF Budget

\* A copy replaces the end of the chain.
LEMMA CopyKeeps ==
  ASSUME IInv, NEW s \in Sides, NEW t \in Texts, Copy(s, t), NEW q \in Sides
  PROVE  SideInv(q)' /\ Budget(q)'
<1>1. CASE q # s
  <2>1. Same(q)
    BY <1>1 DEF IInv, TypeOK, Copy, Same, watch
  <2> QED BY <2>1, Elsewhere
<1>2. CASE q = s
  <2>1. /\ copies'[q] = copies[q] + 1 /\ sends'[q] = sends[q] /\ received'[q] = received[q]
        /\ writing'[q] = writing[q] /\ last_remote'[q] = last_remote[q]
        /\ watcher'[q] = watcher[q] /\ current'[q] = current[q] /\ last_sent'[q] = last_sent[q]
        /\ seq'[q] = (IF Counted(q) THEN seq[q] + 1 ELSE seq[q]) /\ os'[q] = os[q]
        /\ owner'[q] = IF owner[q] = "us" THEN "other" ELSE owner[q]
    BY <1>2 DEF IInv, TypeOK, Copy, watch
  <2>2. FromPeer(q)' = FromPeer(q)
    BY <2>1 DEF FromPeer
  <2>3. /\ Unread(q)' \in BOOLEAN /\ (Unread(q)' /\ clip'[q] # last_remote[q]) \in BOOLEAN
        /\ Unread(q) \in BOOLEAN /\ (Unread(q) /\ clip[q] # last_remote[q]) \in BOOLEAN
        /\ (watcher[q] = "comparing" /\ ~FromPeer(q)) \in BOOLEAN
    BY DEF Unread
  <2>4. Possible(q)' <= Possible(q) + 1 /\ Possible(q)' \in 0..2
    BY <2>1, <2>3, OtherEnd, ChangesType DEF Possible
  <2>5. Likely(q)' <= Likely(q) + 1 /\ Likely(q)' \in 0..2
    BY <2>1, <2>2, <2>3, OtherEnd, ChangesType DEF Likely
  <2>6. Budget(q)'
    BY <2>1, <2>4, <2>5, KeepsBudget
  <2>7. SideInv(q)'
    BY <2>1 DEF IInv, SideInv, Counted
  <2> QED BY <2>6, <2>7
<1> QED BY <1>1, <1>2

\* Polling makes the end of the chain neither more nor less unread.
LEMMA PollKeeps ==
  ASSUME IInv, NEW s \in Sides, Poll(s), NEW q \in Sides
  PROVE  SideInv(q)' /\ Budget(q)'
<1>1. CASE q # s
  <2>1. Same(q)
    BY <1>1 DEF IInv, TypeOK, Poll, Same, clipboard, counts
  <2> QED BY <2>1, Elsewhere
<1>2. CASE q = s
  <2>1. /\ copies'[q] = copies[q] /\ sends'[q] = sends[q] /\ received'[q] = received[q]
        /\ writing'[q] = writing[q] /\ last_remote'[q] = last_remote[q]
        /\ watcher[q] = "asleep" /\ seq[q] # last_seq[q] /\ watcher'[q] = "reading"
        /\ current'[q] = current[q] /\ last_sent'[q] = last_sent[q] /\ clip'[q] = clip[q]
        /\ os'[q] = os[q] /\ owner'[q] = owner[q] /\ seq'[q] = seq[q]
    BY <1>2 DEF IInv, TypeOK, Poll, clipboard, counts
  <2>2. Possible(q)' = Possible(q) /\ Likely(q)' = Likely(q)
    BY <2>1 DEF Possible, Likely, Unread, FromPeer, Readable
  <2>3. Budget(q)'
    BY <2>1, <2>2, Numbers, KeepsBudget
  <2> QED BY <2>1, <2>3 DEF IInv, SideInv
<1> QED BY <1>1, <1>2

\* Reading moves the end of the chain on, or drops it.
LEMMA ReadKeeps ==
  ASSUME IInv, NEW s \in Sides, Read(s), NEW q \in Sides
  PROVE  SideInv(q)' /\ Budget(q)'
<1>1. CASE q # s
  <2>1. Same(q)
    BY <1>1 DEF IInv, TypeOK, Read, Same, clipboard, counts
  <2> QED BY <2>1, Elsewhere
<1>2. CASE q = s
  <2>1. /\ copies'[q] = copies[q] /\ sends'[q] = sends[q] /\ received'[q] = received[q]
        /\ writing'[q] = writing[q] /\ last_remote'[q] = last_remote[q]
        /\ watcher[q] = "reading" /\ seq'[q] = seq[q] /\ last_seq'[q] = last_seq[q]
        /\ last_sent'[q] = last_sent[q] /\ clip'[q] = clip[q]
        /\ os'[q] = os[q] /\ owner'[q] = owner[q]
    BY <1>2 DEF IInv, TypeOK, Read, clipboard, counts
  <2>2. \/ watcher'[q] = "asleep"
        \/ watcher'[q] = "comparing" /\ current'[q] = clip[q] /\ clip[q] \in Readable
    BY <1>2 DEF IInv, TypeOK, Read, Readable, OrNone
  <2>3. (Unread(q)' => Unread(q)) /\ Unread(q)' \in BOOLEAN /\ Unread(q) \in BOOLEAN
    BY <2>1 DEF Unread
  <2>4. CASE watcher'[q] = "asleep"
    <3>1. /\ Possible(q) = Changes(last_sent[q], FALSE, current[q], Unread(q), clip[q])
          /\ Possible(q)' = Changes(last_sent[q], FALSE, current'[q], Unread(q)', clip[q])
          /\ Likely(q) = Changes(last_sent[q], FALSE, current[q],
                                 Unread(q) /\ clip[q] # last_remote[q], clip[q])
          /\ Likely(q)' = Changes(last_sent[q], FALSE, current'[q],
                                  Unread(q)' /\ clip[q] # last_remote[q], clip[q])
      BY <2>1, <2>4 DEF Possible, Likely
    <3>2. Possible(q)' <= Possible(q) /\ Likely(q)' <= Likely(q) /\ Possible(q)' \in Nat /\ Likely(q)' \in Nat
      BY <2>3, <3>1 DEF Changes
    <3>3. Budget(q)'
      BY <2>1, <3>2, KeepsBudget
    <3> QED BY <2>1, <2>4, <3>3 DEF IInv, SideInv
  <2>5. CASE watcher'[q] = "comparing" /\ current'[q] = clip[q] /\ clip[q] \in Readable
    <3>1. Unread(q)
      BY <2>1, <2>5 DEF Unread
    <3>2. /\ Possible(q) = Changes(last_sent[q], FALSE, current[q], TRUE, clip[q])
          /\ Possible(q)' = Changes(last_sent[q], TRUE, clip[q], Unread(q)', clip[q])
      BY <2>1, <2>5, <3>1 DEF Possible
    <3>3. Possible(q)' <= Possible(q)
      BY <2>3, <3>2, MovedOn
    <3>4. Likely(q) = Changes(last_sent[q], FALSE, current[q], clip[q] # last_remote[q], clip[q])
      BY <2>1, <3>1 DEF Likely
    <3>5. Likely(q)' = Changes(last_sent[q], clip[q] # last_remote[q], clip[q],
                               Unread(q)' /\ clip[q] # last_remote[q], clip[q])
      BY <2>1, <2>5 DEF Likely, FromPeer
    <3>6. Likely(q)' <= Likely(q) /\ Likely(q)' \in Nat /\ Possible(q)' \in Nat
      BY <2>3, <3>2, <3>4, <3>5 DEF Changes
    <3>7. Budget(q)'
      BY <2>1, <3>3, <3>6, KeepsBudget
    <3> QED BY <2>1, <2>5, <3>7 DEF IInv, SideInv
  <2> QED BY <2>2, <2>4, <2>5
<1> QED BY <1>1, <1>2

\* Skipping leaves a member of the chain out.
LEMMA SkipKeeps ==
  ASSUME IInv, NEW s \in Sides, Skip(s), NEW q \in Sides
  PROVE  SideInv(q)' /\ Budget(q)'
<1>1. CASE q # s
  <2>1. Same(q)
    BY <1>1 DEF IInv, TypeOK, Skip, Same, clipboard, counts
  <2> QED BY <2>1, Elsewhere
<1>2. CASE q = s
  <2>1. /\ copies'[q] = copies[q] /\ sends'[q] = sends[q] /\ received'[q] = received[q]
        /\ writing'[q] = writing[q] /\ last_remote'[q] = last_remote[q]
        /\ watcher[q] = "comparing" /\ watcher'[q] = "asleep"
        /\ seq'[q] = seq[q] /\ last_seq'[q] = last_seq[q] /\ current'[q] = current[q]
        /\ last_sent'[q] = last_sent[q] /\ clip'[q] = clip[q]
        /\ os'[q] = os[q] /\ owner'[q] = owner[q]
    BY <1>2 DEF IInv, TypeOK, Skip, clipboard, counts
  <2>2. Unread(q)' = Unread(q) /\ Unread(q) \in BOOLEAN
    BY <2>1 DEF Unread
  <2>3. /\ Possible(q) = Changes(last_sent[q], TRUE, current[q], Unread(q), clip[q])
        /\ Possible(q)' = Changes(last_sent[q], FALSE, current[q], Unread(q), clip[q])
        /\ Likely(q) = Changes(last_sent[q], ~FromPeer(q), current[q],
                               Unread(q) /\ clip[q] # last_remote[q], clip[q])
        /\ Likely(q)' = Changes(last_sent[q], FALSE, current[q],
                                Unread(q) /\ clip[q] # last_remote[q], clip[q])
    BY <2>1, <2>2 DEF Possible, Likely
  <2>4. /\ Possible(q)' <= Possible(q) /\ Likely(q)' <= Likely(q)
        /\ Possible(q)' \in Nat /\ Likely(q)' \in Nat
    BY <2>2, <2>3 DEF Changes, FromPeer
  <2>5. Budget(q)'
    BY <2>1, <2>4, KeepsBudget
  <2> QED BY <2>1, <2>5 DEF IInv, SideInv
<1> QED BY <1>1, <1>2

\* A send uses a change up; one that fails leaves a member of the chain out.
LEMMA SendKeeps ==
  ASSUME IInv, NEW s \in Sides, Send(s), NEW q \in Sides
  PROVE  SideInv(q)' /\ Budget(q)'
<1>1. CASE q # s
  <2>1. Same(q)
    BY <1>1 DEF IInv, TypeOK, Send, Same, clipboard
  <2> QED BY <2>1, Elsewhere
<1>2. CASE q = s
  <2>1. /\ copies'[q] = copies[q] /\ received'[q] = received[q]
        /\ writing'[q] = writing[q] /\ last_remote'[q] = last_remote[q]
        /\ watcher[q] = "comparing" /\ watcher'[q] = "asleep"
        /\ seq'[q] = seq[q] /\ last_seq'[q] = last_seq[q] /\ current'[q] = current[q]
        /\ clip'[q] = clip[q] /\ os'[q] = os[q] /\ owner'[q] = owner[q]
        /\ current[q] # last_sent[q] /\ ~FromPeer(q)
    BY <1>2 DEF IInv, TypeOK, Send, clipboard
  <2>2. \/ sends'[q] = sends[q] + 1 /\ last_sent'[q] = current[q]
        \/ sends'[q] = sends[q] /\ last_sent'[q] = last_sent[q]
    BY <1>2 DEF IInv, TypeOK, Send
  <2>3. Unread(q)' = Unread(q) /\ Unread(q) \in BOOLEAN
    BY <2>1 DEF Unread
  <2>4. /\ Possible(q) = Changes(last_sent[q], TRUE, current[q], Unread(q), clip[q])
        /\ Possible(q)' = Changes(last_sent'[q], FALSE, current[q], Unread(q), clip[q])
        /\ Likely(q) = Changes(last_sent[q], TRUE, current[q],
                               Unread(q) /\ clip[q] # last_remote[q], clip[q])
        /\ Likely(q)' = Changes(last_sent'[q], FALSE, current[q],
                                Unread(q) /\ clip[q] # last_remote[q], clip[q])
    BY <2>1, <2>3 DEF Possible, Likely
  <2>5. Possible(q)' \in Nat /\ Likely(q)' \in Nat
    BY <2>3, <2>4 DEF Changes
  <2>6. \/ sends'[q] = sends[q] + 1 /\ Possible(q)' + 1 <= Possible(q) /\ Likely(q)' + 1 <= Likely(q)
        \/ sends'[q] = sends[q] /\ Possible(q)' <= Possible(q) /\ Likely(q)' <= Likely(q)
    BY <2>1, <2>2, <2>3, <2>4 DEF Changes
  <2>7. Budget(q)'
    BY <2>1, <2>5, <2>6, KeepsBudget
  <2> QED BY <2>1, <2>7 DEF IInv, SideInv
<1> QED BY <1>1, <1>2

\* What a text received allows later is what the one before it has allowed until now.
LEMMA RecvKeeps ==
  ASSUME IInv, NEW s \in Sides, NEW d \in net[s], Recv(s, d), NEW q \in Sides
  PROVE  SideInv(q)' /\ Budget(q)'
<1>1. CASE Same(q)
  BY <1>1, Elsewhere
<1>2. CASE q = s /\ ~(s = "host" /\ ~allowed)
  <2>1. /\ copies'[q] = copies[q] /\ sends'[q] = sends[q] /\ received'[q] = received[q] + 1
        /\ writing[q] = None /\ writing'[q] = last_remote'[q]
        /\ watcher'[q] = watcher[q]
        /\ seq'[q] = seq[q] /\ last_seq'[q] = last_seq[q] /\ current'[q] = current[q]
        /\ last_sent'[q] = last_sent[q] /\ clip'[q] = clip[q]
        /\ os'[q] = os[q] /\ owner'[q] = owner[q]
    BY <1>2 DEF IInv, TypeOK, Recv, clipboard, watch
  <2>2. Unread(q)' = Unread(q) /\ Unread(q) \in BOOLEAN
    BY <2>1 DEF Unread
  <2>3. Possible(q)' = Possible(q)
    BY <2>1, <2>2 DEF Possible
  <2>4. Likely(q)' <= Possible(q) /\ Likely(q)' \in Nat
    <3>1. Likely(q)' = Changes(last_sent[q], watcher[q] = "comparing" /\ ~FromPeer(q)', current[q],
                               Unread(q) /\ clip[q] # last_remote'[q], clip[q])
      BY <2>1, <2>2 DEF Likely
    <3> QED BY <2>2, <3>1 DEF Possible, Changes, FromPeer
  <2>5. /\ sends[q] + Possible(q) <= copies[q] + received[q]
        /\ copies[q] \in Nat /\ received[q] \in Nat /\ sends[q] \in Nat /\ Possible(q) \in Nat
    BY Numbers DEF IInv, Budget
  <2>6. Budget(q)'
    BY <2>1, <2>3, <2>4, <2>5 DEF Budget
  <2> QED BY <2>1, <2>6 DEF IInv, SideInv
<1>3. Same(q) \/ (q = s /\ ~(s = "host" /\ ~allowed))
  BY DEF IInv, TypeOK, Recv, Same, clipboard, watch
<1> QED BY <1>1, <1>2, <1>3

\* A text written is the last one received, and not sent back as long as it is that.
LEMMA WriteKeeps ==
  ASSUME IInv, NEW s \in Sides, Write(s), NEW q \in Sides
  PROVE  SideInv(q)' /\ Budget(q)'
<1>1. CASE q # s
  <2>1. Same(q)
    BY <1>1 DEF IInv, TypeOK, Write, Written, Same, clipboard, watch, counts
  <2> QED BY <2>1, Elsewhere
<1>2. CASE q = s
  <2>1. /\ copies'[q] = copies[q] /\ sends'[q] = sends[q] /\ received'[q] = received[q]
        /\ writing[q] # None /\ writing'[q] = None /\ last_remote'[q] = last_remote[q]
        /\ watcher'[q] = watcher[q] /\ last_seq'[q] = last_seq[q] /\ current'[q] = current[q]
        /\ last_sent'[q] = last_sent[q] /\ os'[q] = os[q]
    BY <1>2 DEF IInv, TypeOK, Write, watch, counts
  <2>2. \/ clip'[q] = clip[q] /\ seq'[q] = seq[q]
        \/ clip'[q] = last_remote[q]
    BY <1>2 DEF IInv, TypeOK, SideInv, Write, Written, clipboard
  <2>3. os[q] = "x11" /\ owner'[q] # "other" => owner[q] # "other" /\ seq'[q] = seq[q]
    BY <1>2 DEF IInv, TypeOK, Write, Written, clipboard
  <2>4. FromPeer(q)' = FromPeer(q) /\ FromPeer(q) \in BOOLEAN
    BY <2>1 DEF FromPeer
  <2>5. Unread(q)' \in BOOLEAN /\ Unread(q) \in BOOLEAN
    BY DEF Unread
  <2>6. /\ Possible(q)' = Changes(last_sent[q], watcher[q] = "comparing", current[q],
                                  Unread(q)', clip'[q])
        /\ Likely(q)' = Changes(last_sent[q], watcher[q] = "comparing" /\ ~FromPeer(q), current[q],
                                Unread(q)' /\ clip'[q] # last_remote[q], clip'[q])
    BY <2>1, <2>4 DEF Possible, Likely
  <2>7. /\ Possible(q)' <= Possible(q) + 1 /\ Possible(q)' \in 0..2
    BY <2>5, <2>6, OtherEnd, ChangesType DEF Possible
  <2>8. Likely(q)' <= Likely(q) /\ Likely(q)' \in 0..2
    <3>1. CASE clip'[q] = clip[q] /\ seq'[q] = seq[q]
      <4>1. Unread(q)' = Unread(q)
        BY <2>1, <3>1 DEF Unread
      <4>2. Likely(q)' = Likely(q)
        BY <2>6, <3>1, <4>1 DEF Likely
      <4> QED BY <4>2, Numbers
    <3>2. CASE clip'[q] = last_remote[q]
      <4>1. Likely(q)' = Changes(last_sent[q], watcher[q] = "comparing" /\ ~FromPeer(q), current[q],
                                 FALSE, clip'[q])
        BY <2>6, <3>2
      <4> QED BY <2>4, <2>5, <4>1 DEF Likely, Changes
    <3> QED BY <2>2, <3>1, <3>2
  <2>9. /\ sends[q] + Possible(q) + 1 <= copies[q] + received[q]
        /\ received[q] >= 1 => sends[q] + Likely(q) + 1 <= copies[q] + received[q]
    BY <2>1 DEF IInv, Budget
  <2>10. Budget(q)'
    BY <2>1, <2>7, <2>8, <2>9, Numbers DEF Budget
  <2> QED BY <2>1, <2>3, <2>10 DEF IInv, SideInv
<1> QED BY <1>1, <1>2

-----------------------------------------------------------------------------
(* The theorems.                                                           *)

\* At first nothing has been copied, received or sent.
LEMMA InitInv == Init => IInv
<1> SUFFICES ASSUME Init PROVE IInv
  OBVIOUS
<1>1. MaxFailures \in Nat /\ None \notin Texts
  BY TextsAssumption
<1>2. TypeOK
  BY <1>1 DEF Init, PerSide, TypeOK, OrNone
<1>3. ASSUME NEW s \in Sides PROVE SideInv(s) /\ Budget(s)
  <2>1. /\ watcher[s] = "asleep" /\ seq[s] = 0 /\ last_seq[s] = 0 /\ writing[s] = None
        /\ copies[s] = 0 /\ received[s] = 0 /\ sends[s] = 0
    BY <1>3 DEF Init, PerSide
  <2>2. ~Unread(s)
    BY <2>1 DEF Unread
  <2>3. Possible(s) = 0 /\ Likely(s) = 0
    BY <2>1, <2>2 DEF Possible, Likely, Changes
  <2> QED BY <2>1, <2>3 DEF SideInv, Budget
<1> QED BY <1>2, <1>3 DEF IInv

\* Every step keeps the types and every side's budget.
LEMMA StepInv == IInv /\ [Next]_vars => IInv'
<1> SUFFICES ASSUME IInv, [Next]_vars PROVE IInv'
  OBVIOUS
<1>1. TypeOK'
  BY TypeStep
<1>2. ASSUME NEW q \in Sides PROVE SideInv(q)' /\ Budget(q)'
  <2>1. CASE UNCHANGED vars
    <3>1. Same(q)
      BY <2>1 DEF vars, clipboard, watch, counts, Same
    <3> QED BY <3>1, Elsewhere
  <2>2. ASSUME NEW s \in Sides, NEW d \in net[s], Lose(s, d) PROVE SideInv(q)' /\ Budget(q)'
    <3>1. Same(q)
      BY <2>2 DEF Lose, clipboard, watch, counts, Same
    <3> QED BY <3>1, Elsewhere
  <2> QED BY <2>1, <2>2, CopyKeeps, PollKeeps, ReadKeeps, SkipKeeps, SendKeeps, RecvKeeps,
             WriteKeeps DEF Next, Tasks, Watcher, RecvLoop
<1> QED BY <1>1, <1>2 DEF IInv

\* The values have their types, a watcher is never ahead of the sequence number, and
\* over X11 the number does not get beyond 1: for all texts and numbers of copies.
THEOREM TypeCorrect == Spec => []TypeOK
<1>1. IInv => TypeOK
  BY DEF IInv
<1> QED BY <1>1, InitInv, StepInv, PTL DEF Spec

\* A side sends no more texts than were copied there, and of the ones it received all
\* but the last: no interleaving of the watchers and receive loops echoes more.
THEOREM EchoesAreBounded == Spec => []EchoesBounded
<1>1. IInv => EchoesBounded
  <2> SUFFICES ASSUME IInv, NEW s \in Sides
               PROVE  sends[s] <= copies[s] \/ sends[s] < copies[s] + received[s]
    BY DEF EchoesBounded
  <2>1. Budget(s)
    BY DEF IInv
  <2> QED BY <2>1, Numbers DEF Budget
<1> QED BY <1>1, InitInv, StepInv, PTL DEF Spec

-----------------------------------------------------------------------------
(* What goes round.                                                        *)

\* What a side has received and what is on its way to it, its peer has sent.
FlowInv ==
  \A s \in Sides : IsFiniteSet(net[s]) /\ Cardinality(net[s]) + received[s] <= sends[Peer(s)]

\* Of two copies, at most three are received before both sides have received one, and
\* none after.
ReceivedInv ==
  copies["host"] + copies["viewer"] <= 2 /\ (\A s \in Sides : received[s] >= 1)
    => received["host"] + received["viewer"] <= 3

\* The last text received stays with its side: of all that was copied, what still goes
\* round is what neither side keeps.
WhatGoesRound ==
  (\A s \in Sides : received[s] >= 1)
    => Cardinality(net["host"]) + Cardinality(net["viewer"]) + 2
         <= copies["host"] + copies["viewer"]

LEMMA Peers ==
  /\ Peer("host") = "viewer" /\ Peer("viewer") = "host"
  /\ \A s \in Sides : Peer(s) \in Sides /\ Peer(s) # s /\ Peer(Peer(s)) = s
<1>1. Peer("host") = "viewer" /\ Peer("viewer") = "host"
  BY DEF Peer, Sides
<1> QED BY <1>1 DEF Sides

\* What the budgets of both sides say together.
LEMMA Totals ==
  ASSUME IInv, FlowInv
  PROVE  /\ \A s \in {"host", "viewer"} :
              /\ copies[s] \in Nat /\ received[s] \in Nat /\ sends[s] \in Nat
              /\ Cardinality(net[s]) \in Nat
              /\ received[s] = 0 => sends[s] <= copies[s]
              /\ received[s] >= 1 => sends[s] + 1 <= copies[s] + received[s]
         /\ Cardinality(net["host"]) + received["host"] <= sends["viewer"]
         /\ Cardinality(net["viewer"]) + received["viewer"] <= sends["host"]
<1>1. ASSUME NEW s \in Sides
      PROVE  /\ copies[s] \in Nat /\ received[s] \in Nat /\ sends[s] \in Nat
             /\ Cardinality(net[s]) \in Nat
             /\ received[s] = 0 => sends[s] <= copies[s]
             /\ received[s] >= 1 => sends[s] + 1 <= copies[s] + received[s]
  <2>1. Cardinality(net[s]) \in Nat
    BY FS_CardinalityType DEF FlowInv
  <2>2. Budget(s)
    BY DEF IInv
  <2> QED BY <2>1, <2>2, Numbers DEF Budget
<1> QED BY <1>1, Peers DEF FlowInv, Sides

LEMMA RoundAndRound ==
  ASSUME IInv, FlowInv
  PROVE  WhatGoesRound
BY Totals DEF WhatGoesRound, Sides

\* Datagrams are sent once; they are received, lost or dropped once.
LEMMA FlowStep == ASSUME IInv, FlowInv, [Next]_vars PROVE FlowInv'
<1> SUFFICES ASSUME NEW s \in Sides
             PROVE  /\ IsFiniteSet(net'[s])
                    /\ Cardinality(net'[s]) + received'[s] <= sends'[Peer(s)]
  BY DEF FlowInv
<1>1. /\ IsFiniteSet(net[s]) /\ Cardinality(net[s]) \in Nat
      /\ Cardinality(net[s]) + received[s] <= sends[Peer(s)]
      /\ received[s] \in Nat /\ Peer(s) \in Sides /\ sends[Peer(s)] \in Nat
  BY FS_CardinalityType, Peers, Numbers DEF FlowInv
<1>2. net \in [Sides -> SUBSET (Texts \X Nat)] /\ received \in [Sides -> Nat] /\ sends \in [Sides -> Nat]
  BY DEF IInv, TypeOK
<1>3. CASE UNCHANGED <<net, received, sends>>
  BY <1>1, <1>3
<1>4. ASSUME NEW q \in Sides, NEW x, net' = [net EXCEPT ![Peer(q)] = @ \cup {x}],
             sends' = [sends EXCEPT ![q] = @ + 1], received' = received
      PROVE  /\ IsFiniteSet(net'[s])
             /\ Cardinality(net'[s]) + received'[s] <= sends'[Peer(s)]
  <2>1. CASE s = Peer(q)
    <3>1. q = Peer(s)
      BY <2>1, Peers
    <3>2. net'[s] = net[s] \cup {x} /\ sends'[Peer(s)] = sends[Peer(s)] + 1
      BY <1>1, <1>2, <1>4, <2>1, <3>1
    <3>3. ASSUME NEW S, IsFiniteSet(S)
          PROVE  /\ IsFiniteSet(S \cup {x})
                 /\ \/ Cardinality(S \cup {x}) = Cardinality(S)
                    \/ Cardinality(S \cup {x}) = Cardinality(S) + 1
      BY <3>3, FS_AddElement
    <3>4. /\ IsFiniteSet(net'[s])
          /\ \/ Cardinality(net'[s]) = Cardinality(net[s])
             \/ Cardinality(net'[s]) = Cardinality(net[s]) + 1
      BY <1>1, <3>2, <3>3
    <3> QED BY <1>1, <1>4, <3>2, <3>4
  <2>2. CASE s # Peer(q)
    <3>1. q # Peer(s)
      BY <2>2, Peers
    <3>2. net'[s] = net[s] /\ sends'[Peer(s)] = sends[Peer(s)]
      BY <1>1, <1>2, <1>4, <2>2, <3>1
    <3> QED BY <1>1, <1>4, <3>2
  <2> QED BY <2>1, <2>2
<1>5. ASSUME NEW q \in Sides, NEW x \in net[q], net' = [net EXCEPT ![q] = @ \ {x}],
             sends' = sends, received' = received \/ received' = [received EXCEPT ![q] = @ + 1]
      PROVE  /\ IsFiniteSet(net'[s])
             /\ Cardinality(net'[s]) + received'[s] <= sends'[Peer(s)]
  <2>1. CASE s = q
    <3>1. net'[s] = net[s] \ {x} /\ x \in net[s]
      BY <1>2, <1>5, <2>1
    <3>2. ASSUME NEW S, IsFiniteSet(S), x \in S
          PROVE  IsFiniteSet(S \ {x}) /\ Cardinality(S \ {x}) = Cardinality(S) - 1
      BY <3>2, FS_RemoveElement
    <3>3. IsFiniteSet(net'[s]) /\ Cardinality(net'[s]) = Cardinality(net[s]) - 1
      BY <1>1, <3>1, <3>2
    <3>4. received'[s] = received[s] \/ received'[s] = received[s] + 1
      BY <1>2, <1>5, <2>1
    <3> QED BY <1>1, <1>5, <3>3, <3>4
  <2>2. CASE s # q
    <3>1. net'[s] = net[s] /\ received'[s] = received[s]
      BY <1>2, <1>5, <2>2
    <3> QED BY <1>1, <1>5, <3>1
  <2> QED BY <2>1, <2>2
<1>6. ASSUME NEW q \in Sides, Send(q)
      PROVE  /\ IsFiniteSet(net'[s])
             /\ Cardinality(net'[s]) + received'[s] <= sends'[Peer(s)]
  <2>1. \/ /\ net' = [net EXCEPT ![Peer(q)] = @ \cup {<<current[q], sends[q]>>}]
           /\ sends' = [sends EXCEPT ![q] = @ + 1]
        \/ UNCHANGED <<net, sends>>
    BY <1>6 DEF Send
  <2>2. received' = received
    BY <1>6 DEF Send
  <2> QED BY <1>3, <1>4, <2>1, <2>2
<1>7. ASSUME NEW q \in Sides, NEW d \in net[q], Lose(q, d) \/ Recv(q, d)
      PROVE  /\ IsFiniteSet(net'[s])
             /\ Cardinality(net'[s]) + received'[s] <= sends'[Peer(s)]
  <2>1. net' = [net EXCEPT ![q] = @ \ {d}] /\ sends' = sends
        /\ (received' = received \/ received' = [received EXCEPT ![q] = @ + 1])
    BY <1>7 DEF Lose, Recv, counts
  <2> QED BY <1>5, <2>1
<1>8. ASSUME NEW q \in Sides, Poll(q) \/ Read(q) \/ Skip(q) \/ Write(q)
      PROVE  UNCHANGED <<net, received, sends>>
  BY <1>8 DEF Poll, Read, Skip, Write, counts
<1>9. ASSUME NEW q \in Sides, NEW t \in Texts, Copy(q, t)
      PROVE  UNCHANGED <<net, received, sends>>
  BY <1>9 DEF Copy
<1>10. CASE UNCHANGED vars
  BY <1>3, <1>10 DEF vars, counts
<1> QED BY <1>3, <1>6, <1>7, <1>8, <1>9, <1>10 DEF Next, Tasks, Watcher, RecvLoop

\* A text is received only while one goes round.
LEMMA ReceivedStep ==
  ASSUME IInv, FlowInv, ReceivedInv, [Next]_vars
  PROVE  ReceivedInv'
<1>1. ASSUME NEW q \in Sides, NEW d \in net[q], Recv(q, d), received' # received
      PROVE  ReceivedInv'
  <2>1. /\ copies' = copies /\ received' = [received EXCEPT ![q] = @ + 1]
        /\ received \in [Sides -> Nat]
    BY <1>1 DEF Recv, IInv, TypeOK
  <2>2. Cardinality(net[q]) >= 1 /\ Cardinality(net[q]) \in Nat
    <3>1. IsFiniteSet(net[q]) /\ net[q] # {}
      BY <1>1 DEF FlowInv
    <3> QED BY <3>1, FS_CardinalityType, FS_EmptySet
  <2>3. CASE q = "host"
    <3>1. received'["host"] = received["host"] + 1 /\ received'["viewer"] = received["viewer"]
      BY <2>1, <2>3 DEF Sides
    <3> QED BY <2>1, <2>2, <2>3, <3>1, Totals DEF ReceivedInv, Sides
  <2>4. CASE q = "viewer"
    <3>1. received'["viewer"] = received["viewer"] + 1 /\ received'["host"] = received["host"]
      BY <2>1, <2>4 DEF Sides
    <3> QED BY <2>1, <2>2, <2>4, <3>1, Totals DEF ReceivedInv, Sides
  <2> QED BY <2>3, <2>4 DEF Sides
<1>2. ASSUME received' = received, copies' = copies PROVE ReceivedInv'
  BY <1>2 DEF ReceivedInv
<1>3. ASSUME NEW q \in Sides, NEW t \in Texts, Copy(q, t) PROVE ReceivedInv'
  <2>1. /\ received' = received
        /\ copies["host"] \in Nat /\ copies["viewer"] \in Nat
        /\ copies'["host"] >= copies["host"] /\ copies'["viewer"] >= copies["viewer"]
        /\ copies'["host"] \in Nat /\ copies'["viewer"] \in Nat
    BY <1>3 DEF Copy, IInv, TypeOK, Sides
  <2> QED BY <2>1 DEF ReceivedInv
<1>4. ASSUME NEW q \in Sides, Poll(q) \/ Read(q) \/ Skip(q) \/ Send(q) \/ Write(q)
      PROVE  ReceivedInv'
  BY <1>2, <1>4 DEF Poll, Read, Skip, Send, Write, counts
<1>5. ASSUME NEW q \in Sides, NEW d \in net[q], Lose(q, d) \/ Recv(q, d) PROVE ReceivedInv'
  <2>1. copies' = copies
    BY <1>5 DEF Lose, Recv, counts
  <2>2. CASE Lose(q, d)
    BY <1>2, <2>1, <2>2 DEF Lose, counts
  <2> QED BY <1>1, <1>2, <1>5, <2>1, <2>2
<1>6. CASE UNCHANGED vars
  BY <1>2, <1>6 DEF vars, counts
<1> QED BY <1>3, <1>4, <1>5, <1>6 DEF Next, Tasks, Watcher, RecvLoop

LEMMA RoundInit == Init => FlowInv /\ ReceivedInv
<1> SUFFICES ASSUME Init PROVE FlowInv /\ ReceivedInv
  OBVIOUS
<1>1. \A s \in Sides : net[s] = {} /\ received[s] = 0 /\ sends[s] = 0 /\ Peer(s) \in Sides
  BY Peers DEF Init, PerSide
<1>2. IsFiniteSet({}) /\ Cardinality({}) = 0
  BY FS_EmptySet
<1> QED BY <1>1, <1>2 DEF FlowInv, ReceivedInv, Sides

\* Once both sides have received a text, what is on its way is at most the texts copied
\* but two: an echo needs a third copy to go on (last_remote_clipboard of both sides).
THEOREM EchoesNeedAThird == Spec => []WhatGoesRound
<1>1. Init => IInv /\ FlowInv
  BY InitInv, RoundInit
<1>2. IInv /\ FlowInv /\ [Next]_vars => IInv' /\ FlowInv'
  BY StepInv, FlowStep
<1>3. IInv /\ FlowInv => WhatGoesRound
  BY RoundAndRound
<1> QED BY <1>1, <1>2, <1>3, PTL DEF Spec

\* Two copies cause at most three sends, on all platforms and in all orders.
THEOREM TwoCopiesComeToRest == Spec => []TwoCopiesRest
<1>1. Init => IInv /\ FlowInv /\ ReceivedInv
  BY InitInv, RoundInit
<1>2. IInv /\ FlowInv /\ ReceivedInv /\ [Next]_vars => IInv' /\ FlowInv' /\ ReceivedInv'
  BY StepInv, FlowStep, ReceivedStep
<1>3. IInv /\ FlowInv /\ ReceivedInv => TwoCopiesRest
  <2> SUFFICES ASSUME IInv, FlowInv, ReceivedInv PROVE TwoCopiesRest
    OBVIOUS
  <2> QED BY Totals DEF ReceivedInv, TwoCopiesRest, Sides
<1> QED BY <1>1, <1>2, <1>3, PTL DEF Spec

-----------------------------------------------------------------------------
(* No copy is overlooked.                                                  *)

\* What the watcher compares with is known, and until it has compared the text of the
\* last number it has read that number's text or will read it.
KnownInv(s) ==
  /\ last_sent[s] \in sent[s] \cup {None} /\ last_remote[s] \in seen[s] \cup {None}
  /\ failures = 0 /\ os[s] = "windows" /\ seq[s] = last_seq[s] /\ clip[s] \in Readable
       => \/ clip[s] \in sent[s] \cup seen[s]
          \/ watcher[s] = "reading"
          \/ watcher[s] = "comparing" /\ current[s] = clip[s]

\* Nothing changes for a side whose watcher and clipboard do not step.
LEMMA KnownElsewhere ==
  ASSUME IInv, NEW q \in Sides, KnownInv(q), Same(q), failures' \in Nat, failures <= failures',
         sent'[q] = sent[q], seen'[q] = seen[q]
  PROVE  KnownInv(q)'
<1>1. failures' = 0 => failures = 0
  BY DEF IInv, TypeOK
<1> QED BY <1>1 DEF Same, KnownInv, Readable

LEMMA KnownStep ==
  ASSUME IInv, NEW q \in Sides, KnownInv(q), [Next]_vars
  PROVE  KnownInv(q)'
<1> USE DEF Readable
<1>1. /\ failures \in Nat /\ None \notin Readable /\ None \notin Texts
      /\ seq[q] \in Nat /\ last_seq[q] \in Nat /\ last_seq[q] <= seq[q]
      /\ watcher[q] = "comparing" => current[q] \in Readable
      /\ writing[q] # None => writing[q] = last_remote[q]
  BY TextsAssumption DEF IInv, TypeOK, SideInv
<1>2. ASSUME Fails PROVE failures' \in Nat /\ failures' # 0
  BY <1>1, <1>2 DEF Fails
<1>3. ASSUME NEW s \in Sides, s # q,
             \/ Poll(s) \/ Read(s) \/ Skip(s) \/ Send(s) \/ Write(s)
             \/ \E d \in net[s] : Lose(s, d) \/ Recv(s, d)
             \/ \E t \in Texts : Copy(s, t)
      PROVE  KnownInv(q)'
  <2>1. Same(q) /\ sent'[q] = sent[q] /\ seen'[q] = seen[q]
    BY <1>3 DEF IInv, TypeOK, Poll, Read, Skip, Send, Write, Written, Lose, Recv, Copy, Same,
                clipboard, watch, counts
  <2>2. failures' = failures \/ Fails
    BY <1>3 DEF Poll, Read, Skip, Send, Write, Lose, Recv, Copy
  <2>3. failures' \in Nat /\ failures <= failures'
    BY <1>1, <2>2 DEF Fails
  <2> QED BY <2>1, <2>3, KnownElsewhere
<1>4. ASSUME NEW t \in Texts, Copy(q, t) PROVE KnownInv(q)'
  <2>1. /\ seq'[q] = IF Counted(q) THEN seq[q] + 1 ELSE seq[q]
        /\ UNCHANGED <<os, last_seq, last_sent, last_remote, sent, seen>>
    BY <1>4 DEF Copy, IInv, TypeOK, watch
  <2>2. os[q] = "windows" => seq'[q] # last_seq'[q]
    BY <1>1, <2>1 DEF Counted
  <2> QED BY <2>1, <2>2 DEF KnownInv
<1>5. CASE Poll(q)
  <2>1. /\ watcher'[q] = "reading" /\ UNCHANGED <<last_sent, last_remote, sent, seen>>
    BY <1>5 DEF Poll, IInv, TypeOK, counts
  <2> QED BY <2>1 DEF KnownInv
<1>6. CASE Read(q)
  <2>1. UNCHANGED <<os, clip, seq, last_seq, last_sent, last_remote, sent, seen>>
    BY <1>6 DEF Read, clipboard, counts
  <2>2. CASE Fails
    BY <1>2, <2>1, <2>2 DEF KnownInv
  <2>3. CASE ~Fails
    <3>1. /\ current'[q] = clip[q]
          /\ clip[q] \in Readable => watcher'[q] = "comparing"
      BY <1>1, <1>6, <2>3 DEF Read, IInv, TypeOK
    <3> QED BY <2>1, <3>1 DEF KnownInv
  <2> QED BY <2>2, <2>3
<1>7. CASE Skip(q)
  <2>1. /\ UNCHANGED <<os, clip, seq, last_seq, last_sent, last_remote, current, sent, seen, failures>>
        /\ watcher[q] = "comparing" /\ (current[q] = last_sent[q] \/ current[q] = last_remote[q])
    BY <1>7 DEF Skip, clipboard, counts, FromPeer
  <2>2. current[q] \in sent[q] \cup seen[q]
    BY <1>1, <2>1 DEF KnownInv
  <2> QED BY <2>1, <2>2 DEF KnownInv
<1>8. CASE Send(q)
  <2>1. /\ UNCHANGED <<os, clip, seq, last_seq, last_remote, current, seen>>
        /\ watcher[q] = "comparing"
    BY <1>8 DEF Send, clipboard
  <2>2. \/ /\ last_sent'[q] = current[q] /\ sent'[q] = sent[q] \cup {current[q]}
           /\ failures' = failures
        \/ Fails /\ UNCHANGED <<last_sent, sent>>
    BY <1>8 DEF Send, IInv, TypeOK
  <2>3. CASE Fails /\ UNCHANGED <<last_sent, sent>>
    BY <1>2, <2>1, <2>3 DEF KnownInv
  <2>4. CASE /\ last_sent'[q] = current[q] /\ sent'[q] = sent[q] \cup {current[q]}
             /\ failures' = failures
    BY <2>1, <2>4 DEF KnownInv
  <2> QED BY <2>2, <2>3, <2>4
<1>9. ASSUME NEW d \in net[q], Lose(q, d) \/ Recv(q, d) PROVE KnownInv(q)'
  <2>1. /\ UNCHANGED <<os, clip, seq, last_seq, watcher, current, last_sent, sent, failures>>
        /\ seen[q] \subseteq seen'[q]
        /\ last_remote'[q] = last_remote[q] \/ last_remote'[q] \in seen'[q]
    BY <1>9 DEF Lose, Recv, IInv, TypeOK, clipboard, watch, counts
  <2> QED BY <2>1 DEF KnownInv
<1>10. CASE Write(q)
  <2>1. UNCHANGED <<os, last_seq, watcher, current, last_sent, last_remote, sent, seen>>
    BY <1>10 DEF Write, watch, counts
  <2>2. CASE Fails
    BY <1>2, <2>1, <2>2 DEF KnownInv
  <2>3. CASE ~Fails
    <3>1. Written(q, writing[q])
      BY <1>10, <2>3 DEF Write
    <3>2. os[q] = "windows" => seq'[q] = seq[q] + 1
      BY <3>1 DEF Written, IInv, TypeOK
    <3>3. os'[q] = "windows" => seq'[q] # last_seq'[q]
      BY <1>1, <2>1, <3>2
    <3> QED BY <2>1, <3>3 DEF KnownInv
  <2> QED BY <2>2, <2>3
<1>11. CASE UNCHANGED vars
  <2>1. Same(q) /\ sent' = sent /\ seen' = seen /\ failures' = failures
    BY <1>11 DEF vars, clipboard, watch, counts, Same
  <2> QED BY <1>1, <2>1, KnownElsewhere
<1>12. ASSUME NEW s \in Sides, s = q,
              \/ Poll(s) \/ Read(s) \/ Skip(s) \/ Send(s) \/ Write(s)
              \/ \E d \in net[s] : Lose(s, d) \/ Recv(s, d)
              \/ \E t \in Texts : Copy(s, t)
       PROVE  KnownInv(q)'
  BY <1>4, <1>5, <1>6, <1>7, <1>8, <1>9, <1>10, <1>12
<1> QED BY <1>3, <1>11, <1>12 DEF Next, Tasks, Watcher, RecvLoop

\* No copy is overlooked on Windows, whatever the watcher is doing when it is made: if
\* calls do not fail, a watcher that has nothing left to do has sent the text it finds
\* or has it from the peer (host/src/lib.rs: last_seq is set before the read).
THEOREM CopiesAreNoticed == Spec => []NothingOverlooked
<1> DEFINE Known == \A s \in Sides : KnownInv(s)
<1>1. Init => IInv /\ Known
  <2> SUFFICES ASSUME Init PROVE Known
    BY InitInv
  <2>1. \A s \in Sides : clip[s] = None /\ last_sent[s] = None /\ last_remote[s] = None
    BY DEF Init, PerSide
  <2> QED BY <2>1, TextsAssumption DEF KnownInv, Readable
<1>2. IInv /\ Known /\ [Next]_vars => IInv' /\ Known'
  BY StepInv, KnownStep
<1>3. IInv /\ Known => NothingOverlooked
  BY DEF KnownInv, NothingOverlooked
<1> QED BY <1>1, <1>2, <1>3, PTL DEF Spec
=============================================================================
