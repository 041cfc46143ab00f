--------------------------- MODULE LinkRekeyProofs ---------------------------
(***************************************************************************)
(* Proofs about LinkRekey, for all values of its constants.                *)
(*                                                                         *)
(* TypeOK is not inductive alone: a cutover makes the pending session and  *)
(* its two indices current, and they have a value only because the three   *)
(* are set and cleared together.  So the inductive invariant is the        *)
(* conjunction of TypeOK, IndexSafety and OneRekeyAtATime.  `Sound` states *)
(* the last two for one node's peer record and tables; each method of      *)
(* ActivePeer keeps it (first part), hence each action does (second part). *)
(*                                                                         *)
(* The third part is about both ends at once: over a transport that loses, *)
(* repeats and reorders nothing (`Reliable`), a rekey passes through the   *)
(* phases Calm, Offer, Ready and Lead, which say what each side holds and  *)
(* what may be on the way to it.  `Link` is that statement for one side    *)
(* and the other, so that each lemma is proved once for both.              *)
(*                                                                         *)
(* The fourth part is about the indices over any transport: an index would *)
(* leak if a cutover came before the drain of the cutover before it ended. *)
(* `Timed` bounds how old a pending session's maker and its answer can be, *)
(* so that with the timers in order (`TimersOrdered`) the drain is over.   *)
(***************************************************************************)
EXTENDS LinkRekey, SequenceTheorems, TLAPS

\* IndexSafety and OneRekeyAtATime for a peer p beside the tables
\* peers_by_index b, pending_outbound o and the allocated indices a.
Paired(p) ==
  /\ ~(p.inProgress /\ p.pend # None)
  /\ p.inProgress <=> p.hs # None
  /\ p.inProgress <=> p.rekeyIdx # None
  /\ p.pend # None <=> p.pendOur # None
  /\ p.pend # None <=> p.pendTheir # None
  /\ p.prev # None <=> p.draining
Distinct(p) ==
  /\ p.ourIdx \notin {p.pendOur, p.prevIdx, p.rekeyIdx}
  /\ p.pendOur # None => p.pendOur \notin {p.prevIdx, p.rekeyIdx}
  /\ p.prevIdx # None => p.prevIdx # p.rekeyIdx
Registered(p, b, o, a) ==
  /\ DataIndices(p) \subseteq b
  /\ o = RekeyIndices(p)
  /\ b \cup o \subseteq a
Sound(p, b, o, a) == Paired(p) /\ Distinct(p) /\ Registered(p, b, o, a)

IndInv == TypeOK /\ IndexSafety /\ OneRekeyAtATime

-----------------------------------------------------------------------------
(* ActivePeer's methods.                                                   *)

\* Every age and the failure count may be reset.
LEMMA ZeroAges ==
  /\ AgeCap \in Nat /\ 0 \in 0 .. AgeCap
  /\ DrainWindow \in Nat /\ 0 \in 0 .. DrainWindow
  /\ Dampening \in Nat /\ 0 \in 0 .. Dampening
  /\ LinkDead \in Nat /\ 0 \in 0 .. LinkDead
  /\ Heartbeat \in Nat /\ 0 \in 0 .. Heartbeat
  /\ FailureLimit \in Nat /\ 0 \in 0 .. FailureLimit
  /\ MaxAge \in Nat /\ 0 \in 0 .. MaxAge
  /\ MaxFresh \in Nat
BY TimeAssumption DEF AgeCap

LEMMA SetPendingTyped ==
  ASSUME NEW p \in Peer, NEW s \in Id, NEW our \in Index, NEW their \in Index
  PROVE  SetPendingSession(p, s, our, their) \in Peer
BY DEF SetPendingSession, Peer, OptId, OptIndex

\* A session that becomes pending: the rekey it ends had the same index, or
\* there was none and the index is new.
LEMMA SetPendingSound ==
  ASSUME NEW p \in Peer, NEW s \in Id, NEW our \in Index, NEW their \in Index,
         Paired(p), Distinct(p), p.pend = None,
         our \notin DataIndices(p)
  PROVE  LET q == SetPendingSession(p, s, our, their)
         IN  /\ Paired(q) /\ Distinct(q)
             /\ DataIndices(q) = DataIndices(p) \cup {our}
             /\ RekeyIndices(q) = {}
BY IndexAssumption
   DEF SetPendingSession, Peer, OptId, OptIndex, Paired, Distinct, DataIndices,
       RekeyIndices

LEMMA CutoverSound ==
  ASSUME NEW p \in Peer, Paired(p), Distinct(p), p.pend # None
  PROVE  LET q == CutoverToNewSession(p)
         IN  /\ q \in Peer
             /\ Paired(q) /\ Distinct(q)
             /\ DataIndices(q) \subseteq DataIndices(p)
             /\ RekeyIndices(q) = RekeyIndices(p)
<1> DEFINE q == CutoverToNewSession(p)
<1>1. /\ p.pend \in Id /\ p.pendOur \in Index /\ p.pendTheir \in Index
      /\ p.ourIdx \in Index /\ p.cur \in Id
      /\ ~p.inProgress /\ p.rekeyIdx = None /\ p.hs = None
  BY DEF Peer, OptId, OptIndex, Paired
<1>2. q \in Peer
  BY ZenonT(60), <1>1, ZeroAges DEF CutoverToNewSession, Peer, OptId, OptIndex
<1>3. Paired(q) /\ Distinct(q)
  BY <1>1, IndexAssumption
     DEF CutoverToNewSession, Peer, Paired, Distinct
<1>4. DataIndices(q) \subseteq DataIndices(p) /\ RekeyIndices(q) = RekeyIndices(p)
  BY <1>1 DEF CutoverToNewSession, Peer, DataIndices, RekeyIndices
<1> QED BY <1>2, <1>3, <1>4

\* check_rekey's second step: the index it frees was the draining one's only.
LEMMA DrainSound ==
  ASSUME NEW p \in Peer, Paired(p), Distinct(p)
  PROVE  LET q == AfterDrain(p)
         IN  /\ q \in Peer
             /\ Paired(q) /\ Distinct(q)
             /\ DataIndices(q) = DataIndices(p) \ Drained(p)
             /\ RekeyIndices(q) = RekeyIndices(p)
             /\ Drained(p) \cap RekeyIndices(p) = {}
             /\ Drained(p) \subseteq Index
BY ZenonT(60), IndexAssumption
   DEF AfterDrain, Drained, CompleteDrain, DrainExpired, Peer, OptId, OptIndex,
       Paired, Distinct, DataIndices, RekeyIndices

\* abandon_rekey while a rekey is in progress.
LEMMA AbandonSound ==
  ASSUME NEW p \in Peer, Paired(p), Distinct(p), p.inProgress
  PROVE  LET q == AbandonRekey(p)
         IN  /\ q \in Peer
             /\ Paired(q) /\ Distinct(q) /\ q.pend = None
             /\ DataIndices(q) = DataIndices(p)
             /\ RekeyIndices(q) = {}
             /\ RekeyIndices(p) = {AbandonedIndex(p)}
             /\ AbandonedIndex(p) \in Index
             /\ AbandonedIndex(p) \notin DataIndices(p)
BY ZenonT(60), IndexAssumption
   DEF AbandonRekey, AbandonedIndex, Peer, OptId, OptIndex,
       Paired, Distinct, DataIndices, RekeyIndices

LEMMA SetRekeyTyped ==
  ASSUME NEW p \in Peer, NEW h \in Id, NEW our \in Index
  PROVE  SetRekeyState(p, h, our) \in Peer
BY ZenonT(60) DEF SetRekeyState, Peer, OptId, OptIndex

LEMMA SetRekeySound ==
  ASSUME NEW p \in Peer, Paired(p), Distinct(p), ~p.inProgress, p.pend = None,
         NEW h \in Id, NEW our \in Index, our \notin DataIndices(p)
  PROVE  LET q == SetRekeyState(p, h, our)
         IN  /\ q \in Peer
             /\ Paired(q) /\ Distinct(q)
             /\ DataIndices(q) = DataIndices(p)
             /\ RekeyIndices(q) = {our}
BY ZenonT(60), IndexAssumption
   DEF SetRekeyState, Peer, OptId, OptIndex, Paired, Distinct, DataIndices,
       RekeyIndices

-----------------------------------------------------------------------------
(* Messages.                                                               *)

LEMMA PushTyped ==
  ASSUME NEW q \in Seq(Message), NEW m \in Message
  PROVE  Push(q, m) \in Seq(Message)
BY DEF Push

LEMMA TakenTyped ==
  ASSUME NEW n \in Node, net \in [Node -> Seq(Message)],
         NEW i \in DOMAIN net[n], NEW c \in Message, NEW rest \in Taken(n, i, c)
  PROVE  rest \in Seq(Message)
<1> DEFINE q == net[n]
<1>1. q \in Seq(Message) /\ i \in 1 .. Len(q) /\ Len(q) \in Nat
  BY LenProperties
<1>2. /\ \A j \in 1 .. i - 1 : q[j] \in Message
      /\ \A j \in i + 1 .. Len(q) : q[j] \in Message
  BY <1>1, ElementOfSeq
<1>3. SubSeq(q, 1, i - 1) \in Seq(Message)
  BY <1>1, <1>2, SubSeqProperties
<1>4. SubSeq(q, i + 1, Len(q)) \in Seq(Message)
  BY <1>1, <1>2, SubSeqProperties
<1>5. RemoveAt(q, i) \in Seq(Message)
  BY <1>3, <1>4, ConcatProperties DEF RemoveAt
<1>6. [q EXCEPT ![i] = c] \in Seq(Message)
  BY <1>1, ExceptSeq
<1> QED BY <1>5, <1>6 DEF Taken

LEMMA MessageTypes ==
  ASSUME NEW n \in Node, net \in [Node -> Seq(Message)], NEW i \in DOMAIN net[n]
  PROVE  /\ net[n][i] \in Message
         /\ net[n][i].type = "msg1" => net[n][i] \in Msg1
         /\ net[n][i].type = "msg2" => net[n][i] \in Msg2
         /\ net[n][i].type = "frame" => net[n][i] \in Frame
<1>1. net[n][i] \in Message
  BY LenProperties, ElementOfSeq
<1> QED BY <1>1 DEF Message, Msg1, Msg2, Frame

LEMMA LinkFrameTyped ==
  ASSUME NEW p \in Peer
  PROVE  LinkFrame(p) \in Message
BY ZeroAges DEF Peer, LinkFrame, Message, Frame

LEMMA RekeyMsg1Typed ==
  ASSUME NEW p \in Peer, p.hs # None, p.rekeyIdx # None
  PROVE  RekeyMsg1(p) \in Message
BY ZeroAges DEF Peer, OptId, OptIndex, RekeyMsg1, Message, Msg1

LEMMA RekeyMsg2Typed ==
  ASSUME NEW m \in Msg1, NEW our \in Index, NEW s \in Id
  PROVE  RekeyMsg2(our, m, s) \in Message
BY ZeroAges DEF RekeyMsg2, Message, Msg1, Msg2

LEMMA AgedTyped ==
  ASSUME NEW q \in Seq(Message), \A i \in DOMAIN q : q[i].age < MaxAge
  PROVE  Aged(q) \in Seq(Message)
<1> DEFINE e(j) == [q[j] EXCEPT !.age = @ + 1]
<1>1. Len(q) \in Nat /\ DOMAIN q = 1 .. Len(q)
  BY LenProperties
<1>2. ASSUME NEW j \in 1 .. Len(q) PROVE e(j) \in Message
  <2>1. PICK m : m = q[j] /\ m \in Message /\ m.age < MaxAge
    BY <1>1, ElementOfSeq
  <2>2. m.age + 1 \in 0 .. MaxAge
    BY <2>1, ZeroAges DEF Message, Msg1, Msg2, Frame
  <2>3. m \in Msg1 => [m EXCEPT !.age = m.age + 1] \in Msg1
    BY <2>2 DEF Msg1
  <2>4. m \in Msg2 => [m EXCEPT !.age = m.age + 1] \in Msg2
    BY <2>2 DEF Msg2
  <2>5. m \in Frame => [m EXCEPT !.age = m.age + 1] \in Frame
    BY <2>2 DEF Frame
  <2> QED BY <2>1, <2>3, <2>4, <2>5 DEF Message
<1>3. Aged(q) = [j \in 1 .. Len(q) |-> e(j)]
  BY <1>1 DEF Aged
<1>4. [j \in 1 .. Len(q) |-> e(j)] \in Seq(Message)
  <2> HIDE DEF e
  <2> QED BY <1>1, <1>2, IsASeq
<1> QED BY <1>3, <1>4

-----------------------------------------------------------------------------
(* The invariant at one node, and what is enough to keep it.               *)

LEMMA NodeSound ==
  ASSUME IndInv, Up, NEW n \in Node
  PROVE  /\ peer[n] \in Peer
         /\ Sound(peer[n], byIndex[n], pendingOutbound[n], allocated[n])
         /\ net[n] \in Seq(Message) /\ net[Other(n)] \in Seq(Message)
         /\ Other(n) \in Node
BY DEF IndInv, TypeOK, IndexSafety, OneRekeyAtATime, Up, Sound, Paired, Distinct,
       Registered, Other, Node

\* A step that changes n only, to a sound record beside sound tables, unless n
\* removes the peer.
LEMMA NodeStep ==
  ASSUME IndInv, NEW n \in Node,
         NEW p \in Peer, NEW b \in SUBSET Index, NEW o \in SUBSET Index,
         NEW a \in SUBSET Index,
         live' \subseteq live, n \in live' => Sound(p, b, o, a),
         peer' = [peer EXCEPT ![n] = p],
         byIndex' = [byIndex EXCEPT ![n] = b],
         pendingOutbound' = [pendingOutbound EXCEPT ![n] = o],
         allocated' = [allocated EXCEPT ![n] = a],
         net' \in [Node -> Seq(Message)], fresh' \in 1 .. MaxFresh + 1,
         ticked' \cup rekeyOn' \subseteq Node
  PROVE  IndInv'
<1> USE DEF IndInv, TypeOK
<1>1. TypeOK'
  OBVIOUS
<1>2. ASSUME NEW m \in live', m # n
      PROVE  /\ peer'[m] = peer[m] /\ byIndex'[m] = byIndex[m] /\ m \in live
             /\ pendingOutbound'[m] = pendingOutbound[m]
             /\ allocated'[m] = allocated[m]
  BY <1>2
<1>3. n \in live' => /\ peer'[n] = p /\ byIndex'[n] = b
                     /\ pendingOutbound'[n] = o /\ allocated'[n] = a
  OBVIOUS
<1>4. IndexSafety'
  BY <1>2, <1>3 DEF IndexSafety, Sound, Registered, Distinct
<1>5. OneRekeyAtATime'
  BY <1>2, <1>3 DEF OneRekeyAtATime, Sound, Paired
<1> QED BY <1>1, <1>4, <1>5

LEMMA PeerStep ==
  ASSUME IndInv, NEW n \in Node, NEW p \in Peer,
         Sound(p, byIndex[n], pendingOutbound[n], allocated[n]),
         peer' = [peer EXCEPT ![n] = p],
         UNCHANGED <<live, byIndex, pendingOutbound, allocated>>,
         net' \in [Node -> Seq(Message)], fresh' \in 1 .. MaxFresh + 1,
         ticked' \cup rekeyOn' \subseteq Node
  PROVE  IndInv'
<1>1. /\ byIndex[n] \in SUBSET Index /\ pendingOutbound[n] \in SUBSET Index
      /\ allocated[n] \in SUBSET Index
      /\ byIndex' = [byIndex EXCEPT ![n] = byIndex[n]]
      /\ pendingOutbound' = [pendingOutbound EXCEPT ![n] = pendingOutbound[n]]
      /\ allocated' = [allocated EXCEPT ![n] = allocated[n]]
  BY DEF IndInv, TypeOK
<1> QED BY <1>1, NodeStep

LEMMA SameNodes ==
  ASSUME IndInv, UNCHANGED nodeVars,
         net' \in [Node -> Seq(Message)], fresh' \in 1 .. MaxFresh + 1,
         ticked' \cup rekeyOn' \subseteq Node
  PROVE  IndInv'
BY DEF IndInv, TypeOK, IndexSafety, OneRekeyAtATime, nodeVars

-----------------------------------------------------------------------------
(* One lemma per action.                                                   *)

LEMMA InitIndInv == Init => IndInv
<1> SUFFICES ASSUME Init PROVE IndInv
  OBVIOUS
<1>1. PICK idx \in [Node -> Index], responder \in Node :
        /\ peer = [n \in Node |->
                     NewPeer(idx[n], idx[Other(n)],
                             IF n = responder
                             THEN [type |-> "msg2", sender |-> idx[n],
                                   receiver |-> idx[Other(n)], hs |-> 0,
                                   sid |-> 0, age |-> 0]
                             ELSE None)]
        /\ byIndex = [n \in Node |-> {idx[n]}]
        /\ allocated = [n \in Node |-> {idx[n]}]
  BY DEF Init
<1>2. ASSUME NEW our \in Index, NEW their \in Index, NEW m \in Msg2 \cup {None}
      PROVE  NewPeer(our, their, m) \in Peer
  BY ZeroAges DEF NewPeer, Peer, Id, OptId, OptIndex
<1>3. \A n \in Node : Other(n) \in Node
  BY DEF Other, Node
<1>4. \A n \in Node : [type |-> "msg2", sender |-> idx[n],
                       receiver |-> idx[Other(n)], hs |-> 0, sid |-> 0,
                       age |-> 0] \in Msg2
  BY <1>3, ZeroAges DEF Msg2, Id
<1>5. peer \in [Node -> Peer]
  BY <1>1, <1>2, <1>3, <1>4
<1>6. TypeOK
  BY <1>1, <1>5, ZeroAges, EmptySeq, RekeyAssumption DEF TypeOK, Init, Node
<1>7. IndexSafety
  BY <1>1, IndexAssumption
     DEF Init, IndexSafety, NewPeer, DataIndices, RekeyIndices
<1>8. OneRekeyAtATime
  BY <1>1, IndexAssumption DEF Init, OneRekeyAtATime, NewPeer
<1> QED BY <1>6, <1>7, <1>8 DEF IndInv

LEMMA HandleMsg1Inv ==
  ASSUME IndInv, Up, NEW n \in Node, NEW i \in DOMAIN net[n], HandleMsg1(n, i)
  PROVE  IndInv'
<1> DEFINE m == net[n][i]
           p == peer[n]
<1>1. PICK rest \in Taken(n, i, m) : \/ DuplicateMsg1(n, rest)
                                     \/ IgnoredMsg1(n, rest)
                                     \/ AnsweredMsg1(n, m, rest)
  BY DEF HandleMsg1
<1>2. m \in Msg1 /\ m \in Message /\ ticked' \cup rekeyOn' \subseteq Node /\ fresh \in 1 .. MaxFresh + 1
  BY MessageTypes DEF HandleMsg1, IndInv, TypeOK
<1>3. rest \in Seq(Message)
  BY <1>2, TakenTyped DEF IndInv, TypeOK
<1>4. /\ p \in Peer /\ Sound(p, byIndex[n], pendingOutbound[n], allocated[n])
      /\ net[Other(n)] \in Seq(Message) /\ Other(n) \in Node
      /\ net \in [Node -> Seq(Message)]
      /\ Paired(p) /\ Distinct(p)
  BY NodeSound DEF IndInv, TypeOK, Sound
<1>5. CASE DuplicateMsg1(n, rest)
  <2>1. net' \in [Node -> Seq(Message)]
    BY <1>3, <1>4, <1>5, PushTyped DEF DuplicateMsg1, Peer, Message
  <2> QED BY <1>2, <1>4, <1>5, <2>1, SameNodes DEF DuplicateMsg1
<1>6. CASE IgnoredMsg1(n, rest)
  <2>1. net' \in [Node -> Seq(Message)]
    BY <1>3, <1>4, <1>6 DEF IgnoredMsg1
  <2> QED BY <1>2, <1>4, <1>6, <2>1, SameNodes DEF IgnoredMsg1
<1>7. CASE AnsweredMsg1(n, m, rest)
  <2> DEFINE q == IF p.inProgress THEN AbandonRekey(p) ELSE p
             freed == IF p.inProgress THEN {AbandonedIndex(p)} \ {None} ELSE {}
             b == byIndex[n] \ freed
             a == allocated[n] \ freed
  <2>1. /\ q \in Peer /\ Paired(q) /\ Distinct(q) /\ q.pend = None
        /\ DataIndices(q) = DataIndices(p) /\ RekeyIndices(q) = {}
        /\ freed = RekeyIndices(p)
        /\ freed \cap DataIndices(p) = {}
    <3>1. CASE p.inProgress
      BY <1>4, <3>1, AbandonSound, IndexAssumption
    <3>2. CASE ~p.inProgress
      BY <1>4, <1>7, <3>2 DEF AnsweredMsg1, Paired, RekeyIndices
    <3> QED BY <3>1, <3>2
  <2>2. /\ pendingOutbound' = [pendingOutbound EXCEPT ![n] = {}]
        /\ DataIndices(q) \subseteq b /\ b \subseteq a
        /\ b \in SUBSET Index /\ a \in SUBSET Index
        /\ live' = live
    <3>1. pendingOutbound[n] \ freed = {}
      BY <1>4, <2>1 DEF Sound, Registered
    <3>2. /\ pendingOutbound' = [pendingOutbound EXCEPT ![n] = @ \ freed]
          /\ live' = live
      BY <1>7 DEF AnsweredMsg1
    <3>3. DataIndices(q) \subseteq b /\ b \subseteq a
      BY <1>4, <2>1 DEF Sound, Registered
    <3>4. b \in SUBSET Index /\ a \in SUBSET Index
      BY DEF IndInv, TypeOK
    <3> HIDE DEF q, b, a, freed
    <3> QED BY <3>1, <3>2, <3>3, <3>4
  <2>3. CASE /\ Reindex(n, freed, {})
             /\ peer' = [peer EXCEPT ![n] = q]
             /\ net' = [net EXCEPT ![n] = rest]
             /\ UNCHANGED fresh
    <3>1. Sound(q, b, {}, a)
      BY <2>1, <2>2 DEF Sound, Registered
    <3>2. /\ byIndex' = [byIndex EXCEPT ![n] = b]
          /\ allocated' = [allocated EXCEPT ![n] = a]
          /\ net' \in [Node -> Seq(Message)]
      BY <1>3, <1>4, <2>3 DEF Reindex, IndInv, TypeOK
    <3> HIDE DEF q, b, a
    <3> QED BY <1>2, <2>1, <2>2, <2>3, <3>1, <3>2, NodeStep
  <2>4. ASSUME fresh <= MaxFresh, NEW our \in Index \ a,
               Reindex(n, freed, {our}),
               peer' = [peer EXCEPT ![n] =
                          [SetPendingSession(q, fresh, our, m.sender)
                             EXCEPT !.peerRekeyAge = 0]],
               net' = [net EXCEPT ![n] = rest,
                         ![Other(n)] = Push(@, RekeyMsg2(our, m, fresh))],
               fresh' = fresh + 1
        PROVE  IndInv'
    <3> DEFINE r == SetPendingSession(q, fresh, our, m.sender)
               s == [r EXCEPT !.peerRekeyAge = 0]
    <3>1. fresh \in Id /\ fresh' \in 1 .. MaxFresh + 1 /\ m.sender \in Index
      BY <1>2, <2>4, ZeroAges DEF Id, Msg1
    <3>2. our \notin DataIndices(q)
      BY <2>2, <2>4
    <3>3. /\ r \in Peer /\ Paired(r) /\ Distinct(r)
          /\ DataIndices(r) = DataIndices(q) \cup {our} /\ RekeyIndices(r) = {}
      <4> HIDE DEF q
      <4> QED BY <2>1, <3>1, <3>2, SetPendingTyped, SetPendingSound
    <3>4. /\ s \in Peer /\ Paired(s) /\ Distinct(s)
          /\ DataIndices(s) = DataIndices(r) /\ RekeyIndices(s) = {}
      <4> HIDE DEF r
      <4> QED BY <3>3, ZeroAges
              DEF Peer, Paired, Distinct, DataIndices, RekeyIndices
    <3>5. Sound(s, b \cup {our}, {}, a \cup {our})
      BY <2>2, <3>3, <3>4 DEF Sound, Registered
    <3>6. /\ byIndex' = [byIndex EXCEPT ![n] = b \cup {our}]
          /\ allocated' = [allocated EXCEPT ![n] = a \cup {our}]
      BY <2>4 DEF Reindex, IndInv, TypeOK
    <3>7. net' \in [Node -> Seq(Message)]
      BY <1>2, <1>3, <1>4, <2>4, <3>1, RekeyMsg2Typed, PushTyped DEF Other, Node
    <3>8. b \cup {our} \in SUBSET Index /\ a \cup {our} \in SUBSET Index
      BY <2>2, <2>4
    <3>9. peer' = [peer EXCEPT ![n] = s] /\ ticked' \cup rekeyOn' \subseteq Node
      BY <1>2, <2>4
    <3> HIDE DEF s, r, b, a
    <3>10. n \in live' => Sound(s, b \cup {our}, {}, a \cup {our})
      BY <3>5
    <3>11. {} \in SUBSET Index
      OBVIOUS
    <3> QED BY <2>2, <3>1, <3>4, <3>6, <3>7, <3>8, <3>9, <3>10, <3>11, NodeStep
  <2> QED BY <1>7, <2>3, <2>4 DEF AnsweredMsg1
<1> QED BY <1>1, <1>5, <1>6, <1>7

LEMMA HandleMsg2Inv ==
  ASSUME IndInv, Up, NEW n \in Node, NEW i \in DOMAIN net[n], HandleMsg2(n, i)
  PROVE  IndInv'
<1> DEFINE m == net[n][i]
           p == peer[n]
           waiting == p.inProgress /\ p.rekeyIdx = m.receiver
           o == pendingOutbound[n] \ {m.receiver}
<1>1. /\ m \in Msg2 /\ m \in Message
      /\ ticked' \cup rekeyOn' \subseteq Node /\ fresh' \in 1 .. MaxFresh + 1 /\ live' = live
      /\ pendingOutbound' = [pendingOutbound EXCEPT ![n] = o]
      /\ o \in SUBSET Index
  BY MessageTypes DEF HandleMsg2, IndInv, TypeOK
<1>2. net' \in [Node -> Seq(Message)]
  BY <1>1, TakenTyped DEF HandleMsg2, IndInv, TypeOK
<1>3. /\ p \in Peer /\ Sound(p, byIndex[n], pendingOutbound[n], allocated[n])
      /\ Paired(p) /\ Distinct(p)
  BY NodeSound DEF Sound
<1>4. /\ byIndex \in [Node -> SUBSET Index] /\ allocated \in [Node -> SUBSET Index]
      /\ byIndex[n] \in SUBSET Index /\ allocated[n] \in SUBSET Index
      /\ peer \in [Node -> Peer] /\ m.receiver \in Index /\ m.sender \in Index
      /\ m.sid \in Id
  BY <1>1 DEF IndInv, TypeOK, Msg2
<1>5. CASE /\ m.receiver \notin pendingOutbound[n] \/ ~waiting
           /\ UNCHANGED <<peer, byIndex, allocated>>
  \* An entry of pending_outbound is the index of the rekey in progress.
  <2>1. m.receiver \notin pendingOutbound[n]
    BY <1>3, <1>5 DEF Sound, Registered, Paired, RekeyIndices
  <2>2. UNCHANGED nodeVars
    BY <1>1, <1>5, <2>1 DEF nodeVars, IndInv, TypeOK
  <2> QED BY <1>1, <1>2, <2>2, SameNodes
<1>6. CASE /\ m.receiver \in pendingOutbound[n] /\ waiting
           /\ peer' = [peer EXCEPT ![n] =
                         SetPendingSession(p, m.sid, m.receiver, m.sender)]
           /\ byIndex' = [byIndex EXCEPT ![n] = @ \cup {m.receiver}]
           /\ UNCHANGED allocated
  <2> DEFINE q == SetPendingSession(p, m.sid, m.receiver, m.sender)
             b == byIndex[n] \cup {m.receiver}
  <2>1. p.pend = None /\ m.receiver \notin DataIndices(p)
    BY <1>3, <1>4, <1>6, IndexAssumption DEF Paired, Distinct, DataIndices
  <2>2. /\ q \in Peer /\ Paired(q) /\ Distinct(q)
        /\ DataIndices(q) = DataIndices(p) \cup {m.receiver} /\ RekeyIndices(q) = {}
    BY <1>3, <1>4, <2>1, SetPendingTyped, SetPendingSound
  <2>3. o = {}
    BY <1>3, <1>6 DEF Sound, Registered, RekeyIndices
  <2>4. Sound(q, b, o, allocated[n])
    BY <1>3, <1>6, <2>2, <2>3 DEF Sound, Registered
  <2>5. /\ b \in SUBSET Index
        /\ peer' = [peer EXCEPT ![n] = q] /\ byIndex' = [byIndex EXCEPT ![n] = b]
        /\ allocated' = [allocated EXCEPT ![n] = allocated[n]]
    BY <1>4, <1>6
  <2> HIDE DEF q, b, o
  <2> QED BY <1>1, <1>2, <1>4, <2>2, <2>4, <2>5, NodeStep
<1>7. CASE /\ m.receiver \in pendingOutbound[n] /\ waiting
           /\ peer' = [peer EXCEPT ![n] = AbandonRekey(p)]
           /\ Reindex(n, {AbandonedIndex(p)} \ {None}, {})
  <2> DEFINE q == AbandonRekey(p)
             b == byIndex[n] \ {AbandonedIndex(p)}
             a == allocated[n] \ {AbandonedIndex(p)}
  <2>1. /\ q \in Peer /\ Paired(q) /\ Distinct(q)
        /\ DataIndices(q) = DataIndices(p) /\ RekeyIndices(q) = {}
        /\ RekeyIndices(p) = {AbandonedIndex(p)}
        /\ AbandonedIndex(p) \in Index /\ AbandonedIndex(p) \notin DataIndices(p)
    BY <1>3, <1>7, AbandonSound
  <2>2. o = {}
    BY <1>3, <1>7, <2>1 DEF Sound, Registered
  <2>3. Sound(q, b, o, a)
    BY <1>3, <2>1, <2>2 DEF Sound, Registered
  <2>4. {AbandonedIndex(p)} \ {None} = {AbandonedIndex(p)}
    BY <2>1, IndexAssumption
  <2>5. /\ b \in SUBSET Index /\ a \in SUBSET Index
        /\ peer' = [peer EXCEPT ![n] = q] /\ byIndex' = [byIndex EXCEPT ![n] = b]
        /\ allocated' = [allocated EXCEPT ![n] = a]
    BY <1>4, <1>7, <2>4 DEF Reindex
  <2> HIDE DEF q, b, o, a
  <2> QED BY <1>1, <1>2, <2>1, <2>3, <2>5, NodeStep
<1> QED BY <1>5, <1>6, <1>7 DEF HandleMsg2

LEMMA RemoveInv ==
  ASSUME IndInv, NEW n \in Node, NEW p \in Peer, RemoveActivePeer(n, p),
         net' \in [Node -> Seq(Message)], fresh' \in 1 .. MaxFresh + 1,
         ticked' \cup rekeyOn' \subseteq Node
  PROVE  IndInv'
<1> DEFINE b == byIndex[n] \ HeldIndices(p)
           o == pendingOutbound[n] \ RekeyIndices(p)
           a == allocated[n] \ HeldIndices(p)
<1>1. b \in SUBSET Index /\ o \in SUBSET Index /\ a \in SUBSET Index
  BY DEF IndInv, TypeOK
<1>2. /\ live' \subseteq live /\ n \notin live'
      /\ peer' = [peer EXCEPT ![n] = p] /\ byIndex' = [byIndex EXCEPT ![n] = b]
      /\ pendingOutbound' = [pendingOutbound EXCEPT ![n] = o]
      /\ allocated' = [allocated EXCEPT ![n] = a]
  BY DEF RemoveActivePeer
<1> HIDE DEF b, o, a
<1> QED BY <1>1, <1>2, NodeStep

LEMMA HandleEncryptedFrameInv ==
  ASSUME IndInv, Up, NEW n \in Node, NEW i \in DOMAIN net[n],
         HandleEncryptedFrame(n, i)
  PROVE  IndInv'
<1> DEFINE m == net[n][i]
           p == AfterKBit(peer[n], m)
           bad == p.failures + 1
           c == [m EXCEPT !.replayed = @ \/ Accepts(n, m)]
<1>1. /\ m \in Frame
      /\ ticked' \cup rekeyOn' \subseteq Node /\ fresh' \in 1 .. MaxFresh + 1
  BY MessageTypes DEF HandleEncryptedFrame, IndInv, TypeOK
<1>2. c \in Message
  <2>1. m.replayed \/ Accepts(n, m) \in BOOLEAN
    BY <1>1 DEF Frame, Accepts, Opens
  <2> HIDE DEF m
  <2> QED BY <1>1, <2>1 DEF Frame, Message
<1>3. net' \in [Node -> Seq(Message)]
  BY <1>2, TakenTyped DEF HandleEncryptedFrame, IndInv, TypeOK
<1>4. /\ p \in Peer /\ Sound(p, byIndex[n], pendingOutbound[n], allocated[n])
  <2>1. /\ peer[n] \in Peer
        /\ Sound(peer[n], byIndex[n], pendingOutbound[n], allocated[n])
    BY NodeSound
  <2>2. CASE peer[n].pend = None
    BY <2>1, <2>2 DEF AfterKBit
  <2>3. CASE peer[n].pend # None
    BY <2>1, <2>3, CutoverSound DEF AfterKBit, Sound, Registered
  <2> QED BY <2>2, <2>3
<1>5. CASE UNCHANGED nodeVars
  BY <1>1, <1>3, <1>5, SameNodes
<1>6. CASE RemoveActivePeer(n, p)
  <2> HIDE DEF p
  <2> QED BY <1>1, <1>3, <1>4, <1>6, RemoveInv
<1>7. ASSUME NEW q,
             \/ q = [p EXCEPT !.failures = 0, !.idle = 0]
             \/ q = [p EXCEPT !.failures = bad] /\ bad < FailureLimit,
             peer' = [peer EXCEPT ![n] = q],
             UNCHANGED <<live, byIndex, pendingOutbound, allocated>>
      PROVE  IndInv'
  <2>1. q \in Peer
    <3> HIDE DEF p
    <3>1. bad < FailureLimit => bad \in 0 .. FailureLimit
      BY <1>4, ZeroAges DEF Peer
    <3> HIDE DEF bad
    <3>2. CASE q = [p EXCEPT !.failures = 0, !.idle = 0]
      BY <1>4, <3>2, ZeroAges DEF Peer
    <3>3. CASE q = [p EXCEPT !.failures = bad] /\ bad < FailureLimit
      BY <1>4, <3>1, <3>3 DEF Peer
    <3> QED BY <1>7, <3>2, <3>3
  <2>2. Sound(q, byIndex[n], pendingOutbound[n], allocated[n])
    <3> HIDE DEF p
    <3> QED BY ZenonT(60), <1>4, <1>7
            DEF Peer, Sound, Paired, Distinct, Registered, DataIndices, RekeyIndices
  <2> QED BY <1>1, <1>3, <1>7, <2>1, <2>2, PeerStep
<1> QED BY <1>5, <1>6, <1>7 DEF HandleEncryptedFrame, HandleDecryptFailure

\* What a tick sends is well typed, and the heartbeat's clock is no part of the
\* invariant.
LEMMA BeatSound ==
  ASSUME IndInv, Up, NEW n \in Node
  PROVE  LET q == AfterBeat(peer[n])
         IN  /\ Resent(n) \in Seq(Message) /\ Beaten(n) \in Seq(Message)
             /\ q \in Peer
             /\ Sound(q, byIndex[n], pendingOutbound[n], allocated[n])
             /\ q.pend = peer[n].pend /\ q.inProgress = peer[n].inProgress
             /\ Drained(q) = Drained(peer[n])
<1> DEFINE p == peer[n]
           q == AfterBeat(p)
<1>1. /\ p \in Peer /\ Sound(p, byIndex[n], pendingOutbound[n], allocated[n])
      /\ net[Other(n)] \in Seq(Message)
  BY NodeSound
<1>2. Resent(n) \in Seq(Message)
  BY <1>1, RekeyMsg1Typed, PushTyped DEF Resent, NeedsMsg1Resend, Sound, Paired
<1>3. Beaten(n) \in Seq(Message)
  BY <1>1, <1>2, LinkFrameTyped, PushTyped DEF Beaten
<1>4. /\ q \in Peer
      /\ Sound(q, byIndex[n], pendingOutbound[n], allocated[n])
      /\ q.pend = p.pend /\ q.inProgress = p.inProgress
      /\ Drained(q) = Drained(p)
  <2> HIDE DEF p
  <2> QED BY <1>1, ZeroAges
          DEF AfterBeat, Peer, Sound, Paired, Distinct, Registered, DataIndices,
              RekeyIndices, Drained, DrainExpired
<1> QED BY <1>2, <1>3, <1>4

LEMMA TickInv ==
  ASSUME IndInv, Up, NEW n \in Node, Tick(n)
  PROVE  IndInv'
<1> DEFINE p == AfterBeat(peer[n])
           d == Drained(peer[n])
           q == AfterDrain(p)
<1>1. /\ Resent(n) \in Seq(Message) /\ Beaten(n) \in Seq(Message)
      /\ p \in Peer /\ Paired(p) /\ Distinct(p)
      /\ Sound(p, byIndex[n], pendingOutbound[n], allocated[n])
      /\ p.pend = peer[n].pend /\ p.inProgress = peer[n].inProgress
      /\ Drained(p) = d
  BY BeatSound DEF Sound
<1>2. /\ ticked \subseteq Node /\ ticked \cup {n} \subseteq Node
      /\ rekeyOn' = rekeyOn /\ rekeyOn \subseteq Node
      /\ fresh \in 1 .. MaxFresh + 1
      /\ net \in [Node -> Seq(Message)] /\ peer \in [Node -> Peer]
      /\ Other(n) \in Node
      /\ byIndex \in [Node -> SUBSET Index] /\ allocated \in [Node -> SUBSET Index]
      /\ pendingOutbound \in [Node -> SUBSET Index]
      /\ pendingOutbound[n] \in SUBSET Index
  BY NodeSound DEF IndInv, TypeOK, Tick
<1>3. /\ q \in Peer /\ Paired(q) /\ Distinct(q)
      /\ DataIndices(q) = DataIndices(p) \ d
      /\ RekeyIndices(q) = RekeyIndices(p) /\ d \cap RekeyIndices(p) = {}
      /\ q.pend = p.pend /\ q.inProgress = p.inProgress
  <2>1. q.pend = p.pend /\ q.inProgress = p.inProgress
    <3> HIDE DEF p
    <3> QED BY <1>1 DEF AfterDrain, CompleteDrain, Peer
  <2> HIDE DEF p, d
  <2> QED BY <1>1, <2>1, DrainSound
<1>4. CASE LinkDeadTimeout(n)
  <2>1. /\ net' \in [Node -> Seq(Message)] /\ fresh' \in 1 .. MaxFresh + 1
        /\ ticked' \cup rekeyOn' \subseteq Node
    BY <1>1, <1>2, <1>4 DEF LinkDeadTimeout
  <2>2. peer[n] \in Peer /\ RemoveActivePeer(n, peer[n])
    BY <1>2, <1>4 DEF LinkDeadTimeout
  <2> QED BY <2>1, <2>2, RemoveInv
<1>5. CASE Cutover(n) /\ ticked' = ticked \cup {n} /\ UNCHANGED live
  <2> DEFINE r == CutoverToNewSession(p)
  <2>1. p.pend # None
    BY <1>1, <1>5 DEF Cutover, CutoverDue
  <2>2. /\ r \in Peer
        /\ Sound(r, byIndex[n], pendingOutbound[n], allocated[n])
    <3> HIDE DEF p
    <3> QED BY <1>1, <2>1, CutoverSound DEF Sound, Registered
  <2>3. /\ net' \in [Node -> Seq(Message)] /\ fresh' \in 1 .. MaxFresh + 1
        /\ ticked' \cup rekeyOn' \subseteq Node
        /\ peer' = [peer EXCEPT ![n] = r]
        /\ UNCHANGED <<live, byIndex, pendingOutbound, allocated>>
    BY <1>1, <1>2, <1>5 DEF Cutover
  <2> HIDE DEF r
  <2> QED BY <2>2, <2>3, PeerStep
<1>6. CASE RekeyDisabled(n) /\ ticked' = ticked \cup {n} /\ UNCHANGED live
  <2>1. /\ net' \in [Node -> Seq(Message)] /\ fresh' \in 1 .. MaxFresh + 1
        /\ ticked' \cup rekeyOn' \subseteq Node
        /\ peer' = [peer EXCEPT ![n] = p]
        /\ UNCHANGED <<live, byIndex, pendingOutbound, allocated>>
    BY <1>1, <1>2, <1>6 DEF RekeyDisabled
  <2> HIDE DEF p
  <2> QED BY <1>1, <2>1, PeerStep
<1>7. CASE NoRekeyStarts(n) /\ ticked' = ticked \cup {n} /\ UNCHANGED live
  <2> DEFINE b == byIndex[n] \ d
             a == allocated[n] \ d
  <2>1. Sound(q, b, pendingOutbound[n], a)
    BY <1>1, <1>3 DEF Sound, Registered
  <2>2. /\ net' \in [Node -> Seq(Message)] /\ fresh' \in 1 .. MaxFresh + 1
        /\ ticked' \cup rekeyOn' \subseteq Node /\ live' \subseteq live
        /\ peer' = [peer EXCEPT ![n] = q]
        /\ byIndex' = [byIndex EXCEPT ![n] = b]
        /\ pendingOutbound' = [pendingOutbound EXCEPT ![n] = pendingOutbound[n]]
        /\ allocated' = [allocated EXCEPT ![n] = a]
        /\ b \in SUBSET Index /\ a \in SUBSET Index
    BY <1>1, <1>2, <1>7 DEF NoRekeyStarts, Reindex
  <2> HIDE DEF q, b, a
  <2> QED BY <1>2, <1>3, <2>1, <2>2, NodeStep
<1>8. ASSUME NEW our \in FreeAfterDrain(n), InitiateRekey(n, our),
             n \in rekeyOn /\ ~CutoverDue(peer[n]),
             ticked' = ticked \cup {n} /\ UNCHANGED live
      PROVE  IndInv'
  <2> DEFINE r == SetRekeyState(q, fresh, our)
             b == byIndex[n] \ d
             o == pendingOutbound[n] \cup {our}
             a == (allocated[n] \ d) \cup {our}
  <2>1. /\ our \in Index /\ our \notin allocated[n] \ d
        /\ fresh \in Id /\ fresh' \in 1 .. MaxFresh + 1
    BY <1>2, <1>8, ZeroAges DEF FreeAfterDrain, InitiateRekey, Id
  <2>2. ~q.inProgress /\ q.pend = None
    BY <1>1, <1>3, <1>8 DEF InitiateRekey, RekeyAllowed, CutoverDue
  <2>3. our \notin DataIndices(q)
    BY <1>1, <1>3, <2>1 DEF Sound, Registered
  <2>4. /\ r \in Peer /\ Paired(r) /\ Distinct(r)
        /\ DataIndices(r) = DataIndices(q) /\ RekeyIndices(r) = {our}
    <3> HIDE DEF q
    <3> QED BY <1>3, <2>1, <2>2, <2>3, SetRekeySound
  <2>5. pendingOutbound[n] = {}
    BY <1>1, <1>3, <2>2 DEF Sound, Registered, Paired, RekeyIndices
  <2>6. Sound(r, b, o, a)
    <3> HIDE DEF q, r
    <3> QED BY <1>1, <1>3, <2>4, <2>5 DEF Sound, Registered
  <2>7. r.hs # None /\ r.rekeyIdx # None
    BY <1>3, <2>1, <2>4, IndexAssumption
       DEF Paired, RekeyIndices, SetRekeyState, Peer
  <2>8. /\ peer' = [peer EXCEPT ![n] = r]
        /\ net' = [net EXCEPT ![Other(n)] = Push(Beaten(n), RekeyMsg1(r))]
    BY <1>8 DEF InitiateRekey
  <2>9. net' \in [Node -> Seq(Message)]
    <3> HIDE DEF r
    <3> QED BY <1>1, <1>2, <2>4, <2>7, <2>8, RekeyMsg1Typed, PushTyped
  <2>10. /\ ticked' \cup rekeyOn' \subseteq Node /\ live' \subseteq live
         /\ byIndex' = [byIndex EXCEPT ![n] = b]
         /\ pendingOutbound' = [pendingOutbound EXCEPT ![n] = o]
         /\ allocated' = [allocated EXCEPT ![n] = a]
         /\ b \in SUBSET Index /\ o \in SUBSET Index /\ a \in SUBSET Index
    BY <1>2, <1>8, <2>1 DEF InitiateRekey
  <2> HIDE DEF r, b, o, a
  <2> QED BY <2>1, <2>4, <2>6, <2>8, <2>9, <2>10, NodeStep
<1> QED BY <1>4, <1>5, <1>6, <1>7, <1>8 DEF Tick

LEMMA ElapseInv ==
  ASSUME IndInv, Up, Elapse
  PROVE  IndInv'
<1>1. ASSUME NEW n \in Node
      PROVE  /\ Grown(peer[n]) \in Peer
             /\ Sound(Grown(peer[n]), byIndex[n], pendingOutbound[n], allocated[n])
  <2>1. /\ peer[n] \in Peer
        /\ Sound(peer[n], byIndex[n], pendingOutbound[n], allocated[n])
    BY <1>1, NodeSound
  <2>2. ASSUME NEW cap \in Nat, NEW age \in 0 .. cap
        PROVE  Older(age, cap) \in 0 .. cap
    BY DEF Older
  <2>3. Grown(peer[n]) \in Peer
    <3>1. /\ Older(peer[n].age, AgeCap) \in 0 .. AgeCap
          /\ Older(peer[n].drainAge, DrainWindow) \in 0 .. DrainWindow
          /\ Older(peer[n].peerRekeyAge, Dampening) \in 0 .. Dampening
          /\ Older(peer[n].idle, LinkDead) \in 0 .. LinkDead
          /\ Older(peer[n].beatAge, Heartbeat) \in 0 .. Heartbeat
      BY <2>1, <2>2, ZeroAges DEF Peer
    <3> QED BY <2>1, <3>1 DEF Peer, Grown
  <2>4. Sound(Grown(peer[n]), byIndex[n], pendingOutbound[n], allocated[n])
    BY <2>1 DEF Grown, Peer, Sound, Paired, Distinct, Registered, DataIndices,
                RekeyIndices
  <2> QED BY <2>3, <2>4
<1>2. ASSUME NEW n \in Node PROVE Aged(net[n]) \in Seq(Message)
  BY <1>2, AgedTyped DEF Elapse, IndInv, TypeOK
<1>3. TypeOK'
  BY <1>1, <1>2 DEF Elapse, IndInv, TypeOK
<1>4. ASSUME NEW n \in live'
      PROVE  Sound(peer'[n], byIndex'[n], pendingOutbound'[n], allocated'[n])
  BY <1>1, <1>4 DEF Elapse, Up
<1>5. IndexSafety' /\ OneRekeyAtATime'
  BY <1>4 DEF IndexSafety, OneRekeyAtATime, Sound, Registered, Paired, Distinct
<1> QED BY <1>3, <1>5 DEF IndInv

LEMMA TransportInv ==
  ASSUME IndInv, Up, NEW n \in Node,
         SendFrame(n) \/ \E i \in DOMAIN net[n] : Lose(n, i)
  PROVE  IndInv'
<1>1. /\ ticked \cup rekeyOn \subseteq Node /\ fresh \in 1 .. MaxFresh + 1
      /\ net \in [Node -> Seq(Message)] /\ net[Other(n)] \in Seq(Message)
      /\ peer[n] \in Peer /\ Other(n) \in Node
  BY NodeSound DEF IndInv, TypeOK
<1>2. CASE SendFrame(n)
  <2>1. net' \in [Node -> Seq(Message)]
    BY <1>1, <1>2, LinkFrameTyped, PushTyped DEF SendFrame
  <2> QED BY <1>1, <1>2, <2>1, SameNodes DEF SendFrame
<1>3. ASSUME NEW i \in DOMAIN net[n], Lose(n, i) PROVE IndInv'
  <2>1. RemoveAt(net[n], i) \in Taken(n, i, net[n][i])
    BY DEF Taken
  <2>2. net' \in [Node -> Seq(Message)]
    BY <1>1, <1>3, <2>1, TakenTyped, MessageTypes DEF Lose
  <2> QED BY <1>1, <1>3, <2>2, SameNodes DEF Lose
<1> QED BY <1>2, <1>3

-----------------------------------------------------------------------------
(* The theorems.                                                           *)

LEMMA NextIndInv == IndInv /\ [Next]_vars => IndInv'
<1> SUFFICES ASSUME IndInv, [Next]_vars PROVE IndInv'
  OBVIOUS
<1>1. CASE UNCHANGED vars
  BY <1>1, SameNodes DEF vars, IndInv, TypeOK
<1>2. CASE Next
  <2>1. ASSUME NEW n \in Node, Receive(n) PROVE IndInv'
    <3>1. PICK i \in DOMAIN net[n] :
            HandleMsg1(n, i) \/ HandleMsg2(n, i) \/ HandleEncryptedFrame(n, i)
      BY <2>1 DEF Receive, Deliverable
    <3> QED BY <1>2, <3>1, HandleMsg1Inv, HandleMsg2Inv, HandleEncryptedFrameInv
            DEF Next
  <2>2. ASSUME NEW n \in Node, Tick(n) PROVE IndInv'
    BY <1>2, <2>2, TickInv DEF Next
  <2>3. CASE Elapse
    BY <1>2, <2>3, ElapseInv DEF Next
  <2> QED BY <1>2, <2>1, <2>2, <2>3, TransportInv DEF Next
<1> QED BY <1>1, <1>2

\* The inductive invariant holds of every behaviour.
THEOREM InductiveInvariant == Spec => []IndInv
BY InitIndInv, NextIndInv, PTL DEF Spec

\* Every variable keeps its type, whatever the network does and whatever the
\* timers are.
THEOREM TypeCorrect == Spec => []TypeOK
<1>1. IndInv => TypeOK
  BY DEF IndInv
<1> QED BY <1>1, InductiveInvariant, PTL

\* Frames can always be dispatched: no handler frees, shares or forgets an index
\* that a session of the live link uses.
THEOREM IndicesAreSafe == Spec => []IndexSafety
<1>1. IndInv => IndexSafety
  BY DEF IndInv
<1> QED BY <1>1, InductiveInvariant, PTL

\* A node never runs a rekey while the session of another waits, and the fields
\* of a rekey are set and cleared together.
THEOREM OneRekey == Spec => []OneRekeyAtATime
<1>1. IndInv => OneRekeyAtATime
  BY DEF IndInv
<1> QED BY <1>1, InductiveInvariant, PTL

-----------------------------------------------------------------------------
(* Rekeying over a transport that loses, repeats and reorders nothing.     *)
(*                                                                         *)
(* Nothing survives a unit of time on the way, a unit is no longer than    *)
(* half of the drain window and half of the age below which a msg1 counts  *)
(* as a repetition, and a heartbeat comes before the link counts as dead.  *)

Reliable ==
  /\ ~MayLose /\ ~MayDuplicate /\ ~MayReorder /\ MaxAge = 0
  /\ DrainWindow >= 2 /\ MinRekeyAge >= 2 /\ LinkDead > Heartbeat

\* Queues of messages: an answer to a rekey, the stored answer of the link's
\* own handshake, a frame whose K-bit is not the one of the receiver p.
Real(m) == m.type = "msg2" /\ m.hs # 0
Stale(m) == m.type = "msg2" /\ m.hs = 0
Odd(m, p) == m.type = "frame" /\ m.kbit # p.kbit

NoReal(q) == \A i \in 1 .. Len(q) : ~Real(q[i])
NoStale(q) == \A i \in 1 .. Len(q) : ~Stale(q[i])
NoFrame(q) == \A i \in 1 .. Len(q) : q[i].type # "frame"
NoOdd(q, p) == \A i \in 1 .. Len(q) : ~Odd(q[i], p)
OddAre(q, p, sid, idx) ==
  \A i \in 1 .. Len(q) : Odd(q[i], p) => q[i].sid = sid /\ q[i].receiver = idx
EvenAreCurrent(q, p) ==
  \A i \in 1 .. Len(q) :
    q[i].type = "frame" =>
      /\ ~q[i].replayed
      /\ q[i].kbit = p.kbit => q[i].sid = p.cur /\ q[i].receiver = p.ourIdx

\* The one answer in q, to the rekey that p waits with, before any stored
\* answer and any frame of the session it makes.
Answer(q, i, p, sid, our, their) ==
  /\ q[i].type = "msg2" /\ q[i].hs = p.hs /\ p.hs # 0
  /\ q[i].sid = sid /\ q[i].sender = their
  /\ q[i].receiver = our /\ p.rekeyIdx = our
  /\ \A j \in 1 .. Len(q) : Real(q[j]) => j = i
  /\ \A j \in 1 .. i : ~Stale(q[j]) /\ ~Odd(q[j], p)
Offered(q, p, sid, our, their) ==
  p.pend = None /\ \E i \in 1 .. Len(q) : Answer(q, i, p, sid, our, their)
Has(p, sid, our, their) == p.pend = sid /\ p.pendOur = our /\ p.pendTheir = their

Agree(p, r) ==
  /\ p.cur = r.cur /\ p.kbit = r.kbit
  /\ p.theirIdx = r.ourIdx /\ r.theirIdx = p.ourIdx
Recent(p) == p.age <= 1 /\ p.drainAge <= 1
Young(n, p) == ~(n \in rekeyOn /\ p.age >= MinRekeyAge)

\* The phases of a rekey between a node with peer record p and messages q on
\* the way to it, and the other with r and s.  Nothing is agreed on, ...
Calm(p, q, r, s) ==
  /\ Agree(p, r) /\ p.pend = None /\ r.pend = None
  /\ NoReal(q) /\ NoReal(s)
  /\ \/ NoOdd(q, p) /\ NoOdd(s, r)
     \/ /\ Recent(p) /\ Recent(r)
        /\ OddAre(q, p, p.prev, p.prevIdx) /\ OddAre(s, r, r.prev, r.prevIdx)
\* ... n answered and the answer is on the way, ...
Offer(n, p, q, r, s) ==
  /\ Agree(p, r) /\ p.pend # None /\ ~Young(n, p) /\ p.peerRekeyAge = 0
  /\ NoReal(q) /\ NoOdd(q, p) /\ NoOdd(s, r)
  /\ Offered(s, r, p.pend, p.pendTheir, p.pendOur)
\* ... both have the new session pending, ...
Ready(p, q, r, s) ==
  /\ Agree(p, r) /\ p.pend # None
  /\ Has(r, p.pend, p.pendTheir, p.pendOur)
  /\ NoReal(q) /\ NoReal(s) /\ NoOdd(q, p) /\ NoOdd(s, r)
\* ... or p uses it already and r, which has yet to tick if it is late, does not.
Lead(p, q, r, s, ticked1) ==
  /\ p.kbit # r.kbit /\ p.prev = r.cur /\ p.prevIdx = r.theirIdx /\ p.pend = None
  /\ Recent(p) /\ p.age <= p.drainAge
  /\ NoReal(q) /\ OddAre(q, p, p.prev, p.prevIdx)
  /\ OddAre(s, r, p.cur, p.theirIdx)
  /\ \/ /\ Offered(s, r, p.cur, p.theirIdx, p.ourIdx)
        /\ p.drainAge = 0 /\ p.peerRekeyAge = 0 /\ ~p.inProgress
     \/ /\ Has(r, p.cur, p.theirIdx, p.ourIdx) /\ NoReal(s)
        /\ p.drainAge = 0 \/ ~ticked1
Phase(n, p, q, o, r, s, t) ==
  \/ Calm(p, q, r, s) \/ Ready(p, q, r, s)
  \/ Offer(n, p, q, r, s) \/ Offer(o, r, s, p, q)
  \/ Lead(p, q, r, s, o \in t) \/ Lead(r, s, p, q, n \in t)

\* A msg1 is the one its sender waits with, or n will not answer it: it takes
\* it for a repetition, has a session pending, or waits with a rekey that wins.
Msg1sOk(n, p, q, o, r) ==
  \A i \in 1 .. Len(q) : q[i].type = "msg1" =>
    \/ r.hs = q[i].hs /\ r.rekeyIdx = q[i].sender
    \/ Young(n, p) \/ p.pend # None
    \/ n = Small /\ p.inProgress /\ (~NoReal(q) \/ (~Young(o, r) /\ NoStale(q)))
StaleOk(q, o, r) == NoStale(q) \/ Young(o, r)
\* n hears a frame before the next heartbeat is due, or one is on the way.
Heard(p, q, o, r, t) ==
  /\ p.idle <= Heartbeat
  /\ NoFrame(q) => p.idle <= r.beatAge
  /\ o \in t => r.beatAge < Heartbeat
Own(n, p) ==
  /\ p.inProgress \/ p.pend # None => n \in rekeyOn
  /\ p.hs # 0
  /\ p.storedMsg2 # None => p.storedMsg2.hs = 0
Side(n, p, q, o, r, t) ==
  /\ EvenAreCurrent(q, p) /\ Msg1sOk(n, p, q, o, r) /\ StaleOk(q, o, r)
  /\ Heard(p, q, o, r, t) /\ Own(n, p)
Link(n, p, q, o, r, s, t) ==
  /\ Phase(n, p, q, o, r, s, t)
  /\ Side(n, p, q, o, r, t) /\ Side(o, r, s, n, p, t)

Coupled ==
  Up /\ Link(Small, peer[Small], net[Small], Large, peer[Large], net[Large], ticked)
HitlessInv == IndInv /\ Coupled

-----------------------------------------------------------------------------
(* Queues.                                                                 *)

Rest(u, q) ==
  /\ Len(q) >= 1 /\ Len(u) = Len(q) - 1
  /\ \A i \in 1 .. Len(u) : u[i] = q[i + 1]
Longer(u, q, m) ==
  /\ Len(u) = Len(q) + 1 /\ u[Len(q) + 1] = m
  /\ \A i \in 1 .. Len(q) : u[i] = q[i]

LEMMA TakenRest ==
  ASSUME Reliable, NEW n \in Node, net \in [Node -> Seq(Message)],
         NEW i \in Deliverable(n), NEW c, NEW u \in Taken(n, i, c)
  PROVE  i = 1 /\ u \in Seq(Message) /\ Rest(u, net[n])
<1> DEFINE q == net[n]
<1>1. /\ q \in Seq(Message) /\ Len(q) \in Nat /\ DOMAIN q = 1 .. Len(q)
      /\ i = 1 /\ Len(q) >= 1 /\ u = RemoveAt(q, 1)
  BY LenProperties DEF Deliverable, Taken, Reliable
<1>2. RemoveAt(q, 1) = SubSeq(q, 1, 0) \o SubSeq(q, 2, Len(q))
  BY DEF RemoveAt
<1> HIDE DEF q
<1>3. RemoveAt(q, 1) = Tail(q)
  BY <1>1, <1>2
<1>4. Tail(q) \in Seq(Message) /\ Rest(Tail(q), q)
  BY <1>1 DEF Rest
<1> QED BY <1>1, <1>3, <1>4 DEF q

LEMMA PushLonger ==
  ASSUME NEW q \in Seq(Message), NEW m \in Message
  PROVE  /\ Push(q, m) \in Seq(Message)
         /\ Push(q, m) = q \/ Longer(Push(q, m), q, m)
         /\ Len(q) < MaxInFlight => Longer(Push(q, m), q, m)
<1>1. Push(q, m) = q \/ Push(q, m) = Append(q, m)
  BY DEF Push
<1>2. Longer(Append(q, m), q, m)
  BY DEF Longer
<1> QED BY <1>1, <1>2 DEF Push

LEMMA RestKeeps ==
  ASSUME NEW q \in Seq(Message), NEW u \in Seq(Message), Rest(u, q)
  PROVE  /\ NoReal(q) => NoReal(u)
         /\ NoStale(q) => NoStale(u)
         /\ NoFrame(q) => NoFrame(u)
         /\ \A p : NoOdd(q, p) => NoOdd(u, p)
         /\ \A p, sid, idx : OddAre(q, p, sid, idx) => OddAre(u, p, sid, idx)
         /\ \A p : EvenAreCurrent(q, p) => EvenAreCurrent(u, p)
<1>1. Len(u) \in Nat /\ Len(q) \in Nat
  OBVIOUS
<1>2. \A i \in 1 .. Len(u) : i + 1 \in 1 .. Len(q) /\ u[i] = q[i + 1]
  BY <1>1 DEF Rest
<1>3. NoReal(q) => NoReal(u)
  BY <1>2 DEF NoReal
<1>4. NoStale(q) => NoStale(u)
  BY <1>2 DEF NoStale
<1>5. NoFrame(q) => NoFrame(u)
  BY <1>2 DEF NoFrame
<1>6. \A p : NoOdd(q, p) => NoOdd(u, p)
  BY <1>2 DEF NoOdd
<1>7. \A p, sid, idx : OddAre(q, p, sid, idx) => OddAre(u, p, sid, idx)
  BY <1>2 DEF OddAre
<1>8. \A p : EvenAreCurrent(q, p) => EvenAreCurrent(u, p)
  BY <1>2 DEF EvenAreCurrent
<1> QED BY <1>3, <1>4, <1>5, <1>6, <1>7, <1>8

\* What is not the head is still there.
LEMMA RestHead ==
  ASSUME NEW q \in Seq(Message), NEW u \in Seq(Message), Rest(u, q)
  PROVE  /\ ~Real(q[1]) /\ NoReal(u) => NoReal(q)
         /\ q[1].type # "frame" /\ NoFrame(u) => NoFrame(q)
         /\ \A i \in 1 .. Len(u) : i + 1 \in 1 .. Len(q) /\ u[i] = q[i + 1]
         /\ 1 \in 1 .. Len(q)
<1>1. Len(u) \in Nat /\ Len(q) \in Nat
  OBVIOUS
<1>2. \A i \in 1 .. Len(q) : i = 1 \/ (i - 1 \in 1 .. Len(u) /\ u[i - 1] = q[i])
  BY <1>1 DEF Rest
<1>3. \A i \in 1 .. Len(u) : i + 1 \in 1 .. Len(q) /\ u[i] = q[i + 1]
  BY <1>1 DEF Rest
<1>4. ~Real(q[1]) /\ NoReal(u) => NoReal(q)
  BY <1>2 DEF NoReal
<1>5. q[1].type # "frame" /\ NoFrame(u) => NoFrame(q)
  BY <1>2 DEF NoFrame
<1> QED BY <1>1, <1>3, <1>4, <1>5 DEF Rest

LEMMA RestOffered ==
  ASSUME NEW q \in Seq(Message), NEW u \in Seq(Message), Rest(u, q),
         ~Real(q[1]), NEW p, NEW sid, NEW our, NEW their,
         Offered(q, p, sid, our, their)
  PROVE  Offered(u, p, sid, our, their) /\ ~Stale(q[1]) /\ ~Odd(q[1], p) /\ ~NoReal(q)
<1>1. PICK i \in 1 .. Len(q) : Answer(q, i, p, sid, our, their)
  BY DEF Offered
<1>2. Len(u) \in Nat /\ Len(q) \in Nat /\ Len(q) >= 1 /\ Len(u) = Len(q) - 1
  BY DEF Rest
<1>3. Real(q[i])
  BY <1>1 DEF Answer, Real
<1>4. i - 1 \in 1 .. Len(u) /\ u[i - 1] = q[i] /\ 1 \in 1 .. i
  BY <1>2, <1>3 DEF Rest
<1>5. \A j \in 1 .. Len(u) : j + 1 \in 1 .. Len(q) /\ u[j] = q[j + 1]
  BY RestHead
<1>6. \A j \in 1 .. Len(u) : Real(u[j]) => j = i - 1
  <2>1. \A j \in 1 .. Len(u) : Real(u[j]) => j + 1 = i
    BY <1>1, <1>5 DEF Answer
  <2> QED BY <1>2, <2>1
<1>7. \A j \in 1 .. i - 1 : ~Stale(u[j]) /\ ~Odd(u[j], p)
  <2>1. \A j \in 1 .. i - 1 : j \in 1 .. Len(u) /\ j + 1 \in 1 .. i
    BY <1>2, <1>4
  <2> QED BY <1>1, <1>5, <2>1 DEF Answer
<1>8. Answer(u, i - 1, p, sid, our, their)
  BY <1>1, <1>4, <1>6, <1>7 DEF Answer
<1> QED BY <1>1, <1>3, <1>4, <1>8 DEF Offered, Answer, NoReal

LEMMA LongerKeeps ==
  ASSUME NEW q \in Seq(Message), NEW u \in Seq(Message), NEW m, Longer(u, q, m)
  PROVE  /\ NoReal(q) /\ ~Real(m) => NoReal(u)
         /\ NoReal(u) => NoReal(q) /\ ~Real(m)
         /\ NoStale(q) /\ ~Stale(m) => NoStale(u)
         /\ NoFrame(u) => NoFrame(q) /\ m.type # "frame"
         /\ \A p : NoOdd(q, p) /\ ~Odd(m, p) => NoOdd(u, p)
         /\ \A p, sid, idx :
              OddAre(q, p, sid, idx) /\ (Odd(m, p) => m.sid = sid /\ m.receiver = idx)
                => OddAre(u, p, sid, idx)
<1>1. Len(u) \in Nat /\ Len(q) \in Nat
  OBVIOUS
<1>2. /\ \A i \in 1 .. Len(u) : (i \in 1 .. Len(q) /\ u[i] = q[i]) \/ u[i] = m
      /\ \A i \in 1 .. Len(q) : i \in 1 .. Len(u) /\ u[i] = q[i]
      /\ Len(q) + 1 \in 1 .. Len(u) /\ u[Len(q) + 1] = m
  BY <1>1 DEF Longer
<1>3. NoReal(q) /\ ~Real(m) => NoReal(u)
  BY <1>2 DEF NoReal
<1>4. NoReal(u) => NoReal(q) /\ ~Real(m)
  BY <1>2 DEF NoReal
<1>5. NoStale(q) /\ ~Stale(m) => NoStale(u)
  BY <1>2 DEF NoStale
<1>6. NoFrame(u) => NoFrame(q) /\ m.type # "frame"
  BY <1>2 DEF NoFrame
<1>7. \A p : NoOdd(q, p) /\ ~Odd(m, p) => NoOdd(u, p)
  BY <1>2 DEF NoOdd
<1>8. \A p, sid, idx :
        OddAre(q, p, sid, idx) /\ (Odd(m, p) => m.sid = sid /\ m.receiver = idx)
          => OddAre(u, p, sid, idx)
  BY <1>2 DEF OddAre
<1> QED BY <1>3, <1>4, <1>5, <1>6, <1>7, <1>8

LEMMA LongerOffered ==
  ASSUME NEW q \in Seq(Message), NEW u \in Seq(Message), NEW m, Longer(u, q, m),
         ~Real(m), NEW p, NEW sid, NEW our, NEW their,
         Offered(q, p, sid, our, their)
  PROVE  Offered(u, p, sid, our, their)
<1>1. PICK i \in 1 .. Len(q) : Answer(q, i, p, sid, our, their)
  BY DEF Offered
<1>2. Len(u) \in Nat /\ Len(q) \in Nat
  OBVIOUS
<1>3. /\ \A j \in 1 .. Len(u) : (j \in 1 .. Len(q) /\ u[j] = q[j]) \/ u[j] = m
      /\ i \in 1 .. Len(u) /\ u[i] = q[i]
      /\ \A j \in 1 .. i : j \in 1 .. Len(q) /\ u[j] = q[j]
  BY <1>2 DEF Longer
<1>4. Answer(u, i, p, sid, our, their)
  BY <1>1, <1>3 DEF Answer
<1> QED BY <1>3, <1>4 DEF Offered


-----------------------------------------------------------------------------
(* The invariant and changes of a queue.                                   *)

Ends(n, p, q, o, r, s) ==
  /\ n \in Node /\ o = Other(n) /\ o \in Node /\ n = Other(o)
  /\ p \in Peer /\ r \in Peer /\ Paired(p) /\ Paired(r)
  /\ q \in Seq(Message) /\ s \in Seq(Message)

LEMMA LinkSymmetric ==
  ASSUME NEW n, NEW p, NEW q, NEW o, NEW r, NEW s, NEW t, Link(n, p, q, o, r, s, t)
  PROVE  Link(o, r, s, n, p, q, t)
<1>1. Calm(p, q, r, s) => Calm(r, s, p, q)
  BY DEF Calm, Agree
<1>2. Ready(p, q, r, s) => Ready(r, s, p, q)
  BY DEF Ready, Agree, Has
<1> QED BY <1>1, <1>2 DEF Link, Phase

\* The head of the queue is taken.
LEMMA DropPhase ==
  ASSUME NEW n, NEW p, NEW q, NEW o, NEW r, NEW s, NEW t, Ends(n, p, q, o, r, s),
         Phase(n, p, q, o, r, s, t),
         NEW u \in Seq(Message), Rest(u, q), ~Real(q[1])
  PROVE  Phase(n, p, u, o, r, s, t)
<1>1. /\ NoReal(q) => NoReal(u)
      /\ \A k : NoOdd(q, k) => NoOdd(u, k)
      /\ \A k, sid, idx : OddAre(q, k, sid, idx) => OddAre(u, k, sid, idx)
      /\ \A k, sid, our, their : Offered(q, k, sid, our, their) => Offered(u, k, sid, our, their)
  BY RestKeeps, RestOffered DEF Ends
<1>2. Calm(p, q, r, s) => Calm(p, u, r, s)
  BY <1>1 DEF Calm
<1>3. Ready(p, q, r, s) => Ready(p, u, r, s)
  BY <1>1 DEF Ready
<1>4. Offer(n, p, q, r, s) => Offer(n, p, u, r, s)
  BY <1>1 DEF Offer
<1>5. Offer(o, r, s, p, q) => Offer(o, r, s, p, u)
  BY <1>1 DEF Offer
<1>6. Lead(p, q, r, s, o \in t) => Lead(p, u, r, s, o \in t)
  BY <1>1 DEF Lead
<1>7. Lead(r, s, p, q, n \in t) => Lead(r, s, p, u, n \in t)
  BY <1>1 DEF Lead
<1> QED BY <1>2, <1>3, <1>4, <1>5, <1>6, <1>7 DEF Phase

LEMMA DropMessages ==
  ASSUME NEW n, NEW p, NEW q, NEW o, NEW r, NEW s, NEW t, Ends(n, p, q, o, r, s),
         Side(n, p, q, o, r, t), NEW u \in Seq(Message), Rest(u, q), ~Real(q[1])
  PROVE  EvenAreCurrent(u, p) /\ Msg1sOk(n, p, u, o, r) /\ StaleOk(u, o, r)
<1>1. /\ NoReal(u) => NoReal(q)
      /\ NoStale(q) => NoStale(u)
      /\ \A i \in 1 .. Len(u) : i + 1 \in 1 .. Len(q) /\ u[i] = q[i + 1]
      /\ EvenAreCurrent(u, p)
  BY RestKeeps, RestHead DEF Ends, Side
<1>2. Msg1sOk(n, p, u, o, r)
  <2> SUFFICES ASSUME NEW i \in 1 .. Len(u), u[i].type = "msg1"
               PROVE  \/ r.hs = u[i].hs /\ r.rekeyIdx = u[i].sender
                      \/ Young(n, p) \/ p.pend # None
                      \/ n = Small /\ p.inProgress /\ (~NoReal(u) \/ (~Young(o, r) /\ NoStale(u)))
    BY DEF Msg1sOk
  <2>1. i + 1 \in 1 .. Len(q) /\ u[i] = q[i + 1] /\ q[i + 1].type = "msg1"
    BY <1>1
  <2>2. \/ r.hs = q[i + 1].hs /\ r.rekeyIdx = q[i + 1].sender
        \/ Young(n, p) \/ p.pend # None
        \/ n = Small /\ p.inProgress /\ (~NoReal(q) \/ (~Young(o, r) /\ NoStale(q)))
    BY <2>1 DEF Side, Msg1sOk
  <2>3. (~NoReal(q) => ~NoReal(u)) /\ (NoStale(q) => NoStale(u))
    BY RestKeeps, RestHead DEF Ends
  <2> QED BY <2>1, <2>2, <2>3
<1> QED BY <1>1, <1>2, RestKeeps DEF Side, StaleOk, Ends

LEMMA DropLink ==
  ASSUME NEW n, NEW p, NEW q, NEW o, NEW r, NEW s, NEW t, Ends(n, p, q, o, r, s),
         Link(n, p, q, o, r, s, t),
         NEW u \in Seq(Message), Rest(u, q), ~Real(q[1]), q[1].type # "frame"
  PROVE  Link(n, p, u, o, r, s, t)
<1>1. Heard(p, u, o, r, t)
  BY RestHead DEF Link, Side, Heard, Ends
<1> QED BY <1>1, DropPhase, DropMessages DEF Link, Side

\* A message that is no answer to a rekey is sent: to a queue where nothing of
\* the new session may come yet, no frame of it.
FrameFits(p, r, m) ==
  m.type = "frame" => /\ ~m.replayed /\ m.kbit = p.kbit /\ m.sid = p.cur
                      /\ m.receiver = p.theirIdx

LEMMA PushPhase ==
  ASSUME NEW n, NEW p, NEW q, NEW o, NEW r, NEW s, NEW t, Ends(n, p, q, o, r, s),
         Phase(n, p, q, o, r, s, t), NEW m \in Message, ~Real(m), FrameFits(p, r, m),
         NEW u \in Seq(Message), Longer(u, s, m)
  PROVE  Phase(n, p, q, o, r, u, t)
<1>1. /\ NoReal(s) => NoReal(u)
      /\ \A k : NoOdd(s, k) /\ ~Odd(m, k) => NoOdd(u, k)
      /\ \A k, sid, idx : OddAre(s, k, sid, idx) /\ (Odd(m, k) => m.sid = sid /\ m.receiver = idx)
                            => OddAre(u, k, sid, idx)
      /\ \A k, sid, our, their : Offered(s, k, sid, our, their) => Offered(u, k, sid, our, their)
  BY LongerKeeps, LongerOffered DEF Ends
<1>2. p.kbit = r.kbit => ~Odd(m, r)
  BY DEF Odd, FrameFits
<1>3. Odd(m, r) => m.sid = p.cur /\ m.receiver = p.theirIdx
  BY DEF Odd, FrameFits
<1>4. Calm(p, q, r, s) => Calm(p, q, r, u)
  BY <1>1, <1>2 DEF Calm, Agree
<1>5. Ready(p, q, r, s) => Ready(p, q, r, u)
  BY <1>1, <1>2 DEF Ready, Agree
<1>6. Offer(n, p, q, r, s) => Offer(n, p, q, r, u)
  BY <1>1, <1>2 DEF Offer, Agree
<1>7. Offer(o, r, s, p, q) => Offer(o, r, u, p, q)
  BY <1>1, <1>2 DEF Offer, Agree
<1>8. Lead(p, q, r, s, o \in t) => Lead(p, q, r, u, o \in t)
  BY <1>1, <1>3 DEF Lead
<1>9. Lead(r, s, p, q, n \in t) => Lead(r, u, p, q, n \in t)
  BY <1>1, <1>3 DEF Lead
<1> QED BY <1>4, <1>5, <1>6, <1>7, <1>8, <1>9 DEF Phase

\* What r may find in its queue, after m was added.
LEMMA PushMessages ==
  ASSUME NEW n, NEW p, NEW q, NEW o, NEW r, NEW s, NEW t, Ends(n, p, q, o, r, s),
         Link(n, p, q, o, r, s, t), NEW m \in Message, ~Real(m), FrameFits(p, r, m),
         m.type = "msg1" => p.hs = m.hs /\ p.rekeyIdx = m.sender,
         Stale(m) => Young(n, p),
         NEW u \in Seq(Message), Longer(u, s, m)
  PROVE  EvenAreCurrent(u, r) /\ Msg1sOk(o, r, u, n, p) /\ StaleOk(u, n, p)
<1>1. Len(u) \in Nat /\ Len(s) \in Nat
  BY DEF Ends
<1>2. \A i \in 1 .. Len(u) : (i \in 1 .. Len(s) /\ u[i] = s[i]) \/ u[i] = m
  BY <1>1 DEF Longer
<1>3. /\ EvenAreCurrent(s, r) /\ Msg1sOk(o, r, s, n, p) /\ StaleOk(s, n, p)
      /\ Phase(n, p, q, o, r, s, t)
  BY DEF Link, Side
<1>4. m.type = "frame" /\ m.kbit = r.kbit => m.sid = r.cur /\ m.receiver = r.ourIdx
  BY <1>3 DEF FrameFits, Phase, Calm, Ready, Offer, Lead, Agree
<1>5. EvenAreCurrent(u, r)
  BY <1>2, <1>3, <1>4 DEF EvenAreCurrent, FrameFits
<1>6. /\ NoReal(u) => NoReal(s)
      /\ NoStale(s) /\ ~Stale(m) => NoStale(u)
  BY LongerKeeps DEF Ends
<1>7. StaleOk(u, n, p)
  BY <1>3, <1>6 DEF StaleOk
<1>8. Msg1sOk(o, r, u, n, p)
  <2> SUFFICES ASSUME NEW i \in 1 .. Len(u), u[i].type = "msg1"
               PROVE  \/ p.hs = u[i].hs /\ p.rekeyIdx = u[i].sender
                      \/ Young(o, r) \/ r.pend # None
                      \/ o = Small /\ r.inProgress /\ (~NoReal(u) \/ (~Young(n, p) /\ NoStale(u)))
    BY DEF Msg1sOk
  <2>1. CASE u[i] = m
    BY <2>1
  <2>2. CASE i \in 1 .. Len(s) /\ u[i] = s[i]
    <3>1. \/ p.hs = u[i].hs /\ p.rekeyIdx = u[i].sender
          \/ Young(o, r) \/ r.pend # None
          \/ o = Small /\ r.inProgress /\ (~NoReal(s) \/ (~Young(n, p) /\ NoStale(s)))
      BY <1>3, <2>2 DEF Msg1sOk
    <3> QED BY <1>6, <3>1
  <2> QED BY <1>2, <2>1, <2>2
<1> QED BY <1>5, <1>7, <1>8

LEMMA PushLink ==
  ASSUME NEW n, NEW p, NEW q, NEW o, NEW r, NEW s, NEW t, Ends(n, p, q, o, r, s),
         Link(n, p, q, o, r, s, t), NEW m \in Message, ~Real(m), FrameFits(p, r, m),
         m.type = "msg1" => p.hs = m.hs /\ p.rekeyIdx = m.sender,
         Stale(m) => Young(n, p),
         NEW u \in Seq(Message), u = s \/ Longer(u, s, m)
  PROVE  Link(n, p, q, o, r, u, t)
<1>1. CASE u = s
  BY <1>1
<1>2. CASE Longer(u, s, m)
  <2>1. NoFrame(u) => NoFrame(s)
    BY <1>2, LongerKeeps DEF Ends
  <2>2. Heard(r, u, n, p, t)
    BY <2>1 DEF Link, Side, Heard
  <2> QED BY <1>2, <2>2, PushPhase, PushMessages DEF Link, Side
<1> QED BY <1>1, <1>2


-----------------------------------------------------------------------------
(* The invariant and ActivePeer's methods.                                 *)

LEMMA Times ==
  /\ Heartbeat \in Nat /\ Heartbeat > 0 /\ LinkDead \in Nat /\ Dampening \in Nat
  /\ Dampening > 0 /\ DrainWindow \in Nat /\ MinRekeyAge \in Nat /\ RekeyAfter \in Nat
BY TimeAssumption

LEMMA SameWait ==
  ASSUME NEW p, NEW k, k.kbit = p.kbit
  PROVE  /\ \A q : NoOdd(q, k) <=> NoOdd(q, p)
         /\ \A q, sid, idx : OddAre(q, k, sid, idx) <=> OddAre(q, p, sid, idx)
         /\ k.cur = p.cur /\ k.ourIdx = p.ourIdx =>
              \A q : EvenAreCurrent(q, k) <=> EvenAreCurrent(q, p)
         /\ k.hs = p.hs /\ k.rekeyIdx = p.rekeyIdx /\ k.pend = p.pend =>
              \A q, sid, our, their :
                Offered(q, k, sid, our, their) <=> Offered(q, p, sid, our, their)
<1>1. \A m : Odd(m, k) <=> Odd(m, p)
  BY DEF Odd
<1>2. \A q : NoOdd(q, k) <=> NoOdd(q, p)
  BY <1>1 DEF NoOdd
<1>3. \A q, sid, idx : OddAre(q, k, sid, idx) <=> OddAre(q, p, sid, idx)
  BY <1>1 DEF OddAre
<1>4. k.cur = p.cur /\ k.ourIdx = p.ourIdx =>
        \A q : EvenAreCurrent(q, k) <=> EvenAreCurrent(q, p)
  BY DEF EvenAreCurrent
<1>5. k.hs = p.hs /\ k.rekeyIdx = p.rekeyIdx /\ k.pend = p.pend =>
        \A q, sid, our, their :
          Offered(q, k, sid, our, their) <=> Offered(q, p, sid, our, their)
  BY <1>1 DEF Offered, Answer
<1> QED BY <1>2, <1>3, <1>4, <1>5

\* What the invariant says of a record: the sessions and the K-bit, ...
SameSessions(k, p) ==
  /\ k.cur = p.cur /\ k.ourIdx = p.ourIdx /\ k.theirIdx = p.theirIdx /\ k.kbit = p.kbit
  /\ k.pend = p.pend /\ k.pendOur = p.pendOur /\ k.pendTheir = p.pendTheir
  /\ k.age = p.age /\ k.storedMsg2 = p.storedMsg2
SameDrain(k, p) ==
  k.prev = p.prev /\ k.prevIdx = p.prevIdx /\ k.drainAge = p.drainAge
\* ... and the rekey under way.
SameRekey(k, p) ==
  /\ k.inProgress = p.inProgress /\ k.hs = p.hs /\ k.rekeyIdx = p.rekeyIdx
  /\ k.peerRekeyAge = p.peerRekeyAge

\* Clocks, counters and, when it is long over, the drain.
LEMMA KeepPhase ==
  ASSUME NEW n, NEW p, NEW q, NEW o, NEW r, NEW s, NEW t,
         Phase(n, p, q, o, r, s, t), NEW k, SameSessions(k, p), SameRekey(k, p),
         SameDrain(k, p) \/ (k.drainAge = p.drainAge /\ ~Recent(p))
  PROVE  Phase(n, k, q, o, r, s, t)
<1>1. /\ \A x : NoOdd(x, k) <=> NoOdd(x, p)
      /\ \A x, sid, idx : OddAre(x, k, sid, idx) <=> OddAre(x, p, sid, idx)
      /\ \A x, sid, our, their :
           Offered(x, k, sid, our, their) <=> Offered(x, p, sid, our, their)
      /\ Agree(k, r) <=> Agree(p, r)
      /\ Agree(r, k) <=> Agree(r, p)
      /\ Young(n, k) <=> Young(n, p)
      /\ Recent(k) <=> Recent(p)
      /\ \A sid, our, their : Has(k, sid, our, their) <=> Has(p, sid, our, their)
  <2>1. /\ k.kbit = p.kbit /\ k.hs = p.hs /\ k.rekeyIdx = p.rekeyIdx
        /\ k.pend = p.pend /\ k.drainAge = p.drainAge
    BY DEF SameSessions, SameRekey, SameDrain
  <2>2. /\ Agree(k, r) <=> Agree(p, r)
        /\ Agree(r, k) <=> Agree(r, p)
        /\ Young(n, k) <=> Young(n, p)
        /\ Recent(k) <=> Recent(p)
        /\ \A sid, our, their : Has(k, sid, our, their) <=> Has(p, sid, our, their)
    BY <2>1 DEF SameSessions, Agree, Young, Recent, Has
  <2> QED BY <2>1, <2>2, SameWait
<1>2. Calm(p, q, r, s) => Calm(k, q, r, s)
  BY <1>1 DEF Calm, SameSessions, SameDrain
<1>3. Ready(p, q, r, s) => Ready(k, q, r, s)
  BY <1>1 DEF Ready, SameSessions, Agree
<1>4. Offer(n, p, q, r, s) => Offer(n, k, q, r, s)
  BY <1>1 DEF Offer, SameSessions, SameRekey
<1>5. Offer(o, r, s, p, q) => Offer(o, r, s, k, q)
  BY <1>1 DEF Offer, Agree, SameSessions
<1>6. Lead(p, q, r, s, o \in t) => Lead(k, q, r, s, o \in t)
  BY <1>1 DEF Lead, SameSessions, SameDrain, SameRekey
<1>7. Lead(r, s, p, q, n \in t) => Lead(r, s, k, q, n \in t)
  BY <1>1 DEF Lead, SameSessions
<1> QED BY <1>2, <1>3, <1>4, <1>5, <1>6, <1>7 DEF Phase

LEMMA KeepMessages ==
  ASSUME NEW n, NEW p, NEW q, NEW o, NEW r, NEW s, NEW t,
         Link(n, p, q, o, r, s, t), NEW k, SameSessions(k, p), SameRekey(k, p)
  PROVE  /\ EvenAreCurrent(q, k) /\ Msg1sOk(n, k, q, o, r) /\ StaleOk(q, o, r) /\ Own(n, k)
         /\ EvenAreCurrent(s, r) /\ Msg1sOk(o, r, s, n, k) /\ StaleOk(s, n, k) /\ Own(o, r)
<1>1. Young(n, k) <=> Young(n, p)
  BY DEF SameSessions, Young
<1>2. EvenAreCurrent(q, k)
  BY SameWait DEF SameSessions, Link, Side
<1>3. Msg1sOk(n, k, q, o, r) /\ Msg1sOk(o, r, s, n, k)
  BY <1>1 DEF Msg1sOk, SameSessions, SameRekey, Link, Side
<1>4. StaleOk(s, n, k)
  BY <1>1 DEF StaleOk, Link, Side
<1>5. Own(n, k)
  BY DEF Own, SameSessions, SameRekey, Link, Side
<1> QED BY <1>2, <1>3, <1>4, <1>5 DEF Link, Side

\* A frame of the session r expects was accepted.
LEMMA HearLink ==
  ASSUME NEW n, NEW p, NEW q, NEW o, NEW r, NEW s, NEW t, Ends(n, p, q, o, r, s),
         Link(n, p, q, o, r, s, t), NEW u \in Seq(Message), Rest(u, q), ~Real(q[1])
  PROVE  Link(n, [p EXCEPT !.failures = 0, !.idle = 0], u, o, r, s, t)
<1> DEFINE k == [p EXCEPT !.failures = 0, !.idle = 0]
<1>1. /\ SameSessions(k, p) /\ SameRekey(k, p) /\ SameDrain(k, p)
      /\ k.idle = 0 /\ k.beatAge = p.beatAge /\ k \in Peer /\ k.inProgress = p.inProgress
      /\ r.beatAge >= 0 /\ Heartbeat >= 0
  <2>1. p \in Peer /\ r.beatAge \in 0 .. Heartbeat /\ 0 \in 0 .. LinkDead
        /\ 0 \in 0 .. FailureLimit
    BY ZeroAges DEF Ends, Peer
  <2>2. k \in Peer
    BY <2>1 DEF Peer
  <2>3. k.idle = 0 /\ k.beatAge = p.beatAge /\ k.inProgress = p.inProgress
    BY <2>1 DEF Peer
  <2>4. SameSessions(k, p) /\ SameRekey(k, p) /\ SameDrain(k, p)
    BY <2>1 DEF Peer, SameSessions, SameRekey, SameDrain
  <2> QED BY <2>1, <2>2, <2>3, <2>4, Times
<1> HIDE DEF k
<1>2. Phase(n, k, u, o, r, s, t)
  BY <1>1, DropPhase, KeepPhase DEF Link
<1>3. /\ EvenAreCurrent(u, k) /\ Msg1sOk(n, k, u, o, r) /\ StaleOk(u, o, r) /\ Own(n, k)
      /\ EvenAreCurrent(s, r) /\ Msg1sOk(o, r, s, n, k) /\ StaleOk(s, n, k) /\ Own(o, r)
  <2>1. EvenAreCurrent(u, p) /\ Msg1sOk(n, p, u, o, r) /\ StaleOk(u, o, r)
    BY DropMessages DEF Link
  <2>2. EvenAreCurrent(u, k)
    BY <1>1, <2>1, SameWait DEF SameSessions
  <2>3. Msg1sOk(n, k, u, o, r)
    BY <1>1, <2>1 DEF Msg1sOk, SameSessions, SameRekey, Young
  <2> QED BY <1>1, <2>1, <2>2, <2>3, KeepMessages
<1>4. Heard(k, u, o, r, t) /\ Heard(r, s, n, k, t)
  BY <1>1 DEF Heard, Link, Side
<1> QED BY <1>2, <1>3, <1>4 DEF Link, Side, k

\* The heartbeat of a tick: a frame is on the way whenever the clock is reset.
LEMMA BeatLink ==
  ASSUME NEW n, NEW p, NEW q, NEW o, NEW r, NEW s, NEW t, Ends(n, p, q, o, r, s),
         Link(n, p, q, o, r, s, t), NEW u \in Seq(Message),
         BeatDue(p) => Longer(u, s, LinkFrame(p)),
         ~BeatDue(p) => u = s
  PROVE  Link(n, AfterBeat(p), q, o, r, u, t) /\ AfterBeat(p).beatAge < Heartbeat
<1> DEFINE k == AfterBeat(p)
<1>1. /\ SameSessions(k, p) /\ SameRekey(k, p) /\ SameDrain(k, p)
      /\ k.idle = p.idle /\ k.beatAge < Heartbeat
      /\ ~BeatDue(p) => k = p
  <2>1. Heartbeat > 0 /\ p.beatAge \in 0 .. Heartbeat /\ Heartbeat \in Nat
    BY Times DEF Ends, Peer
  <2> QED BY <2>1 DEF AfterBeat, BeatDue, Ends, Peer, SameSessions, SameRekey, SameDrain
<1>2. CASE ~BeatDue(p)
  BY <1>1, <1>2
<1>3. CASE BeatDue(p)
  <2>1. /\ LinkFrame(p) \in Message /\ ~Real(LinkFrame(p)) /\ ~Stale(LinkFrame(p))
        /\ FrameFits(p, r, LinkFrame(p)) /\ LinkFrame(p).type = "frame"
    BY LinkFrameTyped DEF LinkFrame, Real, Stale, FrameFits, Ends
  <2>2. Link(n, p, q, o, r, u, t)
    BY <1>3, <2>1, PushLink
  <2>3. ~NoFrame(u)
    BY <1>3, <2>1, LongerKeeps DEF Ends
  <2> HIDE DEF k
  <2>4. Phase(n, k, q, o, r, u, t)
    BY <1>1, <2>2, KeepPhase DEF Link
  <2>5. Heard(k, q, o, r, t) /\ Heard(r, u, n, k, t)
    BY <1>1, <2>2, <2>3 DEF Heard, Link, Side
  <2> QED BY <1>1, <2>2, <2>4, <2>5, KeepMessages DEF Link, Side, k
<1> QED BY <1>2, <1>3

\* n has ticked in this unit of time.
LEMMA TickedLink ==
  ASSUME NEW n, NEW p, NEW q, NEW o, NEW r, NEW s, NEW t, Ends(n, p, q, o, r, s),
         Link(n, p, q, o, r, s, t), p.beatAge < Heartbeat, p.pend = None
  PROVE  Link(n, p, q, o, r, s, t \cup {n})
<1>1. n # o
  BY NodeAssumption DEF Ends, Node, Other
<1>2. \A sid \in Id : \A our, their : ~Has(p, sid, our, their)
  BY IndexAssumption DEF Has
<1>3. Lead(r, s, p, q, n \in t) => Lead(r, s, p, q, n \in t \cup {n})
  BY <1>2 DEF Lead, Ends, Peer
<1>4. Phase(n, p, q, o, r, s, t \cup {n})
  BY <1>1, <1>3 DEF Link, Phase
<1>5. Heard(p, q, o, r, t \cup {n}) /\ Heard(r, s, n, p, t \cup {n})
  BY <1>1 DEF Link, Side, Heard
<1> QED BY <1>4, <1>5 DEF Link, Side

\* The drained session is erased.
LEMMA DrainLink ==
  ASSUME Reliable, NEW n, NEW p, NEW q, NEW o, NEW r, NEW s, NEW t, Ends(n, p, q, o, r, s),
         Link(n, p, q, o, r, s, t)
  PROVE  Link(n, AfterDrain(p), q, o, r, s, t)
<1> DEFINE k == AfterDrain(p)
<1>1. /\ SameSessions(k, p) /\ SameRekey(k, p) /\ k.drainAge = p.drainAge
      /\ k.idle = p.idle /\ k.beatAge = p.beatAge
      /\ k = p \/ p.drainAge >= DrainWindow
  BY DEF AfterDrain, DrainExpired, CompleteDrain, Ends, Peer, SameSessions, SameRekey
<1>2. k = p \/ ~Recent(p)
  BY SMTT(30), <1>1, Times DEF Recent, Reliable, Ends, Peer
<1> HIDE DEF k
<1>3. Phase(n, k, q, o, r, s, t)
  BY <1>1, <1>2, KeepPhase DEF Link
<1>4. Heard(k, q, o, r, t) /\ Heard(r, s, n, k, t)
  BY <1>1 DEF Heard, Link, Side
<1> QED BY <1>1, <1>3, <1>4, KeepMessages DEF Link, Side, k


LEMMA MessageKinds ==
  ASSUME NEW q \in Seq(Message), NEW i \in 1 .. Len(q)
  PROVE  /\ q[i] \in Message
         /\ q[i].type = "msg1" => q[i] \in Msg1
         /\ q[i].type = "msg2" => q[i] \in Msg2
         /\ q[i].type = "frame" => q[i] \in Frame
<1>1. q[i] \in Message
  BY ElementOfSeq
<1> QED BY <1>1 DEF Message, Msg1, Msg2, Frame

\* An answer comes to a node that waits for it.
LEMMA Waits ==
  ASSUME NEW q \in Seq(Message), NEW p \in Peer, Paired(p), NEW sid, NEW our, NEW their,
         Offered(q, p, sid, our, their)
  PROVE  p.hs \in Id /\ p.inProgress /\ p.pend = None /\ ~NoReal(q)
<1>1. PICK i \in 1 .. Len(q) : Answer(q, i, p, sid, our, their)
  BY DEF Offered
<1>2. q[i] \in Msg2
  BY <1>1, MessageKinds DEF Answer
<1>3. p.hs \in Id /\ Real(q[i])
  BY <1>1, <1>2 DEF Answer, Msg2, Real
<1> QED BY <1>3, IndexAssumption DEF Paired, Offered, NoReal

LEMMA RecentIsYoung ==
  ASSUME Reliable, NEW n, NEW p \in Peer, Recent(p)
  PROVE  Young(n, p)
BY Times, ZeroAges DEF Reliable, Recent, Young, Peer

LEMMA InitiateLink ==
  ASSUME Reliable, NEW n, NEW p, NEW q, NEW o, NEW r, NEW s, NEW t, Ends(n, p, q, o, r, s),
         Link(n, p, q, o, r, s, t), ~p.inProgress, p.pend = None, ~IsRekeyDampened(p),
         n \in rekeyOn, NEW h \in Id, h # 0, NEW our \in Index
  PROVE  Link(n, SetRekeyState(p, h, our), q, o, r, s, t)
<1> DEFINE k == SetRekeyState(p, h, our)
<1>1. /\ SameSessions(k, p) /\ SameDrain(k, p) /\ k.hs = h /\ k.rekeyIdx = our
      /\ k.idle = p.idle /\ k.beatAge = p.beatAge
  BY DEF SetRekeyState, Ends, Peer, SameSessions, SameDrain
<1> HIDE DEF k
<1>2. /\ p.hs = None /\ p.peerRekeyAge # 0
      /\ \A sid, x, y : ~Offered(q, p, sid, x, y)
      /\ \A sid \in Id : \A x, y : ~Has(p, sid, x, y)
      /\ r.cur \in Id
  <2>1. p.hs = None /\ r.cur \in Id /\ p \in Peer /\ p.peerRekeyAge \in 0 .. Dampening
    BY DEF Ends, Paired, Peer
  <2>2. p.peerRekeyAge # 0
    BY <2>1, Times DEF IsRekeyDampened
  <2>3. \A sid, x, y : ~Offered(q, p, sid, x, y)
    BY Waits DEF Ends
  <2> QED BY <2>1, <2>2, <2>3, IndexAssumption DEF Has
<1>3. Phase(n, p, q, o, r, s, t) => Calm(p, q, r, s) \/ Lead(p, q, r, s, o \in t)
  BY <1>2 DEF Phase, Ready, Offer, Lead
<1>4. /\ \A x : NoOdd(x, k) <=> NoOdd(x, p)
      /\ \A x, sid, idx : OddAre(x, k, sid, idx) <=> OddAre(x, p, sid, idx)
      /\ EvenAreCurrent(q, k) <=> EvenAreCurrent(q, p)
  BY <1>1, SameWait DEF SameSessions
<1>5. Phase(n, k, q, o, r, s, t)
  <2>1. Calm(p, q, r, s) => Calm(k, q, r, s)
    BY <1>1, <1>4 DEF Calm, SameSessions, SameDrain, Agree, Recent
  <2>2. Lead(p, q, r, s, o \in t) => Lead(k, q, r, s, o \in t)
    BY <1>1, <1>2, <1>4 DEF Lead, SameSessions, SameDrain, Recent
  <2> QED BY <1>3, <2>1, <2>2 DEF Phase, Link
<1>6. Young(n, k) <=> Young(n, p)
  BY <1>1 DEF Young, SameSessions
<1>7. Msg1sOk(n, k, q, o, r)
  BY <1>1 DEF Msg1sOk, Link, Side, SameSessions, Young
<1>8. Msg1sOk(o, r, s, n, k)
  <2>1. \A i \in 1 .. Len(s) : s[i].type = "msg1" => s[i].hs # None
    BY MessageKinds, IndexAssumption DEF Msg1, Ends
  <2> QED BY <1>2, <1>6, <2>1 DEF Msg1sOk, Link, Side
<1>9. Own(n, k) /\ StaleOk(s, n, k) /\ Heard(k, q, o, r, t) /\ Heard(r, s, n, k, t)
  BY <1>1, <1>6 DEF Own, StaleOk, Heard, Link, Side, SameSessions
<1> QED BY <1>4, <1>5, <1>7, <1>8, <1>9 DEF Link, Side, k

LEMMA CutoverLink ==
  ASSUME Reliable, NEW n, NEW p, NEW q, NEW o, NEW r, NEW s, NEW t, Ends(n, p, q, o, r, s),
         Link(n, p, q, o, r, s, t), p.pend # None,
         NEW v, v = t \/ (v = t \cup {n} /\ p.beatAge < Heartbeat)
  PROVE  Link(n, CutoverToNewSession(p), q, o, r, s, v)
<1> DEFINE c == CutoverToNewSession(p)
<1>1. /\ c.prev = p.cur /\ c.prevIdx = p.ourIdx /\ c.drainAge = 0
      /\ c.cur = p.pend /\ c.ourIdx = p.pendOur /\ c.theirIdx = p.pendTheir
      /\ c.pend = None /\ c.kbit = ~p.kbit /\ c.age = 0 /\ c.idle = 0
      /\ ~c.inProgress /\ c.hs = p.hs
      /\ c.rekeyIdx = p.rekeyIdx /\ c.peerRekeyAge = p.peerRekeyAge
      /\ c.beatAge = p.beatAge /\ c.storedMsg2 = p.storedMsg2
  BY DEF CutoverToNewSession, Ends, Peer
<1>2. /\ p.kbit \in BOOLEAN /\ r.kbit \in BOOLEAN /\ p \in Peer /\ r \in Peer
      /\ q \in Seq(Message) /\ n # o
  BY NodeAssumption DEF Ends, Peer, Node, Other
<1> HIDE DEF c
<1>3. Recent(c) /\ Young(n, c)
  BY <1>1, Times DEF Recent, Young, Reliable
<1>4. \A i \in 1 .. Len(q) : q[i].type = "frame" =>
        /\ q[i].kbit \in BOOLEAN /\ ~q[i].replayed
        /\ Odd(q[i], c) <=> ~Odd(q[i], p)
        /\ q[i].kbit = p.kbit => q[i].sid = p.cur /\ q[i].receiver = p.ourIdx
  BY <1>1, <1>2, MessageKinds DEF Odd, Frame, Link, Side, EvenAreCurrent
<1>5. OddAre(q, c, c.prev, c.prevIdx)
  BY <1>1, <1>4 DEF OddAre, Odd
<1>6. \/ Ready(p, q, r, s) \/ Offer(n, p, q, r, s)
      \/ /\ Lead(r, s, p, q, n \in t) /\ NoReal(q)
         /\ Has(p, r.cur, r.theirIdx, r.ourIdx)
  BY DEF Link, Phase, Calm, Offer, Lead, Offered
<1> DEFINE Done == /\ Phase(n, c, q, o, r, s, v) /\ EvenAreCurrent(q, c)
                   /\ r.pend # None \/ ~NoReal(s) \/ Young(o, r)
<1>7. NoOdd(q, p) => EvenAreCurrent(q, c)
  BY <1>4 DEF NoOdd, EvenAreCurrent, Odd
<1>8. ASSUME Ready(p, q, r, s) PROVE Done
  <2>1. OddAre(s, r, c.cur, c.theirIdx)
    BY <1>8 DEF Ready, NoOdd, OddAre
  <2>2. Lead(c, q, r, s, o \in v)
    BY <1>1, <1>2, <1>3, <1>5, <1>8, <2>1 DEF Ready, Lead, Agree, Has
  <2>3. r.pend # None
    BY <1>8 DEF Ready, Has
  <2> QED BY <1>7, <1>8, <2>2, <2>3 DEF Ready, Phase
<1>9. ASSUME Offer(n, p, q, r, s) PROVE Done
  <2>1. OddAre(s, r, c.cur, c.theirIdx)
    BY <1>9 DEF Offer, NoOdd, OddAre
  <2>2. Lead(c, q, r, s, o \in v)
    BY <1>1, <1>2, <1>3, <1>5, <1>9, <2>1 DEF Offer, Lead, Agree
  <2>3. ~NoReal(s)
    BY <1>9, Waits DEF Offer, Ends
  <2> QED BY <1>7, <1>9, <2>2, <2>3 DEF Offer, Phase
<1>10. ASSUME Lead(r, s, p, q, n \in t), NoReal(q), Has(p, r.cur, r.theirIdx, r.ourIdx)
       PROVE  Done
  <2>1. c.kbit = r.kbit /\ Recent(r) /\ OddAre(q, p, r.cur, r.theirIdx)
    BY <1>1, <1>2, <1>10 DEF Lead
  <2>2. Calm(c, q, r, s)
    BY <1>1, <1>3, <1>5, <1>10, <2>1 DEF Lead, Calm, Agree, Has
  <2>3. EvenAreCurrent(q, c)
    BY <1>1, <1>4, <1>10, <2>1 DEF OddAre, EvenAreCurrent, Has, Odd
  <2>4. Young(o, r)
    BY <1>2, <2>1, RecentIsYoung
  <2> QED BY <2>2, <2>3, <2>4 DEF Phase
<1>11. Done
  BY <1>6, <1>8, <1>9, <1>10
<1>12. Msg1sOk(n, c, q, o, r) /\ Msg1sOk(o, r, s, n, c) /\ StaleOk(s, n, c)
  BY <1>1, <1>3, <1>11 DEF Msg1sOk, StaleOk, Link, Side
<1>13. Heard(c, q, o, r, v) /\ Heard(r, s, n, c, v)
  <2>1. r.beatAge \in 0 .. Heartbeat /\ Heartbeat \in Nat
    BY <1>2, ZeroAges DEF Peer
  <2> QED BY <1>1, <1>2, <2>1 DEF Heard, Link, Side
<1>14. Own(n, c)
  BY <1>1 DEF Own, Link, Side
<1> QED BY <1>11, <1>12, <1>13, <1>14 DEF Link, Side, c

\* A frame that comes opens, after a cutover if it is the first of the new
\* session, and comes in on a registered index.
LEMMA FlipLink ==
  ASSUME Reliable, NEW n, NEW p, NEW q, NEW o, NEW r, NEW s, NEW t, Ends(n, p, q, o, r, s),
         Link(n, p, q, o, r, s, t), Len(q) >= 1, q[1].type = "frame"
  PROVE  /\ q[1].receiver \in DataIndices(p) /\ Opens(AfterKBit(p, q[1]), q[1])
         /\ Link(n, AfterKBit(p, q[1]), q, o, r, s, t)
<1> DEFINE f == q[1]
           k == AfterKBit(p, f)
<1>1. 1 \in 1 .. Len(q) /\ f \in Frame /\ p \in Peer /\ r \in Peer
  BY MessageKinds DEF Ends
<1>2. f.receiver # None /\ f.sid # None /\ r.cur # None /\ ~f.replayed
  <2>1. f.receiver # None /\ f.sid # None /\ r.cur # None
    BY <1>1, IndexAssumption DEF Frame, Peer
  <2>2. EvenAreCurrent(q, p)
    BY DEF Link, Side
  <2> QED BY <1>1, <2>1, <2>2 DEF EvenAreCurrent
<1> HIDE DEF f
<1>3. CASE f.kbit = p.kbit
  <2>1. f.sid = p.cur /\ f.receiver = p.ourIdx
    BY <1>1, <1>3 DEF Link, Side, EvenAreCurrent, f
  <2>2. k = p
    BY <1>3 DEF AfterKBit
  <2> QED BY <1>2, <2>1, <2>2 DEF DataIndices, Opens, f
<1>4. CASE f.kbit # p.kbit /\ p.pend = None
  <2>1. k = p
    BY <1>4 DEF AfterKBit
  <2>2. Odd(f, p) /\ f.type = "frame"
    BY <1>4 DEF Odd, f
  <2>3. \A sid, our, their : ~Offered(q, p, sid, our, their)
    BY <1>1, <2>2 DEF Offered, Answer, f
  <2>4. f.sid = p.prev /\ f.receiver = p.prevIdx
    <3>1. \/ Calm(p, q, r, s) \/ Lead(p, q, r, s, o \in t)
      BY <1>2, <1>4, <2>3 DEF Link, Phase, Ready, Offer, Lead, Has
    <3>2. OddAre(q, p, p.prev, p.prevIdx)
      BY <1>1, <2>2, <3>1 DEF Calm, Lead, NoOdd, f
    <3> QED BY <1>1, <2>2, <3>2 DEF OddAre, f
  <2> QED BY <1>2, <2>1, <2>4 DEF DataIndices, Opens, f
<1>5. CASE f.kbit # p.kbit /\ p.pend # None
  <2>1. k = CutoverToNewSession(p)
    BY <1>5 DEF AfterKBit
  <2>2. Odd(f, p) /\ f.type = "frame"
    BY <1>5 DEF Odd, f
  <2>3. Lead(r, s, p, q, n \in t) /\ Has(p, r.cur, r.theirIdx, r.ourIdx)
    <3>1. ~NoOdd(q, p)
      BY <1>1, <2>2 DEF NoOdd, f
    <3> QED BY <1>5, <3>1 DEF Link, Phase, Calm, Ready, Offer, Lead, Offered
  <2>4. f.sid = r.cur /\ f.receiver = r.theirIdx
    BY <1>1, <2>2, <2>3 DEF Lead, OddAre, f
  <2>5. k.cur = p.pend
    BY <1>1, <2>1 DEF CutoverToNewSession, Peer
  <2>6. Link(n, k, q, o, r, s, t)
    BY <1>5, <2>1, CutoverLink
  <2> QED BY <1>2, <2>3, <2>4, <2>5, <2>6 DEF DataIndices, Opens, Has, f
<1> QED BY <1>3, <1>4, <1>5


\* A stored answer makes a node that waits give its rekey up.
LEMMA AbandonLink ==
  ASSUME NEW n, NEW p, NEW q, NEW o, NEW r, NEW s, NEW t, Ends(n, p, q, o, r, s),
         Link(n, p, q, o, r, s, t), p.inProgress, Len(q) >= 1, Stale(q[1])
  PROVE  Link(n, AbandonRekey(p), q, o, r, s, t)
<1> DEFINE k == AbandonRekey(p)
<1>1. /\ SameSessions(k, p) /\ SameDrain(k, p) /\ k.hs = None /\ ~k.inProgress
      /\ k.idle = p.idle /\ k.beatAge = p.beatAge /\ k.peerRekeyAge = p.peerRekeyAge
      /\ p.pend = None
  BY DEF AbandonRekey, Ends, Peer, SameSessions, SameDrain, Paired
<1>2. 1 \in 1 .. Len(q) /\ ~NoStale(q)
  BY DEF NoStale, Ends
<1>3. \A sid, our, their : ~Offered(q, p, sid, our, their)
  <2> SUFFICES ASSUME NEW sid, NEW our, NEW their, NEW i \in 1 .. Len(q),
                      Answer(q, i, p, sid, our, their)
               PROVE  FALSE
    BY DEF Offered
  <2>1. 1 \in 1 .. i
    OBVIOUS
  <2> QED BY <2>1 DEF Answer
<1>4. r.cur # None /\ Young(o, r)
  BY <1>2, IndexAssumption DEF Ends, Peer, Link, Side, StaleOk
<1> HIDE DEF k
<1>5. \/ Calm(p, q, r, s)
      \/ Lead(p, q, r, s, o \in t) /\ NoReal(s) /\ Has(r, p.cur, p.theirIdx, p.ourIdx)
  BY <1>1, <1>3, <1>4 DEF Link, Phase, Ready, Offer, Lead, Has
<1>6. /\ \A x : NoOdd(x, k) <=> NoOdd(x, p)
      /\ \A x, sid, idx : OddAre(x, k, sid, idx) <=> OddAre(x, p, sid, idx)
      /\ EvenAreCurrent(q, k) <=> EvenAreCurrent(q, p)
  BY <1>1, SameWait DEF SameSessions
<1>7. Phase(n, k, q, o, r, s, t)
  <2>1. Calm(p, q, r, s) => Calm(k, q, r, s)
    BY <1>1, <1>6 DEF Calm, SameSessions, SameDrain, Agree, Recent
  <2>2. Lead(p, q, r, s, o \in t) /\ NoReal(s) /\ Has(r, p.cur, p.theirIdx, p.ourIdx)
          => Lead(k, q, r, s, o \in t)
    BY <1>1, <1>3, <1>6 DEF Lead, SameSessions, SameDrain, Recent, Has
  <2> QED BY <1>5, <2>1, <2>2 DEF Phase
<1>8. NoReal(q)
  BY <1>5 DEF Calm, Lead
<1>9. Young(n, k) <=> Young(n, p)
  BY <1>1 DEF Young, SameSessions
<1>10. Msg1sOk(n, k, q, o, r)
  BY <1>1, <1>2, <1>8, <1>9 DEF Msg1sOk, Link, Side, SameSessions
<1>11. Msg1sOk(o, r, s, n, k)
  BY <1>4 DEF Msg1sOk
<1>12. Own(n, k)
  BY <1>1, IndexAssumption, ZeroAges DEF Own, Link, Side, SameSessions, Id
<1>13. StaleOk(s, n, k) /\ Heard(k, q, o, r, t) /\ Heard(r, s, n, k, t)
  BY <1>1, <1>9 DEF StaleOk, Heard, Link, Side
<1> QED BY <1>6, <1>7, <1>10, <1>11, <1>12, <1>13 DEF Link, Side, k

\* The answer arrives: the node waits for it, and has the session its peer has.
LEMMA CompleteLink ==
  ASSUME Reliable, NEW n, NEW p, NEW q, NEW o, NEW r, NEW s, NEW t, Ends(n, p, q, o, r, s),
         Link(n, p, q, o, r, s, t), NEW u \in Seq(Message), Rest(u, q), Real(q[1])
  PROVE  LET m == q[1]
             k == SetPendingSession(p, m.sid, m.receiver, m.sender)
         IN  /\ p.inProgress /\ p.hs = m.hs /\ p.rekeyIdx = m.receiver
             /\ Link(n, k, u, o, r, s, t)
<1> DEFINE m == q[1]
           k == SetPendingSession(p, m.sid, m.receiver, m.sender)
<1>1. 1 \in 1 .. Len(q) /\ m \in Msg2 /\ m.type = "msg2"
  BY RestHead, MessageKinds DEF Real, Ends
<1>2. ~NoReal(q)
  BY <1>1 DEF NoReal
<1>3. PICK sid, our, their :
        /\ Offered(q, p, sid, our, their)
        /\ \/ Offer(o, r, s, p, q) /\ sid = r.pend /\ our = r.pendTheir /\ their = r.pendOur
           \/ /\ Lead(r, s, p, q, n \in t) /\ sid = r.cur /\ our = r.theirIdx /\ their = r.ourIdx
              /\ r.drainAge = 0
  BY <1>2 DEF Link, Phase, Calm, Ready, Offer, Lead
<1>4. PICK i \in 1 .. Len(q) : Answer(q, i, p, sid, our, their)
  BY <1>3 DEF Offered
<1>5. i = 1 /\ Answer(q, 1, p, sid, our, their)
  BY <1>1, <1>4 DEF Answer
<1>6. /\ m.hs = p.hs /\ m.sid = sid /\ m.sender = their /\ m.receiver = our /\ p.rekeyIdx = our
      /\ p.inProgress /\ p.pend = None
  BY <1>3, <1>5, Waits DEF Answer, Ends
<1>7. NoReal(u)
  <2>1. \A j \in 1 .. Len(u) : j + 1 \in 1 .. Len(q) /\ u[j] = q[j + 1] /\ j + 1 # 1
    BY RestHead DEF Ends
  <2> QED BY <1>5, <2>1 DEF Answer, NoReal
<1> HIDE DEF m
<1>8. /\ k.cur = p.cur /\ k.ourIdx = p.ourIdx /\ k.theirIdx = p.theirIdx /\ k.kbit = p.kbit
      /\ k.age = p.age /\ k.storedMsg2 = p.storedMsg2
      /\ k.pend = sid /\ k.pendOur = our /\ k.pendTheir = their
      /\ k.hs = None /\ ~k.inProgress /\ k.idle = p.idle /\ k.beatAge = p.beatAge
  BY <1>6 DEF SetPendingSession, Ends, Peer
<1> HIDE DEF k
<1>9. /\ \A x : NoOdd(x, k) <=> NoOdd(x, p)
      /\ \A x, y, z : OddAre(x, k, y, z) <=> OddAre(x, p, y, z)
      /\ \A x : EvenAreCurrent(x, k) <=> EvenAreCurrent(x, p)
  BY <1>8, SameWait
<1>10. /\ EvenAreCurrent(u, k) /\ StaleOk(u, o, r)
       /\ \A x : NoOdd(q, x) => NoOdd(u, x)
       /\ \A x, y, z : OddAre(q, x, y, z) => OddAre(u, x, y, z)
       /\ NoFrame(u) => NoFrame(q)
  <2>1. q[1].type # "frame"
    BY <1>1 DEF m
  <2> QED BY <1>9, <2>1, RestKeeps, RestHead DEF Link, Side, StaleOk, Ends
<1>11. Phase(n, k, u, o, r, s, t) /\ k.pend # None /\ (r.pend # None \/ Young(o, r))
  <2>1. CASE Offer(o, r, s, p, q)
    <3>1. sid = r.pend /\ our = r.pendTheir /\ their = r.pendOur /\ r.pend # None
      BY <1>3, <2>1 DEF Offer, Lead
    <3>2. Ready(k, u, r, s)
      BY <1>7, <1>8, <1>9, <1>10, <2>1, <3>1 DEF Offer, Ready, Agree, Has
    <3> QED BY <1>8, <3>1, <3>2 DEF Phase
  <2>2. CASE /\ Lead(r, s, p, q, n \in t) /\ sid = r.cur /\ our = r.theirIdx /\ their = r.ourIdx
             /\ r.drainAge = 0
    <3>1. Lead(r, s, k, u, n \in t)
      BY <1>7, <1>8, <1>9, <1>10, <2>2 DEF Lead, Has
    <3>2. Young(o, r) /\ r.cur # None
      BY <2>2, RecentIsYoung, IndexAssumption DEF Lead, Ends, Peer
    <3> QED BY <1>8, <2>2, <3>1, <3>2 DEF Phase
  <2> QED BY <1>3, <2>1, <2>2
<1>12. Young(n, k) <=> Young(n, p)
  BY <1>8 DEF Young
<1>13. Msg1sOk(n, k, u, o, r) /\ Msg1sOk(o, r, s, n, k)
  BY <1>11 DEF Msg1sOk
<1>14. StaleOk(s, n, k) /\ Heard(k, u, o, r, t) /\ Heard(r, s, n, k, t)
  BY <1>8, <1>10, <1>12 DEF StaleOk, Heard, Link, Side
<1>15. Own(n, k)
  BY <1>6, <1>8, IndexAssumption, ZeroAges DEF Own, Link, Side, Id
<1>16. Link(n, k, u, o, r, s, t)
  BY <1>10, <1>11, <1>13, <1>14, <1>15 DEF Link, Side
<1> QED BY <1>6, <1>16 DEF m, k

\* A node answers a msg1 only when its peer waits with it and nothing is agreed on.
LEMMA AnswerCalm ==
  ASSUME Reliable, NEW n, NEW p, NEW q, NEW o, NEW r, NEW s, NEW t, Ends(n, p, q, o, r, s),
         Link(n, p, q, o, r, s, t), Len(q) >= 1, q[1].type = "msg1",
         ~Young(n, p), p.pend = None, ~(p.inProgress /\ n = Small)
  PROVE  /\ Agree(p, r) /\ r.pend = None /\ NoReal(q) /\ NoReal(s) /\ NoOdd(q, p) /\ NoOdd(s, r)
         /\ r.hs = q[1].hs /\ r.rekeyIdx = q[1].sender /\ r.inProgress /\ NoStale(s)
<1>1. 1 \in 1 .. Len(q) /\ q[1].hs # None /\ r.cur # None
  BY MessageKinds, IndexAssumption DEF Ends, Msg1, Peer
<1>2. r.hs = q[1].hs /\ r.rekeyIdx = q[1].sender
  BY <1>1 DEF Link, Side, Msg1sOk
<1>3. r.inProgress /\ r.pend = None
  BY <1>1, <1>2 DEF Ends, Paired
<1>4. ~Recent(p)
  BY RecentIsYoung DEF Ends
<1>5. NoReal(q) /\ Calm(p, q, r, s)
  BY <1>1, <1>3, <1>4 DEF Link, Phase, Calm, Ready, Offer, Lead, Has
<1>6. NoStale(s)
  BY DEF Link, Side, StaleOk
<1> QED BY <1>2, <1>3, <1>4, <1>5, <1>6 DEF Calm

\* The answer cannot be made or sent: a rekey of n's own is given up all the same.
LEMMA RefuseLink ==
  ASSUME Reliable, NEW n, NEW p, NEW q, NEW o, NEW r, NEW s, NEW t, Ends(n, p, q, o, r, s),
         Link(n, p, q, o, r, s, t), NEW u \in Seq(Message), Rest(u, q), q[1].type = "msg1",
         ~Young(n, p), p.pend = None, ~(p.inProgress /\ n = Small),
         NEW k, k = IF p.inProgress THEN AbandonRekey(p) ELSE p
  PROVE  Link(n, k, u, o, r, s, t)
<1>1. /\ Agree(p, r) /\ r.pend = None /\ NoReal(q) /\ NoReal(s) /\ NoOdd(q, p) /\ NoOdd(s, r)
      /\ r.inProgress /\ NoStale(s)
  BY AnswerCalm DEF Rest
<1>2. Link(n, p, u, o, r, s, t)
  BY DropLink DEF Real
<1>3. CASE ~p.inProgress
  BY <1>2, <1>3
<1>4. CASE p.inProgress
  <2>1. k = AbandonRekey(p)
    BY <1>4
  <2>2. /\ SameSessions(k, p) /\ k.hs = None /\ ~k.inProgress
        /\ k.idle = p.idle /\ k.beatAge = p.beatAge
    BY <1>4, <2>1 DEF AbandonRekey, Ends, Peer, SameSessions, Paired
  <2>3. NoOdd(u, k) /\ EvenAreCurrent(u, k) /\ NoReal(u)
    <3>1. NoOdd(u, p) /\ NoReal(u) /\ EvenAreCurrent(u, p)
      BY <1>1, <1>2, RestKeeps DEF Ends, Link, Side
    <3> QED BY <2>2, <3>1, SameWait DEF SameSessions
  <2>4. Calm(k, u, r, s)
    BY <1>1, <2>2, <2>3 DEF Calm, Agree, SameSessions
  <2>5. o = Small /\ (Young(n, k) <=> Young(n, p))
    BY <1>4, <2>2, NodeAssumption DEF Ends, Node, Other, Young, SameSessions
  <2>6. Msg1sOk(n, k, u, o, r)
    BY <1>2, <1>4, <2>2, <2>5 DEF Msg1sOk, Link, Side, SameSessions
  <2>7. Msg1sOk(o, r, s, n, k)
    BY <1>1, <2>5 DEF Msg1sOk
  <2>8. Own(n, k)
    BY <1>2, <2>2, IndexAssumption, ZeroAges DEF Own, Link, Side, SameSessions, Id
  <2>9. StaleOk(s, n, k) /\ Heard(k, u, o, r, t) /\ Heard(r, s, n, k, t)
    BY <1>1, <1>2, <2>2 DEF StaleOk, Heard, Link, Side
  <2> QED BY <1>2, <2>3, <2>4, <2>6, <2>7, <2>8, <2>9 DEF Link, Side, Phase
<1> QED BY <1>3, <1>4

LEMMA AnswerLink ==
  ASSUME Reliable, NEW n, NEW p, NEW q, NEW o, NEW r, NEW s, NEW t, Ends(n, p, q, o, r, s),
         Link(n, p, q, o, r, s, t), NEW u \in Seq(Message), Rest(u, q), q[1].type = "msg1",
         ~Young(n, p), p.pend = None, ~(p.inProgress /\ n = Small),
         NEW k, NEW sid \in Id, NEW our \in Index, k.storedMsg2 = p.storedMsg2,
         k.cur = p.cur, k.ourIdx = p.ourIdx, k.theirIdx = p.theirIdx, k.kbit = p.kbit,
         k.pend = sid, k.pendOur = our, k.pendTheir = q[1].sender, k.age = p.age,
         k.hs = None, ~k.inProgress, k.peerRekeyAge = 0, k.idle = p.idle, k.beatAge = p.beatAge,
         NEW v \in Seq(Message), Longer(v, s, RekeyMsg2(our, q[1], sid))
  PROVE  Link(n, k, u, o, r, v, t)
<1> DEFINE m == RekeyMsg2(our, q[1], sid)
<1>1. /\ Agree(p, r) /\ r.pend = None /\ NoReal(q) /\ NoReal(s) /\ NoOdd(q, p) /\ NoOdd(s, r)
      /\ r.hs = q[1].hs /\ r.rekeyIdx = q[1].sender /\ r.inProgress /\ NoStale(s)
  BY AnswerCalm DEF Rest
<1>2. Link(n, p, u, o, r, s, t)
  BY DropLink DEF Real
<1>3. /\ m.type = "msg2" /\ m.hs = q[1].hs /\ m.hs # 0 /\ m.sid = sid /\ m.sender = our
      /\ m.receiver = q[1].sender /\ Real(m) /\ ~Stale(m) /\ \A x : ~Odd(m, x)
  BY <1>1 DEF RekeyMsg2, Real, Stale, Odd, Link, Side, Own
<1>4. Len(v) \in Nat /\ Len(s) \in Nat /\ Len(v) = Len(s) + 1 /\ v[Len(s) + 1] = m
      /\ \A i \in 1 .. Len(v) : (i \in 1 .. Len(s) /\ v[i] = s[i]) \/ (i = Len(s) + 1 /\ v[i] = m)
  BY DEF Longer, Ends
<1> HIDE DEF m
<1>5. Answer(v, Len(s) + 1, r, sid, k.pendTheir, k.pendOur)
  BY <1>1, <1>3, <1>4 DEF Answer, NoReal, NoStale, NoOdd
<1>6. Offered(v, r, sid, k.pendTheir, k.pendOur) /\ ~NoReal(v)
  BY <1>1, <1>3, <1>4, <1>5 DEF Offered, NoReal
<1>7. NoOdd(v, r) /\ NoStale(v) /\ (NoFrame(v) => NoFrame(s)) /\ EvenAreCurrent(v, r)
  <2>1. NoOdd(v, r) /\ NoStale(v) /\ (NoFrame(v) => NoFrame(s))
    BY <1>1, <1>3, LongerKeeps DEF Ends, m
  <2>2. EvenAreCurrent(s, r)
    BY DEF Link, Side
  <2> QED BY <1>3, <1>4, <2>1, <2>2 DEF EvenAreCurrent
<1>8. NoOdd(u, k) /\ NoReal(u) /\ EvenAreCurrent(u, k)
  <2>1. NoOdd(u, p) /\ NoReal(u) /\ EvenAreCurrent(u, p)
    BY <1>1, <1>2, RestKeeps DEF Ends, Link, Side
  <2> QED BY <2>1, SameWait
<1>9. (Young(n, k) <=> Young(n, p)) /\ k.pend # None /\ n \in rekeyOn
  BY IndexAssumption DEF Young
<1>10. Offer(n, k, u, r, v)
  BY <1>1, <1>6, <1>7, <1>8, <1>9 DEF Offer, Agree
<1>11. Msg1sOk(n, k, u, o, r)
  BY <1>9 DEF Msg1sOk
<1>12. Msg1sOk(o, r, v, n, k)
  <2> SUFFICES ASSUME NEW i \in 1 .. Len(v), v[i].type = "msg1"
               PROVE  Young(o, r) \/ (o = Small /\ r.inProgress /\ ~NoReal(v))
    BY DEF Msg1sOk
  <2>1. i \in 1 .. Len(s) /\ v[i] = s[i]
    BY <1>3, <1>4
  <2>2. v[i].hs # None
    BY <2>1, MessageKinds, IndexAssumption DEF Msg1, Ends
  <2>3. p.hs = v[i].hs => o = Small
    BY <2>2, NodeAssumption DEF Ends, Paired, Node, Other
  <2> QED BY <1>1, <1>6, <2>1, <2>3 DEF Link, Side, Msg1sOk
<1>13. Own(n, k)
  BY <1>2, <1>9, IndexAssumption, ZeroAges DEF Own, Link, Side, Id
<1>14. StaleOk(v, n, k) /\ Heard(k, u, o, r, t) /\ Heard(r, v, n, k, t)
  BY <1>2, <1>7 DEF StaleOk, Heard, Link, Side
<1> QED BY <1>2, <1>7, <1>8, <1>10, <1>11, <1>12, <1>13, <1>14 DEF Link, Side, Phase

\* A unit of time passes: nothing is on the way, and both ticked in it.
LEMMA ElapseLink ==
  ASSUME Reliable, NEW n, NEW p, NEW q, NEW o, NEW r, NEW s, NEW t, Ends(n, p, q, o, r, s),
         Link(n, p, q, o, r, s, t), Len(q) = 0, Len(s) = 0, n \in t, o \in t,
         NEW u, NEW v, Len(u) = 0, Len(v) = 0
  PROVE  Link(n, Grown(p), u, o, Grown(r), v, {})
<1> DEFINE k == Grown(p)
           l == Grown(r)
<1>1. ASSUME NEW x \in Peer
      PROVE  LET y == Grown(x) IN
             /\ y.cur = x.cur /\ y.ourIdx = x.ourIdx /\ y.theirIdx = x.theirIdx
             /\ y.kbit = x.kbit /\ y.prev = x.prev /\ y.prevIdx = x.prevIdx
             /\ y.pend = x.pend /\ y.pendOur = x.pendOur /\ y.pendTheir = x.pendTheir
             /\ y.inProgress = x.inProgress /\ y.hs = x.hs /\ y.storedMsg2 = x.storedMsg2
             /\ x.drainAge = 0 /\ x.age <= x.drainAge => y.drainAge = 1 /\ y.age = 1
             /\ y.idle <= x.idle + 1
             /\ x.beatAge < Heartbeat => y.beatAge = x.beatAge + 1
             /\ x.idle \in Nat /\ x.beatAge \in Nat /\ y.idle \in Nat
  <2>1. AgeCap >= 2 /\ AgeCap \in Nat
    BY Times DEF AgeCap, Reliable
  <2>2. /\ x.age \in 0 .. AgeCap /\ x.drainAge \in 0 .. DrainWindow /\ x.idle \in 0 .. LinkDead
        /\ x.beatAge \in 0 .. Heartbeat
    BY DEF Peer
  <2>3. /\ x.drainAge = 0 /\ x.age <= x.drainAge =>
             Older(x.drainAge, DrainWindow) = 1 /\ Older(x.age, AgeCap) = 1
        /\ Older(x.idle, LinkDead) <= x.idle + 1 /\ Older(x.idle, LinkDead) \in Nat
        /\ x.beatAge < Heartbeat => Older(x.beatAge, Heartbeat) = x.beatAge + 1
        /\ x.idle \in Nat /\ x.beatAge \in Nat
    BY <2>1, <2>2, Times DEF Older, Reliable
  <2> QED BY <2>3 DEF Grown, Peer
<1>2. p \in Peer /\ r \in Peer
  BY DEF Ends
<1> HIDE DEF k, l
<1>3. /\ \A x : NoReal(u) /\ NoReal(v) /\ NoOdd(u, x) /\ NoOdd(v, x)
      /\ \A x, y, z : OddAre(u, x, y, z) /\ OddAre(v, x, y, z)
      /\ \A x : EvenAreCurrent(u, x) /\ EvenAreCurrent(v, x)
      /\ \A x, y, z, w : Msg1sOk(x, y, u, z, w) /\ Msg1sOk(x, y, v, z, w)
      /\ \A x, y : StaleOk(u, x, y) /\ StaleOk(v, x, y)
  BY DEF NoReal, NoOdd, OddAre, EvenAreCurrent, Msg1sOk, StaleOk, NoStale
<1>4. /\ \A x, sid, our, their : ~Offered(q, x, sid, our, their)
      /\ \A x, sid, our, their : ~Offered(s, x, sid, our, their)
      /\ NoFrame(q) /\ NoFrame(s)
  BY DEF Offered, NoFrame
<1>5. Calm(p, q, r, s) => Calm(k, u, l, v)
  BY <1>1, <1>2, <1>3 DEF Calm, Agree, k, l
<1>6. Ready(p, q, r, s) => Ready(k, u, l, v)
  BY <1>1, <1>2, <1>3 DEF Ready, Agree, Has, k, l
<1>7. Lead(p, q, r, s, o \in t) => Lead(k, u, l, v, o \in {})
  BY <1>1, <1>2, <1>3, <1>4 DEF Lead, Has, Recent, k, l
<1>8. Lead(r, s, p, q, n \in t) => Lead(l, v, k, u, n \in {})
  BY <1>1, <1>2, <1>3, <1>4 DEF Lead, Has, Recent, k, l
<1>9. Phase(n, k, u, o, l, v, {})
  BY <1>4, <1>5, <1>6, <1>7, <1>8 DEF Link, Phase, Offer
<1>10. /\ k.idle <= p.idle + 1 /\ l.idle <= r.idle + 1 /\ k.idle \in Nat /\ l.idle \in Nat
       /\ p.beatAge < Heartbeat /\ r.beatAge < Heartbeat
       /\ k.beatAge = p.beatAge + 1 /\ l.beatAge = r.beatAge + 1
       /\ p.idle <= r.beatAge /\ r.idle <= p.beatAge
       /\ p.beatAge \in Nat /\ r.beatAge \in Nat /\ p.idle \in Nat /\ r.idle \in Nat
  BY <1>1, <1>2, <1>4 DEF Link, Side, Heard, k, l
<1>11. Heard(k, u, o, l, {}) /\ Heard(l, v, n, k, {})
  <2>1. \A a, b, c, h \in Nat : a <= b + 1 /\ b <= c /\ c < h => a <= c + 1 /\ a <= h
    OBVIOUS
  <2>2. k.idle <= r.beatAge + 1 /\ k.idle <= Heartbeat
    BY <1>10, <2>1, Times
  <2>3. l.idle <= p.beatAge + 1 /\ l.idle <= Heartbeat
    BY <1>10, <2>1, Times
  <2> QED BY <1>10, <2>2, <2>3 DEF Heard
<1>12. Own(n, k) /\ Own(o, l)
  BY <1>1, <1>2 DEF Own, Link, Side, k, l
<1> QED BY <1>3, <1>9, <1>11, <1>12 DEF Link, Side, k, l


-----------------------------------------------------------------------------
(* One lemma per action.                                                   *)

LEMMA LinkAt ==
  ASSUME HitlessInv, NEW n \in Node
  PROVE  LET o == Other(n) IN
         /\ Ends(n, peer[n], net[n], o, peer[o], net[o])
         /\ Link(n, peer[n], net[n], o, peer[o], net[o], ticked)
<1>1. /\ Small \in Node /\ Large \in Node /\ Other(Small) = Large /\ Other(Large) = Small
      /\ n = Small \/ n = Large
  BY NodeAssumption DEF Node, Other
<1>2. \A k \in Node : peer[k] \in Peer /\ Paired(peer[k]) /\ net[k] \in Seq(Message)
  BY NodeSound DEF HitlessInv, Coupled, Sound
<1>3. Link(Small, peer[Small], net[Small], Large, peer[Large], net[Large], ticked)
  BY DEF HitlessInv, Coupled
<1>4. Link(Large, peer[Large], net[Large], Small, peer[Small], net[Small], ticked)
  BY <1>3, LinkSymmetric
<1> QED BY <1>1, <1>2, <1>3, <1>4 DEF Ends

LEMMA LinkFrom ==
  ASSUME NEW n \in Node, live' = Node, rekeyOn' = rekeyOn, NEW o, o = Other(n),
         Link(n, peer'[n], net'[n], o, peer'[o], net'[o], ticked')
  PROVE  Coupled'
<1>1. /\ Small \in Node /\ Large \in Node /\ Other(Small) = Large /\ Other(Large) = Small
      /\ n = Small \/ n = Large
  BY NodeAssumption DEF Node, Other
<1>2. Link(Small, peer'[Small], net'[Small], Large, peer'[Large], net'[Large], ticked')
  BY <1>1, LinkSymmetric
<1>3. Up'
  BY DEF Up
<1>4. Link(Small, peer[Small], net[Small], Large, peer[Large], net[Large], ticked)'
  BY <1>2 DEF Link, Phase, Calm, Ready, Offer, Lead, Side, Msg1sOk, StaleOk, Heard, Own, Young
<1> QED BY <1>3, <1>4 DEF Coupled


\* What one message taken from the head of n's queue leaves.
LEMMA HeadTaken ==
  ASSUME Reliable, HitlessInv, NEW n \in Node, NEW i \in Deliverable(n), NEW c,
         NEW rest \in Taken(n, i, c)
  PROVE  /\ i = 1 /\ rest \in Seq(Message) /\ Rest(rest, net[n])
         /\ Len(net[n]) >= 1 /\ 1 \in 1 .. Len(net[n]) /\ i \in DOMAIN net[n]
         /\ net[n] \in Seq(Message) /\ net \in [Node -> Seq(Message)]
         /\ peer \in [Node -> Peer] /\ Other(n) \in Node /\ Other(n) # n /\ live = Node
<1>1. net \in [Node -> Seq(Message)] /\ peer \in [Node -> Peer] /\ live = Node
  BY DEF HitlessInv, IndInv, TypeOK, Coupled, Up
<1>2. i = 1 /\ rest \in Seq(Message) /\ Rest(rest, net[n])
  BY <1>1, TakenRest
<1>3. Len(net[n]) >= 1 /\ Len(net[n]) \in Nat
  BY <1>1, <1>2 DEF Rest
<1>4. i \in DOMAIN net[n]
  BY DEF Deliverable
<1>5. Other(n) \in Node /\ Other(n) # n
  BY NodeAssumption DEF Other, Node
<1> QED BY <1>1, <1>2, <1>3, <1>4, <1>5

LEMMA HandleMsg1Link ==
  ASSUME Reliable, HitlessInv, NEW n \in Node, NEW i \in Deliverable(n), HandleMsg1(n, i)
  PROVE  Coupled'
<1> DEFINE m == net[n][i]
           o == Other(n)
           p == peer[n]
           q == net[n]
           r == peer[o]
           s == net[o]
<1>1. PICK u \in Taken(n, i, m) : \/ DuplicateMsg1(n, u)
                                  \/ IgnoredMsg1(n, u)
                                  \/ AnsweredMsg1(n, m, u)
  BY DEF HandleMsg1
<1>2. /\ i = 1 /\ u \in Seq(Message) /\ Rest(u, q) /\ Len(q) >= 1 /\ 1 \in 1 .. Len(q)
      /\ q \in Seq(Message) /\ net \in [Node -> Seq(Message)]
      /\ peer \in [Node -> Peer] /\ o \in Node /\ o # n /\ live = Node
  BY HeadTaken
<1>3. Ends(n, p, q, o, r, s) /\ Link(n, p, q, o, r, s, ticked)
  BY LinkAt
<1>4. q[1].type = "msg1" /\ q[1] \in Msg1 /\ ticked' = ticked /\ rekeyOn' = rekeyOn
  BY <1>2, MessageKinds DEF HandleMsg1
<1>5. ~Real(q[1]) /\ q[1].type # "frame"
  BY <1>4 DEF Real
<1>6. Link(n, p, u, o, r, s, ticked)
  BY <1>2, <1>3, <1>5, DropLink
<1>7. CASE DuplicateMsg1(n, u)
  <2> DEFINE w == p.storedMsg2
             v == IF w = None THEN s ELSE Push(s, w)
  <2>1. net'[n] = u /\ net'[o] = v /\ peer' = peer /\ live' = live /\ ~IsRekeyMsg1(n)
    BY <1>2, <1>7 DEF DuplicateMsg1, nodeVars
  <2>2. Link(n, p, u, o, r, v, ticked)
    <3>1. CASE w = None
      BY <1>6, <3>1
    <3>2. CASE w # None
      <4>1. w \in Msg2 /\ s \in Seq(Message) /\ w \in Message /\ w.type = "msg2"
        BY <1>2, <3>2 DEF Peer, Message, Msg2
      <4>2. w.hs = 0
        BY <1>3, <3>2 DEF Link, Side, Own
      <4>3. ~Real(w) /\ FrameFits(p, r, w)
        BY <4>1, <4>2 DEF Real, FrameFits
      <4>4. Young(n, p)
        BY <2>1 DEF Young, IsRekeyMsg1
      <4>5. v \in Seq(Message) /\ (v = s \/ Longer(v, s, w))
        BY <3>2, <4>1, PushLonger
      <4>6. Ends(n, p, u, o, r, s)
        BY <1>2, <1>3 DEF Ends
      <4> HIDE DEF v, w
      <4> QED BY <1>6, <4>1, <4>3, <4>4, <4>5, <4>6, PushLink
    <3> QED BY <3>1, <3>2
  <2> HIDE DEF v
  <2> QED BY <1>2, <1>4, <2>1, <2>2, LinkFrom
<1>8. CASE IgnoredMsg1(n, u)
  <2>1. net'[n] = u /\ net'[o] = s /\ peer' = peer /\ live' = live
    BY <1>2, <1>8 DEF IgnoredMsg1, nodeVars
  <2> QED BY <1>2, <1>4, <1>6, <2>1, LinkFrom
<1>9. CASE AnsweredMsg1(n, m, u)
  <2> DEFINE k == IF p.inProgress THEN AbandonRekey(p) ELSE p
             freed == IF p.inProgress THEN {AbandonedIndex(p)} \ {None} ELSE {}
             free == Index \ (allocated[n] \ freed)
  <2>1. /\ ~Young(n, p) /\ p.pend = None /\ ~(p.inProgress /\ n = Small) /\ live' = live
        /\ m = q[1]
    BY <1>2, <1>9 DEF AnsweredMsg1, IsRekeyMsg1, Young, WinsTie
  <2>2. \/ /\ peer' = [peer EXCEPT ![n] = k]
           /\ net' = [net EXCEPT ![n] = u]
        \/ /\ fresh <= MaxFresh /\ Len(s) < MaxInFlight
           /\ \E our \in free :
                /\ peer' = [peer EXCEPT ![n] =
                             [SetPendingSession(k, fresh, our, m.sender)
                                EXCEPT !.peerRekeyAge = 0]]
                /\ net' = [net EXCEPT ![n] = u,
                             ![o] = Push(@, RekeyMsg2(our, m, fresh))]
    BY <1>9 DEF AnsweredMsg1
  <2>3. k \in Peer /\ k.hs = None /\ ~k.inProgress /\ k.pend = None
        /\ SameSessions(k, p) /\ k.idle = p.idle /\ k.beatAge = p.beatAge
        /\ k.storedMsg2 = p.storedMsg2
    <3>1. p \in Peer /\ Paired(p) /\ Distinct(p)
      BY NodeSound DEF HitlessInv, Coupled, Sound
    <3>2. CASE p.inProgress
      <4>1. k = AbandonRekey(p) /\ k \in Peer
        BY <3>1, <3>2, AbandonSound
      <4>2. k.hs = None /\ ~k.inProgress /\ SameSessions(k, p) /\ k.idle = p.idle
            /\ k.beatAge = p.beatAge /\ k.storedMsg2 = p.storedMsg2
        BY <3>1, <3>2, <4>1 DEF AbandonRekey, Peer, SameSessions, Paired
      <4> QED BY <2>1, <4>1, <4>2 DEF SameSessions
    <3>3. CASE ~p.inProgress
      BY <2>1, <3>1, <3>3 DEF Paired, SameSessions
    <3> QED BY <3>2, <3>3
  <2>4. CASE peer' = [peer EXCEPT ![n] = k] /\ net' = [net EXCEPT ![n] = u]
    <3>1. Link(n, k, u, o, r, s, ticked)
      BY <1>2, <1>3, <1>4, <2>1, RefuseLink
    <3> HIDE DEF k
    <3>2. peer'[n] = k /\ peer'[o] = r /\ net'[n] = u /\ net'[o] = s
      BY <1>2, <2>4
    <3> QED BY <1>2, <1>4, <2>1, <3>1, <3>2, LinkFrom
  <2> HIDE DEF k, free
  <2>5. ASSUME fresh <= MaxFresh, Len(s) < MaxInFlight, NEW our \in free,
               peer' = [peer EXCEPT ![n] = [SetPendingSession(k, fresh, our, m.sender)
                                              EXCEPT !.peerRekeyAge = 0]],
               net' = [net EXCEPT ![n] = u, ![o] = Push(@, RekeyMsg2(our, m, fresh))]
        PROVE  Coupled'
    <3> DEFINE j == [SetPendingSession(k, fresh, our, m.sender) EXCEPT !.peerRekeyAge = 0]
               v == Push(s, RekeyMsg2(our, m, fresh))
    <3>1. our \in Index /\ fresh \in Id
      BY <2>5 DEF free, HitlessInv, IndInv, TypeOK, Id
    <3>2. /\ j.storedMsg2 = p.storedMsg2
          /\ j.cur = p.cur /\ j.ourIdx = p.ourIdx /\ j.theirIdx = p.theirIdx
          /\ j.kbit = p.kbit /\ j.pend = fresh /\ j.pendOur = our /\ j.pendTheir = q[1].sender
          /\ j.age = p.age /\ j.hs = None /\ ~j.inProgress /\ j.peerRekeyAge = 0
          /\ j.idle = p.idle /\ j.beatAge = p.beatAge
      BY <2>1, <2>3 DEF SetPendingSession, Peer, SameSessions
    <3>3. RekeyMsg2(our, m, fresh) \in Message /\ s \in Seq(Message)
      BY <1>2, <1>4, <3>1, RekeyMsg2Typed
    <3>4. v \in Seq(Message) /\ Longer(v, s, RekeyMsg2(our, q[1], fresh))
      BY <1>2, <2>5, <3>3, PushLonger
    <3>5. peer'[n] = j /\ peer'[o] = r /\ net'[n] = u /\ net'[o] = v
      BY <1>2, <2>5
    <3> HIDE DEF j, v
    <3>6. Link(n, j, u, o, r, v, ticked)
      BY <1>2, <1>3, <1>4, <2>1, <3>1, <3>2, <3>4, AnswerLink
    <3> QED BY <1>2, <1>4, <2>1, <3>5, <3>6, LinkFrom
  <2> QED BY <2>2, <2>4, <2>5
<1> QED BY <1>1, <1>7, <1>8, <1>9

LEMMA HandleMsg2Link ==
  ASSUME Reliable, HitlessInv, NEW n \in Node, NEW i \in Deliverable(n), HandleMsg2(n, i)
  PROVE  Coupled'
<1> DEFINE m == net[n][i]
           o == Other(n)
           p == peer[n]
           q == net[n]
           r == peer[o]
           s == net[o]
           waiting == p.inProgress /\ p.rekeyIdx = m.receiver
<1>1. PICK u \in Taken(n, i, m) : net' = [net EXCEPT ![n] = u]
  BY DEF HandleMsg2
<1>2. /\ i = 1 /\ u \in Seq(Message) /\ Rest(u, q) /\ Len(q) >= 1 /\ 1 \in 1 .. Len(q)
      /\ q \in Seq(Message) /\ net \in [Node -> Seq(Message)]
      /\ peer \in [Node -> Peer] /\ o \in Node /\ o # n /\ live = Node
  BY HeadTaken
<1>3. Ends(n, p, q, o, r, s) /\ Link(n, p, q, o, r, s, ticked)
  BY LinkAt
<1>4. /\ m = q[1] /\ m.type = "msg2" /\ m \in Msg2 /\ ticked' = ticked /\ rekeyOn' = rekeyOn
      /\ live' = Node /\ net'[n] = u /\ net'[o] = s
  BY <1>1, <1>2, MessageKinds DEF HandleMsg2
<1>5. /\ Paired(p) /\ pendingOutbound[n] = RekeyIndices(p)
  BY NodeSound DEF HitlessInv, Coupled, Sound, Registered
<1>6. m.receiver # None /\ p.hs # 0
  BY <1>3, <1>4, IndexAssumption DEF Msg2, Link, Side, Own
<1>7. m.receiver \in pendingOutbound[n] <=> p.rekeyIdx = m.receiver
  BY <1>5, <1>6 DEF RekeyIndices
<1>8. CASE Real(q[1])
  <2> DEFINE k == SetPendingSession(p, m.sid, m.receiver, m.sender)
  <2>1. waiting /\ p.hs = m.hs /\ Link(n, k, u, o, r, s, ticked)
    BY <1>2, <1>3, <1>4, <1>8, CompleteLink
  <2>2. peer' = [peer EXCEPT ![n] = k]
    BY <1>7, <2>1 DEF HandleMsg2, CompleteRekeyMsg2
  <2> HIDE DEF k
  <2>3. peer'[n] = k /\ peer'[o] = r
    BY <1>2, <2>2
  <2> QED BY <1>2, <1>4, <2>1, <2>3, LinkFrom
<1>9. CASE ~Real(q[1])
  <2>1. Stale(q[1]) /\ q[1].type # "frame" /\ m.hs = 0
    BY <1>4, <1>9 DEF Real, Stale
  <2>2. CASE ~waiting
    <3>1. peer' = peer
      BY <2>2 DEF HandleMsg2
    <3>2. Link(n, p, u, o, r, s, ticked)
      BY <1>2, <1>3, <1>9, <2>1, DropLink
    <3> QED BY <1>2, <1>4, <3>1, <3>2, LinkFrom
  <2>3. CASE waiting
    <3> DEFINE k == AbandonRekey(p)
    <3>1. peer' = [peer EXCEPT ![n] = k]
      BY <1>6, <1>7, <2>1, <2>3 DEF HandleMsg2, CompleteRekeyMsg2
    <3>2. Link(n, k, q, o, r, s, ticked)
      BY <1>2, <1>3, <2>1, <2>3, AbandonLink
    <3>3. k \in Peer /\ Paired(k)
      BY <2>3, NodeSound, AbandonSound DEF HitlessInv, Coupled, Sound
    <3> HIDE DEF k
    <3>4. Ends(n, k, q, o, r, s)
      BY <1>3, <3>3 DEF Ends
    <3>5. Link(n, k, u, o, r, s, ticked)
      BY <1>2, <1>9, <2>1, <3>2, <3>4, DropLink
    <3>6. peer'[n] = k /\ peer'[o] = r
      BY <1>2, <3>1
    <3> QED BY <1>2, <1>4, <3>5, <3>6, LinkFrom
  <2> QED BY <2>2, <2>3
<1> QED BY <1>8, <1>9

LEMMA HandleEncryptedFrameLink ==
  ASSUME Reliable, HitlessInv, NEW n \in Node, NEW i \in Deliverable(n),
         HandleEncryptedFrame(n, i)
  PROVE  Coupled'
<1> DEFINE m == net[n][i]
           o == Other(n)
           p == peer[n]
           q == net[n]
           r == peer[o]
           s == net[o]
           k == AfterKBit(p, m)
           j == [k EXCEPT !.failures = 0, !.idle = 0]
<1>1. PICK u \in Taken(n, i, [m EXCEPT !.replayed = @ \/ Accepts(n, m)]) :
        net' = [net EXCEPT ![n] = u]
  BY DEF HandleEncryptedFrame
<1>2. /\ i = 1 /\ u \in Seq(Message) /\ Rest(u, q) /\ Len(q) >= 1 /\ 1 \in 1 .. Len(q)
      /\ q \in Seq(Message) /\ net \in [Node -> Seq(Message)]
      /\ peer \in [Node -> Peer] /\ o \in Node /\ o # n /\ live = Node
  BY HeadTaken
<1>3. Ends(n, p, q, o, r, s) /\ Link(n, p, q, o, r, s, ticked)
  BY LinkAt
<1>4. /\ m = q[1] /\ m.type = "frame" /\ ticked' = ticked /\ rekeyOn' = rekeyOn
      /\ net'[n] = u /\ net'[o] = s
  BY <1>1, <1>2 DEF HandleEncryptedFrame
<1>5. /\ m.receiver \in DataIndices(p) /\ Opens(k, m) /\ Link(n, k, q, o, r, s, ticked)
  BY <1>2, <1>3, <1>4, FlipLink
<1>6. /\ p \in Peer /\ Paired(p) /\ Distinct(p) /\ DataIndices(p) \subseteq byIndex[n]
  BY NodeSound DEF HitlessInv, Coupled, Sound, Registered
<1>7. m.receiver \in byIndex[n] /\ Accepts(n, m)
  BY <1>5, <1>6 DEF Accepts
<1>8. peer' = [peer EXCEPT ![n] = j] /\ live' = live
  BY <1>5, <1>7 DEF HandleEncryptedFrame
<1>9. k \in Peer /\ Paired(k)
  BY <1>6, CutoverSound DEF AfterKBit
<1> HIDE DEF k
<1>10. Ends(n, k, q, o, r, s) /\ ~Real(q[1])
  BY <1>3, <1>4, <1>9 DEF Ends, Real
<1>11. Link(n, j, u, o, r, s, ticked)
  BY <1>2, <1>5, <1>10, HearLink
<1> HIDE DEF j
<1>12. peer'[n] = j /\ peer'[o] = r
  BY <1>2, <1>8
<1> QED BY <1>2, <1>4, <1>8, <1>11, <1>12, LinkFrom


\* The messages a tick sends: the msg1 again and the heartbeat.
LEMMA BeatenLink ==
  ASSUME Reliable, HitlessInv, NEW n \in Node, Len(net[Other(n)]) + 2 <= MaxInFlight
  PROVE  LET o == Other(n)
             k == AfterBeat(peer[n])
         IN  /\ Ends(n, k, net[n], o, peer[o], Beaten(n))
             /\ Link(n, k, net[n], o, peer[o], Beaten(n), ticked)
             /\ k.beatAge < Heartbeat
<1> DEFINE o == Other(n)
           p == peer[n]
           q == net[n]
           r == peer[o]
           s == net[o]
           k == AfterBeat(p)
           v == Resent(n)
<1>1. Ends(n, p, q, o, r, s) /\ Link(n, p, q, o, r, s, ticked)
  BY LinkAt
<1>2. /\ p \in Peer /\ Paired(p) /\ s \in Seq(Message) /\ Len(s) \in Nat
      /\ MaxInFlight \in Nat
  BY <1>1, TimeAssumption DEF Ends
<1>3. v \in Seq(Message) /\ Link(n, p, q, o, r, v, ticked) /\ Len(v) <= Len(s) + 1
  <2> DEFINE m == RekeyMsg1(p)
  <2>1. CASE v = s
    BY <1>1, <1>2, <2>1
  <2>2. CASE n \in rekeyOn /\ NeedsMsg1Resend(p)
    <3>1. v = Push(s, m) /\ p.hs # None /\ p.rekeyIdx # None
      BY <1>2, <2>2 DEF Resent, NeedsMsg1Resend, Paired
    <3>2. m \in Message
      BY <1>2, <3>1, RekeyMsg1Typed
    <3>3. /\ m.type = "msg1" /\ m.hs = p.hs /\ m.sender = p.rekeyIdx
          /\ ~Real(m) /\ ~Stale(m) /\ FrameFits(p, r, m)
      BY DEF RekeyMsg1, Real, Stale, FrameFits
    <3>4. v \in Seq(Message) /\ (v = s \/ Longer(v, s, m))
      BY <1>2, <3>1, <3>2, PushLonger
    <3> HIDE DEF m, v
    <3>5. Link(n, p, q, o, r, v, ticked)
      BY <1>1, <3>2, <3>3, <3>4, PushLink
    <3> QED BY <1>2, <3>4, <3>5 DEF Longer
  <2> QED BY <2>1, <2>2 DEF Resent
<1>4. /\ BeatDue(p) => Beaten(n) = Push(v, LinkFrame(p))
      /\ ~BeatDue(p) => Beaten(n) = v
  BY DEF Beaten
<1> HIDE DEF v
<1>5. LinkFrame(p) \in Message
  BY <1>2, LinkFrameTyped
<1>6. /\ Beaten(n) \in Seq(Message)
      /\ BeatDue(p) => Longer(Beaten(n), v, LinkFrame(p))
  <2>1. Len(v) < MaxInFlight
    BY <1>2, <1>3
  <2> QED BY <1>3, <1>4, <1>5, <2>1, PushLonger
<1>7. Ends(n, p, q, o, r, v)
  BY <1>1, <1>3 DEF Ends
<1>8. Link(n, k, q, o, r, Beaten(n), ticked) /\ k.beatAge < Heartbeat
  BY <1>3, <1>4, <1>6, <1>7, BeatLink
<1>9. k \in Peer /\ Paired(k)
  BY BeatSound DEF HitlessInv, Coupled, Sound
<1> QED BY <1>1, <1>6, <1>8, <1>9 DEF Ends

LEMMA TickLink ==
  ASSUME Reliable, HitlessInv, NEW n \in Node, Tick(n)
  PROVE  Coupled'
<1> DEFINE o == Other(n)
           p == peer[n]
           q == net[n]
           r == peer[o]
           b == Beaten(n)
           k == AfterBeat(p)
           d == AfterDrain(k)
           t == ticked \cup {n}
<1>1. /\ net \in [Node -> Seq(Message)] /\ peer \in [Node -> Peer] /\ live = Node
      /\ o \in Node /\ o # n
  BY NodeAssumption DEF HitlessInv, IndInv, TypeOK, Coupled, Up, Other, Node
<1>2. /\ Ends(n, k, q, o, r, b) /\ Link(n, k, q, o, r, b, ticked) /\ k.beatAge < Heartbeat
  BY BeatenLink DEF Tick, Reliable
<1>3. ~LinkDeadTimeout(n)
  <2>1. p.idle <= Heartbeat /\ p.idle \in 0 .. LinkDead
    BY <1>1, LinkAt DEF Link, Side, Heard, Peer
  <2> QED BY <2>1, Times DEF LinkDeadTimeout, Reliable
<1>4. /\ ticked' = t /\ live' = Node /\ rekeyOn' = rekeyOn
      /\ \/ Cutover(n) \/ RekeyDisabled(n)
         \/ n \in rekeyOn /\ ~CutoverDue(p) /\ NoRekeyStarts(n)
         \/ /\ n \in rekeyOn /\ ~CutoverDue(p)
            /\ \E our \in FreeAfterDrain(n) : InitiateRekey(n, our)
  BY <1>1, <1>3 DEF Tick
<1>5. ASSUME NEW x, NEW w, peer' = [peer EXCEPT ![n] = x], net' = [net EXCEPT ![o] = w],
             Link(n, x, q, o, r, w, t)
      PROVE  Coupled'
  <2>1. peer'[n] = x /\ peer'[o] = r /\ net'[n] = q /\ net'[o] = w
    BY <1>1, <1>5
  <2> QED BY <1>4, <1>5, <2>1, LinkFrom
<1>6. k.pend = p.pend /\ k.inProgress = p.inProgress /\ k.peerRekeyAge = p.peerRekeyAge
  BY <1>1 DEF AfterBeat, Peer
<1>7. CASE Cutover(n)
  <2> DEFINE x == CutoverToNewSession(k)
  <2>1. k.pend # None /\ peer' = [peer EXCEPT ![n] = x] /\ net' = [net EXCEPT ![o] = b]
    BY <1>1, <1>6, <1>7 DEF Cutover, CutoverDue
  <2>2. Link(n, x, q, o, r, b, t)
    BY <1>2, <2>1, CutoverLink
  <2> HIDE DEF x
  <2> QED BY <1>5, <2>1, <2>2
<1>8. CASE RekeyDisabled(n)
  <2>1. k.pend = None
    BY <1>2, <1>8 DEF RekeyDisabled, Link, Side, Own
  <2>2. Link(n, k, q, o, r, b, t)
    BY <1>2, <2>1, TickedLink
  <2>3. peer' = [peer EXCEPT ![n] = k] /\ net' = [net EXCEPT ![o] = b]
    BY <1>1, <1>8 DEF RekeyDisabled
  <2> HIDE DEF k
  <2> QED BY <1>5, <2>2, <2>3
<1>9. ASSUME n \in rekeyOn, ~CutoverDue(p)
      PROVE  /\ k.pend = None /\ Ends(n, d, q, o, r, b) /\ Link(n, d, q, o, r, b, t)
             /\ Link(n, d, q, o, r, b, ticked)
             /\ d.pend = None /\ d.beatAge < Heartbeat /\ d \in Peer /\ Paired(d)
             /\ d.inProgress = p.inProgress /\ d.peerRekeyAge = p.peerRekeyAge
  <2>1. k \in Peer /\ Paired(k) /\ Distinct(k)
    BY BeatSound DEF HitlessInv, Coupled, Sound
  <2>2. k.pend = None
    BY <1>6, <1>9, <2>1 DEF CutoverDue, Paired
  <2>3. d \in Peer /\ Paired(d)
    BY <2>1, DrainSound
  <2>4. /\ d.pend = k.pend /\ d.beatAge = k.beatAge /\ d.inProgress = k.inProgress
        /\ d.peerRekeyAge = k.peerRekeyAge
    BY <2>1 DEF AfterDrain, CompleteDrain, Peer
  <2>5. Link(n, d, q, o, r, b, ticked)
    BY <1>2, DrainLink
  <2> HIDE DEF k, d
  <2>6. Ends(n, d, q, o, r, b)
    BY <1>2, <2>3 DEF Ends
  <2>7. Link(n, d, q, o, r, b, t)
    BY <1>2, <2>2, <2>4, <2>5, <2>6, TickedLink
  <2> QED BY <1>2, <1>6, <2>2, <2>3, <2>4, <2>5, <2>6, <2>7
<1>10. CASE n \in rekeyOn /\ ~CutoverDue(p) /\ NoRekeyStarts(n)
  <2>1. peer' = [peer EXCEPT ![n] = d] /\ net' = [net EXCEPT ![o] = b]
    BY <1>1, <1>10 DEF NoRekeyStarts
  <2> HIDE DEF d
  <2> QED BY <1>5, <1>9, <1>10, <2>1
<1>11. ASSUME n \in rekeyOn, ~CutoverDue(p), NEW our \in FreeAfterDrain(n), InitiateRekey(n, our)
       PROVE  Coupled'
  <2> DEFINE x == SetRekeyState(d, fresh, our)
             m == RekeyMsg1(x)
             w == Push(b, m)
  <2>1. /\ RekeyAllowed(n) /\ peer' = [peer EXCEPT ![n] = x] /\ net' = [net EXCEPT ![o] = w]
        /\ fresh \in Id /\ fresh # 0 /\ fresh # None /\ our \in Index /\ our # None
    BY <1>11, IndexAssumption, TimeAssumption
       DEF InitiateRekey, HitlessInv, IndInv, TypeOK, FreeAfterDrain, Id
  <2>2. /\ Ends(n, d, q, o, r, b) /\ Link(n, d, q, o, r, b, t)
        /\ d.pend = None /\ d \in Peer /\ Paired(d) /\ ~d.inProgress /\ ~IsRekeyDampened(d)
    BY <1>9, <1>11, <2>1 DEF RekeyAllowed, IsRekeyDampened
  <2>3. Link(n, x, q, o, r, b, t)
    BY <1>11, <2>1, <2>2, InitiateLink
  <2>4. /\ x.hs = fresh /\ x.rekeyIdx = our /\ x \in Peer /\ Paired(x)
    <3>1. x \in Peer /\ x.hs = fresh /\ x.rekeyIdx = our /\ x.inProgress /\ x.pend = d.pend
          /\ x.pendOur = d.pendOur /\ x.pendTheir = d.pendTheir /\ x.prev = d.prev
          /\ x.prevIdx = d.prevIdx /\ x.draining = d.draining
      <4> HIDE DEF d
      <4>1. x \in Peer
        BY <2>1, <2>2, SetRekeyTyped
      <4> QED BY <2>2, <4>1 DEF SetRekeyState, Peer
    <3> HIDE DEF x, d
    <3> QED BY <2>1, <2>2, <3>1 DEF Paired
  <2> HIDE DEF x, d, b
  <2>5. m \in Message /\ m.type = "msg1" /\ m.hs = x.hs /\ m.sender = x.rekeyIdx
    BY <2>1, <2>4, RekeyMsg1Typed DEF RekeyMsg1
  <2>6. ~Real(m) /\ ~Stale(m) /\ FrameFits(x, r, m)
    BY <2>5 DEF Real, Stale, FrameFits
  <2>7. Ends(n, x, q, o, r, b) /\ b \in Seq(Message)
    BY <2>2, <2>4 DEF Ends
  <2>8. w \in Seq(Message) /\ (w = b \/ Longer(w, b, m))
    BY <2>5, <2>7, PushLonger
  <2> HIDE DEF m, w
  <2>9. Link(n, x, q, o, r, w, t)
    BY <2>3, <2>5, <2>6, <2>7, <2>8, PushLink
  <2> QED BY <1>5, <2>1, <2>9
<1> QED BY <1>4, <1>7, <1>8, <1>10, <1>11

LEMMA SendFrameLink ==
  ASSUME HitlessInv, NEW n \in Node, SendFrame(n)
  PROVE  Coupled'
<1> DEFINE o == Other(n)
           p == peer[n]
           q == net[n]
           r == peer[o]
           s == net[o]
           m == LinkFrame(p)
           v == Push(s, m)
<1>1. /\ net \in [Node -> Seq(Message)] /\ peer \in [Node -> Peer] /\ live = Node
      /\ o \in Node /\ o # n
  BY NodeAssumption DEF HitlessInv, IndInv, TypeOK, Coupled, Up, Other, Node
<1>2. Ends(n, p, q, o, r, s) /\ Link(n, p, q, o, r, s, ticked)
  BY LinkAt
<1>3. m \in Message /\ ~Real(m) /\ ~Stale(m) /\ m.type # "msg1" /\ FrameFits(p, r, m)
  BY <1>1, LinkFrameTyped DEF LinkFrame, Real, Stale, FrameFits
<1>4. v \in Seq(Message) /\ (v = s \/ Longer(v, s, m))
  BY <1>1, <1>3, PushLonger
<1>5. /\ peer' = peer /\ live' = live /\ rekeyOn' = rekeyOn /\ ticked' = ticked
      /\ net'[n] = q /\ net'[o] = v
  BY <1>1 DEF SendFrame, nodeVars
<1> HIDE DEF m, v
<1>6. Link(n, p, q, o, r, v, ticked)
  BY <1>2, <1>3, <1>4, PushLink
<1> QED BY <1>1, <1>5, <1>6, LinkFrom

LEMMA ElapseKeepsLink ==
  ASSUME Reliable, HitlessInv, Elapse
  PROVE  Coupled'
<1> DEFINE n == Small
           o == Large
<1>1. /\ net \in [Node -> Seq(Message)] /\ peer \in [Node -> Peer] /\ live = Node
      /\ n \in Node /\ o \in Node /\ o = Other(n)
  BY NodeAssumption DEF HitlessInv, IndInv, TypeOK, Coupled, Up, Other, Node
<1>2. /\ Ends(n, peer[n], net[n], o, peer[o], net[o])
      /\ Link(n, peer[n], net[n], o, peer[o], net[o], ticked)
  BY <1>1, LinkAt
<1>3. ASSUME NEW j \in Node
      PROVE  Len(net[j]) = 0 /\ Len(Aged(net[j])) = 0
  <2>1. net[j] \in Seq(Message) /\ Len(net[j]) \in Nat /\ DOMAIN net[j] = 1 .. Len(net[j])
    BY <1>1, LenProperties
  <2>2. ~(1 \in 1 .. Len(net[j]))
    <3> SUFFICES ASSUME 1 \in 1 .. Len(net[j]) PROVE FALSE
      OBVIOUS
    <3>1. net[j][1] \in Message /\ net[j][1].age < MaxAge
      BY <2>1, MessageKinds DEF Elapse
    <3>2. net[j][1].age \in 0 .. MaxAge
      BY <3>1 DEF Message, Msg1, Msg2, Frame
    <3> QED BY <3>1, <3>2 DEF Reliable
  <2>3. Len(net[j]) = 0
    BY <2>1, <2>2
  <2>4. DOMAIN Aged(net[j]) = {} /\ net[j] = <<>>
    BY <2>1, <2>3 DEF Aged
  <2>5. Aged(net[j]) \in Seq(Message)
    BY <2>1, AgedTyped DEF Elapse
  <2>6. Len(Aged(net[j])) \in Nat /\ DOMAIN Aged(net[j]) = 1 .. Len(Aged(net[j]))
    BY <2>5, LenProperties
  <2>7. Len(Aged(net[j])) = 0
    BY <2>4, <2>6
  <2> QED BY <2>3, <2>7
<1>4. /\ peer'[n] = Grown(peer[n]) /\ peer'[o] = Grown(peer[o])
      /\ net'[n] = Aged(net[n]) /\ net'[o] = Aged(net[o])
      /\ ticked' = {} /\ ticked = Node /\ live' = Node /\ rekeyOn' = rekeyOn
  BY <1>1 DEF Elapse
<1>5. Link(n, Grown(peer[n]), Aged(net[n]), o, Grown(peer[o]), Aged(net[o]), {})
  BY <1>1, <1>2, <1>3, <1>4, ElapseLink
<1> QED BY <1>1, <1>4, <1>5, LinkFrom

-----------------------------------------------------------------------------
(* The theorems.                                                           *)

LEMMA InitHitless == Init => HitlessInv
<1> SUFFICES ASSUME Init PROVE HitlessInv
  OBVIOUS
<1>1. IndInv /\ Up
  BY InitIndInv DEF Init, Up
<1>2. PICK idx \in [Node -> Index], responder \in Node :
        peer = [n \in Node |->
                 NewPeer(idx[n], idx[Other(n)],
                         IF n = responder
                         THEN [type |-> "msg2", sender |-> idx[n],
                               receiver |-> idx[Other(n)], hs |-> 0,
                               sid |-> 0, age |-> 0]
                         ELSE None)]
  BY DEF Init
<1>3. /\ Small \in Node /\ Large \in Node /\ Other(Small) = Large /\ Other(Large) = Small
  BY NodeAssumption DEF Node, Other
<1> DEFINE p == peer[Small]
           r == peer[Large]
           e == <<>>
<1>4. ASSUME NEW n \in Node
      PROVE  LET x == peer[n] IN
             /\ x.cur = 0 /\ x.kbit = FALSE /\ x.ourIdx = idx[n] /\ x.theirIdx = idx[Other(n)]
             /\ x.pend = None /\ ~x.inProgress /\ x.hs = None /\ x.idle = 0
             /\ x.beatAge = Heartbeat
             /\ x.storedMsg2 # None => x.storedMsg2.hs = 0
  BY ZenonT(60), <1>2 DEF NewPeer
<1>5. /\ net[Small] = e /\ net[Large] = e /\ ticked = {} /\ 0 <= Heartbeat
      /\ 0 # None /\ \A i \in 1 .. Len(e) : FALSE
  BY <1>3, Times, IndexAssumption, TimeAssumption DEF Init, Id
<1> HIDE DEF e
<1>6. Calm(p, e, r, e)
  <2>1. NoReal(e) /\ \A x : NoOdd(e, x)
    BY <1>5 DEF NoReal, NoOdd
  <2> HIDE DEF p, r
  <2>2. Agree(p, r) /\ p.pend = None /\ r.pend = None
    BY ZenonT(60), <1>3, <1>4 DEF Agree, p, r
  <2> QED BY <2>1, <2>2 DEF Calm
<1>7. Side(Small, p, e, Large, r, {}) /\ Side(Large, r, e, Small, p, {})
  <2>1. \A n, x, o, y : EvenAreCurrent(e, x) /\ Msg1sOk(n, x, e, o, y) /\ StaleOk(e, o, y)
    BY <1>5 DEF EvenAreCurrent, Msg1sOk, StaleOk, NoStale
  <2>2. Heard(p, e, Large, r, {}) /\ Heard(r, e, Small, p, {})
    BY <1>3, <1>4, <1>5 DEF Heard
  <2>3. ASSUME NEW n \in Node PROVE Own(n, peer[n])
    <3>1. /\ peer[n].pend = None /\ ~peer[n].inProgress /\ peer[n].hs = None /\ None # 0
          /\ peer[n].storedMsg2 # None => peer[n].storedMsg2.hs = 0
      BY <1>4, <1>5
    <3>2. peer[n].hs # 0
      BY <3>1
    <3> QED BY <3>1, <3>2 DEF Own
  <2> QED BY <1>3, <2>1, <2>2, <2>3 DEF Side
<1> QED BY <1>1, <1>5, <1>6, <1>7 DEF HitlessInv, Coupled, Link, Phase

LEMMA NextHitless == Reliable /\ HitlessInv /\ [Next]_vars => HitlessInv'
<1> SUFFICES ASSUME Reliable, HitlessInv, [Next]_vars PROVE Coupled'
  BY NextIndInv DEF HitlessInv
<1>1. CASE UNCHANGED vars
  <2>1. /\ peer' = peer /\ net' = net /\ live' = live /\ rekeyOn' = rekeyOn /\ ticked' = ticked
    BY <1>1 DEF vars, nodeVars
  <2>2. /\ Small \in Node /\ Large = Other(Small) /\ live = Node
        /\ Link(Small, peer[Small], net[Small], Large, peer[Large], net[Large], ticked)
    BY DEF HitlessInv, Coupled, Up, Node, Other
  <2> QED BY <2>1, <2>2, LinkFrom
<1>2. CASE Next
  <2>1. ASSUME NEW n \in Node, Receive(n) PROVE Coupled'
    BY <2>1, HandleMsg1Link, HandleMsg2Link, HandleEncryptedFrameLink DEF Receive
  <2>2. ASSUME NEW n \in Node, NEW i \in DOMAIN net[n], Lose(n, i) PROVE Coupled'
    BY <2>2 DEF Lose, Reliable
  <2> QED BY <1>2, <2>1, <2>2, TickLink, SendFrameLink, ElapseKeepsLink DEF Next
<1> QED BY <1>1, <1>2

\* What the two sides know of each other holds in every state.
THEOREM LinkIsCoupled == Reliable => (Spec => []HitlessInv)
<1> SUFFICES ASSUME Reliable PROVE Spec => []HitlessInv
  OBVIOUS
<1>1. HitlessInv /\ [Next]_vars => HitlessInv'
  BY NextHitless
<1> QED BY <1>1, InitHitless, PTL DEF Spec

\* A rekey is hitless: no frame that arrives is refused or undecryptable, before,
\* during and after the cutover of either side, whoever starts and even if both do.
THEOREM RekeyIsHitless == Reliable => (Spec => []HitlessCutover)
<1> SUFFICES ASSUME Reliable PROVE Spec => []HitlessCutover
  OBVIOUS
<1>1. HitlessInv => HitlessCutover
  <2> SUFFICES ASSUME HitlessInv, NEW n \in Node, NEW i \in Deliverable(n),
                      net[n][i].type = "frame"
               PROVE  Accepts(n, net[n][i])
    BY DEF HitlessCutover, HitlessInv, Coupled, Up
  <2> DEFINE o == Other(n)
  <2>1. /\ Ends(n, peer[n], net[n], o, peer[o], net[o])
        /\ Link(n, peer[n], net[n], o, peer[o], net[o], ticked)
    BY LinkAt
  <2>2. i = 1 /\ Len(net[n]) >= 1
    <3>1. net[n] \in Seq(Message)
      BY <2>1 DEF Ends
    <3> QED BY <3>1, LenProperties DEF Deliverable, Reliable
  <2>3. net[n][1].receiver \in DataIndices(peer[n])
        /\ Opens(AfterKBit(peer[n], net[n][1]), net[n][1])
    BY <2>1, <2>2, FlipLink
  <2>4. DataIndices(peer[n]) \subseteq byIndex[n]
    BY NodeSound DEF HitlessInv, Coupled, Sound, Registered
  <2> QED BY <2>2, <2>3, <2>4 DEF Accepts
<1>2. Spec => []HitlessInv
  BY LinkIsCoupled
<1> QED BY <1>1, <1>2, PTL

\* Rekeying never ends the link, and with nothing under way both sides hold the same
\* session, the same K-bit and each other's index.
THEOREM RekeyConverges == Reliable => (Spec => []ConvergedWhenQuiet)
<1> SUFFICES ASSUME Reliable PROVE Spec => []ConvergedWhenQuiet
  OBVIOUS
<1>1. HitlessInv => ConvergedWhenQuiet
  <2> SUFFICES ASSUME HitlessInv PROVE ConvergedWhenQuiet
    OBVIOUS
  <2> DEFINE p == peer[Small]
             r == peer[Large]
  <2>1. /\ Up /\ Link(Small, p, net[Small], Large, r, net[Large], ticked)
        /\ Small \in Node /\ Large \in Node /\ Other(Small) = Large /\ Other(Large) = Small
        /\ \A n \in Node : n = Small \/ n = Large
    BY NodeAssumption DEF HitlessInv, Coupled, Node, Other
  <2>2. p.cur # None /\ r.cur # None
    BY <2>1, IndexAssumption DEF HitlessInv, IndInv, TypeOK, Peer
  <2>3. ASSUME net[Small] = <<>>, net[Large] = <<>>, p.pend = None, r.pend = None
        PROVE  Agree(p, r)
    <3>1. \A k, sid, our, their : ~Offered(<<>>, k, sid, our, their)
      BY DEF Offered
    <3> QED BY <2>1, <2>2, <2>3, <3>1 DEF Link, Phase, Calm, Ready, Offer, Lead, Has, Agree
  <2> QED BY <2>1, <2>3 DEF ConvergedWhenQuiet, Agree
<1>2. Spec => []HitlessInv
  BY LinkIsCoupled
<1> QED BY <1>1, <1>2, PTL

-----------------------------------------------------------------------------
(* No index leaks, whatever the transport does.                            *)
(*                                                                         *)
(* A cutover overwrites previous_our_index.  It frees nothing that is still *)
(* registered as long as a session becomes pending only after the drain of *)
(* the last one has ended.  Where this side answers, its own age says so.  *)
(* Where it is answered, that rests on the other side, which cut over at   *)
(* about the same time and does not answer before it is MinRekeyAge old,   *)
(* or, had this side answered last, on the dampening of its own rekeys.    *)

TimersOrdered == MaxAge + DrainWindow + 1 < MinRekeyAge /\ DrainWindow < Dampening

Contents(q) == {q[i] : i \in DOMAIN q}

\* r has the session of its last answer pending, or uses it for at most k units.
Recently(r, k) == r.pend # None \/ r.age <= k

\* A node that has yet to tick may hold a pending session since the last unit.
Slack(n, t) == IF n \in t THEN 0 ELSE 1

DrainOk(n, p, r, t) ==
  p.prevIdx # None =>
    /\ p.pend = None /\ p.age = p.drainAge /\ p.age <= DrainWindow
    /\ n \in t => p.drainAge < DrainWindow
    /\ \/ ~p.inProgress /\ p.peerRekeyAge <= p.drainAge + 1
       \/ Recently(r, MaxAge + 1 + p.drainAge)
PendingOk(n, p, r, t) ==
  p.pend # None =>
    p.peerRekeyAge <= Slack(n, t) \/ Recently(r, MaxAge + Slack(n, t))
\* A message m on the way to p: its handshake was begun, and an answer is young
\* and finds p after its drain.
Fits(m, p, r, f) ==
  /\ m.type \in {"msg1", "msg2"} => m.hs < f
  /\ Real(m) => Recently(r, m.age) /\ (m.hs = p.hs => p.prevIdx = None)
OwnOk(n, p, f) ==
  /\ Own(n, p) /\ (p.hs # None => p.hs < f)
  /\ p.prevIdx # None => n \in rekeyOn /\ p.draining

Timed(n, p, q, r, t, f) ==
  /\ DrainOk(n, p, r, t) /\ PendingOk(n, p, r, t) /\ OwnOk(n, p, f)
  /\ \A m \in Contents(q) : Fits(m, p, r, f)
Timely == \A n \in Node : Timed(n, peer[n], net[n], peer[Other(n)], ticked, fresh)
LeakInv == IndInv /\ NoIndexLeak /\ (Up => Timely)

\* What x keeps of p for the other side.
Keeps(p, x) == \A k \in Nat : Recently(p, k) => Recently(x, k)

-----------------------------------------------------------------------------
(* Queues, as the set of their messages.                                   *)

LEMMA TakenContents ==
  ASSUME NEW n \in Node, net \in [Node -> Seq(Message)], NEW i \in DOMAIN net[n], NEW c,
         NEW u \in Taken(n, i, c)
  PROVE  Contents(u) \subseteq Contents(net[n]) \cup {c}
<1> DEFINE q == net[n]
<1>1. q \in Seq(Message) /\ Len(q) \in Nat /\ DOMAIN q = 1 .. Len(q) /\ i \in 1 .. Len(q)
  BY LenProperties
<1>2. u = RemoveAt(q, i) \/ u = [q EXCEPT ![i] = c]
  BY DEF Taken
<1> HIDE DEF q
<1>3. CASE u = RemoveAt(q, i)
  <2> DEFINE s1 == SubSeq(q, 1, i - 1)
             s2 == SubSeq(q, i + 1, Len(q))
  <2>1. u = s1 \o s2
    BY <1>3 DEF RemoveAt
  <2>2. /\ \A j \in 1 .. i - 1 : j \in 1 .. Len(q) /\ q[j] \in Message
        /\ \A j \in i + 1 .. Len(q) : j \in 1 .. Len(q) /\ q[j] \in Message
        /\ i \in Int /\ Len(q) \in Int /\ 1 <= i /\ i <= Len(q)
    BY <1>1, ElementOfSeq
  <2>3. s1 \in Seq(Message) /\ Len(s1) = i - 1 /\ \A j \in 1 .. i - 1 : s1[j] = q[j]
    BY <2>2, SubSeqProperties
  <2>4. s2 \in Seq(Message) /\ Len(s2) = Len(q) - i
        /\ \A j \in 1 .. Len(q) - i : s2[j] = q[i + j]
    BY <2>2, SubSeqProperties
  <2> HIDE DEF s1, s2
  <2>5. /\ DOMAIN u = 1 .. Len(q) - 1
        /\ \A j \in 1 .. Len(q) - 1 : u[j] = IF j <= i - 1 THEN s1[j] ELSE s2[j - (i - 1)]
    <3>1. Len(s1) + Len(s2) = Len(q) - 1
      BY <1>1, <2>3, <2>4
    <3>2. /\ s1 \o s2 \in Seq(Message) /\ Len(s1 \o s2) = Len(s1) + Len(s2)
          /\ \A j \in 1 .. Len(s1) + Len(s2) :
               (s1 \o s2)[j] = IF j <= Len(s1) THEN s1[j] ELSE s2[j - Len(s1)]
      BY <2>3, <2>4, ConcatProperties
    <3>3. /\ u \in Seq(Message) /\ Len(u) = Len(q) - 1
          /\ \A j \in 1 .. Len(q) - 1 : u[j] = IF j <= Len(s1) THEN s1[j] ELSE s2[j - Len(s1)]
      BY <2>1, <3>1, <3>2
    <3> QED BY <2>3, <3>3, LenProperties
  <2>6. ASSUME NEW j \in DOMAIN u PROVE u[j] \in Contents(q)
    <3>1. CASE j <= i - 1
      <4>1. u[j] = q[j] /\ j \in 1 .. Len(q)
        BY <1>1, <2>3, <2>5, <2>6, <3>1
      <4> QED BY <1>1, <4>1 DEF Contents
    <3>2. CASE ~(j <= i - 1)
      <4> DEFINE k == j - (i - 1)
      <4>1. j \in 1 .. Len(q) - 1 /\ k \in 1 .. Len(q) - i /\ i + k \in 1 .. Len(q)
        BY <1>1, <2>5, <2>6, <3>2
      <4>2. u[j] = s2[k] /\ s2[k] = q[i + k]
        BY <2>4, <2>5, <3>2, <4>1
      <4> HIDE DEF k
      <4> QED BY <1>1, <4>1, <4>2 DEF Contents
    <3> QED BY <3>1, <3>2
  <2> QED BY <2>6 DEF Contents, q
<1>4. CASE u = [q EXCEPT ![i] = c]
  BY <1>4 DEF Contents, q
<1> QED BY <1>2, <1>3, <1>4

LEMMA PushContents ==
  ASSUME NEW q \in Seq(Message), NEW m \in Message
  PROVE  Contents(Push(q, m)) \subseteq Contents(q) \cup {m}
<1>1. CASE Push(q, m) = q
  BY <1>1
<1>2. CASE Push(q, m) = Append(q, m)
  <2>1. Len(q) \in Nat /\ DOMAIN q = 1 .. Len(q)
    BY LenProperties
  <2>2. \A j \in DOMAIN Append(q, m) : (j \in DOMAIN q /\ Append(q, m)[j] = q[j]) \/ Append(q, m)[j] = m
    BY <2>1
  <2> QED BY <1>2, <2>2 DEF Contents
<1> QED BY <1>1, <1>2 DEF Push

LEMMA ContentsTyped ==
  ASSUME NEW q \in Seq(Message), NEW m \in Contents(q)
  PROVE  /\ m \in Message /\ m.age \in 0 .. MaxAge
         /\ m.type \in {"msg1", "msg2"} => m.hs \in Id
<1>1. PICK i \in DOMAIN q : m = q[i]
  BY DEF Contents
<1>2. q[i] \in Message
  BY LenProperties, ElementOfSeq
<1> QED BY <1>1, <1>2 DEF Message, Msg1, Msg2, Frame

LEMMA AgedContents ==
  ASSUME NEW q \in Seq(Message), NEW m \in Contents(Aged(q))
  PROVE  \E l \in Contents(q) :
           /\ m.age = l.age + 1 /\ m.type = l.type
           /\ m.type \in {"msg1", "msg2"} => m.hs = l.hs
<1>1. PICK j \in DOMAIN q : m = [q[j] EXCEPT !.age = @ + 1]
  BY DEF Contents, Aged
<1>2. q[j] \in Message /\ q[j] \in Contents(q)
  BY LenProperties, ElementOfSeq DEF Contents
<1>3. m.age = q[j].age + 1 /\ m.type = q[j].type
      /\ (m.type \in {"msg1", "msg2"} => m.hs = q[j].hs)
  BY <1>1, <1>2 DEF Message, Msg1, Msg2, Frame
<1> QED BY <1>2, <1>3

-----------------------------------------------------------------------------
(* What a step of n must show.                                             *)

\* A step of n to the record x, with the queues u to n and v to the other.
LEMMA TimelyStep ==
  ASSUME IndInv, Up, Timely, NEW n \in Node, NEW x, NEW u, NEW v, NEW g, NEW w,
         peer' = [peer EXCEPT ![n] = x], net'[n] = u, net'[Other(n)] = v,
         fresh' = g, g \in Nat, fresh <= g, ticked' = w, w = ticked \/ w = ticked \cup {n},
         rekeyOn' = rekeyOn,
         DrainOk(n, x, peer[Other(n)], w), PendingOk(n, x, peer[Other(n)], w), OwnOk(n, x, g),
         \A m \in Contents(u) : Fits(m, x, peer[Other(n)], g),
         Keeps(peer[n], x),
         \A m \in Contents(v) : m \in Contents(net[Other(n)]) \/ Fits(m, peer[Other(n)], x, g)
  PROVE  Timely'
<1> DEFINE o == Other(n)
           p == peer[n]
           r == peer[o]
           s == net[o]
<1>1. /\ o \in Node /\ o # n /\ Other(o) = n /\ \A k \in Node : k = n \/ k = o
      /\ r \in Peer /\ s \in Seq(Message) /\ fresh \in Nat
  BY NodeAssumption, ZeroAges DEF IndInv, TypeOK, Node, Other
<1>2. peer'[n] = x /\ peer'[o] = r
  BY <1>1 DEF IndInv, TypeOK
<1>3. Timed(o, r, s, p, ticked, fresh)
  BY <1>1 DEF Timely
<1>4. /\ MaxAge + Slack(o, w) \in Nat /\ MaxAge + 1 + r.drainAge \in Nat
      /\ Slack(o, w) = Slack(o, ticked) /\ (o \in w <=> o \in ticked)
  <2>1. (o \in w <=> o \in ticked) /\ Slack(o, w) = Slack(o, ticked) /\ Slack(o, w) \in Nat
    BY <1>1 DEF Slack
  <2>2. r.drainAge \in Nat /\ MaxAge \in Nat
    BY <1>1, ZeroAges DEF Peer
  <2> QED BY <2>1, <2>2
<1>5. DrainOk(o, r, x, w) /\ PendingOk(o, r, x, w)
  BY <1>3, <1>4 DEF Timed, DrainOk, PendingOk, Keeps
<1>6. OwnOk(o, r, g)
  <2>1. r.hs # None => r.hs \in Nat
    BY <1>1, ZeroAges DEF Peer, OptId, Id
  <2> QED BY <1>1, <1>3, <2>1 DEF Timed, OwnOk
<1>7. ASSUME NEW m \in Contents(v) PROVE Fits(m, r, x, g)
  <2>1. CASE m \in Contents(s)
    <3>1. Fits(m, r, p, fresh) /\ m.age \in Nat
          /\ (m.type \in {"msg1", "msg2"} => m.hs \in Nat)
      BY <1>1, <1>3, <2>1, ContentsTyped, ZeroAges DEF Timed, Id
    <3> QED BY <1>1, <3>1 DEF Fits, Keeps
  <2> QED BY <1>7, <2>1
<1>8. Timed(n, x, u, r, w, g) /\ Timed(o, r, v, x, w, g)
  BY <1>5, <1>6, <1>7 DEF Timed
<1>9. ASSUME NEW k \in Node
      PROVE  Timed(k, peer[k], net[k], peer[Other(k)], ticked, fresh)'
  <2>1. Timed(k, peer'[k], net'[k], peer'[Other(k)], ticked', fresh')
    BY <1>1, <1>2, <1>8
  <2> QED BY <2>1 DEF Timed, DrainOk, PendingOk, OwnOk, Own
<1> QED BY <1>9 DEF Timely

\* The tables of n hold what its new record x holds.
LEMMA ExactStep ==
  ASSUME IndInv, Up, NoIndexLeak, IndInv', NEW n \in Node, NEW x,
         live' = live, peer' = [peer EXCEPT ![n] = x],
         NEW b, byIndex' = [byIndex EXCEPT ![n] = b], b = DataIndices(x),
         NEW a, allocated' = [allocated EXCEPT ![n] = a], a = HeldIndices(x)
  PROVE  NoIndexLeak'
<1>1. ASSUME NEW k \in Node
      PROVE  allocated'[k] = HeldIndices(peer'[k]) /\ byIndex'[k] = DataIndices(peer'[k])
  BY DEF NoIndexLeak, IndInv, TypeOK, Up
<1>2. \A k \in Node : k \in live' /\ pendingOutbound'[k] = RekeyIndices(peer'[k])
  BY DEF IndInv, IndexSafety, Up
<1> QED BY <1>1, <1>2 DEF NoIndexLeak

LEMMA RemoveExact ==
  ASSUME IndInv, Up, NoIndexLeak, NEW n \in Node, NEW x, RemoveActivePeer(n, x),
         DataIndices(x) = DataIndices(peer[n]), RekeyIndices(x) = RekeyIndices(peer[n])
  PROVE  NoIndexLeak' /\ ~Up'
<1>1. /\ byIndex[n] = DataIndices(peer[n]) /\ pendingOutbound[n] = RekeyIndices(peer[n])
      /\ allocated[n] = HeldIndices(peer[n])
  BY DEF NoIndexLeak, Up
<1>2. /\ byIndex'[n] = {} /\ pendingOutbound'[n] = {} /\ allocated'[n] = {}
      /\ n \notin live'
  BY <1>1 DEF RemoveActivePeer, HeldIndices, IndInv, TypeOK
<1>3. ASSUME NEW k \in Node, k # n
      PROVE  /\ k \in live' /\ peer'[k] = peer[k] /\ byIndex'[k] = byIndex[k]
             /\ pendingOutbound'[k] = pendingOutbound[k] /\ allocated'[k] = allocated[k]
  BY <1>3 DEF RemoveActivePeer, IndInv, TypeOK, Up
<1>4. NoIndexLeak'
  BY <1>2, <1>3 DEF NoIndexLeak, Up
<1> QED BY <1>2, <1>4 DEF Up

\* What Timed says of a record of n, beside what it shows to the other side.
Kept(n, p, x, q, r, w, f) ==
  /\ DrainOk(n, x, r, w) /\ PendingOk(n, x, r, w) /\ OwnOk(n, x, f) /\ Keeps(p, x)
  /\ \A m \in Contents(q) : Fits(m, x, r, f)

\* A record whose sessions are the same, but for a drain or a rekey given up.
LEMMA SameRecord ==
  ASSUME NEW n, NEW p, NEW q, NEW r, NEW t, NEW f, Timed(n, p, q, r, t, f),
         NEW x, x.pend = p.pend, x.age = p.age, x.drainAge = p.drainAge,
         x.peerRekeyAge = p.peerRekeyAge, x.storedMsg2 = p.storedMsg2,
         (x.prevIdx = p.prevIdx /\ x.draining = p.draining) \/ x.prevIdx = None,
         \/ x.hs = p.hs /\ x.inProgress = p.inProgress
         \/ x.hs = None /\ ~x.inProgress /\ \A m \in Contents(q) : Real(m) => m.hs # None,
         None # 0, NEW w,
         w = t \/ (x.pend = None /\ (x.prevIdx # None => x.drainAge < DrainWindow))
  PROVE  Kept(n, p, x, q, r, w, f)
<1>1. DrainOk(n, x, r, w)
  BY DEF Timed, DrainOk
<1>2. PendingOk(n, x, r, w)
  BY DEF Timed, PendingOk
<1>3. OwnOk(n, x, f)
  BY DEF Timed, OwnOk, Own
<1>4. Keeps(p, x)
  BY DEF Keeps, Recently
<1>5. \A m \in Contents(q) : Fits(m, x, r, f)
  BY DEF Timed, Fits
<1> QED BY <1>1, <1>2, <1>3, <1>4, <1>5 DEF Kept

\* A pending session becomes current.
LEMMA CutoverTimed ==
  ASSUME NEW n, NEW p \in Peer, Paired(p), NEW q \in Seq(Message), NEW r \in Peer, NEW t, NEW f,
         Timed(n, p, q, r, t, f), p.pend # None, NEW w
  PROVE  Kept(n, p, CutoverToNewSession(p), q, r, w, f) /\ p.prevIdx = None
<1> DEFINE x == CutoverToNewSession(p)
<1>1. /\ x.pend = None /\ x.age = 0 /\ x.drainAge = 0 /\ ~x.inProgress /\ x.hs = p.hs
      /\ x.draining
      /\ x.peerRekeyAge = p.peerRekeyAge /\ x.storedMsg2 = p.storedMsg2
  BY DEF CutoverToNewSession, Peer
<1> HIDE DEF x
<1>2. p.prevIdx = None
  BY DEF Timed, DrainOk
<1>3. p.hs = None
  BY DEF Paired
<1>4. DrainOk(n, x, r, w)
  <2>1. /\ Slack(n, t) \in Nat /\ Slack(n, t) <= 1 /\ p.peerRekeyAge \in Nat /\ r.age \in Nat
        /\ MaxAge \in Nat
    BY ZeroAges DEF Slack, Peer
  <2>2. p.peerRekeyAge <= 1 \/ Recently(r, MaxAge + 1)
    BY <2>1 DEF Timed, PendingOk, Recently
  <2>3. DrainWindow > 0 /\ DrainWindow \in Nat
    BY TimeAssumption
  <2> QED BY <1>1, <2>1, <2>2, <2>3 DEF DrainOk
<1>5. PendingOk(n, x, r, w)
  BY <1>1 DEF PendingOk
<1>6. OwnOk(n, x, f)
  <2>1. n \in rekeyOn /\ None # 0
    BY IndexAssumption, ZeroAges DEF OwnOk, Own, Timed, Id
  <2> QED BY <1>1, <1>3, <2>1 DEF OwnOk, Own, Timed
<1>7. Keeps(p, x)
  BY <1>1 DEF Keeps, Recently
<1>8. ASSUME NEW m \in Contents(q) PROVE Fits(m, x, r, f)
  <2>1. Fits(m, p, r, f) /\ (Real(m) => m.hs # None)
    BY <1>8, ContentsTyped, IndexAssumption DEF Timed, Real
  <2> QED BY <1>1, <1>3, <2>1 DEF Fits
<1> QED BY <1>2, <1>4, <1>5, <1>6, <1>7, <1>8 DEF Kept, x

\* A session that its maker has just answered becomes pending: n answered it, ...
LEMMA AnswerTimed ==
  ASSUME NEW n, NEW p \in Peer, NEW q \in Seq(Message), NEW r \in Peer, NEW t, NEW f \in Nat,
         Timed(n, p, q, r, t, f), TimersOrdered, ~Young(n, p),
         NEW x, x.pend \in Id, x.prevIdx = p.prevIdx, x.hs = None, ~x.inProgress,
         x.storedMsg2 = p.storedMsg2, x.peerRekeyAge = 0
  PROVE  Kept(n, p, x, q, r, t, f + 1) /\ p.prevIdx = None
<1>1. p.prevIdx = None
  <2>1. p.age >= MinRekeyAge /\ p.age \in Nat /\ MinRekeyAge \in Nat /\ MaxAge \in Nat
        /\ DrainWindow \in Nat
    BY Times, ZeroAges DEF Young, Peer
  <2> QED BY <2>1 DEF Timed, DrainOk, TimersOrdered
<1>2. x.pend # None /\ n \in rekeyOn
  BY IndexAssumption DEF Young
<1>3. DrainOk(n, x, r, t)
  BY <1>1 DEF DrainOk
<1>4. PendingOk(n, x, r, t)
  BY DEF PendingOk, Slack
<1>5. OwnOk(n, x, f + 1)
  <2>1. None # 0
    BY IndexAssumption, ZeroAges DEF Id
  <2> QED BY <1>1, <1>2, <2>1 DEF OwnOk, Own, Timed
<1>6. Keeps(p, x)
  BY <1>2 DEF Keeps, Recently
<1>7. ASSUME NEW m \in Contents(q) PROVE Fits(m, x, r, f + 1)
  <2>1. Fits(m, p, r, f) /\ (m.type \in {"msg1", "msg2"} => m.hs \in Nat)
    BY ContentsTyped, ZeroAges DEF Timed, Id
  <2> QED BY <1>1, <2>1 DEF Fits
<1> QED BY <1>1, <1>3, <1>4, <1>5, <1>6, <1>7 DEF Kept

\* ... and the answer finds the other side after its drain.
LEMMA AnswerFits ==
  ASSUME NEW o, NEW r \in Peer, Paired(r), NEW s, NEW n, NEW p \in Peer, NEW t, NEW f \in Nat,
         Timed(o, r, s, p, t, f), TimersOrdered, ~Young(n, p), p.pend = None,
         NEW x, x.pend \in Id, NEW m \in Msg1, m.hs < f, NEW our, NEW sid
  PROVE  Fits(RekeyMsg2(our, m, sid), r, x, f + 1)
<1> DEFINE a == RekeyMsg2(our, m, sid)
<1>1. a.type = "msg2" /\ a.hs = m.hs /\ a.age = 0 /\ m.hs \in Nat /\ m.hs \in Id
  BY ZeroAges DEF RekeyMsg2, Msg1, Id
<1>2. x.pend # None /\ m.hs # None
  BY <1>1, IndexAssumption
<1>3. m.hs = r.hs => r.prevIdx = None
  <2> SUFFICES ASSUME m.hs = r.hs, r.prevIdx # None PROVE FALSE
    OBVIOUS
  <2>1. r.inProgress
    BY <1>2 DEF Paired
  <2>2. p.age <= MaxAge + 1 + r.drainAge
    BY <2>1 DEF Timed, DrainOk, Recently
  <2>3. /\ r.drainAge \in Nat /\ r.drainAge <= DrainWindow /\ p.age \in Nat
        /\ MinRekeyAge \in Nat /\ DrainWindow \in Nat /\ MaxAge \in Nat /\ p.age >= MinRekeyAge
    BY Times, ZeroAges DEF Peer, Young
  <2> QED BY <2>2, <2>3 DEF TimersOrdered
<1> HIDE DEF a
<1> QED BY <1>1, <1>2, <1>3 DEF Fits, Recently, a

\* The answer n waited for comes.
LEMMA CompleteTimed ==
  ASSUME NEW n, NEW p \in Peer, NEW q \in Seq(Message), NEW r \in Peer, NEW t, NEW f,
         Timed(n, p, q, r, t, f), NEW m \in Contents(q), m.type = "msg2", m.hs = p.hs,
         p.inProgress, m \in Msg2
  PROVE  /\ Kept(n, p, SetPendingSession(p, m.sid, m.receiver, m.sender), q, r, t, f)
         /\ p.prevIdx = None
<1> DEFINE x == SetPendingSession(p, m.sid, m.receiver, m.sender)
<1>1. /\ x.pend = m.sid /\ x.age = p.age /\ x.hs = None /\ ~x.inProgress
      /\ x.prevIdx = p.prevIdx /\ x.storedMsg2 = p.storedMsg2
  BY DEF SetPendingSession, Peer
<1>2. x.pend # None /\ None # 0
  BY <1>1, IndexAssumption, ZeroAges DEF Msg2, Id
<1> HIDE DEF x
<1>3. Real(m) /\ n \in rekeyOn
  BY DEF Real, Timed, OwnOk, Own
<1>4. p.prevIdx = None /\ Recently(r, m.age)
  BY <1>3 DEF Timed, Fits
<1>5. Recently(r, MaxAge + Slack(n, t))
  <2>1. m.age \in 0 .. MaxAge
    BY ContentsTyped
  <2>2. r.age \in Nat /\ MaxAge \in Nat /\ Slack(n, t) \in {0, 1}
    BY ZeroAges DEF Peer, Slack
  <2> QED BY <1>4, <2>1, <2>2 DEF Recently
<1>6. DrainOk(n, x, r, t) /\ PendingOk(n, x, r, t)
  BY <1>1, <1>4, <1>5 DEF DrainOk, PendingOk
<1>7. OwnOk(n, x, f)
  BY <1>1, <1>2, <1>3, <1>4 DEF OwnOk, Own, Timed
<1>8. Keeps(p, x)
  BY <1>2 DEF Keeps, Recently
<1>9. \A l \in Contents(q) : Fits(l, x, r, f)
  BY <1>1, <1>4 DEF Timed, Fits
<1> QED BY <1>4, <1>6, <1>7, <1>8, <1>9 DEF Kept, x

\* A rekey begins, which the dampening forbids while n drains after an answer of
\* its own.
LEMMA InitiateTimed ==
  ASSUME NEW n, NEW p \in Peer, NEW x \in Peer, NEW q \in Seq(Message), NEW r \in Peer, NEW w,
         NEW f \in Nat, f # 0, Kept(n, p, x, q, r, w, f), TimersOrdered,
         x.prevIdx # None => x.drainAge < DrainWindow,
         n \in rekeyOn, ~IsRekeyDampened(x), x.pend = None, NEW our
  PROVE  Kept(n, p, SetRekeyState(x, f, our), q, r, w, f + 1)
<1> DEFINE y == SetRekeyState(x, f, our)
<1>1. /\ y.hs = f /\ y.pend = x.pend /\ y.age = x.age /\ y.drainAge = x.drainAge
      /\ y.prevIdx = x.prevIdx /\ y.peerRekeyAge = x.peerRekeyAge
      /\ y.storedMsg2 = x.storedMsg2 /\ y.draining = x.draining
  BY DEF SetRekeyState, Peer
<1> HIDE DEF y
<1>2. DrainOk(n, y, r, w)
  <2>1. /\ x.drainAge \in Nat /\ x.peerRekeyAge \in Nat /\ DrainWindow \in Nat /\ Dampening \in Nat
    BY Times DEF Peer
  <2>2. x.prevIdx # None => ~(x.peerRekeyAge <= x.drainAge + 1)
    BY <2>1 DEF TimersOrdered, IsRekeyDampened
  <2> QED BY <1>1, <2>2 DEF Kept, DrainOk
<1>3. PendingOk(n, y, r, w)
  BY <1>1 DEF PendingOk
<1>4. OwnOk(n, y, f + 1)
  BY <1>1 DEF OwnOk, Own, Kept
<1>5. Keeps(p, y)
  BY <1>1 DEF Keeps, Recently, Kept
<1>6. ASSUME NEW m \in Contents(q) PROVE Fits(m, y, r, f + 1)
  <2>1. Fits(m, x, r, f) /\ (m.type \in {"msg1", "msg2"} => m.hs \in Nat)
    BY ContentsTyped, ZeroAges DEF Kept, Id
  <2> QED BY <1>1, <2>1 DEF Fits, Real
<1> QED BY <1>2, <1>3, <1>4, <1>5, <1>6 DEF Kept, y

-----------------------------------------------------------------------------
(* One lemma per action.                                                   *)

LEMMA LeakAt ==
  ASSUME LeakInv, Up, NEW n \in Node
  PROVE  LET o == Other(n)
             p == peer[n]
             r == peer[o]
         IN  /\ o \in Node /\ o # n
             /\ Timed(n, p, net[n], r, ticked, fresh) /\ Timed(o, r, net[o], p, ticked, fresh)
             /\ p \in Peer /\ r \in Peer /\ Paired(p) /\ Paired(r) /\ Distinct(p)
             /\ byIndex[n] = DataIndices(p) /\ pendingOutbound[n] = RekeyIndices(p)
             /\ allocated[n] = DataIndices(p) \cup RekeyIndices(p)
             /\ net \in [Node -> Seq(Message)] /\ net[n] \in Seq(Message) /\ net[o] \in Seq(Message)
             /\ fresh \in Nat /\ fresh # 0 /\ None # 0 /\ live = Node
<1> DEFINE o == Other(n)
<1>1. o \in Node /\ o # n /\ Other(o) = n
  BY NodeAssumption DEF Node, Other
<1>2. /\ Timed(n, peer[n], net[n], peer[o], ticked, fresh)
      /\ Timed(o, peer[o], net[o], peer[n], ticked, fresh)
  BY <1>1 DEF LeakInv, Timely
<1>3. /\ byIndex[n] = DataIndices(peer[n]) /\ pendingOutbound[n] = RekeyIndices(peer[n])
      /\ allocated[n] = DataIndices(peer[n]) \cup RekeyIndices(peer[n])
  BY DEF LeakInv, NoIndexLeak, HeldIndices, Up
<1>4. \A k \in Node : peer[k] \in Peer /\ Paired(peer[k]) /\ Distinct(peer[k])
  BY NodeSound DEF LeakInv, Sound
<1>5. fresh \in Nat /\ fresh # 0 /\ None # 0 /\ net \in [Node -> Seq(Message)]
  BY IndexAssumption, ZeroAges DEF LeakInv, IndInv, TypeOK, Id
<1> QED BY <1>1, <1>2, <1>3, <1>4, <1>5 DEF Up

\* A step that touches no peer record and no table.
LEMMA QuietLeak ==
  ASSUME LeakInv, Up, IndInv', NEW n \in Node, UNCHANGED <<nodeVars, fresh, ticked, rekeyOn>>,
         NEW u, NEW v, net'[n] = u, net'[Other(n)] = v,
         \A m \in Contents(u) : m \in Contents(net[n]) \/ m.type = "frame",
         \A m \in Contents(v) : m \in Contents(net[Other(n)]) \/ m.type = "frame"
                                \/ (m.type = "msg2" /\ m.hs = 0)
  PROVE  LeakInv'
<1> DEFINE o == Other(n)
           p == peer[n]
           r == peer[o]
<1>1. /\ Timed(n, p, net[n], r, ticked, fresh)
      /\ fresh \in Nat /\ fresh # 0 /\ peer \in [Node -> Peer]
  BY LeakAt DEF LeakInv, IndInv, TypeOK
<1>2. Keeps(p, p) /\ peer' = [peer EXCEPT ![n] = p]
  BY <1>1 DEF Keeps, nodeVars
<1>3. \A m : m.type = "frame" => Fits(m, p, r, fresh) /\ Fits(m, r, p, fresh)
  BY DEF Fits, Real
<1>4. \A m : m.type = "msg2" /\ m.hs = 0 => Fits(m, r, p, fresh)
  BY <1>1 DEF Fits, Real
<1>5. \A m \in Contents(u) : Fits(m, p, r, fresh)
  BY <1>1, <1>3 DEF Timed
<1>6. \A m \in Contents(v) : m \in Contents(net[o]) \/ Fits(m, r, p, fresh)
  BY <1>3, <1>4
<1>7. Timely'
  <2>1. /\ DrainOk(n, p, r, ticked) /\ PendingOk(n, p, r, ticked) /\ OwnOk(n, p, fresh)
        /\ IndInv /\ Timely /\ fresh <= fresh
        /\ fresh' = fresh /\ ticked' = ticked /\ rekeyOn' = rekeyOn
    BY <1>1 DEF LeakInv, Timed
  <2> QED BY <1>1, <1>2, <1>5, <1>6, <2>1, TimelyStep
<1>8. NoIndexLeak'
  BY DEF LeakInv, NoIndexLeak, nodeVars
<1> QED BY <1>7, <1>8 DEF LeakInv

\* A step of n to the record x beside exact tables.
LEMMA LeakStep ==
  ASSUME LeakInv, Up, IndInv', NEW n \in Node, NEW x, NEW u, NEW v, NEW g, NEW w,
         live' = live, peer' = [peer EXCEPT ![n] = x], net'[n] = u, net'[Other(n)] = v,
         fresh' = g, g \in Nat, fresh <= g, ticked' = w, w = ticked \/ w = ticked \cup {n},
         rekeyOn' = rekeyOn, Kept(n, peer[n], x, net[n], peer[Other(n)], w, g),
         \A m \in Contents(u) : m \in Contents(net[n]) \/ m.type = "frame",
         \A m \in Contents(v) : m \in Contents(net[Other(n)]) \/ Fits(m, peer[Other(n)], x, g),
         NEW b, byIndex' = [byIndex EXCEPT ![n] = b], b = DataIndices(x),
         NEW a, allocated' = [allocated EXCEPT ![n] = a], a = DataIndices(x) \cup RekeyIndices(x)
  PROVE  LeakInv'
<1> DEFINE o == Other(n)
           r == peer[o]
<1>1. \A m \in Contents(u) : Fits(m, x, r, g)
  <2>1. \A m : m.type = "frame" => Fits(m, x, r, g)
    BY DEF Fits, Real
  <2> QED BY <2>1 DEF Kept
<1>2. Timely'
  BY <1>1, TimelyStep DEF LeakInv, Kept
<1>3. NoIndexLeak'
  BY ExactStep DEF LeakInv, HeldIndices
<1> QED BY <1>2, <1>3 DEF LeakInv

LEMMA HandleMsg1Leak ==
  ASSUME TimersOrdered, LeakInv, Up, NEW n \in Node, NEW i \in DOMAIN net[n], HandleMsg1(n, i)
  PROVE  LeakInv'
<1> DEFINE m == net[n][i]
           o == Other(n)
           p == peer[n]
           q == net[n]
           r == peer[o]
           s == net[o]
<1>1. PICK u \in Taken(n, i, m) : \/ DuplicateMsg1(n, u)
                                  \/ IgnoredMsg1(n, u)
                                  \/ AnsweredMsg1(n, m, u)
  BY DEF HandleMsg1
<1>2. /\ o \in Node /\ o # n
      /\ Timed(n, p, q, r, ticked, fresh) /\ Timed(o, r, s, p, ticked, fresh)
      /\ p \in Peer /\ r \in Peer /\ Paired(p) /\ Paired(r) /\ Distinct(p)
      /\ byIndex[n] = DataIndices(p) /\ pendingOutbound[n] = RekeyIndices(p)
      /\ allocated[n] = DataIndices(p) \cup RekeyIndices(p)
      /\ net \in [Node -> Seq(Message)] /\ q \in Seq(Message) /\ s \in Seq(Message)
      /\ fresh \in Nat /\ fresh # 0 /\ None # 0 /\ live = Node
  BY LeakAt
<1>3. /\ IndInv' /\ ticked' = ticked /\ rekeyOn' = rekeyOn
      /\ m \in Msg1 /\ m.type = "msg1" /\ m \in Contents(q)
  BY <1>2, HandleMsg1Inv, MessageTypes DEF HandleMsg1, LeakInv, Contents
<1>4. \A l \in Contents(u) : l \in Contents(q)
  BY <1>2, <1>3, TakenContents
<1>5. m.hs < fresh
  BY <1>2, <1>3 DEF Timed, Fits
<1> HIDE DEF m
<1>6. CASE DuplicateMsg1(n, u)
  <2> DEFINE v == IF p.storedMsg2 = None THEN s ELSE Push(s, p.storedMsg2)
  <2>1. net'[n] = u /\ net'[o] = v /\ UNCHANGED <<nodeVars, fresh>>
    BY <1>2, <1>6 DEF DuplicateMsg1
  <2>2. ASSUME p.storedMsg2 # None
        PROVE  p.storedMsg2 \in Message /\ p.storedMsg2.type = "msg2" /\ p.storedMsg2.hs = 0
    BY <1>2, <2>2 DEF Peer, Message, Msg2, Timed, OwnOk, Own
  <2>3. \A l \in Contents(v) : l \in Contents(s) \/ (l.type = "msg2" /\ l.hs = 0)
    BY <1>2, <2>2, PushContents
  <2> HIDE DEF v
  <2> QED BY <1>3, <1>4, <2>1, <2>3, QuietLeak
<1>7. CASE IgnoredMsg1(n, u)
  <2>1. net'[n] = u /\ net'[o] = s /\ UNCHANGED <<nodeVars, fresh>>
    BY <1>2, <1>7 DEF IgnoredMsg1
  <2> QED BY <1>3, <1>4, <2>1, QuietLeak
<1>8. CASE AnsweredMsg1(n, m, u)
  <2> DEFINE k == IF p.inProgress THEN AbandonRekey(p) ELSE p
             freed == IF p.inProgress THEN {AbandonedIndex(p)} \ {None} ELSE {}
             free == Index \ (allocated[n] \ freed)
  <2>1. ~Young(n, p) /\ p.pend = None /\ live' = live
    BY <1>8 DEF AnsweredMsg1, IsRekeyMsg1, Young
  <2>2. \/ /\ Reindex(n, freed, {}) /\ peer' = [peer EXCEPT ![n] = k]
           /\ net' = [net EXCEPT ![n] = u] /\ fresh' = fresh
        \/ /\ fresh <= MaxFresh /\ fresh' = fresh + 1
           /\ \E our \in free :
                /\ Reindex(n, freed, {our})
                /\ peer' = [peer EXCEPT ![n] =
                             [SetPendingSession(k, fresh, our, m.sender)
                                EXCEPT !.peerRekeyAge = 0]]
                /\ net' = [net EXCEPT ![n] = u,
                             ![o] = Push(@, RekeyMsg2(our, m, fresh))]
    BY <1>8 DEF AnsweredMsg1
  <2>3. /\ k \in Peer /\ Paired(k) /\ Distinct(k) /\ k.pend = None /\ k.hs = None /\ ~k.inProgress
        /\ DataIndices(k) = DataIndices(p) /\ RekeyIndices(k) = {}
        /\ freed = RekeyIndices(p) /\ freed \cap DataIndices(p) = {}
        /\ k.age = p.age /\ k.drainAge = p.drainAge /\ k.peerRekeyAge = p.peerRekeyAge
        /\ k.storedMsg2 = p.storedMsg2 /\ k.prevIdx = p.prevIdx
        /\ k.draining = p.draining
    <3>1. CASE p.inProgress
      <4>1. k = AbandonRekey(p)
        BY <3>1
      <4>2. /\ k.hs = None /\ ~k.inProgress
            /\ k.age = p.age /\ k.drainAge = p.drainAge /\ k.peerRekeyAge = p.peerRekeyAge
            /\ k.storedMsg2 = p.storedMsg2 /\ k.prevIdx = p.prevIdx
            /\ k.draining = p.draining
        BY <1>2, <4>1 DEF AbandonRekey, Peer
      <4>3. /\ k \in Peer /\ Paired(k) /\ Distinct(k) /\ k.pend = None
            /\ DataIndices(k) = DataIndices(p) /\ RekeyIndices(k) = {}
            /\ freed = RekeyIndices(p) /\ freed \cap DataIndices(p) = {}
        BY <1>2, <3>1, <4>1, AbandonSound, IndexAssumption
      <4> QED BY <4>2, <4>3
    <3>2. CASE ~p.inProgress
      BY <1>2, <2>1, <3>2 DEF Paired, RekeyIndices
    <3> QED BY <3>1, <3>2
  <2>4. allocated[n] \ freed = DataIndices(p) /\ byIndex[n] \ freed = DataIndices(p)
    BY <1>2, <2>3
  <2> HIDE DEF k, freed, free
  <2>5. CASE /\ Reindex(n, freed, {}) /\ peer' = [peer EXCEPT ![n] = k]
             /\ net' = [net EXCEPT ![n] = u] /\ fresh' = fresh
    <3>1. /\ byIndex' = [byIndex EXCEPT ![n] = DataIndices(k)]
          /\ allocated' = [allocated EXCEPT ![n] = DataIndices(k)]
      BY <2>3, <2>4, <2>5 DEF Reindex
    <3>2. net'[n] = u /\ net'[o] = s
      BY <1>2, <2>5
    <3>3. \A l \in Contents(q) : Real(l) => l.hs # None
      BY <1>2, ContentsTyped, IndexAssumption DEF Real
    <3>4. Kept(n, p, k, q, r, ticked, fresh)
      BY <1>2, <2>1, <2>3, <3>3, SameRecord
    <3>5. DataIndices(k) = DataIndices(k) \cup RekeyIndices(k) /\ fresh <= fresh
      BY <1>2, <2>3
    <3> QED BY <1>2, <1>3, <1>4, <2>1, <2>5, <3>1, <3>2, <3>4, <3>5, LeakStep
  <2>6. ASSUME fresh <= MaxFresh, fresh' = fresh + 1, NEW our \in free, Reindex(n, freed, {our}),
               peer' = [peer EXCEPT ![n] = [SetPendingSession(k, fresh, our, m.sender)
                                              EXCEPT !.peerRekeyAge = 0]],
               net' = [net EXCEPT ![n] = u, ![o] = Push(@, RekeyMsg2(our, m, fresh))]
        PROVE  LeakInv'
    <3> DEFINE y == SetPendingSession(k, fresh, our, m.sender)
               j == [y EXCEPT !.peerRekeyAge = 0]
               a == RekeyMsg2(our, m, fresh)
               v == Push(s, a)
    <3>1. our \in Index /\ fresh \in Id /\ our \notin DataIndices(k) /\ m.sender \in Index
      BY <1>2, <1>3, <2>3, <2>4, <2>6, ZeroAges DEF free, Id, Msg1
    <3>2. y \in Peer /\ DataIndices(y) = DataIndices(k) \cup {our} /\ RekeyIndices(y) = {}
      BY <2>3, <3>1, SetPendingTyped, SetPendingSound
    <3>3. /\ y.pend = fresh /\ y.prevIdx = p.prevIdx /\ y.hs = None /\ ~y.inProgress
          /\ y.storedMsg2 = p.storedMsg2
      BY <2>3 DEF SetPendingSession, Peer
    <3> HIDE DEF y
    <3>4. /\ j.pend = fresh /\ j.prevIdx = p.prevIdx /\ j.hs = None /\ ~j.inProgress
          /\ j.storedMsg2 = p.storedMsg2 /\ j.peerRekeyAge = 0
          /\ DataIndices(j) = DataIndices(k) \cup {our} /\ RekeyIndices(j) = {}
      BY <3>2, <3>3 DEF Peer, DataIndices, RekeyIndices
    <3>5. Kept(n, p, j, q, r, ticked, fresh + 1)
      <4> HIDE DEF j
      <4> QED BY <1>2, <2>1, <3>1, <3>4, AnswerTimed
    <3>6. Fits(a, r, j, fresh + 1)
      <4> HIDE DEF j
      <4> QED BY <1>2, <1>3, <1>5, <2>1, <3>1, <3>4, AnswerFits
    <3>7. a \in Message
      BY <1>3, <3>1, RekeyMsg2Typed
    <3> HIDE DEF a
    <3>8. \A l \in Contents(v) : l \in Contents(s) \/ Fits(l, r, j, fresh + 1)
      BY <1>2, <3>6, <3>7, PushContents
    <3>9. /\ byIndex' = [byIndex EXCEPT ![n] = DataIndices(j)]
          /\ allocated' = [allocated EXCEPT ![n] = DataIndices(j)]
      BY <2>3, <2>4, <2>6, <3>4 DEF Reindex
    <3>10. net'[n] = u /\ net'[o] = v /\ peer' = [peer EXCEPT ![n] = j]
      BY <1>2, <2>6 DEF a, y
    <3> HIDE DEF j, v
    <3>11. /\ DataIndices(j) = DataIndices(j) \cup RekeyIndices(j)
           /\ fresh + 1 \in Nat /\ fresh <= fresh + 1
      BY <1>2, <3>4
    <3> QED BY <1>2, <1>3, <1>4, <2>1, <2>6, <3>5, <3>8, <3>9, <3>10, <3>11, LeakStep
  <2> QED BY <2>2, <2>5, <2>6
<1> QED BY <1>1, <1>6, <1>7, <1>8

LEMMA HandleMsg2Leak ==
  ASSUME LeakInv, Up, NEW n \in Node, NEW i \in DOMAIN net[n], HandleMsg2(n, i)
  PROVE  LeakInv'
<1> DEFINE m == net[n][i]
           o == Other(n)
           p == peer[n]
           q == net[n]
           r == peer[o]
           s == net[o]
           waiting == p.inProgress /\ p.rekeyIdx = m.receiver
<1>1. PICK u \in Taken(n, i, m) : net' = [net EXCEPT ![n] = u]
  BY DEF HandleMsg2
<1>2. /\ o \in Node /\ o # n
      /\ Timed(n, p, q, r, ticked, fresh) /\ Timed(o, r, s, p, ticked, fresh)
      /\ p \in Peer /\ r \in Peer /\ Paired(p) /\ Paired(r) /\ Distinct(p)
      /\ byIndex[n] = DataIndices(p) /\ pendingOutbound[n] = RekeyIndices(p)
      /\ allocated[n] = DataIndices(p) \cup RekeyIndices(p)
      /\ net \in [Node -> Seq(Message)] /\ q \in Seq(Message) /\ s \in Seq(Message)
      /\ fresh \in Nat /\ fresh # 0 /\ None # 0 /\ live = Node
  BY LeakAt
<1>3. /\ IndInv' /\ ticked' = ticked /\ rekeyOn' = rekeyOn /\ live' = live /\ fresh' = fresh
      /\ m \in Msg2 /\ m.type = "msg2" /\ m \in Contents(q) /\ m.receiver \in Index
  BY <1>2, HandleMsg2Inv, MessageTypes DEF HandleMsg2, LeakInv, Contents, Msg2
<1>4. \A l \in Contents(u) : l \in Contents(q)
  BY <1>2, <1>3, TakenContents
<1>5. net'[n] = u /\ net'[o] = s /\ fresh <= fresh
  BY <1>1, <1>2
<1>6. \A l \in Contents(q) : Real(l) => l.hs # None
  BY <1>2, ContentsTyped, IndexAssumption DEF Real
<1>7. /\ byIndex \in [Node -> SUBSET Index] /\ allocated \in [Node -> SUBSET Index]
      /\ peer \in [Node -> Peer]
  BY DEF LeakInv, IndInv, TypeOK
<1>8. CASE UNCHANGED <<peer, byIndex, allocated>>
  <2>1. Kept(n, p, p, q, r, ticked, fresh)
    BY <1>2, SameRecord
  <2>2. /\ byIndex' = [byIndex EXCEPT ![n] = DataIndices(p)] /\ peer' = [peer EXCEPT ![n] = p]
        /\ allocated' = [allocated EXCEPT ![n] = DataIndices(p) \cup RekeyIndices(p)]
    BY <1>2, <1>7, <1>8
  <2> QED BY <1>2, <1>3, <1>4, <1>5, <2>1, <2>2, LeakStep
<1>9. CASE /\ m.receiver \in pendingOutbound[n] /\ waiting /\ CompleteRekeyMsg2(p, m)
           /\ peer' = [peer EXCEPT ![n] = SetPendingSession(p, m.sid, m.receiver, m.sender)]
           /\ byIndex' = [byIndex EXCEPT ![n] = @ \cup {m.receiver}]
           /\ UNCHANGED allocated
  <2> DEFINE x == SetPendingSession(p, m.sid, m.receiver, m.sender)
  <2>1. p.pend = None /\ m.receiver \notin DataIndices(p) /\ RekeyIndices(p) = {m.receiver}
    BY <1>2, <1>3, <1>9, IndexAssumption DEF Paired, Distinct, DataIndices, RekeyIndices
  <2>2. DataIndices(x) = DataIndices(p) \cup {m.receiver} /\ RekeyIndices(x) = {}
    BY <1>2, <1>3, <2>1, SetPendingSound DEF Msg2
  <2>3. Kept(n, p, x, q, r, ticked, fresh)
    BY <1>2, <1>3, <1>9, CompleteTimed DEF CompleteRekeyMsg2
  <2> HIDE DEF x
  <2>4. /\ byIndex' = [byIndex EXCEPT ![n] = DataIndices(x)] /\ peer' = [peer EXCEPT ![n] = x]
        /\ allocated' = [allocated EXCEPT ![n] = DataIndices(x) \cup RekeyIndices(x)]
    BY <1>2, <1>7, <1>9, <2>1, <2>2 DEF x
  <2> QED BY <1>2, <1>3, <1>4, <1>5, <2>3, <2>4, LeakStep
<1>10. CASE /\ waiting /\ peer' = [peer EXCEPT ![n] = AbandonRekey(p)]
            /\ Reindex(n, {AbandonedIndex(p)} \ {None}, {})
  <2> DEFINE x == AbandonRekey(p)
  <2>1. /\ x.pend = None /\ DataIndices(x) = DataIndices(p) /\ RekeyIndices(x) = {}
        /\ RekeyIndices(p) = {AbandonedIndex(p)} \ {None}
        /\ AbandonedIndex(p) \notin DataIndices(p)
    BY <1>2, <1>10, AbandonSound, IndexAssumption
  <2>2. /\ x.hs = None /\ ~x.inProgress /\ x.age = p.age /\ x.drainAge = p.drainAge
        /\ x.peerRekeyAge = p.peerRekeyAge /\ x.storedMsg2 = p.storedMsg2
        /\ x.prevIdx = p.prevIdx /\ x.draining = p.draining
    BY <1>2 DEF AbandonRekey, Peer
  <2>3. p.pend = None
    BY <1>2, <1>10 DEF Paired
  <2> HIDE DEF x
  <2>4. Kept(n, p, x, q, r, ticked, fresh)
    BY <1>2, <1>6, <2>1, <2>2, <2>3, SameRecord
  <2>5. /\ byIndex' = [byIndex EXCEPT ![n] = DataIndices(x)] /\ peer' = [peer EXCEPT ![n] = x]
        /\ allocated' = [allocated EXCEPT ![n] = DataIndices(x) \cup RekeyIndices(x)]
    <3>1. /\ (byIndex[n] \ ({AbandonedIndex(p)} \ {None})) \cup {} = DataIndices(x)
          /\ (allocated[n] \ ({AbandonedIndex(p)} \ {None})) \cup {} = DataIndices(x) \cup RekeyIndices(x)
      BY <1>2, <2>1
    <3> QED BY <1>10, <3>1 DEF Reindex, x
  <2> QED BY <1>2, <1>3, <1>4, <1>5, <2>4, <2>5, LeakStep
<1> QED BY <1>8, <1>9, <1>10 DEF HandleMsg2

LEMMA HandleEncryptedFrameLeak ==
  ASSUME LeakInv, Up, NEW n \in Node, NEW i \in DOMAIN net[n], HandleEncryptedFrame(n, i)
  PROVE  LeakInv'
<1> DEFINE m == net[n][i]
           c == [m EXCEPT !.replayed = @ \/ Accepts(n, m)]
           o == Other(n)
           p == peer[n]
           q == net[n]
           r == peer[o]
           s == net[o]
           k == AfterKBit(p, m)
<1>1. PICK u \in Taken(n, i, c) : net' = [net EXCEPT ![n] = u]
  BY DEF HandleEncryptedFrame
<1>2. /\ o \in Node /\ o # n
      /\ Timed(n, p, q, r, ticked, fresh) /\ Timed(o, r, s, p, ticked, fresh)
      /\ p \in Peer /\ r \in Peer /\ Paired(p) /\ Paired(r) /\ Distinct(p)
      /\ byIndex[n] = DataIndices(p) /\ pendingOutbound[n] = RekeyIndices(p)
      /\ allocated[n] = DataIndices(p) \cup RekeyIndices(p)
      /\ net \in [Node -> Seq(Message)] /\ q \in Seq(Message) /\ s \in Seq(Message)
      /\ fresh \in Nat /\ fresh # 0 /\ None # 0 /\ live = Node
  BY LeakAt
<1>3. /\ IndInv /\ NoIndexLeak /\ IndInv' /\ ticked' = ticked /\ rekeyOn' = rekeyOn
      /\ fresh' = fresh /\ m \in Frame /\ m.type = "frame"
  BY <1>2, HandleEncryptedFrameInv, MessageTypes DEF HandleEncryptedFrame, LeakInv
<1>4. \A l \in Contents(u) : l \in Contents(q) \/ l.type = "frame"
  <2>1. c.type = "frame"
    BY <1>3 DEF Frame
  <2>2. Contents(u) \subseteq Contents(q) \cup {c}
    BY <1>2, TakenContents
  <2> HIDE DEF c
  <2> QED BY <2>1, <2>2
<1> HIDE DEF c
<1>5. net'[n] = u /\ net'[o] = s /\ fresh <= fresh
  BY <1>1, <1>2
<1>6. /\ byIndex \in [Node -> SUBSET Index] /\ allocated \in [Node -> SUBSET Index]
      /\ peer \in [Node -> Peer]
  BY DEF LeakInv, IndInv, TypeOK
<1>7. CASE UNCHANGED nodeVars
  BY <1>3, <1>4, <1>5, <1>7, QuietLeak
<1>8. /\ k \in Peer /\ k.prevIdx \in {p.prevIdx, p.ourIdx} /\ DataIndices(k) = DataIndices(p)
      /\ RekeyIndices(k) = RekeyIndices(p) /\ Kept(n, p, k, q, r, ticked, fresh)
  <2>1. CASE k = p
    <3>1. Kept(n, p, p, q, r, ticked, fresh)
      BY <1>2, SameRecord
    <3> QED BY <1>2, <2>1, <3>1
  <2>2. CASE p.pend # None /\ k = CutoverToNewSession(p)
    <3>1. Kept(n, p, CutoverToNewSession(p), q, r, ticked, fresh) /\ p.prevIdx = None
      BY <1>2, <2>2, CutoverTimed
    <3>2. k \in Peer
      BY <1>2, <2>2, CutoverSound
    <3>3. /\ k.ourIdx = p.pendOur /\ k.pendOur = None /\ k.prevIdx = p.ourIdx
          /\ k.rekeyIdx = p.rekeyIdx
      BY <1>2, <2>2 DEF CutoverToNewSession, Peer
    <3>4. Kept(n, p, k, q, r, ticked, fresh)
      BY <2>2, <3>1
    <3> HIDE DEF k
    <3> QED BY <3>1, <3>2, <3>3, <3>4 DEF DataIndices, RekeyIndices
  <2> QED BY <2>1, <2>2 DEF AfterKBit
<1> HIDE DEF k
<1>9. ASSUME NEW y, NEW z, peer' = [peer EXCEPT ![n] = [k EXCEPT !.failures = y, !.idle = z]],
             UNCHANGED <<live, byIndex, allocated>>
      PROVE  LeakInv'
  <2> DEFINE x == [k EXCEPT !.failures = y, !.idle = z]
  <2>1. /\ DataIndices(x) = DataIndices(k) /\ RekeyIndices(x) = RekeyIndices(k)
        /\ x.pend = k.pend /\ x.age = k.age /\ x.drainAge = k.drainAge
        /\ x.peerRekeyAge = k.peerRekeyAge /\ x.storedMsg2 = k.storedMsg2
        /\ x.prevIdx = k.prevIdx /\ x.hs = k.hs /\ x.inProgress = k.inProgress
        /\ x.draining = k.draining
    BY <1>8 DEF DataIndices, RekeyIndices, Peer
  <2> HIDE DEF x
  <2>2. Kept(n, p, x, q, r, ticked, fresh)
    BY <1>8, <2>1 DEF Kept, DrainOk, PendingOk, OwnOk, Own, Keeps, Recently, Fits
  <2>3. /\ byIndex' = [byIndex EXCEPT ![n] = DataIndices(x)] /\ peer' = [peer EXCEPT ![n] = x]
        /\ allocated' = [allocated EXCEPT ![n] = DataIndices(x) \cup RekeyIndices(x)]
        /\ live' = live
    BY <1>2, <1>6, <1>8, <1>9, <2>1 DEF x
  <2> QED BY <1>2, <1>3, <1>4, <1>5, <2>2, <2>3, LeakStep
<1>10. CASE /\ peer' = [peer EXCEPT ![n] = [k EXCEPT !.failures = 0, !.idle = 0]]
            /\ UNCHANGED <<live, byIndex, pendingOutbound, allocated>>
  BY <1>9, <1>10
<1>11. CASE HandleDecryptFailure(n, k)
  <2>1. CASE RemoveActivePeer(n, k)
    BY <1>3, <1>8, <2>1, RemoveExact DEF LeakInv
  <2>2. CASE /\ peer' = [peer EXCEPT ![n] = [k EXCEPT !.failures = k.failures + 1]]
             /\ UNCHANGED <<live, byIndex, pendingOutbound, allocated>>
    <3>1. [k EXCEPT !.failures = k.failures + 1]
            = [k EXCEPT !.failures = k.failures + 1, !.idle = k.idle]
      BY <1>8 DEF Peer
    <3> QED BY <1>9, <2>2, <3>1
  <2> QED BY <1>11, <2>1, <2>2 DEF HandleDecryptFailure
<1> QED BY <1>7, <1>10, <1>11 DEF HandleEncryptedFrame, k

\* What a tick resends was begun long before, and the heartbeat carries no answer.
LEMMA BeatenContents ==
  ASSUME LeakInv, Up, NEW n \in Node, NEW g \in Nat, fresh <= g, NEW y, NEW z
  PROVE  \A m \in Contents(Beaten(n)) : m \in Contents(net[Other(n)]) \/ Fits(m, y, z, g)
<1> DEFINE o == Other(n)
           p == peer[n]
           s == net[o]
           v == Resent(n)
           a == RekeyMsg1(p)
           b == LinkFrame(p)
<1>1. /\ p \in Peer /\ Paired(p) /\ s \in Seq(Message) /\ fresh \in Nat
      /\ Timed(n, p, net[n], peer[o], ticked, fresh)
  BY LeakAt
<1>2. v \in Seq(Message) /\ Beaten(n) \in Seq(Message)
  BY BeatSound DEF LeakInv
<1>3. \A m : m.type = "frame" => Fits(m, y, z, g)
  BY DEF Fits, Real
<1>4. ASSUME NEW m \in Contents(v) PROVE m \in Contents(s) \/ Fits(m, y, z, g)
  <2>1. CASE v = s
    BY <1>4, <2>1
  <2>2. CASE v = Push(s, a) /\ p.hs # None
    <3>1. p.rekeyIdx # None /\ p.hs < fresh /\ p.hs \in Nat
      BY <1>1, <2>2, ZeroAges DEF Paired, Timed, OwnOk, Peer, OptId, Id
    <3>2. a \in Message
      BY <1>1, <2>2, <3>1, RekeyMsg1Typed
    <3>3. a.type = "msg1" /\ a.hs = p.hs
      BY DEF RekeyMsg1
    <3> HIDE DEF a
    <3>4. Fits(a, y, z, g)
      BY <1>1, <3>1, <3>3 DEF Fits, Real
    <3> HIDE DEF v
    <3>5. m \in Contents(s) \cup {a}
      BY <1>1, <1>4, <2>2, <3>2, PushContents
    <3> QED BY <3>4, <3>5
  <2> QED BY <2>1, <2>2 DEF Resent, NeedsMsg1Resend
<1>5. Beaten(n) = v \/ Beaten(n) = Push(v, b)
  BY DEF Beaten
<1>6. b \in Message /\ b.type = "frame"
  BY <1>1, LinkFrameTyped DEF LinkFrame
<1> HIDE DEF v, b
<1>7. Contents(Beaten(n)) \subseteq Contents(v) \cup {b}
  BY <1>2, <1>5, <1>6, PushContents
<1> QED BY <1>3, <1>4, <1>6, <1>7

LEMMA TickLeak ==
  ASSUME TimersOrdered, LeakInv, Up, NEW n \in Node, Tick(n)
  PROVE  LeakInv'
<1> DEFINE o == Other(n)
           p == peer[n]
           q == net[n]
           r == peer[o]
           s == net[o]
           k == AfterBeat(p)
           d == AfterDrain(k)
           w == ticked \cup {n}
<1>1. /\ o \in Node /\ o # n
      /\ Timed(n, p, q, r, ticked, fresh) /\ Timed(o, r, s, p, ticked, fresh)
      /\ p \in Peer /\ r \in Peer /\ Paired(p) /\ Paired(r) /\ Distinct(p)
      /\ byIndex[n] = DataIndices(p) /\ pendingOutbound[n] = RekeyIndices(p)
      /\ allocated[n] = DataIndices(p) \cup RekeyIndices(p)
      /\ net \in [Node -> Seq(Message)] /\ q \in Seq(Message) /\ s \in Seq(Message)
      /\ fresh \in Nat /\ fresh # 0 /\ None # 0 /\ live = Node
  BY LeakAt
<1>2. IndInv /\ NoIndexLeak /\ IndInv' /\ rekeyOn' = rekeyOn
  BY TickInv DEF LeakInv, Tick
<1>3. /\ byIndex \in [Node -> SUBSET Index] /\ allocated \in [Node -> SUBSET Index]
      /\ peer \in [Node -> Peer]
  BY <1>2 DEF IndInv, TypeOK
<1>4. /\ k.pend = p.pend /\ k.age = p.age /\ k.drainAge = p.drainAge
      /\ k.peerRekeyAge = p.peerRekeyAge /\ k.storedMsg2 = p.storedMsg2
      /\ k.prevIdx = p.prevIdx /\ k.draining = p.draining
      /\ k.hs = p.hs /\ k.inProgress = p.inProgress
      /\ DataIndices(k) = DataIndices(p) /\ RekeyIndices(k) = RekeyIndices(p)
  <2> HIDE DEF p
  <2> QED BY <1>1 DEF AfterBeat, Peer, DataIndices, RekeyIndices
<1>5. k \in Peer /\ Paired(k) /\ Distinct(k) /\ Drained(k) = Drained(p)
  BY <1>2, BeatSound DEF Sound
<1>6. /\ d \in Peer
      /\ DataIndices(d) = DataIndices(k) \ Drained(p) /\ RekeyIndices(d) = RekeyIndices(k)
      /\ Drained(p) \cap RekeyIndices(k) = {}
  <2>1. /\ d \in Peer /\ DataIndices(d) = DataIndices(k) \ Drained(k)
        /\ RekeyIndices(d) = RekeyIndices(k) /\ Drained(k) \cap RekeyIndices(k) = {}
    <3> HIDE DEF k
    <3> QED BY <1>5, DrainSound
  <2> QED BY <1>5, <2>1
<1> HIDE DEF k
<1>7. Timed(n, k, q, r, ticked, fresh)
  <2>1. Kept(n, p, k, q, r, ticked, fresh)
    BY <1>1, <1>4, SameRecord
  <2> QED BY <2>1 DEF Kept, Timed
<1>8. \A x : Keeps(k, x) => Keeps(p, x)
  BY <1>4 DEF Keeps, Recently
<1>9. \A l \in Contents(q) : l \in Contents(q)
  OBVIOUS
<1>10. CASE LinkDeadTimeout(n)
  <2>1. RemoveActivePeer(n, p)
    BY <1>10 DEF LinkDeadTimeout
  <2> QED BY <1>2, <2>1, RemoveExact DEF LeakInv
<1>11. CASE Cutover(n) /\ ticked' = w /\ UNCHANGED live
  <2> DEFINE x == CutoverToNewSession(k)
  <2>1. k.pend # None
    BY <1>4, <1>11 DEF Cutover, CutoverDue
  <2>2. Kept(n, k, x, q, r, w, fresh) /\ k.prevIdx = None
    BY <1>1, <1>5, <1>7, <2>1, CutoverTimed
  <2>3. DataIndices(x) = DataIndices(k) /\ RekeyIndices(x) = RekeyIndices(k)
    <3>1. /\ x.ourIdx = k.pendOur /\ x.pendOur = None /\ x.prevIdx = k.ourIdx
          /\ x.rekeyIdx = k.rekeyIdx
      BY <1>5 DEF CutoverToNewSession, Peer
    <3> HIDE DEF x
    <3> QED BY <2>2, <3>1 DEF DataIndices, RekeyIndices
  <2>4. peer' = [peer EXCEPT ![n] = x] /\ net' = [net EXCEPT ![o] = Beaten(n)] /\ fresh' = fresh
        /\ UNCHANGED <<byIndex, allocated>>
    BY <1>11 DEF Cutover, k
  <2> HIDE DEF x
  <2>5. net'[n] = q /\ net'[o] = Beaten(n) /\ fresh <= fresh
    BY <1>1, <2>4
  <2>6. \A l \in Contents(Beaten(n)) : l \in Contents(s) \/ Fits(l, r, x, fresh)
    BY <1>1, BeatenContents
  <2>7. Kept(n, p, x, q, r, w, fresh)
    BY <1>8, <2>2 DEF Kept
  <2>8. /\ byIndex' = [byIndex EXCEPT ![n] = DataIndices(x)]
        /\ allocated' = [allocated EXCEPT ![n] = DataIndices(x) \cup RekeyIndices(x)]
        /\ live' = live /\ ticked' = w
    BY <1>1, <1>3, <1>4, <1>11, <2>3, <2>4
  <2> QED BY <1>1, <1>2, <1>9, <2>4, <2>5, <2>6, <2>7, <2>8, LeakStep
<1>12. CASE RekeyDisabled(n) /\ ticked' = w /\ UNCHANGED live
  <2>1. k.pend = None /\ k.prevIdx = None
    BY <1>7, <1>12 DEF RekeyDisabled, Timed, OwnOk, Own
  <2>2. peer' = [peer EXCEPT ![n] = k] /\ net' = [net EXCEPT ![o] = Beaten(n)] /\ fresh' = fresh
        /\ UNCHANGED <<byIndex, allocated>>
    BY <1>12 DEF RekeyDisabled, k
  <2>3. net'[n] = q /\ net'[o] = Beaten(n) /\ fresh <= fresh
    BY <1>1, <2>2
  <2>4. \A l \in Contents(Beaten(n)) : l \in Contents(s) \/ Fits(l, r, k, fresh)
    BY <1>1, BeatenContents
  <2>5. Kept(n, p, k, q, r, w, fresh)
    BY <1>1, <1>4, <2>1, SameRecord
  <2>6. /\ byIndex' = [byIndex EXCEPT ![n] = DataIndices(k)]
        /\ allocated' = [allocated EXCEPT ![n] = DataIndices(k) \cup RekeyIndices(k)]
        /\ live' = live /\ ticked' = w
    BY <1>1, <1>3, <1>4, <1>12, <2>2
  <2> QED BY <1>1, <1>2, <1>9, <2>2, <2>3, <2>4, <2>5, <2>6, LeakStep
<1>13. /\ d.pend = k.pend /\ d.age = k.age /\ d.drainAge = k.drainAge
       /\ d.peerRekeyAge = k.peerRekeyAge /\ d.storedMsg2 = k.storedMsg2
       /\ d.hs = k.hs /\ d.inProgress = k.inProgress
       /\ \/ d.prevIdx = None
          \/ d.prevIdx = k.prevIdx /\ d.draining = k.draining /\ ~DrainExpired(k)
  BY <1>5 DEF AfterDrain, CompleteDrain, Peer
<1>14. d.prevIdx # None => d.drainAge < DrainWindow
  <2>1. k.drainAge \in Nat /\ DrainWindow \in Nat
    BY <1>5, ZeroAges DEF Peer
  <2>2. d.prevIdx # None => k.draining /\ ~DrainExpired(k)
    BY <1>7, <1>13 DEF Timed, OwnOk
  <2> QED BY <1>13, <2>1, <2>2 DEF DrainExpired
<1> HIDE DEF d
<1>15. ASSUME n \in rekeyOn, ~CutoverDue(p)
       PROVE  d.pend = None /\ Kept(n, k, d, q, r, w, fresh) /\ Kept(n, p, d, q, r, w, fresh)
  <2>1. d.pend = None
    BY <1>4, <1>5, <1>13, <1>15 DEF CutoverDue, Paired
  <2>2. Kept(n, k, d, q, r, w, fresh)
    BY <1>1, <1>7, <1>13, <1>14, <2>1, SameRecord
  <2> QED BY <1>8, <2>1, <2>2 DEF Kept
<1>16. CASE NoRekeyStarts(n) /\ n \in rekeyOn /\ ~CutoverDue(p) /\ ticked' = w /\ UNCHANGED live
  <2>1. /\ peer' = [peer EXCEPT ![n] = d] /\ net' = [net EXCEPT ![o] = Beaten(n)]
        /\ fresh' = fresh /\ Reindex(n, Drained(p), {})
    BY <1>16 DEF NoRekeyStarts, k, d
  <2>2. net'[n] = q /\ net'[o] = Beaten(n) /\ fresh <= fresh
    BY <1>1, <2>1
  <2>3. \A l \in Contents(Beaten(n)) : l \in Contents(s) \/ Fits(l, r, d, fresh)
    BY <1>1, BeatenContents
  <2>4. Kept(n, p, d, q, r, w, fresh)
    BY <1>15, <1>16
  <2>5. /\ (byIndex[n] \ Drained(p)) \cup {} = DataIndices(d)
        /\ (allocated[n] \ Drained(p)) \cup {} = DataIndices(d) \cup RekeyIndices(d)
    BY <1>1, <1>4, <1>6
  <2>6. /\ byIndex' = [byIndex EXCEPT ![n] = DataIndices(d)]
        /\ allocated' = [allocated EXCEPT ![n] = DataIndices(d) \cup RekeyIndices(d)]
        /\ live' = live /\ ticked' = w
    BY <1>16, <2>1, <2>5 DEF Reindex
  <2> QED BY <1>1, <1>2, <1>9, <2>1, <2>2, <2>3, <2>4, <2>6, LeakStep
<1>17. ASSUME NEW our \in FreeAfterDrain(n), InitiateRekey(n, our), n \in rekeyOn,
              ~CutoverDue(p), ticked' = w, UNCHANGED live
       PROVE  LeakInv'
  <2> DEFINE x == SetRekeyState(d, fresh, our)
             a == RekeyMsg1(x)
             v == Push(Beaten(n), a)
  <2>1. /\ peer' = [peer EXCEPT ![n] = x] /\ net' = [net EXCEPT ![o] = v]
        /\ fresh' = fresh + 1 /\ fresh < MaxFresh /\ RekeyAllowed(n)
        /\ byIndex' = [byIndex EXCEPT ![n] = @ \ Drained(p)]
        /\ allocated' = [allocated EXCEPT ![n] = (@ \ Drained(p)) \cup {our}]
    BY <1>17 DEF InitiateRekey, k, d
  <2>2. our \in Index /\ fresh \in Id /\ fresh + 1 \in Nat /\ fresh <= fresh + 1
    BY <1>1, <2>1, ZeroAges DEF FreeAfterDrain, Id
  <2>3. ~d.inProgress /\ ~IsRekeyDampened(d)
    BY <1>4, <1>13, <2>1 DEF RekeyAllowed, IsRekeyDampened
  <2>4. RekeyIndices(d) = {}
    BY <1>4, <1>5, <1>6, <1>13, <2>3 DEF Paired, RekeyIndices
  <2>5. x \in Peer /\ x.hs = fresh /\ x.rekeyIdx = our /\ DataIndices(x) = DataIndices(d)
    BY <1>6, <2>2, SetRekeyTyped DEF SetRekeyState, Peer, DataIndices
  <2>6. Kept(n, p, x, q, r, w, fresh + 1)
    BY <1>1, <1>6, <1>14, <1>15, <1>17, <2>3, InitiateTimed
  <2> HIDE DEF x
  <2>7. a \in Message /\ a.type = "msg1" /\ a.hs = fresh
    <3>1. x.hs # None /\ x.rekeyIdx # None
      BY <2>2, <2>5, IndexAssumption
    <3>2. a \in Message
      BY <2>5, <3>1, RekeyMsg1Typed
    <3> QED BY <2>5, <3>2 DEF RekeyMsg1
  <2>8. Fits(a, r, x, fresh + 1)
    BY <1>1, <2>7 DEF Fits, Real
  <2> HIDE DEF a
  <2>9. \A l \in Contents(v) : l \in Contents(s) \/ Fits(l, r, x, fresh + 1)
    <3>1. Beaten(n) \in Seq(Message)
      BY <1>2, BeatSound
    <3>2. \A l \in Contents(Beaten(n)) : l \in Contents(s) \/ Fits(l, r, x, fresh + 1)
      BY <2>2, BeatenContents
    <3>3. Contents(v) \subseteq Contents(Beaten(n)) \cup {a}
      BY <2>7, <3>1, PushContents
    <3> QED BY <2>8, <3>2, <3>3
  <2> HIDE DEF v
  <2>10. net'[n] = q /\ net'[o] = v
    BY <1>1, <2>1
  <2>11. RekeyIndices(x) = {our}
    BY <2>2, <2>5, IndexAssumption DEF RekeyIndices
  <2>12. /\ byIndex[n] \ Drained(p) = DataIndices(x)
         /\ (allocated[n] \ Drained(p)) \cup {our} = DataIndices(x) \cup RekeyIndices(x)
    BY <1>1, <1>4, <1>6, <2>4, <2>5, <2>11
  <2>13. /\ byIndex' = [byIndex EXCEPT ![n] = DataIndices(x)]
         /\ allocated' = [allocated EXCEPT ![n] = DataIndices(x) \cup RekeyIndices(x)]
         /\ live' = live /\ ticked' = w
    BY <1>17, <2>1, <2>12
  <2> QED BY <1>1, <1>2, <1>9, <2>1, <2>2, <2>6, <2>9, <2>10, <2>13, LeakStep
<1> QED BY <1>10, <1>11, <1>12, <1>16, <1>17 DEF Tick

LEMMA SendFrameLeak ==
  ASSUME LeakInv, Up, NEW n \in Node, SendFrame(n)
  PROVE  LeakInv'
<1> DEFINE o == Other(n)
           v == Push(net[o], LinkFrame(peer[n]))
<1>1. /\ o \in Node /\ o # n /\ peer[n] \in Peer
      /\ net \in [Node -> Seq(Message)] /\ net[o] \in Seq(Message)
  BY LeakAt
<1>2. IndInv'
  BY TransportInv DEF LeakInv
<1>3. LinkFrame(peer[n]) \in Message /\ LinkFrame(peer[n]).type = "frame"
  BY <1>1, LinkFrameTyped DEF LinkFrame
<1>4. \A m \in Contents(v) : m \in Contents(net[o]) \/ m.type = "frame"
  BY <1>1, <1>3, PushContents
<1>5. net'[n] = net[n] /\ net'[o] = v
  BY <1>1 DEF SendFrame
<1>6. UNCHANGED <<nodeVars, fresh, ticked, rekeyOn>>
  BY DEF SendFrame
<1> HIDE DEF v
<1> QED BY <1>2, <1>4, <1>5, <1>6, QuietLeak

LEMMA LoseLeak ==
  ASSUME LeakInv, Up, NEW n \in Node, NEW i \in DOMAIN net[n], Lose(n, i)
  PROVE  LeakInv'
<1> DEFINE o == Other(n)
           u == RemoveAt(net[n], i)
<1>1. o \in Node /\ o # n /\ net \in [Node -> Seq(Message)] /\ net[n] \in Seq(Message)
  BY LeakAt
<1>2. IndInv'
  BY TransportInv DEF LeakInv
<1>3. \A m \in Contents(u) : m \in Contents(net[n])
  <2>1. u \in Taken(n, i, net[n][i]) /\ net[n][i] \in Contents(net[n])
    BY DEF Taken, Contents
  <2> HIDE DEF u
  <2> QED BY <1>1, <2>1, TakenContents
<1>4. net'[n] = u /\ net'[o] = net[o]
  BY <1>1 DEF Lose
<1>5. UNCHANGED <<nodeVars, fresh, ticked, rekeyOn>>
  BY DEF Lose
<1> HIDE DEF u
<1> QED BY <1>2, <1>3, <1>4, <1>5, QuietLeak

\* A unit of time passes, in which n ticked.
LEMMA GrownTimed ==
  ASSUME TimersOrdered, NEW n, NEW p \in Peer, NEW q \in Seq(Message), NEW r \in Peer,
         NEW t, n \in t, NEW f, Timed(n, p, q, r, t, f)
  PROVE  Timed(n, Grown(p), Aged(q), Grown(r), {}, f)
<1> DEFINE x == Grown(p)
           y == Grown(r)
<1>1. /\ x.age = Older(p.age, AgeCap) /\ x.drainAge = Older(p.drainAge, DrainWindow)
      /\ x.peerRekeyAge = Older(p.peerRekeyAge, Dampening)
      /\ x.pend = p.pend /\ x.prevIdx = p.prevIdx /\ x.draining = p.draining
      /\ x.hs = p.hs /\ x.inProgress = p.inProgress /\ x.storedMsg2 = p.storedMsg2
      /\ y.pend = r.pend /\ y.age = Older(r.age, AgeCap)
  BY DEF Grown, Peer
<1> HIDE DEF x, y
<1>2. /\ p.age \in Nat /\ p.drainAge \in Nat /\ p.peerRekeyAge \in Nat /\ r.age \in Nat
      /\ DrainWindow \in Nat /\ AgeCap \in Nat /\ MaxAge \in Nat /\ MinRekeyAge \in Nat
      /\ AgeCap >= MinRekeyAge /\ Dampening \in Nat
  BY Times, ZeroAges DEF Peer, AgeCap
<1>3. ASSUME NEW j \in Nat, Recently(r, j) PROVE Recently(y, j + 1)
  BY <1>1, <1>2, <1>3 DEF Recently, Older
<1>4. DrainOk(n, x, y, {})
  <2> SUFFICES ASSUME p.prevIdx # None PROVE DrainOk(n, x, y, {})
    BY <1>1 DEF DrainOk
  <2>1. /\ p.pend = None /\ p.age = p.drainAge /\ p.drainAge < DrainWindow
        /\ \/ ~p.inProgress /\ p.peerRekeyAge <= p.drainAge + 1
           \/ Recently(r, MaxAge + 1 + p.drainAge)
    BY DEF Timed, DrainOk
  <2>2. /\ x.age = p.age + 1 /\ x.drainAge = p.drainAge + 1 /\ p.drainAge + 1 <= DrainWindow
    BY <1>1, <1>2, <2>1 DEF Older, TimersOrdered
  <2>3. x.peerRekeyAge <= p.peerRekeyAge + 1
    BY <1>1, <1>2 DEF Older
  <2>4. Recently(r, MaxAge + 1 + p.drainAge) => Recently(y, MaxAge + 1 + x.drainAge)
    <3> DEFINE a == p.drainAge
    <3>1. /\ MaxAge + 1 + a \in Nat
          /\ (MaxAge + 1 + a) + 1 = MaxAge + 1 + x.drainAge
      <4>1. MaxAge \in Nat /\ a \in Nat /\ x.drainAge = a + 1
        BY <1>2, <2>2
      <4> HIDE DEF a
      <4> QED BY <4>1
    <3>2. Recently(r, MaxAge + 1 + p.drainAge) => Recently(y, (MaxAge + 1 + p.drainAge) + 1)
      BY <1>3, <3>1
    <3> QED BY <3>1, <3>2
  <2>5. ~p.inProgress /\ p.peerRekeyAge <= p.drainAge + 1
          => ~x.inProgress /\ x.peerRekeyAge <= x.drainAge + 1
    <3>1. x.peerRekeyAge \in Nat
      BY <1>1, <1>2 DEF Older
    <3> QED BY <1>1, <1>2, <2>2, <2>3, <3>1
  <2>6. x.age = x.drainAge /\ x.age <= DrainWindow
    BY <2>1, <2>2
  <2> QED BY <1>1, <2>1, <2>4, <2>5, <2>6 DEF DrainOk
<1>5. PendingOk(n, x, y, {})
  <2> SUFFICES ASSUME p.pend # None PROVE PendingOk(n, x, y, {})
    BY <1>1 DEF PendingOk
  <2>1. Slack(n, t) = 0 /\ Slack(n, {}) = 1
    BY DEF Slack
  <2>2. p.peerRekeyAge <= 0 \/ Recently(r, MaxAge + 0)
    BY <2>1 DEF Timed, PendingOk
  <2>3. p.peerRekeyAge <= 0 => x.peerRekeyAge <= 1
    BY <1>1, <1>2 DEF Older
  <2>4. Recently(r, MaxAge + 0) => Recently(y, MaxAge + 1)
    <3>1. MaxAge + 0 = MaxAge
      BY <1>2
    <3> QED BY <1>2, <1>3, <3>1
  <2> QED BY <2>1, <2>2, <2>3, <2>4 DEF PendingOk
<1>6. OwnOk(n, x, f)
  BY <1>1 DEF Timed, OwnOk, Own
<1>7. ASSUME NEW m \in Contents(Aged(q)) PROVE Fits(m, x, y, f)
  <2>1. PICK l \in Contents(q) :
          /\ m.age = l.age + 1 /\ m.type = l.type
          /\ m.type \in {"msg1", "msg2"} => m.hs = l.hs
    BY AgedContents
  <2>2. Fits(l, p, r, f) /\ l.age \in Nat
    BY <2>1, ContentsTyped, ZeroAges DEF Timed
  <2>3. Real(m) => Real(l) /\ m.hs = l.hs
    BY <2>1 DEF Real
  <2>4. Real(m) => Recently(y, m.age)
    BY <1>3, <2>1, <2>2, <2>3 DEF Fits
  <2> QED BY <1>1, <2>1, <2>2, <2>3, <2>4 DEF Fits
<1> QED BY <1>4, <1>5, <1>6, <1>7 DEF Timed, x, y

LEMMA ElapseLeak ==
  ASSUME TimersOrdered, LeakInv, Up, Elapse
  PROVE  LeakInv'
<1>1. IndInv'
  BY ElapseInv DEF LeakInv
<1>2. ASSUME NEW k \in Node
      PROVE  Timed(k, peer[k], net[k], peer[Other(k)], ticked, fresh)'
  <2> DEFINE o == Other(k)
  <2>1. /\ o \in Node /\ peer[k] \in Peer /\ peer[o] \in Peer /\ net[k] \in Seq(Message)
        /\ Timed(k, peer[k], net[k], peer[o], ticked, fresh)
    BY LeakAt
  <2>2. k \in ticked
    BY DEF Elapse
  <2>3. Timed(k, Grown(peer[k]), Aged(net[k]), Grown(peer[o]), {}, fresh)
    BY <2>1, <2>2, GrownTimed
  <2>4. /\ peer'[k] = Grown(peer[k]) /\ peer'[o] = Grown(peer[o]) /\ net'[k] = Aged(net[k])
        /\ ticked' = {} /\ fresh' = fresh /\ rekeyOn' = rekeyOn
    BY <2>1 DEF Elapse
  <2>5. Timed(k, peer'[k], net'[k], peer'[o], ticked', fresh')
    BY <2>3, <2>4
  <2> QED BY <2>4, <2>5 DEF Timed, DrainOk, PendingOk, OwnOk, Own
<1>3. NoIndexLeak'
  <2>1. ASSUME NEW k \in Node
        PROVE  /\ DataIndices(peer'[k]) = DataIndices(peer[k])
               /\ RekeyIndices(peer'[k]) = RekeyIndices(peer[k])
    <3>1. peer'[k] = Grown(peer[k]) /\ peer[k] \in Peer
      BY LeakAt DEF Elapse
    <3> QED BY <3>1 DEF Grown, Peer, DataIndices, RekeyIndices
  <2>2. UNCHANGED <<live, byIndex, pendingOutbound, allocated>>
    BY DEF Elapse
  <2> QED BY <2>1, <2>2 DEF LeakInv, NoIndexLeak, HeldIndices
<1> QED BY <1>1, <1>2, <1>3 DEF LeakInv, Timely

-----------------------------------------------------------------------------
(* The theorem.                                                            *)

LEMMA InitLeak == Init => LeakInv
<1> SUFFICES ASSUME Init PROVE LeakInv
  OBVIOUS
<1>1. PICK idx \in [Node -> Index], responder \in Node :
        LET msg2(n) == [type |-> "msg2", sender |-> idx[n],
                        receiver |-> idx[Other(n)], hs |-> 0, sid |-> 0, age |-> 0]
        IN  /\ peer = [n \in Node |->
                         NewPeer(idx[n], idx[Other(n)],
                                 IF n = responder THEN msg2(n) ELSE None)]
            /\ byIndex = [n \in Node |-> {idx[n]}]
            /\ allocated = [n \in Node |-> {idx[n]}]
  BY DEF Init
<1>2. ASSUME NEW k \in Node
      PROVE  /\ peer[k].prevIdx = None /\ peer[k].pend = None /\ peer[k].hs = None
             /\ ~peer[k].inProgress /\ peer[k].pendOur = None /\ peer[k].rekeyIdx = None
             /\ peer[k].ourIdx = idx[k] /\ idx[k] # None
             /\ peer[k].storedMsg2 # None => peer[k].storedMsg2.hs = 0
             /\ byIndex[k] = {idx[k]} /\ allocated[k] = {idx[k]} /\ pendingOutbound[k] = {}
             /\ Contents(net[k]) = {}
  <2>1. idx[k] # None
    BY IndexAssumption
  <2>2. Contents(net[k]) = {} /\ pendingOutbound[k] = {}
    BY DEF Init, Contents
  <2> QED BY <1>1, <2>1, <2>2 DEF NewPeer
<1>3. \A k \in Node : Timed(k, peer[k], net[k], peer[Other(k)], ticked, fresh)
  <2>1. None # 0
    BY IndexAssumption, ZeroAges DEF Id
  <2> QED BY <1>2, <2>1 DEF Timed, DrainOk, PendingOk, OwnOk, Own
<1>4. NoIndexLeak
  <2>1. ASSUME NEW k \in Node
        PROVE  /\ DataIndices(peer[k]) = {idx[k]} /\ RekeyIndices(peer[k]) = {}
               /\ HeldIndices(peer[k]) = {idx[k]}
    BY <1>2 DEF DataIndices, RekeyIndices, HeldIndices
  <2>2. live = Node
    BY DEF Init
  <2> QED BY <1>2, <2>1, <2>2 DEF NoIndexLeak
<1> QED BY <1>3, <1>4, InitIndInv DEF LeakInv, Timely

LEMMA NextLeak == TimersOrdered /\ LeakInv /\ [Next]_vars => LeakInv'
<1> SUFFICES ASSUME TimersOrdered, LeakInv, [Next]_vars PROVE LeakInv'
  OBVIOUS
<1>1. CASE UNCHANGED vars
  <2>1. IndInv'
    BY NextIndInv DEF LeakInv
  <2> QED BY <1>1, <2>1
          DEF vars, nodeVars, LeakInv, NoIndexLeak, Up, Timely, Timed, DrainOk, PendingOk, OwnOk,
              Own
<1>2. CASE Next
  <2>1. Up
    BY <1>2 DEF Next
  <2>2. ASSUME NEW n \in Node, Receive(n) PROVE LeakInv'
    <3>1. PICK i \in DOMAIN net[n] :
            HandleMsg1(n, i) \/ HandleMsg2(n, i) \/ HandleEncryptedFrame(n, i)
      BY <2>2 DEF Receive, Deliverable
    <3> QED BY <2>1, <3>1, HandleMsg1Leak, HandleMsg2Leak, HandleEncryptedFrameLeak
  <2> QED BY <1>2, <2>1, <2>2, TickLeak, SendFrameLeak, LoseLeak, ElapseLeak DEF Next
<1> QED BY <1>1, <1>2

\* No session index leaks, however the transport loses, repeats, reorders or delays:
\* every cutover comes after the drain before it, so the index it overwrites was freed.
THEOREM NoIndexLeaks == TimersOrdered => (Spec => []NoIndexLeak)
<1> SUFFICES ASSUME TimersOrdered PROVE Spec => []NoIndexLeak
  OBVIOUS
<1>1. LeakInv /\ [Next]_vars => LeakInv'
  BY NextLeak
<1>2. LeakInv => NoIndexLeak
  BY DEF LeakInv
<1> QED BY <1>1, <1>2, InitLeak, PTL DEF Spec

=============================================================================
