------------------------ MODULE EndToEndSessionProofs ------------------------
(***************************************************************************)
(* Proofs about EndToEndSession, for any ids, limits and faults and any    *)
(* number of rekeys.                                                       *)
(*                                                                         *)
(* An entry is removed, and its packets with it left behind, only by an    *)
(* answer that does not fit.  That none arrives while only setups and      *)
(* frames are lost is a statement about both ends and about every          *)
(* datagram of a handshake on its way: Orderly says for each what its      *)
(* sender has become since, and for an end that awaits msg3 that the other *)
(* end still expects its answer or has sent msg3.  A setup that was given  *)
(* up may still arrive, but only before the answer (NotLate).              *)
(*                                                                         *)
(* About a rekey the invariants say what the two ends hold together, with  *)
(* every datagram on the way (Coupled), and whose turn it is (Prompt).     *)
(***************************************************************************)
EXTENDS EndToEndSession, TLAPS

\* What an entry holds in each state.
Shaped(e) ==
  /\ e \in SessionEntry
  /\ e.state = "established" => e.cur \in Session
  /\ e.state = "awaiting" => e.hs \in Session
  /\ e.state = "initiating" => e.hs \in Handshake
  /\ e.state # "established" => e.rekey = None

EntriesOK == \A n \in Node : entry[n] # None => Shaped(entry[n])
NothingBehind == \A n \in Node : IsEstablished(n) => queue[n] = 0

Typed == TypeOK /\ EntriesOK /\ NothingBehind

\* The kinds of fault that NothingStranded withstands.
Bearable == {"setup", "frame", "slow", "silent", "warmup"}

Initiating(n, i) == Has(n, "initiating") /\ entry[n].hs.i = i

\* p awaits msg3 of a handshake of n, and n expects its answer or has sent msg3.
AwaitsAnswer(n, p) ==
  \/ Initiating(n, entry[p].hs.i) /\ Ack(p, entry[p].hs) \in net
  \/ IsEstablished(n) /\ entry[n].rekey = None /\ Msg3(n, entry[p].hs) \in net

\* What n is while a datagram m it sent to p is on the way.
SetupJustified(n, p, i) ==
  \/ Initiating(n, i)
  \/ Has(n, "awaiting") /\ Has(p, "initiating") /\ WeWin(p)
  \/ IsEstablished(n) /\ (RekeyOn \/ Has(p, "awaiting"))
AckJustified(n, hs) == (Has(n, "awaiting") /\ entry[n].hs = hs) \/ IsEstablished(n)
Msg3Justified(n, p, hs) == IsEstablished(n) /\ (Has(p, "awaiting") => hs = entry[p].hs)

Justified(n, p, m) ==
  /\ m.type = "setup" => SetupJustified(n, p, m.hs.i)
  /\ m.type = "ack" => AckJustified(n, m.hs)
  /\ m.type = "msg3" => Msg3Justified(n, p, m.hs)

\* n as it stands to the other end p.
Orderly(n, p) ==
  /\ ~ lookup[n]
  /\ queue[n] # 0 => entry[n] # None
  /\ Has(p, "awaiting") => AwaitsAnswer(n, p)
  /\ IsEstablished(n) => IsEstablished(p) \/ Has(p, "awaiting")
  /\ \A m \in net : m.from = n => Justified(n, p, m)
AllOrderly == \A n \in Node : Orderly(n, Other(n))

Bounded == faults \subseteq Bearable => AllOrderly

IndInv == Typed /\ Bounded

-----------------------------------------------------------------------------
(* The two ends, and what the operations do to an entry.                   *)

LEMMA Ends ==
  ASSUME NEW n \in Node
  PROVE  /\ Other(n) \in Node /\ Other(n) # n /\ Other(Other(n)) = n
         /\ \A q \in Node : q = n \/ q = Other(n)
         /\ WeWin(n) <=> ~ WeWin(Other(n))
<1>1. PICK a \in Node, b \in Node : a # b /\ Node = {a, b}
  BY NodeAssumption
<1>2. Other(a) = b /\ Other(b) = a
  BY <1>1 DEF Other
<1> QED
  BY <1>1, <1>2, NodeAssumption DEF WeWin

LEMMA NoneIsNothing ==
  ASSUME NEW e, e \in SessionEntry \cup Handshake \cup Session
  PROVE  e # None
<1>1. Session \subseteq Handshake
  BY DEF Session, Handshake
<1> QED
  BY <1>1, NoneAssumption

LEMMA EntryFields ==
  ASSUME NEW e \in SessionEntry
  PROVE  /\ e.state \in EndToEndState /\ e.hs \in Handshake \cup {None}
         /\ e.resends \in 0 .. MaxResends /\ e.k \in BOOLEAN
         /\ e.cur \in Session \cup {None} /\ e.prev \in Session \cup {None}
         /\ e.rekey \in Handshake \cup {None} /\ e.initiator \in BOOLEAN
         /\ e.pending \in Session \cup {None}
BY DEF SessionEntry

LEMMA NewEntryShape ==
  ASSUME NEW state \in {"initiating", "awaiting"}, NEW hs \in Handshake,
         state = "awaiting" => hs \in Session
  PROVE  /\ Shaped(NewEntry(state, hs)) /\ NewEntry(state, hs) # None
         /\ NewEntry(state, hs).state = state /\ NewEntry(state, hs).hs = hs
<1>1. NewEntry(state, hs) \in SessionEntry
  BY BoundAssumption DEF NewEntry, SessionEntry, EndToEndState
<1>2. /\ NewEntry(state, hs).state = state /\ NewEntry(state, hs).hs = hs
      /\ NewEntry(state, hs).rekey = None
  BY DEF NewEntry
<1> HIDE DEF NewEntry
<1> QED
  BY <1>1, <1>2, NoneIsNothing DEF Shaped

LEMMA NewSessionShape ==
  ASSUME NEW s \in Session
  PROVE  /\ Shaped(NewSession(s)) /\ NewSession(s) # None
         /\ NewSession(s).state = "established" /\ NewSession(s).rekey = None
<1> DEFINE e == NewEntry("established", None)
<1>1. e \in SessionEntry /\ e.state = "established" /\ e.rekey = None
  BY BoundAssumption DEF NewEntry, SessionEntry, EndToEndState
<1>2. NewSession(s) = [e EXCEPT !.cur = s]
  BY DEF NewSession
<1> HIDE DEF e
<1>3. /\ NewSession(s) \in SessionEntry /\ NewSession(s).state = "established"
      /\ NewSession(s).rekey = None /\ NewSession(s).cur = s
  BY <1>1, <1>2 DEF SessionEntry
<1> QED
  BY <1>1, <1>3, NoneIsNothing DEF Shaped

\* Operations of an established session keep it established.
Continues(e, f) ==
  Shaped(f) /\ f # None /\ f.state = "established" /\ (e.rekey = None => f.rekey = None)

LEMMA PromoteContinues ==
  ASSUME NEW e, Shaped(e), e.state = "established", e.pending # None
  PROVE  Continues(e, Promote(e))
<1>1. e \in SessionEntry /\ e.pending \in Session /\ e.cur \in Session
  BY EntryFields DEF Shaped
<1>2. Promote(e) \in SessionEntry
  BY <1>1 DEF Promote, SessionEntry
<1>3. /\ Promote(e).state = "established" /\ Promote(e).rekey = None
      /\ Promote(e).cur = e.pending
  BY <1>1 DEF Promote, SessionEntry
<1> QED
  BY <1>1, <1>2, <1>3, NoneIsNothing DEF Shaped, Continues

LEMMA AbandonContinues ==
  ASSUME NEW e, Shaped(e), e.state = "established"
  PROVE  Continues(e, AbandonRekey(e)) /\ AbandonRekey(e).rekey = None
<1>1. e \in SessionEntry /\ e.cur \in Session
  BY DEF Shaped
<1>2. AbandonRekey(e) \in SessionEntry
  BY <1>1 DEF AbandonRekey, SessionEntry
<1>3. /\ AbandonRekey(e).state = "established" /\ AbandonRekey(e).rekey = None
      /\ AbandonRekey(e).cur = e.cur
  BY <1>1 DEF AbandonRekey, SessionEntry
<1> QED
  BY <1>1, <1>2, <1>3, NoneIsNothing DEF Shaped, Continues

LEMMA SetPendingContinues ==
  ASSUME NEW e, Shaped(e), e.state = "established", NEW s \in Session
  PROVE  Continues(e, SetPendingSession(e, s))
<1>1. e \in SessionEntry /\ e.cur \in Session
  BY DEF Shaped
<1>2. SetPendingSession(e, s) \in SessionEntry
  BY <1>1 DEF SetPendingSession, SessionEntry
<1>3. /\ SetPendingSession(e, s).state = "established" /\ SetPendingSession(e, s).rekey = None
      /\ SetPendingSession(e, s).cur = e.cur
  BY <1>1 DEF SetPendingSession, SessionEntry
<1> QED
  BY <1>1, <1>2, <1>3, NoneIsNothing DEF Shaped, Continues

LEMMA RekeyShape ==
  ASSUME NEW e, Shaped(e), e.state = "established", NEW hs \in Handshake, NEW b \in BOOLEAN
  PROVE  LET f == [e EXCEPT !.rekey = hs, !.initiator = b]
         IN  Shaped(f) /\ f # None /\ f.state = "established"
<1> DEFINE f == [e EXCEPT !.rekey = hs, !.initiator = b]
<1>1. e \in SessionEntry /\ e.cur \in Session
  BY DEF Shaped
<1>2. f \in SessionEntry /\ f.state = "established" /\ f.cur = e.cur
  BY <1>1 DEF SessionEntry
<1> HIDE DEF f
<1>3. Shaped(f) /\ f # None /\ f.state = "established"
  BY <1>1, <1>2, NoneIsNothing DEF Shaped
<1> QED
  BY <1>3 DEF f

LEMMA DrainContinues ==
  ASSUME NEW e, Shaped(e), e.state = "established"
  PROVE  Continues(e, [e EXCEPT !.prev = None])
<1> DEFINE f == [e EXCEPT !.prev = None]
<1>1. e \in SessionEntry /\ e.cur \in Session
  BY DEF Shaped
<1>2. f \in SessionEntry /\ f.state = "established" /\ f.cur = e.cur /\ f.rekey = e.rekey
  BY <1>1 DEF SessionEntry
<1> HIDE DEF f
<1>3. Continues(e, f)
  BY <1>1, <1>2, NoneIsNothing DEF Shaped, Continues
<1> QED
  BY <1>3 DEF f

LEMMA ResendShape ==
  ASSUME NEW e, Shaped(e), ResendsLeft(e)
  PROVE  LET f == [e EXCEPT !.resends = @ + 1]
         IN  Shaped(f) /\ f # None /\ f.state = e.state /\ f.hs = e.hs /\ f.rekey = e.rekey
<1> DEFINE f == [e EXCEPT !.resends = @ + 1]
<1>1. e \in SessionEntry /\ e.resends + 1 \in 0 .. MaxResends
  BY EntryFields, BoundAssumption DEF Shaped, ResendsLeft
<1>2. /\ f \in SessionEntry /\ f.state = e.state /\ f.cur = e.cur /\ f.rekey = e.rekey
      /\ f.hs = e.hs
  BY <1>1 DEF SessionEntry
<1> HIDE DEF f
<1>3. Shaped(f) /\ f # None /\ f.state = e.state /\ f.hs = e.hs /\ f.rekey = e.rekey
  BY <1>1, <1>2, NoneIsNothing DEF Shaped
<1> QED
  BY <1>3 DEF f

LEMMA AfterKBitContinues ==
  ASSUME NEW e, Shaped(e), e.state = "established", NEW m
  PROVE  Continues(e, AfterKBit(e, m))
<1>1. Continues(e, e)
  BY NoneIsNothing DEF Continues, Shaped
<1> QED
  BY <1>1, PromoteContinues DEF AfterKBit

LEMMA Datagrams ==
  ASSUME NEW n \in Node
  PROVE  /\ \A i \in Id : /\ Setup(n, i) \in Datagram /\ Setup(n, i).type = "setup"
                          /\ Setup(n, i).from = n /\ Setup(n, i).hs.i = i
         /\ \A hs \in Session : /\ Ack(n, hs) \in Datagram /\ Ack(n, hs).type = "ack"
                                /\ Ack(n, hs).from = n /\ Ack(n, hs).hs = hs
         /\ \A hs \in Session : /\ Msg3(n, hs) \in Datagram /\ Msg3(n, hs).type = "msg3"
                                /\ Msg3(n, hs).from = n /\ Msg3(n, hs).hs = hs
         /\ \A e : Shaped(e) /\ e.state = "established" =>
              /\ FrameOf(n, e) \in Datagram /\ FrameOf(n, e).type = "frame"
              /\ FrameOf(n, e).from = n
              /\ CoordsWarmup(n, e) \in Datagram /\ CoordsWarmup(n, e).type = "frame"
              /\ CoordsWarmup(n, e).from = n
<1>1. ASSUME NEW i \in Id
      PROVE  /\ Setup(n, i) \in Datagram /\ Setup(n, i).type = "setup"
             /\ Setup(n, i).from = n /\ Setup(n, i).hs.i = i
  BY DEF Setup, Datagram, SessionSetup, Handshake
<1>2. ASSUME NEW hs \in Session
      PROVE  /\ Ack(n, hs) \in Datagram /\ Ack(n, hs).type = "ack"
             /\ Ack(n, hs).from = n /\ Ack(n, hs).hs = hs
             /\ Msg3(n, hs) \in Datagram /\ Msg3(n, hs).type = "msg3"
             /\ Msg3(n, hs).from = n /\ Msg3(n, hs).hs = hs
  BY DEF Ack, Msg3, Datagram, SessionAck, SessionMsg3
<1>3. ASSUME NEW e, Shaped(e), e.state = "established"
      PROVE  /\ FrameOf(n, e) \in Datagram /\ FrameOf(n, e).type = "frame"
             /\ FrameOf(n, e).from = n
             /\ CoordsWarmup(n, e) \in Datagram /\ CoordsWarmup(n, e).type = "frame"
             /\ CoordsWarmup(n, e).from = n
  <2>1. e.cur \in Session /\ e.k \in BOOLEAN
    BY <1>3, EntryFields DEF Shaped
  <2>2. FrameOf(n, e) \in Frame /\ FrameOf(n, e).type = "frame" /\ FrameOf(n, e).from = n
    BY <2>1 DEF FrameOf, Frame
  <2>3. /\ CoordsWarmup(n, e) \in Frame /\ CoordsWarmup(n, e).type = "frame"
        /\ CoordsWarmup(n, e).from = n
    BY <2>2 DEF CoordsWarmup, Frame
  <2> QED
    BY <2>1, <2>2, <2>3 DEF Frame, Datagram
<1> QED
  BY <1>1, <1>2, <1>3

LEMMA DatagramFields ==
  ASSUME NEW m \in Datagram
  PROVE  /\ m.from \in Node /\ m.type \in {"setup", "ack", "msg3", "frame"}
         /\ m.type = "setup" => m.hs \in Handshake /\ m.hs.i \in Id
         /\ m.type \in {"ack", "msg3", "frame"} => m.hs \in Session /\ m.hs.i \in Id
BY DEF Datagram, SessionSetup, SessionAck, SessionMsg3, Frame, Handshake, Session

LEMMA SetEntryKeeps ==
  ASSUME TypeOK, EntriesOK, NEW n \in Node, NEW e, e = None \/ Shaped(e), SetEntry(n, e)
  PROVE  /\ entry' \in [Node -> SessionEntry \cup {None}] /\ EntriesOK'
         /\ entry'[n] = e /\ \A q \in Node \ {n} : entry'[q] = entry[q]
BY DEF TypeOK, EntriesOK, SetEntry, Shaped

-----------------------------------------------------------------------------
(* Steps that leave the states of both ends as they are.                   *)

\* The end that awaits a datagram has not read it.
Needed(m) ==
  \/ m.type = "ack" /\ Has(Other(m.from), "initiating")
  \/ m.type = "msg3" /\ Has(Other(m.from), "awaiting")

\* The entry e of an end becomes f, as far as Orderly can tell.
Alike(q, f) ==
  /\ f = None <=> entry[q] = None
  /\ entry[q] # None =>
       /\ f.state = entry[q].state
       /\ f.state # "established" => f.hs = entry[q].hs
       /\ f.rekey = None \/ entry[q].rekey # None \/ ~ Has(Other(q), "awaiting")

LEMMA QuietStep ==
  ASSUME AllOrderly, lookup' = lookup,
         \A q \in Node : Alike(q, entry'[q]),
         \A q \in Node : queue'[q] \in {0, queue[q]} \/ entry[q] # None,
         \A m \in net' \ net : Justified(m.from, Other(m.from), m),
         \A m \in net \ net' : ~ Needed(m)
  PROVE  AllOrderly'
<1> SUFFICES ASSUME NEW n \in Node PROVE Orderly(n, Other(n))'
  BY DEF AllOrderly
<1> DEFINE p == Other(n)
<1>0. p \in Node /\ Other(p) = n /\ p # n
  BY Ends
<1>1. Orderly(n, p) /\ Orderly(p, n)
  BY <1>0 DEF AllOrderly
<1>2. ASSUME NEW q \in Node
      PROVE  /\ \A s : Has(q, s)' <=> Has(q, s)
             /\ IsEstablished(q)' <=> IsEstablished(q)
             /\ entry[q] # None /\ ~ IsEstablished(q) => entry'[q].hs = entry[q].hs
             /\ \A i : Initiating(q, i)' <=> Initiating(q, i)
  <2>1. Alike(q, entry'[q])
    OBVIOUS
  <2>2. \A s : Has(q, s)' <=> Has(q, s)
    BY <2>1 DEF Has, Alike
  <2>3. entry[q] # None /\ ~ IsEstablished(q) => entry'[q].hs = entry[q].hs
    BY <2>1 DEF Alike, IsEstablished, Has
  <2> QED
    BY <2>2, <2>3 DEF IsEstablished, Initiating, Has
<1>3. ASSUME NEW m
      PROVE  Justified(n, p, m) => Justified(n, p, m)'
  BY <1>0, <1>2 DEF Justified, SetupJustified, AckJustified, Msg3Justified, IsEstablished, Has,
                    WeWin
<1>4. \A m \in net' : m.from = n => Justified(n, p, m)'
  BY <1>1, <1>3 DEF Orderly
<1>5. Has(p, "awaiting")' => AwaitsAnswer(n, p)'
  <2> SUFFICES ASSUME Has(p, "awaiting") PROVE AwaitsAnswer(n, p)'
    BY <1>0, <1>2
  <2>1. AwaitsAnswer(n, p) /\ entry'[p].hs = entry[p].hs
    BY <1>0, <1>1, <1>2 DEF Orderly, Has, IsEstablished
  <2>2. CASE Initiating(n, entry[p].hs.i) /\ Ack(p, entry[p].hs) \in net
    <3>1. Ack(p, entry[p].hs).type = "ack" /\ Ack(p, entry[p].hs).from = p
      BY DEF Ack
    <3>2. Ack(p, entry[p].hs) \in net'
      BY <1>0, <2>2, <3>1 DEF Needed, Initiating
    <3> QED
      BY <1>0, <1>2, <2>1, <2>2, <3>2 DEF AwaitsAnswer, Ack
  <2>3. CASE IsEstablished(n) /\ entry[n].rekey = None /\ Msg3(n, entry[p].hs) \in net
    <3>1. Msg3(n, entry[p].hs).type = "msg3" /\ Msg3(n, entry[p].hs).from = n
      BY DEF Msg3
    <3>2. Msg3(n, entry[p].hs) \in net'
      BY <2>3, <3>1 DEF Needed
    <3>3. entry'[n].rekey = None
      BY <2>3 DEF Alike, IsEstablished, Has
    <3> QED
      BY <1>0, <1>2, <2>1, <2>3, <3>2, <3>3 DEF AwaitsAnswer, Msg3
  <2> QED
    BY <2>1, <2>2, <2>3 DEF AwaitsAnswer
<1>6. /\ ~ lookup'[n]
      /\ queue'[n] # 0 => entry'[n] # None
      /\ IsEstablished(n)' => IsEstablished(p)' \/ Has(p, "awaiting")'
  BY <1>0, <1>1, <1>2 DEF Orderly, Alike
<1> QED
  BY <1>4, <1>5, <1>6 DEF Orderly

LEMMA SameEntry ==
  ASSUME NEW q \in Node
  PROVE  Alike(q, entry[q])
BY DEF Alike

LEMMA ContinuesAlike ==
  ASSUME NEW q \in Node, NEW f, IsEstablished(q), Continues(entry[q], f)
  PROVE  Alike(q, f)
BY DEF Alike, Continues, IsEstablished, Has

LEMMA SpendBearable ==
  ASSUME NEW kind, NEW happens \in BOOLEAN, Spend(kind, happens), faults \subseteq Kind
  PROVE  /\ faults' \subseteq Kind
         /\ faults' \subseteq Bearable =>
              faults \subseteq Bearable /\ (happens => kind \in Bearable)
BY FaultAssumption DEF Spend

LEMMA SpendFault ==
  ASSUME NEW kind, Spend(kind, TRUE), faults \subseteq Kind
  PROVE  /\ faults' \subseteq Kind
         /\ faults' \subseteq Bearable => faults \subseteq Bearable /\ kind \in Bearable
BY FaultAssumption DEF Spend

-----------------------------------------------------------------------------
(* Sending, and the tick.                                                  *)

LEMMA InitiateKeeps ==
  ASSUME Typed, NEW n \in Node, ~ IsEstablished(n), Initiate(n), faults' \subseteq Kind,
         UNCHANGED lookup, queue' \in [Node -> 0 .. MaxQueue],
         \A q \in Node \ {n} : queue'[q] = queue[q]
  PROVE  Typed' /\ (AllOrderly /\ entry[n] = None => AllOrderly')
<1>1. PICK i \in FreeId : /\ SetEntry(n, NewEntry("initiating", [i |-> i, r |-> None]))
                          /\ net' = net \cup {Setup(n, i)}
  BY DEF Initiate
<1>2. i \in Id /\ [i |-> i, r |-> None] \in Handshake
  BY DEF FreeId, Handshake
<1> DEFINE e == NewEntry("initiating", [i |-> i, r |-> None])
<1>3. Shaped(e) /\ e # None /\ e.state = "initiating" /\ e.hs.i = i
  BY <1>2, NewEntryShape
<1> HIDE DEF e
<1>4. /\ entry' \in [Node -> SessionEntry \cup {None}] /\ EntriesOK'
      /\ entry'[n] = e /\ \A q \in Node \ {n} : entry'[q] = entry[q]
  BY <1>1, <1>3, SetEntryKeeps DEF Typed, e
<1>5. /\ Setup(n, i) \in Datagram /\ Setup(n, i).type = "setup" /\ Setup(n, i).from = n
      /\ Setup(n, i).hs.i = i
  BY <1>2, Datagrams
<1>6. Typed'
  <2>1. TypeOK'
    BY <1>1, <1>4, <1>5 DEF Typed, TypeOK
  <2>2. NothingBehind'
    BY <1>3, <1>4 DEF Typed, NothingBehind, IsEstablished, Has
  <2> QED
    BY <1>4, <2>1, <2>2 DEF Typed
<1>7. ASSUME AllOrderly, entry[n] = None
      PROVE  AllOrderly'
  <2> DEFINE p == Other(n)
  <2>0. p \in Node /\ Other(p) = n /\ p # n /\ \A q \in Node : q = n \/ q = p
    BY Ends
  <2>1. Orderly(n, p) /\ Orderly(p, n) /\ entry'[p] = entry[p]
    BY <1>4, <1>7, <2>0 DEF AllOrderly
  <2>2. ~ Has(p, "awaiting") /\ ~ Has(n, "awaiting") /\ ~ IsEstablished(n) /\ ~ IsEstablished(p)
    BY <1>7, <2>1 DEF Orderly, AwaitsAnswer, Initiating, IsEstablished, Has
  <2>3. /\ ~ Has(p, "awaiting")' /\ ~ Has(n, "awaiting")'
        /\ ~ IsEstablished(n)' /\ ~ IsEstablished(p)'
    BY <1>3, <1>4, <2>0, <2>1, <2>2 DEF IsEstablished, Has
  <2>4. Initiating(n, i)' /\ \A j : Initiating(p, j) => Initiating(p, j)'
    BY <1>3, <1>4, <2>1 DEF Initiating, Has
  <2>5. Justified(n, p, Setup(n, i))'
    BY <1>5, <2>4 DEF Justified, SetupJustified
  <2>6. \A m \in net : m.from = n => ~ (m.type \in {"setup", "ack", "msg3"})
    BY <1>7, <2>1, <2>2
       DEF Orderly, Justified, SetupJustified, AckJustified, Msg3Justified, Initiating, Has
  <2>7. \A m \in net : m.from = p => Justified(p, n, m)'
    BY <2>1, <2>2, <2>4
       DEF Orderly, Justified, SetupJustified, AckJustified, Msg3Justified
  <2>8. Orderly(n, p)'
    BY <1>1, <1>3, <1>4, <2>1, <2>3, <2>5, <2>6 DEF Orderly, Justified
  <2>9. Orderly(p, n)'
    BY <1>1, <1>5, <2>0, <2>1, <2>3, <2>7 DEF Orderly
  <2> QED
    BY <2>0, <2>8, <2>9 DEF AllOrderly
<1> QED
  BY <1>6, <1>7

LEMMA TypedStep ==
  ASSUME Typed, NEW n \in Node, NEW e, e = None \/ Shaped(e), SetEntry(n, e),
         net' \subseteq Datagram, faults' \subseteq Kind,
         lookup' \in [Node -> BOOLEAN], queue' \in [Node -> 0 .. MaxQueue],
         \A q \in Node \ {n} : queue'[q] = queue[q],
         e # None /\ e.state = "established" => queue'[n] = 0
  PROVE  Typed' /\ entry'[n] = e /\ \A q \in Node \ {n} : entry'[q] = entry[q]
<1>1. /\ entry' \in [Node -> SessionEntry \cup {None}] /\ EntriesOK'
      /\ entry'[n] = e /\ \A q \in Node \ {n} : entry'[q] = entry[q]
  BY SetEntryKeeps DEF Typed
<1>2. NothingBehind'
  BY <1>1 DEF Typed, NothingBehind, IsEstablished, Has
<1>3. TypeOK'
  BY <1>1 DEF TypeOK
<1> QED
  BY <1>1, <1>2, <1>3 DEF Typed

LEMMA TypedSame ==
  ASSUME Typed, entry' = entry, net' \subseteq Datagram, faults' \subseteq Kind,
         lookup' \in [Node -> BOOLEAN], queue' \in [Node -> 0 .. MaxQueue],
         \A q \in Node : IsEstablished(q) => queue'[q] = 0
  PROVE  Typed'
BY DEF Typed, TypeOK, EntriesOK, NothingBehind, IsEstablished, Has

LEMMA QuietUpdate ==
  ASSUME AllOrderly, lookup' = lookup, NEW n \in Node, NEW e, Alike(n, e),
         entry'[n] = e, \A q \in Node \ {n} : entry'[q] = entry[q],
         \A q \in Node : queue'[q] \in {0, queue[q]} \/ entry[q] # None,
         \A m \in net' \ net : Justified(m.from, Other(m.from), m),
         \A m \in net \ net' : ~ Needed(m)
  PROVE  AllOrderly'
<1>1. \A q \in Node : Alike(q, entry'[q])
  BY SameEntry
<1> QED
  BY <1>1, QuietStep

LEMMA FrameJustified ==
  ASSUME NEW m, m.type = "frame"
  PROVE  Justified(m.from, Other(m.from), m) /\ ~ Needed(m)
BY DEF Justified, Needed

LEMMA EstablishedEntry ==
  ASSUME Typed, NEW n \in Node, IsEstablished(n)
  PROVE  Shaped(entry[n]) /\ entry[n].state = "established" /\ queue[n] = 0
BY DEF Typed, EntriesOK, NothingBehind, IsEstablished, Has

LEMMA HandleTunOutboundKeeps ==
  ASSUME Typed, Bounded, NEW n \in Node, HandleTunOutbound(n)
  PROVE  Typed' /\ Bounded'
<1>1. PICK noRoute \in BOOLEAN :
        /\ Spend("noroute", noRoute)
        /\ IF entry[n] = None
           THEN IF noRoute
                THEN /\ lookup' \in {lookup, [lookup EXCEPT ![n] = TRUE]}
                     /\ UNCHANGED <<entry, net>>
                ELSE Initiate(n) /\ UNCHANGED lookup
           ELSE ~ noRoute /\ UNCHANGED <<entry, net, lookup>>
  BY DEF HandleTunOutbound
<1>2. /\ faults' \subseteq Kind
      /\ faults' \subseteq Bearable => faults \subseteq Bearable /\ ~ noRoute
  BY <1>1, SpendBearable DEF Typed, TypeOK, Bearable
<1>3. /\ queue' \in [Node -> 0 .. MaxQueue] /\ \A q \in Node \ {n} : queue'[q] = queue[q]
      /\ ~ IsEstablished(n)
  BY BoundAssumption DEF HandleTunOutbound, Queued, Typed, TypeOK
<1>4. CASE entry[n] = None /\ noRoute
  <2>1. lookup' \in [Node -> BOOLEAN] /\ entry' = entry /\ net' = net
    BY <1>1, <1>4 DEF Typed, TypeOK
  <2>2. Typed'
    BY <1>2, <1>3, <2>1, TypedSame DEF Typed, TypeOK, NothingBehind
  <2> QED
    BY <1>2, <1>4, <2>2 DEF Bounded
<1>5. CASE entry[n] = None /\ ~ noRoute
  <2>1. Initiate(n) /\ UNCHANGED lookup
    BY <1>1, <1>5
  <2> QED
    BY <1>2, <1>3, <1>5, <2>1, InitiateKeeps DEF Bounded
<1>6. CASE entry[n] # None
  <2>1. entry' = entry /\ net' = net /\ lookup' = lookup
    BY <1>1, <1>6
  <2>2. Typed'
    BY <1>2, <1>3, <2>1, TypedSame DEF Typed, TypeOK, NothingBehind
  <2>3. AllOrderly => AllOrderly'
    BY <1>3, <1>6, <2>1, QuietUpdate, SameEntry
  <2> QED
    BY <1>2, <2>2, <2>3 DEF Bounded
<1> QED
  BY <1>4, <1>5, <1>6

LEMMA SendFrameKeeps ==
  ASSUME Typed, Bounded, NEW n \in Node, SendFrame(n)
  PROVE  Typed' /\ Bounded'
<1>1. FrameOf(n, entry[n]) \in Datagram /\ FrameOf(n, entry[n]).type = "frame"
  BY EstablishedEntry, Datagrams DEF SendFrame
<1>2. /\ net' = net \cup {FrameOf(n, entry[n])}
      /\ entry' = entry /\ queue' = queue /\ lookup' = lookup /\ faults' = faults
  BY DEF SendFrame
<1>3. Typed'
  BY <1>1, <1>2, TypedSame DEF Typed, TypeOK, NothingBehind
<1>4. AllOrderly => AllOrderly'
  BY <1>1, <1>2, QuietUpdate, SameEntry, FrameJustified
<1> QED
  BY <1>2, <1>3, <1>4 DEF Bounded

LEMMA HandleErrorSignalKeeps ==
  ASSUME Typed, Bounded, NEW n \in Node, HandleErrorSignal(n)
  PROVE  Typed' /\ Bounded'
<1>0. entry' = entry /\ queue' = queue
  BY DEF HandleErrorSignal
<1>1. CASE IsEstablished(n)
  <2>1. /\ CoordsWarmup(n, entry[n]) \in Datagram
        /\ CoordsWarmup(n, entry[n]).type = "frame"
    BY <1>1, EstablishedEntry, Datagrams
  <2>2. /\ net' = net \cup {CoordsWarmup(n, entry[n])} /\ lookup' = lookup
        /\ Spend("warmup", entry[n].k)
    BY <1>1 DEF HandleErrorSignal
  <2>3. entry[n].k \in BOOLEAN
    BY <1>1, EstablishedEntry, EntryFields DEF Shaped
  <2>4. faults' \subseteq Kind /\ (faults' \subseteq Bearable => faults \subseteq Bearable)
    BY <2>2, <2>3, SpendBearable DEF Typed, TypeOK
  <2>5. Typed'
    BY <1>0, <2>1, <2>2, <2>4, TypedSame DEF Typed, TypeOK, NothingBehind
  <2>6. AllOrderly => AllOrderly'
    BY <1>0, <2>1, <2>2, QuietUpdate, SameEntry, FrameJustified
  <2> QED
    BY <2>4, <2>5, <2>6 DEF Bounded
<1>2. CASE ~ IsEstablished(n)
  <2>1. /\ lookup' = [lookup EXCEPT ![n] = TRUE] /\ net' = net /\ Spend("noroute", TRUE)
    BY <1>2 DEF HandleErrorSignal
  <2>2. faults' \subseteq Kind /\ ~ (faults' \subseteq Bearable)
    <3>1. /\ faults' \subseteq Kind
          /\ faults' \subseteq Bearable => faults \subseteq Bearable /\ "noroute" \in Bearable
      BY <2>1, SpendFault DEF Typed, TypeOK
    <3> QED
      BY <3>1 DEF Bearable
  <2>3. Typed'
    BY <1>0, <2>1, <2>2, TypedSame DEF Typed, TypeOK, NothingBehind
  <2> QED
    BY <2>2, <2>3 DEF Bounded
<1> QED
  BY <1>1, <1>2

LEMMA LookupAnsweredKeeps ==
  ASSUME Typed, Bounded, NEW n \in Node, LookupAnswered(n)
  PROVE  Typed' /\ Bounded'
<1>1. lookup' = [lookup EXCEPT ![n] = FALSE] /\ queue' = queue /\ lookup[n]
  BY DEF LookupAnswered
<1>2. /\ faults' \subseteq Kind
      /\ faults' \subseteq Bearable => faults \subseteq Bearable
  BY SpendBearable DEF LookupAnswered, Typed, TypeOK
<1>3. ~ (faults' \subseteq Bearable)
  <2>1. ~ AllOrderly
    BY <1>1 DEF AllOrderly, Orderly
  <2> QED
    BY <1>2, <2>1 DEF Bounded
<1>4. CASE entry' = entry /\ net' = net
  <2>1. Typed'
    BY <1>1, <1>2, <1>4, TypedSame DEF Typed, TypeOK, NothingBehind
  <2> QED
    BY <1>3, <2>1 DEF Bounded
<1>5. CASE Initiate(n) /\ Restarts(n)
  <2>1. PICK i \in FreeId : /\ SetEntry(n, NewEntry("initiating", [i |-> i, r |-> None]))
                            /\ net' = net \cup {Setup(n, i)}
    BY <1>5 DEF Initiate
  <2>2. i \in Id /\ [i |-> i, r |-> None] \in Handshake
    BY DEF FreeId, Handshake
  <2>3. /\ Shaped(NewEntry("initiating", [i |-> i, r |-> None]))
        /\ NewEntry("initiating", [i |-> i, r |-> None]).state = "initiating"
    BY <2>2, NewEntryShape
  <2>4. net' \subseteq Datagram
    BY <2>1, <2>2, Datagrams DEF Typed, TypeOK
  <2>5. Typed'
    BY <1>1, <1>2, <2>1, <2>3, <2>4, TypedStep DEF Typed, TypeOK
  <2> QED
    BY <1>3, <2>5 DEF Bounded
<1> QED
  BY <1>3, <1>4, <1>5 DEF LookupAnswered, Bounded

LEMMA LookupTimedOutKeeps ==
  ASSUME Typed, Bounded, NEW n \in Node, LookupTimedOut(n)
  PROVE  Typed' /\ Bounded'
<1>1. /\ lookup' = [lookup EXCEPT ![n] = FALSE] /\ queue' = [queue EXCEPT ![n] = 0] /\ lookup[n]
      /\ entry' = entry /\ net' = net /\ faults' = faults
  BY DEF LookupTimedOut
<1>2. Typed'
  BY <1>1, BoundAssumption, TypedSame DEF Typed, TypeOK, NothingBehind
<1>3. ~ AllOrderly
  BY <1>1 DEF AllOrderly, Orderly
<1> QED
  BY <1>1, <1>2, <1>3 DEF Bounded

LEMMA TimeoutHandshakeKeeps ==
  ASSUME Typed, Bounded, NEW n \in Node, TimeoutHandshake(n)
  PROVE  Typed' /\ Bounded'
<1>1. /\ SetEntry(n, None) /\ queue' = [queue EXCEPT ![n] = 0]
      /\ lookup' = lookup /\ net' = net /\ faults' = faults
      /\ NoHandshake /\ ~ IsEstablished(n)
  BY DEF TimeoutHandshake, TimesOut
<1>2. Typed' /\ entry'[n] = None /\ \A q \in Node \ {n} : entry'[q] = entry[q]
  <2>1. /\ queue' \in [Node -> 0 .. MaxQueue] /\ queue'[n] = 0
        /\ \A q \in Node \ {n} : queue'[q] = queue[q]
    BY <1>1, BoundAssumption DEF Typed, TypeOK
  <2> QED
    BY <1>1, <2>1, TypedStep DEF Typed, TypeOK
<1>3. ASSUME AllOrderly
      PROVE  AllOrderly'
  <2> DEFINE p == Other(n)
  <2>0. p \in Node /\ Other(p) = n /\ p # n /\ \A q \in Node : q = n \/ q = p
    BY Ends
  <2>1. /\ Orderly(n, p) /\ Orderly(p, n) /\ entry'[p] = entry[p]
        /\ queue'[n] = 0 /\ queue'[p] = queue[p]
    BY <1>1, <1>2, <1>3, <2>0 DEF AllOrderly, Typed, TypeOK
  <2>2. ~ Has(p, "awaiting") /\ ~ Has(n, "awaiting")
    <3>1. ASSUME NEW a, NEW b, AwaitsAnswer(a, b) PROVE FALSE
      BY <1>1, <3>1 DEF AwaitsAnswer, NoHandshake, Ack, Msg3
    <3> QED
      BY <2>1, <3>1 DEF Orderly
  <2>3. ~ IsEstablished(p)
    BY <1>1, <2>1, <2>2 DEF Orderly
  <2>4. ~ Has(p, "awaiting")' /\ ~ Has(n, "awaiting")' /\ ~ IsEstablished(n)' /\ ~ IsEstablished(p)'
    BY <1>2, <2>1, <2>2, <2>3 DEF IsEstablished, Has
  <2>5. \A m \in net' : Justified(n, p, m)' /\ Justified(p, n, m)'
    BY <1>1 DEF NoHandshake, Justified
  <2>6. Orderly(n, p)' /\ Orderly(p, n)'
    BY <1>1, <1>2, <2>1, <2>4, <2>5 DEF Orderly
  <2> QED
    BY <2>0, <2>6 DEF AllOrderly
<1> QED
  BY <1>1, <1>2, <1>3 DEF Bounded

LEMMA ResendHandshakeKeeps ==
  ASSUME Typed, Bounded, NEW n \in Node, ResendHandshake(n)
  PROVE  Typed' /\ Bounded'
<1> DEFINE e == entry[n]
           f == [e EXCEPT !.resends = @ + 1]
           m == IF e.state = "initiating" THEN Setup(n, e.hs.i) ELSE Ack(n, e.hs)
<1>1. /\ e # None /\ ~ IsEstablished(n) /\ ResendsLeft(e) /\ SetEntry(n, f)
      /\ net' = net \cup {m} /\ queue' = queue /\ lookup' = lookup /\ faults' = faults
  BY DEF ResendHandshake
<1>2. Shaped(e) /\ e.state \in {"initiating", "awaiting"}
  BY <1>1, EntryFields DEF Typed, EntriesOK, IsEstablished, Has, Shaped, EndToEndState
<1>3. Shaped(f) /\ f # None /\ f.state = e.state /\ f.hs = e.hs /\ f.rekey = e.rekey
  BY <1>1, <1>2, ResendShape
<1>4. \/ /\ e.state = "initiating" /\ e.hs.i \in Id /\ m = Setup(n, e.hs.i)
      \/ /\ e.state = "awaiting" /\ e.hs \in Session /\ m = Ack(n, e.hs)
  BY <1>2 DEF Shaped, Handshake
<1>5. m \in Datagram /\ m.from = n /\ Justified(n, Other(n), m)
  <2>1. CASE e.state = "initiating" /\ e.hs.i \in Id /\ m = Setup(n, e.hs.i)
    <3>1. m \in Datagram /\ m.from = n /\ m.type = "setup" /\ m.hs.i = e.hs.i
      BY <2>1, Datagrams
    <3> QED
      BY <1>1, <2>1, <3>1 DEF Justified, SetupJustified, Initiating, Has
  <2>2. CASE e.state = "awaiting" /\ e.hs \in Session /\ m = Ack(n, e.hs)
    <3>1. m \in Datagram /\ m.from = n /\ m.type = "ack" /\ m.hs = e.hs
      BY <2>2, Datagrams
    <3> QED
      BY <1>1, <2>2, <3>1 DEF Justified, AckJustified, Has
  <2> QED
    BY <1>4, <2>1, <2>2
<1> HIDE DEF f, m
<1>6. Alike(n, f)
  BY <1>1, <1>3 DEF Alike
<1>7. Typed' /\ entry'[n] = f /\ \A q \in Node \ {n} : entry'[q] = entry[q]
  <2>1. f.state # "established"
    BY <1>2, <1>3
  <2> QED
    BY <1>1, <1>3, <1>5, <2>1, TypedStep DEF Typed, TypeOK
<1>8. AllOrderly => AllOrderly'
  BY <1>1, <1>5, <1>6, <1>7, QuietUpdate
<1> QED
  BY <1>1, <1>7, <1>8 DEF Bounded

\* An established session goes on, and nothing is sent.
LEMMA ContinueKeeps ==
  ASSUME Typed, Bounded, NEW n \in Node, NEW f, IsEstablished(n),
         Continues(entry[n], f), SetEntry(n, f), UNCHANGED <<queue, lookup, net>>,
         NEW kind, NEW happens \in BOOLEAN, Spend(kind, happens)
  PROVE  Typed' /\ Bounded'
<1>1. faults' \subseteq Kind /\ (faults' \subseteq Bearable => faults \subseteq Bearable)
  BY SpendBearable DEF Typed, TypeOK
<1>2. Shaped(f) /\ f # None /\ Alike(n, f) /\ queue[n] = 0
  BY ContinuesAlike, EstablishedEntry DEF Continues
<1>3. Typed' /\ entry'[n] = f /\ \A q \in Node \ {n} : entry'[q] = entry[q]
  BY <1>1, <1>2, TypedStep DEF Typed, TypeOK
<1>4. AllOrderly => AllOrderly'
  BY <1>2, <1>3, QuietUpdate
<1> QED
  BY <1>1, <1>3, <1>4 DEF Bounded

LEMMA CutoverKeeps ==
  ASSUME Typed, Bounded, NEW n \in Node, Cutover(n)
  PROVE  Typed' /\ Bounded'
<1>1. Continues(entry[n], Promote(entry[n]))
  BY EstablishedEntry, PromoteContinues DEF Cutover, CutsOver
<1>2. (Msg3(n, entry[n].pending) \in net) \in BOOLEAN
  OBVIOUS
<1> QED
  BY <1>1, <1>2, ContinueKeeps DEF Cutover

LEMMA DrainKeeps ==
  ASSUME Typed, Bounded, NEW n \in Node, Drain(n)
  PROVE  Typed' /\ Bounded'
<1>1. Continues(entry[n], [entry[n] EXCEPT !.prev = None])
  BY EstablishedEntry, DrainContinues DEF Drain
<1>2. LeftBehind(n) \in BOOLEAN
  BY DEF LeftBehind
<1> QED
  BY <1>1, <1>2, ContinueKeeps DEF Drain

LEMMA RekeyKeeps ==
  ASSUME Typed, Bounded, NEW n \in Node, Rekey(n)
  PROVE  Typed' /\ Bounded'
<1> DEFINE e == entry[n]
<1>1. PICK i \in FreeId :
        /\ SetEntry(n, [e EXCEPT !.rekey = [i |-> i, r |-> None], !.initiator = TRUE])
        /\ net' = net \cup {Setup(n, i)}
  BY DEF Rekey
<1> DEFINE f == [e EXCEPT !.rekey = [i |-> i, r |-> None], !.initiator = TRUE]
<1>2. /\ IsEstablished(n) /\ e.rekey = None /\ RekeyOn
      /\ queue' = queue /\ lookup' = lookup /\ Spend("silent", LeftBehind(n))
  BY DEF Rekey
<1>3. i \in Id /\ [i |-> i, r |-> None] \in Handshake
  BY DEF FreeId, Handshake
<1>4. Shaped(f) /\ f # None /\ f.state = "established" /\ queue[n] = 0
  BY ZenonT(60), <1>2, <1>3, EstablishedEntry, RekeyShape
<1> HIDE DEF f
<1>5. LeftBehind(n) \in BOOLEAN
  BY DEF LeftBehind
<1>6. faults' \subseteq Kind /\ (faults' \subseteq Bearable => faults \subseteq Bearable)
  BY <1>2, <1>5, SpendBearable DEF Typed, TypeOK
<1>7. /\ Setup(n, i) \in Datagram /\ Setup(n, i).type = "setup" /\ Setup(n, i).from = n
  BY <1>3, Datagrams
<1>8. Typed' /\ entry'[n] = f /\ \A q \in Node \ {n} : entry'[q] = entry[q]
  BY <1>1, <1>2, <1>4, <1>6, <1>7, TypedStep DEF Typed, TypeOK, f
<1>9. ASSUME AllOrderly
      PROVE  AllOrderly'
  <2>1. ~ Has(Other(n), "awaiting")
    <3> SUFFICES ASSUME Has(Other(n), "awaiting") PROVE FALSE
      OBVIOUS
    <3>1. AwaitsAnswer(n, Other(n))
      BY <1>9 DEF AllOrderly, Orderly
    <3>2. Msg3(n, entry[Other(n)].hs) \in net
      BY <1>2, <3>1 DEF AwaitsAnswer, Initiating, IsEstablished, Has
    <3> QED
      BY <3>2 DEF Rekey, Msg3
  <2>2. Alike(n, f)
    BY <1>2, <1>4, <2>1 DEF Alike, IsEstablished, Has
  <2>3. Justified(n, Other(n), Setup(n, i))
    BY <1>2, <1>7 DEF Justified, SetupJustified
  <2> QED
    BY <1>1, <1>2, <1>7, <1>8, <1>9, <2>2, <2>3, QuietUpdate
<1> QED
  BY <1>6, <1>8, <1>9 DEF Bounded

LEMMA ForgetKeeps ==
  ASSUME Typed, Bounded, NEW n \in Node, Forget(n)
  PROVE  Typed' /\ Bounded'
<1>1. /\ SetEntry(n, None) /\ queue' = [queue EXCEPT ![n] = 0] /\ net' = net
      /\ lookup' \in {lookup, [lookup EXCEPT ![n] = FALSE]} /\ Spend("forget", TRUE)
  BY DEF Forget
<1>2. faults' \subseteq Kind /\ ~ (faults' \subseteq Bearable)
  <2>1. /\ faults' \subseteq Kind
        /\ faults' \subseteq Bearable => faults \subseteq Bearable /\ "forget" \in Bearable
    BY <1>1, SpendFault DEF Typed, TypeOK
  <2> QED
    BY <2>1 DEF Bearable
<1>3. Typed'
  <2>1. queue' \in [Node -> 0 .. MaxQueue] /\ \A q \in Node \ {n} : queue'[q] = queue[q]
    BY <1>1, BoundAssumption DEF Typed, TypeOK
  <2>2. lookup' \in [Node -> BOOLEAN]
    <3>1. CASE lookup' = lookup
      BY <3>1 DEF Typed, TypeOK
    <3>2. CASE lookup' = [lookup EXCEPT ![n] = FALSE]
      BY <3>2 DEF Typed, TypeOK
    <3> QED
      BY <1>1, <3>1, <3>2
  <2> QED
    BY <1>1, <1>2, <2>1, <2>2, TypedStep DEF Typed, TypeOK
<1> QED
  BY <1>2, <1>3 DEF Bounded

LEMMA LoseKeeps ==
  ASSUME Typed, Bounded, NEW m \in net, Lose(m)
  PROVE  Typed' /\ Bounded'
<1>1. /\ net' = net \ {m} /\ entry' = entry /\ queue' = queue /\ lookup' = lookup
      /\ Spend(m.type, TRUE)
  BY DEF Lose
<1>2. /\ faults' \subseteq Kind
      /\ faults' \subseteq Bearable => faults \subseteq Bearable /\ m.type \in Bearable
  BY <1>1, SpendFault DEF Typed, TypeOK
<1>3. Typed'
  BY <1>1, <1>2, TypedSame DEF Typed, TypeOK, NothingBehind
<1>4. AllOrderly /\ m.type \in Bearable => AllOrderly'
  <2>1. m.type \in Bearable => ~ Needed(m)
    BY DEF Bearable, Needed
  <2>2. \A q \in Node : Alike(q, entry'[q])
    BY <1>1, SameEntry
  <2> QED
    BY <1>1, <2>1, <2>2, QuietStep
<1> QED
  BY <1>2, <1>3, <1>4 DEF Bounded

-----------------------------------------------------------------------------
(* Receiving.  Whatever is handled, the types are kept; what is handled    *)
(* once, sent, and not late, keeps the order of the handshake as well.     *)

Kept == Typed' /\ (AllOrderly => AllOrderly')

\* A datagram m of the other end is handled by n.
Handled(n, m, repeated) ==
  /\ Typed /\ n \in Node /\ m \in net /\ m.from # n
  /\ repeated \in BOOLEAN /\ faults' \subseteq Kind

LEMMA Handling ==
  ASSUME NEW n, NEW m, NEW repeated, Handled(n, m, repeated),
         NEW sent, sent \subseteq Datagram, Take(m, repeated, sent)
  PROVE  /\ m \in Datagram /\ m.from = Other(n) /\ Other(m.from) = n
         /\ net' \subseteq Datagram
         /\ net \ net' \subseteq {m} /\ net' \ net \subseteq sent
         /\ ~ repeated => net' = (net \ {m}) \cup sent
<1>1. m \in Datagram /\ m.from \in Node
  BY DatagramFields DEF Handled, Typed, TypeOK
<1>2. m.from = Other(n) /\ Other(m.from) = n
  BY <1>1, Ends DEF Handled
<1> QED
  BY <1>1, <1>2 DEF Handled, Typed, TypeOK, Take

LEMMA FlushedFrames ==
  ASSUME NEW n \in Node, NEW e, Shaped(e), e.state = "established"
  PROVE  Flushed(n, e) \subseteq Datagram /\ \A o \in Flushed(n, e) : o.type = "frame"
BY Datagrams DEF Flushed

\* The entry stays what it is.
LEMMA HandledSame ==
  ASSUME NEW n, NEW m, NEW repeated, Handled(n, m, repeated),
         NEW sent, sent \subseteq Datagram, Take(m, repeated, sent),
         UNCHANGED <<entry, queue, lookup>>,
         \A o \in sent : o.from = n /\ Justified(n, Other(n), o), ~ Needed(m)
  PROVE  Kept
<1>1. /\ net' \subseteq Datagram /\ net \ net' \subseteq {m} /\ net' \ net \subseteq sent
      /\ n \in Node /\ Typed /\ faults' \subseteq Kind
  <2>1. n \in Node /\ Typed /\ faults' \subseteq Kind
    BY DEF Handled
  <2> QED
    BY <2>1, Handling
<1>2. Typed'
  BY <1>1, TypedSame DEF Typed, TypeOK, NothingBehind
<1>3. AllOrderly => AllOrderly'
  BY <1>1, QuietUpdate, SameEntry
<1> QED
  BY <1>2, <1>3 DEF Kept

\* An established session goes on.
LEMMA HandledContinues ==
  ASSUME NEW n, NEW m, NEW repeated, Handled(n, m, repeated),
         NEW sent, sent \subseteq Datagram, Take(m, repeated, sent),
         IsEstablished(n), NEW f, SetEntry(n, f),
         Shaped(f), f # None, f.state = "established",
         UNCHANGED lookup, queue' = queue \/ queue' = [queue EXCEPT ![n] = 0],
         AllOrderly => /\ Alike(n, f)
                       /\ \A o \in sent : Justified(o.from, Other(o.from), o),
         m.type # "ack" \/ ~ Has(n, "initiating")
  PROVE  Kept
<1>1. /\ net' \subseteq Datagram /\ net \ net' \subseteq {m} /\ net' \ net \subseteq sent
      /\ n \in Node /\ Typed /\ faults' \subseteq Kind /\ Other(m.from) = n
  <2>1. n \in Node /\ Typed /\ faults' \subseteq Kind
    BY DEF Handled
  <2> QED
    BY <2>1, Handling
<1>2. queue' \in [Node -> 0 .. MaxQueue] /\ queue'[n] = 0 /\ \A q \in Node \ {n} : queue'[q] = queue[q]
  BY <1>1, EstablishedEntry, BoundAssumption DEF Typed, TypeOK
<1>3. Typed' /\ entry'[n] = f /\ \A q \in Node \ {n} : entry'[q] = entry[q]
  BY <1>1, <1>2, TypedStep DEF Typed, TypeOK
<1>4. ~ Needed(m)
  BY <1>1 DEF Needed, IsEstablished, Has
<1>5. AllOrderly => AllOrderly'
  BY <1>1, <1>2, <1>3, <1>4, QuietUpdate
<1> QED
  BY <1>3, <1>5 DEF Kept

LEMMA HandleEncryptedSessionMsgKeeps ==
  ASSUME NEW n, NEW m, NEW repeated, Handled(n, m, repeated),
         HandleEncryptedSessionMsg(n, m, repeated)
  PROVE  Kept
<1>1. m.type = "frame" /\ lookup' = lookup /\ ~ Needed(m) /\ n \in Node /\ Typed
  BY DEF HandleEncryptedSessionMsg, Handled, Needed
<1>2. CASE ~ IsEstablished(n)
  BY <1>1, <1>2, HandledSame DEF HandleEncryptedSessionMsg
<1>3. CASE IsEstablished(n)
  <2> DEFINE f == AfterKBit(entry[n], m)
  <2>1. /\ SetEntry(n, f)
        /\ \/ Flush(n, f) /\ Take(m, repeated, Flushed(n, f))
           \/ UNCHANGED queue /\ Take(m, repeated, {})
    BY <1>3 DEF HandleEncryptedSessionMsg
  <2>2. Continues(entry[n], f)
    BY <1>1, <1>3, EstablishedEntry, AfterKBitContinues
  <2> HIDE DEF f
  <2>3. Shaped(f) /\ f # None /\ f.state = "established" /\ Alike(n, f)
    BY <1>1, <1>3, <2>2, ContinuesAlike DEF Continues
  <2>4. /\ Flushed(n, f) \subseteq Datagram
        /\ \A o \in Flushed(n, f) : Justified(o.from, Other(o.from), o)
    BY <1>1, <2>3, FlushedFrames, FrameJustified
  <2>5. CASE Flush(n, f) /\ Take(m, repeated, Flushed(n, f))
    <3>1. queue' = queue \/ queue' = [queue EXCEPT ![n] = 0]
      BY <2>5 DEF Flush
    <3>2. /\ SetEntry(n, f) /\ Take(m, repeated, Flushed(n, f)) /\ UNCHANGED lookup
          /\ m.type # "ack"
      BY <1>1, <2>1, <2>5
    <3> HIDE <2>5
    <3> QED
      BY <1>3, <2>3, <2>4, <3>1, <3>2, HandledContinues
  <2>6. CASE UNCHANGED queue /\ Take(m, repeated, {})
    BY <1>1, <1>3, <2>1, <2>3, <2>6, HandledContinues
  <2> QED
    BY <2>1, <2>5, <2>6
<1> QED
  BY <1>2, <1>3

\* What is known of the two ends while a datagram of the handshake is handled.
LEMMA HandledOrderly ==
  ASSUME NEW n, NEW m, NEW repeated, Handled(n, m, repeated), AllOrderly
  PROVE  /\ Orderly(n, Other(n)) /\ Orderly(Other(n), n)
         /\ m.from = Other(n) /\ Other(n) \in Node /\ Other(n) # n /\ Other(Other(n)) = n
         /\ Justified(Other(n), n, m)
<1>1. n \in Node /\ m \in net /\ m.from \in Node /\ m.from # n
  BY DatagramFields DEF Handled, Typed, TypeOK
<1>2. m.from = Other(n) /\ Other(n) \in Node /\ Other(n) # n /\ Other(Other(n)) = n
  BY <1>1, Ends
<1>3. Orderly(n, Other(n)) /\ Orderly(Other(n), n)
  BY <1>1, <1>2 DEF AllOrderly
<1> QED
  BY <1>1, <1>2, <1>3 DEF Orderly

\* n becomes the responder of the handshake the other end initiated.
LEMMA RespondsOrderly ==
  ASSUME NEW n, NEW m, NEW hs, Handled(n, m, FALSE), AllOrderly,
         m.type = "setup", ~ SetupIgnored(n), ~ SetupRepeated(n), ~ SetupRekeys(n),
         hs \in Session, hs.i = m.hs.i,
         entry'[n] # None, entry'[n].state = "awaiting", entry'[n].hs = hs,
         entry'[Other(n)] = entry[Other(n)],
         net' = (net \ {m}) \cup {Ack(n, hs)}, UNCHANGED <<queue, lookup>>
  PROVE  AllOrderly'
<1> DEFINE p == Other(n)
<1>0. n \in Node /\ p \in Node /\ Other(p) = n /\ p # n /\ \A q \in Node : q = n \/ q = p
  BY Ends DEF Handled
<1>1. Orderly(n, p) /\ Orderly(p, n) /\ Justified(p, n, m)
  BY HandledOrderly
<1>2. ~ Has(n, "awaiting")
  BY DEF SetupRepeated
<1>3. ~ (Has(p, "awaiting") /\ Has(n, "initiating") /\ WeWin(n))
  BY DEF SetupIgnored
<1>4. ~ (IsEstablished(p) /\ RekeyOn)
  BY <1>1, <1>2 DEF Orderly, SetupRekeys
<1>5. Initiating(p, m.hs.i)
  BY <1>1, <1>2, <1>3, <1>4 DEF Justified, SetupJustified
<1>6. ~ Has(p, "awaiting") /\ ~ IsEstablished(p) /\ ~ IsEstablished(n)
  BY <1>1, <1>5 DEF Orderly, Initiating, IsEstablished, Has
<1>7. Has(n, "initiating") => WeWin(p)
  BY <1>0, Ends DEF SetupIgnored
<1>8. /\ Has(n, "awaiting")' /\ ~ IsEstablished(n)' /\ ~ Has(p, "awaiting")'
      /\ ~ IsEstablished(p)' /\ Has(p, "initiating")' /\ Initiating(p, m.hs.i)'
      /\ \A i : Initiating(p, i)' <=> Initiating(p, i)
  BY <1>5, <1>6 DEF Has, IsEstablished, Initiating
<1>9. /\ Ack(n, hs).type = "ack" /\ Ack(n, hs).from = n /\ Ack(n, hs).hs = hs
      /\ Ack(n, hs) \in net'
  BY <1>0, Datagrams
<1>10. AwaitsAnswer(p, n)'
  BY <1>8, <1>9 DEF AwaitsAnswer, Ack
<1>11. \A o \in net : o.from = p => Justified(p, n, o)'
  BY <1>1, <1>2, <1>6, <1>8
     DEF Orderly, Justified, SetupJustified, AckJustified, Msg3Justified
<1>12. \A o \in net : o.from = n => Justified(n, p, o)'
  <2> SUFFICES ASSUME NEW o \in net, o.from = n PROVE Justified(n, p, o)'
    OBVIOUS
  <2>1. Justified(n, p, o)
    BY <1>1 DEF Orderly
  <2>2. o.type # "ack" /\ o.type # "msg3"
    BY <1>2, <1>6, <2>1 DEF Justified, AckJustified, Msg3Justified
  <2>3. o.type = "setup" => Has(n, "initiating")
    BY <1>2, <1>6, <2>1 DEF Justified, SetupJustified, Initiating
  <2>4. WeWin(p)' <=> WeWin(p)
    BY DEF WeWin
  <2> QED
    BY <1>7, <1>8, <2>2, <2>3, <2>4 DEF Justified, SetupJustified
<1>13. Justified(n, p, Ack(n, hs))'
  BY <1>8, <1>9 DEF Justified, AckJustified
<1>14. Orderly(n, p)'
  BY <1>1, <1>8, <1>12, <1>13 DEF Orderly
<1>15. Orderly(p, n)'
  BY <1>0, <1>1, <1>8, <1>9, <1>10, <1>11 DEF Orderly
<1> QED
  BY <1>0, <1>14, <1>15 DEF AllOrderly

LEMMA HandleSessionSetupKeeps ==
  ASSUME NEW n, NEW m, NEW repeated, NEW noRoute \in BOOLEAN, Handled(n, m, repeated),
         HandleSessionSetup(n, m, repeated, noRoute)
  PROVE  Typed' /\ (AllOrderly /\ ~ repeated /\ ~ noRoute => AllOrderly')
<1> DEFINE e == entry[n]
<1>1. /\ m.type = "setup" /\ queue' = queue /\ lookup' = lookup /\ ~ Needed(m)
      /\ n \in Node /\ Typed /\ faults' \subseteq Kind
  BY DEF HandleSessionSetup, Handled, Needed
<1>2. m \in Datagram /\ m.hs.i \in Id
  BY <1>1, DatagramFields DEF Handled, Typed, TypeOK
<1>3. e # None => Shaped(e)
  BY <1>1 DEF Typed, EntriesOK
<1>4. CASE SetupIgnored(n)
  <2>1. entry' = entry /\ Take(m, repeated, {})
    BY <1>4 DEF HandleSessionSetup
  <2>2. Kept
    BY <1>1, <2>1, HandledSame
  <2> QED
    BY <2>2 DEF Kept
<1>5. CASE ~ SetupIgnored(n) /\ SetupRepeated(n)
  <2>1. entry' = entry /\ Take(m, repeated, IF noRoute THEN {} ELSE {Ack(n, e.hs)})
    BY <1>5 DEF HandleSessionSetup
  <2>2. e # None /\ e.state = "awaiting" /\ e.hs \in Session
    BY <1>3, <1>5 DEF SetupRepeated, Has, Shaped
  <2>3. /\ Ack(n, e.hs) \in Datagram /\ Ack(n, e.hs).from = n
        /\ Justified(n, Other(n), Ack(n, e.hs))
    BY <1>1, <2>2, Datagrams DEF Justified, AckJustified, Has
  <2> DEFINE sent == IF noRoute THEN {} ELSE {Ack(n, e.hs)}
  <2>4. /\ sent \subseteq Datagram /\ \A o \in sent : o.from = n /\ Justified(n, Other(n), o)
        /\ Take(m, repeated, sent)
    BY <2>1, <2>3
  <2> HIDE DEF sent
  <2>5. Kept
    BY <1>1, <2>1, <2>4, HandledSame
  <2> QED
    BY <2>5 DEF Kept
<1>6. CASE ~ SetupIgnored(n) /\ ~ SetupRepeated(n)
  <2> DEFINE lost == IF SetupRekeys(n) /\ e.rekey # None THEN AbandonRekey(e) ELSE e
  <2>1. PICK r \in FreeId :
          LET hs == [i |-> m.hs.i, r |-> r]
          IN  IF noRoute THEN SetEntry(n, lost) /\ Take(m, repeated, {})
              ELSE /\ Take(m, repeated, {Ack(n, hs)})
                   /\ SetEntry(n, IF SetupRekeys(n)
                                  THEN [lost EXCEPT !.rekey = hs, !.initiator = FALSE]
                                  ELSE NewEntry("awaiting", hs))
    BY <1>6 DEF HandleSessionSetup
  <2> DEFINE hs == [i |-> m.hs.i, r |-> r]
  <2>2. hs \in Session /\ hs \in Handshake /\ hs.i = m.hs.i
    BY <1>2 DEF FreeId, Session, Handshake
  <2>3. /\ Ack(n, hs) \in Datagram /\ Ack(n, hs).from = n /\ Ack(n, hs).type = "ack"
    BY <1>1, <2>2, Datagrams
  <2>4. /\ lost = None \/ Shaped(lost)
        /\ IsEstablished(n) => lost # None /\ Shaped(lost) /\ lost.state = "established"
        /\ ~ IsEstablished(n) => lost = e
    <3>1. CASE SetupRekeys(n) /\ e.rekey # None
      <4>1. Shaped(e) /\ e.state = "established" /\ IsEstablished(n)
        BY <1>1, <3>1, EstablishedEntry DEF SetupRekeys
      <4> QED
        BY <3>1, <4>1, AbandonContinues DEF Continues
    <3>2. CASE ~ (SetupRekeys(n) /\ e.rekey # None)
      BY <1>3, <3>2 DEF IsEstablished, Has
    <3> QED
      BY <3>1, <3>2
  <2> HIDE DEF lost, hs
  <2>5. CASE noRoute
    <3>1. SetEntry(n, lost) /\ Take(m, repeated, {})
      BY <2>1, <2>5 DEF hs
    <3>2. net' \subseteq Datagram
      BY <3>1, Handling
    <3>3. lost # None /\ lost.state = "established" => queue[n] = 0
      BY <1>1, <2>4 DEF Typed, NothingBehind, IsEstablished, Has
    <3>4. Typed'
      BY <1>1, <2>4, <3>1, <3>2, <3>3, TypedStep DEF Typed, TypeOK
    <3> QED
      BY <2>5, <3>4
  <2>6. CASE ~ noRoute /\ SetupRekeys(n)
    <3> DEFINE f == [lost EXCEPT !.rekey = hs, !.initiator = FALSE]
    <3>1. SetEntry(n, f) /\ Take(m, repeated, {Ack(n, hs)})
      BY <2>1, <2>6 DEF hs
    <3>2. IsEstablished(n)
      BY <2>6 DEF SetupRekeys
    <3>3. Shaped(f) /\ f # None /\ f.state = "established"
      BY <2>2, <2>4, <3>2, RekeyShape
    <3> HIDE DEF f
    <3>4. ASSUME AllOrderly
          PROVE  Alike(n, f) /\ Justified(n, Other(n), Ack(n, hs))
      <4>1. ~ Has(Other(n), "awaiting")
        <5>1. Justified(Other(n), n, m)
          BY <3>4, HandledOrderly
        <5>2. ~ Has(n, "initiating")
          BY <3>2 DEF IsEstablished, Has
        <5> QED
          BY <1>1, <5>1, <5>2 DEF Justified, SetupJustified, Initiating, IsEstablished, Has
      <4>2. Alike(n, f)
        BY <3>2, <3>3, <4>1 DEF Alike, IsEstablished, Has
      <4>3. Justified(n, Other(n), Ack(n, hs))
        BY <2>3, <3>2 DEF Justified, AckJustified
      <4> QED
        BY <4>2, <4>3
    <3>5. Kept
      BY <1>1, <2>3, <3>1, <3>2, <3>3, <3>4, HandledContinues
    <3> QED
      BY <3>5 DEF Kept
  <2>7. CASE ~ noRoute /\ ~ SetupRekeys(n)
    <3> DEFINE f == NewEntry("awaiting", hs)
    <3>1. SetEntry(n, f) /\ Take(m, repeated, {Ack(n, hs)})
      BY <2>1, <2>7 DEF hs
    <3>2. Shaped(f) /\ f # None /\ f.state = "awaiting" /\ f.hs = hs
      BY <2>2, NewEntryShape
    <3> HIDE DEF f
    <3>3. net' \subseteq Datagram /\ (~ repeated => net' = (net \ {m}) \cup {Ack(n, hs)})
      BY <2>3, <3>1, Handling
    <3>4. Typed' /\ entry'[n] = f /\ \A q \in Node \ {n} : entry'[q] = entry[q]
      BY <1>1, <3>1, <3>2, <3>3, TypedStep DEF Typed, TypeOK
    <3>5. ASSUME AllOrderly, ~ repeated
          PROVE  AllOrderly'
      <4>1. Handled(n, m, FALSE)
        BY DEF Handled
      <4>2. entry'[Other(n)] = entry[Other(n)]
        BY <1>1, <3>4, Ends
      <4>3. net' = (net \ {m}) \cup {Ack(n, hs)}
        BY <3>3, <3>5
      <4> QED
        BY <1>1, <1>6, <2>2, <2>7, <3>2, <3>4, <3>5, <4>1, <4>2, <4>3, RespondsOrderly
    <3> QED
      BY <3>4, <3>5
  <2> QED
    BY <2>5, <2>6, <2>7
<1> QED
  BY <1>4, <1>5, <1>6

\* Nothing the other end has given up is still on the way, or m would be late.
LEMMA NotLate ==
  ASSUME NEW n, NEW m, NEW repeated, Handled(n, m, repeated), AllOrderly, ~ Overtakes(m),
         m.type \in {"ack", "msg3"}, NEW o \in net, o.type = "setup", o.from = Other(n),
         entry[Other(n)] # None => entry[Other(n)].rekey = None,
         ~ Has(Other(n), "initiating")
  PROVE  FALSE
<1>1. m.from = Other(n)
  BY HandledOrderly
<1>2. Awaited(o)
  BY <1>1 DEF Overtakes
<1>3. entry[Other(n)].rekey = o.hs /\ entry[Other(n)] # None
  BY <1>2 DEF Awaited, Has
<1>4. o.hs \in Handshake
  BY DatagramFields DEF Handled, Typed, TypeOK
<1> QED
  BY <1>3, <1>4, NoneIsNothing

\* n, which initiated the handshake, reads the answer to it.
LEMMA CompletesOrderly ==
  ASSUME NEW n, NEW m, Handled(n, m, FALSE), AllOrderly, ~ Overtakes(m),
         m.type = "ack", Has(n, "initiating"), NEW frames,
         \A o \in frames : o.type = "frame",
         entry'[n] # None, entry'[n].state = "established", entry'[n].rekey = None,
         entry'[Other(n)] = entry[Other(n)],
         \A q \in Node \ {n} : queue'[q] = queue[q], lookup' = lookup,
         net' = (net \ {m}) \cup ({Msg3(n, m.hs)} \cup frames)
  PROVE  AllOrderly'
<1> DEFINE p == Other(n)
<1>0. n \in Node /\ p \in Node /\ Other(p) = n /\ p # n /\ \A q \in Node : q = n \/ q = p
  BY Ends DEF Handled
<1>1. Orderly(n, p) /\ Orderly(p, n) /\ Justified(p, n, m) /\ m.from = p
  BY HandledOrderly
<1>2. ~ Has(n, "awaiting") /\ ~ IsEstablished(n) /\ ~ IsEstablished(p)
  BY <1>1 DEF Orderly, IsEstablished, Has
<1>3. Has(p, "awaiting") /\ entry[p].hs = m.hs
  BY <1>1, <1>2 DEF Justified, AckJustified
<1>4. entry[p].rekey = None
  BY <1>0, <1>3 DEF Handled, Typed, EntriesOK, Shaped, Has
<1>5. \A o \in net : o.from = p => o.type # "setup"
  BY <1>3, <1>4, NotLate DEF Has
<1>6. /\ IsEstablished(n)' /\ ~ Has(n, "awaiting")' /\ Has(p, "awaiting")'
      /\ ~ IsEstablished(p)' /\ entry'[p].hs = m.hs
  BY <1>2, <1>3 DEF Has, IsEstablished
<1>7. m.hs \in Session
  BY DatagramFields DEF Handled, Typed, TypeOK
<1>8. /\ Msg3(n, m.hs).type = "msg3" /\ Msg3(n, m.hs).from = n /\ Msg3(n, m.hs).hs = m.hs
      /\ Msg3(n, m.hs) \in net'
  BY <1>0, <1>7, Datagrams
<1>9. AwaitsAnswer(n, p)'
  BY <1>6, <1>8 DEF AwaitsAnswer, Msg3
<1>10. ASSUME NEW o \in net', o.from = n
       PROVE  Justified(n, p, o)'
  <2>1. CASE o \in net
    <3>1. o.type # "msg3"
      BY <1>1, <1>2, <1>10, <2>1 DEF Orderly, Justified, Msg3Justified
    <3> QED
      BY <1>6, <3>1 DEF Justified, SetupJustified, AckJustified
  <2>2. CASE o = Msg3(n, m.hs)
    BY <1>6, <1>8, <2>2 DEF Justified, Msg3Justified
  <2>3. CASE o \in frames
    BY <2>3 DEF Justified
  <2> QED
    BY <2>1, <2>2, <2>3
<1>11. ASSUME NEW o \in net', o.from = p
       PROVE  Justified(p, n, o)'
  <2>1. CASE o \in net
    <3>1. o.type # "msg3" /\ (o.type = "ack" => o.hs = entry[p].hs)
      BY <1>1, <1>2, <1>11, <2>1 DEF Orderly, Justified, Msg3Justified, AckJustified
    <3> QED
      BY <1>3, <1>5, <1>6, <1>11, <2>1, <3>1 DEF Justified, AckJustified
  <2>2. CASE o \in frames
    BY <2>2 DEF Justified
  <2> QED
    BY <1>0, <1>8, <1>11, <2>1, <2>2
<1>12. Orderly(n, p)'
  BY <1>1, <1>6, <1>9, <1>10 DEF Orderly
<1>13. Orderly(p, n)'
  BY <1>0, <1>1, <1>6, <1>11 DEF Orderly
<1> QED
  BY <1>0, <1>12, <1>13 DEF AllOrderly

LEMMA HandleSessionAckKeeps ==
  ASSUME NEW n, NEW m, NEW repeated, NEW noRoute \in BOOLEAN, Handled(n, m, repeated),
         HandleSessionAck(n, m, repeated, noRoute)
  PROVE  Typed' /\ (AllOrderly /\ ~ repeated /\ ~ noRoute /\ ~ Overtakes(m) => AllOrderly')
<1> DEFINE e == entry[n]
<1>1. /\ m.type = "ack" /\ lookup' = lookup
      /\ n \in Node /\ Typed /\ faults' \subseteq Kind
  BY DEF HandleSessionAck, Handled
<1>2. m \in Datagram /\ m.hs \in Session
  BY <1>1, DatagramFields DEF Handled, Typed, TypeOK
<1>3. /\ Msg3(n, m.hs) \in Datagram /\ Msg3(n, m.hs).type = "msg3"
      /\ Msg3(n, m.hs).from = n /\ Msg3(n, m.hs).hs = m.hs
  BY <1>1, <1>2, Datagrams
<1>4. CASE IsEstablished(n) /\ e.rekey # None /\ e.initiator
  <2>1. Shaped(e) /\ e.state = "established" /\ ~ Has(n, "initiating") /\ queue' = queue
    BY <1>1, <1>4, EstablishedEntry DEF HandleSessionAck, IsEstablished, Has
  <2>2. CASE e.rekey.i # m.hs.i \/ noRoute
    <3>1. SetEntry(n, AbandonRekey(e)) /\ Take(m, repeated, {})
      BY <1>4, <2>2 DEF HandleSessionAck
    <3>2. Continues(e, AbandonRekey(e))
      BY <2>1, AbandonContinues
    <3>3. /\ Shaped(AbandonRekey(e)) /\ AbandonRekey(e) # None
          /\ AbandonRekey(e).state = "established" /\ Alike(n, AbandonRekey(e))
      BY <1>1, <1>4, <3>2, ContinuesAlike DEF Continues
    <3>4. Kept
      BY <1>1, <1>4, <2>1, <3>1, <3>3, HandledContinues
    <3> QED
      BY <3>4 DEF Kept
  <2>3. CASE ~ (e.rekey.i # m.hs.i \/ noRoute)
    <3> DEFINE f == SetPendingSession(e, m.hs)
    <3>1. SetEntry(n, f) /\ Take(m, repeated, {Msg3(n, m.hs)})
      BY <1>4, <2>3 DEF HandleSessionAck
    <3>2. Continues(e, f)
      BY <1>2, <2>1, SetPendingContinues
    <3> HIDE DEF f
    <3>3. Shaped(f) /\ f # None /\ f.state = "established" /\ Alike(n, f)
      BY <1>1, <1>4, <3>2, ContinuesAlike DEF Continues
    <3>4. ASSUME AllOrderly
          PROVE  Justified(n, Other(n), Msg3(n, m.hs))
      <4>1. Orderly(n, Other(n))
        BY <3>4, HandledOrderly
      <4>2. ~ Has(Other(n), "awaiting")
        BY <1>4, <2>1, <4>1 DEF Orderly, AwaitsAnswer, Initiating
      <4> QED
        BY <1>3, <1>4, <4>2 DEF Justified, Msg3Justified
    <3>5. Kept
      BY <1>1, <1>3, <1>4, <2>1, <3>1, <3>3, <3>4, HandledContinues
    <3> QED
      BY <3>5 DEF Kept
  <2> QED
    BY <2>2, <2>3
<1>5. CASE ~ (IsEstablished(n) /\ e.rekey # None /\ e.initiator) /\ ~ Has(n, "initiating")
  <2>1. UNCHANGED <<entry, queue>> /\ Take(m, repeated, {})
    BY <1>5 DEF HandleSessionAck
  <2>2. ~ Needed(m)
    <3>1. Other(m.from) = n
      BY <2>1, Handling
    <3> QED
      BY <1>1, <1>5, <3>1 DEF Needed
  <2>3. Kept
    BY <1>1, <2>1, <2>2, HandledSame
  <2> QED
    BY <2>3 DEF Kept
<1>6. CASE Has(n, "initiating") /\ (e.hs.i # m.hs.i \/ noRoute)
  <2>1. SetEntry(n, None) /\ queue' = queue /\ Take(m, repeated, {})
    BY <1>6 DEF HandleSessionAck, IsEstablished, Has
  <2>2. net' \subseteq Datagram
    BY <2>1, Handling
  <2>3. Typed'
    BY <1>1, <2>1, <2>2, TypedStep DEF Typed, TypeOK
  <2>4. ASSUME AllOrderly, ~ noRoute
        PROVE  FALSE
    <3>1. Orderly(n, Other(n)) /\ Orderly(Other(n), n) /\ Justified(Other(n), n, m)
      BY <2>4, HandledOrderly
    <3>2. ~ IsEstablished(n) /\ ~ Has(n, "awaiting")
      BY <1>6 DEF IsEstablished, Has
    <3>3. Has(Other(n), "awaiting") /\ entry[Other(n)].hs = m.hs
      BY <1>1, <3>1, <3>2 DEF Orderly, Justified, AckJustified
    <3> QED
      BY <1>6, <2>4, <3>1, <3>2, <3>3 DEF Orderly, AwaitsAnswer, Initiating
  <2> QED
    BY <2>3, <2>4
<1>7. CASE Has(n, "initiating") /\ ~ (e.hs.i # m.hs.i \/ noRoute)
  <2> DEFINE done == NewSession(m.hs)
  <2>1. /\ SetEntry(n, done) /\ Flush(n, done)
        /\ Take(m, repeated, {Msg3(n, m.hs)} \cup Flushed(n, done))
    BY <1>7 DEF HandleSessionAck, IsEstablished, Has
  <2>2. Shaped(done) /\ done # None /\ done.state = "established" /\ done.rekey = None
    BY <1>2, NewSessionShape
  <2> HIDE DEF done
  <2>3. /\ Flushed(n, done) \subseteq Datagram
        /\ \A o \in Flushed(n, done) : o.type = "frame"
    BY <1>1, <2>2, FlushedFrames
  <2> DEFINE sent == {Msg3(n, m.hs)} \cup Flushed(n, done)
  <2>4. sent \subseteq Datagram /\ Take(m, repeated, sent)
    BY <1>3, <2>1, <2>3
  <2>5. net' \subseteq Datagram /\ (~ repeated => net' = (net \ {m}) \cup sent)
    <3> HIDE DEF sent
    <3> QED
      BY <2>4, Handling
  <2>6. /\ queue' \in [Node -> 0 .. MaxQueue] /\ queue'[n] = 0
        /\ \A q \in Node \ {n} : queue'[q] = queue[q]
    BY <1>1, <2>1, BoundAssumption DEF Flush, Typed, TypeOK
  <2>7. Typed' /\ entry'[n] = done /\ \A q \in Node \ {n} : entry'[q] = entry[q]
    BY <1>1, <2>1, <2>2, <2>5, <2>6, TypedStep DEF Typed, TypeOK
  <2>8. ASSUME AllOrderly, ~ repeated, ~ Overtakes(m)
        PROVE  AllOrderly'
    <3>1. Handled(n, m, FALSE)
      BY DEF Handled
    <3>2. entry'[Other(n)] = entry[Other(n)]
      BY <1>1, <2>7, Ends
    <3>3. net' = (net \ {m}) \cup ({Msg3(n, m.hs)} \cup Flushed(n, done))
      BY <2>5, <2>8
    <3> QED
      BY <1>1, <1>7, <2>2, <2>3, <2>6, <2>7, <2>8, <3>1, <3>2, <3>3, CompletesOrderly
  <2> QED
    BY <2>7, <2>8
<1> QED
  BY <1>4, <1>5, <1>6, <1>7

\* n, the responder of the handshake, reads the end of it.
LEMMA EstablishesOrderly ==
  ASSUME NEW n, NEW m, Handled(n, m, FALSE), AllOrderly, ~ Overtakes(m),
         m.type = "msg3", Has(n, "awaiting"), NEW frames,
         \A o \in frames : o.type = "frame",
         entry'[n] # None, entry'[n].state = "established", entry'[n].rekey = None,
         entry'[Other(n)] = entry[Other(n)],
         \A q \in Node \ {n} : queue'[q] = queue[q], lookup' = lookup,
         net' = (net \ {m}) \cup frames
  PROVE  AllOrderly'
<1> DEFINE p == Other(n)
<1>0. n \in Node /\ p \in Node /\ Other(p) = n /\ p # n /\ \A q \in Node : q = n \/ q = p
  BY Ends DEF Handled
<1>1. Orderly(n, p) /\ Orderly(p, n) /\ Justified(p, n, m) /\ m.from = p
  BY HandledOrderly
<1>2. IsEstablished(p) /\ entry[p].rekey = None
  BY <1>1 DEF Orderly, AwaitsAnswer, Initiating, Justified, Msg3Justified, IsEstablished, Has
<1>3. ~ Has(n, "initiating") /\ ~ IsEstablished(n) /\ ~ Has(p, "awaiting") /\ ~ Has(p, "initiating")
  BY <1>2 DEF IsEstablished, Has
<1>4. \A o \in net : o.from = p => o.type # "setup"
  BY <1>2, <1>3, NotLate
<1>5. /\ IsEstablished(n)' /\ ~ Has(n, "awaiting")' /\ ~ Has(p, "awaiting")' /\ IsEstablished(p)'
  BY <1>2, <1>3 DEF Has, IsEstablished
<1>6. ASSUME NEW o \in net', o.from = n
      PROVE  Justified(n, p, o)'
  <2>1. CASE o \in net
    <3>1. o.type # "setup"
      BY <1>1, <1>3, <1>6, <2>1 DEF Orderly, Justified, SetupJustified, Initiating
    <3> QED
      BY <1>5, <3>1 DEF Justified, AckJustified, Msg3Justified
  <2>2. CASE o \in frames
    BY <2>2 DEF Justified
  <2> QED
    BY <2>1, <2>2
<1>7. ASSUME NEW o \in net', o.from = p
      PROVE  Justified(p, n, o)'
  <2>1. CASE o \in net
    BY <1>4, <1>5, <1>7, <2>1 DEF Justified, AckJustified, Msg3Justified
  <2>2. CASE o \in frames
    BY <2>2 DEF Justified
  <2> QED
    BY <2>1, <2>2
<1>8. Orderly(n, p)'
  BY <1>1, <1>5, <1>6 DEF Orderly
<1>9. Orderly(p, n)'
  BY <1>0, <1>1, <1>5, <1>7 DEF Orderly
<1> QED
  BY <1>0, <1>8, <1>9 DEF AllOrderly

LEMMA HandleSessionMsg3Keeps ==
  ASSUME NEW n, NEW m, NEW repeated, Handled(n, m, repeated),
         HandleSessionMsg3(n, m, repeated)
  PROVE  Typed' /\ (AllOrderly /\ ~ repeated /\ ~ Overtakes(m) => AllOrderly')
<1> DEFINE e == entry[n]
<1>1. /\ m.type = "msg3" /\ lookup' = lookup
      /\ n \in Node /\ Typed /\ faults' \subseteq Kind
  BY DEF HandleSessionMsg3, Handled
<1>2. m \in Datagram /\ m.hs \in Session
  BY <1>1, DatagramFields DEF Handled, Typed, TypeOK
<1>3. CASE IsEstablished(n) /\ e.rekey # None /\ ~ e.initiator
  <2> DEFINE f == IF e.rekey = m.hs THEN SetPendingSession(e, m.hs) ELSE AbandonRekey(e)
  <2>1. /\ SetEntry(n, f) /\ queue' = queue /\ Take(m, repeated, {})
    BY <1>3 DEF HandleSessionMsg3
  <2>2. Shaped(e) /\ e.state = "established"
    BY <1>1, <1>3, EstablishedEntry
  <2>3. Continues(e, f)
    BY <1>2, <2>2, SetPendingContinues, AbandonContinues
  <2> HIDE DEF f
  <2>4. Shaped(f) /\ f # None /\ f.state = "established" /\ Alike(n, f)
    BY <1>1, <1>3, <2>3, ContinuesAlike DEF Continues
  <2>5. Kept
    BY <1>1, <1>3, <2>1, <2>4, HandledContinues
  <2> QED
    BY <2>5 DEF Kept
<1>4. CASE ~ (IsEstablished(n) /\ e.rekey # None /\ ~ e.initiator) /\ ~ Has(n, "awaiting")
  <2>1. UNCHANGED <<entry, queue>> /\ Take(m, repeated, {})
    BY <1>4 DEF HandleSessionMsg3
  <2>2. ~ Needed(m)
    <3>1. Other(m.from) = n
      BY <2>1, Handling
    <3> QED
      BY <1>1, <1>4, <3>1 DEF Needed
  <2>3. Kept
    BY <1>1, <2>1, <2>2, HandledSame
  <2> QED
    BY <2>3 DEF Kept
<1>5. CASE Has(n, "awaiting") /\ e.hs # m.hs
  <2>1. SetEntry(n, None) /\ queue' = queue /\ Take(m, repeated, {})
    BY <1>5 DEF HandleSessionMsg3, IsEstablished, Has
  <2>2. net' \subseteq Datagram
    BY <2>1, Handling
  <2>3. Typed'
    BY <1>1, <2>1, <2>2, TypedStep DEF Typed, TypeOK
  <2>4. ASSUME AllOrderly
        PROVE  FALSE
    <3>1. Justified(Other(n), n, m)
      BY <2>4, HandledOrderly
    <3> QED
      BY <1>1, <1>5, <3>1 DEF Justified, Msg3Justified
  <2> QED
    BY <2>3, <2>4
<1>6. CASE Has(n, "awaiting") /\ e.hs = m.hs
  <2> DEFINE done == NewSession(m.hs)
  <2>1. /\ SetEntry(n, done) /\ Flush(n, done)
        /\ Take(m, repeated, Flushed(n, done))
    BY <1>6 DEF HandleSessionMsg3, IsEstablished, Has
  <2>2. Shaped(done) /\ done # None /\ done.state = "established" /\ done.rekey = None
    BY <1>2, NewSessionShape
  <2> HIDE DEF done
  <2>3. /\ Flushed(n, done) \subseteq Datagram
        /\ \A o \in Flushed(n, done) : o.type = "frame"
    BY <1>1, <2>2, FlushedFrames
  <2>4. net' \subseteq Datagram /\ (~ repeated => net' = (net \ {m}) \cup Flushed(n, done))
    BY <2>1, <2>3, Handling
  <2>5. /\ queue' \in [Node -> 0 .. MaxQueue] /\ queue'[n] = 0
        /\ \A q \in Node \ {n} : queue'[q] = queue[q]
    BY <1>1, <2>1, BoundAssumption DEF Flush, Typed, TypeOK
  <2>6. Typed' /\ entry'[n] = done /\ \A q \in Node \ {n} : entry'[q] = entry[q]
    BY <1>1, <2>1, <2>2, <2>4, <2>5, TypedStep DEF Typed, TypeOK
  <2>7. ASSUME AllOrderly, ~ repeated, ~ Overtakes(m)
        PROVE  AllOrderly'
    <3>1. Handled(n, m, FALSE)
      BY DEF Handled
    <3>2. entry'[Other(n)] = entry[Other(n)]
      BY <1>1, <2>6, Ends
    <3>3. net' = (net \ {m}) \cup Flushed(n, done)
      BY <2>4, <2>7
    <3> QED
      BY <1>1, <1>6, <2>2, <2>3, <2>5, <2>6, <2>7, <3>1, <3>2, <3>3, EstablishesOrderly
  <2> QED
    BY <2>6, <2>7
<1> QED
  BY <1>3, <1>4, <1>5, <1>6

\* A datagram is handled in one of three ways: without a route for the answer, once,
\* or once more.
LEMMA HandledKeeps ==
  ASSUME NEW n, NEW m, NEW repeated \in BOOLEAN, NEW noRoute \in BOOLEAN,
         Handled(n, m, repeated), Bounded,
         faults' \subseteq Bearable =>
           faults \subseteq Bearable /\ ~ repeated /\ ~ noRoute /\ ~ Overtakes(m),
         \/ HandleSessionSetup(n, m, repeated, noRoute) \/ HandleSessionAck(n, m, repeated, noRoute)
         \/ HandleSessionMsg3(n, m, repeated) \/ HandleEncryptedSessionMsg(n, m, repeated)
  PROVE  Typed' /\ Bounded'
<1>1. CASE HandleSessionSetup(n, m, repeated, noRoute)
  BY <1>1, HandleSessionSetupKeeps DEF Bounded
<1>2. CASE HandleSessionAck(n, m, repeated, noRoute)
  BY <1>2, HandleSessionAckKeeps DEF Bounded
<1>3. CASE HandleSessionMsg3(n, m, repeated)
  BY <1>3, HandleSessionMsg3Keeps DEF Bounded
<1>4. CASE HandleEncryptedSessionMsg(n, m, repeated)
  BY <1>4, HandleEncryptedSessionMsgKeeps DEF Bounded, Kept
<1> QED
  BY <1>1, <1>2, <1>3, <1>4

LEMMA ReceiveKeeps ==
  ASSUME Typed, Bounded, NEW n \in Node, NEW m \in net, Receive(n, m)
  PROVE  Typed' /\ Bounded'
<1>0. m.from # n /\ faults \subseteq Kind
  BY DEF Receive, Typed, TypeOK
<1>1. CASE /\ Spend("noroute", TRUE)
           /\ HandleSessionSetup(n, m, FALSE, TRUE) \/ HandleSessionAck(n, m, FALSE, TRUE)
  <2>1. /\ faults' \subseteq Kind
        /\ faults' \subseteq Bearable => "noroute" \in Bearable
    BY <1>0, <1>1, SpendFault
  <2>2. ~ (faults' \subseteq Bearable)
    BY <2>1 DEF Bearable
  <2>3. Handled(n, m, FALSE)
    BY <1>0, <2>1 DEF Handled
  <2> QED
    BY <1>1, <2>2, <2>3, HandledKeeps
<1>2. CASE /\ Spend("late", Overtakes(m))
           /\ \/ HandleSessionSetup(n, m, FALSE, FALSE) \/ HandleSessionAck(n, m, FALSE, FALSE)
              \/ HandleSessionMsg3(n, m, FALSE) \/ HandleEncryptedSessionMsg(n, m, FALSE)
  <2>1. Overtakes(m) \in BOOLEAN
    BY DEF Overtakes
  <2>2. /\ faults' \subseteq Kind
        /\ faults' \subseteq Bearable =>
             faults \subseteq Bearable /\ (Overtakes(m) => "late" \in Bearable)
    BY <1>0, <1>2, <2>1, SpendBearable
  <2>3. faults' \subseteq Bearable => faults \subseteq Bearable /\ ~ Overtakes(m)
    BY <2>2 DEF Bearable
  <2>4. Handled(n, m, FALSE)
    BY <1>0, <2>2 DEF Handled
  <2> QED
    BY <1>2, <2>3, <2>4, HandledKeeps
<1>3. CASE /\ Spend("repeat", TRUE)
           /\ \/ HandleSessionSetup(n, m, TRUE, FALSE) \/ HandleSessionAck(n, m, TRUE, FALSE)
              \/ HandleSessionMsg3(n, m, TRUE) \/ HandleEncryptedSessionMsg(n, m, TRUE)
  <2>1. /\ faults' \subseteq Kind
        /\ faults' \subseteq Bearable => "repeat" \in Bearable
    BY <1>0, <1>3, SpendFault
  <2>2. ~ (faults' \subseteq Bearable)
    BY <2>1 DEF Bearable
  <2>3. Handled(n, m, TRUE)
    BY <1>0, <2>1 DEF Handled
  <2> QED
    BY <1>3, <2>2, <2>3, HandledKeeps
<1> QED
  BY <1>1, <1>2, <1>3 DEF Receive

-----------------------------------------------------------------------------
(* The invariant.                                                          *)

LEMMA InitInv == Init => IndInv
<1> SUFFICES ASSUME Init PROVE IndInv
  OBVIOUS
<1>1. \A n \in Node : ~ IsEstablished(n) /\ ~ Has(n, "awaiting") /\ ~ lookup[n] /\ queue[n] = 0
  BY DEF Init, IsEstablished, Has
<1>2. Typed
  <2>1. TypeOK
    BY BoundAssumption DEF Init, TypeOK
  <2> QED
    BY <1>1, <2>1 DEF Init, Typed, EntriesOK, NothingBehind
<1>3. AllOrderly
  BY <1>1, Ends DEF Init, AllOrderly, Orderly
<1> QED
  BY <1>2, <1>3 DEF IndInv, Bounded

LEMMA NextInv == IndInv /\ [Next]_vars => IndInv'
<1> SUFFICES ASSUME Typed, Bounded, [Next]_vars PROVE Typed' /\ Bounded'
  BY DEF IndInv
<1>1. ASSUME NEW n \in Node, HandleTunOutbound(n) PROVE Typed' /\ Bounded'
  BY <1>1, HandleTunOutboundKeeps
<1>2. ASSUME NEW n \in Node, SendFrame(n) PROVE Typed' /\ Bounded'
  BY <1>2, SendFrameKeeps
<1>3. ASSUME NEW n \in Node, HandleErrorSignal(n) PROVE Typed' /\ Bounded'
  BY <1>3, HandleErrorSignalKeeps
<1>4. ASSUME NEW n \in Node, LookupAnswered(n) PROVE Typed' /\ Bounded'
  BY <1>4, LookupAnsweredKeeps
<1>5. ASSUME NEW n \in Node, LookupTimedOut(n) PROVE Typed' /\ Bounded'
  BY <1>5, LookupTimedOutKeeps
<1>6. ASSUME NEW n \in Node, TimeoutHandshake(n) PROVE Typed' /\ Bounded'
  BY <1>6, TimeoutHandshakeKeeps
<1>7. ASSUME NEW n \in Node, ResendHandshake(n) PROVE Typed' /\ Bounded'
  BY <1>7, ResendHandshakeKeeps
<1>8. ASSUME NEW n \in Node, Cutover(n) PROVE Typed' /\ Bounded'
  BY <1>8, CutoverKeeps
<1>9. ASSUME NEW n \in Node, Drain(n) PROVE Typed' /\ Bounded'
  BY <1>9, DrainKeeps
<1>10. ASSUME NEW n \in Node, Rekey(n) PROVE Typed' /\ Bounded'
  BY <1>10, RekeyKeeps
<1>11. ASSUME NEW n \in Node, Forget(n) PROVE Typed' /\ Bounded'
  BY <1>11, ForgetKeeps
<1>12. ASSUME NEW n \in Node, NEW m \in net, Receive(n, m) PROVE Typed' /\ Bounded'
  BY <1>12, ReceiveKeeps
<1>13. ASSUME NEW m \in net, Lose(m) PROVE Typed' /\ Bounded'
  BY <1>13, LoseKeeps
<1>14. CASE UNCHANGED vars
  <2>1. /\ entry' = entry /\ queue' = queue /\ lookup' = lookup /\ net' = net
        /\ faults' = faults
    BY <1>14 DEF vars
  <2>2. Typed'
    BY <2>1, TypedSame DEF Typed, TypeOK, NothingBehind
  <2>3. AllOrderly => AllOrderly'
    BY <2>1, QuietStep, SameEntry
  <2> QED
    BY <2>1, <2>2, <2>3 DEF Bounded
<1> QED
  BY <1>1, <1>2, <1>3, <1>4, <1>5, <1>6, <1>7, <1>8, <1>9, <1>10, <1>11, <1>12, <1>13, <1>14
     DEF Next

\* The entry, the queue and every datagram keep their types, whatever is lost, repeated
\* or late: no entry is resent more often than handshake_max_resends, and no queue
\* exceeds pending_packets_per_dest.
THEOREM TypeCorrect == Spec => []TypeOK
<1>1. IndInv => TypeOK
  BY DEF IndInv, Typed
<1> QED
  BY <1>1, InitInv, NextInv, PTL DEF Spec

\* flush_pending_packets leaves nothing behind an established session, under any
\* faults; and while no more than setups and frames are lost, packets that wait have
\* a handshake under way: no answer that a handler cannot read removes the entry
\* (handle_session_ack, handle_session_msg3) they wait for.
THEOREM PacketsKeepTheirHandshake == Spec => []NothingStranded
<1>1. IndInv => NothingStranded
  <2> SUFFICES ASSUME IndInv, NEW n \in Node
               PROVE  /\ IsEstablished(n) => queue[n] = 0
                      /\ faults \subseteq Bearable /\ queue[n] > 0
                           => entry[n] # None \/ lookup[n]
    BY DEF NothingStranded, Bearable
  <2>1. IsEstablished(n) => queue[n] = 0
    BY DEF IndInv, Typed, NothingBehind
  <2>2. queue[n] > 0 => queue[n] # 0
    BY DEF IndInv, Typed, TypeOK
  <2>3. faults \subseteq Bearable /\ queue[n] # 0 => entry[n] # None
    BY DEF IndInv, Bounded, AllOrderly, Orderly
  <2> QED
    BY <2>1, <2>2, <2>3
<1> QED
  BY <1>1, InitInv, NextInv, PTL DEF Spec

-----------------------------------------------------------------------------
(* The two ends of a session, step by step.                                *)
(*                                                                         *)
(* While nothing worse happens than a lost setup, answer or frame, an      *)
(* overtaken setup or a missing route (Harmless), the two ends go through  *)
(* five phases together: no session yet (Opening), one end has sent msg3   *)
(* (Half), both are on one session (Calm), the initiator of a rekey has    *)
(* the next session too (Ready), it has cut over and the other has not     *)
(* read anything on the new session (Lead), and Calm again.                *)

Rekeying(n) == entry[n].rekey # None /\ entry[n].initiator
Both(n, o) == IsEstablished(n) /\ IsEstablished(o)

Opening ==
  /\ \A n \in Node : ~ IsEstablished(n)
  /\ \A m \in net : /\ m.type \in {"setup", "ack"}
                    /\ m.type = "ack" => Has(m.from, "awaiting") /\ entry[m.from].hs = m.hs

\* n has sent msg3, and o has not read it.
Half(n, o) ==
  LET e == entry[n]
  IN  /\ IsEstablished(n) /\ Has(o, "awaiting") /\ entry[o].hs = e.cur
      /\ e.prev = None /\ e.pending = None /\ e.k = FALSE /\ ~ Rekeying(n)
      /\ Msg3(n, e.cur) \in net
      /\ \A m \in net : /\ m.type = "msg3" => m = Msg3(n, e.cur)
                        /\ m.type = "frame" => m.from = n /\ m.hs = e.cur /\ m.k = FALSE

Current(e, m) == m.hs = e.cur /\ m.k = e.k
AllCurrent(e) == \A m \in net : m.type = "frame" => Current(e, m)

\* A rekey of n is under way: the setup is the only one of n, and its answer is what
\* o, the responder, keeps.
Asks(n, o) ==
  LET e == entry[n] f == entry[o]
  IN  /\ e.rekey.r = None /\ e.rekey.i # e.cur.i /\ AllCurrent(e)
      /\ \A m \in net :
           /\ m.type = "setup" /\ m.from = n => m.hs = e.rekey
           /\ m.type = "ack" /\ m.from = o /\ m.hs.i = e.rekey.i =>
                /\ f.rekey = m.hs /\ ~ f.initiator
                /\ \A l \in net : l.type = "setup" => l.from = o

Same(e, f) == e.cur = f.cur /\ e.k = f.k

\* Both are on one session; frames of the one before it can still be read.
Calm(n, o) ==
  LET e == entry[n] f == entry[o]
  IN  /\ Same(e, f) /\ e.pending = None /\ f.pending = None
      /\ \A m \in net :
           /\ m.type # "msg3"
           /\ m.type = "frame" =>
                Current(e, m) \/ (m.hs # e.cur /\ m.hs = entry[Other(m.from)].prev)
      /\ Rekeying(n) => Asks(n, o)
      /\ Rekeying(o) => Asks(o, n)

\* n, the initiator, has the next session; o has it too once it has read msg3.
Ready(n, o) ==
  LET e == entry[n] f == entry[o]
  IN  /\ Same(e, f) /\ e.pending \notin {None, e.cur} /\ e.rekey = None
      /\ e.initiator /\ ~ f.initiator
      /\ AllCurrent(e)
      /\ \/ /\ f.rekey = e.pending /\ f.pending = None /\ Msg3(n, e.pending) \in net
            /\ \A m \in net : /\ m.type = "msg3" => m = Msg3(n, e.pending)
                              /\ m.type = "setup" => m.from = o
         \/ /\ f.rekey = None /\ f.pending = e.pending
            /\ \A m \in net : m.type # "msg3"

\* n has cut over; o still sends on the session that n drains.
Lead(n, o) ==
  LET e == entry[n] f == entry[o]
  IN  /\ e.cur = f.pending /\ e.prev = f.cur /\ e.k # f.k /\ e.cur # f.cur
      /\ e.pending = None /\ f.rekey = None /\ ~ f.initiator /\ ~ Rekeying(n)
      /\ \A m \in net : /\ m.type # "msg3"
                        /\ m.type = "frame" => Current(f, m) \/ (m.from = n /\ Current(e, m))

Phase(n, o) ==
  \/ Opening
  \/ Half(n, o) \/ Half(o, n)
  \/ Both(n, o) /\ (Calm(n, o) \/ Ready(n, o) \/ Ready(o, n) \/ Lead(n, o) \/ Lead(o, n))

Coupled == faults \subseteq Harmless => \E n \in Node : Phase(n, Other(n))

LEMMA PhaseOf ==
  ASSUME NEW a \in Node, \E n \in Node : Phase(n, Other(n))
  PROVE  Phase(a, Other(a))
<1> PICK n \in Node : Phase(n, Other(n))
  OBVIOUS
<1>1. CASE n = a
  BY <1>1
<1>2. CASE n = Other(a)
  <2>1. Other(n) = a
    BY <1>2, Ends
  <2>2. Calm(n, a) => Calm(a, n)
    BY DEF Calm, Same, Current
  <2> QED
    BY <1>2, <2>1, <2>2 DEF Phase, Both
<1> QED
  BY <1>1, <1>2, Ends

\* What an end sends without changing its entry.
Ordinary(m) ==
  \/ m.type = "frame" /\ IsEstablished(m.from) /\ Current(entry[m.from], m)
  \/ m.type = "ack" /\ Has(m.from, "awaiting") /\ m.hs = entry[m.from].hs
  \/ m.type = "setup" /\ Has(m.from, "initiating")

\* The entry of q keeps what the phases tell apart.
Stays(q) ==
  \/ entry'[q] = entry[q]
  \/ /\ entry[q] # None /\ ~ IsEstablished(q)
     /\ entry'[q] # None /\ entry'[q].state = entry[q].state /\ entry'[q].hs = entry[q].hs

LEMMA PhaseStays ==
  ASSUME Typed, NEW a \in Node, Phase(a, Other(a)), \A q \in Node : Stays(q),
         \A m \in net' \ net : m.from \in Node /\ Ordinary(m),
         \A m \in net \ net' : m.type # "msg3"
  PROVE  Phase(a, Other(a))'
<1> DEFINE b == Other(a)
<1> DEFINE sent == net' \ net
<1>0. b \in Node /\ Other(b) = a /\ a # b /\ \A q \in Node : q = a \/ q = b
  BY Ends
<1>1. ASSUME NEW q \in Node
      PROVE  /\ \A s : Has(q, s)' <=> Has(q, s)
             /\ IsEstablished(q)' <=> IsEstablished(q)
             /\ IsEstablished(q) => entry'[q] = entry[q]
             /\ ~ IsEstablished(q) /\ entry[q] # None => entry'[q].hs = entry[q].hs
  <2>1. Stays(q)
    OBVIOUS
  <2>2. CASE entry'[q] = entry[q]
    BY <2>2 DEF Has, IsEstablished
  <2>3. CASE entry'[q] # entry[q]
    BY <2>1, <2>3 DEF Has, IsEstablished, Stays
  <2> QED
    BY <2>2, <2>3
<1>2. \A m \in net : m.from \in Node
  BY DatagramFields DEF Typed, TypeOK
<1>3. ASSUME NEW m \in sent
      PROVE  /\ m.type # "msg3" /\ m.from \in Node
             /\ m.type = "frame" => IsEstablished(m.from) /\ Current(entry[m.from], m)
             /\ m.type = "ack" => Has(m.from, "awaiting") /\ m.hs = entry[m.from].hs
             /\ m.type = "setup" => Has(m.from, "initiating")
             /\ m.type \in {"setup", "ack", "frame"}
  BY DEF Ordinary
<1>4. \A m : m \in net' => m \in net \/ m \in sent
  OBVIOUS
<1>5. ASSUME Opening
      PROVE  Opening'
  <2>1. ASSUME NEW m \in net'
        PROVE  /\ m.type \in {"setup", "ack"}
               /\ m.type = "ack" => Has(m.from, "awaiting")' /\ entry'[m.from].hs = m.hs
    <3>1. /\ m.type \in {"setup", "ack"} /\ m.from \in Node
          /\ m.type = "ack" => Has(m.from, "awaiting") /\ entry[m.from].hs = m.hs
      BY <1>2, <1>3, <1>4, <1>5 DEF Opening
    <3> QED
      BY <3>1, <1>1, <1>5 DEF Opening, Has
  <2> QED
    BY <1>1, <1>5, <2>1 DEF Opening
<1>6. ASSUME NEW n \in Node, NEW o \in Node, n # o, Half(n, o)
      PROVE  Half(n, o)'
  <2>1. /\ IsEstablished(n) /\ Has(o, "awaiting") /\ ~ IsEstablished(o) /\ entry[o] # None
        /\ entry'[n] = entry[n] /\ entry'[o].hs = entry[o].hs
    BY <1>1, <1>6 DEF Half, IsEstablished, Has
  <2>2. Msg3(n, entry[n].cur) \in net'
    BY <1>6 DEF Half, Msg3
  <2>3. \A q \in Node : q = n \/ q = o
    BY <1>0, <1>6
  <2>4. ASSUME NEW m \in net'
        PROVE  /\ m.type = "msg3" => m = Msg3(n, entry[n].cur)
               /\ m.type = "frame" => m.from = n /\ m.hs = entry[n].cur /\ m.k = FALSE
    BY <1>3, <1>4, <1>6, <2>1, <2>3 DEF Half, Current
  <2> QED
    BY <1>1, <1>6, <2>1, <2>2, <2>4 DEF Half, Rekeying
<1>7. ASSUME Both(a, b)
      PROVE  /\ entry'[a] = entry[a] /\ entry'[b] = entry[b] /\ Both(a, b)'
             /\ \A m \in sent : m.type = "frame" /\ m.from \in Node /\ Current(entry[m.from], m)
  BY <1>0, <1>1, <1>3, <1>7 DEF Both, IsEstablished, Has
<1>8. ASSUME Both(a, b), NEW n \in Node, NEW o \in Node, n # o, Same(entry[n], entry[o])
      PROVE  /\ Same(entry[n], entry[o])' /\ entry'[n] = entry[n] /\ entry'[o] = entry[o]
             /\ \A m \in sent : m.type = "frame" /\ Current(entry[n], m)
  BY <1>0, <1>7, <1>8 DEF Same, Current
<1>9. ASSUME Both(a, b), NEW n \in Node, NEW o \in Node, n # o, Same(entry[n], entry[o]), Asks(n, o)
      PROVE  Asks(n, o)'
  <2>1. /\ \A m \in net : m.type = "setup" /\ m.from = n => m.hs = entry[n].rekey
        /\ \A m \in net : m.type = "ack" /\ m.from = o /\ m.hs.i = entry[n].rekey.i =>
             /\ entry[o].rekey = m.hs /\ ~ entry[o].initiator
             /\ \A l \in net : l.type = "setup" => l.from = o
        /\ AllCurrent(entry[n]) /\ entry[n].rekey.r = None
        /\ entry[n].rekey.i # entry[n].cur.i
    BY <1>9 DEF Asks
  <2>2. \A m \in net' : m.type = "frame" => Current(entry[n], m)
    BY <1>4, <1>8, <1>9, <2>1 DEF AllCurrent
  <2>3. \A m \in net' : m.type # "frame" => m \in net
    BY <1>4, <1>8, <1>9
  <2> QED
    BY <1>8, <1>9, <2>1, <2>2, <2>3 DEF Asks, AllCurrent, Current
<1>10. ASSUME Both(a, b), Calm(a, b)
       PROVE  Calm(a, b)'
  <2>1. /\ Same(entry[a], entry[b]) /\ Same(entry[b], entry[a])
        /\ entry'[a] = entry[a] /\ entry'[b] = entry[b]
    BY <1>7, <1>10 DEF Calm, Same
  <2>2. \A m \in sent : m.type = "frame" /\ Current(entry[a], m)
    BY <1>0, <1>8, <1>10, <2>1
  <2>3. ASSUME NEW m \in net'
        PROVE  /\ m.type # "msg3"
               /\ m.type = "frame" => \/ Current(entry[a], m)
                                      \/ m.hs # entry[a].cur /\ m.hs = entry'[Other(m.from)].prev
    <3>1. CASE m \in sent
      BY <2>2, <3>1
    <3>2. CASE m \in net
      <4>1. Other(m.from) \in Node
        BY <1>2, <3>2, Ends
      <4>2. entry'[Other(m.from)] = entry[Other(m.from)]
        BY <1>0, <2>1, <4>1
      <4> QED
        BY <1>10, <3>2, <4>2 DEF Calm
    <3> QED
      BY <1>4, <3>1, <3>2
  <2>4. (Rekeying(a) => Asks(a, b)') /\ (Rekeying(b) => Asks(b, a)')
    <3>1. (Rekeying(a) => Asks(a, b)) /\ (Rekeying(b) => Asks(b, a))
      BY <1>10 DEF Calm
    <3> QED
      BY <1>0, <1>9, <1>10, <2>1, <3>1
  <2>5. (Rekeying(a)' <=> Rekeying(a)) /\ (Rekeying(b)' <=> Rekeying(b))
    BY <2>1 DEF Rekeying
  <2> QED
    BY <1>10, <2>1, <2>3, <2>4, <2>5 DEF Calm, Same, Current
<1>11. ASSUME Both(a, b), NEW n \in Node, NEW o \in Node, n # o, Ready(n, o)
       PROVE  Ready(n, o)'
  <2>1. Same(entry[n], entry[o])
    BY <1>11 DEF Ready
  <2>2. /\ Same(entry[n], entry[o])' /\ entry'[n] = entry[n] /\ entry'[o] = entry[o]
        /\ \A m \in sent : m.type = "frame" /\ Current(entry[n], m)
    BY <1>8, <1>11, <2>1
  <2>3. \A m \in net' : m.type = "frame" => Current(entry[n], m)
    BY <1>4, <1>11, <2>2 DEF Ready, AllCurrent
  <2>4. \A m \in net' : m.type # "frame" => m \in net
    BY <1>4, <2>2
  <2>5. Msg3(n, entry[n].pending) \in net => Msg3(n, entry[n].pending) \in net'
    BY DEF Msg3
  <2> QED
    BY <1>11, <2>2, <2>3, <2>4, <2>5 DEF Ready, AllCurrent, Current
<1>12. ASSUME Both(a, b), NEW n \in Node, NEW o \in Node, n # o, Lead(n, o)
       PROVE  Lead(n, o)'
  <2>1. entry'[n] = entry[n] /\ entry'[o] = entry[o]
    BY <1>0, <1>7, <1>12
  <2>2. ASSUME NEW m \in net'
        PROVE  /\ m.type # "msg3"
               /\ m.type = "frame" =>
                    Current(entry[o], m) \/ (m.from = n /\ Current(entry[n], m))
    BY <1>0, <1>4, <1>7, <1>12, <2>2 DEF Lead
  <2> QED
    BY <1>12, <2>1, <2>2 DEF Lead, Rekeying, Current
<1> QED
  <2>1. CASE Opening
    BY <1>5, <2>1 DEF Phase
  <2>2. CASE Half(a, b) \/ Half(b, a)
    BY <1>0, <1>6, <2>2 DEF Phase
  <2>3. CASE Both(a, b) /\ Calm(a, b)
    BY <1>7, <1>10, <2>3 DEF Phase
  <2>4. CASE Both(a, b) /\ (Ready(a, b) \/ Ready(b, a))
    BY <1>0, <1>7, <1>11, <2>4 DEF Phase
  <2>5. CASE Both(a, b) /\ (Lead(a, b) \/ Lead(b, a))
    BY <1>0, <1>7, <1>12, <2>5 DEF Phase
  <2> QED
    BY <2>1, <2>2, <2>3, <2>4, <2>5 DEF Phase

-----------------------------------------------------------------------------
(* What an operation changes of an entry.                                  *)

LEMMA NewSessionFields ==
  ASSUME NEW s
  PROVE  /\ NewSession(s).cur = s /\ NewSession(s).prev = None /\ NewSession(s).k = FALSE
         /\ NewSession(s).rekey = None /\ NewSession(s).initiator = FALSE
         /\ NewSession(s).pending = None /\ NewSession(s).state = "established"
BY DEF NewSession, NewEntry

LEMMA PromoteFields ==
  ASSUME NEW e \in SessionEntry
  PROVE  /\ Promote(e).cur = e.pending /\ Promote(e).prev = e.cur /\ Promote(e).k = ~ e.k
         /\ Promote(e).rekey = None /\ Promote(e).initiator = FALSE
         /\ Promote(e).pending = None /\ Promote(e).state = e.state
BY DEF Promote, SessionEntry

LEMMA AbandonFields ==
  ASSUME NEW e \in SessionEntry
  PROVE  /\ AbandonRekey(e).cur = e.cur /\ AbandonRekey(e).prev = e.prev
         /\ AbandonRekey(e).k = e.k /\ AbandonRekey(e).state = e.state
         /\ AbandonRekey(e).rekey = None /\ AbandonRekey(e).initiator = FALSE
         /\ AbandonRekey(e).pending = None
BY DEF AbandonRekey, SessionEntry

LEMMA SetPendingFields ==
  ASSUME NEW e \in SessionEntry, NEW s
  PROVE  LET f == SetPendingSession(e, s)
         IN  /\ f.cur = e.cur /\ f.prev = e.prev /\ f.k = e.k /\ f.state = e.state
             /\ f.rekey = None /\ f.initiator = e.initiator /\ f.pending = s
BY DEF SetPendingSession, SessionEntry

LEMMA RekeyFields ==
  ASSUME NEW e \in SessionEntry, NEW hs, NEW i
  PROVE  LET f == [e EXCEPT !.rekey = hs, !.initiator = i]
         IN  /\ f.cur = e.cur /\ f.prev = e.prev /\ f.k = e.k /\ f.state = e.state
             /\ f.rekey = hs /\ f.initiator = i /\ f.pending = e.pending
BY DEF SessionEntry

LEMMA DrainFields ==
  ASSUME NEW e \in SessionEntry
  PROVE  LET f == [e EXCEPT !.prev = None]
         IN  /\ f.cur = e.cur /\ f.prev = None /\ f.k = e.k /\ f.state = e.state
             /\ f.rekey = e.rekey /\ f.initiator = e.initiator /\ f.pending = e.pending
BY DEF SessionEntry

LEMMA SpendHarmless ==
  ASSUME NEW kind, NEW happens \in BOOLEAN, Spend(kind, happens), faults' \subseteq Harmless
  PROVE  faults \subseteq Harmless /\ (happens => kind \in Harmless)
BY DEF Spend

-----------------------------------------------------------------------------
(* From phase to phase: the first handshake.                               *)

\* The entry of a becomes e, and that of the other end stays.
Sets(a, e) == entry'[a] = e /\ \A q \in Node \ {a} : entry'[q] = entry[q]

LEMMA SetEntrySets ==
  ASSUME Typed, NEW a \in Node, NEW e, SetEntry(a, e)
  PROVE  Sets(a, e)
BY DEF Typed, TypeOK, SetEntry, Sets

LEMMA NoSessionYet ==
  ASSUME NEW a \in Node, Phase(a, Other(a)), ~ IsEstablished(a), ~ Has(a, "awaiting")
  PROVE  Opening
BY DEF Phase, Half, Both

LEMMA OpeningChanges ==
  ASSUME Typed, Opening, NEW a \in Node, NEW e, Sets(a, e),
         e = None \/ e.state # "established",
         \A m \in net : ~ (m.type = "ack" /\ m.from = a),
         \A m \in net' \ net : \/ m.type = "setup"
                               \/ m.type = "ack" /\ m.from = a /\ e # None
                                  /\ e.state = "awaiting" /\ e.hs = m.hs
  PROVE  Opening'
<1>1. \A m \in net : m.from \in Node
  BY DatagramFields DEF Typed, TypeOK
<1>2. entry'[a] = e /\ \A q \in Node \ {a} : entry'[q] = entry[q]
  BY DEF Sets
<1>3. \A q \in Node : ~ IsEstablished(q)'
  BY <1>2 DEF Opening, IsEstablished, Has
<1>4. ASSUME NEW m \in net'
      PROVE  /\ m.type \in {"setup", "ack"}
             /\ m.type = "ack" => Has(m.from, "awaiting")' /\ entry'[m.from].hs = m.hs
  <2>1. CASE m \in net
    <3>1. m.type = "ack" => m.from \in Node \ {a}
      BY <1>1, <2>1
    <3> QED
      BY <1>2, <2>1, <3>1 DEF Opening, Has
  <2>2. CASE m \notin net
    BY <1>2, <2>2 DEF Has
  <2> QED
    BY <2>1, <2>2
<1> QED
  BY <1>3, <1>4 DEF Opening

\* a reads the answer of the other end and sends msg3.
LEMMA CompletesPhase ==
  ASSUME Opening, NEW a \in Node, NEW m \in net, m.type = "ack", m.from = Other(a),
         NEW e, Sets(a, e), e # None, e.state = "established", e.cur = m.hs, e.prev = None,
         e.pending = None, e.k = FALSE, e.rekey = None,
         NEW frames, net' = (net \ {m}) \cup ({Msg3(a, m.hs)} \cup frames),
         \A o \in frames : o.type = "frame" /\ o.from = a /\ o.hs = m.hs /\ o.k = FALSE
  PROVE  Half(a, Other(a))'
<1>0. Other(a) \in Node /\ Other(a) # a
  BY Ends
<1>1. entry'[a] = e /\ entry'[Other(a)] = entry[Other(a)]
  BY <1>0 DEF Sets
<1>2. Has(Other(a), "awaiting") /\ entry[Other(a)].hs = m.hs
  BY DEF Opening
<1>3. \A o \in net : o.type \in {"setup", "ack"}
  BY DEF Opening
<1>4. ASSUME NEW o \in net'
      PROVE  /\ o.type = "msg3" => o = Msg3(a, m.hs)
             /\ o.type = "frame" => o.from = a /\ o.hs = m.hs /\ o.k = FALSE
  <2>1. CASE o \in net
    BY <1>3, <2>1
  <2>2. CASE o = Msg3(a, m.hs)
    BY <2>2 DEF Msg3
  <2>3. CASE o \in frames
    BY <2>3
  <2> QED
    BY <2>1, <2>2, <2>3
<1> QED
  BY <1>1, <1>2, <1>4 DEF Half, Rekeying, IsEstablished, Has

\* a reads msg3 of the other end.
LEMMA EstablishesPhase ==
  ASSUME NEW a \in Node, Half(Other(a), a), NEW m \in net, m.type = "msg3",
         NEW e, Sets(a, e), e # None, e.state = "established", e.cur = m.hs, e.prev = None,
         e.pending = None, e.k = FALSE, e.rekey = None,
         NEW frames, net' = (net \ {m}) \cup frames,
         \A o \in frames : o.type = "frame" /\ o.hs = m.hs /\ o.k = FALSE
  PROVE  Both(a, Other(a))' /\ Calm(a, Other(a))'
<1> DEFINE b == Other(a)
<1>0. b \in Node /\ b # a
  BY Ends
<1>1. entry'[a] = e /\ entry'[b] = entry[b]
  BY <1>0 DEF Sets
<1>2. /\ IsEstablished(b) /\ entry[b].prev = None /\ entry[b].pending = None /\ entry[b].k = FALSE
      /\ ~ Rekeying(b) /\ m = Msg3(b, entry[b].cur)
      /\ \A o \in net : /\ o.type = "msg3" => o = Msg3(b, entry[b].cur)
                        /\ o.type = "frame" => o.from = b /\ o.hs = entry[b].cur /\ o.k = FALSE
  BY DEF Half
<1>3. m.hs = entry[b].cur
  BY <1>2 DEF Msg3
<1>4. \A o \in net' : /\ o.type # "msg3"
                      /\ o.type = "frame" => o.hs = m.hs /\ o.k = FALSE
  BY <1>2, <1>3
<1>5. Both(a, b)'
  BY <1>1, <1>2 DEF Both, IsEstablished, Has
<1>6. ~ Rekeying(a)' /\ ~ Rekeying(b)'
  BY <1>1, <1>2 DEF Rekeying
<1>7. Calm(a, b)'
  <2>1. Same(entry[a], entry[b])'
    BY <1>1, <1>2, <1>3 DEF Same
  <2>2. \A o \in net' : o.type = "frame" => Current(entry[a], o)'
    BY <1>1, <1>4 DEF Current
  <2> QED
    BY <1>1, <1>2, <1>4, <1>6, <2>1, <2>2 DEF Calm
<1> QED
  BY <1>5, <1>7

-----------------------------------------------------------------------------
(* From phase to phase: the tick.                                          *)

LEMMA EstablishedFields ==
  ASSUME Typed, NEW n \in Node, IsEstablished(n)
  PROVE  /\ entry[n] \in SessionEntry /\ entry[n] # None /\ entry[n].cur \in Session
         /\ entry[n].cur # None /\ entry[n].k \in BOOLEAN
         /\ entry[n].rekey \in Handshake \cup {None} /\ entry[n].pending \in Session \cup {None}
<1>1. Shaped(entry[n]) /\ entry[n].state = "established" /\ entry[n] # None
  BY EstablishedEntry DEF IsEstablished, Has
<1> QED
  BY <1>1, EntryFields, NoneIsNothing DEF Shaped

LEMMA NewId ==
  ASSUME Typed, NEW n \in Node, IsEstablished(n), NEW i \in FreeId
  PROVE  i \in Id /\ i # entry[n].cur.i
<1>1. entry[n] # None /\ entry[n].cur # None
  BY EstablishedFields
<1>2. entry[n].cur.i \in IdsOf(entry[n])
  BY <1>1 DEF IdsOf
<1> QED
  BY <1>2 DEF FreeId

\* f is e but for what it drains.
Keeps(e, f) ==
  /\ f # None /\ f.state = e.state /\ f.cur = e.cur /\ f.k = e.k /\ f.rekey = e.rekey
  /\ f.initiator = e.initiator /\ f.pending = e.pending

LEMMA DrainsPhase ==
  ASSUME Typed, NEW a \in Node, Phase(a, Other(a)), IsEstablished(a), entry[a].prev # None,
         ~ CutsOver(entry[a]), ~ LeftBehind(a),
         \A m \in net : m.type = "frame" => m.hs # entry[a].prev,
         NEW f, Keeps(entry[a], f), Sets(a, f), net' = net
  PROVE  Phase(a, Other(a))'
<1> DEFINE b == Other(a)
<1>0. b \in Node /\ Other(b) = a /\ a # b /\ \A q \in Node : q = a \/ q = b
  BY Ends
<1>1. entry'[a] = f /\ entry'[b] = entry[b] /\ net' = net
  BY <1>0 DEF Sets
<1>2. Both(a, b)
  BY DEF Phase, Opening, Half, IsEstablished, Has, Both
<1>3. Both(a, b)'
  BY <1>1, <1>2 DEF Both, IsEstablished, Has, Keeps
<1>4. /\ f.cur = entry[a].cur /\ f.k = entry[a].k /\ f.rekey = entry[a].rekey
      /\ f.initiator = entry[a].initiator /\ f.pending = entry[a].pending
  BY DEF Keeps
<1>5. /\ Rekeying(a)' <=> Rekeying(a)
      /\ Rekeying(b)' <=> Rekeying(b)
      /\ Asks(a, b)' <=> Asks(a, b)
      /\ Asks(b, a)' <=> Asks(b, a)
  <2>1. (Rekeying(a)' <=> Rekeying(a)) /\ (Rekeying(b)' <=> Rekeying(b))
    <3>1. entry[a] # None /\ f # None
      BY <1>2 DEF Both, IsEstablished, Has, Keeps
    <3> QED
      BY <1>1, <1>4 DEF Rekeying
  <2>2. Asks(a, b)' <=> Asks(a, b)
    BY <1>1, <1>4 DEF Asks, AllCurrent, Current
  <2>3. Asks(b, a)' <=> Asks(b, a)
    BY <1>1, <1>4 DEF Asks, AllCurrent, Current
  <2> QED
    BY <2>1, <2>2, <2>3
<1>6. CASE Calm(a, b)
  <2>1. ASSUME NEW m \in net
        PROVE  /\ m.type # "msg3"
               /\ m.type = "frame" => \/ Current(entry'[a], m)
                                      \/ m.hs # entry'[a].cur /\ m.hs = entry'[Other(m.from)].prev
    <3>1. Other(m.from) \in Node
      BY DatagramFields, Ends DEF Typed, TypeOK
    <3>2. CASE Other(m.from) = a
      BY <1>1, <1>4, <1>6, <3>2 DEF Calm, Current
    <3>3. CASE Other(m.from) = b
      BY <1>1, <1>4, <1>6, <3>3 DEF Calm, Current
    <3> QED
      BY <1>0, <3>1, <3>2, <3>3
  <2>2. Calm(a, b)'
    BY <1>1, <1>4, <1>5, <1>6, <2>1 DEF Calm, Same, Current
  <2> QED
    BY <1>3, <2>2 DEF Phase
<1>7. CASE Ready(a, b)
  BY <1>7 DEF Ready, CutsOver
<1>8. CASE Ready(b, a)
  <2>1. Ready(b, a)'
    BY <1>1, <1>4, <1>8 DEF Ready, Same, AllCurrent, Current
  <2> QED
    BY <1>3, <2>1 DEF Phase
<1>9. CASE Lead(a, b)
  BY <1>2, <1>9 DEF Lead, LeftBehind, Both, IsEstablished, Has
<1>10. CASE Lead(b, a)
  <2>1. Lead(b, a)'
    BY <1>1, <1>4, <1>5, <1>10 DEF Lead, Current
  <2> QED
    BY <1>3, <2>1 DEF Phase
<1> QED
  BY <1>2, <1>6, <1>7, <1>8, <1>9, <1>10 DEF Phase, Opening, Half, Both, IsEstablished, Has

\* The initiator cuts over once the other end has read msg3.
LEMMA CutsOverPhase ==
  ASSUME Typed, NEW a \in Node, Phase(a, Other(a)), IsEstablished(a), CutsOver(entry[a]),
         Msg3(a, entry[a].pending) \notin net, Sets(a, Promote(entry[a])), net' = net
  PROVE  Phase(a, Other(a))'
<1> DEFINE b == Other(a)
<1> DEFINE f == Promote(entry[a])
<1>0. b \in Node /\ Other(b) = a /\ a # b
  BY Ends
<1>1. entry'[a] = f /\ entry'[b] = entry[b] /\ net' = net
  BY <1>0 DEF Sets
<1>2. entry[a] \in SessionEntry /\ entry[a].cur # None /\ entry[a].k \in BOOLEAN
  BY EstablishedFields
<1>3. /\ f.cur = entry[a].pending /\ f.prev = entry[a].cur /\ f.k = ~ entry[a].k
      /\ f.rekey = None /\ f.pending = None /\ f.state = entry[a].state
  BY <1>2, PromoteFields
<1>4. f # None
  BY <1>2, EstablishedEntry, PromoteContinues DEF Continues, CutsOver
<1> HIDE DEF f
<1>5. Both(a, b) /\ Ready(a, b)
  BY DEF Phase, Opening, Half, Both, Calm, Ready, Lead, CutsOver, IsEstablished, Has
<1>6. /\ entry[a].cur = entry[b].cur /\ entry[a].k = entry[b].k /\ entry[a].pending # entry[a].cur
      /\ ~ entry[b].initiator /\ entry[b].rekey = None /\ entry[b].pending = entry[a].pending
      /\ \A m \in net : m.type # "msg3" /\ (m.type = "frame" => Current(entry[a], m))
  BY <1>5 DEF Ready, Same, AllCurrent
<1>7. Lead(a, b)'
  BY <1>1, <1>2, <1>3, <1>6 DEF Lead, Rekeying, Current
<1>8. Both(a, b)'
  BY <1>1, <1>3, <1>4, <1>5 DEF Both, IsEstablished, Has
<1> QED
  BY <1>7, <1>8 DEF Phase

\* An end starts a rekey: nothing of the handshake before is on the way.
LEMMA RekeysPhase ==
  ASSUME Typed, NEW a \in Node, Phase(a, Other(a)), IsEstablished(a), ~ LeftBehind(a),
         entry[a].rekey = None, entry[a].pending = None,
         \A m \in net : \/ m.type = "frame" /\ m.hs = entry[a].cur
                        \/ m.type = "setup" /\ m.from # a /\ Awaited(m),
         NEW i \in FreeId, net' = net \cup {Setup(a, i)},
         Sets(a, [entry[a] EXCEPT !.rekey = [i |-> i, r |-> None], !.initiator = TRUE])
  PROVE  Phase(a, Other(a))'
<1> DEFINE b == Other(a)
<1> DEFINE hs == [i |-> i, r |-> None]
<1> DEFINE f == [entry[a] EXCEPT !.rekey = hs, !.initiator = TRUE]
<1>0. b \in Node /\ Other(b) = a /\ a # b /\ \A q \in Node : q = a \/ q = b
  BY Ends
<1>1. entry'[a] = f /\ entry'[b] = entry[b]
  BY <1>0 DEF Sets
<1>2. entry[a] \in SessionEntry /\ entry[a].cur # None /\ i \in Id /\ i # entry[a].cur.i
  BY EstablishedFields, NewId
<1>3. /\ f.cur = entry[a].cur /\ f.prev = entry[a].prev /\ f.k = entry[a].k
      /\ f.rekey = hs /\ f.initiator = TRUE /\ f.pending = None /\ f.state = "established"
  BY <1>2, EstablishedEntry, RekeyFields
<1>4. f # None /\ hs.i = i /\ hs.r = None
  <2>1. hs \in Handshake
    BY <1>2 DEF Handshake
  <2> QED
    BY <2>1, EstablishedEntry, RekeyShape
<1>5. /\ Setup(a, i).type = "setup" /\ Setup(a, i).from = a /\ Setup(a, i).hs = hs
  BY DEF Setup
<1> HIDE DEF f, hs
<1>6. /\ \A m \in net : m.type \in {"frame", "setup"} /\ (m.type = "setup" => m.from # a)
      /\ \A m \in net : m.type = "frame" => m.hs = entry[a].cur
  OBVIOUS
<1>7. Both(a, b) /\ Calm(a, b)
  <2>1. ~ Half(a, b)
    BY <1>6 DEF Half, Msg3
  <2>2. ~ Half(b, a)
    BY DEF Half, IsEstablished, Has
  <2>3. ~ Ready(b, a) /\ ~ Ready(a, b)
    BY DEF Ready
  <2>4. Both(a, b) => ~ Lead(a, b) /\ ~ Lead(b, a)
    <3>1. Both(a, b) => entry[b].cur # None /\ entry[b] # None
      BY <1>0, EstablishedFields DEF Both
    <3> QED
      BY <1>2, <3>1 DEF Lead, LeftBehind
  <2> QED
    BY <2>1, <2>2, <2>3, <2>4 DEF Phase, Opening
<1>8. /\ Same(entry[a], entry[b]) /\ entry[b].pending = None
      /\ \A m \in net : m.type = "frame" => Current(entry[a], m)
      /\ Rekeying(b) => Asks(b, a)
  BY <1>6, <1>7 DEF Calm
<1>9. \A m \in net' : \/ m \in net
                      \/ m.type = "setup" /\ m.from = a /\ m.hs = hs
  BY <1>5
<1>10. \A m \in net' : m.type # "msg3" /\ m.type # "ack"
  BY <1>6, <1>9
<1>11. \A m \in net' : m.type = "frame" => Current(entry[a], m) /\ Current(entry[b], m)
  BY <1>8, <1>9 DEF Same, Current
<1>12. Asks(a, b)'
  BY <1>1, <1>2, <1>3, <1>4, <1>6, <1>9, <1>10, <1>11 DEF Asks, AllCurrent, Current
<1>13. Rekeying(b)' => Asks(b, a)'
  <2>1. Rekeying(b)' => Rekeying(b)
    BY <1>1 DEF Rekeying
  <2>2. SUFFICES ASSUME Asks(b, a) PROVE Asks(b, a)'
    BY <1>8, <2>1
  <2>3. \A m \in net' : m.type = "setup" /\ m.from = b => m \in net
    BY <1>0, <1>9
  <2> QED
    BY <1>1, <1>10, <1>11, <2>2, <2>3 DEF Asks, AllCurrent, Current
<1>14. Calm(a, b)'
  <2>1. Same(entry[a], entry[b])' /\ entry'[a].pending = None /\ entry'[b].pending = None
    BY <1>1, <1>3, <1>8 DEF Same
  <2>2. \A m \in net' : m.type # "msg3" /\ (m.type = "frame" => Current(entry'[a], m))
    BY <1>1, <1>3, <1>10, <1>11 DEF Current
  <2> QED
    BY <1>12, <1>13, <2>1, <2>2 DEF Calm, Current
<1>15. Both(a, b)'
  BY <1>1, <1>3, <1>4, <1>7 DEF Both, IsEstablished, Has
<1> QED
  BY <1>14, <1>15 DEF Phase

-----------------------------------------------------------------------------
(* From phase to phase: a rekey.                                           *)

LEMMA OneSetup ==
  ASSUME NEW l \in Datagram, NEW m \in Datagram, l.type = "setup", m.type = "setup",
         l.from = m.from, l.hs = m.hs
  PROVE  l = m
BY DEF Datagram, SessionSetup, SessionAck, SessionMsg3, Frame

\* A setup makes a the responder of a rekey, or has it give its own up.
LEMMA RespondsPhase ==
  ASSUME Typed, RekeyOn, NEW a \in Node, Phase(a, Other(a)), IsEstablished(a),
         ~ SetupIgnored(a), NEW m \in net, m.type = "setup", m.from = Other(a),
         NEW f, Sets(a, f), f # None, f.state = "established", f.cur = entry[a].cur,
         f.prev = entry[a].prev, f.k = entry[a].k, f.pending = None,
         NEW sent, net' = (net \ {m}) \cup sent,
         \/ f.rekey = None /\ sent = {}
         \/ /\ f.initiator = FALSE
            /\ f.rekey.i = m.hs.i /\ sent = {Ack(a, f.rekey)}
  PROVE  Phase(a, Other(a))'
<1> DEFINE b == Other(a)
<1>0. b \in Node /\ Other(b) = a /\ a # b /\ \A q \in Node : q = a \/ q = b
  BY Ends
<1>1. entry'[a] = f /\ entry'[b] = entry[b]
  BY <1>0 DEF Sets
<1>2. ~ (f.rekey # None /\ f.initiator)
  OBVIOUS
<1>3. \A x \in sent : /\ x.type = "ack" /\ x.from = a /\ x.hs = f.rekey
                      /\ f.initiator = FALSE /\ f.rekey.i = m.hs.i
  BY DEF Ack
<1>4. \A x \in net' : x.type # "ack" => x \in net /\ x # m
  BY <1>3
<1>5. ~ Rekeying(a)'
  BY <1>1, <1>2 DEF Rekeying
<1>6. CASE Half(a, b)
  <2>1. Msg3(a, entry[a].cur) \in net'
    BY <1>6 DEF Half, Msg3
  <2>2. Half(a, b)'
    BY <1>1, <1>4, <1>5, <1>6, <2>1 DEF Half, Has, IsEstablished
  <2> QED
    BY <2>2 DEF Phase
<1>7. CASE Both(a, b) /\ Calm(a, b)
  <2>1. Both(a, b)'
    BY <1>1, <1>7 DEF Both, IsEstablished, Has
  <2>2. ASSUME NEW x \in net'
        PROVE  /\ x.type # "msg3"
               /\ x.type = "frame" => \/ Current(entry'[a], x)
                                      \/ x.hs # entry'[a].cur /\ x.hs = entry'[Other(x.from)].prev
    <3>1. CASE x.type = "ack"
      BY <3>1
    <3>2. CASE x.type # "ack"
      <4>1. x \in net /\ Other(x.from) \in Node
        BY <1>4, <3>2, DatagramFields, Ends DEF Typed, TypeOK
      <4>2. entry'[Other(x.from)].prev = entry[Other(x.from)].prev
        BY <1>0, <1>1, <4>1
      <4> QED
        BY <1>1, <1>7, <4>1, <4>2 DEF Calm, Current
    <3> QED
      BY <3>1, <3>2
  <2>3. ASSUME Rekeying(b)'
        PROVE  Asks(b, a)'
    <3>1. Asks(b, a)
      BY <1>1, <1>7, <2>3 DEF Calm, Rekeying
    <3>2. m.hs = entry[b].rekey
      BY <3>1 DEF Asks
    <3>3. \A x \in net' : ~ (x.type = "setup" /\ x.from = b)
      <4> SUFFICES ASSUME NEW x \in net', x.type = "setup", x.from = b PROVE FALSE
        OBVIOUS
      <4>1. x \in net /\ x # m /\ x.hs = m.hs
        BY <1>4, <3>1, <3>2 DEF Asks
      <4> QED
        BY <4>1, OneSetup DEF Typed, TypeOK
    <3>4. \A x \in net : ~ (x.type = "ack" /\ x.from = a /\ x.hs.i = entry[b].rekey.i)
      BY <1>0, <3>1 DEF Asks
    <3>5. \A x \in net' : x.type = "ack" /\ x.from = a /\ x.hs.i = entry[b].rekey.i =>
            f.rekey = x.hs /\ ~ f.initiator
      BY <1>3, <3>4
    <3>6. \A x \in net' : x.type = "setup" => x.from = a
      <4>1. \A x \in net' : x.type = "setup" => x.from \in Node
        BY <1>4, DatagramFields DEF Typed, TypeOK
      <4> QED
        BY <1>0, <3>3, <4>1
    <3>7. \A x \in net' : x.type = "frame" => Current(entry[b], x)
      BY <1>4, <3>1 DEF Asks, AllCurrent
    <3> QED
      BY <1>1, <3>1, <3>3, <3>5, <3>6, <3>7 DEF Asks, AllCurrent, Current
  <2>4. Calm(a, b)'
    BY <1>1, <1>5, <1>7, <2>2, <2>3 DEF Calm, Same, Current
  <2> QED
    BY <2>1, <2>4 DEF Phase
<1>8. CASE Both(a, b) /\ Lead(a, b)
  <2>1. Both(a, b)'
    BY <1>1, <1>8 DEF Both, IsEstablished, Has
  <2>2. Lead(a, b)'
    BY <1>1, <1>4, <1>5, <1>8 DEF Lead, Current
  <2> QED
    BY <2>1, <2>2 DEF Phase
<1>9. Both(a, b) => ~ Ready(a, b) /\ ~ Ready(b, a) /\ ~ Lead(b, a)
  <2>1. Both(a, b) => entry[b].cur # None
    BY <1>0, EstablishedFields DEF Both
  <2> QED
    BY <1>0, <2>1 DEF Ready, Lead, SetupIgnored
<1> QED
  BY <1>6, <1>7, <1>8, <1>9 DEF Phase, Opening, Half, IsEstablished, Has

LEMMA RekeyingIsCalm ==
  ASSUME NEW a \in Node, Phase(a, Other(a)), IsEstablished(a), Rekeying(a)
  PROVE  Both(a, Other(a)) /\ Calm(a, Other(a)) /\ Asks(a, Other(a))
BY DEF Phase, Opening, Half, Both, Calm, Ready, Lead, Rekeying, IsEstablished, Has

\* A rekey is given up.
LEMMA AbandonsPhase ==
  ASSUME Typed, NEW a \in Node, Phase(a, Other(a)), IsEstablished(a), Rekeying(a),
         NEW m \in net, net' = net \ {m}, Sets(a, AbandonRekey(entry[a]))
  PROVE  Phase(a, Other(a))'
<1> DEFINE b == Other(a)
<1> DEFINE f == AbandonRekey(entry[a])
<1>0. b \in Node /\ Other(b) = a /\ a # b /\ \A q \in Node : q = a \/ q = b
  BY Ends
<1>1. entry'[a] = f /\ entry'[b] = entry[b]
  BY <1>0 DEF Sets
<1>2. Shaped(entry[a]) /\ entry[a].state = "established" /\ entry[a] \in SessionEntry
  BY EstablishedEntry, EstablishedFields
<1>3. /\ f.cur = entry[a].cur /\ f.prev = entry[a].prev /\ f.k = entry[a].k
      /\ f.rekey = None /\ f.pending = None /\ f.state = "established"
  BY <1>2, AbandonFields
<1>4. f # None
  BY <1>2, AbandonContinues DEF Continues
<1> HIDE DEF f
<1>5. Both(a, b) /\ Calm(a, b)
  BY RekeyingIsCalm
<1>6. Both(a, b)'
  BY <1>1, <1>3, <1>4, <1>5 DEF Both, IsEstablished, Has
<1>7. ~ Rekeying(a)'
  BY <1>1, <1>3 DEF Rekeying
<1>8. ASSUME Rekeying(b)'
      PROVE  Asks(b, a)'
  <2>1. Asks(b, a)
    BY <1>1, <1>5, <1>8 DEF Calm, Rekeying
  <2>2. \A x \in net : ~ (x.type = "ack" /\ x.from = a /\ x.hs.i = entry[b].rekey.i)
    BY <2>1 DEF Asks, Rekeying
  <2> QED
    BY <1>1, <2>1, <2>2 DEF Asks, AllCurrent, Current
<1>9. ASSUME NEW x \in net'
      PROVE  /\ x.type # "msg3"
             /\ x.type = "frame" => \/ Current(entry'[a], x)
                                    \/ x.hs # entry'[a].cur /\ x.hs = entry'[Other(x.from)].prev
  <2>1. x \in net /\ Other(x.from) \in Node
    BY DatagramFields, Ends DEF Typed, TypeOK
  <2>2. entry'[Other(x.from)].prev = entry[Other(x.from)].prev
    BY <1>0, <1>1, <1>3, <2>1
  <2> QED
    BY <1>1, <1>3, <1>5, <2>1, <2>2 DEF Calm, Current
<1>10. Calm(a, b)'
  BY <1>1, <1>3, <1>5, <1>7, <1>8, <1>9 DEF Calm, Same, Current
<1> QED
  BY <1>6, <1>10 DEF Phase

\* The initiator of a rekey reads the answer and sends msg3.
LEMMA ReadiesPhase ==
  ASSUME Typed, NEW a \in Node, Phase(a, Other(a)), IsEstablished(a), Rekeying(a),
         NEW m \in net, m.type = "ack", m.from = Other(a), m.hs.i = entry[a].rekey.i,
         net' = (net \ {m}) \cup {Msg3(a, m.hs)},
         Sets(a, SetPendingSession(entry[a], m.hs))
  PROVE  Phase(a, Other(a))'
<1> DEFINE b == Other(a)
<1> DEFINE f == SetPendingSession(entry[a], m.hs)
<1>0. b \in Node /\ Other(b) = a /\ a # b
  BY Ends
<1>1. entry'[a] = f /\ entry'[b] = entry[b]
  BY <1>0 DEF Sets
<1>2. /\ Shaped(entry[a]) /\ entry[a].state = "established" /\ entry[a] \in SessionEntry
      /\ m.hs \in Session
  BY EstablishedEntry, EstablishedFields, DatagramFields DEF Typed, TypeOK
<1>3. /\ f.cur = entry[a].cur /\ f.k = entry[a].k /\ f.rekey = None
      /\ f.pending = m.hs /\ f.state = "established" /\ f.initiator = entry[a].initiator
  BY <1>2, SetPendingFields
<1>4. f # None /\ m.hs # None
  BY <1>2, SetPendingContinues, NoneIsNothing DEF Continues
<1> HIDE DEF f
<1>5. Both(a, b) /\ Calm(a, b) /\ Asks(a, b)
  BY RekeyingIsCalm
<1>6. Both(a, b)'
  BY <1>1, <1>3, <1>4, <1>5 DEF Both, IsEstablished, Has
<1>7. /\ entry[b].rekey = m.hs /\ ~ entry[b].initiator
      /\ \A l \in net : l.type = "setup" => l.from = b
      /\ entry[a].rekey.i # entry[a].cur.i
      /\ \A x \in net : x.type = "frame" => Current(entry[a], x)
  BY <1>5 DEF Asks, AllCurrent
<1>8. Msg3(a, m.hs).type = "msg3"
  BY DEF Msg3
<1>9. \A x \in net' : x.type # "msg3" => x \in net
  BY <1>8
<1>10. \A x \in net' : x.type = "msg3" => x = Msg3(a, m.hs)
  BY <1>5 DEF Calm
<1>11. Ready(a, b)'
  <2>1. Same(entry[a], entry[b])' /\ entry'[b].pending = None /\ entry'[a].initiator
    BY <1>1, <1>3, <1>5 DEF Calm, Same, Rekeying
  <2>2. \A x \in net' : /\ x.type = "frame" => Current(entry'[a], x)
                        /\ x.type = "setup" => x.from = b
    BY <1>1, <1>3, <1>7, <1>9 DEF Current
  <2>3. f.pending \notin {None, f.cur}
    BY <1>3, <1>4, <1>7
  <2>4. Msg3(a, m.hs) \in net'
    OBVIOUS
  <2> QED
    BY <1>1, <1>3, <1>7, <1>10, <2>1, <2>2, <2>3, <2>4 DEF Ready, AllCurrent, Current
<1> QED
  BY <1>6, <1>11 DEF Phase

\* A msg3 on the way completes the first handshake of an end, or a rekey.
LEMMA Msg3Phase ==
  ASSUME NEW a \in Node, Phase(a, Other(a)), NEW m \in net, m.type = "msg3", m.from = Other(a)
  PROVE  \/ Half(Other(a), a)
         \/ /\ Both(a, Other(a)) /\ Ready(Other(a), a) /\ m = Msg3(Other(a), entry[Other(a)].pending)
            /\ entry[a].rekey = m.hs /\ entry[a].rekey # None /\ ~ entry[a].initiator
<1> DEFINE b == Other(a)
<1>0. b # a
  BY Ends
<1>1. ~ Opening /\ ~ Calm(a, b) /\ ~ Lead(a, b) /\ ~ Lead(b, a)
  BY DEF Opening, Calm, Lead
<1>2. ~ Half(a, b)
  BY <1>0 DEF Half, Msg3
<1>3. ~ Ready(a, b)
  BY <1>0 DEF Ready, Msg3
<1>4. ASSUME Ready(b, a)
      PROVE  /\ m = Msg3(b, entry[b].pending) /\ entry[a].rekey = m.hs
             /\ entry[a].rekey # None /\ ~ entry[a].initiator
  BY <1>4 DEF Ready, Msg3
<1> QED
  BY <1>1, <1>2, <1>3, <1>4 DEF Phase

\* The responder of a rekey reads msg3.
LEMMA HasNextPhase ==
  ASSUME Typed, NEW a \in Node, Both(a, Other(a)), Ready(Other(a), a), NEW m \in net,
         m = Msg3(Other(a), entry[Other(a)].pending), entry[a].rekey = m.hs,
         net' = net \ {m}, Sets(a, SetPendingSession(entry[a], m.hs))
  PROVE  Phase(a, Other(a))'
<1> DEFINE b == Other(a)
<1> DEFINE f == SetPendingSession(entry[a], m.hs)
<1>0. b \in Node /\ Other(b) = a /\ a # b
  BY Ends
<1>1. entry'[a] = f /\ entry'[b] = entry[b]
  BY <1>0 DEF Sets
<1>2. m.type = "msg3" /\ m.hs = entry[b].pending
  BY DEF Msg3
<1>3. /\ Shaped(entry[a]) /\ entry[a].state = "established" /\ entry[a] \in SessionEntry
      /\ m.hs \in Session
  BY <1>2, EstablishedEntry, EstablishedFields, DatagramFields DEF Both, Typed, TypeOK
<1>4. /\ f.cur = entry[a].cur /\ f.k = entry[a].k /\ f.rekey = None
      /\ f.pending = m.hs /\ f.state = "established" /\ f.initiator = entry[a].initiator
  BY <1>3, SetPendingFields
<1>5. f # None /\ m.hs # None
  BY <1>3, SetPendingContinues, NoneIsNothing DEF Continues
<1> HIDE DEF f
<1>6. Both(a, b)'
  BY <1>1, <1>4, <1>5 DEF Both, IsEstablished, Has
<1>7. /\ Same(entry[b], entry[a]) /\ entry[b].pending \notin {None, entry[b].cur}
      /\ entry[b].rekey = None /\ entry[b].initiator /\ ~ entry[a].initiator
      /\ AllCurrent(entry[b])
      /\ \A x \in net : x.type = "msg3" => x = m
  BY <1>2, <1>5 DEF Ready
<1>8. Ready(b, a)'
  <2>1. \A x \in net' : x \in net /\ x.type # "msg3"
    BY <1>7
  <2> QED
    BY <1>1, <1>2, <1>4, <1>7, <2>1 DEF Ready, Same, AllCurrent, Current
<1> QED
  BY <1>6, <1>8 DEF Phase

\* A frame whose K-bit is not that of a is the first on the session that pends at a.
LEMMA FlipPhase ==
  ASSUME Typed, NEW a \in Node, Phase(a, Other(a)), IsEstablished(a),
         NEW m \in net, m.type = "frame", m.from = Other(a),
         m.k # entry[a].k, entry[a].pending # None
  PROVE  Both(a, Other(a)) /\ Lead(Other(a), a) /\ Current(entry[Other(a)], m)
<1> DEFINE b == Other(a)
<1>1. ~ Opening /\ ~ Half(a, b) /\ ~ Half(b, a)
  BY DEF Opening, Half, IsEstablished, Has
<1>2. ~ Calm(a, b) /\ ~ Lead(a, b)
  BY DEF Calm, Lead
<1>3. ~ Ready(a, b) /\ ~ Ready(b, a)
  BY DEF Ready, Same, AllCurrent, Current
<1>4. Lead(b, a) => Current(entry[b], m)
  BY DEF Lead, Current
<1> QED
  BY <1>1, <1>2, <1>3, <1>4 DEF Phase

LEMMA FlipsPhase ==
  ASSUME Typed, NEW a \in Node, Both(a, Other(a)), Lead(Other(a), a),
         net' \subseteq net, Sets(a, Promote(entry[a]))
  PROVE  Phase(a, Other(a))'
<1> DEFINE b == Other(a)
<1> DEFINE f == Promote(entry[a])
<1>0. b \in Node /\ Other(b) = a /\ a # b /\ \A q \in Node : q = a \/ q = b
  BY Ends
<1>1. entry'[a] = f /\ entry'[b] = entry[b]
  BY <1>0 DEF Sets
<1>2. /\ Shaped(entry[a]) /\ entry[a].state = "established" /\ entry[a] \in SessionEntry
      /\ entry[a].k \in BOOLEAN /\ entry[b].k \in BOOLEAN /\ entry[b].cur # None
  BY <1>0, EstablishedEntry, EstablishedFields DEF Both
<1>3. /\ entry[b].cur = entry[a].pending /\ entry[b].prev = entry[a].cur
      /\ entry[b].k # entry[a].k /\ entry[b].cur # entry[a].cur /\ entry[b].pending = None
      /\ ~ Rekeying(b)
      /\ \A x \in net : /\ x.type # "msg3"
                        /\ x.type = "frame" => \/ Current(entry[a], x)
                                               \/ x.from = b /\ Current(entry[b], x)
  BY DEF Lead
<1>4. /\ f.cur = entry[a].pending /\ f.prev = entry[a].cur /\ f.k = ~ entry[a].k
      /\ f.rekey = None /\ f.pending = None /\ f.state = "established"
  BY <1>2, PromoteFields
<1>5. f # None
  BY <1>2, <1>3, PromoteContinues DEF Continues
<1> HIDE DEF f
<1>6. Both(a, b)'
  BY <1>1, <1>4, <1>5 DEF Both, IsEstablished, Has
<1>7. Same(entry[a], entry[b])'
  BY <1>1, <1>2, <1>3, <1>4 DEF Same
<1>8. ASSUME NEW x \in net'
      PROVE  /\ x.type # "msg3"
             /\ x.type = "frame" => \/ Current(entry'[a], x)
                                    \/ x.hs # entry'[a].cur /\ x.hs = entry'[Other(x.from)].prev
  <2>1. x \in net /\ Other(x.from) \in Node
    BY DatagramFields, Ends DEF Typed, TypeOK
  <2>2. entry'[Other(x.from)].prev = entry[a].cur
    BY <1>0, <1>1, <1>3, <1>4, <2>1
  <2> QED
    BY <1>1, <1>3, <1>7, <2>1, <2>2 DEF Current, Same
<1>9. Calm(a, b)'
  <2>1. ~ Rekeying(a)' /\ ~ Rekeying(b)'
    BY <1>1, <1>3, <1>4 DEF Rekeying
  <2> QED
    BY <1>1, <1>3, <1>4, <1>7, <1>8, <2>1 DEF Calm, Current
<1> QED
  BY <1>6, <1>9 DEF Phase

-----------------------------------------------------------------------------
(* The phases under every action.                                          *)

\* a is one of two ends in a phase, and the step does no more than Harmless.
Acts(a) == RekeyOn /\ Typed /\ a \in Node /\ Phase(a, Other(a)) /\ faults' \subseteq Harmless

LEMMA SamePhase ==
  ASSUME NEW a, Acts(a), \A q \in Node : entry'[q] = entry[q],
         \A m \in net' \ net : m.from \in Node /\ Ordinary(m),
         \A m \in net \ net' : m.type # "msg3"
  PROVE  Phase(a, Other(a))'
BY PhaseStays DEF Acts, Stays

LEMMA InitiatePhase ==
  ASSUME NEW a, Acts(a), entry[a] = None, Initiate(a)
  PROVE  Phase(a, Other(a))'
<1>0. a \in Node /\ Typed
  BY DEF Acts
<1>1. PICK i \in FreeId : /\ SetEntry(a, NewEntry("initiating", [i |-> i, r |-> None]))
                          /\ net' = net \cup {Setup(a, i)}
  BY DEF Initiate
<1> DEFINE e == NewEntry("initiating", [i |-> i, r |-> None])
<1>2. Sets(a, e) /\ e.state = "initiating"
  BY <1>0, <1>1, SetEntrySets DEF NewEntry
<1> HIDE DEF e
<1>3. Opening /\ ~ Has(a, "awaiting")
  BY NoSessionYet DEF Acts, IsEstablished, Has
<1>4. \A m \in net : ~ (m.type = "ack" /\ m.from = a)
  BY <1>3 DEF Opening
<1>5. Setup(a, i).type = "setup"
  BY DEF Setup
<1>6. Opening'
  BY <1>0, <1>1, <1>2, <1>3, <1>4, <1>5, OpeningChanges
<1> QED
  BY <1>6 DEF Phase

LEMMA HandleTunOutboundPhase ==
  ASSUME NEW a, Acts(a), HandleTunOutbound(a)
  PROVE  Phase(a, Other(a))'
<1>1. CASE UNCHANGED <<entry, net>>
  BY <1>1, SamePhase
<1>2. CASE entry[a] = None /\ Initiate(a)
  BY <1>2, InitiatePhase
<1> QED
  BY <1>1, <1>2 DEF HandleTunOutbound

LEMMA SendFramePhase ==
  ASSUME NEW a, Acts(a), SendFrame(a)
  PROVE  Phase(a, Other(a))'
<1>1. /\ IsEstablished(a) /\ entry' = entry /\ net' = net \cup {FrameOf(a, entry[a])}
      /\ a \in Node
  BY DEF SendFrame, Acts
<1>2. FrameOf(a, entry[a]).from = a /\ Ordinary(FrameOf(a, entry[a]))
  BY <1>1 DEF FrameOf, Ordinary, Current
<1> QED
  BY <1>1, <1>2, SamePhase

LEMMA HandleErrorSignalPhase ==
  ASSUME NEW a, Acts(a), HandleErrorSignal(a)
  PROVE  Phase(a, Other(a))'
<1>0. a \in Node /\ Typed /\ entry' = entry
  BY DEF Acts, HandleErrorSignal
<1>1. CASE IsEstablished(a)
  <2>1. Spend("warmup", entry[a].k) /\ net' = net \cup {CoordsWarmup(a, entry[a])}
    BY <1>1 DEF HandleErrorSignal
  <2>2. entry[a].k \in BOOLEAN
    BY <1>0, <1>1, EstablishedFields
  <2>3. entry[a].k = FALSE
    BY <2>1, <2>2, SpendHarmless DEF Acts, Harmless
  <2>4. CoordsWarmup(a, entry[a]).from = a /\ Ordinary(CoordsWarmup(a, entry[a]))
    BY <1>1, <2>3 DEF CoordsWarmup, FrameOf, Ordinary, Current
  <2> QED
    BY <1>0, <2>1, <2>4, SamePhase
<1>2. CASE ~ IsEstablished(a)
  <2>1. net' = net
    BY <1>2 DEF HandleErrorSignal
  <2> QED
    BY <1>0, <2>1, SamePhase
<1> QED
  BY <1>1, <1>2

LEMMA LookupAnsweredPhase ==
  ASSUME NEW a, Acts(a), LookupAnswered(a)
  PROVE  Phase(a, Other(a))'
<1>1. CASE UNCHANGED <<entry, net>>
  BY <1>1, SamePhase
<1>2. CASE Spend("replace", entry[a] # None) /\ Initiate(a)
  <2>1. entry[a] = None
    BY <1>2 DEF Acts, Harmless, Spend
  <2> QED
    BY <1>2, <2>1, InitiatePhase
<1> QED
  BY <1>1, <1>2 DEF LookupAnswered

LEMMA TimeoutHandshakePhase ==
  ASSUME NEW a, Acts(a), TimeoutHandshake(a)
  PROVE  Phase(a, Other(a))'
<1>0. /\ a \in Node /\ Typed /\ Other(a) \in Node /\ SetEntry(a, None) /\ net' = net
      /\ ~ IsEstablished(a) /\ \A m \in net : m.type = "frame"
  BY Ends DEF Acts, TimeoutHandshake, TimesOut, NoHandshake
<1>1. Sets(a, None)
  BY <1>0, SetEntrySets
<1>2. Opening
  BY <1>0 DEF Acts, Phase, Half, Both, Msg3
<1>3. Opening'
  BY <1>0, <1>1, <1>2, OpeningChanges
<1> QED
  BY <1>3 DEF Phase

LEMMA ResendHandshakePhase ==
  ASSUME NEW a, Acts(a), ResendHandshake(a)
  PROVE  Phase(a, Other(a))'
<1> DEFINE f == [entry[a] EXCEPT !.resends = @ + 1]
<1> DEFINE x == IF entry[a].state = "initiating" THEN Setup(a, entry[a].hs.i)
                ELSE Ack(a, entry[a].hs)
<1>0. /\ a \in Node /\ Typed /\ SetEntry(a, f) /\ net' = net \cup {x}
      /\ entry[a] # None /\ ~ IsEstablished(a) /\ ResendsLeft(entry[a])
  BY DEF Acts, ResendHandshake
<1>1. Shaped(entry[a])
  BY <1>0 DEF Typed, EntriesOK
<1>2. f # None /\ f.state = entry[a].state /\ f.hs = entry[a].hs
  BY <1>0, <1>1, ResendShape
<1>3. Sets(a, f)
  BY <1>0, SetEntrySets
<1> HIDE DEF f
<1>4. \A q \in Node : Stays(q)
  BY <1>0, <1>2, <1>3 DEF Sets, Stays
<1>5. entry[a].state \in {"initiating", "awaiting"}
  BY <1>0, <1>1, EntryFields DEF Shaped, EndToEndState, IsEstablished, Has
<1>6. x.from = a /\ Ordinary(x)
  BY <1>0, <1>5 DEF Setup, Ack, Ordinary, Has
<1> HIDE DEF x
<1> QED
  BY <1>0, <1>4, <1>6, PhaseStays DEF Acts

LEMMA CutoverPhase ==
  ASSUME NEW a, Acts(a), Cutover(a)
  PROVE  Phase(a, Other(a))'
<1>1. /\ a \in Node /\ Typed /\ IsEstablished(a) /\ CutsOver(entry[a]) /\ net' = net
      /\ Spend("slow", Msg3(a, entry[a].pending) \in net) /\ SetEntry(a, Promote(entry[a]))
  BY DEF Acts, Cutover
<1>2. Msg3(a, entry[a].pending) \notin net
  BY <1>1 DEF Acts, Harmless, Spend
<1>3. Sets(a, Promote(entry[a]))
  BY <1>1, SetEntrySets
<1> QED
  BY <1>1, <1>2, <1>3, CutsOverPhase DEF Acts

LEMMA NotSilent ==
  ASSUME NEW a, Acts(a), Spend("silent", LeftBehind(a))
  PROVE  ~ LeftBehind(a)
<1>1. LeftBehind(a) \in BOOLEAN
  BY DEF LeftBehind
<1> QED
  BY <1>1, SpendHarmless DEF Acts, Harmless

LEMMA DrainPhase ==
  ASSUME NEW a, Acts(a), Drain(a)
  PROVE  Phase(a, Other(a))'
<1> DEFINE f == [entry[a] EXCEPT !.prev = None]
<1>1. /\ a \in Node /\ Typed /\ IsEstablished(a) /\ ~ CutsOver(entry[a]) /\ net' = net
      /\ entry[a].prev # None /\ \A m \in net : m.type = "frame" => m.hs # entry[a].prev
      /\ SetEntry(a, f) /\ ~ LeftBehind(a)
  BY NotSilent DEF Acts, Drain
<1>2. Shaped(entry[a]) /\ entry[a].state = "established" /\ entry[a] \in SessionEntry
  BY <1>1, EstablishedEntry, EstablishedFields
<1>3. f # None
  BY <1>2, DrainContinues DEF Continues
<1>4. Keeps(entry[a], f)
  BY <1>2, <1>3, DrainFields DEF Keeps
<1>5. Sets(a, f)
  BY <1>1, SetEntrySets
<1> HIDE DEF f
<1> QED
  BY <1>1, <1>4, <1>5, DrainsPhase DEF Acts

LEMMA RekeyPhase ==
  ASSUME NEW a, Acts(a), Rekey(a)
  PROVE  Phase(a, Other(a))'
<1>1. /\ a \in Node /\ Typed /\ Phase(a, Other(a)) /\ IsEstablished(a)
      /\ entry[a].rekey = None /\ entry[a].pending = None /\ ~ LeftBehind(a)
      /\ \A m \in net : \/ m.type = "frame" /\ m.hs = entry[a].cur
                        \/ m.type = "setup" /\ m.from # a /\ Awaited(m)
  BY NotSilent DEF Acts, Rekey
<1>2. PICK i \in FreeId :
        /\ SetEntry(a, [entry[a] EXCEPT !.rekey = [i |-> i, r |-> None], !.initiator = TRUE])
        /\ net' = net \cup {Setup(a, i)}
  BY DEF Rekey
<1>3. Sets(a, [entry[a] EXCEPT !.rekey = [i |-> i, r |-> None], !.initiator = TRUE])
  BY <1>1, <1>2, SetEntrySets
<1> QED
  BY <1>1, <1>2, <1>3, RekeysPhase

LEMMA ForgetPhase ==
  ASSUME NEW a, Acts(a), Forget(a)
  PROVE  FALSE
BY DEF Acts, Forget, Harmless, Spend

LEMMA LosePhase ==
  ASSUME NEW a, Acts(a), NEW m \in net, Lose(m)
  PROVE  Phase(a, Other(a))'
<1>1. Spend(m.type, TRUE) /\ net' = net \ {m} /\ entry' = entry
  BY DEF Lose
<1>2. m.type # "msg3"
  BY <1>1, SpendHarmless DEF Acts, Harmless
<1> QED
  BY <1>1, <1>2, SamePhase

-----------------------------------------------------------------------------
(* The phases under every datagram.                                        *)

\* a handles m, a datagram of the other end that is delivered once.
Reads(a, m) == Acts(a) /\ m \in net /\ m.from = Other(a)

LEMMA HandleSessionSetupPhase ==
  ASSUME NEW a, NEW m, Reads(a, m), NEW noRoute \in BOOLEAN,
         HandleSessionSetup(a, m, FALSE, noRoute)
  PROVE  Phase(a, Other(a))'
<1> DEFINE e == entry[a]
<1>0. /\ RekeyOn /\ Typed /\ a \in Node /\ Phase(a, Other(a)) /\ m \in net /\ Acts(a)
      /\ m.from = Other(a) /\ m.type = "setup"
  BY DEF Reads, Acts, HandleSessionSetup
<1>1. m.hs \in Handshake /\ m.hs.i \in Id
  BY <1>0, DatagramFields DEF Typed, TypeOK
<1>2. CASE SetupIgnored(a)
  <2>1. entry' = entry /\ net' = net \ {m}
    BY <1>2 DEF HandleSessionSetup, Take
  <2> QED
    BY <1>0, <2>1, SamePhase
<1>3. CASE ~ SetupIgnored(a) /\ SetupRepeated(a)
  <2>1. entry' = entry /\ net' = (net \ {m}) \cup (IF noRoute THEN {} ELSE {Ack(a, e.hs)})
    BY <1>3 DEF HandleSessionSetup, Take
  <2>2. Ack(a, e.hs).from = a /\ Ordinary(Ack(a, e.hs))
    BY <1>3 DEF Ack, Ordinary, SetupRepeated
  <2> QED
    BY <1>0, <2>1, <2>2, SamePhase
<1>4. CASE ~ SetupIgnored(a) /\ ~ SetupRepeated(a)
  <2> DEFINE lost == IF SetupRekeys(a) /\ e.rekey # None THEN AbandonRekey(e) ELSE e
  <2>1. PICK r \in FreeId :
          LET hs == [i |-> m.hs.i, r |-> r]
          IN  IF noRoute THEN SetEntry(a, lost) /\ Take(m, FALSE, {})
              ELSE /\ Take(m, FALSE, {Ack(a, hs)})
                   /\ SetEntry(a, IF SetupRekeys(a)
                                  THEN [lost EXCEPT !.rekey = hs, !.initiator = FALSE]
                                  ELSE NewEntry("awaiting", hs))
    BY <1>4 DEF HandleSessionSetup
  <2> DEFINE hs == [i |-> m.hs.i, r |-> r]
  <2>2. hs \in Session /\ hs \in Handshake /\ hs.i = m.hs.i
    BY <1>1 DEF FreeId, Session, Handshake
  <2> HIDE DEF hs
  <2>3. CASE IsEstablished(a)
    <3>1. /\ SetupRekeys(a) /\ Shaped(e) /\ e.state = "established" /\ e \in SessionEntry
          /\ e # None
      BY <1>0, <1>4, <2>3, EstablishedEntry, EstablishedFields DEF SetupRekeys
    <3>2. e.rekey = None => e.pending = None
      BY <1>0, <1>4, <2>3 DEF SetupIgnored
    <3>3. Shaped(AbandonRekey(e)) /\ AbandonRekey(e) # None
      BY <3>1, AbandonContinues DEF Continues
    <3>4. /\ lost \in SessionEntry /\ Shaped(lost) /\ lost # None /\ lost.state = "established"
          /\ lost.cur = e.cur /\ lost.prev = e.prev /\ lost.k = e.k /\ lost.pending = None
          /\ lost.rekey = None
      <4>1. CASE e.rekey = None
        BY <3>1, <3>2, <4>1
      <4>2. CASE e.rekey # None
        BY <3>1, <3>3, <4>2, AbandonFields DEF Shaped
      <4> QED
        BY <4>1, <4>2
    <3> HIDE DEF lost
    <3>5. CASE noRoute
      <4>1. SetEntry(a, lost) /\ net' = net \ {m}
        BY <2>1, <3>5 DEF Take
      <4>2. Sets(a, lost) /\ net' = (net \ {m}) \cup {}
        BY <1>0, <4>1, SetEntrySets
      <4> QED
        BY <1>0, <1>4, <2>3, <3>4, <4>2, RespondsPhase
    <3>6. CASE ~ noRoute
      <4> DEFINE f == [lost EXCEPT !.rekey = hs, !.initiator = FALSE]
      <4>1. SetEntry(a, f) /\ net' = (net \ {m}) \cup {Ack(a, hs)}
        BY <2>1, <3>1, <3>6 DEF Take, hs
      <4>2. /\ f.cur = e.cur /\ f.prev = e.prev /\ f.k = e.k /\ f.state = "established"
            /\ f.rekey = hs /\ f.initiator = FALSE /\ f.pending = None
        BY <3>4, RekeyFields
      <4>3. f # None
        BY <2>2, <3>4, RekeyShape
      <4>4. Sets(a, f)
        BY <1>0, <4>1, SetEntrySets
      <4> HIDE DEF f
      <4>5. net' = (net \ {m}) \cup {Ack(a, f.rekey)} /\ f.rekey.i = m.hs.i
        BY <2>2, <4>1, <4>2
      <4> QED
        BY <1>0, <1>4, <2>3, <4>2, <4>3, <4>4, <4>5, RespondsPhase
    <3> QED
      BY <3>5, <3>6
  <2>4. CASE ~ IsEstablished(a)
    <3>1. ~ SetupRekeys(a)
      BY <2>4 DEF SetupRekeys
    <3>2. CASE noRoute
      <4>1. SetEntry(a, e) /\ net' = net \ {m}
        BY <2>1, <3>1, <3>2 DEF Take
      <4>2. \A q \in Node : entry'[q] = entry[q]
        BY <1>0, <4>1, SetEntrySets DEF Sets
      <4> QED
        BY <1>0, <4>1, <4>2, SamePhase
    <3>3. CASE ~ noRoute
      <4> DEFINE f == NewEntry("awaiting", hs)
      <4>1. SetEntry(a, f) /\ net' = (net \ {m}) \cup {Ack(a, hs)}
        BY <2>1, <3>1, <3>3 DEF Take, hs
      <4>2. f # None /\ f.state = "awaiting" /\ f.hs = hs
        BY <2>2, NewEntryShape
      <4> HIDE DEF f
      <4>3. Sets(a, f)
        BY <1>0, <4>1, SetEntrySets
      <4>4. Opening
        BY <1>0, <1>4, <2>4, NoSessionYet DEF SetupRepeated
      <4>5. \A x \in net : ~ (x.type = "ack" /\ x.from = a)
        BY <1>4, <4>4 DEF Opening, SetupRepeated
      <4>6. /\ Ack(a, hs).type = "ack" /\ Ack(a, hs).from = a /\ Ack(a, hs).hs = hs
        BY DEF Ack
      <4>7. \A x \in net' \ net : x.type = "ack" /\ x.from = a /\ x.hs = f.hs
        BY <4>1, <4>2, <4>6
      <4>8. Opening'
        BY <1>0, <4>2, <4>3, <4>4, <4>5, <4>7, OpeningChanges
      <4> QED
        BY <4>8 DEF Phase
    <3> QED
      BY <3>2, <3>3
  <2> QED
    BY <2>3, <2>4
<1> QED
  BY <1>2, <1>3, <1>4

LEMMA FramesFlushed ==
  ASSUME NEW n \in Node, NEW e, NEW x \in Flushed(n, e)
  PROVE  x.type = "frame" /\ x.from = n /\ x.hs = e.cur /\ x.k = e.k
BY DEF Flushed, FrameOf

LEMMA HandleSessionAckPhase ==
  ASSUME NEW a, NEW m, Reads(a, m), NEW noRoute \in BOOLEAN,
         HandleSessionAck(a, m, FALSE, noRoute)
  PROVE  Phase(a, Other(a))'
<1> DEFINE e == entry[a]
<1>0. /\ Typed /\ a \in Node /\ Phase(a, Other(a)) /\ m \in net /\ Acts(a)
      /\ m.from = Other(a) /\ m.type = "ack"
  BY DEF Reads, Acts, HandleSessionAck
<1>1. CASE IsEstablished(a) /\ Rekeying(a) /\ (e.rekey.i # m.hs.i \/ noRoute)
  <2>1. SetEntry(a, AbandonRekey(e)) /\ net' = net \ {m}
    BY <1>1 DEF HandleSessionAck, Take, Rekeying
  <2>2. Sets(a, AbandonRekey(e))
    BY <1>0, <2>1, SetEntrySets
  <2> QED
    BY <1>0, <1>1, <2>1, <2>2, AbandonsPhase
<1>2. CASE IsEstablished(a) /\ Rekeying(a) /\ ~ (e.rekey.i # m.hs.i \/ noRoute)
  <2>1. SetEntry(a, SetPendingSession(e, m.hs)) /\ net' = (net \ {m}) \cup {Msg3(a, m.hs)}
    BY <1>2 DEF HandleSessionAck, Take, Rekeying
  <2>2. Sets(a, SetPendingSession(e, m.hs))
    BY <1>0, <2>1, SetEntrySets
  <2> QED
    BY <1>0, <1>2, <2>1, <2>2, ReadiesPhase
<1>3. CASE ~ (IsEstablished(a) /\ Rekeying(a)) /\ ~ Has(a, "initiating")
  <2>1. entry' = entry /\ net' = net \ {m}
    BY <1>3 DEF HandleSessionAck, Take, Rekeying
  <2> QED
    BY <1>0, <2>1, SamePhase
<1>4. CASE Has(a, "initiating")
  <2>1. ~ IsEstablished(a) /\ ~ Has(a, "awaiting")
    BY <1>4 DEF IsEstablished, Has
  <2>2. Opening
    BY <1>0, <2>1, NoSessionYet
  <2>3. \A x \in net : ~ (x.type = "ack" /\ x.from = a)
    BY <2>1, <2>2 DEF Opening
  <2>4. CASE e.hs.i # m.hs.i \/ noRoute
    <3>1. SetEntry(a, None) /\ net' = net \ {m}
      BY <1>4, <2>1, <2>4 DEF HandleSessionAck, Take
    <3>2. Sets(a, None)
      BY <1>0, <3>1, SetEntrySets
    <3>3. Opening'
      BY <1>0, <2>2, <2>3, <3>1, <3>2, OpeningChanges
    <3> QED
      BY <3>3 DEF Phase
  <2>5. CASE ~ (e.hs.i # m.hs.i \/ noRoute)
    <3> DEFINE f == NewSession(m.hs)
    <3>1. /\ SetEntry(a, f)
          /\ net' = (net \ {m}) \cup ({Msg3(a, m.hs)} \cup Flushed(a, f))
      BY <1>4, <2>1, <2>5 DEF HandleSessionAck, Take
    <3>2. /\ f.cur = m.hs /\ f.prev = None /\ f.k = FALSE /\ f.rekey = None
          /\ f.pending = None /\ f.state = "established"
      BY NewSessionFields
    <3>3. m.hs \in Session
      BY <1>0, DatagramFields DEF Typed, TypeOK
    <3>4. f # None
      BY <3>3, NewSessionShape
    <3>5. Sets(a, f)
      BY <1>0, <3>1, SetEntrySets
    <3> HIDE DEF f
    <3>6. \A x \in Flushed(a, f) : x.type = "frame" /\ x.from = a /\ x.hs = m.hs /\ x.k = FALSE
      BY <1>0, <3>2, FramesFlushed
    <3>7. Half(a, Other(a))'
      BY <1>0, <2>2, <3>1, <3>2, <3>4, <3>5, <3>6, CompletesPhase
    <3> QED
      BY <3>7 DEF Phase
  <2> QED
    BY <2>4, <2>5
<1> QED
  BY <1>1, <1>2, <1>3, <1>4

LEMMA HandleSessionMsg3Phase ==
  ASSUME NEW a, NEW m, Reads(a, m), HandleSessionMsg3(a, m, FALSE)
  PROVE  Phase(a, Other(a))'
<1>0. /\ Typed /\ a \in Node /\ Phase(a, Other(a)) /\ m \in net
      /\ m.from = Other(a) /\ m.type = "msg3"
  BY DEF Reads, Acts, HandleSessionMsg3
<1>1. CASE Half(Other(a), a)
  <2> DEFINE f == NewSession(m.hs)
  <2>1. /\ Has(a, "awaiting") /\ ~ IsEstablished(a) /\ m.hs = entry[a].hs
    BY <1>0, <1>1 DEF Half, Has, IsEstablished, Msg3
  <2>2. SetEntry(a, f) /\ net' = (net \ {m}) \cup Flushed(a, f)
    BY <2>1 DEF HandleSessionMsg3, Take
  <2>3. /\ f.cur = m.hs /\ f.prev = None /\ f.k = FALSE /\ f.rekey = None
        /\ f.pending = None /\ f.state = "established"
    BY NewSessionFields
  <2>4. m.hs \in Session
    BY <1>0, DatagramFields DEF Typed, TypeOK
  <2>5. f # None
    BY <2>4, NewSessionShape
  <2>6. Sets(a, f)
    BY <1>0, <2>2, SetEntrySets
  <2> HIDE DEF f
  <2>7. \A x \in Flushed(a, f) : x.type = "frame" /\ x.hs = m.hs /\ x.k = FALSE
    BY <1>0, <2>3, FramesFlushed
  <2>8. Both(a, Other(a))' /\ Calm(a, Other(a))'
    BY <1>0, <1>1, <2>2, <2>3, <2>5, <2>6, <2>7, EstablishesPhase
  <2> QED
    BY <2>8 DEF Phase
<1>2. CASE /\ Both(a, Other(a)) /\ Ready(Other(a), a)
           /\ m = Msg3(Other(a), entry[Other(a)].pending)
           /\ entry[a].rekey = m.hs /\ entry[a].rekey # None /\ ~ entry[a].initiator
  <2>1. SetEntry(a, SetPendingSession(entry[a], m.hs)) /\ net' = net \ {m}
    BY <1>2 DEF HandleSessionMsg3, Take, Both
  <2>2. Sets(a, SetPendingSession(entry[a], m.hs))
    BY <1>0, <2>1, SetEntrySets
  <2> QED
    BY <1>0, <1>2, <2>1, <2>2, HasNextPhase
<1> QED
  BY <1>0, <1>1, <1>2, Msg3Phase

LEMMA HandleEncryptedSessionMsgPhase ==
  ASSUME NEW a, NEW m, Reads(a, m), HandleEncryptedSessionMsg(a, m, FALSE)
  PROVE  Phase(a, Other(a))'
<1> DEFINE e == AfterKBit(entry[a], m)
<1>0. /\ Typed /\ a \in Node /\ Phase(a, Other(a)) /\ m \in net /\ Acts(a)
      /\ m.from = Other(a) /\ m.type = "frame"
  BY DEF Reads, Acts, HandleEncryptedSessionMsg
<1>1. CASE ~ IsEstablished(a)
  <2>1. entry' = entry /\ net' = net \ {m}
    BY <1>1 DEF HandleEncryptedSessionMsg, Take
  <2> QED
    BY <1>0, <2>1, SamePhase
<1>2. CASE IsEstablished(a)
  <2>1. queue[a] = 0
    BY <1>0, <1>2, EstablishedEntry
  <2>2. SetEntry(a, e) /\ net' = net \ {m}
    BY <1>2, <2>1 DEF HandleEncryptedSessionMsg, Take, Flushed
  <2>3. Sets(a, e)
    BY <1>0, <2>2, SetEntrySets
  <2>4. CASE m.k # entry[a].k /\ entry[a].pending # None
    <3>1. Both(a, Other(a)) /\ Lead(Other(a), a)
      BY <1>0, <1>2, <2>4, FlipPhase
    <3>2. Sets(a, Promote(entry[a]))
      BY <2>3, <2>4 DEF AfterKBit
    <3> QED
      BY <1>0, <2>2, <3>1, <3>2, FlipsPhase
  <2>5. CASE ~ (m.k # entry[a].k /\ entry[a].pending # None)
    <3>1. \A q \in Node : entry'[q] = entry[q]
      BY <2>3, <2>5 DEF AfterKBit, Sets
    <3> QED
      BY <1>0, <2>2, <3>1, SamePhase
  <2> QED
    BY <2>4, <2>5
<1> QED
  BY <1>1, <1>2

LEMMA ReceivePhase ==
  ASSUME NEW a, Acts(a), NEW m \in net, Receive(a, m)
  PROVE  Phase(a, Other(a))'
<1>1. Reads(a, m)
  <2>1. m.from \in Node /\ m.from # a /\ a \in Node
    BY DatagramFields DEF Acts, Receive, Typed, TypeOK
  <2> QED
    BY <2>1, Ends DEF Reads
<1>2. ~ Spend("repeat", TRUE)
  BY DEF Acts, Harmless, Spend
<1>3. \/ HandleSessionSetup(a, m, FALSE, TRUE) \/ HandleSessionSetup(a, m, FALSE, FALSE)
      \/ HandleSessionAck(a, m, FALSE, TRUE) \/ HandleSessionAck(a, m, FALSE, FALSE)
      \/ HandleSessionMsg3(a, m, FALSE) \/ HandleEncryptedSessionMsg(a, m, FALSE)
  BY <1>2 DEF Receive
<1> QED
  BY <1>1, <1>3, HandleSessionSetupPhase, HandleSessionAckPhase, HandleSessionMsg3Phase,
     HandleEncryptedSessionMsgPhase

\* One of the two ends takes part in every step, and what went wrong is not forgotten.
EndActs(n) ==
  \/ HandleTunOutbound(n) \/ SendFrame(n) \/ HandleErrorSignal(n)
  \/ LookupAnswered(n) \/ LookupTimedOut(n)
  \/ TimeoutHandshake(n) \/ ResendHandshake(n)
  \/ Cutover(n) \/ Drain(n) \/ Rekey(n) \/ Forget(n)
  \/ \E m \in net : Receive(n, m)

LEMMA EndPhase ==
  ASSUME NEW a, Acts(a), EndActs(a)
  PROVE  Phase(a, Other(a))'
<1>1. CASE LookupTimedOut(a)
  BY <1>1, SamePhase DEF LookupTimedOut
<1> QED
  BY <1>1, HandleTunOutboundPhase, SendFramePhase, HandleErrorSignalPhase, LookupAnsweredPhase,
     TimeoutHandshakePhase, ResendHandshakePhase, CutoverPhase, DrainPhase, RekeyPhase,
     ForgetPhase, ReceivePhase DEF EndActs

LEMMA FaultsStay ==
  ASSUME [Next]_vars
  PROVE  faults \subseteq faults'
<1>1. \A kind, happens : Spend(kind, happens) => faults \subseteq faults'
  BY DEF Spend
<1>2. ASSUME NEW n \in Node, EndActs(n)
      PROVE  faults \subseteq faults'
  <2>1. CASE HandleTunOutbound(n)
    BY <1>1, <2>1 DEF HandleTunOutbound
  <2>2. CASE SendFrame(n)
    BY <2>2 DEF SendFrame
  <2>3. CASE HandleErrorSignal(n)
    BY <1>1, <2>3 DEF HandleErrorSignal
  <2>4. CASE LookupAnswered(n)
    BY <1>1, <2>4 DEF LookupAnswered
  <2>5. CASE LookupTimedOut(n) \/ TimeoutHandshake(n) \/ ResendHandshake(n)
    BY <2>5 DEF LookupTimedOut, TimeoutHandshake, ResendHandshake
  <2>6. CASE Cutover(n) \/ Drain(n) \/ Rekey(n)
    BY <1>1, <2>6 DEF Cutover, Drain, Rekey
  <2>7. CASE Forget(n)
    BY <1>1, <2>7 DEF Forget
  <2>8. CASE \E m \in net : Receive(n, m)
    BY <1>1, <2>8 DEF Receive
  <2> QED
    BY <1>2, <2>1, <2>2, <2>3, <2>4, <2>5, <2>6, <2>7, <2>8 DEF EndActs
<1>3. ASSUME NEW m \in net, Lose(m)
      PROVE  faults \subseteq faults'
  BY <1>1, <1>3 DEF Lose
<1>4. CASE UNCHANGED vars
  BY <1>4 DEF vars
<1> QED
  BY <1>2, <1>3, <1>4 DEF Next, EndActs

LEMMA InitCoupled == Init => Coupled
<1> SUFFICES ASSUME Init PROVE \E n \in Node : Phase(n, Other(n))
  BY DEF Coupled
<1>1. Opening
  BY DEF Init, Opening, IsEstablished, Has
<1> QED
  BY <1>1, NodeAssumption DEF Phase

LEMMA NextCoupled == RekeyOn /\ IndInv /\ Coupled /\ [Next]_vars => Coupled'
<1> SUFFICES ASSUME RekeyOn, Typed, Coupled, [Next]_vars, (faults \subseteq Harmless)'
             PROVE  (\E n \in Node : Phase(n, Other(n)))'
  BY DEF IndInv, Coupled
<1>1. faults' \subseteq Harmless /\ faults \subseteq Harmless
  BY FaultsStay DEF Harmless
<1>2. \A a \in Node : Acts(a)
  BY <1>1, PhaseOf DEF Coupled, Acts
<1>3. SUFFICES \E a \in Node : Phase(a, Other(a))'
  BY DEF Other
<1>4. ASSUME NEW n \in Node, EndActs(n)
      PROVE  Phase(n, Other(n))'
  BY <1>2, <1>4, EndPhase
<1>5. ASSUME NEW a \in Node, NEW m \in net, Lose(m)
      PROVE  Phase(a, Other(a))'
  BY <1>2, <1>5, LosePhase
<1>6. ASSUME NEW a \in Node, UNCHANGED vars
      PROVE  Phase(a, Other(a))'
  <2>1. entry' = entry /\ net' = net
    BY <1>6 DEF vars
  <2> QED
    BY <1>2, <2>1, SamePhase
<1>7. PICK a \in Node : TRUE
  BY NodeAssumption
<1> QED
  BY <1>4, <1>5, <1>6, <1>7 DEF Next, EndActs

-----------------------------------------------------------------------------
(* What the phases say.                                                    *)

\* Hitless cutover: while nothing worse happens than a lost setup, answer or frame, an
\* overtaken setup or a missing route, every frame on the way to an established end is
\* on the session handle_encrypted_session_msg tries first, after the K-bit, or on the
\* one it drains, for any number of rekeys from both ends.  With rekey.enabled off
\* handle_session_setup takes a late setup for that of a new session and replaces an
\* established entry, so the statement is about nodes that rekey.
THEOREM SessionRekeyIsHitless == RekeyOn => (Spec => []HitlessRekey)
<1> SUFFICES ASSUME RekeyOn PROVE Spec => []HitlessRekey
  OBVIOUS
<1>1. Typed /\ Coupled => HitlessRekey
  <2> SUFFICES ASSUME Typed, Coupled, faults \subseteq Harmless, NEW n \in Node, NEW m \in net,
                      m.type = "frame", m.from # n, IsEstablished(n)
               PROVE  CanOpen(entry[n], m)
    BY DEF HitlessRekey
  <2> DEFINE p == Other(n)
  <2>1. p \in Node /\ Other(p) = n /\ p # n /\ m.from = p /\ Phase(n, p)
    BY Ends, PhaseOf, DatagramFields DEF Coupled, Typed, TypeOK
  <2>2. entry[n] \in SessionEntry
    BY EstablishedFields
  <2>3. ~ Opening /\ ~ Half(n, p) /\ ~ Half(p, n)
    BY <2>1 DEF Opening, Half, IsEstablished, Has
  <2>4. CASE m.k # entry[n].k /\ entry[n].pending # None
    <3>1. Lead(p, n) /\ Current(entry[p], m)
      BY <2>1, <2>4, FlipPhase
    <3>2. m.hs = Promote(entry[n]).cur
      BY <2>2, <3>1, PromoteFields DEF Lead, Current
    <3> QED
      BY <2>4, <3>2 DEF CanOpen, AfterKBit
  <2>5. CASE ~ (m.k # entry[n].k /\ entry[n].pending # None)
    <3>1. AfterKBit(entry[n], m) = entry[n]
      BY <2>5 DEF AfterKBit
    <3>2. SUFFICES m.hs = entry[n].cur \/ m.hs = entry[n].prev
      BY <3>1 DEF CanOpen
    <3>3. Calm(n, p) => m.hs = entry[n].cur \/ m.hs = entry[n].prev
      BY <2>1 DEF Calm, Current
    <3>4. Ready(n, p) \/ Ready(p, n) => m.hs = entry[n].cur
      BY DEF Ready, Same, AllCurrent, Current
    <3>5. Lead(n, p) => m.hs = entry[n].prev
      BY <2>1 DEF Lead, Current
    <3>6. Lead(p, n) => m.hs = entry[n].cur
      <4>1. Both(n, p) => entry[p].cur # None
        BY <2>1, EstablishedFields DEF Both
      <4> QED
        BY <2>1, <2>3, <2>5, <4>1 DEF Lead, Current, Phase
    <3> QED
      BY <2>1, <2>3, <3>3, <3>4, <3>5, <3>6 DEF Phase
  <2> QED
    BY <2>4, <2>5
<1>2. IndInv /\ Coupled /\ [Next]_vars => Coupled'
  BY NextCoupled
<1>3. IndInv => Typed
  BY DEF IndInv
<1> QED
  BY <1>1, <1>2, <1>3, InitInv, NextInv, InitCoupled, PTL DEF Spec

\* Simultaneous initiations, ties and rekeys from both ends, with setups, answers and
\* frames lost and setups overtaken: as soon as no handshake is under way, an
\* established end has the other on the same session with the same K-bit.  About nodes
\* that rekey, as above.
THEOREM SessionEndsAgree == RekeyOn => (Spec => []EndsAgree)
<1> SUFFICES ASSUME RekeyOn PROVE Spec => []EndsAgree
  OBVIOUS
<1>1. Typed /\ Coupled => EndsAgree
  <2> SUFFICES ASSUME Typed, Coupled, faults \subseteq Harmless, NoHandshake,
                      \A n \in Node : Idle(n), NEW n \in Node, IsEstablished(n)
               PROVE  /\ IsEstablished(Other(n))
                      /\ entry[n].cur = entry[Other(n)].cur /\ entry[n].k = entry[Other(n)].k
    BY DEF EndsAgree
  <2> DEFINE p == Other(n)
  <2>1. p \in Node /\ Phase(n, p)
    BY Ends, PhaseOf DEF Coupled
  <2>2. ~ Opening /\ ~ Half(n, p) /\ ~ Half(p, n)
    BY DEF Opening, Half, NoHandshake, Msg3
  <2>3. /\ Both(n, p)
        /\ entry[n].pending = None /\ entry[n].cur # None
        /\ entry[p].pending = None /\ entry[p].cur # None
    <3>1. Both(n, p)
      BY <2>1, <2>2 DEF Phase
    <3>2. entry[n].cur # None /\ entry[p].cur # None
      BY <2>1, <3>1, EstablishedFields DEF Both
    <3> QED
      BY <2>1, <3>1, <3>2 DEF Both, Idle, IsEstablished, Has
  <2>4. ~ Ready(n, p) /\ ~ Ready(p, n) /\ ~ Lead(n, p) /\ ~ Lead(p, n)
    BY <2>3 DEF Ready, Lead
  <2> QED
    BY <2>1, <2>2, <2>3, <2>4 DEF Phase, Calm, Same, Both
<1>2. IndInv /\ Coupled /\ [Next]_vars => Coupled'
  BY NextCoupled
<1>3. IndInv => Typed
  BY DEF IndInv
<1> QED
  BY <1>1, <1>2, <1>3, InitInv, NextInv, InitCoupled, PTL DEF Spec

-----------------------------------------------------------------------------
(* Whose turn it is.                                                       *)
(*                                                                         *)
(* While nothing but frames is lost, the two ends of a session are not in  *)
(* a handshake, or one of them has asked for a rekey, both have, one has   *)
(* been answered, or one has sent msg3; in each case but the first a       *)
(* datagram on the way takes the rekey further.                            *)

NoSetup == \A m \in net : m.type # "setup"
NoAck == \A m \in net : m.type # "ack"

Still(n, o) == entry[n].rekey = None /\ entry[o].rekey = None /\ NoSetup

Asked(n, o) ==
  /\ Rekeying(n) /\ entry[o].rekey = None /\ NoAck
  /\ Setup(n, entry[n].rekey.i) \in net
  /\ \A m \in net : m.type = "setup" => m.from = n

\* Both have asked, and n stays initiator.
Contested(n, o) ==
  /\ Rekeying(n) /\ Rekeying(o) /\ NoAck /\ WeWin(n)
  /\ Setup(n, entry[n].rekey.i) \in net

\* A setup of o from before it gave way is passed over.
Answered(n, o) ==
  LET f == entry[o]
  IN  /\ Rekeying(n) /\ f.rekey # None /\ ~ f.initiator /\ f.rekey.i = entry[n].rekey.i
      /\ Ack(o, f.rekey) \in net
      /\ \A m \in net : /\ m.type = "setup" => m.from = o /\ WeWin(n) /\ m.hs # f.rekey
                        /\ m.type = "ack" => m = Ack(o, f.rekey)

Closing(n, o) ==
  LET f == entry[o]
  IN  /\ entry[n].rekey = None /\ f.rekey # None /\ ~ f.initiator
      /\ f.rekey = entry[n].pending
      /\ NoSetup /\ Msg3(n, f.rekey) \in net

Asking(n, o) == Asked(n, o) \/ Contested(n, o) \/ Answered(n, o) \/ Closing(n, o)

\* n has sent msg3 of the first handshake.
Leads(n, o) ==
  IsEstablished(n) /\ Has(o, "awaiting") =>
    entry[n].rekey = None /\ \A m \in net : m.type = "setup" => m.from = n

InTurn(n, o) ==
  /\ Leads(n, o) /\ Leads(o, n)
  /\ Both(n, o) => Still(n, o) \/ Asking(n, o) \/ Asking(o, n)

Prompt == faults \subseteq {"frame"} => \E n \in Node : InTurn(n, Other(n))

LEMMA TurnOf ==
  ASSUME NEW a \in Node, \E n \in Node : InTurn(n, Other(n))
  PROVE  InTurn(a, Other(a))
<1> PICK n \in Node : InTurn(n, Other(n))
  OBVIOUS
<1>1. CASE n = a
  BY <1>1
<1>2. CASE n = Other(a)
  BY <1>2, Ends DEF InTurn, Both, Still
<1> QED
  BY <1>1, <1>2, Ends

\* As Acts, and nothing but frames has been lost.
Keen(a) == Acts(a) /\ InTurn(a, Other(a)) /\ faults' \subseteq {"frame"}

LEMMA NobodyYet ==
  ASSUME NEW a, Keen(a), ~ IsEstablished(a)', ~ IsEstablished(Other(a))'
  PROVE  InTurn(a, Other(a))'
BY DEF InTurn, Leads, Both

LEMMA OtherEnd ==
  ASSUME NEW a, Keen(a)
  PROVE  /\ a \in Node /\ Other(a) \in Node /\ Other(a) # a /\ Other(Other(a)) = a
         /\ WeWin(a) <=> ~ WeWin(Other(a))
         /\ RekeyOn /\ Typed /\ Phase(a, Other(a)) /\ Acts(a)
BY Ends DEF Keen, Acts

\* The states, and what the turns tell apart of an established end.
Like(q) ==
  /\ \A s : Has(q, s)' <=> Has(q, s)
  /\ IsEstablished(q) => /\ entry'[q].rekey = entry[q].rekey
                         /\ entry'[q].initiator = entry[q].initiator
                         /\ entry'[q].pending = entry[q].pending

\* The turns do not change with frames.
LEMMA TurnStays ==
  ASSUME NEW a, Keen(a), Like(a), Like(Other(a)),
         \A m : m.type # "frame" => (m \in net' <=> m \in net)
  PROVE  InTurn(a, Other(a))'
<1> DEFINE b == Other(a)
<1>1. /\ IsEstablished(a)' <=> IsEstablished(a)
      /\ IsEstablished(b)' <=> IsEstablished(b)
      /\ Has(a, "awaiting")' <=> Has(a, "awaiting")
      /\ Has(b, "awaiting")' <=> Has(b, "awaiting")
  BY DEF Like, IsEstablished
<1>2. ASSUME NEW q, Like(q), IsEstablished(q)
      PROVE  /\ entry'[q].rekey = entry[q].rekey
             /\ entry'[q].initiator = entry[q].initiator
             /\ entry'[q].pending = entry[q].pending
             /\ Rekeying(q)' <=> Rekeying(q)
  BY <1>2 DEF Like, Rekeying
<1>3. \A m \in net' : m.type # "frame" => m \in net
  OBVIOUS
<1>4. /\ \A n, i : Setup(n, i) \in net => Setup(n, i) \in net'
      /\ \A n, hs : Ack(n, hs) \in net => Ack(n, hs) \in net'
      /\ \A n, hs : Msg3(n, hs) \in net => Msg3(n, hs) \in net'
  BY DEF Setup, Ack, Msg3
<1>5. ASSUME NEW n, NEW o, Like(n), Like(o), Leads(n, o)
      PROVE  Leads(n, o)'
  BY <1>2, <1>3, <1>5 DEF Leads, Like, IsEstablished
<1>6. ASSUME NEW n, NEW o, Like(n), Like(o), IsEstablished(n), IsEstablished(o)
      PROVE  /\ Still(n, o) => Still(n, o)'
             /\ Asking(n, o) => Asking(n, o)'
  <2>1. /\ entry'[n].rekey = entry[n].rekey /\ entry'[n].pending = entry[n].pending
        /\ Rekeying(n)' <=> Rekeying(n)
        /\ entry'[o].rekey = entry[o].rekey /\ entry'[o].initiator = entry[o].initiator
        /\ Rekeying(o)' <=> Rekeying(o)
    BY <1>2, <1>6
  <2>2. (NoSetup => NoSetup') /\ (NoAck => NoAck')
    BY <1>3 DEF NoSetup, NoAck
  <2>3. Still(n, o) => Still(n, o)'
    BY <2>1, <2>2 DEF Still
  <2>4. Asked(n, o) => Asked(n, o)'
    BY <1>3, <1>4, <2>1, <2>2 DEF Asked
  <2>5. Contested(n, o) => Contested(n, o)'
    BY <1>4, <2>1, <2>2 DEF Contested
  <2>6. Answered(n, o) => Answered(n, o)'
    BY <1>3, <1>4, <2>1 DEF Answered
  <2>7. Closing(n, o) => Closing(n, o)'
    BY <1>4, <2>1, <2>2 DEF Closing
  <2> QED
    BY <2>3, <2>4, <2>5, <2>6, <2>7 DEF Asking
<1>7. Leads(a, b)' /\ Leads(b, a)'
  BY <1>5 DEF Keen, InTurn
<1>8. ASSUME Both(a, b)'
      PROVE  (Still(a, b) \/ Asking(a, b) \/ Asking(b, a))'
  <2>1. IsEstablished(a) /\ IsEstablished(b)
    BY <1>1, <1>8 DEF Both
  <2>2. Still(a, b) \/ Asking(a, b) \/ Asking(b, a)
    BY <2>1 DEF Keen, InTurn, Both
  <2> QED
    BY <1>6, <2>1, <2>2
<1> QED
  BY <1>7, <1>8 DEF InTurn

LEMMA SameTurn ==
  ASSUME NEW a, Keen(a), entry' = entry, \A m : m.type # "frame" => (m \in net' <=> m \in net)
  PROVE  InTurn(a, Other(a))'
BY TurnStays DEF Like, Has, IsEstablished

\* The entry of an end that is not established is replaced.
LEMMA OpeningTurn ==
  ASSUME NEW a, Keen(a), Opening, NEW e, SetEntry(a, e), e = None \/ e.state # "established"
  PROVE  InTurn(a, Other(a))'
<1>1. Sets(a, e) /\ Other(a) \in Node \ {a}
  BY OtherEnd, SetEntrySets
<1>2. ~ IsEstablished(a)' /\ ~ IsEstablished(Other(a))'
  BY <1>1 DEF Sets, Opening, IsEstablished, Has
<1> QED
  BY <1>2, NobodyYet

LEMMA InitiateTurn ==
  ASSUME NEW a, Keen(a), entry[a] = None, Initiate(a)
  PROVE  InTurn(a, Other(a))'
<1>1. Opening
  BY OtherEnd, NoSessionYet DEF IsEstablished, Has
<1>2. PICK i \in FreeId : SetEntry(a, NewEntry("initiating", [i |-> i, r |-> None]))
  BY DEF Initiate
<1>3. NewEntry("initiating", [i |-> i, r |-> None]).state # "established"
  BY DEF NewEntry
<1> QED
  BY <1>1, <1>2, <1>3, OpeningTurn

LEMMA HandleTunOutboundTurn ==
  ASSUME NEW a, Keen(a), HandleTunOutbound(a)
  PROVE  InTurn(a, Other(a))'
<1>1. CASE UNCHANGED <<entry, net>>
  BY <1>1, SameTurn
<1>2. CASE entry[a] = None /\ Initiate(a)
  BY <1>2, InitiateTurn
<1> QED
  BY <1>1, <1>2 DEF HandleTunOutbound

LEMMA SendsTurn ==
  ASSUME NEW a, Keen(a), SendFrame(a) \/ HandleErrorSignal(a)
  PROVE  InTurn(a, Other(a))'
<1>1. /\ FrameOf(a, entry[a]).type = "frame"
      /\ CoordsWarmup(a, entry[a]).type = "frame"
  BY DEF FrameOf, CoordsWarmup
<1>2. entry' = entry
  BY DEF SendFrame, HandleErrorSignal
<1>3. \/ net' = net \/ net' = net \cup {FrameOf(a, entry[a])}
      \/ net' = net \cup {CoordsWarmup(a, entry[a])}
  BY DEF SendFrame, HandleErrorSignal
<1> QED
  BY <1>1, <1>2, <1>3, SameTurn

LEMMA LookupAnsweredTurn ==
  ASSUME NEW a, Keen(a), LookupAnswered(a)
  PROVE  InTurn(a, Other(a))'
<1>1. CASE UNCHANGED <<entry, net>>
  BY <1>1, SameTurn
<1>2. CASE Spend("replace", entry[a] # None) /\ Initiate(a)
  <2>1. entry[a] = None
    BY <1>2 DEF Keen, Spend
  <2> QED
    BY <1>2, <2>1, InitiateTurn
<1> QED
  BY <1>1, <1>2 DEF LookupAnswered

LEMMA TimeoutHandshakeTurn ==
  ASSUME NEW a, Keen(a), TimeoutHandshake(a)
  PROVE  InTurn(a, Other(a))'
<1>1. ~ IsEstablished(a) /\ SetEntry(a, None) /\ \A m \in net : m.type = "frame"
  BY DEF TimeoutHandshake, TimesOut, NoHandshake
<1>2. Opening
  BY <1>1, OtherEnd DEF Phase, Half, Both, Msg3
<1> QED
  BY <1>1, <1>2, OpeningTurn

LEMMA ResendHandshakeTurn ==
  ASSUME NEW a, Keen(a), ResendHandshake(a)
  PROVE  InTurn(a, Other(a))'
<1> DEFINE b == Other(a)
<1> DEFINE f == [entry[a] EXCEPT !.resends = @ + 1]
<1>0. /\ SetEntry(a, f) /\ entry[a] # None /\ ~ IsEstablished(a) /\ ResendsLeft(entry[a])
      /\ net' = net \cup {IF entry[a].state = "initiating" THEN Setup(a, entry[a].hs.i)
                          ELSE Ack(a, entry[a].hs)}
  BY DEF ResendHandshake
<1>1. Shaped(entry[a])
  BY <1>0, OtherEnd DEF Typed, EntriesOK
<1>2. f # None /\ f.state = entry[a].state
  BY <1>0, <1>1, ResendShape
<1>3. Sets(a, f)
  BY <1>0, OtherEnd, SetEntrySets
<1> HIDE DEF f
<1>4. CASE Opening
  BY <1>0, <1>2, <1>4, OpeningTurn DEF IsEstablished, Has
<1>5. CASE Half(b, a)
  <2>1. /\ Has(a, "awaiting") /\ IsEstablished(b) /\ entry[a].state = "awaiting"
        /\ ~ IsEstablished(a) /\ ~ Has(b, "awaiting")
    BY <1>5 DEF Half, Has, IsEstablished
  <2>2. net' = net \cup {Ack(a, entry[a].hs)} /\ Ack(a, entry[a].hs).type = "ack"
    BY <1>0, <2>1 DEF Ack
  <2>3. entry'[b] = entry[b] /\ entry'[a] = f
    BY <1>3, OtherEnd DEF Sets
  <2>4. ~ IsEstablished(a)' /\ ~ Has(b, "awaiting")'
    BY <1>0, <1>2, <2>1, <2>3 DEF IsEstablished, Has
  <2>5. entry[b].rekey = None /\ \A m \in net : m.type = "setup" => m.from = b
    BY <2>1 DEF Keen, InTurn, Leads
  <2> QED
    BY <2>2, <2>3, <2>4, <2>5 DEF InTurn, Leads, Both
<1> QED
  BY <1>0, <1>4, <1>5, OtherEnd DEF Phase, Half, Both

LEMMA CutoverTurn ==
  ASSUME NEW a, Keen(a), Cutover(a)
  PROVE  InTurn(a, Other(a))'
<1> DEFINE b == Other(a)
<1> DEFINE f == Promote(entry[a])
<1>1. /\ IsEstablished(a) /\ CutsOver(entry[a]) /\ net' = net /\ SetEntry(a, f)
      /\ Msg3(a, entry[a].pending) \notin net
  BY DEF Cutover, Keen, Spend
<1>2. /\ entry[a] \in SessionEntry /\ Shaped(entry[a]) /\ entry[a].state = "established"
  BY <1>1, OtherEnd, EstablishedFields, EstablishedEntry
<1>3. f.rekey = None /\ f.state = "established" /\ f # None
  BY <1>1, <1>2, PromoteFields, PromoteContinues DEF Continues, CutsOver
<1>4. Sets(a, f)
  BY <1>1, OtherEnd, SetEntrySets
<1> HIDE DEF f
<1>5. Both(a, b) /\ Ready(a, b)
  BY <1>1, OtherEnd DEF Phase, Opening, Half, Both, Calm, Ready, Lead, CutsOver, IsEstablished, Has
<1>6. entry[a].rekey = None /\ entry[b].rekey = None
  BY <1>1, <1>5 DEF Ready
<1>7. Still(a, b)
  BY <1>5, <1>6 DEF Keen, InTurn, Asking, Asked, Contested, Answered, Closing, Rekeying
<1>8. entry'[a] = f /\ entry'[b] = entry[b]
  BY <1>4, OtherEnd DEF Sets
<1>9. Still(a, b)'
  BY <1>1, <1>3, <1>7, <1>8 DEF Still, NoSetup
<1>10. ~ Has(a, "awaiting")' /\ ~ Has(b, "awaiting")'
  BY <1>3, <1>5, <1>8 DEF Both, IsEstablished, Has
<1> QED
  BY <1>9, <1>10 DEF InTurn, Leads

LEMMA DrainTurn ==
  ASSUME NEW a, Keen(a), Drain(a)
  PROVE  InTurn(a, Other(a))'
<1> DEFINE b == Other(a)
<1> DEFINE f == [entry[a] EXCEPT !.prev = None]
<1>1. IsEstablished(a) /\ net' = net /\ SetEntry(a, f)
  BY DEF Drain
<1>2. /\ entry[a] \in SessionEntry /\ Shaped(entry[a]) /\ entry[a].state = "established"
  BY <1>1, OtherEnd, EstablishedFields, EstablishedEntry
<1>3. f # None
  BY <1>2, DrainContinues DEF Continues
<1>4. /\ f.state = entry[a].state /\ f.rekey = entry[a].rekey
      /\ f.initiator = entry[a].initiator /\ f.pending = entry[a].pending
  BY <1>2, DrainFields
<1>5. Sets(a, f)
  BY <1>1, OtherEnd, SetEntrySets
<1> HIDE DEF f
<1>6. entry'[a] = f /\ entry'[b] = entry[b]
  BY <1>5, OtherEnd DEF Sets
<1>7. Like(a) /\ Like(b)
  BY <1>1, <1>3, <1>4, <1>6 DEF Like, Has, IsEstablished
<1> QED
  BY <1>1, <1>7, TurnStays

LEMMA RekeyTurn ==
  ASSUME NEW a, Keen(a), Rekey(a)
  PROVE  InTurn(a, Other(a))'
<1> DEFINE b == Other(a)
<1>0. /\ a \in Node /\ b \in Node /\ b # a /\ Other(b) = a /\ Typed
      /\ (WeWin(a) <=> ~ WeWin(b)) /\ Phase(a, b)
  BY OtherEnd
<1>1. /\ IsEstablished(a) /\ entry[a].rekey = None /\ entry[a].pending = None
      /\ \A m \in net : \/ m.type = "frame" /\ m.hs = entry[a].cur
                        \/ m.type = "setup" /\ m.from # a /\ Awaited(m)
  BY DEF Rekey
<1>2. PICK i \in FreeId :
        /\ SetEntry(a, [entry[a] EXCEPT !.rekey = [i |-> i, r |-> None], !.initiator = TRUE])
        /\ net' = net \cup {Setup(a, i)}
  BY DEF Rekey
<1> DEFINE hs == [i |-> i, r |-> None]
<1> DEFINE f == [entry[a] EXCEPT !.rekey = hs, !.initiator = TRUE]
<1>3. entry[a] \in SessionEntry /\ Shaped(entry[a]) /\ entry[a].state = "established"
  BY <1>0, <1>1, EstablishedFields, EstablishedEntry
<1>4. hs \in Handshake /\ hs # None /\ hs.i = i
  <2>1. hs \in Handshake /\ hs.i = i
    BY DEF Handshake, FreeId
  <2> QED
    BY <2>1, NoneIsNothing
<1>5. /\ f.rekey = hs /\ f.initiator = TRUE /\ f.state = "established" /\ f # None
  <2> HIDE DEF hs
  <2>1. f.rekey = hs /\ f.initiator = TRUE
    BY <1>3, RekeyFields
  <2>2. f.state = "established" /\ f # None
    BY <1>3, <1>4, RekeyShape
  <2> QED
    BY <2>1, <2>2
<1>6. Sets(a, f)
  BY <1>0, <1>2, SetEntrySets
<1> HIDE DEF f, hs
<1>7. entry'[a] = f /\ entry'[b] = entry[b]
  BY <1>0, <1>6 DEF Sets
<1>8. /\ \A m \in net : m.type # "ack" /\ m.type # "msg3"
      /\ \A m \in net : m.type = "setup" => m.from # a
  BY <1>1
<1>9. Setup(a, i).type = "setup" /\ Setup(a, i).from = a
  BY DEF Setup
<1>10. Both(a, b)
  BY <1>0, <1>1, <1>8 DEF Phase, Opening, Half, Both, Msg3, IsEstablished, Has
<1>11. NoAck'
  BY <1>2, <1>8, <1>9 DEF NoAck
<1>12. Rekeying(a)' /\ Setup(a, i) \in net' /\ entry'[a].rekey.i = i
  BY <1>2, <1>4, <1>5, <1>7 DEF Rekeying
<1>13. Still(a, b) \/ Asked(b, a)
  <2>1. ~ Rekeying(a)
    BY <1>1 DEF Rekeying
  <2>2. ~ Asked(a, b) /\ ~ Contested(a, b) /\ ~ Contested(b, a)
    BY <2>1 DEF Asked, Contested
  <2>3. ~ Answered(a, b) /\ ~ Answered(b, a)
    BY <1>8 DEF Answered, Ack
  <2>4. ~ Closing(a, b) /\ ~ Closing(b, a)
    BY <1>8 DEF Closing, Msg3
  <2> QED
    BY <1>10, <2>2, <2>3, <2>4 DEF Keen, InTurn, Asking
<1>14. ASSUME Still(a, b)
       PROVE  Asked(a, b)'
  <2>1. \A m \in net' : m.type = "setup" => m.from = a
    BY <1>2, <1>9, <1>14 DEF Still, NoSetup
  <2> QED
    BY <1>7, <1>11, <1>12, <1>14, <2>1 DEF Asked, Still
<1>15. ASSUME Asked(b, a)
       PROVE  Contested(a, b)' \/ Contested(b, a)'
  <2>1. Rekeying(b)' /\ Setup(b, entry'[b].rekey.i) \in net'
    BY <1>2, <1>7, <1>15 DEF Asked, Rekeying
  <2> QED
    BY <1>0, <1>11, <1>12, <2>1 DEF Contested, WeWin
<1>16. ~ Has(a, "awaiting")' /\ ~ Has(b, "awaiting")'
  BY <1>5, <1>7, <1>10 DEF Both, IsEstablished, Has
<1> QED
  BY <1>13, <1>14, <1>15, <1>16 DEF InTurn, Leads, Asking

\* An answer or msg3 that does not overtake an earlier setup of its sender.
LEMMA NothingOvertaken ==
  ASSUME NEW a, Keen(a), NEW m \in net, m.from = Other(a), m.type \in {"ack", "msg3"},
         ~ Overtakes(m), NEW o \in net, o.type = "setup", o.from = Other(a)
  PROVE  LET f == entry[Other(a)]
         IN  f # None /\ ((f.state = "initiating" /\ f.hs = o.hs) \/ f.rekey = o.hs)
BY DEF Overtakes, Awaited

LEMMA NoSetupOf ==
  ASSUME NEW a, Keen(a), NEW m \in net, m.from = Other(a), m.type \in {"ack", "msg3"},
         ~ Overtakes(m), ~ Has(Other(a), "initiating"),
         entry[Other(a)] # None => entry[Other(a)].rekey = None
  PROVE  \A o \in net : o.type = "setup" => o.from # Other(a)
<1> SUFFICES ASSUME NEW o \in net, o.type = "setup", o.from = Other(a) PROVE FALSE
  OBVIOUS
<1>1. entry[Other(a)].rekey = o.hs
  BY NothingOvertaken DEF Has
<1>2. entry[Other(a)].rekey = None
  BY NothingOvertaken
<1>3. o.hs # None
  BY OtherEnd, DatagramFields, NoneIsNothing DEF Typed, TypeOK
<1> QED
  BY <1>1, <1>2, <1>3

LEMMA HandleSessionSetupTurn ==
  ASSUME NEW a, Keen(a), NEW m \in net, m.from = Other(a),
         HandleSessionSetup(a, m, FALSE, FALSE)
  PROVE  InTurn(a, Other(a))'
<1> DEFINE b == Other(a)
<1> DEFINE e == entry[a]
<1>0. /\ a \in Node /\ b \in Node /\ b # a /\ Other(b) = a /\ Typed /\ RekeyOn
      /\ (WeWin(a) <=> ~ WeWin(b)) /\ Phase(a, b) /\ m.type = "setup"
  BY OtherEnd DEF HandleSessionSetup
<1>1. m.hs \in Handshake /\ m.hs.i \in Id
  BY <1>0, DatagramFields DEF Typed, TypeOK
<1>2. CASE ~ IsEstablished(a) /\ ~ IsEstablished(b)
  <2>1. entry' = entry \/ \E r : SetEntry(a, NewEntry("awaiting", [i |-> m.hs.i, r |-> r]))
    BY <1>2 DEF HandleSessionSetup, SetupRekeys
  <2>2. CASE entry' = entry
    BY <1>2, <2>2, NobodyYet DEF IsEstablished, Has
  <2>3. CASE \E r : SetEntry(a, NewEntry("awaiting", [i |-> m.hs.i, r |-> r]))
    <3>1. PICK r : SetEntry(a, NewEntry("awaiting", [i |-> m.hs.i, r |-> r]))
      BY <2>3
    <3>2. NewEntry("awaiting", [i |-> m.hs.i, r |-> r]).state # "established"
      BY DEF NewEntry
    <3>3. Opening
      BY <1>0, <1>2 DEF Phase, Half, Both
    <3> QED
      BY <3>1, <3>2, <3>3, OpeningTurn
  <2> QED
    BY <2>1, <2>2, <2>3
<1>3. CASE ~ IsEstablished(a) /\ IsEstablished(b)
  <2>1. Half(b, a)
    BY <1>0, <1>3 DEF Phase, Opening, Half, Both, IsEstablished, Has
  <2>2. Has(a, "awaiting") /\ ~ SetupIgnored(a)
    BY <1>3, <2>1 DEF Half, SetupIgnored, Has
  <2>3. entry' = entry /\ net' = (net \ {m}) \cup {Ack(a, e.hs)}
    BY <2>2 DEF HandleSessionSetup, SetupRepeated, Take
  <2>4. \A x \in net' : x.type = "setup" => x \in net
    BY <2>3 DEF Ack
  <2>5. Leads(a, b) /\ Leads(b, a)
    BY DEF Keen, InTurn
  <2> QED
    BY <1>3, <2>3, <2>4, <2>5 DEF InTurn, Leads, Both, IsEstablished, Has
<1>4. CASE IsEstablished(a)
  <2>1. Both(a, b)
    <3>1. ~ Half(a, b)
      BY <1>0 DEF Keen, InTurn, Leads, Half
    <3> QED
      BY <1>0, <1>4, <3>1 DEF Phase, Opening, Half, Both, IsEstablished, Has
  <2>2. \/ Asked(b, a) \/ Contested(a, b) \/ Contested(b, a)
        \/ Answered(a, b)
    <3>1. ~ Still(a, b) /\ ~ Closing(a, b) /\ ~ Closing(b, a)
      BY <1>0 DEF Still, Closing, NoSetup
    <3>2. ~ Asked(a, b) /\ ~ Answered(b, a)
      BY <1>0 DEF Asked, Answered
    <3> QED
      BY <2>1, <3>1, <3>2 DEF Keen, InTurn, Asking
  <2>3. ~ Has(a, "awaiting") /\ ~ Has(b, "awaiting") /\ IsEstablished(b)
    BY <2>1 DEF Both, IsEstablished, Has
  <2>4. CASE Contested(a, b) \/ Answered(a, b)
    <3>1. SetupIgnored(a)
      BY <1>0, <1>4, <2>1, <2>4 DEF SetupIgnored, Contested, Answered, Rekeying
    <3>2. entry' = entry /\ net' = net \ {m}
      BY <3>1 DEF HandleSessionSetup, Take
    <3>3. ASSUME Contested(a, b)
          PROVE  Contested(a, b)'
      <4>1. Setup(a, e.rekey.i) \in net'
        BY <1>0, <3>2, <3>3 DEF Contested, Setup
      <4> QED
        BY <3>2, <3>3, <4>1 DEF Contested, NoAck, Rekeying
    <3>4. ASSUME Answered(a, b)
          PROVE  Answered(a, b)'
      <4>1. Ack(b, entry[b].rekey) \in net'
        BY <1>0, <3>2, <3>4 DEF Answered, Ack
      <4> QED
        BY <3>2, <3>4, <4>1 DEF Answered, Rekeying
    <3> QED
      BY <2>3, <2>4, <3>2, <3>3, <3>4 DEF InTurn, Leads, Asking, IsEstablished, Has
  <2>5. CASE Asked(b, a) \/ Contested(b, a)
    <3>1. Rekeying(b) /\ NoAck
      BY <2>5 DEF Asked, Contested
    <3>2. Calm(b, a) /\ Asks(b, a)
      <4>1. Phase(b, a)
        BY <1>0, PhaseOf
      <4> QED
        BY <1>0, <2>3, <3>1, <4>1, RekeyingIsCalm
    <3>3. m.hs = entry[b].rekey
      BY <1>0, <3>2 DEF Asks
    <3>4. \A x \in net : x.type = "setup" /\ x.from = b => x = m
      <4> SUFFICES ASSUME NEW x \in net, x.type = "setup", x.from = b PROVE x = m
        OBVIOUS
      <4>1. x.hs = m.hs
        BY <3>2, <3>3 DEF Asks
      <4> QED
        BY <1>0, <4>1, OneSetup DEF Typed, TypeOK
    <3>5. ~ SetupIgnored(a) /\ ~ SetupRepeated(a) /\ SetupRekeys(a)
      <4>1. ~ SetupIgnored(a)
        BY <1>0, <1>4, <2>3, <2>5, <3>2
           DEF SetupIgnored, Asked, Contested, Calm, IsEstablished, Has
      <4> QED
        BY <1>0, <1>4, <2>3, <4>1 DEF SetupRepeated, SetupRekeys
    <3> DEFINE lost == IF e.rekey # None THEN AbandonRekey(e) ELSE e
    <3>6. PICK r \in FreeId :
            LET hs == [i |-> m.hs.i, r |-> r]
            IN  /\ net' = (net \ {m}) \cup {Ack(a, hs)}
                /\ SetEntry(a, [lost EXCEPT !.rekey = hs, !.initiator = FALSE])
      BY <3>5 DEF HandleSessionSetup, Take
    <3> DEFINE hs == [i |-> m.hs.i, r |-> r]
    <3>7. hs \in Handshake /\ hs.i = m.hs.i /\ hs.r = r /\ hs # None /\ r # None
      <4>1. hs \in Handshake /\ hs.i = m.hs.i /\ hs.r = r /\ r \in Nat
        BY <1>1, IdAssumption DEF FreeId, Handshake
      <4> QED
        BY <4>1, NoneIsNothing, NoneAssumption
    <3> HIDE DEF hs
    <3>8. Shaped(e) /\ e.state = "established" /\ e \in SessionEntry /\ e # None
      BY <1>0, <1>4, EstablishedEntry, EstablishedFields
    <3>9. lost \in SessionEntry /\ Shaped(lost) /\ lost.state = "established"
      <4>1. CASE e.rekey = None
        BY <3>8, <4>1
      <4>2. CASE e.rekey # None
        <5>1. Shaped(AbandonRekey(e)) /\ AbandonRekey(e).state = "established"
          BY <3>8, AbandonContinues DEF Continues
        <5> QED
          BY <4>2, <5>1 DEF Shaped
      <4> QED
        BY <4>1, <4>2
    <3> HIDE DEF lost
    <3> DEFINE f == [lost EXCEPT !.rekey = hs, !.initiator = FALSE]
    <3>10. f.rekey = hs /\ f.initiator = FALSE
      BY <3>9, RekeyFields
    <3>11. f # None /\ f.state = "established"
      BY <3>7, <3>9, RekeyShape
    <3>12. net' = (net \ {m}) \cup {Ack(a, hs)} /\ SetEntry(a, f)
      BY <3>6 DEF hs
    <3>13. Sets(a, f)
      BY <1>0, <3>12, SetEntrySets
    <3> HIDE DEF f
    <3>14. entry'[a] = f /\ entry'[b] = entry[b]
      BY <1>0, <3>13 DEF Sets
    <3>15. Ack(a, hs).type = "ack" /\ Ack(a, hs).from = a
      BY DEF Ack
    <3>16. ASSUME NEW x \in net', x.type = "setup"
           PROVE  x.from = a /\ WeWin(b) /\ x.hs # hs
      <4>1. x \in net /\ x # m
        BY <3>12, <3>15, <3>16
      <4>2. x.from = a
        <5>1. x.from \in Node
          BY <1>0, <4>1, DatagramFields DEF Typed, TypeOK
        <5> QED
          BY <1>0, <3>4, <3>16, <4>1, <5>1, Ends
      <4>3. Contested(b, a)
        BY <1>0, <2>5, <3>16, <4>1, <4>2 DEF Asked
      <4>4. Asks(a, b)
        BY <1>0, <1>4, <4>3, RekeyingIsCalm DEF Contested
      <4>5. x.hs.r = None
        BY <3>16, <4>1, <4>2, <4>4 DEF Asks
      <4> QED
        BY <3>7, <4>2, <4>3, <4>5 DEF Contested
    <3>17. \A x \in net' : x.type = "ack" => x = Ack(a, hs)
      BY <3>1, <3>12 DEF NoAck
    <3>18. Rekeying(b)' /\ entry'[b].rekey.i = hs.i
      BY <3>1, <3>3, <3>7, <3>14 DEF Rekeying
    <3>19. Answered(b, a)'
      BY <3>7, <3>10, <3>12, <3>14, <3>16, <3>17, <3>18 DEF Answered
    <3>20. ~ Has(a, "awaiting")' /\ ~ Has(b, "awaiting")'
      BY <2>3, <3>11, <3>14 DEF Has
    <3> QED
      BY <3>19, <3>20 DEF InTurn, Leads, Asking
  <2> QED
    BY <2>2, <2>4, <2>5
<1> QED
  BY <1>2, <1>3, <1>4

LEMMA HandleSessionAckTurn ==
  ASSUME NEW a, Keen(a), NEW m \in net, m.from = Other(a), ~ Overtakes(m),
         HandleSessionAck(a, m, FALSE, FALSE)
  PROVE  InTurn(a, Other(a))'
<1> DEFINE b == Other(a)
<1> DEFINE e == entry[a]
<1>0. /\ a \in Node /\ b \in Node /\ b # a /\ Other(b) = a /\ Typed /\ m.type = "ack"
      /\ Phase(a, b) /\ m.hs \in Session /\ m.hs # None
  <2>1. m.type = "ack"
    BY DEF HandleSessionAck
  <2> QED
    BY <2>1, OtherEnd, DatagramFields, NoneIsNothing DEF Typed, TypeOK
<1>1. CASE Has(a, "initiating")
  <2>1. ~ IsEstablished(a) /\ ~ Has(a, "awaiting")
    BY <1>1 DEF IsEstablished, Has
  <2>2. Opening
    BY <1>0, <2>1, NoSessionYet
  <2>3. CASE e.hs.i # m.hs.i
    <3>1. SetEntry(a, None)
      BY <1>1, <2>1, <2>3 DEF HandleSessionAck
    <3> QED
      BY <2>2, <3>1, OpeningTurn
  <2>4. CASE ~ (e.hs.i # m.hs.i)
    <3> DEFINE f == NewSession(m.hs)
    <3>1. /\ SetEntry(a, f)
          /\ net' = (net \ {m}) \cup ({Msg3(a, m.hs)} \cup Flushed(a, f))
      BY <1>1, <2>1, <2>4 DEF HandleSessionAck, Take
    <3>2. f.rekey = None /\ f.state = "established"
      BY NewSessionFields
    <3>3. Sets(a, f)
      BY <1>0, <3>1, SetEntrySets
    <3> HIDE DEF f
    <3>4. /\ Msg3(a, m.hs).type = "msg3"
          /\ \A x \in Flushed(a, f) : x.type = "frame"
      BY <1>0, FramesFlushed DEF Msg3
    <3>5. /\ Has(b, "awaiting") /\ ~ IsEstablished(b) /\ ~ Has(b, "initiating")
          /\ entry[b].rekey = None
      <4>1. Has(b, "awaiting")
        BY <1>0, <2>2 DEF Opening
      <4>2. Shaped(entry[b]) /\ entry[b].state = "awaiting"
        BY <1>0, <4>1 DEF Typed, EntriesOK, Has
      <4> QED
        BY <4>1, <4>2 DEF Shaped, IsEstablished, Has
    <3>6. \A x \in net : x.type = "setup" => x.from # b
      BY <1>0, <3>5, NoSetupOf
    <3>7. \A x \in net' : x.type = "setup" => x.from = a
      <4> SUFFICES ASSUME NEW x \in net', x.type = "setup" PROVE x.from = a
        OBVIOUS
      <4>1. x \in net
        BY <3>1, <3>4
      <4>2. x.from \in Node
        BY <1>0, <4>1, DatagramFields DEF Typed, TypeOK
      <4> QED
        BY <1>0, <3>6, <4>1, <4>2, Ends
    <3>8. entry'[a] = f /\ entry'[b] = entry[b]
      BY <1>0, <3>3 DEF Sets
    <3>9. ~ IsEstablished(b)'
      BY <3>5, <3>8 DEF IsEstablished, Has
    <3> QED
      BY <3>2, <3>7, <3>8, <3>9 DEF InTurn, Leads, Both
  <2> QED
    BY <2>3, <2>4
<1>2. CASE IsEstablished(a) /\ Rekeying(a)
  <2>1. Both(a, b) /\ Calm(a, b) /\ Asks(a, b)
    BY <1>0, <1>2, RekeyingIsCalm
  <2>2. Answered(a, b)
    <3>1. ~ Still(a, b) /\ ~ Closing(a, b) /\ ~ Closing(b, a)
      BY <1>2 DEF Still, Closing, Rekeying
    <3>2. ~ Asked(a, b) /\ ~ Asked(b, a) /\ ~ Contested(a, b) /\ ~ Contested(b, a)
      BY <1>0 DEF Asked, Contested, NoAck
    <3>3. ~ Answered(b, a)
      BY <1>2 DEF Answered, Rekeying
    <3> QED
      BY <2>1, <3>1, <3>2, <3>3 DEF Keen, InTurn, Asking
  <2>3. m.hs = entry[b].rekey /\ e.rekey.i = m.hs.i /\ ~ entry[b].initiator
    BY <1>0, <2>2 DEF Answered, Ack
  <2> DEFINE f == SetPendingSession(e, m.hs)
  <2>4. SetEntry(a, f) /\ net' = (net \ {m}) \cup {Msg3(a, m.hs)}
    BY <1>2, <2>3 DEF HandleSessionAck, Take, Rekeying
  <2>5. Shaped(e) /\ e.state = "established" /\ e \in SessionEntry
    BY <1>0, <1>2, EstablishedEntry, EstablishedFields
  <2>6. f.rekey = None /\ f.pending = m.hs /\ f.state = "established"
    BY <2>5, SetPendingFields
  <2>7. Sets(a, f)
    BY <1>0, <2>4, SetEntrySets
  <2> HIDE DEF f
  <2>8. entry'[a] = f /\ entry'[b] = entry[b]
    BY <1>0, <2>7 DEF Sets
  <2>9. NoSetup'
    <3> SUFFICES ASSUME NEW x \in net', x.type = "setup" PROVE FALSE
      BY DEF NoSetup
    <3>1. x \in net
      BY <2>4 DEF Msg3
    <3>2. x.from = b /\ x.hs # entry[b].rekey
      BY <2>2, <3>1 DEF Answered
    <3>3. ~ Has(b, "initiating")
      BY <2>1 DEF Both, IsEstablished, Has
    <3> QED
      BY <1>0, <3>1, <3>2, <3>3, NothingOvertaken DEF Has
  <2>10. Closing(a, b)'
    BY <1>0, <2>3, <2>4, <2>6, <2>8, <2>9 DEF Closing
  <2>11. ~ Has(a, "awaiting")' /\ ~ Has(b, "awaiting")'
    BY <2>1, <2>6, <2>8 DEF Both, IsEstablished, Has
  <2> QED
    BY <2>10, <2>11 DEF InTurn, Leads, Asking
<1>3. CASE ~ Has(a, "initiating") /\ ~ (IsEstablished(a) /\ Rekeying(a))
  <2>1. entry' = entry /\ net' = net \ {m}
    BY <1>3 DEF HandleSessionAck, Take, Rekeying
  <2>2. Leads(a, b)' /\ Leads(b, a)'
    <3>1. Leads(a, b) /\ Leads(b, a)
      BY DEF Keen, InTurn
    <3> QED
      BY <2>1, <3>1 DEF Leads, IsEstablished, Has
  <2>3. ASSUME Both(a, b)'
        PROVE  Still(a, b)' \/ Closing(a, b)' \/ Closing(b, a)'
    <3>1. Both(a, b)
      BY <2>1, <2>3 DEF Both, IsEstablished, Has
    <3>2. ~ Asked(a, b) /\ ~ Asked(b, a) /\ ~ Contested(a, b) /\ ~ Contested(b, a)
      BY <1>0 DEF Asked, Contested, NoAck
    <3>3. ~ Answered(a, b)
      BY <1>3, <3>1 DEF Answered, Both
    <3>4. ~ Answered(b, a)
      BY <1>0 DEF Answered, Ack
    <3>5. Still(a, b) \/ Closing(a, b) \/ Closing(b, a)
      BY <3>1, <3>2, <3>3, <3>4 DEF Keen, InTurn, Asking
    <3>6. /\ \A n, hs : Msg3(n, hs) \in net => Msg3(n, hs) \in net'
          /\ NoSetup => NoSetup'
      BY <1>0, <2>1 DEF Msg3, NoSetup
    <3> QED
      BY <2>1, <3>5, <3>6 DEF Still, Closing
  <2> QED
    BY <2>2, <2>3 DEF InTurn, Asking
<1> QED
  BY <1>1, <1>2, <1>3

LEMMA HandleSessionMsg3Turn ==
  ASSUME NEW a, Keen(a), NEW m \in net, m.from = Other(a), ~ Overtakes(m),
         HandleSessionMsg3(a, m, FALSE)
  PROVE  InTurn(a, Other(a))'
<1> DEFINE b == Other(a)
<1>0. /\ a \in Node /\ b \in Node /\ b # a /\ Other(b) = a /\ Typed /\ m.type = "msg3"
      /\ Phase(a, b) /\ m.hs \in Session /\ m.hs # None
  <2>1. m.type = "msg3"
    BY DEF HandleSessionMsg3
  <2> QED
    BY <2>1, OtherEnd, DatagramFields, NoneIsNothing DEF Typed, TypeOK
<1>1. CASE Half(b, a)
  <2> DEFINE f == NewSession(m.hs)
  <2>1. /\ Has(a, "awaiting") /\ ~ IsEstablished(a) /\ m.hs = entry[a].hs
        /\ IsEstablished(b) /\ ~ Has(b, "initiating") /\ ~ Has(b, "awaiting")
    BY <1>0, <1>1 DEF Half, Has, IsEstablished, Msg3
  <2>2. SetEntry(a, f) /\ net' = (net \ {m}) \cup Flushed(a, f)
    BY <2>1 DEF HandleSessionMsg3, Take
  <2>3. f.rekey = None /\ f.state = "established"
    BY NewSessionFields
  <2>4. Sets(a, f)
    BY <1>0, <2>2, SetEntrySets
  <2> HIDE DEF f
  <2>5. \A x \in Flushed(a, f) : x.type = "frame"
    BY <1>0, FramesFlushed
  <2>6. entry[b].rekey = None /\ \A x \in net : x.type = "setup" => x.from = b
    BY <2>1 DEF Keen, InTurn, Leads
  <2>7. \A x \in net : x.type = "setup" => x.from # b
    BY <1>0, <2>1, <2>6, NoSetupOf
  <2>8. NoSetup'
    BY <2>2, <2>5, <2>6, <2>7 DEF NoSetup
  <2>9. entry'[a] = f /\ entry'[b] = entry[b]
    BY <1>0, <2>4 DEF Sets
  <2>10. Still(a, b)'
    BY <2>3, <2>6, <2>8, <2>9 DEF Still
  <2>11. ~ Has(a, "awaiting")' /\ ~ Has(b, "awaiting")'
    BY <2>1, <2>3, <2>9 DEF Has
  <2> QED
    BY <2>10, <2>11 DEF InTurn, Leads
<1>2. CASE /\ Both(a, b) /\ Ready(b, a) /\ m = Msg3(b, entry[b].pending)
           /\ entry[a].rekey = m.hs /\ entry[a].rekey # None /\ ~ entry[a].initiator
  <2> DEFINE f == SetPendingSession(entry[a], m.hs)
  <2>1. SetEntry(a, f) /\ net' = net \ {m}
    BY <1>2 DEF HandleSessionMsg3, Take, Both
  <2>2. entry[a] \in SessionEntry /\ entry[a].state = "established"
    BY <1>0, <1>2, EstablishedEntry, EstablishedFields DEF Both
  <2>3. f.rekey = None /\ f.state = "established"
    BY <2>2, SetPendingFields
  <2>4. Sets(a, f)
    BY <1>0, <2>1, SetEntrySets
  <2> HIDE DEF f
  <2>5. entry'[a] = f /\ entry'[b] = entry[b]
    BY <1>0, <2>4 DEF Sets
  <2>6. entry[b].rekey = None
    BY <1>2 DEF Ready
  <2>7. Closing(b, a)
    BY <1>2, <2>6 DEF Keen, InTurn, Still, Asking, Asked, Contested, Answered, Closing, Rekeying
  <2>8. NoSetup'
    BY <2>1, <2>7 DEF Closing, NoSetup
  <2>9. Still(a, b)'
    BY <2>3, <2>5, <2>6, <2>8 DEF Still
  <2>10. ~ Has(a, "awaiting")' /\ ~ Has(b, "awaiting")'
    BY <1>2, <2>3, <2>5 DEF Both, IsEstablished, Has
  <2> QED
    BY <2>9, <2>10 DEF InTurn, Leads
<1> QED
  BY <1>0, <1>1, <1>2, Msg3Phase

LEMMA HandleEncryptedSessionMsgTurn ==
  ASSUME NEW a, Keen(a), NEW m \in net, m.from = Other(a),
         HandleEncryptedSessionMsg(a, m, FALSE)
  PROVE  InTurn(a, Other(a))'
<1> DEFINE b == Other(a)
<1> DEFINE e == AfterKBit(entry[a], m)
<1>0. /\ a \in Node /\ b \in Node /\ b # a /\ Other(b) = a /\ Typed /\ m.type = "frame"
      /\ Phase(a, b)
  BY OtherEnd DEF HandleEncryptedSessionMsg
<1>1. CASE ~ IsEstablished(a)
  <2>1. entry' = entry /\ net' = net \ {m}
    BY <1>1 DEF HandleEncryptedSessionMsg, Take
  <2> QED
    BY <1>0, <2>1, SameTurn
<1>2. CASE IsEstablished(a)
  <2>1. queue[a] = 0
    BY <1>0, <1>2, EstablishedEntry
  <2>2. SetEntry(a, e) /\ net' = net \ {m}
    BY <1>2, <2>1 DEF HandleEncryptedSessionMsg, Take, Flushed
  <2>3. Sets(a, e)
    BY <1>0, <2>2, SetEntrySets
  <2>4. entry'[a] = e /\ entry'[b] = entry[b]
    BY <1>0, <2>3 DEF Sets
  <2>5. CASE m.k # entry[a].k /\ entry[a].pending # None
    <3>1. Both(a, b) /\ Lead(b, a)
      BY <1>0, <1>2, <2>5, FlipPhase
    <3>2. /\ entry[a] \in SessionEntry /\ entry[a].state = "established"
      BY <1>0, <1>2, EstablishedEntry, EstablishedFields
    <3>3. e.rekey = None /\ e.state = "established"
      BY <2>5, <3>2, PromoteFields DEF AfterKBit
    <3> HIDE DEF e
    <3>4. Still(a, b)
      <4>1. ~ Closing(a, b) /\ ~ Closing(b, a)
        BY <3>1 DEF Closing, Lead, Msg3
      <4>2. ~ Rekeying(a) /\ ~ Rekeying(b)
        BY <3>1 DEF Lead, Rekeying
      <4> QED
        BY <3>1, <4>1, <4>2 DEF Keen, InTurn, Asking, Asked, Contested, Answered
    <3>5. Still(a, b)'
      BY <2>2, <2>4, <3>3, <3>4 DEF Still, NoSetup
    <3>6. ~ Has(a, "awaiting")' /\ ~ Has(b, "awaiting")'
      BY <2>4, <3>1, <3>3 DEF Both, IsEstablished, Has
    <3> QED
      BY <3>5, <3>6 DEF InTurn, Leads
  <2>6. CASE ~ (m.k # entry[a].k /\ entry[a].pending # None)
    <3>1. entry'[a] = entry[a]
      BY <2>4, <2>6 DEF AfterKBit
    <3>2. Like(a) /\ Like(b)
      BY <2>4, <3>1 DEF Like, Has, IsEstablished
    <3> QED
      BY <1>0, <2>2, <3>2, TurnStays
  <2> QED
    BY <2>5, <2>6
<1> QED
  BY <1>1, <1>2

LEMMA ReceiveTurn ==
  ASSUME NEW a, Keen(a), NEW m \in net, Receive(a, m)
  PROVE  InTurn(a, Other(a))'
<1>1. m.from = Other(a)
  <2>1. m.from \in Node /\ m.from # a /\ a \in Node
    BY OtherEnd, DatagramFields DEF Receive, Typed, TypeOK
  <2> QED
    BY <2>1, Ends
<1>2. ~ Spend("repeat", TRUE) /\ ~ Spend("noroute", TRUE)
  BY DEF Keen, Spend
<1>3. Spend("late", Overtakes(m)) => ~ Overtakes(m)
  BY DEF Keen, Spend
<1>4. /\ ~ Overtakes(m)
      /\ \/ HandleSessionSetup(a, m, FALSE, FALSE) \/ HandleSessionAck(a, m, FALSE, FALSE)
         \/ HandleSessionMsg3(a, m, FALSE) \/ HandleEncryptedSessionMsg(a, m, FALSE)
  BY <1>2, <1>3 DEF Receive
<1> QED
  BY <1>1, <1>4, HandleSessionSetupTurn, HandleSessionAckTurn, HandleSessionMsg3Turn,
     HandleEncryptedSessionMsgTurn

LEMMA EndTurn ==
  ASSUME NEW a, Keen(a), EndActs(a)
  PROVE  InTurn(a, Other(a))'
<1>1. CASE LookupTimedOut(a)
  BY <1>1, SameTurn DEF LookupTimedOut
<1>2. ~ Forget(a)
  BY DEF Keen, Forget, Spend
<1> QED
  BY <1>1, <1>2, HandleTunOutboundTurn, SendsTurn, LookupAnsweredTurn, TimeoutHandshakeTurn,
     ResendHandshakeTurn, CutoverTurn, DrainTurn, RekeyTurn, ReceiveTurn DEF EndActs

LEMMA InitPrompt == Init => Prompt
<1> SUFFICES ASSUME Init PROVE \E n \in Node : InTurn(n, Other(n))
  BY DEF Prompt
<1>1. \A q \in Node : ~ IsEstablished(q)
  BY DEF Init, IsEstablished, Has
<1>2. \A n \in Node : InTurn(n, Other(n))
  BY <1>1, Ends DEF InTurn, Leads, Both
<1> QED
  BY <1>2, NodeAssumption

LEMMA NextPrompt == RekeyOn /\ IndInv /\ Coupled /\ Prompt /\ [Next]_vars => Prompt'
<1> SUFFICES ASSUME RekeyOn, Typed, Coupled, Prompt, [Next]_vars, (faults \subseteq {"frame"})'
             PROVE  (\E n \in Node : InTurn(n, Other(n)))'
  BY DEF IndInv, Prompt
<1>1. faults' \subseteq {"frame"} /\ faults \subseteq {"frame"}
  BY FaultsStay
<1>2. faults' \subseteq Harmless /\ faults \subseteq Harmless
  BY <1>1 DEF Harmless
<1>3. \A a \in Node : Keen(a)
  BY <1>1, <1>2, PhaseOf, TurnOf DEF Coupled, Prompt, Acts, Keen
<1>4. SUFFICES \E a \in Node : InTurn(a, Other(a))'
  BY DEF Other
<1>5. ASSUME NEW n \in Node, EndActs(n)
      PROVE  InTurn(n, Other(n))'
  BY <1>3, <1>5, EndTurn
<1>6. ASSUME NEW a \in Node, NEW m \in net, Lose(m)
      PROVE  InTurn(a, Other(a))'
  <2>1. m.type = "frame" /\ net' = net \ {m} /\ entry' = entry
    BY <1>1, <1>6 DEF Lose, Spend
  <2> QED
    BY <1>3, <2>1, SameTurn
<1>7. ASSUME NEW a \in Node, UNCHANGED vars
      PROVE  InTurn(a, Other(a))'
  <2>1. entry' = entry /\ net' = net
    BY <1>7 DEF vars
  <2> QED
    BY <1>3, <2>1, SameTurn
<1>8. PICK a \in Node : TRUE
  BY NodeAssumption
<1> QED
  BY <1>5, <1>6, <1>7, <1>8 DEF Next, EndActs

-----------------------------------------------------------------------------
(* Without rekeys (node.rekey.enabled = false) no entry ever holds one.    *)

Bare(e) == e = None \/ (e.rekey = None /\ e.pending = None)
Unrekeyed == \A n \in Node : Bare(entry[n])

LEMMA BareEntries ==
  ASSUME NEW state, NEW hs
  PROVE  Bare(NewEntry(state, hs)) /\ Bare(NewSession(hs))
BY NewSessionFields DEF Bare, NewEntry

LEMMA SetBare ==
  ASSUME Typed, Unrekeyed, NEW n \in Node, NEW e, Bare(e), SetEntry(n, e)
  PROVE  Unrekeyed'
BY DEF Unrekeyed, Bare, SetEntry, Typed, TypeOK

LEMMA SetupBare ==
  ASSUME Typed, ~ RekeyOn, Unrekeyed, NEW n \in Node, NEW m \in net,
         NEW repeated, NEW noRoute, HandleSessionSetup(n, m, repeated, noRoute)
  PROVE  Unrekeyed'
<1>1. ~ SetupRekeys(n)
  BY DEF SetupRekeys
<1>2. CASE UNCHANGED entry
  BY <1>2 DEF Unrekeyed, Bare
<1>3. ASSUME ~ UNCHANGED entry
      PROVE  SetEntry(n, entry[n]) \/ \E hs : SetEntry(n, NewEntry("awaiting", hs))
  BY <1>1, <1>3, Zenon DEF HandleSessionSetup
<1>4. Bare(entry[n])
  BY DEF Unrekeyed
<1> QED
  BY <1>2, <1>3, <1>4, SetBare, BareEntries

LEMMA AckBare ==
  ASSUME Typed, Unrekeyed, NEW n \in Node, NEW m \in net,
         NEW repeated, NEW noRoute, HandleSessionAck(n, m, repeated, noRoute)
  PROVE  Unrekeyed'
<1>1. ~ (IsEstablished(n) /\ entry[n].rekey # None /\ entry[n].initiator)
  BY DEF Unrekeyed, Bare, IsEstablished, Has
<1>2. \/ UNCHANGED entry
      \/ SetEntry(n, None) \/ SetEntry(n, NewSession(m.hs))
  BY <1>1, Zenon DEF HandleSessionAck
<1>3. Bare(None)
  BY DEF Bare
<1>4. CASE UNCHANGED entry
  BY <1>4 DEF Unrekeyed, Bare
<1> QED
  BY <1>2, <1>3, <1>4, SetBare, BareEntries

LEMMA Msg3Bare ==
  ASSUME Typed, Unrekeyed, NEW n \in Node, NEW m \in net,
         NEW repeated, HandleSessionMsg3(n, m, repeated)
  PROVE  Unrekeyed'
<1>1. ~ (IsEstablished(n) /\ entry[n].rekey # None /\ ~ entry[n].initiator)
  BY DEF Unrekeyed, Bare, IsEstablished, Has
<1>2. \/ UNCHANGED entry
      \/ SetEntry(n, None) \/ SetEntry(n, NewSession(m.hs))
  BY <1>1, Zenon DEF HandleSessionMsg3
<1>3. Bare(None)
  BY DEF Bare
<1>4. CASE UNCHANGED entry
  BY <1>4 DEF Unrekeyed, Bare
<1> QED
  BY <1>2, <1>3, <1>4, SetBare, BareEntries

LEMMA FrameBare ==
  ASSUME Typed, Unrekeyed, NEW n \in Node, NEW m \in net,
         NEW repeated, HandleEncryptedSessionMsg(n, m, repeated)
  PROVE  Unrekeyed'
<1>1. CASE UNCHANGED entry
  BY <1>1 DEF Unrekeyed, Bare
<1>2. CASE ~ UNCHANGED entry
  <2>1. IsEstablished(n) /\ SetEntry(n, AfterKBit(entry[n], m))
    BY <1>2 DEF HandleEncryptedSessionMsg
  <2>2. Bare(entry[n]) /\ AfterKBit(entry[n], m) = entry[n]
    BY <2>1 DEF Unrekeyed, Bare, IsEstablished, Has, AfterKBit
  <2> QED
    BY <2>1, <2>2, SetBare
<1> QED
  BY <1>1, <1>2

LEMMA NextUnrekeyed == ~ RekeyOn /\ IndInv /\ Unrekeyed /\ [Next]_vars => Unrekeyed'
<1> SUFFICES ASSUME ~ RekeyOn, Typed, Unrekeyed, [Next]_vars PROVE Unrekeyed'
  BY DEF IndInv
<1>1. CASE UNCHANGED entry
  BY <1>1 DEF Unrekeyed, Bare
<1>2. ASSUME NEW n \in Node, Initiate(n) PROVE Unrekeyed'
  BY <1>2, SetBare, BareEntries DEF Initiate
<1>3. ASSUME NEW n \in Node, NEW m \in net, Receive(n, m) PROVE Unrekeyed'
  BY <1>3, SetupBare, AckBare, Msg3Bare, FrameBare, Zenon DEF Receive
<1>4. ASSUME NEW n \in Node, TimeoutHandshake(n) \/ Forget(n) PROVE Unrekeyed'
  <2>1. SetEntry(n, None) /\ Bare(None)
    BY <1>4 DEF TimeoutHandshake, Forget, Bare
  <2> QED
    BY <2>1, SetBare
<1>5. ASSUME NEW n \in Node, entry[n] # None, ResendHandshake(n) \/ Drain(n) PROVE Unrekeyed'
  <2>1. entry[n] \in SessionEntry /\ Bare(entry[n])
    BY <1>5 DEF Typed, TypeOK, Unrekeyed
  <2>2. CASE ResendHandshake(n)
    <3>1. SetEntry(n, [entry[n] EXCEPT !.resends = @ + 1])
      BY <2>2 DEF ResendHandshake
    <3>2. Bare([entry[n] EXCEPT !.resends = @ + 1])
      BY <1>5, <2>1 DEF Bare, SessionEntry
    <3> QED
      BY <3>1, <3>2, SetBare
  <2>3. CASE Drain(n)
    <3>1. SetEntry(n, [entry[n] EXCEPT !.prev = None])
      BY <2>3 DEF Drain
    <3>2. Bare([entry[n] EXCEPT !.prev = None])
      BY <1>5, <2>1, DrainFields DEF Bare
    <3> QED
      BY <3>1, <3>2, SetBare
  <2> QED
    BY <1>5, <2>2, <2>3
<1>6. ASSUME NEW n \in Node PROVE ~ Cutover(n) /\ ~ Rekey(n)
  BY DEF Cutover, CutsOver, Rekey, Unrekeyed, Bare, IsEstablished, Has
<1>7. ASSUME NEW n \in Node, SendFrame(n) \/ HandleErrorSignal(n) \/ LookupTimedOut(n)
      PROVE  Unrekeyed'
  BY <1>1, <1>7 DEF SendFrame, HandleErrorSignal, LookupTimedOut
<1>8. ASSUME NEW n \in Node, HandleTunOutbound(n) \/ LookupAnswered(n) PROVE Unrekeyed'
  <2>1. UNCHANGED entry \/ Initiate(n)
    BY <1>8, Zenon DEF HandleTunOutbound, LookupAnswered
  <2> QED
    BY <1>1, <1>2, <2>1
<1>9. ASSUME NEW m \in net, Lose(m) PROVE Unrekeyed'
  BY <1>1, <1>9 DEF Lose
<1>10. ASSUME NEW n \in Node, ResendHandshake(n) \/ Drain(n) PROVE entry[n] # None
  BY <1>10 DEF ResendHandshake, Drain, IsEstablished, Has
<1>11. CASE UNCHANGED vars
  BY <1>1, <1>11 DEF vars
<1> QED
  BY <1>3, <1>4, <1>5, <1>6, <1>7, <1>8, <1>9, <1>10, <1>11 DEF Next

\* No tie-break leaves both ends waiting for each other: while nothing but frames is
\* lost, a rekey whose datagrams are all gone has completed, and one of the two ends
\* will cut over or has.  Without rekeys there is none to wait for.
THEOREM SessionRekeyCompletes == Spec => []NobodyWaitsForNothing
<1>1. Typed /\ Coupled /\ Prompt => NobodyWaitsForNothing
  <2> SUFFICES ASSUME Typed, Coupled, Prompt, faults \subseteq {"frame"}, NoHandshake,
                      NEW n \in Node, IsEstablished(n)
               PROVE  /\ entry[n].rekey = None
                      /\ entry[n].pending # None =>
                           \/ CutsOver(entry[n])
                           \/ /\ IsEstablished(Other(n))
                              /\ \/ CutsOver(entry[Other(n)])
                                 \/ entry[Other(n)].cur = entry[n].pending
    BY DEF NobodyWaitsForNothing
  <2> DEFINE p == Other(n)
  <2>1. p \in Node /\ Phase(n, p) /\ InTurn(n, p)
    BY Ends, PhaseOf, TurnOf DEF Coupled, Prompt, Harmless
  <2>2. \A m \in net : m.type = "frame"
    BY DEF NoHandshake
  <2>3. Both(n, p) /\ (Calm(n, p) \/ Ready(n, p) \/ Ready(p, n) \/ Lead(n, p) \/ Lead(p, n))
    BY <2>1, <2>2 DEF Phase, Opening, Half, Msg3
  <2>4. Still(n, p)
    <3>1. \A x, y : ~ Asked(x, y) /\ ~ Contested(x, y)
      BY <2>2 DEF Asked, Contested, Setup
    <3>2. \A x, y : ~ Answered(x, y) /\ ~ Closing(x, y)
      BY <2>2 DEF Answered, Closing, Ack, Msg3
    <3> QED
      BY <2>1, <2>3, <3>1, <3>2 DEF InTurn, Asking
  <2>5. entry[n].rekey = None /\ entry[p].rekey = None
    BY <2>4 DEF Still
  <2>6. Calm(n, p) \/ Lead(n, p) => entry[n].pending = None
    BY DEF Calm, Lead
  <2>7. Ready(n, p) => CutsOver(entry[n])
    BY DEF Ready, CutsOver
  <2>8. Ready(p, n) => CutsOver(entry[p])
    BY DEF Ready, CutsOver
  <2>9. Lead(p, n) => entry[p].cur = entry[n].pending
    BY DEF Lead
  <2> QED
    BY <2>3, <2>5, <2>6, <2>7, <2>8, <2>9 DEF Both
<1>2. IndInv => Typed
  BY DEF IndInv
<1>3. CASE RekeyOn
  <2>1. IndInv /\ Coupled /\ [Next]_vars => Coupled'
    BY <1>3, NextCoupled
  <2>2. IndInv /\ Coupled /\ Prompt /\ [Next]_vars => Prompt'
    BY <1>3, NextPrompt
  <2> QED
    BY <1>1, <1>2, <2>1, <2>2, InitInv, NextInv, InitCoupled, InitPrompt, PTL DEF Spec
<1>4. CASE ~ RekeyOn
  <2>1. Init => Unrekeyed
    BY DEF Init, Unrekeyed, Bare
  <2>2. IndInv /\ Unrekeyed /\ [Next]_vars => Unrekeyed'
    BY <1>4, NextUnrekeyed
  <2>3. Unrekeyed => NobodyWaitsForNothing
    BY DEF Unrekeyed, Bare, NobodyWaitsForNothing, IsEstablished, Has
  <2> QED
    BY <2>1, <2>2, <2>3, InitInv, NextInv, PTL DEF Spec
<1> QED
  BY <1>3, <1>4
=============================================================================
