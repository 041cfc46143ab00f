------------------------------ MODULE LinkRekey ------------------------------
(***************************************************************************)
(* The periodic rekey of one FMP link (Noise IK over an existing link).    *)
(*                                                                         *)
(* Two nodes have promoted each other to ActivePeer and share a session.   *)
(* Either may start a rekey: it allocates a session index, sends msg1 and  *)
(* keeps the handshake on the ActivePeer; the peer answers with msg2 and   *)
(* stores the new session as pending; each side later makes its pending    *)
(* session current, flips its K-bit and keeps the old session for a drain  *)
(* window.  The module follows one incarnation of the link: it stops when  *)
(* a side removes the peer.                                                *)
(*                                                                         *)
(* A node is one event loop, so a handler or a tick is one action.         *)
(* Sessions and handshakes are numbers drawn from `fresh`: two sides can   *)
(* read each other when they hold the same number.  Time is counted in     *)
(* units that are long beside the one-second tick.                         *)
(***************************************************************************)
EXTENDS Naturals, Sequences, FiniteSets, SequencesExt

CONSTANTS
  Small, Large,      \* the two NodeAddrs, Small < Large
  Index,             \* session indices
  None,              \* Option::None
  RekeyChoices,      \* the sets of nodes that may have node.rekey.enabled set
  RekeyAfter,        \* node.rekey.after_secs
  MinRekeyAge,       \* age below which a msg1 is taken for a duplicate (30 s)
  Dampening,         \* REKEY_DAMPENING_SECS
  DrainWindow,       \* DRAIN_WINDOW_SECS
  LinkDead,          \* node.link_dead_timeout_secs
  Heartbeat,         \* node.heartbeat_interval_secs
  FailureLimit,      \* DECRYPT_FAILURE_THRESHOLD
  MaxFresh,          \* bound: handshakes and sessions created
  MaxInFlight,       \* bound: messages on the way to one node,
  MaxTraffic,        \* bound: queue length up to which data traffic is sent
  MaxAge,            \* bound: units of time a message survives on the way
  ManyTicks,         \* bound: may a node tick more than once in a unit of time?
  MayLose, MayDuplicate, MayReorder  \* what the transport may do

ASSUME NodeAssumption == Small # Large
ASSUME RekeyAssumption == RekeyChoices \subseteq SUBSET {Small, Large}
ASSUME TimeAssumption ==
  /\ {RekeyAfter, MinRekeyAge, Dampening, DrainWindow, LinkDead, Heartbeat}
       \subseteq Nat \ {0}
  /\ {FailureLimit, MaxFresh, MaxInFlight, MaxTraffic, MaxAge} \subseteq Nat
ASSUME ModeAssumption == {ManyTicks, MayLose, MayDuplicate, MayReorder} \subseteq BOOLEAN

Node == {Small, Large}
Other(n) == IF n = Small THEN Large ELSE Small
OptIndex == Index \cup {None}
Id == 0 .. MaxFresh
OptId == Id \cup {None}

ASSUME IndexAssumption == None \notin Index \cup Id

\* Ages stop growing where no guard can tell the difference any more.
AgeCap == IF RekeyAfter > MinRekeyAge THEN RekeyAfter ELSE MinRekeyAge
Older(age, cap) == IF age < cap THEN age + 1 ELSE age

Msg1 == [type: {"msg1"}, sender: Index, hs: Id, age: 0 .. MaxAge]
Msg2 == [type: {"msg2"}, sender: Index, receiver: Index, hs: Id, sid: Id,
         age: 0 .. MaxAge]
Frame == [type: {"frame"}, receiver: Index, kbit: BOOLEAN, sid: Id,
          replayed: BOOLEAN, age: 0 .. MaxAge]
Message == Msg1 \cup Msg2 \cup Frame

\* The rekey part of ActivePeer.
Peer ==
  [cur: Id, ourIdx: Index, theirIdx: Index, kbit: BOOLEAN,
   prev: OptId, prevIdx: OptIndex, draining: BOOLEAN,
   pend: OptId, pendOur: OptIndex, pendTheir: OptIndex,
   inProgress: BOOLEAN, hs: OptId, rekeyIdx: OptIndex,
   age: 0 .. AgeCap, drainAge: 0 .. DrainWindow, peerRekeyAge: 0 .. Dampening,
   idle: 0 .. LinkDead, beatAge: 0 .. Heartbeat,
   failures: 0 .. FailureLimit, storedMsg2: Msg2 \cup {None}]

VARIABLES
  live,             \* the nodes that hold the other in `peers`
  peer,             \* peer[n]: n's ActivePeer for the other node
  byIndex,          \* byIndex[n]: keys of peers_by_index
  pendingOutbound,  \* pendingOutbound[n]: keys of pending_outbound
  allocated,        \* allocated[n]: the IndexAllocator's set
  net,              \* net[n]: messages on the way to n
  fresh,            \* next handshake or session number
  ticked,           \* the nodes that ran a tick in this unit of time
  rekeyOn           \* the nodes whose node.rekey.enabled is true; never changes

nodeVars == <<live, peer, byIndex, pendingOutbound, allocated>>
vars == <<nodeVars, net, fresh, ticked, rekeyOn>>

-----------------------------------------------------------------------------
(* ActivePeer's rekey methods, as functions of the peer record.            *)

\* Wrong variant: the rekey stays in progress after it completed.
SetPendingKeepsProgress(p, s, our, their) ==
  [p EXCEPT !.pend = s, !.pendOur = our, !.pendTheir = their]

SetPendingSession(p, s, our, their) ==
  [p EXCEPT !.pend = s, !.pendOur = our, !.pendTheir = their,
            !.inProgress = FALSE, !.rekeyIdx = None, !.hs = None]

\* cutover_to_new_session and handle_peer_kbit_flip have the same body.
CutoverToNewSession(p) ==
  [p EXCEPT !.prev = p.cur, !.prevIdx = p.ourIdx,
            !.draining = TRUE, !.drainAge = 0,
            !.cur = p.pend, !.ourIdx = p.pendOur, !.theirIdx = p.pendTheir,
            !.pend = None, !.pendOur = None, !.pendTheir = None,
            !.kbit = ~p.kbit, !.age = 0, !.idle = 0, !.inProgress = FALSE]

\* Wrong variant: the drain window is not waited for.
DrainExpiredAtOnce(p) == p.draining
DrainExpired(p) == p.draining /\ p.drainAge >= DrainWindow

\* Wrong variant: the freed index is still remembered.
CompleteDrainKeepsIndex(p) == [p EXCEPT !.prev = None, !.draining = FALSE]
CompleteDrain(p) == [p EXCEPT !.prev = None, !.prevIdx = None, !.draining = FALSE]

\* The index abandon_rekey returns for freeing.
AbandonedIndex(p) == IF p.rekeyIdx # None THEN p.rekeyIdx ELSE p.pendOur

AbandonRekey(p) ==
  LET q == [p EXCEPT !.hs = None, !.inProgress = FALSE]
  IN  IF p.rekeyIdx # None
      THEN [q EXCEPT !.rekeyIdx = None]
      ELSE [q EXCEPT !.pend = None, !.pendTheir = None, !.pendOur = None]

SetRekeyState(p, h, idx) ==
  [p EXCEPT !.hs = h, !.rekeyIdx = idx, !.inProgress = TRUE]

IsRekeyDampened(p) == p.peerRekeyAge < Dampening

\* The session indices an ActivePeer holds, those frames may come in on, and
\* the one a msg2 may come in on.
DataIndices(p) == {p.ourIdx, p.pendOur, p.prevIdx} \ {None}
RekeyIndices(p) == {p.rekeyIdx} \ {None}
HeldIndices(p) == DataIndices(p) \cup RekeyIndices(p)

-----------------------------------------------------------------------------
(* Messages and the transport.                                             *)

RekeyMsg1(p) == [type |-> "msg1", sender |-> p.rekeyIdx, hs |-> p.hs, age |-> 0]
RekeyMsg2(our, m, s) ==
  [type |-> "msg2", sender |-> our, receiver |-> m.sender, hs |-> m.hs,
   sid |-> s, age |-> 0]
LinkFrame(p) ==
  [type |-> "frame", receiver |-> p.theirIdx, kbit |-> p.kbit, sid |-> p.cur,
   replayed |-> FALSE, age |-> 0]

\* A queue that is full refuses a message; a lossy transport may refuse any.
Push(q, m) == IF Len(q) < MaxInFlight THEN Append(q, m) ELSE q
SendFails(q) == MayLose \/ Len(q) >= MaxInFlight

Deliverable(n) == IF MayReorder THEN DOMAIN net[n]
                  ELSE {i \in DOMAIN net[n] : i = 1}
\* net[n] after message i was taken: gone, or left behind as the duplicate c.
Taken(n, i, c) == {RemoveAt(net[n], i)} \cup
                  (IF MayDuplicate THEN {[net[n] EXCEPT ![i] = c]} ELSE {})

-----------------------------------------------------------------------------
(* What the handlers share.                                                *)

Up == live = Node

\* remove_active_peer for the peer record p.
RemoveActivePeer(n, p) ==
  /\ live' = live \ {n}
  /\ peer' = [peer EXCEPT ![n] = p]
  /\ byIndex' = [byIndex EXCEPT ![n] = @ \ HeldIndices(p)]
  /\ pendingOutbound' = [pendingOutbound EXCEPT ![n] = @ \ RekeyIndices(p)]
  /\ allocated' = [allocated EXCEPT ![n] = @ \ HeldIndices(p)]

\* n's tables after `freed` was given back and `new` registered for frames.
Reindex(n, freed, new) ==
  /\ byIndex' = [byIndex EXCEPT ![n] = (@ \ freed) \cup new]
  /\ allocated' = [allocated EXCEPT ![n] = (@ \ freed) \cup new]

-----------------------------------------------------------------------------
(* handle_msg1, for a sender that is an active peer with the same epoch.   *)

\* Wrong variants: no tie-break; a session of any age may be rekeyed.
NobodyWinsTie(n) == FALSE

\* Both sides started: the smaller NodeAddr stays the initiator.
WinsTie(n) == n = Small

IsRekeyMsg1(n) == n \in rekeyOn /\ peer[n].age >= MinRekeyAge

\* Too young a session: the msg1 is taken for a repetition of the one that
\* made the link, and the msg2 that answered that one is sent again.
DuplicateMsg1(n, rest) ==
  /\ ~IsRekeyMsg1(n)
  /\ net' = [net EXCEPT ![n] = rest,
                        ![Other(n)] = IF peer[n].storedMsg2 = None THEN @
                                      ELSE Push(@, peer[n].storedMsg2)]
  /\ UNCHANGED <<nodeVars, fresh>>

\* A session is already pending, or both started and this side wins.
IgnoredMsg1(n, rest) ==
  /\ IsRekeyMsg1(n)
  /\ peer[n].pend # None \/ (peer[n].inProgress /\ WinsTie(n))
  /\ net' = [net EXCEPT ![n] = rest]
  /\ UNCHANGED <<nodeVars, fresh>>

\* Answer as responder, after giving up a rekey of our own.
AnsweredMsg1(n, m, rest) ==
  LET p == peer[n]
      q == IF p.inProgress THEN AbandonRekey(p) ELSE p
      freed == IF p.inProgress THEN {AbandonedIndex(p)} \ {None} ELSE {}
      free == Index \ (allocated[n] \ freed)
  IN  /\ IsRekeyMsg1(n)
      /\ p.pend = None
      /\ ~(p.inProgress /\ WinsTie(n))
      /\ pendingOutbound' = [pendingOutbound EXCEPT ![n] = @ \ freed]
      /\ \/ \* no index, or msg2 could not be sent
            /\ free = {} \/ SendFails(net[Other(n)])
            /\ Reindex(n, freed, {})
            /\ peer' = [peer EXCEPT ![n] = q]
            /\ net' = [net EXCEPT ![n] = rest]
            /\ UNCHANGED fresh
         \/ /\ fresh <= MaxFresh
            /\ Len(net[Other(n)]) < MaxInFlight
            /\ \E our \in free :
                 /\ Reindex(n, freed, {our})
                 /\ peer' = [peer EXCEPT ![n] =
                              [SetPendingSession(q, fresh, our, m.sender)
                                 EXCEPT !.peerRekeyAge = 0]]
                 /\ net' = [net EXCEPT ![n] = rest,
                              ![Other(n)] = Push(@, RekeyMsg2(our, m, fresh))]
            /\ fresh' = fresh + 1
      /\ UNCHANGED live

HandleMsg1(n, i) ==
  /\ net[n][i].type = "msg1"
  /\ \E rest \in Taken(n, i, net[n][i]) :
       \/ DuplicateMsg1(n, rest)
       \/ IgnoredMsg1(n, rest)
       \/ AnsweredMsg1(n, net[n][i], rest)
  /\ UNCHANGED <<ticked, rekeyOn>>

-----------------------------------------------------------------------------
(* handle_msg2, the branch of a rekey.                                     *)

\* complete_rekey_msg2: the msg2 answers the handshake that is kept.
CompleteRekeyMsg2(p, m) == p.hs = m.hs

HandleMsg2(n, i) ==
  LET m == net[n][i]
      p == peer[n]
      waiting == p.inProgress /\ p.rekeyIdx = m.receiver
  IN  /\ m.type = "msg2"
      /\ \E rest \in Taken(n, i, m) : net' = [net EXCEPT ![n] = rest]
      /\ pendingOutbound' = [pendingOutbound EXCEPT ![n] = @ \ {m.receiver}]
      /\ \/ \* no such handshake, or a stale pending_outbound entry
            /\ m.receiver \notin pendingOutbound[n] \/ ~waiting
            /\ UNCHANGED <<peer, byIndex, allocated>>
         \/ /\ m.receiver \in pendingOutbound[n] /\ waiting
            /\ CompleteRekeyMsg2(p, m)
            /\ peer' = [peer EXCEPT ![n] =
                         SetPendingSession(p, m.sid, m.receiver, m.sender)]
            /\ byIndex' = [byIndex EXCEPT ![n] = @ \cup {m.receiver}]
            /\ UNCHANGED allocated
         \/ \* the msg2 answers another handshake: Noise refuses it
            /\ m.receiver \in pendingOutbound[n] /\ waiting
            /\ ~CompleteRekeyMsg2(p, m)
            /\ peer' = [peer EXCEPT ![n] = AbandonRekey(p)]
            /\ Reindex(n, {AbandonedIndex(p)} \ {None}, {})
      /\ UNCHANGED <<live, fresh, ticked, rekeyOn>>

-----------------------------------------------------------------------------
(* handle_encrypted_frame.                                                 *)

\* The peer after K-bit flip detection, which comes before decryption.
AfterKBit(p, m) ==
  IF m.kbit # p.kbit /\ p.pend # None THEN CutoverToNewSession(p) ELSE p

\* The frame decrypts under the current or the draining session.
Opens(p, m) == ~m.replayed /\ m.sid \in {p.cur, p.prev}

Accepts(n, m) ==
  m.receiver \in byIndex[n] /\ Opens(AfterKBit(peer[n], m), m)

\* handle_decrypt_failure: too many in a row end the link.
HandleDecryptFailure(n, p) ==
  LET bad == p.failures + 1
  IN  \/ /\ bad < FailureLimit
         /\ peer' = [peer EXCEPT ![n] = [p EXCEPT !.failures = bad]]
         /\ UNCHANGED <<live, byIndex, pendingOutbound, allocated>>
      \/ /\ bad >= FailureLimit
         /\ RemoveActivePeer(n, p)

HandleEncryptedFrame(n, i) ==
  LET m == net[n][i]
      p == AfterKBit(peer[n], m)
  IN  /\ m.type = "frame"
      /\ \E rest \in Taken(n, i, [m EXCEPT !.replayed = @ \/ Accepts(n, m)]) :
           net' = [net EXCEPT ![n] = rest]
      /\ \/ /\ m.receiver \notin byIndex[n]
            /\ UNCHANGED nodeVars
         \/ /\ Accepts(n, m)
            /\ peer' = [peer EXCEPT ![n] = [p EXCEPT !.failures = 0, !.idle = 0]]
            /\ UNCHANGED <<live, byIndex, pendingOutbound, allocated>>
         \/ /\ m.receiver \in byIndex[n] /\ ~Opens(p, m)
            /\ HandleDecryptFailure(n, p)
      /\ UNCHANGED <<fresh, ticked, rekeyOn>>

-----------------------------------------------------------------------------
(* One tick: resend_pending_rekeys, check_link_heartbeats, check_rekey.    *)

NeedsMsg1Resend(p) == p.inProgress /\ p.hs # None

\* The queue to the peer after resend_pending_rekeys and the heartbeat.
Resent(n) ==
  LET p == peer[n] q == net[Other(n)]
  IN  IF n \in rekeyOn /\ NeedsMsg1Resend(p)
      THEN Push(q, RekeyMsg1(p)) ELSE q
BeatDue(p) == p.beatAge >= Heartbeat
Beaten(n) == IF BeatDue(peer[n]) THEN Push(Resent(n), LinkFrame(peer[n]))
             ELSE Resent(n)
AfterBeat(p) == IF BeatDue(p) THEN [p EXCEPT !.beatAge = 0] ELSE p

\* check_rekey, first: a pending session becomes current.
CutoverDue(p) == p.pend # None /\ ~p.inProgress

\* check_rekey, second: the drained session is erased ...
AfterDrain(p) == IF DrainExpired(p) THEN CompleteDrain(p) ELSE p
Drained(p) == IF DrainExpired(p) THEN {p.prevIdx} \ {None} ELSE {}

\* ... and last: a rekey may start, and must when the session is old enough
\* (the count of messages sent, the other trigger, may fire at any age).
RekeyAllowed(n) ==
  n \in rekeyOn /\ ~peer[n].inProgress /\ ~IsRekeyDampened(peer[n])
RekeyForced(n) == RekeyAllowed(n) /\ peer[n].age >= RekeyAfter
FreeAfterDrain(n) == Index \ (allocated[n] \ Drained(peer[n]))

\* No rekey starts, or the index or the send failed and nothing is kept.
NoRekeyStarts(n) ==
  /\ \/ ~RekeyForced(n)
     \/ FreeAfterDrain(n) = {}
     \/ SendFails(Beaten(n))
     \/ fresh >= MaxFresh
  /\ Reindex(n, Drained(peer[n]), {})
  /\ peer' = [peer EXCEPT ![n] = AfterDrain(AfterBeat(@))]
  /\ net' = [net EXCEPT ![Other(n)] = Beaten(n)]
  /\ UNCHANGED <<pendingOutbound, fresh>>

\* initiate_rekey.
InitiateRekey(n, our) ==
  LET p == SetRekeyState(AfterDrain(AfterBeat(peer[n])), fresh, our)
  IN  /\ RekeyAllowed(n)
      /\ fresh < MaxFresh
      /\ Len(Beaten(n)) < MaxInFlight
      /\ byIndex' = [byIndex EXCEPT ![n] = @ \ Drained(peer[n])]
      /\ allocated' = [allocated EXCEPT ![n] = (@ \ Drained(peer[n])) \cup {our}]
      /\ peer' = [peer EXCEPT ![n] = p]
      /\ pendingOutbound' = [pendingOutbound EXCEPT ![n] = @ \cup {our}]
      /\ net' = [net EXCEPT ![Other(n)] = Push(Beaten(n), RekeyMsg1(p))]
      /\ fresh' = fresh + 1

Cutover(n) ==
  /\ n \in rekeyOn /\ CutoverDue(peer[n])
  /\ peer' = [peer EXCEPT ![n] = CutoverToNewSession(AfterBeat(@))]
  /\ net' = [net EXCEPT ![Other(n)] = Beaten(n)]
  /\ UNCHANGED <<byIndex, pendingOutbound, allocated, fresh>>

\* rekey.enabled is false: check_rekey returns at once.
RekeyDisabled(n) ==
  /\ n \notin rekeyOn
  /\ peer' = [peer EXCEPT ![n] = AfterBeat(@)]
  /\ net' = [net EXCEPT ![Other(n)] = Beaten(n)]
  /\ UNCHANGED <<byIndex, pendingOutbound, allocated, fresh>>

LinkDeadTimeout(n) ==
  /\ peer[n].idle >= LinkDead
  /\ RemoveActivePeer(n, peer[n])
  /\ net' = [net EXCEPT ![Other(n)] = Resent(n)]
  /\ UNCHANGED <<fresh, ticked>>

\* A transport that loses nothing has room for the two messages a tick sends.
Tick(n) ==
  /\ ManyTicks \/ n \notin ticked
  /\ MayLose \/ Len(net[Other(n)]) + 2 <= MaxInFlight
  /\ \/ LinkDeadTimeout(n)
     \/ /\ peer[n].idle < LinkDead
        /\ \/ Cutover(n)
           \/ RekeyDisabled(n)
           \/ /\ n \in rekeyOn /\ ~CutoverDue(peer[n])
              /\ \/ NoRekeyStarts(n)
                 \/ \E our \in FreeAfterDrain(n) : InitiateRekey(n, our)
        /\ ticked' = ticked \cup {n}
        /\ UNCHANGED live
  /\ UNCHANGED rekeyOn

-----------------------------------------------------------------------------
(* The environment: other traffic, the transport, the clock.               *)

\* Any encrypted link message other than a heartbeat.
SendFrame(n) ==
  /\ Len(net[Other(n)]) < MaxTraffic
  /\ net' = [net EXCEPT ![Other(n)] = Push(@, LinkFrame(peer[n]))]
  /\ UNCHANGED <<nodeVars, fresh, ticked, rekeyOn>>

Lose(n, i) ==
  /\ MayLose
  /\ net' = [net EXCEPT ![n] = RemoveAt(@, i)]
  /\ UNCHANGED <<nodeVars, fresh, ticked, rekeyOn>>

\* The clock moves one unit, in which each node ticked; by then a message that
\* survived MaxAge units was delivered or lost.
Grown(p) ==
  [p EXCEPT !.age = Older(@, AgeCap), !.drainAge = Older(@, DrainWindow),
            !.peerRekeyAge = Older(@, Dampening), !.idle = Older(@, LinkDead),
            !.beatAge = Older(@, Heartbeat)]
Aged(q) == [j \in DOMAIN q |-> [q[j] EXCEPT !.age = @ + 1]]
Elapse ==
  /\ ticked = Node
  /\ \A n \in Node : \A i \in DOMAIN net[n] : net[n][i].age < MaxAge
  /\ peer' = [n \in Node |-> Grown(peer[n])]
  /\ net' = [n \in Node |-> Aged(net[n])]
  /\ ticked' = {}
  /\ UNCHANGED <<live, byIndex, pendingOutbound, allocated, fresh, rekeyOn>>

-----------------------------------------------------------------------------
\* Both nodes have just promoted the link's own handshake, which `responder`
\* answered with a msg2 it keeps.
NewPeer(our, their, msg2) ==
  [cur |-> 0, ourIdx |-> our, theirIdx |-> their, kbit |-> FALSE,
   prev |-> None, prevIdx |-> None, draining |-> FALSE,
   pend |-> None, pendOur |-> None, pendTheir |-> None,
   inProgress |-> FALSE, hs |-> None, rekeyIdx |-> None,
   age |-> 0, drainAge |-> 0, peerRekeyAge |-> Dampening,
   idle |-> 0, beatAge |-> Heartbeat, failures |-> 0, storedMsg2 |-> msg2]

Init ==
  /\ live = Node
  /\ \E idx \in [Node -> Index], responder \in Node :
       LET msg2(n) == [type |-> "msg2", sender |-> idx[n],
                       receiver |-> idx[Other(n)], hs |-> 0, sid |-> 0, age |-> 0]
       IN  /\ peer = [n \in Node |->
                        NewPeer(idx[n], idx[Other(n)],
                                IF n = responder THEN msg2(n) ELSE None)]
           /\ byIndex = [n \in Node |-> {idx[n]}]
           /\ allocated = [n \in Node |-> {idx[n]}]
  /\ pendingOutbound = [n \in Node |-> {}]
  /\ net = [n \in Node |-> <<>>]
  /\ fresh = 1
  /\ ticked = {}
  /\ rekeyOn \in RekeyChoices

Receive(n) ==
  \E i \in Deliverable(n) :
    HandleMsg1(n, i) \/ HandleMsg2(n, i) \/ HandleEncryptedFrame(n, i)

Next ==
  /\ Up
  /\ \/ \E n \in Node : Receive(n) \/ Tick(n) \/ SendFrame(n)
     \/ \E n \in Node : \E i \in DOMAIN net[n] : Lose(n, i)
     \/ Elapse

Spec == Init /\ [][Next]_vars

-----------------------------------------------------------------------------
(* Properties.                                                             *)

\* Every variable has its type.
TypeOK ==
  /\ live \subseteq Node
  /\ peer \in [Node -> Peer]
  /\ byIndex \in [Node -> SUBSET Index]
  /\ pendingOutbound \in [Node -> SUBSET Index]
  /\ allocated \in [Node -> SUBSET Index]
  /\ net \in [Node -> Seq(Message)]
  /\ fresh \in 1 .. MaxFresh + 1
  /\ ticked \subseteq Node
  /\ rekeyOn \subseteq Node

\* Frames can always be dispatched: every index a frame of this link may come
\* in on is registered in peers_by_index, the index of a rekey in progress in
\* pending_outbound, everything registered is still allocated, and no two
\* uses share an index (the debug_asserts after both cutovers, and what free()
\* must never break).
IndexSafety ==
  \A n \in live :
    LET p == peer[n] IN
    /\ DataIndices(p) \subseteq byIndex[n]
    /\ pendingOutbound[n] = RekeyIndices(p)
    /\ byIndex[n] \cup pendingOutbound[n] \subseteq allocated[n]
    /\ p.ourIdx \notin {p.pendOur, p.prevIdx, p.rekeyIdx}
    /\ p.pendOur # None => p.pendOur \notin {p.prevIdx, p.rekeyIdx}
    /\ p.prevIdx # None => p.prevIdx # p.rekeyIdx

\* No index is leaked: what is registered or allocated is held by the peer, and
\* nothing is left once the peer is removed.  A cutover overwrites
\* previous_our_index, so this needs every drain to end before the next cutover.
NoIndexLeak ==
  \A n \in Node :
    /\ n \in live => /\ allocated[n] = HeldIndices(peer[n])
                     /\ byIndex[n] = DataIndices(peer[n])
                     /\ pendingOutbound[n] = RekeyIndices(peer[n])
    /\ n \notin live => allocated[n] \cup byIndex[n] \cup pendingOutbound[n] = {}

\* A node is never initiator of one rekey while the session of another waits for
\* its cutover, and a handshake is kept exactly while it is in progress.
OneRekeyAtATime ==
  \A n \in live :
    LET p == peer[n] IN
    /\ ~(p.inProgress /\ p.pend # None)
    /\ p.inProgress <=> p.hs # None
    /\ p.inProgress <=> p.rekeyIdx # None
    /\ p.pend # None <=> p.pendOur # None
    /\ p.pend # None <=> p.pendTheir # None
    /\ p.prev # None <=> p.draining

\* A rekey is hitless: every frame about to be delivered is accepted, before,
\* during and after the cutover of either side (README: "Periodic Noise rekey
\* with hitless cutover").
HitlessCutover ==
  \A n \in live : \A i \in Deliverable(n) :
    LET m == net[n][i] IN m.type = "frame" /\ ~m.replayed => Accepts(n, m)

\* Rekeying never makes a side give the link up, and once nothing is under way the
\* two sides are on the same session, with the same K-bit and each other's index,
\* whoever started and even if both did.
ConvergedWhenQuiet ==
  LET quiet == \A n \in Node : /\ net[n] = <<>>
                               /\ ~peer[n].inProgress
                               /\ peer[n].pend = None
  IN  /\ Up
      /\ quiet => /\ peer[Small].cur = peer[Large].cur
                  /\ peer[Small].kbit = peer[Large].kbit
                  /\ \A n \in Node : peer[n].theirIdx = peer[Other(n)].ourIdx

=============================================================================
