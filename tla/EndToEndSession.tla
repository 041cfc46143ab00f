---------------------------- MODULE EndToEndSession ----------------------------
(***************************************************************************)
(* One end-to-end session (FSP) as its two ends keep it: the Noise XK      *)
(* handshake in three messages (SessionSetup, SessionAck, SessionMsg3),    *)
(* simultaneous initiation, resends and timeout, the packets that wait for *)
(* the session, the lookups that may restart it, and its rekey: tie-break, *)
(* deferred cutover by the initiator, K-bit flip at the responder, drain.  *)
(*                                                                         *)
(* The mesh between the ends is a set of datagrams, so they overtake each  *)
(* other freely.  A handshake is the pair of its two ephemeral numbers; a  *)
(* completed one is a session.  What the mesh, the host or a timer may do  *)
(* wrong is recorded by kind in "faults", and the properties name the      *)
(* kinds they withstand.                                                   *)
(***************************************************************************)
EXTENDS Integers, FiniteSets

CONSTANTS
  Node,       \* the two ends, as NodeAddrs
  Id,         \* numbers of ephemeral keys
  None,       \* Option::None
  RekeyOn,    \* node.rekey.enabled
  MaxQueue,   \* node.session.pending_packets_per_dest
  MaxResends, \* node.rate_limit.handshake_max_resends
  Faults,     \* the kinds of fault that may happen
  MaxFaults   \* bound: kinds in one behaviour

ASSUME NodeAssumption == Node \subseteq Nat /\ \E a, b \in Node : a # b /\ Node = {a, b}
ASSUME IdAssumption == Id \subseteq Nat /\ RekeyOn \in BOOLEAN
ASSUME BoundAssumption == MaxQueue \in Nat \ {0} /\ {MaxResends, MaxFaults} \subseteq Nat

VARIABLES
  entry,  \* entry[n]: the SessionEntry n keeps for the other end
  queue,  \* queue[n]: how many packets wait in pending_tun_packets
  lookup, \* lookup[n]: a discovery of the other end is pending
  net,    \* datagrams on the way
  faults  \* kinds of fault so far

vars == <<entry, queue, lookup, net, faults>>

Handshake == [i : Id, r : Id \cup {None}]
Session == [i : Id, r : Id]

SessionSetup == [type : {"setup"}, from : Node, hs : Handshake]
SessionAck == [type : {"ack"}, from : Node, hs : Session]
SessionMsg3 == [type : {"msg3"}, from : Node, hs : Session]
Frame == [type : {"frame"}, from : Node, hs : Session, k : BOOLEAN]
Datagram == SessionSetup \cup SessionAck \cup SessionMsg3 \cup Frame

EndToEndState == {"initiating", "awaiting", "established"}
SessionEntry == [
  state     : EndToEndState,
  hs        : Handshake \cup {None},   \* of the first handshake, until it is done
  resends   : 0 .. MaxResends,
  cur       : Session \cup {None},     \* the established session
  prev      : Session \cup {None},     \* the one that drains
  k         : BOOLEAN,                 \* current_k_bit
  rekey     : Handshake \cup {None},   \* rekey_state
  initiator : BOOLEAN,                 \* rekey_initiator
  pending   : Session \cup {None}]     \* pending_new_session
ASSUME NoneAssumption == None \notin Nat \cup Handshake \cup SessionEntry

Kind == {"setup", "ack", "msg3", "frame",   \* one of these is lost
         "repeat",   \* a datagram is delivered twice
         "late",     \* an answer overtakes a setup that was sent before it
         "slow",     \* msg3 of a rekey takes longer than FSP_CUTOVER_DELAY_MS
         "silent",   \* the drain ends, or the next rekey starts, while the other end
                     \* has read nothing on the new session
         "noroute",  \* a datagram cannot be sent, or a router on its way says so
         "forget",   \* one end drops the session: idle, restart, link removed
         "replace",  \* a lookup is answered between the peer's setup and its msg3
         "warmup"}   \* a CoordsWarmup is sent while the K-bit is set
ASSUME FaultAssumption == Faults \subseteq Kind

Other(n) == CHOOSE p \in Node : p # n

NewEntry(state, hs) ==
  [state |-> state, hs |-> hs, resends |-> 0, cur |-> None, prev |-> None, k |-> FALSE,
   rekey |-> None, initiator |-> FALSE, pending |-> None]
NewSession(s) == [NewEntry("established", None) EXCEPT !.cur = s]

Init ==
  /\ entry = [n \in Node |-> None]
  /\ queue = [n \in Node |-> 0]
  /\ lookup = [n \in Node |-> FALSE]
  /\ net = {}
  /\ faults = {}

(***************************************************************************)
(* Helpers.                                                                *)
(***************************************************************************)
Has(n, state) == entry[n] # None /\ entry[n].state = state
IsEstablished(n) == Has(n, "established")
Idle(n) == entry[n] = None \/ (IsEstablished(n) /\ entry[n].rekey = None /\ entry[n].pending = None)

\* A fault of the kind happens, once in a behaviour, or nothing out of the ordinary does.
Spend(kind, happens) ==
  /\ happens => kind \in Faults \ faults /\ Cardinality(faults) < MaxFaults
  /\ faults' = IF happens THEN faults \cup {kind} ELSE faults

\* n has cut over, and nothing it sent since has reached the other end.
LeftBehind(n) == entry[n].prev # None /\ entry[Other(n)] # None /\ entry[Other(n)].cur = entry[n].prev

IdsOf(e) == IF e = None THEN {}
            ELSE UNION {{hs.i, hs.r} : hs \in {e.hs, e.cur, e.prev, e.rekey, e.pending} \ {None}}
FreeId ==
  LET used == UNION ({IdsOf(entry[n]) : n \in Node} \cup {{m.hs.i, m.hs.r} : m \in net})
  IN  {x \in Id \ used : \A y \in Id \ used : x <= y}

Setup(n, i) == [type |-> "setup", from |-> n, hs |-> [i |-> i, r |-> None]]
Ack(n, hs) == [type |-> "ack", from |-> n, hs |-> hs]
Msg3(n, hs) == [type |-> "msg3", from |-> n, hs |-> hs]
FrameOf(n, e) == [type |-> "frame", from |-> n, hs |-> e.cur, k |-> e.k]

\* send_coords_warmup: a frame with the coordinates, its K-bit always clear.
CoordsWarmup(n, e) == [FrameOf(n, e) EXCEPT !.k = FALSE]

SetEntry(n, e) == entry' = [entry EXCEPT ![n] = e]

AbandonRekey(e) == [e EXCEPT !.rekey = None, !.pending = None, !.initiator = FALSE]
SetPendingSession(e, s) == [e EXCEPT !.pending = s, !.rekey = None]

\* Wrong variant: the old session is dropped at once.
PromoteWithoutDrain(e) ==
  [e EXCEPT !.prev = None, !.cur = e.pending, !.pending = None, !.k = ~ @,
            !.rekey = None, !.initiator = FALSE]

\* cutover_to_new_session and handle_peer_kbit_flip.
Promote(e) ==
  [e EXCEPT !.prev = e.cur, !.cur = e.pending, !.pending = None, !.k = ~ @,
            !.rekey = None, !.initiator = FALSE]

\* Wrong variant: the end that takes msg3 leaves its packets queued.
FlushNothing(n, e) == UNCHANGED queue

\* flush_pending_packets: what waited goes out on the established session.
Flushed(n, e) == IF queue[n] = 0 THEN {} ELSE {FrameOf(n, e)}
Flush(n, e) == queue' = [queue EXCEPT ![n] = 0]

(***************************************************************************)
(* Sending.                                                                *)
(***************************************************************************)
\* initiate_session, where there is neither an established nor an initiating
\* entry: a setup is sent and the entry replaced.
Initiate(n) ==
  \E i \in FreeId : /\ SetEntry(n, NewEntry("initiating", [i |-> i, r |-> None]))
                    /\ net' = net \cup {Setup(n, i)}

\* queue_pending_packet: the oldest packet makes room.
Queued(n) == queue' = [queue EXCEPT ![n] = IF @ < MaxQueue THEN @ + 1 ELSE @]

\* handle_tun_outbound without an established session.
HandleTunOutbound(n) ==
  /\ ~ IsEstablished(n)
  /\ Queued(n)
  /\ \E noRoute \in BOOLEAN :
       /\ Spend("noroute", noRoute)
       /\ IF entry[n] = None
          THEN IF noRoute
               THEN \* maybe_initiate_lookup, which may refuse
                    /\ lookup' \in {lookup, [lookup EXCEPT ![n] = TRUE]}
                    /\ UNCHANGED <<entry, net>>
               ELSE Initiate(n) /\ UNCHANGED lookup
          ELSE ~ noRoute /\ UNCHANGED <<entry, net, lookup>>

\* send_session_data and send_session_msg: packets, and in Full mode the reports
\* that keep each other going.
SendFrame(n) ==
  /\ IsEstablished(n)
  /\ net' = net \cup {FrameOf(n, entry[n])}
  /\ UNCHANGED <<entry, queue, lookup, faults>>

\* handle_coords_required, handle_path_broken: an established session gets
\* CoordsWarmup (the lookup that may go with it does nothing for the session), a
\* handshake perhaps a lookup.
HandleErrorSignal(n) ==
  /\ entry[n] # None
  /\ IF IsEstablished(n)
     THEN /\ Spend("warmup", entry[n].k)
          /\ net' = net \cup {CoordsWarmup(n, entry[n])}
          /\ UNCHANGED lookup
     ELSE /\ Spend("noroute", TRUE)
          /\ lookup' = [lookup EXCEPT ![n] = TRUE]
          /\ UNCHANGED net
  /\ UNCHANGED <<entry, queue>>

\* retry_session_after_discovery passes over these entries only.
Restarts(n) == ~ IsEstablished(n) /\ ~ Has(n, "initiating")

\* handle_lookup_response at the originator.
LookupAnswered(n) ==
  /\ lookup[n]
  /\ lookup' = [lookup EXCEPT ![n] = FALSE]
  /\ IF queue[n] > 0 /\ Restarts(n)
     THEN \/ /\ Spend("replace", entry[n] # None)
             /\ Initiate(n)
          \/ /\ Spend("noroute", TRUE)
             /\ UNCHANGED <<entry, net>>
     ELSE UNCHANGED <<entry, net, faults>>
  /\ UNCHANGED queue

\* check_pending_lookups: what waited is refused.
LookupTimedOut(n) ==
  /\ lookup[n]
  /\ lookup' = [lookup EXCEPT ![n] = FALSE]
  /\ queue' = [queue EXCEPT ![n] = 0]
  /\ UNCHANGED <<entry, net, faults>>

(***************************************************************************)
(* Receiving.                                                              *)
(***************************************************************************)
\* A datagram is taken from the mesh, unless the mesh repeats it.
Take(m, repeated, sent) == net' = (IF repeated THEN net ELSE net \ {m}) \cup sent

\* The sender of this setup still waits for its answer.
Awaited(m) == LET e == entry[m.from]
              IN  e # None /\ ((e.state = "initiating" /\ e.hs = m.hs) \/ e.rekey = m.hs)
\* An answer overtakes a setup its sender sent before and has given up.
Overtakes(m) ==
  /\ m.type \in {"ack", "msg3"}
  /\ \E o \in net : o.type = "setup" /\ o.from = m.from /\ ~ Awaited(o)

\* Wrong variant: both ends insist.
WeWinAlways(n) == TRUE

\* The smaller NodeAddr stays initiator.
WeWin(n) == n < Other(n)

\* Wrong variant: a repeated setup is answered by a handshake of its own.
SetupNeverRepeated(n) == FALSE

\* handle_session_setup, what it does with the entry: it ignores the setup,
\* repeats its answer, answers as the responder of a rekey or of a new session.
SetupIgnored(n) ==
  LET e == entry[n]
  IN  \/ Has(n, "initiating") /\ WeWin(n)
      \/ /\ IsEstablished(n) /\ RekeyOn
         /\ IF e.rekey # None THEN WeWin(n) ELSE e.pending # None
SetupRepeated(n) == Has(n, "awaiting")
SetupRekeys(n) == IsEstablished(n) /\ RekeyOn /\ ~ SetupIgnored(n)

HandleSessionSetup(n, m, repeated, noRoute) ==
  LET e == entry[n]
  IN  /\ m.type = "setup"
      /\ IF SetupIgnored(n)
         THEN ~ noRoute /\ UNCHANGED entry /\ Take(m, repeated, {})
         ELSE IF SetupRepeated(n)
         THEN UNCHANGED entry /\ Take(m, repeated, IF noRoute THEN {} ELSE {Ack(n, e.hs)})
         ELSE \E r \in FreeId :
           LET hs == [i |-> m.hs.i, r |-> r]
               lost == IF SetupRekeys(n) /\ e.rekey # None THEN AbandonRekey(e) ELSE e
           IN  IF noRoute THEN SetEntry(n, lost) /\ Take(m, repeated, {})
               ELSE /\ Take(m, repeated, {Ack(n, hs)})
                    /\ SetEntry(n, IF SetupRekeys(n)
                                   THEN [lost EXCEPT !.rekey = hs, !.initiator = FALSE]
                                   ELSE NewEntry("awaiting", hs))
      /\ UNCHANGED <<queue, lookup>>

\* handle_session_ack.  A handshake that cannot read the answer is given up, a
\* first handshake with its entry.
HandleSessionAck(n, m, repeated, noRoute) ==
  LET e == entry[n]
  IN  /\ m.type = "ack"
      /\ UNCHANGED lookup
      /\ IF IsEstablished(n) /\ e.rekey # None /\ e.initiator
         THEN /\ UNCHANGED queue
              /\ IF e.rekey.i # m.hs.i \/ noRoute
                 THEN SetEntry(n, AbandonRekey(e)) /\ Take(m, repeated, {})
                 ELSE /\ SetEntry(n, SetPendingSession(e, m.hs))
                      /\ Take(m, repeated, {Msg3(n, m.hs)})
         ELSE IF ~ Has(n, "initiating")
         THEN ~ noRoute /\ UNCHANGED <<entry, queue>> /\ Take(m, repeated, {})
         ELSE IF e.hs.i # m.hs.i \/ noRoute
         THEN SetEntry(n, None) /\ UNCHANGED queue /\ Take(m, repeated, {})
         ELSE LET done == NewSession(m.hs)
              IN  /\ SetEntry(n, done)
                  /\ Flush(n, done)
                  /\ Take(m, repeated, {Msg3(n, m.hs)} \cup Flushed(n, done))

\* handle_session_msg3.
HandleSessionMsg3(n, m, repeated) ==
  LET e == entry[n]
  IN  /\ m.type = "msg3"
      /\ UNCHANGED lookup
      /\ IF IsEstablished(n) /\ e.rekey # None /\ ~ e.initiator
         THEN /\ UNCHANGED queue
              /\ SetEntry(n, IF e.rekey = m.hs THEN SetPendingSession(e, m.hs) ELSE AbandonRekey(e))
              /\ Take(m, repeated, {})
         ELSE IF ~ Has(n, "awaiting")
         THEN UNCHANGED <<entry, queue>> /\ Take(m, repeated, {})
         ELSE IF e.hs # m.hs
         THEN SetEntry(n, None) /\ UNCHANGED queue /\ Take(m, repeated, {})
         ELSE LET done == NewSession(m.hs)
              IN  SetEntry(n, done) /\ Flush(n, done) /\ Take(m, repeated, Flushed(n, done))

\* A K-bit other than ours promotes the pending session before anything is read.
AfterKBit(e, m) == IF m.k # e.k /\ e.pending # None THEN Promote(e) ELSE e

\* handle_encrypted_session_msg: the current session opens it, or the previous.
HandleEncryptedSessionMsg(n, m, repeated) ==
  /\ m.type = "frame"
  /\ UNCHANGED lookup
  /\ IF ~ IsEstablished(n) THEN UNCHANGED <<entry, queue>> /\ Take(m, repeated, {})
     ELSE LET e == AfterKBit(entry[n], m)
          IN  /\ SetEntry(n, e)
              /\ IF m.hs \in {e.cur, e.prev}
                 THEN Flush(n, e) /\ Take(m, repeated, Flushed(n, e))
                 ELSE UNCHANGED queue /\ Take(m, repeated, {})

Receive(n, m) ==
  /\ m.from # n
  /\ \/ /\ Spend("noroute", TRUE) /\ ~ Overtakes(m)
        /\ (HandleSessionSetup(n, m, FALSE, TRUE) \/ HandleSessionAck(n, m, FALSE, TRUE))
     \/ /\ Spend("late", Overtakes(m))
        /\ \/ HandleSessionSetup(n, m, FALSE, FALSE) \/ HandleSessionAck(n, m, FALSE, FALSE)
           \/ HandleSessionMsg3(n, m, FALSE) \/ HandleEncryptedSessionMsg(n, m, FALSE)
     \/ /\ Spend("repeat", TRUE) /\ ~ Overtakes(m)
        /\ \/ HandleSessionSetup(n, m, TRUE, FALSE) \/ HandleSessionAck(n, m, TRUE, FALSE)
           \/ HandleSessionMsg3(n, m, TRUE) \/ HandleEncryptedSessionMsg(n, m, TRUE)

Lose(m) == /\ Spend(m.type, TRUE)
           /\ net' = net \ {m}
           /\ UNCHANGED <<entry, queue, lookup>>

(***************************************************************************)
(* The tick.                                                               *)
(***************************************************************************)
NoHandshake == \A m \in net : m.type = "frame"

TimesOut(n) == entry[n] # None /\ ~ IsEstablished(n)

\* resend_pending_session_handshakes, its two passes.  The timeout is longer than
\* any datagram travels.
TimeoutHandshake(n) ==
  /\ TimesOut(n) /\ NoHandshake
  /\ SetEntry(n, None)
  /\ queue' = [queue EXCEPT ![n] = 0]
  /\ UNCHANGED <<lookup, net, faults>>
ResendsLeft(e) == e.resends < MaxResends
ResendHandshake(n) ==
  LET e == entry[n]
  IN  /\ e # None /\ ~ IsEstablished(n)
      /\ ResendsLeft(e)
      /\ SetEntry(n, [e EXCEPT !.resends = @ + 1])
      /\ net' = net \cup {IF e.state = "initiating" THEN Setup(n, e.hs.i) ELSE Ack(n, e.hs)}
      /\ UNCHANGED <<queue, lookup, faults>>

CutsOver(e) == e.pending # None /\ e.rekey = None /\ e.initiator

\* check_session_rekey.  After FSP_CUTOVER_DELAY_MS the initiator cuts over; msg3
\* has arrived by then, unless it is slow.
Cutover(n) ==
  LET e == entry[n]
  IN  /\ IsEstablished(n) /\ CutsOver(e)
      /\ Spend("slow", Msg3(n, e.pending) \in net)
      /\ SetEntry(n, Promote(e))
      /\ UNCHANGED <<queue, lookup, net>>

\* After DRAIN_WINDOW_SECS nothing of the old session is on the way, and the other
\* end has seen the new K-bit, unless nothing was sent to it.
Drain(n) ==
  LET e == entry[n]
  IN  /\ IsEstablished(n) /\ ~ CutsOver(e)
      /\ e.prev # None
      /\ \A m \in net : m.type = "frame" => m.hs # e.prev
      /\ Spend("silent", LeftBehind(n))
      /\ SetEntry(n, [e EXCEPT !.prev = None])
      /\ UNCHANGED <<queue, lookup, net>>

\* initiate_session_rekey.  Age, counter and dampening decide when; a session lives
\* longer than the datagrams of its predecessor travel.
Rekey(n) ==
  LET e == entry[n]
  IN  /\ RekeyOn
      /\ IsEstablished(n) /\ e.rekey = None /\ e.pending = None
      /\ \A m \in net : \/ m.type = "frame" /\ m.hs = e.cur
                        \/ m.type = "setup" /\ m.from # n /\ Awaited(m)
      /\ \E i \in FreeId :
           /\ SetEntry(n, [e EXCEPT !.rekey = [i |-> i, r |-> None], !.initiator = TRUE])
           /\ net' = net \cup {Setup(n, i)}
      /\ Spend("silent", LeftBehind(n))
      /\ UNCHANGED <<queue, lookup>>

\* purge_idle_sessions, remove_active_peer, or a restart of the process, between
\* two rekeys and with nothing on the way.
Forget(n) ==
  /\ net = {} /\ \A p \in Node : IsEstablished(p) /\ Idle(p) /\ entry[p].prev = None
  /\ Spend("forget", TRUE)
  /\ SetEntry(n, None)
  /\ queue' = [queue EXCEPT ![n] = 0]
  /\ lookup' \in {lookup, [lookup EXCEPT ![n] = FALSE]}
  /\ UNCHANGED net

Next ==
  \/ \E n \in Node :
       \/ HandleTunOutbound(n) \/ SendFrame(n) \/ HandleErrorSignal(n)
       \/ LookupAnswered(n) \/ LookupTimedOut(n)
       \/ TimeoutHandshake(n) \/ ResendHandshake(n)
       \/ Cutover(n) \/ Drain(n) \/ Rekey(n) \/ Forget(n)
       \/ \E m \in net : Receive(n, m)
  \/ \E m \in net : Lose(m)

Spec == Init /\ [][Next]_vars

(***************************************************************************)
(* Properties.                                                             *)
(***************************************************************************)
\* The entries keep their types, a queue its limit, and a handshake is resent
\* handshake_max_resends times at most.
TypeOK ==
  /\ entry \in [Node -> SessionEntry \cup {None}]
  /\ queue \in [Node -> 0 .. MaxQueue]
  /\ lookup \in [Node -> BOOLEAN]
  /\ net \subseteq Datagram
  /\ faults \subseteq Kind

\* Packets never wait behind an established session, and those that wait have
\* something to wait for, a handshake or a lookup under way, whatever setups and
\* frames are lost.  (A late or repeated ack removes the entry it cannot complete.)
NothingStranded ==
  \A n \in Node :
    /\ IsEstablished(n) => queue[n] = 0
    /\ faults \subseteq {"setup", "frame", "slow", "silent", "warmup"} /\ queue[n] > 0
         => entry[n] # None \/ lookup[n]

\* What a session withstands without losing a packet: lost setups, answers and
\* frames, an overtaken setup, no route for a while.
Harmless == {"setup", "ack", "frame", "late", "noroute"}

CanOpen(e, m) == LET a == AfterKBit(e, m) IN m.hs \in {a.cur, a.prev}

\* Hitless cutover: whatever the interleaving of rekeys from both ends, every frame
\* on the way to an established end can be read when it arrives.
HitlessRekey ==
  faults \subseteq Harmless =>
    \A n \in Node, m \in net :
      m.type = "frame" /\ m.from # n /\ IsEstablished(n) => CanOpen(entry[n], m)

\* Simultaneous initiations and rekeys leave both ends with the same session and the
\* same K-bit as soon as no handshake is under way.
EndsAgree ==
  faults \subseteq Harmless /\ NoHandshake /\ (\A n \in Node : Idle(n)) =>
    \A n \in Node : IsEstablished(n) =>
      /\ IsEstablished(Other(n))
      /\ entry[n].cur = entry[Other(n)].cur /\ entry[n].k = entry[Other(n)].k

\* No tie-break leaves both ends waiting for each other: while nothing is lost or
\* overtaken, a rekey whose datagrams are all gone has completed, and one of the
\* two ends will cut over.
NobodyWaitsForNothing ==
  faults \subseteq {"frame"} /\ NoHandshake =>
    \A n \in Node : IsEstablished(n) =>
      /\ entry[n].rekey = None
      /\ entry[n].pending # None =>
           \/ CutsOver(entry[n])
           \/ /\ IsEstablished(Other(n))
              /\ (CutsOver(entry[Other(n)]) \/ entry[Other(n)].cur = entry[n].pending)

=============================================================================
