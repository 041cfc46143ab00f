---------------------------- MODULE PeerHandshake ----------------------------
(***************************************************************************)
(* The initial handshake of FMP (Noise IK: msg1, msg2) and the tables a    *)
(* node keeps about its peers, from the first msg1 to the removal of the   *)
(* peer and the retry that follows it.                                     *)
(*                                                                         *)
(* A node is one event loop, so a handler or one entry of a tick is one    *)
(* action on the record node[n].  A connection-less transport is modelled: *)
(* one address for each peer, so an address is named by its owner.         *)
(* Sessions are told apart by the two indices of their handshake, and a    *)
(* session index is drawn outside everything that still mentions one (a    *)
(* random u32 in the code).  Every fault, a lost or repeated message, a    *)
(* send error, a silent or orderly restart, a link that goes dead, costs   *)
(* one of MaxFaults.                                                       *)
(***************************************************************************)
EXTENDS Integers, FiniteSets

CONSTANTS
  Node,          \* NodeAddrs, ordered
  LinkId, Index, \* numbers that can be drawn for links and sessions
  None,          \* Option::None
  AutoConnect,   \* the peers each node is configured to connect to
  RekeyOn,       \* node.rekey.enabled
  MaxPeers,      \* node.limits.max_peers
  MaxRetries,    \* node.retry.max_retries
  MaxResends,    \* node.rate_limit.handshake_max_resends
  MaxFaults,     \* bound: faults in a behaviour
  MaxRefusals    \* bound: handshakes a full node receives

ASSUME SetAssumption ==
  /\ Node \subseteq Nat /\ LinkId \subseteq Nat /\ Index \subseteq Nat
  /\ IsFiniteSet(Node)
  /\ None \notin Nat
ASSUME ConfigAssumption ==
  /\ AutoConnect \in [Node -> SUBSET Node]
  /\ \A n \in Node : n \notin AutoConnect[n]
  /\ RekeyOn \in BOOLEAN
  /\ {MaxPeers, MaxRetries} \subseteq Nat \ {0}
  /\ {MaxResends, MaxFaults, MaxRefusals} \subseteq Nat

VARIABLES
  node,   \* node[n]: the tables of n
  net,    \* messages on the way
  faults  \* faults so far

vars == <<node, net, faults>>

Epoch == 0 .. MaxFaults
Session == [init : Node, resp : Node, ii : Index, ri : Index]
Msg1 == [type : {"msg1"}, from : Node, to : Node, sender : Index, epoch : Epoch]
Msg2 == [type : {"msg2"}, from : Node, to : Node, sender : Index, receiver : Index,
         epoch : Epoch]
Disconnect == [type : {"disconnect"}, from : Node, to : Node, session : Session]
Message == Msg1 \cup Msg2 \cup Disconnect

\* PeerConnection: only outbound ones outlive the handler that makes them.
Connection == [peer : Node, state : {"sent", "failed"}, our : Index, resends : 0 .. MaxResends]
Link == [addr : Node, inbound : BOOLEAN]
PendingSession == [session : Session, our : Index, their : Index]
ActivePeer == [link : LinkId, our : Index, their : Index, session : Session, epoch : Epoch,
               msg2 : Msg2 \cup {None}, pending : PendingSession \cup {None}, aged : BOOLEAN]
RetryState == [count : 0 .. MaxRetries + 1, reconnect : BOOLEAN]

ASSUME NoneAssumption ==
  /\ None \notin {"sent", "failed"}
  /\ None \notin Connection /\ None \notin Link /\ None \notin Msg2
  /\ None \notin PendingSession /\ None \notin ActivePeer /\ None \notin RetryState

NodeState == [
  epoch     : Epoch,                              \* startup_epoch
  starting  : SUBSET Node,                        \* configured peers not yet tried
  connections : [LinkId -> Connection \cup {None}],
  links     : [LinkId -> Link \cup {None}],
  addrToLink : [Node -> LinkId \cup {None}],
  pendingOutbound : [Index -> LinkId \cup {None}],
  peers     : [Node -> ActivePeer \cup {None}],
  peersByIndex : [Index -> Node \cup {None}],
  allocated : SUBSET Index,                       \* the index allocator
  retry     : [Node -> RetryState \cup {None}],   \* retry_pending
  inbound   : Nat,                                \* pending_count of the msg1 limiter
  guests    : 0 .. MaxPeers,                      \* peers that are not in Node
  parted    : SUBSET Node,                        \* history: said goodbye or were refused
  refused   : 0 .. MaxRefusals,                   \* history: promotions refused
  leftover  : SUBSET LinkId]                      \* history: links of a refused promotion

Fresh(n, epoch) == [
  epoch |-> epoch, starting |-> AutoConnect[n],
  connections |-> [l \in LinkId |-> None], links |-> [l \in LinkId |-> None],
  addrToLink |-> [p \in Node |-> None], pendingOutbound |-> [i \in Index |-> None],
  peers |-> [p \in Node |-> None], peersByIndex |-> [i \in Index |-> None],
  allocated |-> {}, retry |-> [p \in Node |-> None], inbound |-> 0, guests |-> 0,
  parted |-> {}, refused |-> 0, leftover |-> {}]

Init ==
  /\ node = [n \in Node |-> Fresh(n, 0)]
  /\ net = {}
  /\ faults = 0

(***************************************************************************)
(* The tables of one node.                                                 *)
(***************************************************************************)
Least(S) == {x \in S : \A y \in S : x <= y}

IndicesIn(m) == CASE m.type = "msg1" -> {m.sender}
                  [] m.type = "msg2" -> {m.sender, m.receiver}
                  [] OTHER -> {m.session.ii, m.session.ri}

PeerIndices(peer) ==
  {peer.our} \cup (IF peer.pending = None THEN {} ELSE {peer.pending.our})

MentionedBy(s) ==
  s.allocated \cup {i \in Index : s.pendingOutbound[i] # None}
    \cup UNION {IF s.peers[p] = None THEN {}
                ELSE {s.peers[p].session.ii, s.peers[p].session.ri, s.peers[p].their} \cup
                     (IF s.peers[p].msg2 = None THEN {} ELSE IndicesIn(s.peers[p].msg2)) \cup
                     (IF s.peers[p].pending = None THEN {} ELSE {s.peers[p].pending.their})
                : p \in Node}

\* IndexAllocator::allocate, which draws a number nothing mentions any more.
FreeIndex ==
  Least(Index \ ((UNION {MentionedBy(node[n]) : n \in Node})
                   \cup (UNION {IndicesIn(m) : m \in net})))

\* allocate_link_id; link ids stay inside the node.
FreeLink(s) ==
  Least({l \in LinkId : /\ s.links[l] = None
                        /\ \A i \in Index : s.pendingOutbound[i] # l})

IsPeer(s, p) == s.peers[p] # None
IsConnecting(s, p) == \E l \in LinkId : s.connections[l] # None /\ s.connections[l].peer = p
HasRoom(s) == Cardinality({p \in Node : IsPeer(s, p)}) + s.guests < MaxPeers

RemoveLink(s, l) ==
  IF s.links[l] = None THEN s
  ELSE [s EXCEPT !.links[l] = None,
                 !.addrToLink[s.links[l].addr] = IF @ = l THEN None ELSE @]

Forget(byIndex, indices) == [i \in Index |-> IF i \in indices THEN None ELSE byIndex[i]]

\* Wrong variant: the index of a pending session is forgotten on removal.
RemoveActivePeerKeepsPending(s, p) ==
  LET gone == {s.peers[p].our}
  IN  RemoveLink([s EXCEPT !.peers[p] = None,
                           !.peersByIndex = Forget(@, gone),
                           !.allocated = @ \ gone], s.peers[p].link)

RemoveActivePeer(s, p) ==
  LET gone == PeerIndices(s.peers[p])
  IN  RemoveLink([s EXCEPT !.peers[p] = None,
                           !.peersByIndex = Forget(@, gone),
                           !.allocated = @ \ gone], s.peers[p].link)

\* The count is only compared with max_retries, so it stops above it.
Bump(state) == [state EXCEPT !.count = IF @ <= MaxRetries THEN @ + 1 ELSE @]

\* Wrong variant: the reconnect is left to the next failed handshake.
NoReconnect(n, s, p) == s

ScheduleReconnect(n, s, p) ==
  IF p \notin AutoConnect[n] THEN s
  ELSE [s EXCEPT !.retry[p] = IF @ = None THEN [count |-> 0, reconnect |-> TRUE]
                              ELSE [Bump(@) EXCEPT !.reconnect = TRUE]]

ScheduleRetry(n, s, p) ==
  IF IsPeer(s, p) THEN s
  ELSE IF s.retry[p] # None
  THEN [s EXCEPT !.retry[p] =
          IF ~ @.reconnect /\ Bump(@).count > MaxRetries THEN None ELSE Bump(@)]
  ELSE IF p \in AutoConnect[n]
  THEN [s EXCEPT !.retry[p] = [count |-> 1, reconnect |-> TRUE]]
  ELSE s

\* promote_connection, into an empty seat: a handler gets here only when the
\* peer is not active, so its own cross-connection branch is never taken.
Promote(s, p, peer) ==
  [s EXCEPT !.peers[p] = peer,
            !.peersByIndex[peer.our] = p,
            !.retry[p] = None,
            !.parted = @ \ {p}]

(***************************************************************************)
(* Outbound connections.                                                   *)
(***************************************************************************)
\* A fault is taken or it is not.
Spend(fault) == /\ fault => faults < MaxFaults
                /\ faults' = IF fault THEN faults + 1 ELSE faults

\* An outbound connection whose msg1 was sent, or not.
NewConnection(p, i, sendFails) ==
  [peer |-> p, our |-> i, resends |-> 0, state |-> IF sendFails THEN "failed" ELSE "sent"]

\* initiate_connection and start_handshake, for a peer that is neither active
\* nor in progress.
Connect(n, s, p, sendFails) ==
  \E l \in FreeLink(s), i \in FreeIndex :
    /\ node' = [node EXCEPT ![n] =
         [s EXCEPT !.links[l] = [addr |-> p, inbound |-> FALSE],
                   !.addrToLink[p] = l,
                   !.allocated = @ \cup {i},
                   !.connections[l] = NewConnection(p, i, sendFails),
                   !.pendingOutbound[i] = l]]
    /\ net' = IF sendFails THEN net
              ELSE net \cup {[type |-> "msg1", from |-> n, to |-> p, sender |-> i,
                              epoch |-> s.epoch]}

\* initiate_peer_connections, one configured peer.
Start(n, p) ==
  LET s == [node[n] EXCEPT !.starting = @ \ {p}]
  IN  /\ p \in node[n].starting
      /\ IF IsPeer(s, p) \/ IsConnecting(s, p)
         THEN node' = [node EXCEPT ![n] = s] /\ UNCHANGED <<net, faults>>
         ELSE \E fails \in BOOLEAN : Spend(fails) /\ Connect(n, s, p, fails)

\* process_pending_retries, one entry that is due.
ProcessRetry(n, p) ==
  LET s == node[n]
  IN  /\ s.retry[p] # None
      /\ ~ IsConnecting(s, p)
      /\ IF IsPeer(s, p)
         THEN /\ node' = [node EXCEPT ![n].retry[p] = None]
              /\ UNCHANGED <<net, faults>>
         ELSE \E fails \in BOOLEAN : Spend(fails) /\ Connect(n, s, p, fails)

RecordResend(c) == [c EXCEPT !.resends = @ + 1]

\* resend_pending_handshakes, one connection.
Resend(n, l) ==
  LET c == node[n].connections[l]
  IN  /\ c # None
      /\ c.state = "sent" /\ c.resends < MaxResends
      /\ node' = [node EXCEPT ![n].connections[l] = RecordResend(c)]
      /\ net' = net \cup {[type |-> "msg1", from |-> n, to |-> c.peer, sender |-> c.our,
                           epoch |-> node[n].epoch]}
      /\ UNCHANGED faults

\* check_timeouts, one connection.  The handshake timeout is longer than any
\* message of the handshake travels.
CheckTimeout(n, l) ==
  LET s == node[n]
      c == s.connections[l]
      t == ScheduleRetry(n, s, c.peer)
  IN  /\ c # None
      /\ c.state = "sent" => \A m \in net : {m.from, m.to} # {n, c.peer}
      /\ node' = [node EXCEPT ![n] =
           RemoveLink([t EXCEPT !.connections[l] = None,
                                !.pendingOutbound[c.our] = None,
                                !.allocated = @ \ {c.our}], l)]
      /\ UNCHANGED <<net, faults>>

(***************************************************************************)
(* handle_msg1.  The limiter counts the handshake in first and every way   *)
(* out counts it out again.                                                *)
(***************************************************************************)
\* A message is taken from the network, or repeated by it at the cost of a fault.
Take(m, sent) ==
  \E again \in BOOLEAN : /\ Spend(again)
                         /\ net' = (IF again THEN net ELSE net \ {m}) \cup sent

StartHandshake(s) == [s EXCEPT !.inbound = @ + 1]
CompleteHandshake(s) == [s EXCEPT !.inbound = IF @ > 0 THEN @ - 1 ELSE @]

Answer(n, m, i) == [type |-> "msg2", from |-> n, to |-> m.from, sender |-> i,
                    receiver |-> m.sender, epoch |-> node[n].epoch]
InboundSession(n, m, i) == [init |-> m.from, resp |-> n, ii |-> m.sender, ri |-> i]

SameEpoch(n, m) == node[n].peers[m.from] # None /\ node[n].peers[m.from].epoch = m.epoch

\* The peer is active and has not restarted, and its session is old enough for
\* this to be a rekey: answer it and keep the new session as pending.
Msg1Rekey(n, m) ==
  LET s == StartHandshake(node[n])
      peer == s.peers[m.from]
  IN  /\ SameEpoch(n, m) /\ RekeyOn /\ peer.aged
      /\ IF peer.pending # None
         THEN /\ node' = [node EXCEPT ![n] = CompleteHandshake(s)]
              /\ Take(m, {})
         ELSE \E i \in FreeIndex :
                /\ node' = [node EXCEPT ![n] = CompleteHandshake(
                     [s EXCEPT !.allocated = @ \cup {i},
                               !.peersByIndex[i] = m.from,
                               !.peers[m.from].pending =
                                  [session |-> InboundSession(n, m, i),
                                   our |-> i, their |-> m.sender]])]
                /\ Take(m, {Answer(n, m, i)})

\* The peer is active and this is no rekey: repeat the stored msg2, if there is one.
Msg1Duplicate(n, m) ==
  LET s == StartHandshake(node[n])
      peer == s.peers[m.from]
  IN  /\ SameEpoch(n, m) /\ ~ (RekeyOn /\ peer.aged)
      /\ node' = [node EXCEPT ![n] = CompleteHandshake(s)]
      /\ Take(m, IF peer.msg2 = None THEN {} ELSE {peer.msg2})

\* A new peer, or one that restarted: what it had is removed first.
Msg1New(n, m) ==
  LET p == m.from
      s0 == StartHandshake(node[n])
      s == IF IsPeer(s0, p) THEN ScheduleReconnect(n, RemoveActivePeer(s0, p), p) ELSE s0
  IN  /\ ~ SameEpoch(n, m)
      /\ (~ HasRoom(s) => s.refused < MaxRefusals)
      /\ \E l \in FreeLink(s), i \in FreeIndex :
           LET linked == [s EXCEPT !.links[l] = [addr |-> p, inbound |-> TRUE],
                                   !.addrToLink[p] = l]
               peer == [link |-> l, our |-> i, their |-> m.sender,
                        session |-> InboundSession(n, m, i), epoch |-> m.epoch,
                        msg2 |-> Answer(n, m, i), pending |-> None, aged |-> FALSE]
           IN  /\ node' = [node EXCEPT ![n] = CompleteHandshake(
                    IF HasRoom(s)
                    THEN Promote([linked EXCEPT !.allocated = @ \cup {i}], p, peer)
                    ELSE [RemoveLink(linked, l) EXCEPT !.refused = @ + 1])]
               /\ Take(m, {Answer(n, m, i)})

\* The msg2 of a new peer cannot be sent: the connection is dropped again.
Msg1SendFails(n, m) ==
  LET p == m.from
      s == IF IsPeer(node[n], p)
           THEN ScheduleReconnect(n, RemoveActivePeer(node[n], p), p) ELSE node[n]
  IN  /\ ~ SameEpoch(n, m)
      /\ faults < MaxFaults /\ faults' = faults + 1
      /\ node' = [node EXCEPT ![n] =
           CompleteHandshake(StartHandshake([s EXCEPT !.addrToLink[p] = None]))]
      /\ net' = net \ {m}

HandleMsg1(n, m) ==
  /\ m.type = "msg1"
  /\ Msg1Rekey(n, m) \/ Msg1Duplicate(n, m) \/ Msg1New(n, m) \/ Msg1SendFails(n, m)

(***************************************************************************)
(* handle_msg2.                                                            *)
(***************************************************************************)
OutboundSession(n, m) == [init |-> n, resp |-> m.from, ii |-> m.receiver, ri |-> m.sender]

\* Wrong variant: each node prefers its own connection.
OurOutboundAlwaysWins(n, p) == TRUE

\* cross_connection_winner: the outbound connection of the smaller node wins.
OurOutboundWins(n, p) == n < p

\* The state of the connection that waits for this answer, if there is one.
Awaiting(s, i) ==
  LET l == s.pendingOutbound[i]
  IN  IF l = None THEN None
      ELSE IF s.connections[l] = None THEN None ELSE s.connections[l].state

\* Nothing waits for this answer, or only an entry that outlived its connection.
Msg2Stale(n, m) ==
  LET s == node[n]
  IN  /\ Awaiting(s, m.receiver) = None
      /\ node' = [node EXCEPT ![n].pendingOutbound[m.receiver] = None]
      /\ Take(m, {})

\* The connection was already marked failed and stays so.
Msg2Failed(n, m) ==
  /\ Awaiting(node[n], m.receiver) = "failed"
  /\ UNCHANGED node
  /\ Take(m, {})

\* The peer was promoted by its own msg1 meanwhile: both nodes must end up in
\* the session of the smaller node's connection.
Msg2Cross(n, m) ==
  LET s == node[n]
      l == s.pendingOutbound[m.receiver]
      c == s.connections[l]
      p == m.from
      done == [s EXCEPT !.connections[l] = None, !.pendingOutbound[m.receiver] = None]
      swapped == [done EXCEPT !.allocated = @ \ {s.peers[p].our},
                              !.peersByIndex = [Forget(@, {s.peers[p].our}) EXCEPT ![c.our] = p],
                              !.peers[p].session = OutboundSession(n, m),
                              !.peers[p].our = c.our,
                              !.peers[p].their = m.sender]
      kept == [done EXCEPT !.allocated = @ \ {c.our}]
  IN  /\ Awaiting(s, m.receiver) = "sent"
      /\ IsPeer(s, p)
      /\ node' = [node EXCEPT ![n] =
           RemoveLink(IF OurOutboundWins(n, p) THEN swapped ELSE kept, l)]
      /\ Take(m, {})

Msg2New(n, m) ==
  LET s == node[n]
      l == s.pendingOutbound[m.receiver]
      p == m.from
      peer == [link |-> l, our |-> m.receiver, their |-> m.sender,
               session |-> OutboundSession(n, m), epoch |-> m.epoch,
               msg2 |-> None, pending |-> None, aged |-> FALSE]
  IN  /\ Awaiting(s, m.receiver) = "sent"
      /\ ~ IsPeer(s, p)
      /\ (~ HasRoom(s) => s.refused < MaxRefusals)
      /\ node' = [node EXCEPT ![n] =
           IF HasRoom(s)
           THEN Promote([s EXCEPT !.connections[l] = None,
                                  !.pendingOutbound[m.receiver] = None], p, peer)
           ELSE [s EXCEPT !.connections[l] = None,
                          !.allocated = @ \ {m.receiver},
                          !.parted = @ \cup {p},
                          !.refused = @ + 1,
                          !.leftover = @ \cup {l}]]
      /\ Take(m, {})

HandleMsg2(n, m) ==
  /\ m.type = "msg2"
  /\ Msg2Stale(n, m) \/ Msg2Failed(n, m) \/ Msg2Cross(n, m) \/ Msg2New(n, m)

(***************************************************************************)
(* The end of a link, and restarts.                                        *)
(***************************************************************************)
\* handle_disconnect; it can be read when both ends hold the session.
HandleDisconnect(n, m) ==
  LET s == node[n]
      p == m.from
  IN  /\ m.type = "disconnect"
      /\ node' = [node EXCEPT ![n] =
           IF IsPeer(s, p) /\ s.peers[p].session = m.session
           THEN [RemoveActivePeer(s, p) EXCEPT !.parted = @ \cup {p}]
           ELSE s]
      /\ Take(m, {})

Receive(n) == \E m \in net : /\ m.to = n
                             /\ HandleMsg1(n, m) \/ HandleMsg2(n, m) \/ HandleDisconnect(n, m)

Lose == \E m \in net : /\ faults < MaxFaults /\ faults' = faults + 1
                       /\ net' = net \ {m}
                       /\ UNCHANGED node

\* Both ends hold the same session: what one sends the other can read.
Matched(n, p) ==
  /\ IsPeer(node[n], p) /\ IsPeer(node[p], n)
  /\ node[n].peers[p].session = node[p].peers[n].session

\* check_link_heartbeats or handle_decrypt_failure: nothing readable came for
\* link_dead_timeout, for want of a common session or because frames were lost.
LinkDead(n, p) ==
  /\ IsPeer(node[n], p)
  /\ \A m \in net : {m.from, m.to} # {n, p}
  /\ Spend(Matched(n, p))
  /\ node' = [node EXCEPT ![n] = ScheduleReconnect(n, RemoveActivePeer(@, p), p)]
  /\ UNCHANGED net

\* The session passes the age below which msg1 is taken for a duplicate (30 s).
\* The handshakes that ran beside it are over by then, and a session that was
\* never shared is dead by then (link_dead_timeout is 30 s too).
Age(n, p) ==
  /\ RekeyOn
  /\ Matched(n, p) /\ ~ node[n].peers[p].aged
  /\ ~ IsConnecting(node[p], n)
  /\ \A m \in net : {m.from, m.to} # {n, p}
  /\ node' = [node EXCEPT ![n].peers[p].aged = TRUE]
  /\ UNCHANGED <<net, faults>>

\* The process stops and starts again; an orderly stop() says goodbye.
Restart(n, orderly) ==
  /\ faults < MaxFaults /\ faults' = faults + 1
  /\ node' = [node EXCEPT ![n] = Fresh(n, faults')]
  /\ net' = IF orderly
            THEN net \cup {[type |-> "disconnect", from |-> n, to |-> p,
                            session |-> node[n].peers[p].session]
                           : p \in {q \in Node : IsPeer(node[n], q)}}
            ELSE net

\* The operator: api_connect is one attempt, without a retry unless the peer is
\* configured; api_disconnect also drops the retry.
ApiConnect(n, p) ==
  /\ n # p /\ faults < MaxFaults /\ faults' = faults + 1
  /\ ~ IsPeer(node[n], p) /\ ~ IsConnecting(node[n], p)
  /\ Connect(n, node[n], p, FALSE)

ApiDisconnect(n, p) ==
  LET s == node[n]
  IN  /\ faults < MaxFaults /\ faults' = faults + 1
      /\ IsPeer(s, p)
      /\ node' = [node EXCEPT ![n] = [RemoveActivePeer(s, p) EXCEPT !.retry[p] = None,
                                                                    !.parted = @ \cup {p}]]
      /\ UNCHANGED net

\* Peers outside Node come and go.
GuestsJoin(n) ==
  /\ faults < MaxFaults /\ faults' = faults + 1
  /\ HasRoom(node[n])
  /\ node' = [node EXCEPT ![n].guests =
                MaxPeers - Cardinality({p \in Node : IsPeer(node[n], p)})]
  /\ UNCHANGED net
GuestsLeave(n) ==
  /\ node[n].guests > 0
  /\ node' = [node EXCEPT ![n].guests = 0]
  /\ UNCHANGED <<net, faults>>

Tick(n) == \/ \E p \in Node : Start(n, p) \/ ProcessRetry(n, p)
           \/ \E l \in LinkId : Resend(n, l) \/ CheckTimeout(n, l)

Next ==
  \/ \E n \in Node : Receive(n) \/ Tick(n)
  \/ \E n \in Node, p \in Node : \/ LinkDead(n, p) \/ Age(n, p)
                               \/ ApiConnect(n, p) \/ ApiDisconnect(n, p)
  \/ \E n \in Node : \/ \E orderly \in BOOLEAN : Restart(n, orderly)
                     \/ GuestsJoin(n) \/ GuestsLeave(n)
  \/ Lose

\* The event loop serves its channel and its one-second tick for ever, and a
\* link without readable frames reaches its timeout.
Fairness ==
  /\ \A n \in Node : /\ WF_vars(Receive(n))
                     /\ WF_vars(GuestsLeave(n))
                     /\ \A p \in Node : /\ WF_vars(Start(n, p)) /\ WF_vars(ProcessRetry(n, p))
                                        /\ SF_vars(LinkDead(n, p) /\ ~ Matched(n, p))
                     /\ \A l \in LinkId : WF_vars(CheckTimeout(n, l))

Spec == Init /\ [][Next]_vars /\ Fairness

(***************************************************************************)
(* Properties.                                                             *)
(***************************************************************************)
\* The tables of every node keep their types, and msg1 is resent at most
\* handshake_max_resends times.
TypeOK ==
  /\ node \in [Node -> NodeState]
  /\ net \subseteq Message
  /\ faults \in 0 .. MaxFaults

Connections(s) == {l \in LinkId : s.connections[l] # None}
Peers(s) == {p \in Node : IsPeer(s, p)}

\* An index is allocated exactly while a connection or an active peer holds it,
\* peers_by_index is the inverse of what the peers hold, and the msg1 limiter is
\* given back what it counted: no way through the handlers leaks a number, frees
\* one that is in use or leaves the limiter charged.
IndexAccounting ==
  \A n \in Node :
    LET s == node[n]
    IN  /\ s.allocated = {s.connections[l].our : l \in Connections(s)}
                           \cup UNION {PeerIndices(s.peers[p]) : p \in Peers(s)}
        /\ \A i \in Index, p \in Node :
             s.peersByIndex[i] = p <=> IsPeer(s, p) /\ i \in PeerIndices(s.peers[p])
        /\ \A l \in Connections(s) :
             /\ s.pendingOutbound[s.connections[l].our] = l
             /\ s.peersByIndex[s.connections[l].our] = None
        /\ s.inbound = 0

\* A configured peer that is not active is being connected to, waits for a retry,
\* has said goodbye or was refused: no failure makes the node give up on it.
WantedPeerIsPursued ==
  \A n \in Node : \A p \in AutoConnect[n] :
    LET s == node[n]
    IN  \/ IsPeer(s, p) \/ IsConnecting(s, p)
        \/ s.retry[p] # None
        \/ p \in s.starting \cup s.parted

Quiet(n, p) ==
  /\ ~ IsConnecting(node[n], p) /\ ~ IsConnecting(node[p], n)
  /\ \A m \in net : {m.from, m.to} # {n, p}

\* No fault happened, and no node was full: one that is sends its msg2 before it
\* refuses the connection, and the other end takes that for an answer.
Undisturbed == faults = 0 /\ \A n \in Node : node[n].refused = 0

\* Simultaneous connections: undisturbed, when nothing is under way between two
\* nodes, a peer that is active at one end is active at the other end and both
\* hold the session of the same handshake.
EndsAgree ==
  Undisturbed => \A n, p \in Node :
    Quiet(n, p) /\ IsPeer(node[n], p) => Matched(n, p)

\* However the connection of a configured peer failed, timed out, crossed with
\* the peer's own or ended, the two ends come to share a session for good.
Settles ==
  <>[](\A n \in Node : \A p \in AutoConnect[n] \ node[n].parted : Matched(n, p))

=============================================================================
