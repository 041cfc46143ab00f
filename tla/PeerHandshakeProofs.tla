------------------------- MODULE PeerHandshakeProofs -------------------------
(***************************************************************************)
(* Proofs about PeerHandshake, for any number of nodes, peers, links and   *)
(* indices and any order of messages, timers, faults and restarts.         *)
(*                                                                         *)
(* IndexAccounting is a statement about the tables of one node, but it is  *)
(* not inductive alone: the entry of pending_outbound that outlives its    *)
(* connection must not come to point to a new one, and the link a peer     *)
(* frees must not be that of a connection.  TablesOK adds what the tables  *)
(* say of each other.  WantedPeerIsPursued is not even local: an answer    *)
(* ends the connection its receiver index names, so it must come from the  *)
(* peer of that connection.  MessageOK says so for every message on the    *)
(* way, and StoredOK for every answer stored to be repeated.                *)
(*                                                                         *)
(* EndsAgree relates two nodes when nothing is on the way.  Paired says    *)
(* what holds of them meanwhile: each msg1 on the way is that of a         *)
(* connection, each msg2 the one its sender stored (Call), and each        *)
(* session that of the answer the two agree on (Seat).  It is an invariant *)
(* as long as the run is Undisturbed, so the steps that repair a fault     *)
(* (retries, disconnects, timeouts) are shown not to happen before one.    *)
(***************************************************************************)
EXTENDS PeerHandshake, FiniteSetTheorems, TLAPS

\* A connection waits for the answer to index i.
Awaited(s, i) == s.pendingOutbound[i] # None /\ s.connections[s.pendingOutbound[i]] # None

\* Each connection has a link and is found by its index, and by no other.
ConnectionsOK(s) ==
  /\ \A l \in LinkId : s.connections[l] # None =>
       s.links[l] # None /\ s.pendingOutbound[s.connections[l].our] = l
  /\ \A i \in Index : Awaited(s, i) => /\ s.connections[s.pendingOutbound[i]].our = i
                                       /\ s.peersByIndex[i] = None

\* Each peer has a link of its own, that of no connection.
LinksOK(s) ==
  /\ \A p \in Node : IsPeer(s, p) => /\ s.links[s.peers[p].link] # None
                                     /\ s.connections[s.peers[p].link] = None
  /\ \A p, q \in Node : IsPeer(s, p) /\ IsPeer(s, q) /\ s.peers[p].link = s.peers[q].link
                          => p = q

\* The indices of the peers, and those allocated.
IndicesOK(s) ==
  /\ \A i \in Index, p \in Node :
       s.peersByIndex[i] = p <=> IsPeer(s, p) /\ i \in PeerIndices(s.peers[p])
  /\ \A p \in Node : IsPeer(s, p) /\ s.peers[p].pending # None
                       => s.peers[p].pending.our # s.peers[p].our
  /\ \A i \in Index : i \in s.allocated <=> s.peersByIndex[i] # None \/ Awaited(s, i)

TablesOK(s) ==
  /\ ConnectionsOK(s) /\ LinksOK(s) /\ IndicesOK(s)
  /\ s.inbound = 0

\* No configured peer is given up.
Pursued(n, s) ==
  /\ \A p \in AutoConnect[n] : \/ IsPeer(s, p) \/ IsConnecting(s, p)
                               \/ s.retry[p] # None
                               \/ p \in s.starting \cup s.parted
  /\ \A p \in Node : s.retry[p] # None => s.retry[p].reconnect

\* What waits at n for an answer to index i is a connection to p.
Aimed(n, i, p) ==
  \A l \in LinkId : node[n].connections[l] # None /\ node[n].connections[l].our = i
                      => node[n].connections[l].peer = p

MessageOK(m) ==
  /\ m.type = "msg1" => Aimed(m.from, m.sender, m.to)
  /\ m.type = "msg2" => Aimed(m.to, m.receiver, m.from)

StoredOK(n, p) ==
  IsPeer(node[n], p) /\ node[n].peers[p].msg2 # None => MessageOK(node[n].peers[p].msg2)

IndInv ==
  /\ TypeOK
  /\ \A n \in Node : TablesOK(node[n]) /\ Pursued(n, node[n])
  /\ \A m \in net : MessageOK(m)
  /\ \A n, p \in Node : StoredOK(n, p)

-----------------------------------------------------------------------------
(* The tables of one node: what each change of them keeps.                 *)

LEMMA FieldTypes ==
  ASSUME NEW s \in NodeState
  PROVE  /\ s.epoch \in Epoch /\ s.starting \in SUBSET Node
         /\ s.connections \in [LinkId -> Connection \cup {None}]
         /\ s.links \in [LinkId -> Link \cup {None}]
         /\ s.addrToLink \in [Node -> LinkId \cup {None}]
         /\ s.pendingOutbound \in [Index -> LinkId \cup {None}]
         /\ s.peers \in [Node -> ActivePeer \cup {None}]
         /\ s.peersByIndex \in [Index -> Node \cup {None}]
         /\ s.allocated \in SUBSET Index
         /\ s.retry \in [Node -> RetryState \cup {None}]
         /\ s.inbound \in Nat /\ s.guests \in 0 .. MaxPeers
         /\ s.parted \in SUBSET Node /\ s.refused \in 0 .. MaxRefusals
         /\ s.leftover \in SUBSET LinkId
BY DEF NodeState

LEMMA ConnectionTypes ==
  ASSUME NEW s \in NodeState, NEW l \in LinkId, s.connections[l] # None
  PROVE  /\ s.connections[l] \in Connection
         /\ s.connections[l].our \in Index /\ s.connections[l].peer \in Node
         /\ s.connections[l].state \in {"sent", "failed"}
         /\ s.connections[l].resends \in 0 .. MaxResends
BY FieldTypes DEF Connection

LEMMA PeerTypes ==
  ASSUME NEW s \in NodeState, NEW p \in Node, IsPeer(s, p)
  PROVE  /\ s.peers[p] \in ActivePeer
         /\ s.peers[p].link \in LinkId /\ s.peers[p].our \in Index
         /\ s.peers[p].pending # None => s.peers[p].pending.our \in Index
         /\ s.peers[p].msg2 # None => s.peers[p].msg2 \in Msg2
         /\ PeerIndices(s.peers[p]) \subseteq Index
BY FieldTypes DEF IsPeer, ActivePeer, PendingSession, PeerIndices

\* Node, LinkId and Index have no member None.
LEMMA NoNumberIsNone ==
  /\ \A p \in Node : p # None
  /\ \A l \in LinkId : l # None
  /\ \A i \in Index : i # None
BY SetAssumption

\* The tables TablesOK reads.
SameTables(s, t) ==
  /\ t.connections = s.connections /\ t.links = s.links
  /\ t.pendingOutbound = s.pendingOutbound
  /\ t.peers = s.peers /\ t.peersByIndex = s.peersByIndex
  /\ t.allocated = s.allocated /\ t.inbound = s.inbound

LEMMA SameTablesOK ==
  ASSUME NEW s, NEW t, SameTables(s, t), TablesOK(s)
  PROVE  TablesOK(t)
BY DEF SameTables, TablesOK, ConnectionsOK, LinksOK, IndicesOK, Awaited, IsPeer

\* A connection with a new link and a new index.
LEMMA ConnectedOK ==
  ASSUME NEW s \in NodeState, NEW t, TablesOK(s),
         NEW l \in LinkId, s.links[l] = None, \A j \in Index : s.pendingOutbound[j] # l,
         NEW i \in Index, i \notin s.allocated, s.pendingOutbound[i] = None,
         NEW c \in Connection, c.our = i, NEW link \in Link,
         t.connections = [s.connections EXCEPT ![l] = c],
         t.links = [s.links EXCEPT ![l] = link],
         t.pendingOutbound = [s.pendingOutbound EXCEPT ![i] = l],
         t.allocated = s.allocated \cup {i},
         t.peers = s.peers, t.peersByIndex = s.peersByIndex, t.inbound = s.inbound
  PROVE  TablesOK(t)
<1> USE NoneAssumption, NoNumberIsNone, FieldTypes
<1>1. s.connections[l] = None
  BY DEF TablesOK, ConnectionsOK
<1>2. \A j \in Index : j # i => (Awaited(t, j) <=> Awaited(s, j))
  BY DEF Awaited
<1>3. Awaited(t, i)
  BY DEF Awaited
<1>4. s.peersByIndex[i] = None
  BY DEF TablesOK, IndicesOK
<1>5. ConnectionsOK(t)
  <2>1. ASSUME NEW k \in LinkId, t.connections[k] # None
        PROVE  t.links[k] # None /\ t.pendingOutbound[t.connections[k].our] = k
    <3>1. CASE k = l
      BY <3>1
    <3>2. CASE k # l
      <4>1. s.connections[k] # None /\ t.connections[k] = s.connections[k]
        BY <2>1, <3>2
      <4>2. s.links[k] # None /\ s.pendingOutbound[s.connections[k].our] = k
        BY <4>1 DEF TablesOK, ConnectionsOK
      <4>3. s.connections[k].our \in Index /\ s.connections[k].our # i
        BY <4>1, <4>2, ConnectionTypes
      <4> QED BY <3>2, <4>1, <4>2, <4>3
    <3> QED BY <3>1, <3>2
  <2>2. ASSUME NEW j \in Index, Awaited(t, j)
        PROVE  t.connections[t.pendingOutbound[j]].our = j /\ t.peersByIndex[j] = None
    <3>1. CASE j = i
      BY <3>1, <1>4
    <3>2. CASE j # i
      <4>1. Awaited(s, j) /\ t.pendingOutbound[j] = s.pendingOutbound[j]
        BY <1>2, <2>2, <3>2
      <4>2. s.pendingOutbound[j] \in LinkId /\ s.pendingOutbound[j] # l
        BY <4>1 DEF Awaited
      <4> QED BY <4>1, <4>2 DEF TablesOK, ConnectionsOK
    <3> QED BY <3>1, <3>2
  <2> QED BY <2>1, <2>2 DEF ConnectionsOK
<1>6. LinksOK(t)
  <2>1. ASSUME NEW p \in Node, IsPeer(t, p)
        PROVE  t.links[t.peers[p].link] # None /\ t.connections[t.peers[p].link] = None
    <3>1. IsPeer(s, p) /\ s.links[s.peers[p].link] # None
          /\ s.connections[s.peers[p].link] = None /\ s.peers[p].link \in LinkId
      BY <2>1, PeerTypes DEF IsPeer, TablesOK, LinksOK
    <3> QED BY <3>1
  <2> QED BY <2>1 DEF LinksOK, TablesOK, IsPeer
<1>7. IndicesOK(t)
  BY <1>2, <1>3, <1>4 DEF TablesOK, IndicesOK, IsPeer
<1> QED BY <1>5, <1>6, <1>7 DEF TablesOK

\* A connection that ends with its link, its entry and its index.
LEMMA DroppedOK ==
  ASSUME NEW s \in NodeState, NEW t, TablesOK(s),
         NEW l \in LinkId, s.connections[l] # None,
         t.connections = [s.connections EXCEPT ![l] = None],
         t.links = [s.links EXCEPT ![l] = None],
         t.pendingOutbound = [s.pendingOutbound EXCEPT ![s.connections[l].our] = None],
         t.allocated = s.allocated \ {s.connections[l].our},
         t.peers = s.peers, t.peersByIndex = s.peersByIndex, t.inbound = s.inbound
  PROVE  TablesOK(t)
<1> DEFINE i == s.connections[l].our
<1> USE NoneAssumption, NoNumberIsNone, FieldTypes
<1>1. i \in Index /\ s.pendingOutbound[i] = l /\ Awaited(s, i) /\ s.peersByIndex[i] = None
  BY ConnectionTypes DEF TablesOK, ConnectionsOK, Awaited
<1>2. \A j \in Index : j # i /\ Awaited(s, j) => s.pendingOutbound[j] # l
  BY DEF TablesOK, ConnectionsOK
<1>3. \A j \in Index : Awaited(t, j) <=> j # i /\ Awaited(s, j)
  BY <1>1, <1>2 DEF Awaited
<1> HIDE DEF i
<1>4. ConnectionsOK(t)
  <2>1. ASSUME NEW k \in LinkId, t.connections[k] # None
        PROVE  t.links[k] # None /\ t.pendingOutbound[t.connections[k].our] = k
    <3>1. k # l /\ s.connections[k] # None /\ t.connections[k] = s.connections[k]
      BY <2>1
    <3>2. s.links[k] # None /\ s.pendingOutbound[s.connections[k].our] = k
      BY <3>1 DEF TablesOK, ConnectionsOK
    <3>3. s.connections[k].our \in Index /\ s.connections[k].our # i
      BY <1>1, <3>1, <3>2, ConnectionTypes
    <3> QED BY <3>1, <3>2, <3>3 DEF i
  <2>2. ASSUME NEW j \in Index, Awaited(t, j)
        PROVE  t.connections[t.pendingOutbound[j]].our = j /\ t.peersByIndex[j] = None
    <3>1. j # i /\ Awaited(s, j)
      BY <1>3, <2>2
    <3>2. t.pendingOutbound[j] = s.pendingOutbound[j]
      BY <3>1 DEF i
    <3>3. s.pendingOutbound[j] \in LinkId /\ s.pendingOutbound[j] # l
      BY <1>2, <3>1 DEF Awaited
    <3> QED BY <3>1, <3>2, <3>3 DEF TablesOK, ConnectionsOK
  <2> QED BY <2>1, <2>2 DEF ConnectionsOK
<1>5. LinksOK(t)
  <2>1. ASSUME NEW p \in Node, IsPeer(t, p)
        PROVE  t.links[t.peers[p].link] # None /\ t.connections[t.peers[p].link] = None
    <3>1. /\ IsPeer(s, p) /\ s.links[s.peers[p].link] # None
          /\ s.connections[s.peers[p].link] = None /\ s.peers[p].link \in LinkId
          /\ s.peers[p].link # l
      BY <2>1, PeerTypes DEF IsPeer, TablesOK, LinksOK
    <3> QED BY <3>1
  <2> QED BY <2>1 DEF LinksOK, TablesOK, IsPeer
<1>6. IndicesOK(t)
  <2>1. \A j \in Index : j \in t.allocated <=> t.peersByIndex[j] # None \/ Awaited(t, j)
    BY <1>1, <1>3 DEF TablesOK, IndicesOK, i
  <2> QED BY <2>1 DEF TablesOK, IndicesOK, IsPeer
<1> QED BY <1>4, <1>5, <1>6 DEF TablesOK

\* A connection that ends while its entry and its link outlive it.
LEMMA RefusedOK ==
  ASSUME NEW s \in NodeState, NEW t, TablesOK(s),
         NEW l \in LinkId, s.connections[l] # None,
         t.connections = [s.connections EXCEPT ![l] = None],
         t.links = s.links, t.pendingOutbound = s.pendingOutbound,
         t.allocated = s.allocated \ {s.connections[l].our},
         t.peers = s.peers, t.peersByIndex = s.peersByIndex, t.inbound = s.inbound
  PROVE  TablesOK(t)
<1> DEFINE i == s.connections[l].our
<1> USE NoneAssumption, NoNumberIsNone, FieldTypes
<1>1. i \in Index /\ s.pendingOutbound[i] = l /\ Awaited(s, i) /\ s.peersByIndex[i] = None
  BY ConnectionTypes DEF TablesOK, ConnectionsOK, Awaited
<1>2. \A j \in Index : j # i /\ Awaited(s, j) => s.pendingOutbound[j] # l
  BY DEF TablesOK, ConnectionsOK
<1>3. \A j \in Index : Awaited(t, j) <=> j # i /\ Awaited(s, j)
  BY <1>1, <1>2 DEF Awaited
<1> HIDE DEF i
<1>4. ConnectionsOK(t)
  <2>1. ASSUME NEW j \in Index, Awaited(t, j)
        PROVE  t.connections[t.pendingOutbound[j]].our = j /\ t.peersByIndex[j] = None
    <3>1. j # i /\ Awaited(s, j)
      BY <1>3, <2>1
    <3>2. s.pendingOutbound[j] \in LinkId /\ s.pendingOutbound[j] # l
      BY <1>2, <3>1 DEF Awaited
    <3> QED BY <3>1, <3>2 DEF TablesOK, ConnectionsOK
  <2> QED BY <2>1 DEF ConnectionsOK, TablesOK
<1>5. LinksOK(t)
  BY PeerTypes DEF LinksOK, TablesOK, IsPeer
<1>6. IndicesOK(t)
  <2>1. \A j \in Index : j \in t.allocated <=> t.peersByIndex[j] # None \/ Awaited(t, j)
    BY <1>1, <1>3 DEF TablesOK, IndicesOK, i
  <2> QED BY <2>1 DEF TablesOK, IndicesOK, IsPeer
<1> QED BY <1>4, <1>5, <1>6 DEF TablesOK

\* An entry of pending_outbound without a connection is forgotten.
LEMMA ForgottenEntryOK ==
  ASSUME NEW s \in NodeState, NEW t, TablesOK(s), NEW i \in Index, ~ Awaited(s, i),
         t.connections = s.connections, t.links = s.links,
         t.pendingOutbound = [s.pendingOutbound EXCEPT ![i] = None],
         t.allocated = s.allocated,
         t.peers = s.peers, t.peersByIndex = s.peersByIndex, t.inbound = s.inbound
  PROVE  TablesOK(t)
<1> USE NoneAssumption, NoNumberIsNone, FieldTypes
<1>1. \A j \in Index : Awaited(t, j) <=> Awaited(s, j)
  BY DEF Awaited
<1>2. \A l \in LinkId : s.connections[l] # None => s.connections[l].our \in Index \ {i}
  BY ConnectionTypes DEF TablesOK, ConnectionsOK, Awaited
<1>3. ConnectionsOK(t)
  <2>1. ASSUME NEW k \in LinkId, t.connections[k] # None
        PROVE  t.links[k] # None /\ t.pendingOutbound[t.connections[k].our] = k
    BY <1>2, <2>1 DEF TablesOK, ConnectionsOK
  <2>2. ASSUME NEW j \in Index, Awaited(t, j)
        PROVE  t.connections[t.pendingOutbound[j]].our = j /\ t.peersByIndex[j] = None
    <3>1. Awaited(s, j) /\ j # i
      BY <1>1, <2>2
    <3> QED BY <3>1 DEF TablesOK, ConnectionsOK
  <2> QED BY <2>1, <2>2 DEF ConnectionsOK
<1>4. LinksOK(t) /\ IndicesOK(t)
  BY <1>1 DEF LinksOK, TablesOK, IndicesOK, IsPeer
<1> QED BY <1>3, <1>4 DEF TablesOK

\* A connection that changes neither its peer nor its index.
LEMMA SameConnectionOK ==
  ASSUME NEW s \in NodeState, NEW t, TablesOK(s),
         NEW l \in LinkId, s.connections[l] # None,
         NEW c \in Connection, c.our = s.connections[l].our,
         t.connections = [s.connections EXCEPT ![l] = c],
         t.links = s.links, t.pendingOutbound = s.pendingOutbound,
         t.allocated = s.allocated,
         t.peers = s.peers, t.peersByIndex = s.peersByIndex, t.inbound = s.inbound
  PROVE  TablesOK(t)
<1> USE NoneAssumption, NoNumberIsNone, FieldTypes
<1>1. \A k \in LinkId : /\ t.connections[k] # None <=> s.connections[k] # None
                        /\ t.connections[k] # None => t.connections[k].our = s.connections[k].our
  BY ConnectionTypes
<1>2. \A j \in Index : Awaited(t, j) <=> Awaited(s, j)
  BY <1>1 DEF Awaited
<1>3. ConnectionsOK(t)
  BY <1>1, <1>2 DEF TablesOK, ConnectionsOK, Awaited
<1>4. LinksOK(t)
  BY <1>1, PeerTypes DEF TablesOK, LinksOK, IsPeer
<1>5. IndicesOK(t)
  BY <1>2 DEF TablesOK, IndicesOK, IsPeer
<1> QED BY <1>3, <1>4, <1>5 DEF TablesOK

\* A peer that keeps its link and its indices.
LEMMA SamePeerOK ==
  ASSUME NEW s \in NodeState, NEW t, TablesOK(s), NEW p \in Node, IsPeer(s, p),
         NEW peer \in ActivePeer, peer.link = s.peers[p].link,
         peer.our = s.peers[p].our, peer.pending = s.peers[p].pending,
         t.peers = [s.peers EXCEPT ![p] = peer],
         t.connections = s.connections, t.links = s.links,
         t.pendingOutbound = s.pendingOutbound, t.allocated = s.allocated,
         t.peersByIndex = s.peersByIndex, t.inbound = s.inbound
  PROVE  TablesOK(t)
<1> USE NoneAssumption, NoNumberIsNone, FieldTypes
<1>1. \A q \in Node : IsPeer(t, q) <=> IsPeer(s, q)
  BY DEF IsPeer
<1>2. \A q \in Node : IsPeer(s, q) =>
        /\ t.peers[q].link = s.peers[q].link /\ t.peers[q].our = s.peers[q].our
        /\ t.peers[q].pending = s.peers[q].pending
        /\ PeerIndices(t.peers[q]) = PeerIndices(s.peers[q])
  BY DEF PeerIndices
<1>3. ConnectionsOK(t)
  BY DEF TablesOK, ConnectionsOK, Awaited
<1>4. LinksOK(t)
  BY <1>1, <1>2 DEF TablesOK, LinksOK
<1>5. IndicesOK(t)
  BY <1>1, <1>2 DEF TablesOK, IndicesOK, Awaited
<1> QED BY <1>3, <1>4, <1>5 DEF TablesOK

\* A peer that gets a pending session with a new index.
LEMMA PendingOK ==
  ASSUME NEW s \in NodeState, NEW t, TablesOK(s), NEW p \in Node, IsPeer(s, p),
         s.peers[p].pending = None, NEW peer \in ActivePeer,
         peer.link = s.peers[p].link, peer.our = s.peers[p].our, peer.pending # None,
         peer.pending.our \notin s.allocated,
         s.pendingOutbound[peer.pending.our] = None,
         t.peers = [s.peers EXCEPT ![p] = peer],
         t.peersByIndex = [s.peersByIndex EXCEPT ![peer.pending.our] = p],
         t.allocated = s.allocated \cup {peer.pending.our},
         t.connections = s.connections, t.links = s.links,
         t.pendingOutbound = s.pendingOutbound, t.inbound = s.inbound
  PROVE  TablesOK(t)
<1> DEFINE i == peer.pending.our
<1>0. i \in Index
  BY DEF ActivePeer, PendingSession
<1> USE NoneAssumption, NoNumberIsNone, FieldTypes
<1> USE <1>0
<1>1. \A q \in Node : IsPeer(t, q) <=> IsPeer(s, q)
  BY DEF IsPeer
<1>2. \A q \in Node : IsPeer(s, q) => t.peers[q].link = s.peers[q].link
                                      /\ t.peers[q].our = s.peers[q].our
  OBVIOUS
<1>3. \A q \in Node : \A j : IsPeer(s, q) =>
        (j \in PeerIndices(t.peers[q]) <=> j \in PeerIndices(s.peers[q]) \/ (q = p /\ j = i))
  BY DEF PeerIndices
<1>4. s.peersByIndex[i] = None /\ ~ Awaited(s, i)
  BY DEF TablesOK, IndicesOK, Awaited
<1>5. \A q \in Node : IsPeer(s, q) => i \notin PeerIndices(s.peers[q])
  BY <1>4 DEF TablesOK, IndicesOK
<1>6. i # s.peers[p].our
  BY <1>5 DEF PeerIndices
<1>7. ConnectionsOK(t)
  BY <1>4, ConnectionTypes DEF TablesOK, ConnectionsOK, Awaited
<1>8. LinksOK(t)
  BY <1>1, <1>2 DEF TablesOK, LinksOK
<1>9. IndicesOK(t)
  <2>1. ASSUME NEW j \in Index, NEW q \in Node
        PROVE  t.peersByIndex[j] = q <=> IsPeer(t, q) /\ j \in PeerIndices(t.peers[q])
    <3>1. s.peersByIndex[j] = q <=> IsPeer(s, q) /\ j \in PeerIndices(s.peers[q])
      BY DEF TablesOK, IndicesOK
    <3>2. IsPeer(t, q) /\ j \in PeerIndices(t.peers[q])
            <=> IsPeer(s, q) /\ (j \in PeerIndices(s.peers[q]) \/ (q = p /\ j = i))
      BY <1>1, <1>3
    <3> QED BY <1>5, <3>1, <3>2
  <2>2. ASSUME NEW q \in Node, IsPeer(t, q), t.peers[q].pending # None
        PROVE  t.peers[q].pending.our # t.peers[q].our
    BY <1>6, <2>2 DEF IsPeer, TablesOK, IndicesOK
  <2>3. \A j \in Index : j \in t.allocated <=> t.peersByIndex[j] # None \/ Awaited(t, j)
    BY DEF TablesOK, IndicesOK, Awaited
  <2> QED BY <2>1, <2>2, <2>3 DEF IndicesOK
<1> QED BY <1>7, <1>8, <1>9 DEF TablesOK

\* A peer that goes, with its link and its indices.
LEMMA RemovedOK ==
  ASSUME NEW s \in NodeState, NEW t, TablesOK(s), NEW p \in Node, IsPeer(s, p),
         t.peers = [s.peers EXCEPT ![p] = None],
         t.peersByIndex = Forget(s.peersByIndex, PeerIndices(s.peers[p])),
         t.allocated = s.allocated \ PeerIndices(s.peers[p]),
         t.links = [s.links EXCEPT ![s.peers[p].link] = None],
         t.connections = s.connections,
         t.pendingOutbound = s.pendingOutbound, t.inbound = s.inbound
  PROVE  TablesOK(t)
<1> DEFINE gone == PeerIndices(s.peers[p])
<1> USE NoneAssumption, NoNumberIsNone, FieldTypes
<1>1. \A q \in Node : IsPeer(t, q) <=> q # p /\ IsPeer(s, q)
  BY DEF IsPeer
<1>2. \A q \in Node : IsPeer(t, q) => t.peers[q] = s.peers[q]
  BY <1>1
<1>3. \A j \in Index : t.peersByIndex[j] = IF j \in gone THEN None ELSE s.peersByIndex[j]
  BY DEF Forget
<1>4. \A j \in Index : j \in gone <=> s.peersByIndex[j] = p
  BY DEF TablesOK, IndicesOK
<1>5. \A j \in Index : Awaited(t, j) <=> Awaited(s, j)
  BY DEF Awaited
<1>6. \A j \in Index : Awaited(s, j) => j \notin gone
  BY <1>4 DEF TablesOK, ConnectionsOK
<1> HIDE DEF gone
<1>7. ConnectionsOK(t)
  <2>1. ASSUME NEW k \in LinkId, t.connections[k] # None
        PROVE  t.links[k] # None /\ t.pendingOutbound[t.connections[k].our] = k
    <3>1. k # s.peers[p].link
      BY <2>1 DEF TablesOK, LinksOK
    <3> QED BY <2>1, <3>1 DEF TablesOK, ConnectionsOK
  <2>2. ASSUME NEW j \in Index, Awaited(t, j)
        PROVE  t.connections[t.pendingOutbound[j]].our = j /\ t.peersByIndex[j] = None
    BY <1>3, <1>5, <1>6, <2>2 DEF TablesOK, ConnectionsOK
  <2> QED BY <2>1, <2>2 DEF ConnectionsOK
<1>8. LinksOK(t)
  <2>1. ASSUME NEW q \in Node, IsPeer(t, q)
        PROVE  t.links[t.peers[q].link] # None /\ t.connections[t.peers[q].link] = None
    <3>1. /\ q # p /\ IsPeer(s, q) /\ t.peers[q] = s.peers[q]
          /\ s.peers[q].link \in LinkId /\ s.peers[q].link # s.peers[p].link
      BY <1>1, <1>2, <2>1, PeerTypes DEF TablesOK, LinksOK
    <3> QED BY <3>1 DEF TablesOK, LinksOK
  <2> QED BY <1>1, <1>2, <2>1 DEF TablesOK, LinksOK
<1>9. IndicesOK(t)
  <2>1. ASSUME NEW j \in Index, NEW q \in Node
        PROVE  t.peersByIndex[j] = q <=> IsPeer(t, q) /\ j \in PeerIndices(t.peers[q])
    <3>1. s.peersByIndex[j] = q <=> IsPeer(s, q) /\ j \in PeerIndices(s.peers[q])
      BY DEF TablesOK, IndicesOK
    <3>2. t.peersByIndex[j] = q <=> q # p /\ s.peersByIndex[j] = q
      BY <1>3, <1>4
    <3> QED BY <1>1, <1>2, <3>1, <3>2
  <2>2. ASSUME NEW q \in Node, IsPeer(t, q), t.peers[q].pending # None
        PROVE  t.peers[q].pending.our # t.peers[q].our
    BY <1>1, <1>2, <2>2 DEF TablesOK, IndicesOK
  <2>3. ASSUME NEW j \in Index
        PROVE  j \in t.allocated <=> t.peersByIndex[j] # None \/ Awaited(t, j)
    <3>1. j \in t.allocated <=> j \in s.allocated /\ j \notin gone
      BY DEF gone
    <3>2. j \in s.allocated <=> s.peersByIndex[j] # None \/ Awaited(s, j)
      BY DEF TablesOK, IndicesOK
    <3> QED BY <1>3, <1>5, <1>6, <3>1, <3>2
  <2> QED BY <2>1, <2>2, <2>3 DEF IndicesOK
<1> QED BY <1>7, <1>8, <1>9 DEF TablesOK

\* t is s with peer p on a link and an index that no other peer has, and that of
\* no connection of t.
Inserted(s, p, peer, t) ==
  /\ t.peers = [s.peers EXCEPT ![p] = peer]
  /\ t.peersByIndex = [s.peersByIndex EXCEPT ![peer.our] = p]
  /\ t.allocated = s.allocated \cup {peer.our} /\ s.peersByIndex[peer.our] = None
  /\ \A j \in Index : Awaited(t, j) <=> Awaited(s, j) /\ j # peer.our
  /\ \A q \in Node : IsPeer(s, q) => s.peers[q].link # peer.link
  /\ t.links[peer.link] # None /\ t.connections[peer.link] = None
  /\ \A l \in LinkId : l # peer.link => /\ t.links[l] = s.links[l]
                                         /\ t.connections[l] = s.connections[l]
  /\ \A j \in Index : j # peer.our => t.pendingOutbound[j] = s.pendingOutbound[j]
  /\ s.pendingOutbound[peer.our] \in {None, peer.link}
  /\ t.inbound = s.inbound

\* A peer that is promoted with one index, which nothing has or a connection had,
\* on a link that is new or the connection's.
LEMMA PromotedOK ==
  ASSUME NEW s \in NodeState, NEW t, TablesOK(s), NEW p \in Node, ~ IsPeer(s, p),
         NEW peer \in ActivePeer, peer.pending = None, Inserted(s, p, peer, t)
  PROVE  TablesOK(t)
<1> USE DEF Inserted
<1> DEFINE i == peer.our
<1>0. i \in Index
  BY DEF ActivePeer
<1> USE <1>0
<1> USE NoneAssumption, NoNumberIsNone, FieldTypes
<1>1. \A q \in Node : IsPeer(t, q) <=> q = p \/ IsPeer(s, q)
  BY DEF IsPeer
<1>2. \A q \in Node : q # p => t.peers[q] = s.peers[q]
  OBVIOUS
<1>3. t.peers[p] = peer /\ PeerIndices(peer) = {i} /\ peer.link \in LinkId
  BY DEF PeerIndices, ActivePeer
<1>4. ConnectionsOK(t)
  <2>1. ASSUME NEW k \in LinkId, t.connections[k] # None
        PROVE  t.links[k] # None /\ t.pendingOutbound[t.connections[k].our] = k
    <3>1. k # peer.link /\ s.connections[k] # None /\ t.connections[k] = s.connections[k]
      BY <2>1
    <3>2. /\ s.links[k] # None /\ s.connections[k].our \in Index
          /\ s.pendingOutbound[s.connections[k].our] = k /\ Awaited(s, s.connections[k].our)
      BY <3>1, ConnectionTypes DEF TablesOK, ConnectionsOK, Awaited
    <3>3. s.connections[k].our # i
      BY <3>1, <3>2
    <3> QED BY <3>1, <3>2, <3>3
  <2>2. ASSUME NEW j \in Index, Awaited(t, j)
        PROVE  t.connections[t.pendingOutbound[j]].our = j /\ t.peersByIndex[j] = None
    <3>1. /\ j # i /\ Awaited(s, j) /\ t.pendingOutbound[j] = s.pendingOutbound[j]
          /\ s.pendingOutbound[j] \in LinkId
      BY <2>2 DEF Awaited
    <3>2. s.pendingOutbound[j] # peer.link
      BY <2>2, <3>1 DEF Awaited
    <3> QED BY <3>1, <3>2 DEF TablesOK, ConnectionsOK
  <2> QED BY <2>1, <2>2 DEF ConnectionsOK
<1>5. LinksOK(t)
  <2>1. ASSUME NEW q \in Node, IsPeer(t, q), q # p
        PROVE  /\ t.links[t.peers[q].link] # None /\ t.connections[t.peers[q].link] = None
               /\ t.peers[q].link # peer.link
    <3>1. IsPeer(s, q) /\ t.peers[q] = s.peers[q] /\ s.peers[q].link \in LinkId
      BY <1>1, <1>2, <2>1, PeerTypes
    <3> QED BY <3>1 DEF TablesOK, LinksOK
  <2> QED BY <1>1, <1>2, <1>3, <2>1 DEF TablesOK, LinksOK
<1>6. IndicesOK(t)
  <2>1. ASSUME NEW j \in Index, NEW q \in Node
        PROVE  t.peersByIndex[j] = q <=> IsPeer(t, q) /\ j \in PeerIndices(t.peers[q])
    <3>1. s.peersByIndex[j] = q <=> IsPeer(s, q) /\ j \in PeerIndices(s.peers[q])
      BY DEF TablesOK, IndicesOK
    <3>2. CASE q = p
      BY <1>1, <1>3, <3>1, <3>2
    <3>3. CASE q # p
      BY <1>1, <1>2, <3>1, <3>3
    <3> QED BY <3>2, <3>3
  <2>2. ASSUME NEW q \in Node, IsPeer(t, q), t.peers[q].pending # None
        PROVE  t.peers[q].pending.our # t.peers[q].our
    BY <1>1, <1>2, <1>3, <2>2 DEF TablesOK, IndicesOK
  <2>3. ASSUME NEW j \in Index
        PROVE  j \in t.allocated <=> t.peersByIndex[j] # None \/ Awaited(t, j)
    BY DEF TablesOK, IndicesOK
  <2> QED BY <2>1, <2>2, <2>3 DEF IndicesOK
<1> QED BY <1>4, <1>5, <1>6 DEF TablesOK

\* t is s after peer p took the session and the index of connection l, which ended
\* with its link.
Swapped(s, p, l, peer, t) ==
  /\ peer \in ActivePeer /\ peer.link = s.peers[p].link
  /\ peer.our = s.connections[l].our /\ peer.pending = s.peers[p].pending
  /\ t.peers = [s.peers EXCEPT ![p] = peer]
  /\ t.peersByIndex = [Forget(s.peersByIndex, {s.peers[p].our})
                          EXCEPT ![s.connections[l].our] = p]
  /\ t.allocated = s.allocated \ {s.peers[p].our}
  /\ t.connections = [s.connections EXCEPT ![l] = None]
  /\ t.links = [s.links EXCEPT ![l] = None]
  /\ t.pendingOutbound = [s.pendingOutbound EXCEPT ![s.connections[l].our] = None]
  /\ t.inbound = s.inbound

LEMMA SwappedOK ==
  ASSUME NEW s \in NodeState, NEW t, TablesOK(s), NEW p \in Node, IsPeer(s, p),
         NEW l \in LinkId, s.connections[l] # None, NEW peer, Swapped(s, p, l, peer, t)
  PROVE  TablesOK(t)
<1>0. /\ peer \in ActivePeer /\ peer.link = s.peers[p].link
      /\ peer.our = s.connections[l].our /\ peer.pending = s.peers[p].pending
      /\ t.peers = [s.peers EXCEPT ![p] = peer]
      /\ t.peersByIndex = [Forget(s.peersByIndex, {s.peers[p].our})
                              EXCEPT ![s.connections[l].our] = p]
      /\ t.allocated = s.allocated \ {s.peers[p].our}
      /\ t.connections = [s.connections EXCEPT ![l] = None]
      /\ t.links = [s.links EXCEPT ![l] = None]
      /\ t.pendingOutbound = [s.pendingOutbound EXCEPT ![s.connections[l].our] = None]
      /\ t.inbound = s.inbound
  BY DEF Swapped
<1> USE <1>0
<1> DEFINE i == s.connections[l].our
           old == s.peers[p].our
<1> USE NoneAssumption, NoNumberIsNone, FieldTypes
<1>1. i \in Index /\ s.pendingOutbound[i] = l /\ Awaited(s, i) /\ s.peersByIndex[i] = None
  BY ConnectionTypes DEF TablesOK, ConnectionsOK, Awaited
<1>2. old \in Index /\ s.peersByIndex[old] = p /\ old # i /\ ~ Awaited(s, old)
  BY <1>1, PeerTypes DEF PeerIndices, TablesOK, IndicesOK, ConnectionsOK
<1>3. \A j \in Index : j # i /\ Awaited(s, j) => s.pendingOutbound[j] # l
  BY DEF TablesOK, ConnectionsOK
<1>4. \A j \in Index : Awaited(t, j) <=> j # i /\ Awaited(s, j)
  BY <1>1, <1>3 DEF Awaited
<1>5. \A j \in Index : t.peersByIndex[j] = IF j = i THEN p
                                           ELSE IF j = old THEN None ELSE s.peersByIndex[j]
  BY <1>1 DEF Forget
<1>6. /\ \A q \in Node : IsPeer(t, q) <=> IsPeer(s, q)
      /\ \A q \in Node : IsPeer(s, q) => /\ t.peers[q].link = s.peers[q].link
                                         /\ t.peers[q].pending = s.peers[q].pending
      /\ \A q \in Node : q # p => t.peers[q] = s.peers[q]
      /\ t.peers[p].our = i
  BY DEF IsPeer
<1>7. \A q \in Node : IsPeer(s, q) => s.peers[q].link # l
  BY DEF TablesOK, LinksOK
<1> HIDE DEF i, old
<1>8. ConnectionsOK(t)
  <2>1. ASSUME NEW k \in LinkId, t.connections[k] # None
        PROVE  t.links[k] # None /\ t.pendingOutbound[t.connections[k].our] = k
    <3>1. k # l /\ s.connections[k] # None /\ t.connections[k] = s.connections[k]
      BY <2>1
    <3>2. s.links[k] # None /\ s.pendingOutbound[s.connections[k].our] = k
      BY <3>1 DEF TablesOK, ConnectionsOK
    <3>3. s.connections[k].our \in Index /\ s.connections[k].our # i
      BY <1>1, <3>1, <3>2, ConnectionTypes
    <3> QED BY <3>1, <3>2, <3>3 DEF i
  <2>2. ASSUME NEW j \in Index, Awaited(t, j)
        PROVE  t.connections[t.pendingOutbound[j]].our = j /\ t.peersByIndex[j] = None
    <3>1. j # i /\ j # old /\ Awaited(s, j)
      BY <1>2, <1>4, <2>2
    <3>2. t.pendingOutbound[j] = s.pendingOutbound[j]
      BY <3>1 DEF i
    <3>3. s.pendingOutbound[j] \in LinkId /\ s.pendingOutbound[j] # l
      BY <1>3, <3>1 DEF Awaited
    <3>4. s.connections[s.pendingOutbound[j]].our = j /\ s.peersByIndex[j] = None
      BY <3>1 DEF TablesOK, ConnectionsOK
    <3>5. t.connections[s.pendingOutbound[j]] = s.connections[s.pendingOutbound[j]]
      BY <3>3
    <3>6. t.peersByIndex[j] = None
      BY <1>5, <3>1, <3>4
    <3> QED BY <3>2, <3>4, <3>5, <3>6
  <2> QED BY <2>1, <2>2 DEF ConnectionsOK
<1>9. LinksOK(t)
  <2>1. ASSUME NEW q \in Node, IsPeer(t, q)
        PROVE  t.links[t.peers[q].link] # None /\ t.connections[t.peers[q].link] = None
    <3>1. /\ IsPeer(s, q) /\ t.peers[q].link = s.peers[q].link
          /\ s.peers[q].link \in LinkId /\ s.peers[q].link # l
      BY <1>6, <1>7, <2>1, PeerTypes
    <3> QED BY <3>1 DEF TablesOK, LinksOK
  <2> QED BY <1>6, <2>1 DEF TablesOK, LinksOK
<1>10. IndicesOK(t)
  <2>1. ASSUME NEW q \in Node, IsPeer(s, q), NEW j \in Index
        PROVE  j \in PeerIndices(t.peers[q]) <=>
                 \/ q = p /\ j = i
                 \/ j \in PeerIndices(s.peers[q]) /\ ~ (q = p /\ j = old)
    <3>1. CASE q # p
      BY <1>6, <3>1
    <3>2. CASE q = p
      <4>1. s.peers[p].pending # None => s.peers[p].pending.our # old
        BY <2>1, <3>2 DEF TablesOK, IndicesOK, old
      <4> QED BY <1>6, <3>2, <4>1 DEF PeerIndices, old
    <3> QED BY <3>1, <3>2
  <2>2. ASSUME NEW j \in Index, NEW q \in Node
        PROVE  t.peersByIndex[j] = q <=> IsPeer(t, q) /\ j \in PeerIndices(t.peers[q])
    <3>1. s.peersByIndex[j] = q <=> IsPeer(s, q) /\ j \in PeerIndices(s.peers[q])
      BY DEF TablesOK, IndicesOK
    <3>2. t.peersByIndex[j] = q <=> \/ q = p /\ j = i
                                    \/ s.peersByIndex[j] = q /\ ~ (q = p /\ j = old)
      <4>1. CASE j = i
        <5>1. t.peersByIndex[j] = p /\ s.peersByIndex[j] # q
          BY <1>1, <1>5, <4>1
        <5> QED BY <4>1, <5>1
      <4>2. CASE j = old
        <5>1. t.peersByIndex[j] # q /\ s.peersByIndex[j] = p /\ j # i
          BY <1>2, <1>5, <4>2
        <5> QED BY <4>2, <5>1
      <4>3. CASE j # i /\ j # old
        <5>1. t.peersByIndex[j] = s.peersByIndex[j]
          BY <1>5, <4>3
        <5> QED BY <4>3, <5>1
      <4> QED BY <4>1, <4>2, <4>3
    <3>3. CASE ~ IsPeer(s, q)
      <4>1. q # p /\ ~ IsPeer(t, q)
        BY <1>6, <3>3
      <4> QED BY <3>1, <3>2, <3>3, <4>1
    <3>4. CASE IsPeer(s, q)
      <4>1. IsPeer(t, q)
        BY <1>6, <3>4
      <4> QED BY <2>1, <3>1, <3>2, <3>4, <4>1
    <3> QED BY <3>3, <3>4
  <2>3. ASSUME NEW q \in Node, IsPeer(t, q), t.peers[q].pending # None
        PROVE  t.peers[q].pending.our # t.peers[q].our
    <3>1. CASE q # p
      BY <1>6, <2>3, <3>1 DEF TablesOK, IndicesOK
    <3>2. CASE q = p
      <4>1. s.peers[p].pending # None /\ s.peers[p].pending.our \in PeerIndices(s.peers[p])
        BY <1>6, <2>3, <3>2 DEF PeerIndices
      <4>2. s.peersByIndex[s.peers[p].pending.our] = p
        BY <4>1, PeerTypes DEF TablesOK, IndicesOK
      <4> QED BY <1>1, <1>6, <3>2, <4>2
    <3> QED BY <3>1, <3>2
  <2>4. ASSUME NEW j \in Index
        PROVE  j \in t.allocated <=> t.peersByIndex[j] # None \/ Awaited(t, j)
    <3>1. j \in t.allocated <=> j \in s.allocated /\ j # old
      BY DEF old
    <3>2. j \in s.allocated <=> s.peersByIndex[j] # None \/ Awaited(s, j)
      BY DEF TablesOK, IndicesOK
    <3> QED BY <1>1, <1>2, <1>4, <1>5, <3>1, <3>2
  <2> QED BY <2>2, <2>3, <2>4 DEF IndicesOK
<1> QED BY <1>8, <1>9, <1>10 DEF TablesOK

-----------------------------------------------------------------------------
(* The operators on the state of a node.                                   *)

LEMMA ConstantTypes ==
  /\ AutoConnect \in [Node -> SUBSET Node]
  /\ MaxPeers \in Nat \ {0} /\ MaxRetries \in Nat \ {0}
  /\ MaxResends \in Nat /\ MaxFaults \in Nat /\ MaxRefusals \in Nat
BY ConfigAssumption

\* What the tables do not hold.
SameRest(s, t) ==
  /\ t.epoch = s.epoch /\ t.starting = s.starting /\ t.guests = s.guests
  /\ t.parted = s.parted /\ t.refused = s.refused /\ t.leftover = s.leftover

LEMMA RemoveLinkFields ==
  ASSUME NEW s \in NodeState, NEW l \in LinkId
  PROVE  LET t == RemoveLink(s, l)
         IN  /\ t \in NodeState
             /\ t.links = [s.links EXCEPT ![l] = None]
             /\ t.connections = s.connections /\ t.pendingOutbound = s.pendingOutbound
             /\ t.peers = s.peers /\ t.peersByIndex = s.peersByIndex
             /\ t.allocated = s.allocated /\ t.inbound = s.inbound
             /\ t.retry = s.retry /\ SameRest(s, t)
<1>1. CASE s.links[l] = None
  <2>1. RemoveLink(s, l) = s
    BY <1>1 DEF RemoveLink
  <2>2. s.links = [s.links EXCEPT ![l] = None]
    BY <1>1, FieldTypes
  <2> QED BY <2>1, <2>2 DEF SameRest
<1>2. CASE s.links[l] # None
  <2> DEFINE a == s.links[l].addr
             b == [s.addrToLink EXCEPT ![a] = IF @ = l THEN None ELSE @]
  <2>1. a \in Node
    BY <1>2, FieldTypes DEF Link
  <2>2. b \in [Node -> LinkId \cup {None}]
    BY <2>1, FieldTypes
  <2>3. [s.links EXCEPT ![l] = None] \in [LinkId -> Link \cup {None}]
    BY FieldTypes
  <2>4. RemoveLink(s, l) = [s EXCEPT !.links = [s.links EXCEPT ![l] = None], !.addrToLink = b]
    BY <1>2 DEF RemoveLink, NodeState
  <2> HIDE DEF b
  <2> QED BY ZenonT(60), <2>2, <2>3, <2>4 DEF NodeState, SameRest
<1> QED BY <1>1, <1>2

\* t is s after peer p went.
Removed(s, p, t) ==
  /\ t \in NodeState
  /\ t.peers = [s.peers EXCEPT ![p] = None]
  /\ t.peersByIndex = Forget(s.peersByIndex, PeerIndices(s.peers[p]))
  /\ t.allocated = s.allocated \ PeerIndices(s.peers[p])
  /\ t.links = [s.links EXCEPT ![s.peers[p].link] = None]
  /\ t.connections = s.connections /\ t.pendingOutbound = s.pendingOutbound
  /\ t.inbound = s.inbound /\ t.retry = s.retry /\ SameRest(s, t)

LEMMA RemoveActivePeerFields ==
  ASSUME NEW s \in NodeState, NEW p \in Node, IsPeer(s, p)
  PROVE  Removed(s, p, RemoveActivePeer(s, p))
<1> DEFINE gone == PeerIndices(s.peers[p])
           f == [s.peers EXCEPT ![p] = None]
           g == Forget(s.peersByIndex, gone)
           h == s.allocated \ gone
           u == [s EXCEPT !.peers = f, !.peersByIndex = g, !.allocated = h]
<1>1. f \in [Node -> ActivePeer \cup {None}] /\ h \in SUBSET Index
      /\ g \in [Index -> Node \cup {None}]
  BY FieldTypes DEF Forget
<1>2. RemoveActivePeer(s, p) = RemoveLink(u, s.peers[p].link)
  BY DEF RemoveActivePeer, NodeState
<1> HIDE DEF gone, f, g, h
<1>3. /\ u \in NodeState /\ u.peers = f /\ u.peersByIndex = g /\ u.allocated = h
      /\ u.links = s.links /\ u.connections = s.connections
      /\ u.pendingOutbound = s.pendingOutbound
      /\ u.inbound = s.inbound /\ u.retry = s.retry /\ SameRest(s, u)
  BY <1>1 DEF NodeState, SameRest
<1> HIDE DEF u
<1>4. PICK t : t = RemoveLink(u, s.peers[p].link)
  OBVIOUS
<1>5. s.peers[p].link \in LinkId
  BY PeerTypes
<1>6. /\ t \in NodeState /\ t.links = [u.links EXCEPT ![s.peers[p].link] = None]
      /\ t.connections = u.connections /\ t.pendingOutbound = u.pendingOutbound
      /\ t.peers = u.peers /\ t.peersByIndex = u.peersByIndex
      /\ t.allocated = u.allocated /\ t.inbound = u.inbound
      /\ t.retry = u.retry /\ SameRest(u, t)
  BY <1>3, <1>4, <1>5, RemoveLinkFields
<1>7. SameRest(s, t)
  BY <1>3, <1>6 DEF SameRest
<1>8. Removed(s, p, t)
  BY <1>3, <1>6, <1>7 DEF Removed, f, g, h, gone
<1> QED BY <1>2, <1>4, <1>8

LEMMA RemoveActivePeerOK ==
  ASSUME NEW s \in NodeState, NEW p \in Node, IsPeer(s, p), TablesOK(s)
  PROVE  TablesOK(RemoveActivePeer(s, p))
<1>1. PICK t : t = RemoveActivePeer(s, p)
  OBVIOUS
<1>2. Removed(s, p, t)
  BY <1>1, RemoveActivePeerFields
<1>3. TablesOK(t)
  BY <1>2, RemovedOK DEF Removed
<1> QED BY <1>1, <1>3

LEMMA BumpTyped ==
  ASSUME NEW state \in RetryState
  PROVE  Bump(state) \in RetryState /\ Bump(state).reconnect = state.reconnect
BY ConstantTypes DEF Bump, RetryState

\* A retry entry of peer p that is replaced.
LEMMA RetryFields ==
  ASSUME NEW s \in NodeState, NEW p \in Node, NEW r \in RetryState \cup {None}
  PROVE  LET t == [s EXCEPT !.retry[p] = r]
         IN  /\ t \in NodeState /\ t.retry = [s.retry EXCEPT ![p] = r]
             /\ SameTables(s, t) /\ SameRest(s, t)
<1>1. [s.retry EXCEPT ![p] = r] \in [Node -> RetryState \cup {None}]
  BY FieldTypes
<1> QED BY <1>1 DEF NodeState, SameTables, SameRest

\* t is s after a reconnect to p was scheduled, if p is configured.
Reconnecting(n, s, p, t) ==
  /\ t \in NodeState /\ SameTables(s, t) /\ SameRest(s, t)
  /\ \A q \in Node : q # p => t.retry[q] = s.retry[q]
  /\ p \in AutoConnect[n] => t.retry[p] # None /\ t.retry[p].reconnect
  /\ p \notin AutoConnect[n] => t = s

LEMMA ScheduleReconnectFields ==
  ASSUME NEW n, NEW s \in NodeState, NEW p \in Node
  PROVE  Reconnecting(n, s, p, ScheduleReconnect(n, s, p))
<1>1. CASE p \notin AutoConnect[n]
  <2>1. ScheduleReconnect(n, s, p) = s
    BY <1>1 DEF ScheduleReconnect
  <2>2. Reconnecting(n, s, p, s)
    BY <1>1 DEF Reconnecting, SameTables, SameRest
  <2> QED BY <2>1, <2>2
<1>2. CASE p \in AutoConnect[n]
  <2> DEFINE r == IF s.retry[p] = None THEN [count |-> 0, reconnect |-> TRUE]
                  ELSE [Bump(s.retry[p]) EXCEPT !.reconnect = TRUE]
  <2>1. r \in RetryState /\ r.reconnect
    <3>1. CASE s.retry[p] = None
      BY <3>1, ConstantTypes DEF RetryState
    <3>2. CASE s.retry[p] # None
      <4>1. Bump(s.retry[p]) \in RetryState
        BY <3>2, FieldTypes, BumpTyped
      <4>2. \A b \in RetryState : [b EXCEPT !.reconnect = TRUE] \in RetryState
                                   /\ [b EXCEPT !.reconnect = TRUE].reconnect
        BY DEF RetryState
      <4> QED BY <3>2, <4>1, <4>2
    <3> QED BY <3>1, <3>2
  <2>2. ScheduleReconnect(n, s, p) = [s EXCEPT !.retry[p] = r]
    BY <1>2 DEF ScheduleReconnect, NodeState
  <2> HIDE DEF r
  <2>3. r # None
    BY <2>1, NoneAssumption
  <2>4. PICK t : t = [s EXCEPT !.retry[p] = r]
    OBVIOUS
  <2>5. Reconnecting(n, s, p, t)
    BY <1>2, <2>1, <2>3, <2>4, RetryFields, FieldTypes DEF Reconnecting
  <2> QED BY <2>2, <2>4, <2>5
<1> QED BY <1>1, <1>2

\* max_retries never ends the pursuit of a peer whose entry says reconnect.
LEMMA ScheduleRetryFields ==
  ASSUME NEW n \in Node, NEW s \in NodeState, NEW p \in Node,
         \A q \in Node : s.retry[q] # None => s.retry[q].reconnect
  PROVE  LET t == ScheduleRetry(n, s, p)
         IN  /\ t \in NodeState /\ SameTables(s, t) /\ SameRest(s, t)
             /\ \A q \in Node : q # p => t.retry[q] = s.retry[q]
             /\ IsPeer(s, p) => t = s
             /\ ~ IsPeer(s, p) /\ p \in AutoConnect[n] => t.retry[p] # None
             /\ \A q \in Node : t.retry[q] # None => t.retry[q].reconnect
<1>1. CASE IsPeer(s, p) \/ (s.retry[p] = None /\ p \notin AutoConnect[n])
  <2>1. ScheduleRetry(n, s, p) = s
    BY <1>1 DEF ScheduleRetry
  <2> QED BY <1>1, <2>1 DEF SameTables, SameRest
<1>2. CASE ~ IsPeer(s, p) /\ s.retry[p] # None
  <2>1. s.retry[p] \in RetryState /\ s.retry[p].reconnect = TRUE
    BY <1>2, FieldTypes DEF RetryState
  <2>2. Bump(s.retry[p]) \in RetryState /\ Bump(s.retry[p]).reconnect
    BY <2>1, BumpTyped
  <2>3. ScheduleRetry(n, s, p) = [s EXCEPT !.retry[p] = Bump(s.retry[p])]
    BY <1>2, <2>1 DEF ScheduleRetry, NodeState
  <2>4. Bump(s.retry[p]) # None
    BY <2>2, NoneAssumption
  <2> QED BY <1>2, <2>2, <2>3, <2>4, RetryFields, FieldTypes
<1>3. CASE ~ IsPeer(s, p) /\ s.retry[p] = None /\ p \in AutoConnect[n]
  <2> DEFINE r == [count |-> 1, reconnect |-> TRUE]
  <2>1. r \in RetryState /\ r.reconnect
    BY ConstantTypes DEF RetryState
  <2>2. ScheduleRetry(n, s, p) = [s EXCEPT !.retry[p] = r]
    BY <1>3 DEF ScheduleRetry
  <2>3. r # None
    BY <2>1, NoneAssumption
  <2> HIDE DEF r
  <2> QED BY <1>3, <2>1, <2>2, <2>3, RetryFields, FieldTypes
<1> QED BY <1>1, <1>2, <1>3

-----------------------------------------------------------------------------
(* A step of one node.                                                     *)

\* The connections of n after a step: those it had, or one with a new index.
Tame(n, t) ==
  \A l \in LinkId : t.connections[l] # None =>
    \/ /\ node[n].connections[l] # None
       /\ node[n].connections[l].our = t.connections[l].our
       /\ node[n].connections[l].peer = t.connections[l].peer
    \/ t.connections[l].our \in FreeIndex

LEMMA FreeIndexIsNew ==
  ASSUME TypeOK, NEW i \in FreeIndex
  PROVE  /\ i \in Index
         /\ \A n \in Node : i \notin node[n].allocated /\ node[n].pendingOutbound[i] = None
         /\ \A m \in net : i \notin IndicesIn(m)
         /\ \A n, p \in Node : IsPeer(node[n], p) /\ node[n].peers[p].msg2 # None
                                 => i \notin IndicesIn(node[n].peers[p].msg2)
<1>1. /\ i \in Index
      /\ \A n \in Node : i \notin MentionedBy(node[n])
      /\ \A m \in net : i \notin IndicesIn(m)
  BY DEF FreeIndex, Least
<1>2. ASSUME NEW n \in Node
      PROVE  i \notin node[n].allocated /\ node[n].pendingOutbound[i] = None
  <2>1. i \notin MentionedBy(node[n])
    BY <1>1
  <2> QED BY <1>1, <2>1 DEF MentionedBy
<1>3. ASSUME NEW n \in Node, NEW p \in Node, IsPeer(node[n], p), node[n].peers[p].msg2 # None
      PROVE  i \notin IndicesIn(node[n].peers[p].msg2)
  <2>1. i \notin MentionedBy(node[n])
    BY <1>1
  <2> QED BY <1>3, <2>1 DEF MentionedBy, IsPeer
<1> QED BY <1>1, <1>2, <1>3

LEMMA FreeLinkIsNew ==
  ASSUME NEW s, NEW l \in FreeLink(s)
  PROVE  l \in LinkId /\ s.links[l] = None /\ \A i \in Index : s.pendingOutbound[i] # l
BY DEF FreeLink, Least

LEMMA MessageFields ==
  ASSUME NEW m \in Message
  PROVE  /\ m.type = "msg1" => m \in Msg1
         /\ m.type = "msg2" => m \in Msg2
         /\ m.type = "disconnect" => m \in Disconnect
         /\ m.from \in Node /\ m.to \in Node
         /\ m.type = "msg1" => m.sender \in IndicesIn(m)
         /\ m.type = "msg2" => m.receiver \in IndicesIn(m)
BY DEF Message, Msg1, Msg2, Disconnect, IndicesIn

\* What was said of an index stays true of it.
LEMMA AimedKept ==
  ASSUME IndInv, NEW n \in Node, NEW t \in NodeState, node' = [node EXCEPT ![n] = t],
         Tame(n, t), NEW k \in Node, NEW p \in Node, NEW i, i \notin FreeIndex, Aimed(k, i, p)
  PROVE  Aimed(k, i, p)'
<1>1. node \in [Node -> NodeState]
  BY DEF IndInv, TypeOK
<1>2. CASE k # n
  <2>1. node'[k] = node[k]
    BY <1>1, <1>2
  <2> QED BY <2>1 DEF Aimed
<1>3. CASE k = n
  <2>1. node'[k] = t
    BY <1>1, <1>3
  <2>2. ASSUME NEW l \in LinkId, t.connections[l] # None, t.connections[l].our = i
        PROVE  t.connections[l].peer = p
    BY <1>3, <2>2 DEF Tame, Aimed
  <2> QED BY <2>1, <2>2 DEF Aimed
<1> QED BY <1>2, <1>3

LEMMA MessageKept ==
  ASSUME IndInv, NEW n \in Node, NEW t \in NodeState, node' = [node EXCEPT ![n] = t],
         Tame(n, t), NEW m \in net
  PROVE  MessageOK(m)'
<1>1. MessageOK(m) /\ m \in Message /\ \A i \in FreeIndex : i \notin IndicesIn(m)
  BY FreeIndexIsNew DEF IndInv, TypeOK
<1>2. /\ m.from \in Node /\ m.to \in Node
      /\ m.type = "msg1" => m.sender \notin FreeIndex /\ Aimed(m.from, m.sender, m.to)
      /\ m.type = "msg2" => m.receiver \notin FreeIndex /\ Aimed(m.to, m.receiver, m.from)
  BY <1>1, MessageFields DEF MessageOK
<1>3. m.type = "msg1" => Aimed(m.from, m.sender, m.to)'
  BY <1>2, AimedKept
<1>4. m.type = "msg2" => Aimed(m.to, m.receiver, m.from)'
  BY <1>2, AimedKept
<1> QED BY <1>3, <1>4 DEF MessageOK

LEMMA StoredKept ==
  ASSUME IndInv, NEW n \in Node, NEW t \in NodeState, node' = [node EXCEPT ![n] = t],
         Tame(n, t), NEW k \in Node, NEW p \in Node, NEW m,
         IsPeer(node[k], p), node[k].peers[p].msg2 # None, m = node[k].peers[p].msg2
  PROVE  MessageOK(m)'
<1>1. node[k] \in NodeState /\ MessageOK(m)
  BY DEF IndInv, TypeOK, StoredOK
<1>2. m \in Msg2
  BY <1>1, PeerTypes
<1>3. m.type = "msg2" /\ m.receiver \in IndicesIn(m) /\ m.from \in Node /\ m.to \in Node
  BY <1>2 DEF Msg2, IndicesIn
<1>4. m.receiver \notin FreeIndex
  BY <1>3, FreeIndexIsNew DEF IndInv
<1>5. Aimed(m.to, m.receiver, m.from)
  BY <1>1, <1>3 DEF MessageOK
<1>6. Aimed(m.to, m.receiver, m.from)'
  BY <1>3, <1>4, <1>5, AimedKept
<1> QED BY <1>3, <1>6 DEF MessageOK

\* A step of n keeps the invariant when its tables are in order, it gives no peer
\* up, and what it sends and stores is aimed well.
LEMMA OneNodeStep ==
  ASSUME IndInv, NEW n \in Node, NEW t \in NodeState, node' = [node EXCEPT ![n] = t],
         TablesOK(t), Pursued(n, t), Tame(n, t),
         net' \subseteq Message, faults' \in 0 .. MaxFaults,
         \A m \in net' : m \in net \/ MessageOK(m)',
         \A p \in Node : IsPeer(t, p) /\ t.peers[p].msg2 # None =>
           \/ IsPeer(node[n], p) /\ t.peers[p].msg2 = node[n].peers[p].msg2
           \/ MessageOK(t.peers[p].msg2)'
  PROVE  IndInv'
<1>1. node \in [Node -> NodeState] /\ \A k \in Node : TablesOK(node[k]) /\ Pursued(k, node[k])
  BY DEF IndInv, TypeOK
<1>2. node'[n] = t /\ \A k \in Node : k # n => node'[k] = node[k]
  BY <1>1
<1>3. TypeOK'
  BY <1>1 DEF TypeOK
<1>4. ASSUME NEW k \in Node PROVE TablesOK(node'[k]) /\ Pursued(k, node'[k])
  <2>1. CASE k = n
    BY <1>2, <2>1
  <2>2. CASE k # n
    BY <1>1, <1>2, <2>2
  <2> QED BY <2>1, <2>2
<1>5. ASSUME NEW m \in net' PROVE MessageOK(m)'
  BY <1>5, MessageKept
<1>6. ASSUME NEW k \in Node, NEW p \in Node, NEW m, IsPeer(node'[k], p),
             node'[k].peers[p].msg2 # None, m = node'[k].peers[p].msg2
      PROVE  MessageOK(m)'
  <2>1. CASE k = n
    <3>1. \/ IsPeer(node[n], p) /\ m = node[n].peers[p].msg2
          \/ MessageOK(m)'
      BY <1>2, <1>6, <2>1
    <3>2. m # None
      BY <1>6
    <3> QED BY <3>1, <3>2, StoredKept
  <2>2. CASE k # n
    <3>1. IsPeer(node[k], p) /\ m = node[k].peers[p].msg2 /\ m # None
      BY <1>2, <1>6, <2>2
    <3> QED BY <3>1, StoredKept
  <2> QED BY <2>1, <2>2
<1>7. \A k, p \in Node : StoredOK(k, p)'
  BY <1>6 DEF StoredOK, MessageOK, IsPeer
<1>8. \A k \in Node : TablesOK(node[k])' /\ Pursued(k, node[k])'
  BY <1>4 DEF TablesOK, ConnectionsOK, LinksOK, IndicesOK, Awaited, IsPeer, IsConnecting,
              Pursued, PeerIndices
<1> QED BY <1>3, <1>5, <1>7, <1>8 DEF IndInv

-----------------------------------------------------------------------------
(* Outbound connections.                                                   *)

\* In tables in order one connection has an index: what it sends is aimed well.
LEMMA AimedAtPeer ==
  ASSUME node \in [Node -> NodeState], NEW n \in Node, NEW t \in NodeState,
         node' = [node EXCEPT ![n] = t], TablesOK(t),
         NEW l \in LinkId, t.connections[l] # None
  PROVE  Aimed(n, t.connections[l].our, t.connections[l].peer)'
<1>1. node'[n] = t
  OBVIOUS
<1>2. \A k \in LinkId : t.connections[k] # None /\ t.connections[k].our = t.connections[l].our
                          => k = l
  BY DEF TablesOK, ConnectionsOK
<1> QED BY <1>1, <1>2 DEF Aimed

LEMMA ConnectInv ==
  ASSUME IndInv, NEW n \in Node, NEW p \in Node, NEW s \in NodeState,
         SameTables(node[n], s), s.retry = node[n].retry, s.parted = node[n].parted,
         node[n].starting \subseteq s.starting \cup {p},
         NEW fails \in BOOLEAN, Connect(n, s, p, fails), faults' \in 0 .. MaxFaults
  PROVE  IndInv'
<1>1. PICK l \in FreeLink(s), i \in FreeIndex :
        /\ node' = [node EXCEPT ![n] =
             [s EXCEPT !.links[l] = [addr |-> p, inbound |-> FALSE],
                       !.addrToLink[p] = l,
                       !.allocated = @ \cup {i},
                       !.connections[l] = [peer |-> p, our |-> i, resends |-> 0,
                                           state |-> IF fails THEN "failed" ELSE "sent"],
                       !.pendingOutbound[i] = l]]
        /\ net' = IF fails THEN net
                  ELSE net \cup {[type |-> "msg1", from |-> n, to |-> p, sender |-> i,
                                  epoch |-> s.epoch]}
  BY DEF Connect, NewConnection
<1> DEFINE link == [addr |-> p, inbound |-> FALSE]
           c == [peer |-> p, our |-> i, resends |-> 0,
                 state |-> IF fails THEN "failed" ELSE "sent"]
           msg1 == [type |-> "msg1", from |-> n, to |-> p, sender |-> i, epoch |-> s.epoch]
           links == [s.links EXCEPT ![l] = link]
           addr == [s.addrToLink EXCEPT ![p] = l]
           conns == [s.connections EXCEPT ![l] = c]
           pend == [s.pendingOutbound EXCEPT ![i] = l]
           t == [s EXCEPT !.links = links, !.addrToLink = addr,
                          !.allocated = s.allocated \cup {i},
                          !.connections = conns, !.pendingOutbound = pend]
<1>2. /\ TypeOK /\ node \in [Node -> NodeState] /\ node[n] \in NodeState
      /\ TablesOK(node[n]) /\ Pursued(n, node[n])
  BY DEF IndInv, TypeOK
<1>3. /\ l \in LinkId /\ s.links[l] = None /\ \A j \in Index : s.pendingOutbound[j] # l
      /\ i \in Index /\ i \notin s.allocated /\ s.pendingOutbound[i] = None
  <2>1. l \in LinkId /\ s.links[l] = None /\ \A j \in Index : s.pendingOutbound[j] # l
    BY FreeLinkIsNew
  <2>2. i \in Index /\ i \notin node[n].allocated /\ node[n].pendingOutbound[i] = None
    BY <1>2, FreeIndexIsNew
  <2> QED BY <2>1, <2>2 DEF SameTables
<1>4. c \in Connection /\ link \in Link /\ msg1 \in Message
  BY <1>3, ConstantTypes, FieldTypes DEF Connection, Link, Message, Msg1
<1>5. /\ links \in [LinkId -> Link \cup {None}] /\ addr \in [Node -> LinkId \cup {None}]
      /\ conns \in [LinkId -> Connection \cup {None}]
      /\ pend \in [Index -> LinkId \cup {None}]
  BY <1>3, <1>4, FieldTypes
<1>6. node' = [node EXCEPT ![n] = t]
  BY <1>1 DEF NodeState
<1>7. net' = net \/ net' = net \cup {msg1}
  BY <1>1
<1>8. c.our = i /\ c.peer = p /\ msg1.type = "msg1"
      /\ msg1.from = n /\ msg1.to = p /\ msg1.sender = i
  OBVIOUS
<1> HIDE DEF link, c, msg1, links, addr, conns, pend
<1>9. /\ t \in NodeState /\ t.links = links /\ t.connections = conns
      /\ t.pendingOutbound = pend /\ t.allocated = s.allocated \cup {i}
      /\ t.peers = s.peers /\ t.peersByIndex = s.peersByIndex /\ t.inbound = s.inbound
      /\ t.retry = s.retry /\ t.starting = s.starting /\ t.parted = s.parted
  BY <1>3, <1>5 DEF NodeState
<1> HIDE DEF t
<1>10. TablesOK(t)
  <2>1. TablesOK(s)
    BY <1>2, SameTablesOK
  <2> QED BY <1>3, <1>4, <1>8, <1>9, <2>1, ConnectedOK DEF links, conns, pend
<1>11. conns[l] = c /\ c # None /\ \A k \in LinkId : k # l => conns[k] = node[n].connections[k]
  BY <1>3, <1>4, FieldTypes, NoneAssumption DEF conns, SameTables
<1>12. Pursued(n, t)
  <2>1. IsConnecting(t, p)
    BY <1>3, <1>8, <1>9, <1>11 DEF IsConnecting
  <2>2. \A k \in LinkId : node[n].connections[k] # None => k # l
    BY <1>2, <1>3 DEF TablesOK, ConnectionsOK, SameTables
  <2>3. \A q \in Node : IsConnecting(node[n], q) => IsConnecting(t, q)
    BY <1>9, <1>11, <2>2 DEF IsConnecting
  <2>4. \A q \in Node : IsPeer(node[n], q) => IsPeer(t, q)
    BY <1>9 DEF IsPeer, SameTables
  <2> QED BY <1>2, <1>9, <2>1, <2>3, <2>4, ConstantTypes DEF Pursued
<1>13. Tame(n, t)
  BY <1>8, <1>9, <1>11 DEF Tame
<1>14. MessageOK(msg1)'
  <2>1. Aimed(n, t.connections[l].our, t.connections[l].peer)'
    BY <1>2, <1>3, <1>6, <1>9, <1>10, <1>11, AimedAtPeer
  <2>2. Aimed(n, i, p)'
    BY <1>8, <1>9, <1>11, <2>1 DEF Aimed
  <2> QED BY <1>8, <2>2 DEF MessageOK, msg1
<1>15. net' \subseteq Message /\ \A m \in net' : m \in net \/ MessageOK(m)'
  <2>1. net \subseteq Message
    BY <1>2 DEF TypeOK
  <2>2. CASE net' = net
    BY <2>1, <2>2
  <2>3. CASE net' = net \cup {msg1}
    <3>1. \A m \in net' : m \in net \/ m = msg1
      BY <2>3
    <3>2. \A m : m = msg1 => MessageOK(m)'
      BY <1>14 DEF msg1, MessageOK
    <3> QED BY <1>4, <2>1, <3>1, <3>2
  <2> QED BY <1>7, <2>2, <2>3
<1>16. \A q \in Node : IsPeer(t, q) => IsPeer(node[n], q)
                                       /\ t.peers[q].msg2 = node[n].peers[q].msg2
  BY <1>9 DEF IsPeer, SameTables
<1> QED BY <1>6, <1>9, <1>10, <1>12, <1>13, <1>15, <1>16, OneNodeStep

LEMMA SpendTyped ==
  ASSUME TypeOK, NEW fault \in BOOLEAN, Spend(fault)
  PROVE  faults' \in 0 .. MaxFaults
BY ConstantTypes DEF Spend, TypeOK

LEMMA FaultTyped ==
  ASSUME TypeOK, faults < MaxFaults, faults' = faults + 1
  PROVE  faults' \in 0 .. MaxFaults
BY ConstantTypes DEF TypeOK

LEMMA TakeTyped ==
  ASSUME TypeOK, NEW m, NEW sent \in SUBSET Message, Take(m, sent)
  PROVE  net' \subseteq net \cup sent /\ net' \subseteq Message /\ faults' \in 0 .. MaxFaults
<1>1. PICK again \in BOOLEAN : Spend(again) /\ net' = (IF again THEN net ELSE net \ {m}) \cup sent
  BY DEF Take
<1>2. net' \subseteq net \cup sent /\ net' \subseteq Message
  BY <1>1 DEF TypeOK
<1> QED BY <1>1, <1>2, SpendTyped

LEMMA NodeFacts ==
  ASSUME IndInv, NEW n \in Node
  PROVE  /\ TypeOK /\ node \in [Node -> NodeState] /\ node[n] \in NodeState
         /\ TablesOK(node[n]) /\ Pursued(n, node[n])
         /\ net \subseteq Message /\ faults \in 0 .. MaxFaults
BY DEF IndInv, TypeOK

LEMMA StartInv ==
  ASSUME IndInv, NEW n \in Node, NEW p \in Node, Start(n, p)
  PROVE  IndInv'
<1>1. PICK s : s = [node[n] EXCEPT !.starting = @ \ {p}]
  OBVIOUS
<1>2. /\ s \in NodeState /\ SameTables(node[n], s) /\ s.retry = node[n].retry
      /\ s.parted = node[n].parted /\ s.starting = node[n].starting \ {p}
  <2>1. node[n] \in NodeState
    BY NodeFacts
  <2> QED BY <1>1, <2>1 DEF NodeState, SameTables
<1>3. CASE IsPeer(s, p) \/ IsConnecting(s, p)
  <2>1. node' = [node EXCEPT ![n] = s] /\ net' = net /\ faults' = faults
    BY <1>1, <1>3 DEF Start
  <2>2. TablesOK(s)
    BY <1>2, NodeFacts, SameTablesOK
  <2>3. Pursued(n, s)
    BY <1>2, <1>3, NodeFacts DEF Pursued, IsPeer, IsConnecting, SameTables
  <2>4. Tame(n, s)
    BY <1>2 DEF Tame, SameTables
  <2>5. \A q \in Node : IsPeer(s, q) => IsPeer(node[n], q)
                                        /\ s.peers[q].msg2 = node[n].peers[q].msg2
    BY <1>2 DEF IsPeer, SameTables
  <2> QED BY <1>2, <2>1, <2>2, <2>3, <2>4, <2>5, NodeFacts, OneNodeStep
<1>4. CASE ~ (IsPeer(s, p) \/ IsConnecting(s, p))
  <2>1. PICK fails \in BOOLEAN : Spend(fails) /\ Connect(n, s, p, fails)
    BY <1>1, <1>4 DEF Start
  <2>2. faults' \in 0 .. MaxFaults
    BY <2>1, NodeFacts, SpendTyped
  <2> QED BY <1>2, <2>1, <2>2, ConnectInv
<1> QED BY <1>3, <1>4

LEMMA ProcessRetryInv ==
  ASSUME IndInv, NEW n \in Node, NEW p \in Node, ProcessRetry(n, p)
  PROVE  IndInv'
<1>1. PICK s : s = node[n]
  OBVIOUS
<1>2. CASE IsPeer(s, p)
  <2>1. PICK t : t = [s EXCEPT !.retry[p] = None]
    OBVIOUS
  <2>2. node' = [node EXCEPT ![n] = t] /\ net' = net /\ faults' = faults
    BY <1>1, <1>2, <2>1 DEF ProcessRetry
  <2>3. /\ t \in NodeState /\ t.retry = [s.retry EXCEPT ![p] = None]
        /\ SameTables(s, t) /\ SameRest(s, t)
    BY <1>1, <2>1, NodeFacts, RetryFields
  <2>4. TablesOK(t)
    BY <1>1, <2>3, NodeFacts, SameTablesOK
  <2>5. \A q \in Node : q # p => t.retry[q] = s.retry[q]
    BY <1>1, <2>3, NodeFacts, FieldTypes
  <2>6. t.retry[p] = None
    BY <1>1, <2>3, NodeFacts, FieldTypes
  <2>7. Pursued(n, t)
    BY <1>1, <1>2, <2>3, <2>5, <2>6, NodeFacts, ConstantTypes
       DEF Pursued, IsPeer, IsConnecting, SameTables, SameRest
  <2>8. Tame(n, t)
    BY <1>1, <2>3 DEF Tame, SameTables
  <2>9. \A q \in Node : IsPeer(t, q) => IsPeer(node[n], q)
                                        /\ t.peers[q].msg2 = node[n].peers[q].msg2
    BY <1>1, <2>3 DEF IsPeer, SameTables
  <2> QED BY <2>2, <2>3, <2>4, <2>7, <2>8, <2>9, NodeFacts, OneNodeStep
<1>3. CASE ~ IsPeer(s, p)
  <2>1. PICK fails \in BOOLEAN : Spend(fails) /\ Connect(n, s, p, fails)
    BY <1>1, <1>3 DEF ProcessRetry
  <2>2. faults' \in 0 .. MaxFaults
    BY <2>1, NodeFacts, SpendTyped
  <2>3. s \in NodeState /\ SameTables(node[n], s)
    BY <1>1, NodeFacts DEF SameTables
  <2> QED BY <1>1, <2>1, <2>2, <2>3, ConnectInv
<1> QED BY <1>2, <1>3

LEMMA ApiConnectInv ==
  ASSUME IndInv, NEW n \in Node, NEW p \in Node, ApiConnect(n, p)
  PROVE  IndInv'
<1>1. PICK s : s = node[n]
  OBVIOUS
<1>2. Connect(n, s, p, FALSE) /\ faults' \in 0 .. MaxFaults
  BY <1>1, NodeFacts, FaultTyped DEF ApiConnect
<1>3. s \in NodeState /\ SameTables(node[n], s)
  BY <1>1, NodeFacts DEF SameTables
<1> QED BY <1>1, <1>2, <1>3, ConnectInv

LEMMA ResendInv ==
  ASSUME IndInv, NEW n \in Node, NEW l \in LinkId, Resend(n, l)
  PROVE  IndInv'
<1>1. PICK s : s = node[n]
  OBVIOUS
<1>2. PICK c : c = s.connections[l]
  OBVIOUS
<1>3. PICK d : d = [c EXCEPT !.resends = @ + 1]
  OBVIOUS
<1>4. PICK msg1 : msg1 = [type |-> "msg1", from |-> n, to |-> c.peer, sender |-> c.our,
                          epoch |-> s.epoch]
  OBVIOUS
<1>5. PICK t : t = [s EXCEPT !.connections[l] = d]
  OBVIOUS
<1>6. /\ s \in NodeState /\ TablesOK(s) /\ Pursued(n, s)
      /\ c # None /\ c.resends < MaxResends /\ c \in Connection
  BY <1>1, <1>2, NodeFacts, ConnectionTypes DEF Resend, RecordResend
<1>7. /\ node' = [node EXCEPT ![n] = t] /\ net' = net \cup {msg1} /\ faults' = faults
  BY <1>1, <1>2, <1>3, <1>4, <1>5, <1>6 DEF Resend, RecordResend, NodeState
<1>8. d \in Connection /\ d.our = c.our /\ d.peer = c.peer /\ d # None
  <2>1. d \in Connection /\ d.our = c.our /\ d.peer = c.peer
    BY <1>3, <1>6, ConstantTypes DEF Connection
  <2> QED BY <2>1, NoneAssumption
<1>9. msg1 \in Message /\ msg1.type = "msg1" /\ msg1.from = n /\ msg1.to = c.peer
      /\ msg1.sender = c.our
  BY <1>4, <1>6, FieldTypes DEF Message, Msg1, Connection
<1>10. PICK conns : conns = [s.connections EXCEPT ![l] = d]
  OBVIOUS
<1>11. conns \in [LinkId -> Connection \cup {None}]
  BY <1>6, <1>8, <1>10, FieldTypes
<1>12. /\ t \in NodeState /\ t.connections = conns
       /\ t.links = s.links /\ t.pendingOutbound = s.pendingOutbound
       /\ t.allocated = s.allocated /\ t.peers = s.peers
       /\ t.peersByIndex = s.peersByIndex /\ t.inbound = s.inbound
       /\ t.retry = s.retry /\ t.starting = s.starting /\ t.parted = s.parted
  BY <1>5, <1>6, <1>10, <1>11 DEF NodeState
<1>13. conns[l] = d /\ \A k \in LinkId : k # l => conns[k] = s.connections[k]
  BY <1>6, <1>10, FieldTypes
<1>14. TablesOK(t)
  BY <1>2, <1>6, <1>8, <1>10, <1>12, SameConnectionOK
<1>15. Pursued(n, t)
  <2>1. \A q \in Node : IsConnecting(s, q) => IsConnecting(t, q)
    BY <1>2, <1>8, <1>12, <1>13 DEF IsConnecting
  <2>2. \A q \in Node : IsPeer(s, q) <=> IsPeer(t, q)
    BY <1>12 DEF IsPeer
  <2> QED BY <1>6, <1>12, <2>1, <2>2, ConstantTypes DEF Pursued
<1>16. Tame(n, t)
  BY <1>1, <1>2, <1>6, <1>8, <1>12, <1>13 DEF Tame
<1>17. MessageOK(msg1)'
  <2>1. Aimed(n, t.connections[l].our, t.connections[l].peer)'
    BY <1>7, <1>8, <1>12, <1>13, <1>14, NodeFacts, AimedAtPeer
  <2>2. Aimed(n, c.our, c.peer)'
    BY <1>8, <1>12, <1>13, <2>1 DEF Aimed
  <2> QED BY <1>9, <2>2 DEF MessageOK
<1>18. net' \subseteq Message /\ \A m \in net' : m \in net \/ MessageOK(m)'
  BY <1>7, <1>9, <1>17, NodeFacts
<1>19. \A q \in Node : IsPeer(t, q) => IsPeer(node[n], q)
                                       /\ t.peers[q].msg2 = node[n].peers[q].msg2
  BY <1>1, <1>12 DEF IsPeer
<1> QED BY <1>7, <1>12, <1>14, <1>15, <1>16, <1>18, <1>19, NodeFacts, OneNodeStep

\* A step that only takes from the tables of a node, and sends nothing new.
LEMMA QuietStep ==
  ASSUME IndInv, NEW n \in Node, NEW t \in NodeState, node' = [node EXCEPT ![n] = t],
         TablesOK(t), Pursued(n, t), net' \subseteq net, faults' \in 0 .. MaxFaults,
         \A l \in LinkId : t.connections[l] # None => t.connections[l] = node[n].connections[l],
         \A p \in Node : IsPeer(t, p) => \/ t.peers[p].msg2 = None
                                         \/ /\ IsPeer(node[n], p)
                                            /\ t.peers[p].msg2 = node[n].peers[p].msg2
  PROVE  IndInv'
<1>1. Tame(n, t)
  BY DEF Tame
<1>2. net' \subseteq Message /\ \A m \in net' : m \in net
  BY NodeFacts
<1> QED BY <1>1, <1>2, OneNodeStep

LEMMA CheckTimeoutInv ==
  ASSUME IndInv, NEW n \in Node, NEW l \in LinkId, CheckTimeout(n, l)
  PROVE  IndInv'
<1>1. PICK s : s = node[n]
  OBVIOUS
<1>2. PICK c : c = s.connections[l]
  OBVIOUS
<1>3. PICK r : r = ScheduleRetry(n, s, c.peer)
  OBVIOUS
<1>4. /\ s \in NodeState /\ TablesOK(s) /\ Pursued(n, s)
      /\ c # None /\ c \in Connection /\ c.peer \in Node /\ c.our \in Index
  BY <1>1, <1>2, NodeFacts, ConnectionTypes DEF CheckTimeout
<1>5. /\ r \in NodeState /\ SameTables(s, r) /\ SameRest(s, r)
      /\ \A q \in Node : q # c.peer => r.retry[q] = s.retry[q]
      /\ IsPeer(s, c.peer) => r = s
      /\ ~ IsPeer(s, c.peer) /\ c.peer \in AutoConnect[n] => r.retry[c.peer] # None
      /\ \A q \in Node : r.retry[q] # None => r.retry[q].reconnect
  BY <1>3, <1>4, ScheduleRetryFields DEF Pursued
<1>6. PICK conns, pend, alloc : /\ conns = [s.connections EXCEPT ![l] = None]
                                /\ pend = [s.pendingOutbound EXCEPT ![c.our] = None]
                                /\ alloc = s.allocated \ {c.our}
  OBVIOUS
<1>7. /\ conns \in [LinkId -> Connection \cup {None}]
      /\ pend \in [Index -> LinkId \cup {None}] /\ alloc \in SUBSET Index
  BY <1>4, <1>6, FieldTypes
<1>8. PICK u : u = [r EXCEPT !.connections = conns, !.pendingOutbound = pend,
                             !.allocated = alloc]
  OBVIOUS
<1>9. /\ u \in NodeState /\ u.connections = conns /\ u.pendingOutbound = pend
      /\ u.allocated = alloc /\ u.links = r.links /\ u.peers = r.peers
      /\ u.peersByIndex = r.peersByIndex /\ u.inbound = r.inbound /\ u.retry = r.retry
      /\ SameRest(r, u)
  BY <1>5, <1>7, <1>8 DEF NodeState, SameRest
<1>10. PICK t : t = RemoveLink(u, l)
  OBVIOUS
<1>11. /\ t \in NodeState /\ t.links = [u.links EXCEPT ![l] = None]
       /\ t.connections = u.connections /\ t.pendingOutbound = u.pendingOutbound
       /\ t.peers = u.peers /\ t.peersByIndex = u.peersByIndex
       /\ t.allocated = u.allocated /\ t.inbound = u.inbound
       /\ t.retry = u.retry /\ SameRest(u, t)
  BY <1>9, <1>10, RemoveLinkFields
<1>12. node' = [node EXCEPT ![n] = t] /\ net' = net /\ faults' = faults
  <2>1. r.connections = s.connections /\ r.pendingOutbound = s.pendingOutbound
        /\ r.allocated = s.allocated
    BY <1>5 DEF SameTables
  <2>2. u = [r EXCEPT !.connections[l] = None, !.pendingOutbound[c.our] = None,
                      !.allocated = @ \ {c.our}]
    BY <1>5, <1>6, <1>8, <2>1 DEF NodeState
  <2> QED BY <1>1, <1>2, <1>3, <1>10, <2>2 DEF CheckTimeout
<1>13. TablesOK(t)
  <2>1. /\ t.connections = [s.connections EXCEPT ![l] = None]
        /\ t.links = [s.links EXCEPT ![l] = None]
        /\ t.pendingOutbound = [s.pendingOutbound EXCEPT ![s.connections[l].our] = None]
        /\ t.allocated = s.allocated \ {s.connections[l].our}
        /\ t.peers = s.peers /\ t.peersByIndex = s.peersByIndex /\ t.inbound = s.inbound
    BY <1>2, <1>5, <1>6, <1>9, <1>11 DEF SameTables
  <2> QED BY <1>2, <1>4, <2>1, DroppedOK
<1>14. /\ t.retry = r.retry /\ t.starting = s.starting /\ t.parted = s.parted
       /\ t.peers = s.peers
       /\ \A k \in LinkId : k # l => t.connections[k] = s.connections[k]
       /\ t.connections[l] = None
  BY <1>4, <1>5, <1>6, <1>9, <1>11, FieldTypes DEF SameTables, SameRest
<1>15. Pursued(n, t)
  <2>1. \A q \in Node : IsPeer(t, q) <=> IsPeer(s, q)
    BY <1>14 DEF IsPeer
  <2>2. \A q \in Node : q # c.peer /\ IsConnecting(s, q) => IsConnecting(t, q)
    BY <1>2, <1>14 DEF IsConnecting
  <2>3. ASSUME NEW q \in AutoConnect[n]
        PROVE  \/ IsPeer(t, q) \/ IsConnecting(t, q) \/ t.retry[q] # None
               \/ q \in t.starting \cup t.parted
    <3>1. q \in Node
      BY ConstantTypes
    <3>2. CASE q = c.peer
      BY <1>5, <1>14, <2>1, <3>1, <3>2
    <3>3. CASE q # c.peer
      BY <1>4, <1>5, <1>14, <2>1, <2>2, <3>1, <3>3 DEF Pursued
    <3> QED BY <3>2, <3>3
  <2> QED BY <1>5, <1>14, <2>3 DEF Pursued
<1>16. \A q \in Node : IsPeer(t, q) => IsPeer(node[n], q)
                                       /\ t.peers[q].msg2 = node[n].peers[q].msg2
  BY <1>1, <1>14 DEF IsPeer
<1>17. \A k \in LinkId : t.connections[k] # None => t.connections[k] = node[n].connections[k]
  BY <1>1, <1>14
<1> QED BY <1>11, <1>12, <1>13, <1>15, <1>16, <1>17, NodeFacts, QuietStep

-----------------------------------------------------------------------------
(* handle_msg1.                                                            *)

\* The limiter changes nothing else.
LEMMA StartHandshakeFields ==
  ASSUME NEW s \in NodeState
  PROVE  LET t == StartHandshake(s)
         IN  /\ t \in NodeState /\ t.inbound = s.inbound + 1
             /\ t.connections = s.connections /\ t.links = s.links
             /\ t.pendingOutbound = s.pendingOutbound
             /\ t.peers = s.peers /\ t.peersByIndex = s.peersByIndex
             /\ t.allocated = s.allocated /\ t.retry = s.retry
             /\ t.addrToLink = s.addrToLink /\ SameRest(s, t)
BY DEF StartHandshake, NodeState, SameRest

LEMMA CompleteHandshakeFields ==
  ASSUME NEW s \in NodeState, s.inbound = 1
  PROVE  LET t == CompleteHandshake(s)
         IN  /\ t \in NodeState /\ t.inbound = 0
             /\ t.connections = s.connections /\ t.links = s.links
             /\ t.pendingOutbound = s.pendingOutbound
             /\ t.peers = s.peers /\ t.peersByIndex = s.peersByIndex
             /\ t.allocated = s.allocated /\ t.retry = s.retry
             /\ t.addrToLink = s.addrToLink /\ SameRest(s, t)
BY DEF CompleteHandshake, NodeState, SameRest

\* Tables, retries and connections as they were: nobody is given up.
LEMMA SamePursued ==
  ASSUME NEW n, NEW s, NEW t, Pursued(n, s), SameTables(s, t), SameRest(s, t),
         t.retry = s.retry
  PROVE  Pursued(n, t)
BY DEF Pursued, SameTables, SameRest, IsPeer, IsConnecting

LEMMA AnswerTyped ==
  ASSUME IndInv, NEW n \in Node, NEW m \in Msg1, NEW i \in Index, NEW a, a = Answer(n, m, i)
  PROVE  /\ a \in Message /\ a \in Msg2 /\ a.type = "msg2"
         /\ a.to = m.from /\ a.from = n /\ a.receiver = m.sender
BY NodeFacts, FieldTypes DEF Answer, Message, Msg1, Msg2

\* An answer is aimed where the msg1 came from.
LEMMA AnswerAimed ==
  ASSUME NEW a, NEW m, m.type = "msg1", a.type = "msg2", a.to = m.from,
         a.from = m.to, a.receiver = m.sender, MessageOK(m)'
  PROVE  MessageOK(a)'
BY DEF MessageOK

\* The handshake is counted in and out again, and nothing else happens.
LEMMA LimiterStep ==
  ASSUME IndInv, NEW n \in Node, NEW m \in net, NEW sent \in SUBSET Message,
         node' = [node EXCEPT ![n] = CompleteHandshake(StartHandshake(node[n]))],
         Take(m, sent),
         \A a \in sent : \E p \in Node : /\ IsPeer(node[n], p) /\ node[n].peers[p].msg2 # None
                                         /\ a = node[n].peers[p].msg2
  PROVE  IndInv'
<1>1. PICK s : s = node[n]
  OBVIOUS
<1>2. PICK u : u = StartHandshake(s)
  OBVIOUS
<1>3. PICK t : t = CompleteHandshake(u)
  OBVIOUS
<1>4. s \in NodeState /\ TablesOK(s) /\ Pursued(n, s) /\ s.inbound = 0
  BY <1>1, NodeFacts DEF TablesOK
<1>5. /\ u \in NodeState /\ u.inbound = 1
      /\ u.connections = s.connections /\ u.links = s.links
      /\ u.pendingOutbound = s.pendingOutbound
      /\ u.peers = s.peers /\ u.peersByIndex = s.peersByIndex
      /\ u.allocated = s.allocated /\ u.retry = s.retry /\ SameRest(s, u)
  BY <1>2, <1>4, StartHandshakeFields
<1>6. /\ t \in NodeState /\ SameTables(s, t) /\ SameRest(s, t) /\ t.retry = s.retry
  BY <1>3, <1>4, <1>5, CompleteHandshakeFields DEF SameTables, SameRest
<1>7. node' = [node EXCEPT ![n] = t]
  BY <1>1, <1>2, <1>3
<1>8. TablesOK(t) /\ Pursued(n, t)
  BY <1>4, <1>6, SameTablesOK, SamePursued
<1>9. Tame(n, t)
  BY <1>1, <1>6 DEF Tame, SameTables
<1>10. net' \subseteq net \cup sent /\ net' \subseteq Message /\ faults' \in 0 .. MaxFaults
  BY NodeFacts, TakeTyped
<1>11. ASSUME NEW a \in net' PROVE a \in net \/ MessageOK(a)'
  <2>1. CASE a \in net
    BY <2>1
  <2>2. CASE a \in sent
    <3>1. PICK p \in Node : /\ IsPeer(node[n], p) /\ node[n].peers[p].msg2 # None
                            /\ a = node[n].peers[p].msg2
      BY <2>2
    <3> QED BY <1>6, <1>7, <1>9, <3>1, StoredKept
  <2> QED BY <1>10, <2>1, <2>2
<1>12. \A p \in Node : IsPeer(t, p) => IsPeer(node[n], p)
                                       /\ t.peers[p].msg2 = node[n].peers[p].msg2
  BY <1>1, <1>6 DEF IsPeer, SameTables
<1> QED BY <1>6, <1>7, <1>8, <1>9, <1>10, <1>11, <1>12, OneNodeStep

LEMMA Msg1DuplicateInv ==
  ASSUME IndInv, NEW n \in Node, NEW m \in net, m.type = "msg1", Msg1Duplicate(n, m)
  PROVE  IndInv'
<1>1. m \in Msg1 /\ m.from \in Node
  BY NodeFacts, MessageFields
<1>2. PICK sent : sent = IF node[n].peers[m.from].msg2 = None THEN {}
                         ELSE {node[n].peers[m.from].msg2}
  OBVIOUS
<1>3. IsPeer(node[n], m.from)
  BY DEF Msg1Duplicate, SameEpoch, IsPeer
<1>4. StartHandshake(node[n]).peers = node[n].peers
  BY NodeFacts, StartHandshakeFields
<1>5. /\ node' = [node EXCEPT ![n] = CompleteHandshake(StartHandshake(node[n]))]
      /\ Take(m, sent)
  BY <1>2, <1>4 DEF Msg1Duplicate
<1>6. sent \in SUBSET Message
  BY <1>1, <1>2, <1>3, NodeFacts, PeerTypes DEF Message
<1>7. \A a \in sent : \E p \in Node : /\ IsPeer(node[n], p) /\ node[n].peers[p].msg2 # None
                                      /\ a = node[n].peers[p].msg2
  BY <1>1, <1>2, <1>3
<1> QED BY <1>5, <1>6, <1>7, LimiterStep

LEMMA Msg1RekeyInv ==
  ASSUME IndInv, NEW n \in Node, NEW m \in net, m.type = "msg1", m.to = n, Msg1Rekey(n, m)
  PROVE  IndInv'
<1>1. m \in Msg1 /\ m.from \in Node
  BY NodeFacts, MessageFields
<1>2. PICK s : s = node[n]
  OBVIOUS
<1>3. PICK u : u = StartHandshake(s)
  OBVIOUS
<1>4. /\ s \in NodeState /\ TablesOK(s) /\ Pursued(n, s) /\ s.inbound = 0
      /\ IsPeer(s, m.from)
  BY <1>2, NodeFacts DEF TablesOK, Msg1Rekey, SameEpoch, IsPeer
<1>5. /\ u \in NodeState /\ u.inbound = 1
      /\ u.connections = s.connections /\ u.links = s.links
      /\ u.pendingOutbound = s.pendingOutbound
      /\ u.peers = s.peers /\ u.peersByIndex = s.peersByIndex
      /\ u.allocated = s.allocated /\ u.retry = s.retry /\ SameRest(s, u)
  BY <1>3, <1>4, StartHandshakeFields
<1>6. CASE s.peers[m.from].pending # None
  <2>1. /\ node' = [node EXCEPT ![n] = CompleteHandshake(StartHandshake(node[n]))]
        /\ Take(m, {})
    BY <1>2, <1>3, <1>5, <1>6 DEF Msg1Rekey
  <2>2. PICK sent : sent = {}
    OBVIOUS
  <2>3. sent \in SUBSET Message /\ Take(m, sent) /\ \A a : a \notin sent
    BY <2>1, <2>2
  <2> QED BY <2>1, <2>3, LimiterStep
<1>7. CASE s.peers[m.from].pending = None
  <2>1. PICK i \in FreeIndex :
          /\ node' = [node EXCEPT ![n] = CompleteHandshake(
               [u EXCEPT !.allocated = @ \cup {i},
                         !.peersByIndex[i] = m.from,
                         !.peers[m.from].pending = [session |-> InboundSession(n, m, i),
                                                    our |-> i, their |-> m.sender]])]
          /\ Take(m, {Answer(n, m, i)})
    BY ZenonT(60), <1>2, <1>3, <1>5, <1>7 DEF Msg1Rekey
  <2>2. i \in Index /\ i \notin s.allocated /\ s.pendingOutbound[i] = None
    BY <1>2, NodeFacts, FreeIndexIsNew
  <2>3. PICK pending, peer, a :
          /\ pending = [session |-> InboundSession(n, m, i), our |-> i, their |-> m.sender]
          /\ peer = [s.peers[m.from] EXCEPT !.pending = pending]
          /\ a = Answer(n, m, i)
    OBVIOUS
  <2>4. pending \in PendingSession /\ pending.our = i
    BY <1>1, <2>2, <2>3 DEF PendingSession, InboundSession, Session, Msg1
  <2>5. /\ peer \in ActivePeer /\ peer.link = s.peers[m.from].link
        /\ peer.our = s.peers[m.from].our /\ peer.pending = pending
        /\ peer.msg2 = s.peers[m.from].msg2
    BY <1>1, <1>4, <2>3, <2>4, PeerTypes DEF ActivePeer
  <2>6. PICK f, g, h : /\ f = [s.peers EXCEPT ![m.from] = peer]
                       /\ g = [s.peersByIndex EXCEPT ![i] = m.from]
                       /\ h = s.allocated \cup {i}
    OBVIOUS
  <2>7. /\ f \in [Node -> ActivePeer \cup {None}] /\ g \in [Index -> Node \cup {None}]
        /\ h \in SUBSET Index
    BY <1>1, <1>4, <2>2, <2>5, <2>6, FieldTypes
  <2>8. PICK v : v = [u EXCEPT !.allocated = h, !.peersByIndex = g, !.peers = f]
    OBVIOUS
  <2>9. /\ v \in NodeState /\ v.allocated = h /\ v.peersByIndex = g /\ v.peers = f
        /\ v.connections = u.connections /\ v.links = u.links
        /\ v.pendingOutbound = u.pendingOutbound /\ v.inbound = u.inbound
        /\ v.retry = u.retry /\ SameRest(u, v)
    BY <1>5, <2>7, <2>8 DEF NodeState, SameRest
  <2>10. PICK t : t = CompleteHandshake(v)
    OBVIOUS
  <2>11. /\ t \in NodeState /\ t.inbound = 0 /\ t.allocated = h /\ t.peersByIndex = g
         /\ t.peers = f /\ t.connections = s.connections /\ t.links = s.links
         /\ t.pendingOutbound = s.pendingOutbound /\ t.retry = s.retry
         /\ t.starting = s.starting /\ t.parted = s.parted
    BY <1>5, <2>9, <2>10, CompleteHandshakeFields DEF SameRest
  <2>12. node' = [node EXCEPT ![n] = t] /\ Take(m, {a})
    <3>1. v = [u EXCEPT !.allocated = @ \cup {i}, !.peersByIndex[i] = m.from,
                        !.peers[m.from].pending = pending]
      BY <1>5, <2>3, <2>6, <2>8 DEF NodeState
    <3>2. node' = [node EXCEPT ![n] = CompleteHandshake(v)]
      BY <2>1, <2>3, <3>1, Zenon
    <3> QED BY <2>1, <2>3, <2>10, <3>2, Zenon
  <2>13. TablesOK(t)
    <3>1. /\ t.peers = [s.peers EXCEPT ![m.from] = peer]
          /\ t.peersByIndex = [s.peersByIndex EXCEPT ![peer.pending.our] = m.from]
          /\ t.allocated = s.allocated \cup {peer.pending.our}
          /\ t.connections = s.connections /\ t.links = s.links
          /\ t.pendingOutbound = s.pendingOutbound /\ t.inbound = s.inbound
      BY <1>4, <2>4, <2>5, <2>6, <2>11
    <3>2. /\ peer.pending # None /\ peer.pending.our \notin s.allocated
          /\ s.pendingOutbound[peer.pending.our] = None
      BY <2>2, <2>4, <2>5, NoneAssumption
    <3> QED BY <1>1, <1>4, <1>7, <2>5, <3>1, <3>2, PendingOK
  <2>14. \A q \in Node : IsPeer(t, q) <=> IsPeer(s, q)
    BY <1>4, <2>5, <2>6, <2>11, FieldTypes, NoneAssumption DEF IsPeer
  <2>15. Pursued(n, t)
    BY <1>4, <2>11, <2>14, ConstantTypes DEF Pursued, IsConnecting
  <2>16. Tame(n, t)
    BY <1>2, <2>11 DEF Tame
  <2>17. /\ a \in Message /\ MessageOK(a)'
    <3>1. MessageOK(m)'
      BY <2>11, <2>12, <2>16, MessageKept
    <3>2. /\ a \in Message /\ a.type = "msg2" /\ a.to = m.from /\ a.from = n
          /\ a.receiver = m.sender
      BY <1>1, <2>2, <2>3, AnswerTyped
    <3> QED BY <3>1, <3>2, AnswerAimed
  <2>18. /\ net' \subseteq net \cup {a} /\ net' \subseteq Message
         /\ faults' \in 0 .. MaxFaults
    BY <2>12, <2>17, NodeFacts, TakeTyped
  <2>19. \A q \in net' : q \in net \/ MessageOK(q)'
    BY <2>17, <2>18
  <2>20. \A q \in Node : IsPeer(t, q) => IsPeer(node[n], q)
                                         /\ t.peers[q].msg2 = node[n].peers[q].msg2
    BY <1>1, <1>2, <1>4, <2>5, <2>6, <2>11, <2>14, FieldTypes
  <2> QED BY <2>11, <2>12, <2>13, <2>15, <2>16, <2>18, <2>19, <2>20, OneNodeStep
<1> QED BY <1>6, <1>7

\* The tables but the limiter.
SameButLimiter(s, t) ==
  /\ t.connections = s.connections /\ t.links = s.links
  /\ t.pendingOutbound = s.pendingOutbound
  /\ t.peers = s.peers /\ t.peersByIndex = s.peersByIndex
  /\ t.allocated = s.allocated

\* Before a peer's new connection is looked at what there was of it is removed, and
\* a reconnect takes its place.
Without(s, p) == IF IsPeer(s, p) THEN RemoveActivePeer(s, p) ELSE s
Cleared(n, s, p) ==
  IF IsPeer(s, p) THEN ScheduleReconnect(n, RemoveActivePeer(s, p), p) ELSE s

LEMMA WithoutFields ==
  ASSUME NEW s \in NodeState, TablesOK(s), NEW p \in Node, NEW b, b = Without(s, p)
  PROVE  /\ b \in NodeState /\ TablesOK(b) /\ ~ IsPeer(b, p)
         /\ \A q \in Node : q # p => b.peers[q] = s.peers[q]
         /\ b.connections = s.connections /\ b.pendingOutbound = s.pendingOutbound
         /\ b.allocated \subseteq s.allocated /\ b.inbound = s.inbound
<1>1. CASE ~ IsPeer(s, p)
  <2>1. b = s
    BY <1>1 DEF Without
  <2> QED BY <1>1, <2>1
<1>2. CASE IsPeer(s, p)
  <2>1. b = RemoveActivePeer(s, p)
    BY <1>2 DEF Without
  <2>2. Removed(s, p, b) /\ TablesOK(b)
    BY <1>2, <2>1, RemoveActivePeerFields, RemoveActivePeerOK
  <2>3. b.peers[p] = None /\ \A q \in Node : q # p => b.peers[q] = s.peers[q]
    BY <2>2, FieldTypes DEF Removed
  <2> QED BY <2>2, <2>3 DEF IsPeer, Removed
<1> QED BY <1>1, <1>2

LEMMA ClearedFields ==
  ASSUME NEW n \in Node, NEW s \in NodeState, Pursued(n, s),
         NEW u \in NodeState, SameButLimiter(s, u), SameRest(s, u), u.retry = s.retry,
         NEW p \in Node, NEW b, b = Without(s, p), NEW k, k = Cleared(n, u, p)
  PROVE  /\ k \in NodeState /\ k.inbound = u.inbound
         /\ SameButLimiter(b, k) /\ SameRest(s, k)
         /\ \A q \in Node : q # p => k.retry[q] = s.retry[q]
         /\ IsPeer(s, p) /\ p \in AutoConnect[n] => k.retry[p] # None /\ k.retry[p].reconnect
         /\ ~ IsPeer(s, p) \/ p \notin AutoConnect[n] => k.retry[p] = s.retry[p]
<1>1. IsPeer(u, p) <=> IsPeer(s, p)
  BY DEF SameButLimiter, IsPeer
<1>2. CASE ~ IsPeer(s, p)
  <2>1. b = s /\ k = u
    BY <1>1, <1>2 DEF Without, Cleared
  <2> QED BY <1>2, <2>1
<1>3. CASE IsPeer(s, p)
  <2>1. PICK v : v = RemoveActivePeer(u, p)
    OBVIOUS
  <2>2. b = RemoveActivePeer(s, p) /\ k = ScheduleReconnect(n, v, p)
    BY <1>1, <1>3, <2>1 DEF Without, Cleared
  <2>3. Removed(u, p, v) /\ Removed(s, p, b)
    BY <1>1, <1>3, <2>1, <2>2, RemoveActivePeerFields
  <2>4. v \in NodeState
    BY <2>3 DEF Removed
  <2>5. Reconnecting(n, v, p, k)
    BY <2>2, <2>4, ScheduleReconnectFields
  <2>6. SameButLimiter(b, v)
    BY <2>3 DEF SameButLimiter, Removed
  <2>7. SameButLimiter(b, k) /\ k.inbound = u.inbound
    BY <2>3, <2>5, <2>6 DEF SameButLimiter, SameTables, Removed, Reconnecting
  <2>8. SameRest(s, k)
    BY <2>3, <2>5 DEF SameRest, Removed, Reconnecting
  <2>9. v.retry = s.retry
    BY <2>3 DEF Removed
  <2> QED BY <1>3, <2>5, <2>7, <2>8, <2>9 DEF Reconnecting
<1> QED BY <1>2, <1>3

\* After that nobody is given up, whatever becomes of the new connection.
LEMMA ClearedPursued ==
  ASSUME NEW n \in Node, NEW s \in NodeState, Pursued(n, s),
         NEW u \in NodeState, SameButLimiter(s, u), SameRest(s, u), u.retry = s.retry,
         NEW p \in Node, NEW b, b = Without(s, p), NEW k, k = Cleared(n, u, p), TablesOK(s),
         NEW t, t.connections = k.connections, t.retry = k.retry,
         t.starting = k.starting, t.parted = k.parted, t.peers = k.peers
  PROVE  Pursued(n, t)
<1>1. /\ SameButLimiter(b, k) /\ SameRest(s, k)
      /\ \A q \in Node : q # p => k.retry[q] = s.retry[q]
      /\ IsPeer(s, p) /\ p \in AutoConnect[n] => k.retry[p] # None /\ k.retry[p].reconnect
      /\ ~ IsPeer(s, p) \/ p \notin AutoConnect[n] => k.retry[p] = s.retry[p]
  BY ClearedFields
<1>2. b.connections = s.connections /\ \A q \in Node : q # p => b.peers[q] = s.peers[q]
  BY WithoutFields
<1>3. /\ t.connections = s.connections /\ t.starting = s.starting /\ t.parted = s.parted
      /\ t.retry = k.retry /\ \A q \in Node : q # p => t.peers[q] = s.peers[q]
  BY <1>1, <1>2 DEF SameButLimiter, SameRest
<1>4. \A q \in Node : IsConnecting(s, q) => IsConnecting(t, q)
  BY <1>3 DEF IsConnecting
<1>5. \A q \in Node : q # p /\ IsPeer(s, q) => IsPeer(t, q)
  BY <1>3 DEF IsPeer
<1>6. ASSUME NEW q \in AutoConnect[n]
      PROVE  \/ IsPeer(t, q) \/ IsConnecting(t, q) \/ t.retry[q] # None
             \/ q \in t.starting \cup t.parted
  <2>1. q \in Node
    BY ConstantTypes
  <2>2. CASE q = p /\ IsPeer(s, p)
    BY <1>1, <1>3, <2>2
  <2>3. CASE q = p /\ ~ IsPeer(s, p)
    BY <1>1, <1>3, <1>4, <2>1, <2>3 DEF Pursued
  <2>4. CASE q # p
    BY <1>1, <1>3, <1>4, <1>5, <2>1, <2>4 DEF Pursued
  <2> QED BY <2>2, <2>3, <2>4
<1>7. ASSUME NEW q \in Node, t.retry[q] # None PROVE t.retry[q].reconnect
  <2>1. CASE q = p /\ IsPeer(s, p) /\ p \in AutoConnect[n]
    BY <1>1, <1>3, <2>1
  <2>2. CASE ~ (q = p /\ IsPeer(s, p) /\ p \in AutoConnect[n])
    BY <1>1, <1>3, <1>7, <2>2 DEF Pursued
  <2> QED BY <2>1, <2>2
<1> QED BY <1>6, <1>7 DEF Pursued

\* The new connection is promoted: the peer of the tables of b on a new link.
LEMMA InboundOK ==
  ASSUME NEW b \in NodeState, TablesOK(b), NEW p \in Node, ~ IsPeer(b, p),
         NEW peer \in ActivePeer, peer.pending = None, NEW link \in Link,
         b.links[peer.link] = None, peer.our \notin b.allocated,
         b.pendingOutbound[peer.our] = None,
         NEW t, t.peers = [b.peers EXCEPT ![p] = peer],
         t.peersByIndex = [b.peersByIndex EXCEPT ![peer.our] = p],
         t.allocated = b.allocated \cup {peer.our},
         t.links = [b.links EXCEPT ![peer.link] = link],
         t.connections = b.connections, t.pendingOutbound = b.pendingOutbound,
         t.inbound = b.inbound
  PROVE  TablesOK(t)
<1>1. peer.our \in Index /\ peer.link \in LinkId
  BY FieldTypes DEF ActivePeer
<1>2. b.peersByIndex[peer.our] = None
  BY <1>1, NoneAssumption, NoNumberIsNone, FieldTypes DEF TablesOK, IndicesOK
<1>3. \A j \in Index : Awaited(t, j) <=> Awaited(b, j) /\ j # peer.our
  BY <1>1 DEF Awaited
<1>4. \A q \in Node : IsPeer(b, q) => b.peers[q].link # peer.link
  BY DEF TablesOK, LinksOK
<1>5. t.links[peer.link] # None /\ t.connections[peer.link] = None
  BY <1>1, NoneAssumption, NoNumberIsNone, FieldTypes DEF TablesOK, ConnectionsOK
<1>6. \A l \in LinkId : l # peer.link => /\ t.links[l] = b.links[l]
                                         /\ t.connections[l] = b.connections[l]
  BY <1>1, FieldTypes
<1>7. /\ \A j \in Index : j # peer.our => t.pendingOutbound[j] = b.pendingOutbound[j]
      /\ b.pendingOutbound[peer.our] \in {None, peer.link}
  OBVIOUS
<1>8. Inserted(b, p, peer, t)
  BY <1>2, <1>3, <1>4, <1>5, <1>6, <1>7 DEF Inserted
<1> QED BY <1>8, PromotedOK

\* A step on a msg1 that leaves the connections alone, and sends and stores answers
\* to it.
LEMMA InboundStep ==
  ASSUME IndInv, NEW n \in Node, NEW m \in net, m.type = "msg1", m.to = n,
         NEW t \in NodeState, node' = [node EXCEPT ![n] = t],
         TablesOK(t), Pursued(n, t), t.connections = node[n].connections,
         net' \subseteq Message, faults' \in 0 .. MaxFaults,
         \A a \in net' : \/ a \in net
                         \/ /\ a.type = "msg2" /\ a.to = m.from /\ a.from = n
                            /\ a.receiver = m.sender,
         \A q \in Node : IsPeer(t, q) /\ t.peers[q].msg2 # None =>
           \/ IsPeer(node[n], q) /\ t.peers[q].msg2 = node[n].peers[q].msg2
           \/ /\ t.peers[q].msg2.type = "msg2" /\ t.peers[q].msg2.to = m.from
              /\ t.peers[q].msg2.from = n /\ t.peers[q].msg2.receiver = m.sender
  PROVE  IndInv'
<1>1. Tame(n, t)
  BY DEF Tame
<1>2. MessageOK(m)'
  BY <1>1, MessageKept
<1>3. ASSUME NEW a, a.type = "msg2", a.to = m.from, a.from = n, a.receiver = m.sender
      PROVE  MessageOK(a)'
  BY <1>2, <1>3, AnswerAimed
<1>4. \A a \in net' : a \in net \/ MessageOK(a)'
  BY <1>3
<1>5. ASSUME NEW q \in Node, IsPeer(t, q), t.peers[q].msg2 # None
      PROVE  \/ IsPeer(node[n], q) /\ t.peers[q].msg2 = node[n].peers[q].msg2
             \/ MessageOK(t.peers[q].msg2)'
  <2>1. PICK a : a = t.peers[q].msg2
    OBVIOUS
  <2>2. \/ IsPeer(node[n], q) /\ a = node[n].peers[q].msg2
        \/ a.type = "msg2" /\ a.to = m.from /\ a.from = n /\ a.receiver = m.sender
    BY <1>5, <2>1
  <2>3. \/ IsPeer(node[n], q) /\ a = node[n].peers[q].msg2
        \/ MessageOK(a)'
    BY <1>3, <2>2
  <2> QED BY <2>1, <2>3
<1> QED BY <1>1, <1>4, <1>5, OneNodeStep

LEMMA Msg1NewInv ==
  ASSUME IndInv, NEW n \in Node, NEW m \in net, m.type = "msg1", m.to = n, Msg1New(n, m)
  PROVE  IndInv'
<1>1. m \in Msg1 /\ m.from \in Node /\ m.sender \in Index /\ m.epoch \in Epoch
  <2>1. m \in Msg1
    BY NodeFacts, MessageFields
  <2> QED BY <2>1 DEF Msg1
<1>2. PICK p, s, u, b, k : /\ p = m.from /\ s = node[n] /\ u = StartHandshake(s)
                           /\ b = Without(s, p) /\ k = Cleared(n, u, p)
  OBVIOUS
<1>3. /\ p \in Node /\ s \in NodeState /\ TablesOK(s) /\ Pursued(n, s) /\ s.inbound = 0
  BY <1>1, <1>2, NodeFacts DEF TablesOK
<1>4. /\ u \in NodeState /\ u.inbound = 1 /\ u.retry = s.retry
      /\ SameButLimiter(s, u) /\ SameRest(s, u)
  BY <1>2, <1>3, StartHandshakeFields DEF SameButLimiter
<1>5. /\ b \in NodeState /\ TablesOK(b) /\ ~ IsPeer(b, p)
      /\ \A q \in Node : q # p => b.peers[q] = s.peers[q]
      /\ b.connections = s.connections /\ b.pendingOutbound = s.pendingOutbound
      /\ b.allocated \subseteq s.allocated /\ b.inbound = 0
  <2>1. s \in NodeState /\ TablesOK(s) /\ p \in Node /\ b = Without(s, p)
    BY <1>2, <1>3
  <2>2. /\ b \in NodeState /\ TablesOK(b) /\ ~ IsPeer(b, p)
        /\ \A q \in Node : q # p => b.peers[q] = s.peers[q]
        /\ b.connections = s.connections /\ b.pendingOutbound = s.pendingOutbound
        /\ b.allocated \subseteq s.allocated /\ b.inbound = s.inbound
    BY SMTT(30), <2>1, WithoutFields
  <2> QED BY <1>3, <2>2
<1>6. k \in NodeState /\ k.inbound = 1 /\ SameButLimiter(b, k) /\ SameRest(s, k)
  BY <1>2, <1>3, <1>4, ClearedFields
<1> DEFINE K == LET s0 == StartHandshake(node[n])
                IN  IF IsPeer(s0, m.from)
                    THEN ScheduleReconnect(n, RemoveActivePeer(s0, m.from), m.from) ELSE s0
<1>24. \E l \in FreeLink(K), i \in FreeIndex :
        LET linked == [K EXCEPT !.links[l] = [addr |-> m.from, inbound |-> TRUE],
                                !.addrToLink[m.from] = l]
            peer == [link |-> l, our |-> i, their |-> m.sender,
                     session |-> InboundSession(n, m, i), epoch |-> m.epoch,
                     msg2 |-> Answer(n, m, i), pending |-> None, aged |-> FALSE]
        IN  /\ node' = [node EXCEPT ![n] = CompleteHandshake(
                 IF HasRoom(K)
                 THEN Promote([linked EXCEPT !.allocated = @ \cup {i}], m.from, peer)
                 ELSE [RemoveLink(linked, l) EXCEPT !.refused = @ + 1])]
            /\ Take(m, {Answer(n, m, i)})
  BY Zenon DEF Msg1New
<1>25. K = k /\ m.from = p
  BY <1>2 DEF Cleared
<1> HIDE DEF K
<1>7. PICK l \in FreeLink(k), i \in FreeIndex :
        LET linked == [k EXCEPT !.links[l] = [addr |-> p, inbound |-> TRUE],
                                !.addrToLink[p] = l]
            peer == [link |-> l, our |-> i, their |-> m.sender,
                     session |-> InboundSession(n, m, i), epoch |-> m.epoch,
                     msg2 |-> Answer(n, m, i), pending |-> None, aged |-> FALSE]
        IN  /\ node' = [node EXCEPT ![n] = CompleteHandshake(
                 IF HasRoom(k)
                 THEN Promote([linked EXCEPT !.allocated = @ \cup {i}], p, peer)
                 ELSE [RemoveLink(linked, l) EXCEPT !.refused = @ + 1])]
            /\ Take(m, {Answer(n, m, i)})
  BY ZenonT(60), <1>24, <1>25
<1>8. ~ HasRoom(k) => k.refused < MaxRefusals
  BY <1>2 DEF Msg1New, Cleared
<1>9. /\ l \in LinkId /\ k.links[l] = None
      /\ i \in Index /\ i \notin s.allocated /\ s.pendingOutbound[i] = None
  BY <1>2, FreeLinkIsNew, FreeIndexIsNew, NodeFacts
<1>10. PICK link, a, peer :
         /\ link = [addr |-> p, inbound |-> TRUE] /\ a = Answer(n, m, i)
         /\ peer = [link |-> l, our |-> i, their |-> m.sender,
                    session |-> InboundSession(n, m, i), epoch |-> m.epoch,
                    msg2 |-> a, pending |-> None, aged |-> FALSE]
  OBVIOUS
<1>11. PICK links, addr : /\ links = [k.links EXCEPT ![l] = link]
                          /\ addr = [k.addrToLink EXCEPT ![p] = l]
  OBVIOUS
<1>12. PICK linked : linked = [k EXCEPT !.links = links, !.addrToLink = addr]
  OBVIOUS
<1>13. /\ node' = [node EXCEPT ![n] = CompleteHandshake(
                 IF HasRoom(k)
                 THEN Promote([linked EXCEPT !.allocated = @ \cup {i}], p, peer)
                 ELSE [RemoveLink(linked, l) EXCEPT !.refused = @ + 1])]
       /\ Take(m, {a})
  <2>1. linked = [k EXCEPT !.links[l] = [addr |-> p, inbound |-> TRUE],
                           !.addrToLink[p] = l]
    BY <1>6, <1>10, <1>11, <1>12 DEF NodeState
  <2> QED BY <1>7, <1>10, <2>1
<1>14. /\ a \in Message /\ a \in Msg2 /\ a.type = "msg2" /\ a.to = m.from /\ a.from = n
       /\ a.receiver = m.sender
  BY <1>1, <1>9, <1>10, AnswerTyped
<1>15. /\ peer \in ActivePeer /\ peer.link = l /\ peer.our = i /\ peer.pending = None
       /\ peer.msg2 = a
  BY <1>1, <1>3, <1>9, <1>10, <1>14 DEF ActivePeer, InboundSession, Session
<1>16. link \in Link
  BY <1>3, <1>10 DEF Link
<1>17. /\ links \in [LinkId -> Link \cup {None}] /\ addr \in [Node -> LinkId \cup {None}]
  BY <1>3, <1>6, <1>9, <1>11, <1>16, FieldTypes
<1>18. /\ linked \in NodeState /\ linked.links = links
       /\ linked.connections = k.connections /\ linked.pendingOutbound = k.pendingOutbound
       /\ linked.peers = k.peers /\ linked.peersByIndex = k.peersByIndex
       /\ linked.allocated = k.allocated /\ linked.inbound = k.inbound
       /\ linked.retry = k.retry /\ SameRest(k, linked)
  BY <1>6, <1>12, <1>17 DEF NodeState, SameRest
<1>19. net' \subseteq net \cup {a} /\ net' \subseteq Message /\ faults' \in 0 .. MaxFaults
  BY <1>13, <1>14, NodeFacts, TakeTyped
<1>20. \A x \in net' : \/ x \in net
                       \/ /\ x.type = "msg2" /\ x.to = m.from /\ x.from = n
                          /\ x.receiver = m.sender
  BY <1>14, <1>19
<1>21. /\ k.connections = s.connections /\ k.pendingOutbound = s.pendingOutbound
       /\ k.peers = b.peers /\ k.peersByIndex = b.peersByIndex
       /\ k.allocated = b.allocated /\ k.links = b.links
       /\ k.starting = s.starting /\ k.parted = s.parted
       /\ b.links[l] = None /\ i \notin b.allocated /\ b.pendingOutbound[i] = None
  BY <1>5, <1>6, <1>9 DEF SameButLimiter, SameRest
<1>22. CASE HasRoom(k)
  <2>1. PICK f, g, h, r : /\ f = [k.peers EXCEPT ![p] = peer]
                          /\ g = [k.peersByIndex EXCEPT ![i] = p]
                          /\ h = k.allocated \cup {i}
                          /\ r = [k.retry EXCEPT ![p] = None]
    OBVIOUS
  <2>2. /\ f \in [Node -> ActivePeer \cup {None}] /\ g \in [Index -> Node \cup {None}]
        /\ h \in SUBSET Index /\ r \in [Node -> RetryState \cup {None}]
    BY <1>3, <1>6, <1>9, <1>15, <2>1, FieldTypes
  <2>3. PICK parted : parted = k.parted \ {p}
    OBVIOUS
  <2>4. parted \in SUBSET Node
    BY <1>6, <2>3, FieldTypes
  <2>5. PICK v : v = [linked EXCEPT !.peers = f, !.peersByIndex = g, !.allocated = h,
                                    !.retry = r, !.parted = parted]
    OBVIOUS
  <2>6. /\ v \in NodeState /\ v.peers = f /\ v.peersByIndex = g /\ v.allocated = h
        /\ v.retry = r /\ v.parted = parted /\ v.starting = linked.starting
        /\ v.links = linked.links /\ v.connections = linked.connections
        /\ v.pendingOutbound = linked.pendingOutbound /\ v.inbound = linked.inbound
    BY <1>18, <2>2, <2>4, <2>5 DEF NodeState
  <2>7. v = Promote([linked EXCEPT !.allocated = @ \cup {i}], p, peer)
    BY <1>15, <1>18, <2>1, <2>3, <2>5 DEF Promote, NodeState, SameRest
  <2>8. PICK t : t = CompleteHandshake(v)
    OBVIOUS
  <2>9. node' = [node EXCEPT ![n] = t]
    BY <1>13, <1>22, <2>7, <2>8
  <2>10. /\ t \in NodeState /\ t.inbound = 0 /\ t.peers = f /\ t.peersByIndex = g
         /\ t.allocated = h /\ t.links = links /\ t.connections = s.connections
         /\ t.pendingOutbound = s.pendingOutbound /\ t.retry = r
         /\ t.starting = s.starting /\ t.parted = parted
    BY <1>6, <1>18, <1>21, <2>6, <2>8, CompleteHandshakeFields DEF SameRest
  <2>11. TablesOK(t)
    <3>1. /\ t.peers = [b.peers EXCEPT ![p] = peer]
          /\ t.peersByIndex = [b.peersByIndex EXCEPT ![peer.our] = p]
          /\ t.allocated = b.allocated \cup {peer.our}
          /\ t.links = [b.links EXCEPT ![peer.link] = link]
          /\ t.connections = b.connections /\ t.pendingOutbound = b.pendingOutbound
          /\ t.inbound = b.inbound
      BY <1>5, <1>11, <1>15, <1>21, <2>1, <2>10
    <3>2. /\ b.links[peer.link] = None /\ peer.our \notin b.allocated
          /\ b.pendingOutbound[peer.our] = None
      BY <1>15, <1>21
    <3> QED BY SMTT(30), <1>3, <1>5, <1>15, <1>16, <3>1, <3>2, InboundOK
  <2>12. t.peers[p] = peer /\ \A q \in Node : q # p => t.peers[q] = s.peers[q]
    BY <1>3, <1>5, <1>21, <2>1, <2>10, FieldTypes
  <2>13. IsPeer(t, p)
    BY <1>15, <2>12, NoneAssumption DEF IsPeer
  <2>14. t.retry[p] = None /\ \A q \in Node : q # p => t.retry[q] = s.retry[q]
    <3>1. \A q \in Node : q # p => k.retry[q] = s.retry[q]
      BY <1>2, <1>3, <1>4, ClearedFields
    <3> QED BY <1>3, <1>6, <2>1, <2>10, <3>1, FieldTypes
  <2>15. Pursued(n, t)
    BY <1>3, <1>21, <2>3, <2>10, <2>12, <2>13, <2>14, ConstantTypes
       DEF Pursued, IsPeer, IsConnecting
  <2>16. ASSUME NEW q \in Node, IsPeer(t, q), t.peers[q].msg2 # None
         PROVE  \/ IsPeer(node[n], q) /\ t.peers[q].msg2 = node[n].peers[q].msg2
                \/ /\ t.peers[q].msg2.type = "msg2" /\ t.peers[q].msg2.to = m.from
                   /\ t.peers[q].msg2.from = n /\ t.peers[q].msg2.receiver = m.sender
    BY <1>2, <1>14, <1>15, <2>12, <2>16 DEF IsPeer
  <2> QED BY <1>2, <1>19, <1>20, <2>9, <2>10, <2>11, <2>15, <2>16, InboundStep
<1>23. CASE ~ HasRoom(k)
  <2>1. PICK v : v = RemoveLink(linked, l)
    OBVIOUS
  <2>2. /\ v \in NodeState /\ v.links = [linked.links EXCEPT ![l] = None]
        /\ v.connections = linked.connections /\ v.pendingOutbound = linked.pendingOutbound
        /\ v.peers = linked.peers /\ v.peersByIndex = linked.peersByIndex
        /\ v.allocated = linked.allocated /\ v.inbound = linked.inbound
        /\ v.retry = linked.retry /\ SameRest(linked, v)
    BY <1>9, <1>18, <2>1, RemoveLinkFields
  <2>3. v.refused + 1 \in 0 .. MaxRefusals
    BY <1>6, <1>8, <1>18, <1>23, <2>2, FieldTypes, ConstantTypes DEF SameRest
  <2>4. PICK w : w = [v EXCEPT !.refused = v.refused + 1]
    OBVIOUS
  <2>5. /\ w \in NodeState /\ w.links = v.links /\ w.connections = v.connections
        /\ w.pendingOutbound = v.pendingOutbound /\ w.peers = v.peers
        /\ w.peersByIndex = v.peersByIndex /\ w.allocated = v.allocated
        /\ w.inbound = v.inbound /\ w.retry = v.retry /\ w.starting = v.starting
        /\ w.parted = v.parted
    BY <2>2, <2>3, <2>4 DEF NodeState
  <2>6. PICK t : t = CompleteHandshake(w)
    OBVIOUS
  <2>7. node' = [node EXCEPT ![n] = t]
    <3>1. w = [RemoveLink(linked, l) EXCEPT !.refused = @ + 1]
      BY <2>1, <2>4
    <3> QED BY <1>13, <1>23, <2>6, <3>1
  <2>8. v.links = b.links
    <3>1. links = [b.links EXCEPT ![l] = link] /\ v.links = [links EXCEPT ![l] = None]
      BY <1>11, <1>18, <1>21, <2>2
    <3> QED BY <1>5, <1>9, <1>21, <3>1, FieldTypes
  <2>9. /\ t \in NodeState /\ t.inbound = 0 /\ t.peers = b.peers
        /\ t.peersByIndex = b.peersByIndex /\ t.allocated = b.allocated
        /\ t.links = b.links /\ t.connections = s.connections
        /\ t.pendingOutbound = s.pendingOutbound /\ t.retry = k.retry
        /\ t.starting = s.starting /\ t.parted = s.parted
    BY <1>6, <1>18, <1>21, <2>2, <2>5, <2>6, <2>8, CompleteHandshakeFields DEF SameRest
  <2>10. TablesOK(t)
    BY <1>5, <2>9, SameTablesOK DEF SameTables
  <2>11. Pursued(n, t)
    BY <1>2, <1>3, <1>4, <1>21, <2>9, ClearedPursued
  <2>12. \A q \in Node : IsPeer(t, q) => IsPeer(node[n], q)
                                         /\ t.peers[q].msg2 = node[n].peers[q].msg2
    BY <1>2, <1>5, <2>9 DEF IsPeer
  <2> QED BY <1>2, <1>19, <1>20, <2>7, <2>9, <2>10, <2>11, <2>12, InboundStep
<1> QED BY <1>22, <1>23

LEMMA Msg1SendFailsInv ==
  ASSUME IndInv, NEW n \in Node, NEW m \in net, m.type = "msg1", Msg1SendFails(n, m)
  PROVE  IndInv'
<1>1. m.from \in Node
  BY NodeFacts, MessageFields
<1>2. PICK p, s, b, k : p = m.from /\ s = node[n] /\ b = Without(s, p) /\ k = Cleared(n, s, p)
  OBVIOUS
<1>3. /\ p \in Node /\ s \in NodeState /\ TablesOK(s) /\ Pursued(n, s) /\ s.inbound = 0
      /\ SameButLimiter(s, s) /\ SameRest(s, s)
  BY <1>1, <1>2, NodeFacts DEF TablesOK, SameButLimiter, SameRest
<1>4. /\ b \in NodeState /\ TablesOK(b) /\ ~ IsPeer(b, p)
      /\ \A q \in Node : q # p => b.peers[q] = s.peers[q]
      /\ b.connections = s.connections /\ b.inbound = 0
  <2>1. s \in NodeState /\ TablesOK(s) /\ p \in Node /\ b = Without(s, p)
    BY <1>2, <1>3
  <2>2. /\ b \in NodeState /\ TablesOK(b) /\ ~ IsPeer(b, p)
        /\ \A q \in Node : q # p => b.peers[q] = s.peers[q]
        /\ b.connections = s.connections /\ b.inbound = s.inbound
    BY SMTT(30), <2>1, WithoutFields
  <2> QED BY <1>3, <2>2
<1>5. k \in NodeState /\ k.inbound = 0 /\ SameButLimiter(b, k)
  BY <1>2, <1>3, ClearedFields
<1>6. PICK addr : addr = [k.addrToLink EXCEPT ![p] = None]
  OBVIOUS
<1>7. addr \in [Node -> LinkId \cup {None}]
  BY <1>3, <1>5, <1>6, FieldTypes
<1>8. PICK v, u, t : /\ v = [k EXCEPT !.addrToLink = addr]
                     /\ u = StartHandshake(v) /\ t = CompleteHandshake(u)
  OBVIOUS
<1>9. /\ v \in NodeState /\ v.connections = k.connections /\ v.links = k.links
      /\ v.pendingOutbound = k.pendingOutbound /\ v.peers = k.peers
      /\ v.peersByIndex = k.peersByIndex /\ v.allocated = k.allocated
      /\ v.inbound = 0 /\ v.retry = k.retry /\ SameRest(k, v)
  BY <1>5, <1>7, <1>8 DEF NodeState, SameRest
<1>10. /\ u \in NodeState /\ u.inbound = 1
       /\ u.connections = v.connections /\ u.links = v.links
       /\ u.pendingOutbound = v.pendingOutbound /\ u.peers = v.peers
       /\ u.peersByIndex = v.peersByIndex /\ u.allocated = v.allocated
       /\ u.retry = v.retry /\ SameRest(v, u)
  <2>1. v \in NodeState /\ v.inbound = 0 /\ u = StartHandshake(v)
    BY <1>8, <1>9
  <2>2. u \in NodeState /\ u.inbound = v.inbound + 1
    BY <2>1, StartHandshakeFields
  <2>3. u.inbound = 1
    BY <2>1, <2>2
  <2>4. /\ u.connections = v.connections /\ u.links = v.links
        /\ u.pendingOutbound = v.pendingOutbound /\ u.peers = v.peers
        /\ u.peersByIndex = v.peersByIndex /\ u.allocated = v.allocated
        /\ u.retry = v.retry /\ SameRest(v, u)
    BY <2>1, StartHandshakeFields
  <2> QED BY <2>2, <2>3, <2>4
<1>11. /\ t \in NodeState /\ t.inbound = 0
       /\ t.connections = k.connections /\ t.links = k.links
       /\ t.pendingOutbound = k.pendingOutbound /\ t.peers = k.peers
       /\ t.peersByIndex = k.peersByIndex /\ t.allocated = k.allocated
       /\ t.retry = k.retry /\ t.starting = k.starting /\ t.parted = k.parted
  BY <1>8, <1>9, <1>10, CompleteHandshakeFields DEF SameRest
<1>12. node' = [node EXCEPT ![n] = t] /\ net' = net \ {m} /\ faults' \in 0 .. MaxFaults
  <2> DEFINE K == IF IsPeer(node[n], m.from)
                  THEN ScheduleReconnect(n, RemoveActivePeer(node[n], m.from), m.from)
                  ELSE node[n]
  <2>1. /\ node' = [node EXCEPT ![n] =
             CompleteHandshake(StartHandshake([K EXCEPT !.addrToLink[m.from] = None]))]
        /\ net' = net \ {m} /\ faults < MaxFaults /\ faults' = faults + 1
    BY Zenon DEF Msg1SendFails
  <2>2. K = k
    BY <1>2 DEF Cleared
  <2> HIDE DEF K
  <2>3. [k EXCEPT !.addrToLink[m.from] = None] = v
    BY <1>2, <1>5, <1>6, <1>8 DEF NodeState
  <2>4. node' = [node EXCEPT ![n] = CompleteHandshake(StartHandshake(v))]
    BY <2>1, <2>2, <2>3, Zenon
  <2> QED BY <1>8, <2>1, <2>4, NodeFacts, FaultTyped
<1>13. TablesOK(t)
  BY <1>4, <1>5, <1>11, SameTablesOK DEF SameTables, SameButLimiter
<1>14. Pursued(n, t)
  BY <1>2, <1>3, <1>11, ClearedPursued
<1>15. \A l \in LinkId : t.connections[l] = node[n].connections[l]
  BY <1>2, <1>4, <1>5, <1>11 DEF SameButLimiter
<1>16. \A q \in Node : IsPeer(t, q) => IsPeer(node[n], q)
                                       /\ t.peers[q].msg2 = node[n].peers[q].msg2
  BY <1>2, <1>4, <1>5, <1>11 DEF IsPeer, SameButLimiter
<1>17. net' \subseteq net
  BY <1>12
<1> QED BY <1>11, <1>12, <1>13, <1>14, <1>15, <1>16, <1>17, QuietStep

LEMMA HandleMsg1Inv ==
  ASSUME IndInv, NEW n \in Node, NEW m \in net, m.to = n, HandleMsg1(n, m)
  PROVE  IndInv'
BY Msg1RekeyInv, Msg1DuplicateInv, Msg1NewInv, Msg1SendFailsInv DEF HandleMsg1

-----------------------------------------------------------------------------
(* handle_msg2.                                                            *)

\* The connection an answer is for, which is to the peer it comes from.
LEMMA AwaitedConnection ==
  ASSUME IndInv, NEW n \in Node, NEW m \in net, m.type = "msg2", m.to = n,
         Awaiting(node[n], m.receiver) = "sent",
         NEW s, s = node[n], NEW l, l = s.pendingOutbound[m.receiver],
         NEW c, c = s.connections[l]
  PROVE  /\ m \in Msg2 /\ m.receiver \in Index /\ m.from \in Node /\ m.sender \in Index
         /\ m.epoch \in Epoch
         /\ l \in LinkId /\ c \in Connection /\ c # None
         /\ c.our = m.receiver /\ c.peer = m.from
<1>1. m \in Msg2
  BY NodeFacts, MessageFields
<1>2. m.receiver \in Index /\ m.from \in Node /\ m.sender \in Index /\ m.epoch \in Epoch
  BY <1>1 DEF Msg2
<1>3. s \in NodeState /\ TablesOK(s) /\ Aimed(m.to, m.receiver, m.from)
  BY NodeFacts DEF IndInv, MessageOK
<1>4. l # None /\ c # None
  BY NoneAssumption DEF Awaiting
<1>5. l \in LinkId
  BY <1>2, <1>3, <1>4, FieldTypes
<1>6. c \in Connection
  BY <1>3, <1>4, <1>5, ConnectionTypes
<1>7. c.our = m.receiver
  BY <1>2, <1>3, <1>4 DEF TablesOK, ConnectionsOK, Awaited
<1>8. c.peer = m.from
  BY <1>3, <1>4, <1>5, <1>7 DEF Aimed
<1> QED BY <1>1, <1>2, <1>4, <1>5, <1>6, <1>7, <1>8

LEMMA Msg2FailedInv ==
  ASSUME IndInv, NEW n \in Node, NEW m \in net, Msg2Failed(n, m)
  PROVE  IndInv'
<1>1. PICK t : t = node[n]
  OBVIOUS
<1>2. node' = node /\ Take(m, {})
  BY DEF Msg2Failed
<1>3. PICK sent : sent = {}
  OBVIOUS
<1>4. net' \subseteq net \cup sent /\ faults' \in 0 .. MaxFaults
  BY <1>2, <1>3, NodeFacts, TakeTyped
<1>5. net' \subseteq net /\ node' = [node EXCEPT ![n] = t]
  BY <1>1, <1>2, <1>3, <1>4, NodeFacts
<1> QED BY <1>1, <1>4, <1>5, NodeFacts, QuietStep

LEMMA Msg2StaleInv ==
  ASSUME IndInv, NEW n \in Node, NEW m \in net, m.type = "msg2", Msg2Stale(n, m)
  PROVE  IndInv'
<1>1. PICK s, pend, sent : /\ s = node[n] /\ sent = {}
                           /\ pend = [s.pendingOutbound EXCEPT ![m.receiver] = None]
  OBVIOUS
<1>2. m \in Msg2
  BY NodeFacts, MessageFields
<1>3. m.receiver \in Index
  BY <1>2 DEF Msg2
<1>4. s \in NodeState /\ TablesOK(s) /\ Pursued(n, s)
  BY <1>1, NodeFacts
<1>5. pend \in [Index -> LinkId \cup {None}]
  BY <1>1, <1>4, FieldTypes
<1>6. PICK t : t = [s EXCEPT !.pendingOutbound = pend]
  OBVIOUS
<1>7. /\ t \in NodeState /\ t.pendingOutbound = pend
      /\ t.connections = s.connections /\ t.links = s.links /\ t.peers = s.peers
      /\ t.peersByIndex = s.peersByIndex /\ t.allocated = s.allocated
      /\ t.inbound = s.inbound /\ t.retry = s.retry /\ SameRest(s, t)
  BY <1>4, <1>5, <1>6 DEF NodeState, SameRest
<1>8. node' = [node EXCEPT ![n] = t] /\ Take(m, sent)
  BY <1>1, <1>6 DEF Msg2Stale
<1>9. ~ Awaited(s, m.receiver)
  <2>1. Awaiting(s, m.receiver) = None
    BY <1>1 DEF Msg2Stale
  <2>2. \A l \in LinkId : s.connections[l] # None => s.connections[l].state # None
    BY <1>4, ConnectionTypes, NoneAssumption
  <2> QED BY <1>3, <1>4, <2>1, <2>2, FieldTypes DEF Awaiting, Awaited
<1>10. TablesOK(t)
  BY <1>1, <1>3, <1>4, <1>7, <1>9, ForgottenEntryOK
<1>11. Pursued(n, t)
  BY <1>4, <1>7 DEF Pursued, IsPeer, IsConnecting, SameRest
<1>12. net' \subseteq net \cup sent /\ faults' \in 0 .. MaxFaults
  BY <1>1, <1>8, NodeFacts, TakeTyped
<1>13. net' \subseteq net
  BY <1>1, <1>12
<1>14. \A q \in Node : IsPeer(t, q) => IsPeer(node[n], q)
                                       /\ t.peers[q].msg2 = node[n].peers[q].msg2
  BY <1>1, <1>7 DEF IsPeer
<1>15. \A l \in LinkId : t.connections[l] = node[n].connections[l]
  BY <1>1, <1>7
<1> QED BY <1>7, <1>8, <1>10, <1>11, <1>12, <1>13, <1>14, <1>15, QuietStep

\* What both outcomes of a crossed answer have in common: u is s without connection l,
\* which was to the peer p.
Crossed(s, l, p, u) ==
  /\ s.connections[l] # None /\ s.connections[l].peer = p /\ IsPeer(s, p)
  /\ u \in NodeState /\ u.connections = [s.connections EXCEPT ![l] = None]
  /\ u.retry = s.retry /\ SameRest(s, u)
  /\ \A q \in Node : IsPeer(u, q) <=> IsPeer(s, q)
  /\ \A q \in Node : IsPeer(s, q) => u.peers[q].msg2 = s.peers[q].msg2

LEMMA CrossedStep ==
  ASSUME IndInv, NEW n \in Node, NEW s, s = node[n], NEW l \in LinkId, NEW p \in Node,
         NEW u, Crossed(s, l, p, u), TablesOK(RemoveLink(u, l)),
         node' = [node EXCEPT ![n] = RemoveLink(u, l)],
         net' \subseteq net, faults' \in 0 .. MaxFaults
  PROVE  IndInv'
<1>0. /\ s.connections[l] # None /\ s.connections[l].peer = p /\ IsPeer(s, p)
      /\ u \in NodeState /\ u.connections = [s.connections EXCEPT ![l] = None]
      /\ u.retry = s.retry /\ SameRest(s, u)
      /\ \A q \in Node : IsPeer(u, q) <=> IsPeer(s, q)
      /\ \A q \in Node : IsPeer(s, q) => u.peers[q].msg2 = s.peers[q].msg2
  BY DEF Crossed
<1> USE <1>0
<1>11. PICK t : t = RemoveLink(u, l)
  OBVIOUS
<1>1. s \in NodeState /\ Pursued(n, s)
  BY NodeFacts
<1>2. /\ t \in NodeState /\ t.connections = u.connections /\ t.peers = u.peers
      /\ t.retry = u.retry /\ SameRest(u, t)
  BY <1>11, RemoveLinkFields
<1>3. \A q \in Node : IsPeer(t, q) <=> IsPeer(s, q)
  BY <1>2 DEF IsPeer
<1>4. \A k \in LinkId : k # l => t.connections[k] = s.connections[k]
  BY <1>1, <1>2, FieldTypes
<1>5. t.connections[l] = None
  BY <1>1, <1>2, FieldTypes
<1>6. \A q \in Node : q # p /\ IsConnecting(s, q) => IsConnecting(t, q)
  BY <1>4 DEF IsConnecting
<1>7. t.retry = s.retry /\ t.starting = s.starting /\ t.parted = s.parted
  BY <1>2 DEF SameRest
<1>8. Pursued(n, t)
  <2>1. ASSUME NEW q \in AutoConnect[n]
        PROVE  \/ IsPeer(t, q) \/ IsConnecting(t, q) \/ t.retry[q] # None
               \/ q \in t.starting \cup t.parted
    <3>1. q \in Node
      BY ConstantTypes
    <3> QED BY <1>1, <1>3, <1>6, <1>7, <3>1 DEF Pursued
  <2> QED BY <1>1, <1>7, <2>1 DEF Pursued
<1>9. \A k \in LinkId : t.connections[k] # None => t.connections[k] = node[n].connections[k]
  BY <1>4, <1>5
<1>10. \A q \in Node : IsPeer(t, q) => IsPeer(node[n], q)
                                       /\ t.peers[q].msg2 = node[n].peers[q].msg2
  BY <1>2, <1>3
<1> QED BY ZenonT(60), <1>2, <1>8, <1>9, <1>10, <1>11, QuietStep

LEMMA Msg2CrossInv ==
  ASSUME IndInv, NEW n \in Node, NEW m \in net, m.type = "msg2", m.to = n, Msg2Cross(n, m)
  PROVE  IndInv'
<1>1. PICK s : s = node[n]
  OBVIOUS
<1>2. PICK l : l = s.pendingOutbound[m.receiver]
  OBVIOUS
<1>3. PICK c : c = s.connections[l]
  OBVIOUS
<1>4. PICK p, sent : p = m.from /\ sent = {}
  OBVIOUS
<1>5. /\ m \in Msg2 /\ m.receiver \in Index /\ p \in Node /\ m.sender \in Index
      /\ l \in LinkId /\ c \in Connection /\ c # None
      /\ c.our = m.receiver /\ c.peer = p
  <2>1. Awaiting(node[n], m.receiver) = "sent"
    BY DEF Msg2Cross
  <2> QED BY <1>1, <1>2, <1>3, <1>4, <2>1, AwaitedConnection
<1>6. s \in NodeState /\ TablesOK(s) /\ IsPeer(s, p) /\ s.peers[p] \in ActivePeer
  <2>1. s \in NodeState /\ TablesOK(s) /\ IsPeer(s, p)
    BY <1>1, <1>4, NodeFacts DEF Msg2Cross
  <2> QED BY <1>5, <2>1, PeerTypes
<1>7. PICK conns, pend, session : /\ conns = [s.connections EXCEPT ![l] = None]
                                  /\ pend = [s.pendingOutbound EXCEPT ![m.receiver] = None]
                                  /\ session = OutboundSession(n, m)
  OBVIOUS
<1>8. PICK peer : peer = [s.peers[p] EXCEPT !.session = session, !.our = c.our,
                                            !.their = m.sender]
  OBVIOUS
<1>9. PICK peers, byIndex, alloc, less :
        /\ peers = [s.peers EXCEPT ![p] = peer]
        /\ byIndex = [Forget(s.peersByIndex, {s.peers[p].our}) EXCEPT ![c.our] = p]
        /\ alloc = s.allocated \ {s.peers[p].our}
        /\ less = s.allocated \ {c.our}
  OBVIOUS
<1>10. session \in Session
  BY <1>4, <1>5, <1>7 DEF OutboundSession, Session
<1>11. /\ peer \in ActivePeer /\ peer.link = s.peers[p].link /\ peer.our = c.our
       /\ peer.pending = s.peers[p].pending /\ peer.msg2 = s.peers[p].msg2
  BY <1>5, <1>6, <1>8, <1>10 DEF ActivePeer
<1>12. /\ conns \in [LinkId -> Connection \cup {None}]
       /\ pend \in [Index -> LinkId \cup {None}]
       /\ peers \in [Node -> ActivePeer \cup {None}]
       /\ alloc \in SUBSET Index /\ less \in SUBSET Index
  BY <1>5, <1>6, <1>7, <1>9, <1>11, FieldTypes
<1>13. byIndex \in [Index -> Node \cup {None}]
  BY <1>5, <1>6, <1>9, FieldTypes DEF Forget
<1>14. PICK v, u : /\ v = [s EXCEPT !.connections = conns, !.pendingOutbound = pend,
                                    !.allocated = less]
                   /\ u = [s EXCEPT !.connections = conns, !.pendingOutbound = pend,
                                    !.allocated = alloc, !.peersByIndex = byIndex,
                                    !.peers = peers]
  OBVIOUS
<1>15. /\ v \in NodeState /\ v.connections = conns /\ v.pendingOutbound = pend
       /\ v.allocated = less /\ v.peersByIndex = s.peersByIndex /\ v.peers = s.peers
       /\ v.links = s.links /\ v.inbound = s.inbound /\ v.retry = s.retry
       /\ SameRest(s, v)
  BY <1>6, <1>12, <1>14 DEF NodeState, SameRest
<1>16. /\ u \in NodeState /\ u.connections = conns /\ u.pendingOutbound = pend
       /\ u.allocated = alloc /\ u.peersByIndex = byIndex /\ u.peers = peers
       /\ u.links = s.links /\ u.inbound = s.inbound /\ u.retry = s.retry
       /\ SameRest(s, u)
  BY <1>6, <1>12, <1>13, <1>14 DEF NodeState, SameRest
<1>17. PICK w : w = IF OurOutboundWins(n, p) THEN u ELSE v
  OBVIOUS
<1>18. PICK t : t = RemoveLink(w, l)
  OBVIOUS
<1>19. node' = [node EXCEPT ![n] = t] /\ Take(m, sent)
  <2> DEFINE done == [s EXCEPT !.connections[l] = None, !.pendingOutbound[m.receiver] = None]
             swapped == [done EXCEPT
                           !.allocated = @ \ {s.peers[p].our},
                           !.peersByIndex = [Forget(@, {s.peers[p].our}) EXCEPT ![c.our] = p],
                           !.peers[p].session = OutboundSession(n, m),
                           !.peers[p].our = c.our,
                           !.peers[p].their = m.sender]
             kept == [done EXCEPT !.allocated = @ \ {c.our}]
             L == node[n].pendingOutbound[m.receiver]
             C == node[n].connections[L]
             D == [node[n] EXCEPT !.connections[L] = None,
                                  !.pendingOutbound[m.receiver] = None]
             U == [D EXCEPT
                     !.allocated = @ \ {node[n].peers[m.from].our},
                     !.peersByIndex = [Forget(@, {node[n].peers[m.from].our})
                                         EXCEPT ![C.our] = m.from],
                     !.peers[m.from].session = OutboundSession(n, m),
                     !.peers[m.from].our = C.our,
                     !.peers[m.from].their = m.sender]
             V == [D EXCEPT !.allocated = @ \ {C.our}]
  <2>0. /\ node' = [node EXCEPT ![n] =
             RemoveLink(IF OurOutboundWins(n, m.from) THEN U ELSE V, L)]
        /\ Take(m, {})
    BY Zenon DEF Msg2Cross
  <2>1. /\ node' = [node EXCEPT ![n] =
             RemoveLink(IF OurOutboundWins(n, p) THEN swapped ELSE kept, l)]
        /\ Take(m, sent)
    <3>1. L = l /\ C = c
      BY <1>1, <1>2, <1>3
    <3>2. D = done
      BY <1>1, <3>1, Zenon
    <3>3. U = swapped /\ V = kept
      BY <1>1, <1>4, <3>1, <3>2, Zenon
    <3> HIDE DEF L, U, V, swapped, kept
    <3> QED BY <1>4, <2>0, <3>1, <3>3, Zenon
  <2>2. done = [s EXCEPT !.connections = conns, !.pendingOutbound = pend]
    BY <1>6, <1>7 DEF NodeState
  <2>3. PICK d : d = [s EXCEPT !.connections = conns, !.pendingOutbound = pend]
    OBVIOUS
  <2>4. /\ d \in NodeState /\ d.allocated = s.allocated /\ d.peers = s.peers
        /\ d.peersByIndex = s.peersByIndex
    BY <1>6, <1>12, <2>3 DEF NodeState
  <2>5. [d EXCEPT !.allocated = @ \ {c.our}] = v
    BY <1>6, <1>9, <1>14, <2>3, <2>4 DEF NodeState
  <2>6. [d EXCEPT !.allocated = @ \ {s.peers[p].our},
                  !.peersByIndex = [Forget(@, {s.peers[p].our}) EXCEPT ![c.our] = p],
                  !.peers[p].session = session,
                  !.peers[p].our = c.our,
                  !.peers[p].their = m.sender] = u
    <3>1. PICK f, g, h : /\ f = [s.peers EXCEPT ![p].session = session]
                         /\ g = [f EXCEPT ![p].our = c.our]
                         /\ h = [g EXCEPT ![p].their = m.sender]
      OBVIOUS
    <3>2. h = peers
      BY <1>5, <1>6, <1>8, <1>9, <3>1, FieldTypes
    <3>3. [d EXCEPT !.allocated = alloc, !.peersByIndex = byIndex, !.peers = peers] = u
      BY <1>6, <1>14, <2>3 DEF NodeState
    <3>4. /\ d.allocated \ {s.peers[p].our} = alloc
          /\ [Forget(d.peersByIndex, {s.peers[p].our}) EXCEPT ![c.our] = p] = byIndex
      BY <1>9, <2>4
    <3>5. [d.peers EXCEPT ![p].session = session, ![p].our = c.our, ![p].their = m.sender]
            = peers
      BY <2>4, <3>1, <3>2, Zenon
    <3>6. PICK e : e = [d EXCEPT !.allocated = alloc, !.peersByIndex = byIndex]
      OBVIOUS
    <3>7. e \in NodeState /\ e.peers = d.peers
      BY <1>12, <1>13, <2>4, <3>6 DEF NodeState
    <3>8. e = [d EXCEPT !.allocated = @ \ {s.peers[p].our},
                        !.peersByIndex = [Forget(@, {s.peers[p].our}) EXCEPT ![c.our] = p]]
      BY <2>4, <3>4, <3>6 DEF NodeState
    <3>9. [e EXCEPT !.peers[p].session = session, !.peers[p].our = c.our,
                    !.peers[p].their = m.sender] = [e EXCEPT !.peers = peers]
      <4>1. PICK e1, e2, e3 : /\ e1 = [e EXCEPT !.peers[p].session = session]
                              /\ e2 = [e1 EXCEPT !.peers[p].our = c.our]
                              /\ e3 = [e2 EXCEPT !.peers[p].their = m.sender]
        OBVIOUS
      <4>2. e1 = [e EXCEPT !.peers = f] /\ e1.peers = f
        BY <2>4, <3>1, <3>7, <4>1 DEF NodeState
      <4>3. e2 = [e EXCEPT !.peers = g] /\ e2.peers = g
        BY <3>1, <3>7, <4>1, <4>2 DEF NodeState
      <4>4. e3 = [e EXCEPT !.peers = h]
        BY <3>1, <3>7, <4>1, <4>3 DEF NodeState
      <4> QED BY <3>2, <4>1, <4>4, Zenon
    <3>10. [e EXCEPT !.peers = peers] = u
      BY <2>4, <3>3, <3>6 DEF NodeState
    <3> QED BY <3>8, <3>9, <3>10
  <2>7. kept = v /\ swapped = u
    BY <1>7, <2>2, <2>3, <2>5, <2>6, Zenon
  <2> HIDE DEF kept, swapped
  <2> QED BY <1>17, <1>18, <2>1, <2>7, Zenon
<1>20. net' \subseteq net \cup sent /\ faults' \in 0 .. MaxFaults
  BY <1>4, <1>19, NodeFacts, TakeTyped
<1>21. net' \subseteq net
  BY <1>4, <1>20
<1>22. CASE OurOutboundWins(n, p)
  <2>1. t = RemoveLink(u, l)
    BY <1>17, <1>18, <1>22
  <2>2. /\ t.links = [u.links EXCEPT ![l] = None]
        /\ t.connections = u.connections /\ t.pendingOutbound = u.pendingOutbound
        /\ t.peers = u.peers /\ t.peersByIndex = u.peersByIndex
        /\ t.allocated = u.allocated /\ t.inbound = u.inbound
    BY <1>5, <1>16, <2>1, RemoveLinkFields
  <2>3. /\ t.peers = [s.peers EXCEPT ![p] = peer]
        /\ t.peersByIndex = [Forget(s.peersByIndex, {s.peers[p].our})
                               EXCEPT ![s.connections[l].our] = p]
        /\ t.allocated = s.allocated \ {s.peers[p].our}
        /\ t.connections = [s.connections EXCEPT ![l] = None]
        /\ t.links = [s.links EXCEPT ![l] = None]
        /\ t.pendingOutbound = [s.pendingOutbound EXCEPT ![s.connections[l].our] = None]
        /\ t.inbound = s.inbound
    BY <1>3, <1>5, <1>7, <1>9, <1>16, <2>2
  <2>4. TablesOK(t)
    <3>1. Swapped(s, p, l, peer, t)
      BY <1>3, <1>11, <2>3 DEF Swapped
    <3> QED BY <1>3, <1>5, <1>6, <3>1, SwappedOK
  <2>5. \A q \in Node : IsPeer(u, q) <=> IsPeer(s, q)
    BY <1>5, <1>6, <1>9, <1>11, <1>16, FieldTypes, NoneAssumption DEF IsPeer
  <2>6. \A q \in Node : IsPeer(s, q) => u.peers[q].msg2 = s.peers[q].msg2
    BY <1>5, <1>6, <1>9, <1>11, <1>16, FieldTypes
  <2>7. u.connections = [s.connections EXCEPT ![l] = None]
    BY <1>7, <1>16
  <2>8. s.connections[l] # None /\ s.connections[l].peer = p
    BY <1>3, <1>5
  <2>9. Crossed(s, l, p, u)
    BY <1>6, <1>16, <2>5, <2>6, <2>7, <2>8 DEF Crossed
  <2>10. TablesOK(RemoveLink(u, l)) /\ node' = [node EXCEPT ![n] = RemoveLink(u, l)]
    BY <1>19, <2>1, <2>4
  <2> QED BY <1>1, <1>5, <1>20, <1>21, <2>9, <2>10, CrossedStep
<1>23. CASE ~ OurOutboundWins(n, p)
  <2>1. t = RemoveLink(v, l)
    BY <1>17, <1>18, <1>23
  <2>2. /\ t.links = [v.links EXCEPT ![l] = None]
        /\ t.connections = v.connections /\ t.pendingOutbound = v.pendingOutbound
        /\ t.peers = v.peers /\ t.peersByIndex = v.peersByIndex
        /\ t.allocated = v.allocated /\ t.inbound = v.inbound
    BY <1>5, <1>15, <2>1, RemoveLinkFields
  <2>3. /\ t.connections = [s.connections EXCEPT ![l] = None]
        /\ t.links = [s.links EXCEPT ![l] = None]
        /\ t.pendingOutbound = [s.pendingOutbound EXCEPT ![s.connections[l].our] = None]
        /\ t.allocated = s.allocated \ {s.connections[l].our}
        /\ t.peers = s.peers /\ t.peersByIndex = s.peersByIndex /\ t.inbound = s.inbound
    BY <1>3, <1>5, <1>7, <1>9, <1>15, <2>2
  <2>4. TablesOK(t)
    BY <1>3, <1>5, <1>6, <2>3, DroppedOK
  <2>5. /\ \A q \in Node : IsPeer(v, q) <=> IsPeer(s, q)
        /\ \A q \in Node : IsPeer(s, q) => v.peers[q].msg2 = s.peers[q].msg2
    BY <1>15 DEF IsPeer
  <2>6. v.connections = [s.connections EXCEPT ![l] = None]
    BY <1>7, <1>15
  <2>7. s.connections[l] # None /\ s.connections[l].peer = p
    BY <1>3, <1>5
  <2>8. Crossed(s, l, p, v)
    BY <1>6, <1>15, <2>5, <2>6, <2>7 DEF Crossed
  <2>9. TablesOK(RemoveLink(v, l)) /\ node' = [node EXCEPT ![n] = RemoveLink(v, l)]
    BY <1>19, <2>1, <2>4
  <2> QED BY <1>1, <1>5, <1>20, <1>21, <2>8, <2>9, CrossedStep
<1> QED BY <1>22, <1>23

\* The answer of a new peer: it is promoted on the link of the connection.
LEMMA Msg2PromotedInv ==
  ASSUME IndInv, NEW n \in Node, NEW m \in net, m.type = "msg2", m.to = n, Msg2New(n, m),
         HasRoom(node[n])
  PROVE  IndInv'
<1>1. PICK s : s = node[n]
  OBVIOUS
<1>2. PICK l : l = s.pendingOutbound[m.receiver]
  OBVIOUS
<1>3. PICK c : c = s.connections[l]
  OBVIOUS
<1>4. PICK p, sent, i : p = m.from /\ sent = {} /\ i = m.receiver
  OBVIOUS
<1>5. /\ m \in Msg2 /\ i \in Index /\ p \in Node /\ m.sender \in Index /\ m.epoch \in Epoch
      /\ l \in LinkId /\ c \in Connection /\ c # None /\ c.our = i /\ c.peer = p
  <2>1. Awaiting(node[n], m.receiver) = "sent"
    BY DEF Msg2New
  <2> QED BY <1>1, <1>2, <1>3, <1>4, <2>1, AwaitedConnection
<1>6. s \in NodeState /\ TablesOK(s) /\ Pursued(n, s) /\ ~ IsPeer(s, p)
  BY <1>1, <1>4, NodeFacts DEF Msg2New
<1>7. PICK peer : peer = [link |-> l, our |-> i, their |-> m.sender,
                          session |-> OutboundSession(n, m), epoch |-> m.epoch,
                          msg2 |-> None, pending |-> None, aged |-> FALSE]
  OBVIOUS
<1>8. /\ peer \in ActivePeer /\ peer.link = l /\ peer.our = i /\ peer.pending = None
      /\ peer.msg2 = None
  <2>1. OutboundSession(n, m) \in Session
    BY <1>4, <1>5 DEF OutboundSession, Session
  <2> QED BY <1>5, <1>7, <2>1 DEF ActivePeer
<1>9. PICK conns, pend, peers, byIndex, retry, parted :
        /\ conns = [s.connections EXCEPT ![l] = None]
        /\ pend = [s.pendingOutbound EXCEPT ![i] = None]
        /\ peers = [s.peers EXCEPT ![p] = peer]
        /\ byIndex = [s.peersByIndex EXCEPT ![i] = p]
        /\ retry = [s.retry EXCEPT ![p] = None]
        /\ parted = s.parted \ {p}
  OBVIOUS
<1>10. /\ conns \in [LinkId -> Connection \cup {None}]
       /\ pend \in [Index -> LinkId \cup {None}]
       /\ peers \in [Node -> ActivePeer \cup {None}]
       /\ byIndex \in [Index -> Node \cup {None}]
       /\ retry \in [Node -> RetryState \cup {None}] /\ parted \in SUBSET Node
  BY <1>5, <1>6, <1>8, <1>9, FieldTypes
<1>11. PICK u : u = [s EXCEPT !.connections = conns, !.pendingOutbound = pend]
  OBVIOUS
<1>12. /\ u \in NodeState /\ u.connections = conns /\ u.pendingOutbound = pend
       /\ u.peers = s.peers /\ u.peersByIndex = s.peersByIndex /\ u.retry = s.retry
       /\ u.parted = s.parted /\ u.links = s.links /\ u.allocated = s.allocated
       /\ u.inbound = s.inbound /\ u.starting = s.starting
  BY <1>6, <1>10, <1>11 DEF NodeState
<1>13. PICK t : t = [u EXCEPT !.peers = peers, !.peersByIndex = byIndex, !.retry = retry,
                              !.parted = parted]
  OBVIOUS
<1>14. /\ t \in NodeState /\ t.connections = conns /\ t.pendingOutbound = pend
       /\ t.peers = peers /\ t.peersByIndex = byIndex /\ t.retry = retry
       /\ t.parted = parted /\ t.links = s.links /\ t.allocated = s.allocated
       /\ t.inbound = s.inbound /\ t.starting = s.starting
  BY <1>10, <1>12, <1>13 DEF NodeState
<1>15. node' = [node EXCEPT ![n] = t] /\ Take(m, sent)
  <2> DEFINE L == node[n].pendingOutbound[m.receiver]
             D == [node[n] EXCEPT !.connections[L] = None,
                                  !.pendingOutbound[m.receiver] = None]
             P == [link |-> L, our |-> m.receiver, their |-> m.sender,
                   session |-> OutboundSession(n, m), epoch |-> m.epoch,
                   msg2 |-> None, pending |-> None, aged |-> FALSE]
  <2>1. node' = [node EXCEPT ![n] = Promote(D, m.from, P)] /\ Take(m, {})
    BY Zenon DEF Msg2New
  <2>2. L = l /\ P = peer
    BY <1>1, <1>2, <1>4, <1>7
  <2>3. D = u
    BY <1>1, <1>4, <1>6, <1>9, <1>11, <2>2 DEF NodeState
  <2> HIDE DEF L, D, P
  <2>4. Promote(u, p, peer) = t
    BY <1>8, <1>9, <1>12, <1>13 DEF Promote, NodeState
  <2> QED BY <1>4, <2>1, <2>2, <2>3, <2>4
<1>16. /\ Awaited(s, i) /\ s.pendingOutbound[i] = l /\ s.peersByIndex[i] = None
       /\ i \in s.allocated /\ s.links[l] # None
       /\ \A j \in Index : j # i /\ Awaited(s, j) => s.pendingOutbound[j] # l
       /\ \A q \in Node : IsPeer(s, q) => s.peers[q].link # l
  <2>1. Awaited(s, i) /\ s.pendingOutbound[i] = l
    BY <1>2, <1>3, <1>4, <1>5, NoNumberIsNone DEF Awaited
  <2> QED BY <1>3, <1>5, <1>6, <2>1
          DEF TablesOK, ConnectionsOK, LinksOK, IndicesOK
<1>17. /\ \A j \in Index : j # i => t.pendingOutbound[j] = s.pendingOutbound[j]
       /\ t.pendingOutbound[i] = None
       /\ \A k \in LinkId : k # l => t.connections[k] = s.connections[k]
       /\ t.connections[l] = None
  BY <1>5, <1>6, <1>9, <1>14, FieldTypes
<1>18. \A j \in Index : Awaited(t, j) <=> Awaited(s, j) /\ j # i
  BY <1>6, <1>16, <1>17, FieldTypes DEF Awaited
<1>19. TablesOK(t)
  <2>1. t.allocated = s.allocated \cup {i}
    BY <1>14, <1>16
  <2>2. /\ t.peers = [s.peers EXCEPT ![p] = peer]
        /\ t.peersByIndex = [s.peersByIndex EXCEPT ![peer.our] = p]
        /\ t.allocated = s.allocated \cup {peer.our} /\ s.peersByIndex[peer.our] = None
        /\ \A j \in Index : Awaited(t, j) <=> Awaited(s, j) /\ j # peer.our
        /\ \A q \in Node : IsPeer(s, q) => s.peers[q].link # peer.link
        /\ t.links[peer.link] # None /\ t.connections[peer.link] = None
    BY <1>8, <1>9, <1>14, <1>16, <1>17, <1>18, <2>1
  <2>3. /\ \A k \in LinkId : k # peer.link => /\ t.links[k] = s.links[k]
                                             /\ t.connections[k] = s.connections[k]
        /\ \A j \in Index : j # peer.our => t.pendingOutbound[j] = s.pendingOutbound[j]
        /\ s.pendingOutbound[peer.our] \in {None, peer.link}
        /\ t.inbound = s.inbound
    BY <1>8, <1>14, <1>16, <1>17
  <2>4. Inserted(s, p, peer, t)
    BY <2>2, <2>3 DEF Inserted
  <2> QED BY <1>5, <1>6, <1>8, <2>4, PromotedOK
<1>20. t.peers[p] = peer /\ \A q \in Node : q # p => t.peers[q] = s.peers[q]
  BY <1>5, <1>6, <1>9, <1>14, FieldTypes
<1>21. t.retry[p] = None /\ \A q \in Node : q # p => t.retry[q] = s.retry[q]
  BY <1>5, <1>6, <1>9, <1>14, FieldTypes
<1>22. IsPeer(t, p) /\ \A q \in Node : q # p /\ IsPeer(s, q) => IsPeer(t, q)
  BY <1>8, <1>20, NoneAssumption DEF IsPeer
<1>23. \A q \in Node : q # p /\ IsConnecting(s, q) => IsConnecting(t, q)
  BY <1>3, <1>5, <1>17 DEF IsConnecting
<1>24. Pursued(n, t)
  <2>1. ASSUME NEW q \in AutoConnect[n]
        PROVE  \/ IsPeer(t, q) \/ IsConnecting(t, q) \/ t.retry[q] # None
               \/ q \in t.starting \cup t.parted
    <3>1. q \in Node
      BY ConstantTypes
    <3>2. CASE q = p
      BY <1>22, <3>2
    <3>3. CASE q # p
      BY <1>6, <1>9, <1>14, <1>21, <1>22, <1>23, <3>1, <3>3 DEF Pursued
    <3> QED BY <3>2, <3>3
  <2> QED BY <1>6, <1>21, <2>1 DEF Pursued
<1>25. net' \subseteq net \cup sent /\ faults' \in 0 .. MaxFaults
  BY <1>4, <1>15, NodeFacts, TakeTyped
<1>26. net' \subseteq net
  BY <1>4, <1>25
<1>27. \A k \in LinkId : t.connections[k] # None => t.connections[k] = node[n].connections[k]
  BY <1>1, <1>17
<1>28. \A q \in Node : IsPeer(t, q) => \/ t.peers[q].msg2 = None
                                       \/ /\ IsPeer(node[n], q)
                                          /\ t.peers[q].msg2 = node[n].peers[q].msg2
  BY <1>1, <1>8, <1>20 DEF IsPeer
<1> QED BY <1>14, <1>15, <1>19, <1>24, <1>25, <1>26, <1>27, <1>28, QuietStep

\* The answer of a new peer for which there is no room.
LEMMA Msg2RefusedInv ==
  ASSUME IndInv, NEW n \in Node, NEW m \in net, m.type = "msg2", m.to = n, Msg2New(n, m),
         ~ HasRoom(node[n])
  PROVE  IndInv'
<1>1. PICK s : s = node[n]
  OBVIOUS
<1>2. PICK l : l = s.pendingOutbound[m.receiver]
  OBVIOUS
<1>3. PICK c : c = s.connections[l]
  OBVIOUS
<1>4. PICK p, sent, i : p = m.from /\ sent = {} /\ i = m.receiver
  OBVIOUS
<1>5. /\ i \in Index /\ p \in Node
      /\ l \in LinkId /\ c \in Connection /\ c # None /\ c.our = i /\ c.peer = p
  <2>1. Awaiting(node[n], m.receiver) = "sent"
    BY DEF Msg2New
  <2> QED BY <1>1, <1>2, <1>3, <1>4, <2>1, AwaitedConnection
<1>6. /\ s \in NodeState /\ TablesOK(s) /\ Pursued(n, s)
      /\ s.refused < MaxRefusals
  BY <1>1, NodeFacts DEF Msg2New
<1>7. PICK conns, alloc, parted, leftover :
        /\ conns = [s.connections EXCEPT ![l] = None]
        /\ alloc = s.allocated \ {i}
        /\ parted = s.parted \cup {p}
        /\ leftover = s.leftover \cup {l}
  OBVIOUS
<1>8. /\ conns \in [LinkId -> Connection \cup {None}] /\ alloc \in SUBSET Index
      /\ parted \in SUBSET Node /\ leftover \in SUBSET LinkId
      /\ s.refused + 1 \in 0 .. MaxRefusals
  BY <1>5, <1>6, <1>7, FieldTypes, ConstantTypes
<1>9. PICK t : t = [s EXCEPT !.connections = conns, !.allocated = alloc, !.parted = parted,
                             !.refused = s.refused + 1, !.leftover = leftover]
  OBVIOUS
<1>10. /\ t \in NodeState /\ t.connections = conns /\ t.allocated = alloc
       /\ t.parted = parted /\ t.pendingOutbound = s.pendingOutbound
       /\ t.links = s.links /\ t.peers = s.peers /\ t.peersByIndex = s.peersByIndex
       /\ t.inbound = s.inbound /\ t.retry = s.retry /\ t.starting = s.starting
  BY <1>6, <1>8, <1>9 DEF NodeState
<1>11. node' = [node EXCEPT ![n] = t] /\ Take(m, sent)
  <2> DEFINE L == node[n].pendingOutbound[m.receiver]
  <2>1. /\ node' = [node EXCEPT ![n] =
             [node[n] EXCEPT !.connections[L] = None,
                             !.allocated = @ \ {m.receiver},
                             !.parted = @ \cup {m.from},
                             !.refused = @ + 1,
                             !.leftover = @ \cup {L}]]
        /\ Take(m, {})
    BY Zenon DEF Msg2New
  <2>2. L = l
    BY <1>1, <1>2
  <2> HIDE DEF L
  <2>3. [s EXCEPT !.connections[l] = None, !.allocated = @ \ {i},
                  !.parted = @ \cup {p}, !.refused = @ + 1, !.leftover = @ \cup {l}] = t
    BY <1>6, <1>7, <1>9 DEF NodeState
  <2> QED BY <1>1, <1>4, <2>1, <2>2, <2>3
<1>12. TablesOK(t)
  <2>1. s.connections[l] # None /\ t.allocated = s.allocated \ {s.connections[l].our}
    BY <1>3, <1>5, <1>7, <1>10
  <2> QED BY <1>5, <1>6, <1>7, <1>10, <2>1, RefusedOK
<1>13. /\ \A k \in LinkId : k # l => t.connections[k] = s.connections[k]
       /\ t.connections[l] = None
  BY <1>5, <1>6, <1>7, <1>10, FieldTypes
<1>14. \A q \in Node : q # p /\ IsConnecting(s, q) => IsConnecting(t, q)
  BY <1>3, <1>5, <1>13 DEF IsConnecting
<1>15. Pursued(n, t)
  <2>1. ASSUME NEW q \in AutoConnect[n]
        PROVE  \/ IsPeer(t, q) \/ IsConnecting(t, q) \/ t.retry[q] # None
               \/ q \in t.starting \cup t.parted
    <3>1. q \in Node
      BY ConstantTypes
    <3>2. CASE q = p
      BY <1>7, <1>10, <3>2
    <3>3. CASE q # p
      BY <1>6, <1>7, <1>10, <1>14, <3>1, <3>3 DEF Pursued, IsPeer
    <3> QED BY <3>2, <3>3
  <2> QED BY <1>6, <1>10, <2>1 DEF Pursued
<1>16. net' \subseteq net \cup sent /\ faults' \in 0 .. MaxFaults
  BY <1>4, <1>11, NodeFacts, TakeTyped
<1>17. net' \subseteq net
  BY <1>4, <1>16
<1>18. \A k \in LinkId : t.connections[k] # None => t.connections[k] = node[n].connections[k]
  BY <1>1, <1>13
<1>19. \A q \in Node : IsPeer(t, q) => IsPeer(node[n], q)
                                       /\ t.peers[q].msg2 = node[n].peers[q].msg2
  BY <1>1, <1>10 DEF IsPeer
<1> QED BY <1>10, <1>11, <1>12, <1>15, <1>16, <1>17, <1>18, <1>19, QuietStep

LEMMA HandleMsg2Inv ==
  ASSUME IndInv, NEW n \in Node, NEW m \in net, m.to = n, HandleMsg2(n, m)
  PROVE  IndInv'
BY Msg2StaleInv, Msg2FailedInv, Msg2CrossInv, Msg2PromotedInv, Msg2RefusedInv DEF HandleMsg2

-----------------------------------------------------------------------------
(* The end of a link, and restarts.                                        *)

\* The peer is gone and is not pursued: it said goodbye, or was told to go.
Parted(s, p, b, t) ==
  /\ b = RemoveActivePeer(s, p) /\ t \in NodeState /\ SameTables(b, t)
  /\ t.parted = s.parted \cup {p} /\ t.starting = s.starting
  /\ \A q \in Node : q # p => t.retry[q] = s.retry[q]
  /\ t.retry[p] = None \/ t.retry[p] = s.retry[p]

LEMMA PartedStep ==
  ASSUME IndInv, NEW n \in Node, NEW s, s = node[n], NEW p \in Node, IsPeer(s, p),
         NEW b, NEW t, Parted(s, p, b, t),
         node' = [node EXCEPT ![n] = t], net' \subseteq net, faults' \in 0 .. MaxFaults
  PROVE  IndInv'
<1>0. /\ b = RemoveActivePeer(s, p) /\ t \in NodeState /\ SameTables(b, t)
      /\ t.parted = s.parted \cup {p} /\ t.starting = s.starting
      /\ \A q \in Node : q # p => t.retry[q] = s.retry[q]
      /\ t.retry[p] = None \/ t.retry[p] = s.retry[p]
  BY DEF Parted
<1> USE <1>0
<1>1. s \in NodeState /\ TablesOK(s) /\ Pursued(n, s)
  BY NodeFacts
<1>2. Removed(s, p, b) /\ TablesOK(b)
  BY <1>1, RemoveActivePeerFields, RemoveActivePeerOK
<1>3. TablesOK(t)
  BY <1>2, SameTablesOK
<1>4. t.peers = [s.peers EXCEPT ![p] = None] /\ t.connections = s.connections
  BY <1>2 DEF Removed, SameTables
<1>5. t.peers[p] = None /\ \A q \in Node : q # p => t.peers[q] = s.peers[q]
  BY <1>1, <1>4, FieldTypes
<1>6. Pursued(n, t)
  <2>1. ASSUME NEW q \in AutoConnect[n]
        PROVE  \/ IsPeer(t, q) \/ IsConnecting(t, q) \/ t.retry[q] # None
               \/ q \in t.starting \cup t.parted
    <3>1. q \in Node
      BY ConstantTypes
    <3>2. q # p => (IsPeer(s, q) => IsPeer(t, q)) /\ (IsConnecting(s, q) => IsConnecting(t, q))
      BY <1>4, <1>5, <3>1 DEF IsPeer, IsConnecting
    <3> QED BY <1>1, <3>1, <3>2 DEF Pursued
  <2>2. \A q \in Node : t.retry[q] # None => t.retry[q].reconnect
    BY <1>1 DEF Pursued
  <2> QED BY <2>1, <2>2 DEF Pursued
<1>7. \A q \in Node : IsPeer(t, q) => IsPeer(node[n], q)
                                      /\ t.peers[q].msg2 = node[n].peers[q].msg2
  BY <1>5 DEF IsPeer
<1>8. \A l \in LinkId : t.connections[l] # None => t.connections[l] = node[n].connections[l]
  BY <1>4
<1> QED BY <1>3, <1>6, <1>7, <1>8, QuietStep

LEMMA HandleDisconnectInv ==
  ASSUME IndInv, NEW n \in Node, NEW m \in net, HandleDisconnect(n, m)
  PROVE  IndInv'
<1>1. PICK s, p, sent : s = node[n] /\ p = m.from /\ sent = {}
  OBVIOUS
<1>2. s \in NodeState /\ p \in Node /\ TablesOK(s) /\ Pursued(n, s)
  BY <1>1, NodeFacts, MessageFields
<1>3. Take(m, sent)
  BY <1>1 DEF HandleDisconnect
<1>4. net' \subseteq net \cup sent /\ faults' \in 0 .. MaxFaults
  BY <1>1, <1>3, NodeFacts, TakeTyped
<1>5. net' \subseteq net
  BY <1>1, <1>4
<1>6. CASE IsPeer(s, p) /\ s.peers[p].session = m.session
  <2>1. PICK b : b = RemoveActivePeer(s, p)
    OBVIOUS
  <2>2. Removed(s, p, b)
    BY <1>2, <1>6, <2>1, RemoveActivePeerFields
  <2>3. PICK t : t = [b EXCEPT !.parted = b.parted \cup {p}]
    OBVIOUS
  <2>4. /\ t \in NodeState /\ SameTables(b, t) /\ t.retry = b.retry
        /\ t.starting = b.starting /\ t.parted = b.parted \cup {p}
    <3>1. b \in NodeState /\ b.parted \cup {p} \in SUBSET Node
      BY <1>2, <2>2, FieldTypes DEF Removed
    <3> QED BY <2>3, <3>1 DEF NodeState, SameTables
  <2>5. t.retry = s.retry /\ t.starting = s.starting /\ t.parted = s.parted \cup {p}
    BY <2>2, <2>4 DEF Removed, SameRest
  <2>6. node' = [node EXCEPT ![n] = t]
    <3>1. [b EXCEPT !.parted = @ \cup {p}] = t
      BY <2>3
    <3>2. node' = [node EXCEPT ![n] = [RemoveActivePeer(node[n], m.from)
                                         EXCEPT !.parted = @ \cup {m.from}]]
      <4> DEFINE T == [RemoveActivePeer(node[n], m.from) EXCEPT !.parted = @ \cup {m.from}]
                 C == IsPeer(node[n], m.from) /\ node[n].peers[m.from].session = m.session
      <4>1. node' = [node EXCEPT ![n] = IF C THEN T ELSE node[n]]
        BY Zenon DEF HandleDisconnect
      <4>2. C
        BY <1>1, <1>6
      <4> HIDE DEF C, T
      <4>3. node' = [node EXCEPT ![n] = T]
        BY <4>1, <4>2
      <4> QED BY <4>3 DEF T
    <3> QED BY <1>1, <2>1, <3>1, <3>2, Zenon
  <2>7. Parted(s, p, b, t)
    BY <2>1, <2>4, <2>5 DEF Parted
  <2> QED BY <1>1, <1>2, <1>4, <1>5, <1>6, <2>6, <2>7, PartedStep
<1>7. CASE ~ (IsPeer(s, p) /\ s.peers[p].session = m.session)
  <2>1. node' = [node EXCEPT ![n] = s]
    BY <1>1, <1>7 DEF HandleDisconnect
  <2> QED BY <1>1, <1>2, <1>4, <1>5, <2>1, QuietStep
<1> QED BY <1>6, <1>7

LEMMA ApiDisconnectInv ==
  ASSUME IndInv, NEW n \in Node, NEW p \in Node, ApiDisconnect(n, p)
  PROVE  IndInv'
<1>1. PICK s : s = node[n]
  OBVIOUS
<1>2. /\ s \in NodeState /\ IsPeer(s, p) /\ net' \subseteq net /\ faults' \in 0 .. MaxFaults
  BY <1>1, NodeFacts, FaultTyped DEF ApiDisconnect
<1>3. PICK b : b = RemoveActivePeer(s, p)
  OBVIOUS
<1>4. Removed(s, p, b)
  BY <1>2, <1>3, RemoveActivePeerFields
<1>5. PICK retry, parted : retry = [b.retry EXCEPT ![p] = None] /\ parted = b.parted \cup {p}
  OBVIOUS
<1>6. PICK t : t = [b EXCEPT !.retry = retry, !.parted = parted]
  OBVIOUS
<1>7. b \in NodeState
  BY <1>4 DEF Removed
<1>8. retry \in [Node -> RetryState \cup {None}] /\ parted \in SUBSET Node
  BY <1>5, <1>7, FieldTypes
<1>9. /\ t \in NodeState /\ SameTables(b, t) /\ t.retry = retry /\ t.starting = b.starting
      /\ t.parted = parted
  BY <1>6, <1>7, <1>8 DEF NodeState, SameTables
<1>10. /\ \A q \in Node : q # p => t.retry[q] = s.retry[q]
       /\ t.retry[p] = None
       /\ t.starting = s.starting /\ t.parted = s.parted \cup {p}
  <2>1. b.retry = s.retry /\ b.starting = s.starting /\ b.parted = s.parted
    BY <1>4 DEF Removed, SameRest
  <2> QED BY <1>2, <1>5, <1>9, <2>1, FieldTypes
<1>11. node' = [node EXCEPT ![n] = t]
  <2>1. node' = [node EXCEPT ![n] = [b EXCEPT !.retry[p] = None, !.parted = @ \cup {p}]]
    <3>1. node' = [node EXCEPT ![n] = [RemoveActivePeer(node[n], p)
                                         EXCEPT !.retry[p] = None, !.parted = @ \cup {p}]]
      BY Zenon DEF ApiDisconnect
    <3> QED BY <1>1, <1>3, <3>1, Zenon
  <2>2. [b EXCEPT !.retry[p] = None, !.parted = @ \cup {p}] = t
    BY <1>5, <1>6, <1>7 DEF NodeState
  <2> QED BY <2>1, <2>2
<1>12. Parted(s, p, b, t)
  BY <1>3, <1>9, <1>10 DEF Parted
<1> QED BY <1>1, <1>2, <1>11, <1>12, PartedStep

LEMMA LinkDeadInv ==
  ASSUME IndInv, NEW n \in Node, NEW p \in Node, LinkDead(n, p)
  PROVE  IndInv'
<1>1. PICK s, b, k : s = node[n] /\ b = Without(s, p) /\ k = Cleared(n, s, p)
  OBVIOUS
<1>2. /\ s \in NodeState /\ TablesOK(s) /\ Pursued(n, s) /\ IsPeer(s, p)
      /\ SameButLimiter(s, s) /\ SameRest(s, s)
  BY <1>1, NodeFacts DEF LinkDead, SameButLimiter, SameRest
<1>3. /\ TablesOK(b) /\ ~ IsPeer(b, p) /\ \A q \in Node : q # p => b.peers[q] = s.peers[q]
      /\ b.connections = s.connections /\ b.inbound = s.inbound
  BY <1>1, <1>2, WithoutFields
<1>4. k \in NodeState /\ k.inbound = s.inbound /\ SameButLimiter(b, k)
  BY <1>1, <1>2, ClearedFields
<1>5. node' = [node EXCEPT ![n] = k] /\ net' = net
  BY <1>1, <1>2 DEF LinkDead, Cleared
<1>6. faults' \in 0 .. MaxFaults
  <2>1. PICK f \in BOOLEAN : f = Matched(n, p)
    BY DEF Matched
  <2> QED BY <2>1, NodeFacts, SpendTyped DEF LinkDead
<1>7. TablesOK(k)
  BY <1>3, <1>4, SameTablesOK DEF SameTables, SameButLimiter
<1>8. Pursued(n, k)
  BY <1>1, <1>2, ClearedPursued
<1>9. \A l \in LinkId : k.connections[l] # None => k.connections[l] = node[n].connections[l]
  BY <1>1, <1>3, <1>4 DEF SameButLimiter
<1>10. \A q \in Node : IsPeer(k, q) => IsPeer(node[n], q)
                                       /\ k.peers[q].msg2 = node[n].peers[q].msg2
  BY <1>1, <1>3, <1>4 DEF IsPeer, SameButLimiter
<1> QED BY <1>4, <1>5, <1>6, <1>7, <1>8, <1>9, <1>10, QuietStep

LEMMA AgeInv ==
  ASSUME IndInv, NEW n \in Node, NEW p \in Node, Age(n, p)
  PROVE  IndInv'
<1>1. PICK s : s = node[n]
  OBVIOUS
<1>2. PICK peer : peer = [s.peers[p] EXCEPT !.aged = TRUE]
  OBVIOUS
<1>3. PICK peers : peers = [s.peers EXCEPT ![p] = peer]
  OBVIOUS
<1>4. PICK t : t = [s EXCEPT !.peers = peers]
  OBVIOUS
<1>5. /\ s \in NodeState /\ TablesOK(s) /\ Pursued(n, s) /\ IsPeer(s, p)
      /\ s.peers[p] \in ActivePeer
  <2>1. s \in NodeState /\ TablesOK(s) /\ Pursued(n, s) /\ IsPeer(s, p)
    BY <1>1, NodeFacts DEF Age, Matched
  <2> QED BY <2>1, PeerTypes
<1>6. /\ peer \in ActivePeer /\ peer.link = s.peers[p].link /\ peer.our = s.peers[p].our
      /\ peer.pending = s.peers[p].pending /\ peer.msg2 = s.peers[p].msg2
  BY <1>2, <1>5 DEF ActivePeer
<1>7. peers \in [Node -> ActivePeer \cup {None}]
  BY <1>3, <1>5, <1>6, FieldTypes
<1>8. /\ t \in NodeState /\ t.peers = peers
      /\ t.connections = s.connections /\ t.links = s.links
      /\ t.pendingOutbound = s.pendingOutbound /\ t.allocated = s.allocated
      /\ t.peersByIndex = s.peersByIndex /\ t.inbound = s.inbound
      /\ t.retry = s.retry /\ t.starting = s.starting /\ t.parted = s.parted
  BY <1>4, <1>5, <1>7 DEF NodeState
<1>9. node' = [node EXCEPT ![n] = t] /\ net' = net /\ faults' = faults
  <2>1. /\ node' = [node EXCEPT ![n].peers[p].aged = TRUE]
        /\ net' = net /\ faults' = faults
    BY DEF Age
  <2>2. [s EXCEPT !.peers[p].aged = TRUE] = t
    BY <1>2, <1>3, <1>4, <1>5 DEF NodeState
  <2> QED BY <1>1, <2>1, <2>2
<1>10. TablesOK(t)
  BY <1>3, <1>5, <1>6, <1>8, SamePeerOK
<1>11. t.peers[p] = peer /\ \A q \in Node : q # p => t.peers[q] = s.peers[q]
  BY <1>3, <1>5, <1>8, FieldTypes
<1>12. \A q \in Node : IsPeer(t, q) <=> IsPeer(s, q)
  BY <1>5, <1>6, <1>11, NoneAssumption DEF IsPeer
<1>13. \A q \in Node : IsConnecting(t, q) <=> IsConnecting(s, q)
  BY <1>8 DEF IsConnecting
<1>14. Pursued(n, t)
  BY <1>5, <1>8, <1>12, <1>13, ConstantTypes DEF Pursued
<1>15. \A q \in Node : IsPeer(t, q) => IsPeer(node[n], q)
                                       /\ t.peers[q].msg2 = node[n].peers[q].msg2
  BY <1>1, <1>6, <1>11, <1>12
<1>16. \A l \in LinkId : t.connections[l] # None => t.connections[l] = node[n].connections[l]
  BY <1>1, <1>8
<1> QED BY <1>8, <1>9, <1>10, <1>14, <1>15, <1>16, NodeFacts, QuietStep

\* A node that starts has empty tables, and tries every configured peer.
LEMMA FreshOK ==
  ASSUME NEW n \in Node, NEW e \in Epoch, NEW t, t = Fresh(n, e)
  PROVE  /\ t \in NodeState /\ TablesOK(t) /\ Pursued(n, t)
         /\ \A l \in LinkId : t.connections[l] = None
         /\ \A p \in Node : ~ IsPeer(t, p)
<1>1. t \in NodeState
  BY ConstantTypes DEF Fresh, NodeState
<1>2. /\ \A l \in LinkId : t.connections[l] = None /\ t.links[l] = None
      /\ \A i \in Index : t.pendingOutbound[i] = None /\ t.peersByIndex[i] = None
      /\ \A p \in Node : t.peers[p] = None /\ t.retry[p] = None
      /\ t.allocated = {} /\ t.inbound = 0 /\ t.starting = AutoConnect[n]
  BY DEF Fresh
<1>3. TablesOK(t)
  BY <1>2, NoNumberIsNone DEF TablesOK, ConnectionsOK, LinksOK, IndicesOK, Awaited, IsPeer
<1>4. Pursued(n, t)
  BY <1>2 DEF Pursued
<1> QED BY <1>1, <1>2, <1>3, <1>4 DEF IsPeer

LEMMA RestartInv ==
  ASSUME IndInv, NEW n \in Node, NEW orderly \in BOOLEAN, Restart(n, orderly)
  PROVE  IndInv'
<1>1. PICK s, e, t : s = node[n] /\ e = faults' /\ t = Fresh(n, e)
  OBVIOUS
<1>2. faults' \in 0 .. MaxFaults /\ s \in NodeState
  BY <1>1, NodeFacts, FaultTyped DEF Restart
<1>3. /\ t \in NodeState /\ TablesOK(t) /\ Pursued(n, t)
      /\ \A l \in LinkId : t.connections[l] = None
      /\ \A p \in Node : ~ IsPeer(t, p)
  <2>1. e \in Epoch
    BY <1>1, <1>2 DEF Epoch
  <2> QED BY <1>1, <2>1, FreshOK
<1>4. node' = [node EXCEPT ![n] = t]
  BY <1>1 DEF Restart
<1>5. Tame(n, t)
  BY <1>3 DEF Tame
<1>6. ASSUME NEW p \in Node, IsPeer(s, p),
             NEW a, a = [type |-> "disconnect", from |-> n, to |-> p,
                         session |-> s.peers[p].session]
      PROVE  a \in Message /\ MessageOK(a)'
  <2>1. s.peers[p] \in ActivePeer
    BY <1>2, <1>6, PeerTypes
  <2>2. s.peers[p].session \in Session
    BY <2>1 DEF ActivePeer
  <2>3. a \in Disconnect /\ a.type = "disconnect"
    BY <1>6, <2>2 DEF Disconnect
  <2> QED BY <2>3 DEF Message, MessageOK
<1>7. \A a \in net' : a \in net \/ (a \in Message /\ MessageOK(a)')
  <2>1. ASSUME NEW a \in net', a \notin net
        PROVE  a \in Message /\ MessageOK(a)'
    <3>1. PICK p \in {q \in Node : IsPeer(node[n], q)} :
            a = [type |-> "disconnect", from |-> n, to |-> p,
                 session |-> node[n].peers[p].session]
      BY <2>1 DEF Restart
    <3> QED BY <1>1, <1>6, <3>1
  <2> QED BY <2>1
<1>8. net' \subseteq Message
  BY <1>7, NodeFacts
<1> QED BY <1>2, <1>3, <1>4, <1>5, <1>7, <1>8, OneNodeStep

\* The number of guests is not in the tables.
LEMMA GuestsStep ==
  ASSUME IndInv, NEW n \in Node, NEW g \in 0 .. MaxPeers,
         node' = [node EXCEPT ![n].guests = g], net' = net, faults' \in 0 .. MaxFaults
  PROVE  IndInv'
<1>1. PICK s, t : s = node[n] /\ t = [s EXCEPT !.guests = g]
  OBVIOUS
<1>2. s \in NodeState /\ TablesOK(s) /\ Pursued(n, s)
  BY <1>1, NodeFacts
<1>3. /\ t \in NodeState /\ SameTables(s, t) /\ t.retry = s.retry
      /\ t.starting = s.starting /\ t.parted = s.parted
  BY <1>1, <1>2 DEF NodeState, SameTables
<1>4. node' = [node EXCEPT ![n] = t]
  BY <1>1
<1>5. TablesOK(t)
  BY <1>2, <1>3, SameTablesOK
<1>6. Pursued(n, t)
  BY <1>2, <1>3 DEF Pursued, SameTables, IsPeer, IsConnecting
<1>7. \A l \in LinkId : t.connections[l] # None => t.connections[l] = node[n].connections[l]
  BY <1>1, <1>3 DEF SameTables
<1>8. \A q \in Node : IsPeer(t, q) => IsPeer(node[n], q)
                                      /\ t.peers[q].msg2 = node[n].peers[q].msg2
  BY <1>1, <1>3 DEF SameTables, IsPeer
<1> QED BY <1>3, <1>4, <1>5, <1>6, <1>7, <1>8, QuietStep

LEMMA GuestsInv ==
  ASSUME IndInv, NEW n \in Node, GuestsJoin(n) \/ GuestsLeave(n)
  PROVE  IndInv'
<1>1. CASE GuestsJoin(n)
  <2>1. PICK P, k : P = {p \in Node : IsPeer(node[n], p)} /\ k = Cardinality(P)
    OBVIOUS
  <2>2. k \in Nat
    BY <2>1, SetAssumption, FS_Subset, FS_CardinalityType
  <2>3. k + node[n].guests < MaxPeers /\ node[n].guests \in 0 .. MaxPeers
    BY <1>1, <2>1, NodeFacts, FieldTypes DEF GuestsJoin, HasRoom
  <2>4. MaxPeers - k \in 0 .. MaxPeers
    BY <2>2, <2>3, ConstantTypes
  <2>5. node' = [node EXCEPT ![n].guests = MaxPeers - k] /\ net' = net
    BY <1>1, <2>1 DEF GuestsJoin
  <2>6. faults' \in 0 .. MaxFaults
    BY <1>1, NodeFacts, FaultTyped DEF GuestsJoin
  <2> QED BY <2>4, <2>5, <2>6, GuestsStep
<1>2. CASE GuestsLeave(n)
  <2>1. /\ node' = [node EXCEPT ![n].guests = 0] /\ net' = net /\ faults' \in 0 .. MaxFaults
    BY <1>2, NodeFacts DEF GuestsLeave
  <2>2. 0 \in 0 .. MaxPeers
    BY ConstantTypes
  <2> QED BY <2>1, <2>2, GuestsStep
<1> QED BY <1>1, <1>2

LEMMA LoseInv ==
  ASSUME IndInv, Lose
  PROVE  IndInv'
<1>1. PICK m \in net : net' = net \ {m} /\ node' = node /\ faults' = faults + 1
                       /\ faults < MaxFaults
  BY DEF Lose
<1>2. PICK n \in Node : n = m.to
  BY <1>1, MessageFields DEF IndInv, TypeOK
<1>3. PICK t : t = node[n]
  OBVIOUS
<1>4. faults' \in 0 .. MaxFaults
  BY <1>1, FaultTyped DEF IndInv
<1>5. node' = [node EXCEPT ![n] = t] /\ net' \subseteq net
  BY <1>1, <1>3, NodeFacts
<1> QED BY <1>3, <1>4, <1>5, NodeFacts, QuietStep

-----------------------------------------------------------------------------
(* The theorems.                                                           *)

LEMMA InitInv == Init => IndInv
<1> SUFFICES ASSUME Init PROVE IndInv
  OBVIOUS
<1>1. 0 \in Epoch /\ faults \in 0 .. MaxFaults /\ net = {}
  BY ConstantTypes DEF Init, Epoch
<1>2. \A n \in Node : node[n] = Fresh(n, 0)
  BY DEF Init
<1>3. ASSUME NEW n \in Node, NEW s, s = node[n]
      PROVE  /\ s \in NodeState /\ TablesOK(s) /\ Pursued(n, s)
             /\ \A p \in Node : ~ IsPeer(s, p)
  BY <1>1, <1>2, <1>3, FreshOK
<1>4. node \in [Node -> NodeState]
  BY <1>3 DEF Init
<1>5. \A n, p \in Node : StoredOK(n, p)
  BY <1>3 DEF StoredOK
<1> QED BY <1>1, <1>3, <1>4, <1>5 DEF IndInv, TypeOK

LEMMA NextInv ==
  ASSUME IndInv, [Next]_vars
  PROVE  IndInv'
<1>1. CASE Next
  <2>1. ASSUME NEW n \in Node, Receive(n) PROVE IndInv'
    <3>1. PICK m \in net : /\ m.to = n
                           /\ HandleMsg1(n, m) \/ HandleMsg2(n, m) \/ HandleDisconnect(n, m)
      BY <2>1 DEF Receive
    <3> QED BY <3>1, HandleMsg1Inv, HandleMsg2Inv, HandleDisconnectInv
  <2>2. ASSUME NEW n \in Node, Tick(n) PROVE IndInv'
    BY <2>2, StartInv, ProcessRetryInv, ResendInv, CheckTimeoutInv DEF Tick
  <2>3. ASSUME NEW n \in Node, NEW p \in Node,
               LinkDead(n, p) \/ Age(n, p) \/ ApiConnect(n, p) \/ ApiDisconnect(n, p)
        PROVE  IndInv'
    BY <2>3, LinkDeadInv, AgeInv, ApiConnectInv, ApiDisconnectInv
  <2>4. ASSUME NEW n \in Node, NEW orderly \in BOOLEAN, Restart(n, orderly) PROVE IndInv'
    BY <2>4, RestartInv
  <2>5. ASSUME NEW n \in Node, GuestsJoin(n) \/ GuestsLeave(n) PROVE IndInv'
    BY <2>5, GuestsInv
  <2> QED BY <1>1, <2>1, <2>2, <2>3, <2>4, <2>5, LoseInv DEF Next
<1>2. CASE UNCHANGED vars
  <2>1. node' = node /\ net' = net /\ faults' = faults
    BY <1>2 DEF vars
  <2>2. CASE Node = {}
    <3>1. TypeOK'
      BY <2>1 DEF IndInv, TypeOK
    <3>2. \A m \in net : m.from \in Node
      BY MessageFields DEF IndInv, TypeOK
    <3> QED BY <2>1, <2>2, <3>1, <3>2 DEF IndInv
  <2>3. CASE Node # {}
    <3>1. PICK n \in Node : TRUE
      BY <2>3
    <3>2. PICK t : t = node[n]
      OBVIOUS
    <3>3. node' = [node EXCEPT ![n] = t] /\ net' \subseteq net /\ faults' \in 0 .. MaxFaults
      BY <2>1, <3>2, NodeFacts
    <3> QED BY <3>2, <3>3, NodeFacts, QuietStep
  <2> QED BY <2>2, <2>3
<1> QED BY <1>1, <1>2

LEMMA Inductive == Spec => []IndInv
<1>1. Init => IndInv
  BY InitInv
<1>2. IndInv /\ [Next]_vars => IndInv'
  BY NextInv
<1> QED BY <1>1, <1>2, PTL DEF Spec

\* The tables of every node keep their types through every handshake, crossing,
\* timeout, restart and disconnect (promote_connection, remove_active_peer,
\* check_timeouts), for any number of nodes, links and indices.
THEOREM TypeCorrect == Spec => []TypeOK
<1>1. IndInv => TypeOK
  BY DEF IndInv
<1> QED BY <1>1, Inductive, PTL

\* In tables in order the allocated indices are those of the connections and peers.
LEMMA AllocatedAreHeld ==
  ASSUME NEW s \in NodeState, TablesOK(s)
  PROVE  s.allocated = {s.connections[l].our : l \in Connections(s)}
                         \cup UNION {PeerIndices(s.peers[p]) : p \in Peers(s)}
<1> USE NoneAssumption, NoNumberIsNone, FieldTypes
<1> DEFINE H == {s.connections[l].our : l \in Connections(s)}
           P == UNION {PeerIndices(s.peers[p]) : p \in Peers(s)}
<1>1. ASSUME NEW i \in s.allocated PROVE i \in H \/ i \in P
  <2>1. i \in Index /\ (s.peersByIndex[i] # None \/ Awaited(s, i))
    BY DEF TablesOK, IndicesOK
  <2>2. CASE s.peersByIndex[i] # None
    <3>1. PICK p \in Node : p = s.peersByIndex[i]
      BY <2>1, <2>2
    <3>2. IsPeer(s, p) /\ i \in PeerIndices(s.peers[p])
      BY <2>1, <3>1 DEF TablesOK, IndicesOK
    <3> QED BY <3>2 DEF Peers
  <2>3. CASE Awaited(s, i)
    <3>1. PICK l \in LinkId : l = s.pendingOutbound[i]
      BY <2>1, <2>3 DEF Awaited
    <3>2. l \in Connections(s) /\ s.connections[l].our = i
      BY <2>1, <2>3, <3>1 DEF Awaited, Connections, TablesOK, ConnectionsOK
    <3> QED BY <3>2
  <2> QED BY <2>1, <2>2, <2>3
<1>2. ASSUME NEW l \in Connections(s) PROVE s.connections[l].our \in s.allocated
  <2>1. l \in LinkId /\ s.connections[l] # None
    BY DEF Connections
  <2>2. s.connections[l].our \in Index /\ s.pendingOutbound[s.connections[l].our] = l
    BY <2>1, ConnectionTypes DEF TablesOK, ConnectionsOK
  <2>3. Awaited(s, s.connections[l].our)
    BY <2>1, <2>2 DEF Awaited
  <2> QED BY <2>2, <2>3 DEF TablesOK, IndicesOK
<1>3. ASSUME NEW p \in Peers(s), NEW i \in PeerIndices(s.peers[p]) PROVE i \in s.allocated
  <2>1. p \in Node /\ IsPeer(s, p)
    BY DEF Peers
  <2>2. i \in Index
    BY <2>1, PeerTypes
  <2>3. s.peersByIndex[i] = p
    BY <2>1, <2>2 DEF TablesOK, IndicesOK
  <2> QED BY <2>1, <2>2, <2>3 DEF TablesOK, IndicesOK
<1> QED BY <1>1, <1>2, <1>3

\* No way through the handlers leaks a session index, frees one that is in use,
\* leaves peers_by_index pointing at a peer that went or the msg1 limiter charged:
\* what handle_msg1, handle_msg2, check_timeouts, remove_active_peer and
\* promote_connection add to the tables and take from them always balances.
THEOREM IndicesAccounted == Spec => []IndexAccounting
<1>1. ASSUME IndInv PROVE IndexAccounting
  <2>1. ASSUME NEW n \in Node, NEW s, s = node[n]
        PROVE  /\ s.allocated = {s.connections[l].our : l \in Connections(s)}
                                  \cup UNION {PeerIndices(s.peers[p]) : p \in Peers(s)}
               /\ \A i \in Index, p \in Node :
                    s.peersByIndex[i] = p <=> IsPeer(s, p) /\ i \in PeerIndices(s.peers[p])
               /\ \A l \in Connections(s) :
                    /\ s.pendingOutbound[s.connections[l].our] = l
                    /\ s.peersByIndex[s.connections[l].our] = None
               /\ s.inbound = 0
    <3>1. s \in NodeState /\ TablesOK(s)
      BY <1>1, <2>1, NodeFacts
    <3>2. ASSUME NEW l \in Connections(s)
          PROVE  /\ s.pendingOutbound[s.connections[l].our] = l
                 /\ s.peersByIndex[s.connections[l].our] = None
      <4>1. l \in LinkId /\ s.connections[l] # None
        BY DEF Connections
      <4>2. s.connections[l].our \in Index /\ s.pendingOutbound[s.connections[l].our] = l
        BY <3>1, <4>1, ConnectionTypes DEF TablesOK, ConnectionsOK
      <4>3. Awaited(s, s.connections[l].our)
        BY <4>1, <4>2, NoNumberIsNone DEF Awaited
      <4> QED BY <3>1, <4>2, <4>3 DEF TablesOK, ConnectionsOK
    <3> QED BY <3>1, <3>2, AllocatedAreHeld DEF TablesOK, IndicesOK
  <2> QED BY <2>1 DEF IndexAccounting
<1> QED BY <1>1, Inductive, PTL

\* No failed, refused, crossed or timed out handshake and no end of a link makes a
\* node forget a peer it is configured to connect to: schedule_retry and
\* schedule_reconnect put an entry in retry_pending wherever nothing else pursues it.
THEOREM WantedPeersArePursued == Spec => []WantedPeerIsPursued
<1>1. IndInv => WantedPeerIsPursued
  BY DEF IndInv, Pursued, WantedPeerIsPursued
<1> QED BY <1>1, Inductive, PTL

-----------------------------------------------------------------------------
(* Undisturbed, the two ends of a link agree: what they hold of each other *)
(* and what is on the way between them always fits together.               *)

\* The indices s waits for from p: those of its connections to p.
Calls(s, p) ==
  {s.connections[l].our : l \in {k \in LinkId : /\ s.connections[k] # None
                                                /\ s.connections[k].peer = p}}

\* A node nothing went wrong at: its first process, no retry, one connection to a
\* peer at most, and none to itself.
Untroubled(n, s) ==
  /\ s.epoch = 0 /\ n \notin s.starting
  /\ \A p \in Node : s.retry[p] = None
  /\ \A l \in LinkId : s.connections[l] # None => /\ s.connections[l].state = "sent"
                                                  /\ s.connections[l].peer # n
  /\ \A k, l \in LinkId : /\ s.connections[k] # None /\ s.connections[l] # None
                          /\ s.connections[k].peer = s.connections[l].peer
                          => k = l
  /\ \A p \in Node : IsPeer(s, p) =>
       /\ p # n /\ s.peers[p].epoch = 0
       /\ LET m == s.peers[p].msg2
          IN  m # None => m.type = "msg2" /\ m.from = n /\ m.to = p /\ m.epoch = 0

UntroubledMessage(m) == m.type # "disconnect" /\ m.epoch = 0 /\ m.from # m.to

\* The session of the handshake that msg2 m ends.
SessionOf(m) == [init |-> m.to, resp |-> m.from, ii |-> m.receiver, ri |-> m.sender]

\* What x, in state s, waits for from y, in state t: a msg1 is that of a connection
\* or was answered, a msg2 is the one y stored, and a connection has one of them on
\* the way, unless y took an answer of x meanwhile.
Call(x, y, s, t, sent) ==
  /\ \A m \in sent : m.type = "msg1" /\ m.from = x /\ m.to = y
                       => m.sender \in Calls(s, y) \/ IsPeer(t, x)
  /\ \A m \in sent : m.type = "msg2" /\ m.from = y /\ m.to = x
                       => IsPeer(t, x) /\ t.peers[x].msg2 = m
  /\ Calls(s, y) # {} /\ ~ IsPeer(t, x)
       => \E m \in sent : m.type = "msg1" /\ m.from = x /\ m.to = y
  /\ Calls(s, y) # {} /\ IsPeer(t, x) /\ t.peers[x].msg2 # None
       => t.peers[x].msg2 \in sent /\ t.peers[x].msg2.receiver \in Calls(s, y)

\* y answered x, and x took the answer.
Answered(x, y, s, t) == IsPeer(t, x) /\ t.peers[x].msg2 # None /\ Calls(s, y) = {}

\* Which handshake the session is of that x holds with y: when each answered the
\* other, that of its own msg1 if x is the smaller one and has the answer.
Seat(x, y, s, t, sent) ==
  LET peer == s.peers[y]
  IN  IsPeer(s, y) =>
        /\ peer.msg2 = None =>
             Answered(x, y, s, t) /\ peer.session = SessionOf(t.peers[x].msg2)
        /\ peer.msg2 # None =>
             /\ Calls(t, x) # {} \/ IsPeer(t, x)
             /\ peer.session = SessionOf(IF Answered(x, y, s, t) /\ x < y
                                         THEN t.peers[x].msg2 ELSE peer.msg2)
        /\ peer.aged =>
             /\ IsPeer(t, x) /\ Calls(t, x) = {}
             /\ \A m \in sent : ~ (m.type = "msg1" /\ m.from = y /\ m.to = x)

Half(x, y, s, t, sent) == Call(x, y, s, t, sent) /\ Seat(x, y, s, t, sent)

Paired ==
  /\ \A n \in Node : Untroubled(n, node[n])
  /\ \A m \in net : UntroubledMessage(m)
  /\ \A x, y \in Node : x # y => Half(x, y, node[x], node[y], net)

\* The same connections to p at x, the same entry of p.
SameTo(s, t, p) == Calls(t, p) = Calls(s, p) /\ t.peers[p] = s.peers[p]

Between(m, x, y) == (m.from = x /\ m.to = y) \/ (m.from = y /\ m.to = x)

\* What the stored answer of t to x says.
Addressed(x, y, t) ==
  IsPeer(t, x) /\ t.peers[x].msg2 # None =>
    /\ t.peers[x].msg2.type = "msg2"
    /\ t.peers[x].msg2.from = y /\ t.peers[x].msg2.to = x

\* Nothing of what x and y have to do with each other changed.
LEMMA HalfKept ==
  ASSUME NEW x, NEW y, NEW s, NEW t, NEW sent, NEW u, NEW v, NEW left,
         Half(x, y, s, t, sent), SameTo(s, u, y), SameTo(t, v, x), Addressed(x, y, t),
         \A m \in sent : Between(m, x, y) => m \in left,
         \A m \in left : Between(m, x, y) => m \in sent
  PROVE  Half(x, y, u, v, left)
<1>1. (IsPeer(u, y) <=> IsPeer(s, y)) /\ (IsPeer(v, x) <=> IsPeer(t, x))
  BY DEF SameTo, IsPeer
<1>2. Call(x, y, u, v, left)
  BY <1>1 DEF Half, Call, SameTo, Between, Addressed
<1>3. Answered(x, y, u, v) <=> Answered(x, y, s, t)
  BY <1>1 DEF Answered, SameTo
<1>4. \A m \in left : m.type = "msg1" /\ m.from = y /\ m.to = x => m \in sent
  BY DEF Between
<1>5. Seat(x, y, u, v, left)
  BY <1>1, <1>3, <1>4 DEF Half, Seat, SameTo
<1> QED BY <1>2, <1>5 DEF Half

\* A step of n that concerns p alone.
LEMMA PairStep ==
  ASSUME IndInv, Paired, NEW n \in Node, NEW t, node' = [node EXCEPT ![n] = t],
         Untroubled(n, t), \A m \in net' : m \in net \/ UntroubledMessage(m),
         NEW p \in Node, p # n, \A q \in Node : q # p => SameTo(node[n], t, q),
         \A m \in net : m \in net' \/ Between(m, n, p),
         \A m \in net' : m \in net \/ Between(m, n, p),
         Half(n, p, t, node[p], net'), Half(p, n, node[p], t, net')
  PROVE  Paired'
<1>1. node'[n] = t /\ \A k \in Node : k # n => node'[k] = node[k]
  BY DEF IndInv, TypeOK
<1>2. ASSUME NEW x \in Node, NEW y \in Node, x # y, NEW u, NEW v, u = node'[x], v = node'[y]
      PROVE  Half(x, y, u, v, net')
  <2>1. CASE x = n /\ y = p
    BY <1>1, <1>2, <2>1
  <2>2. CASE x = p /\ y = n
    BY <1>1, <1>2, <2>2
  <2>3. CASE ~ (x = n /\ y = p) /\ ~ (x = p /\ y = n)
    <3>1. Half(x, y, node[x], node[y], net)
      BY <1>2 DEF Paired
    <3>2. Untroubled(y, node[y])
      BY DEF Paired
    <3>3. Addressed(x, y, node[y])
      BY <3>2 DEF Untroubled, Addressed
    <3>4. SameTo(node[x], u, y)
      <4>1. CASE x = n
        BY <1>1, <1>2, <2>3, <4>1
      <4>2. CASE x # n
        BY <1>1, <1>2, <4>2 DEF SameTo
      <4> QED BY <4>1, <4>2
    <3>5. SameTo(node[y], v, x)
      <4>1. CASE y = n
        BY <1>1, <1>2, <2>3, <4>1
      <4>2. CASE y # n
        BY <1>1, <1>2, <4>2 DEF SameTo
      <4> QED BY <4>1, <4>2
    <3>6. \A m : Between(m, x, y) => ~ Between(m, n, p)
      BY <1>2, <2>3 DEF Between
    <3>7. /\ \A m \in net : Between(m, x, y) => m \in net'
          /\ \A m \in net' : Between(m, x, y) => m \in net
      BY <3>6
    <3> QED BY <3>1, <3>3, <3>4, <3>5, <3>7, HalfKept
  <2> QED BY <2>1, <2>2, <2>3
<1>3. \A x, y \in Node : x # y => Half(x, y, node'[x], node'[y], net')
  BY <1>2
<1>4. \A k \in Node : Untroubled(k, node'[k])
  BY <1>1 DEF Paired
<1>5. \A m \in net' : UntroubledMessage(m)
  BY DEF Paired
<1> QED BY <1>3, <1>4, <1>5 DEF Paired

LEMMA CallsFacts ==
  ASSUME NEW s, NEW p
  PROVE  /\ \A i : i \in Calls(s, p) <=> \E l \in LinkId : /\ s.connections[l] # None
                                                           /\ s.connections[l].peer = p
                                                           /\ s.connections[l].our = i
         /\ IsConnecting(s, p) <=> Calls(s, p) # {}
BY DEF Calls, IsConnecting

LEMMA SameMembers ==
  ASSUME NEW S, NEW T, \A i : i \in S <=> i \in T
  PROVE  S = T
OBVIOUS

LEMMA CallsSame ==
  ASSUME NEW s, NEW t, t.connections = s.connections, NEW p
  PROVE  Calls(t, p) = Calls(s, p)
BY DEF Calls

\* A connection is made where there was none.
LEMMA CallsMade ==
  ASSUME NEW s \in NodeState, NEW t, NEW l \in LinkId, NEW c, c # None,
         s.connections[l] = None, t.connections = [s.connections EXCEPT ![l] = c]
  PROVE  /\ Calls(t, c.peer) = Calls(s, c.peer) \cup {c.our}
         /\ \A q \in Node : q # c.peer => Calls(t, q) = Calls(s, q)
<1>1. t.connections[l] = c /\ \A k \in LinkId : k # l => t.connections[k] = s.connections[k]
  BY FieldTypes
<1>2. ASSUME NEW q, NEW i
      PROVE  i \in Calls(t, q) <=> i \in Calls(s, q) \/ (q = c.peer /\ i = c.our)
  <2>1. i \in Calls(t, q) => i \in Calls(s, q) \/ (q = c.peer /\ i = c.our)
    BY <1>1 DEF Calls
  <2>2. i \in Calls(s, q) => i \in Calls(t, q)
    BY <1>1 DEF Calls
  <2>3. q = c.peer /\ i = c.our => i \in Calls(t, q)
    BY <1>1 DEF Calls
  <2> QED BY <2>1, <2>2, <2>3
<1>3. Calls(t, c.peer) = Calls(s, c.peer) \cup {c.our}
  BY <1>2, SameMembers
<1>4. ASSUME NEW q, q # c.peer PROVE Calls(t, q) = Calls(s, q)
  <2>1. \A i : i \in Calls(t, q) <=> i \in Calls(s, q)
    BY <1>2, <1>4
  <2> QED BY <2>1, SameMembers
<1> QED BY <1>3, <1>4

\* The connection to a peer is dropped, the only one to it.
LEMMA CallsEnded ==
  ASSUME NEW n, NEW s \in NodeState, Untroubled(n, s), NEW t, NEW l \in LinkId,
         s.connections[l] # None, t.connections = [s.connections EXCEPT ![l] = None]
  PROVE  /\ Calls(t, s.connections[l].peer) = {}
         /\ \A q \in Node : q # s.connections[l].peer => Calls(t, q) = Calls(s, q)
<1>1. t.connections[l] = None /\ \A k \in LinkId : k # l => t.connections[k] = s.connections[k]
  BY FieldTypes
<1>2. \A k \in LinkId : s.connections[k] # None /\ s.connections[k].peer = s.connections[l].peer
                          => k = l
  BY DEF Untroubled
<1>3. ASSUME NEW i PROVE i \notin Calls(t, s.connections[l].peer)
  BY <1>1, <1>2 DEF Calls
<1>4. ASSUME NEW q \in Node, q # s.connections[l].peer
      PROVE  Calls(t, q) = Calls(s, q)
  <2>1. ASSUME NEW i PROVE i \in Calls(t, q) => i \in Calls(s, q)
    BY <1>1 DEF Calls
  <2>2. ASSUME NEW i PROVE i \in Calls(s, q) => i \in Calls(t, q)
    BY <1>1, <1>4 DEF Calls
  <2> QED BY <2>1, <2>2, SameMembers
<1> QED BY <1>3, <1>4

\* A connection is replaced by one to the same peer with the same index.
LEMMA CallsKept ==
  ASSUME NEW s \in NodeState, NEW t, NEW l \in LinkId, NEW c, c # None,
         s.connections[l] # None, t.connections = [s.connections EXCEPT ![l] = c],
         c.peer = s.connections[l].peer, c.our = s.connections[l].our, NEW q
  PROVE  Calls(t, q) = Calls(s, q)
<1>1. t.connections[l] = c /\ \A k \in LinkId : k # l => t.connections[k] = s.connections[k]
  BY FieldTypes
<1>2. ASSUME NEW i PROVE i \in Calls(t, q) => i \in Calls(s, q)
  BY <1>1 DEF Calls
<1>3. ASSUME NEW i PROVE i \in Calls(s, q) => i \in Calls(t, q)
  BY <1>1 DEF Calls
<1> QED BY <1>2, <1>3, SameMembers

\* Both ends of a link fit together.
Both(x, y, s, t, sent) ==
  /\ Half(x, y, s, t, sent) /\ Half(y, x, t, s, sent)
  /\ Addressed(y, x, s) /\ Addressed(x, y, t)

\* x dials y, with which it has neither a connection nor a session.
LEMMA BothDialled ==
  ASSUME NEW x, NEW y, x # y, NEW s, NEW t, NEW sent, Both(x, y, s, t, sent),
         ~ IsPeer(s, y), Calls(s, y) = {},
         NEW u, u.peers[y] = s.peers[y], NEW i, Calls(u, y) = {i},
         NEW m, m.type = "msg1", m.from = x, m.to = y, m.sender = i,
         NEW left, left = sent \cup {m}
  PROVE  Half(x, y, u, t, left) /\ Half(y, x, t, u, left)
<1>1. ~ IsPeer(u, y)
  BY DEF IsPeer
<1>2. ~ IsPeer(t, x)
  <2>1. SUFFICES ASSUME IsPeer(t, x) PROVE FALSE
    OBVIOUS
  <2>2. Half(y, x, t, s, sent)
    BY DEF Both
  <2>3. t.peers[x].msg2 # None => Calls(s, y) # {} \/ IsPeer(s, y)
    BY <2>1, <2>2 DEF Half, Seat
  <2>4. t.peers[x].msg2 = None => IsPeer(s, y)
    BY <2>1, <2>2 DEF Half, Seat, Answered
  <2> QED BY <2>3, <2>4
<1>3. Call(x, y, u, t, left)
  BY <1>2 DEF Both, Half, Call
<1>4. Call(y, x, t, u, left)
  BY <1>1 DEF Both, Half, Call, IsPeer
<1>5. Seat(x, y, u, t, left) /\ Seat(y, x, t, u, left)
  BY <1>1, <1>2 DEF Seat
<1> QED BY <1>3, <1>4, <1>5 DEF Half

\* x repeats the msg1 of its connection to y.
LEMMA BothResent ==
  ASSUME NEW x, NEW y, x # y, NEW s, NEW t, NEW sent, Both(x, y, s, t, sent),
         NEW u, SameTo(s, u, y),
         NEW m, m.type = "msg1", m.from = x, m.to = y, m.sender \in Calls(s, y),
         NEW left, left = sent \cup {m}
  PROVE  Half(x, y, u, t, left) /\ Half(y, x, t, u, left)
<1>1. (IsPeer(u, y) <=> IsPeer(s, y)) /\ Calls(u, y) = Calls(s, y) /\ u.peers[y] = s.peers[y]
  BY DEF SameTo, IsPeer
<1>2. Call(x, y, u, t, left)
  BY <1>1 DEF Both, Half, Call
<1>3. Call(y, x, t, u, left)
  BY <1>1 DEF Both, Half, Call
<1>4. /\ Answered(x, y, u, t) <=> Answered(x, y, s, t)
      /\ Answered(y, x, t, u) <=> Answered(y, x, t, s)
  BY <1>1 DEF Answered
<1>5. Seat(x, y, u, t, left)
  BY <1>1, <1>4 DEF Both, Half, Seat
<1>6. Seat(y, x, t, u, left)
  BY <1>1, <1>4 DEF Both, Half, Seat
<1> QED BY <1>2, <1>3, <1>5, <1>6 DEF Half

\* The connection of x to y times out, when nothing is on the way between them: x
\* was answered by what y took of it, and y has no connection either.
LEMMA BothDropped ==
  ASSUME NEW x, NEW y, x # y, NEW s, NEW t, NEW sent, Both(x, y, s, t, sent),
         Calls(s, y) # {}, \A m \in sent : ~ Between(m, x, y),
         NEW u, u.peers[y] = s.peers[y], Calls(u, y) = {}
  PROVE  IsPeer(s, y) /\ Half(x, y, u, t, sent) /\ Half(y, x, t, u, sent)
<1>1. IsPeer(t, x) /\ t.peers[x].msg2 = None
  <2>1. IsPeer(t, x)
    BY DEF Both, Half, Call, Between
  <2>2. t.peers[x].msg2 # None => t.peers[x].msg2 \in sent
    BY <2>1 DEF Both, Half, Call
  <2>3. t.peers[x].msg2 # None => Between(t.peers[x].msg2, x, y)
    BY <2>1 DEF Both, Addressed, Between
  <2> QED BY <2>1, <2>2, <2>3
<1>2. Answered(y, x, t, s)
  BY <1>1 DEF Both, Half, Seat
<1>3. IsPeer(s, y) /\ s.peers[y].msg2 # None /\ Calls(t, x) = {}
  BY <1>2 DEF Answered
<1>4. IsPeer(u, y) /\ u.peers[y] = s.peers[y]
  BY <1>3 DEF IsPeer
<1>5. Call(x, y, u, t, sent) /\ Call(y, x, t, u, sent)
  BY <1>1, <1>3, <1>4 DEF Call, Between
<1>6. /\ ~ Answered(x, y, s, t) /\ ~ Answered(x, y, u, t)
      /\ Answered(y, x, t, u) <=> Answered(y, x, t, s)
  BY <1>1, <1>3, <1>4 DEF Answered
<1>7. Seat(x, y, u, t, sent)
  BY <1>1, <1>3, <1>4, <1>6 DEF Both, Half, Seat
<1>8. Seat(y, x, t, u, sent)
  BY <1>1, <1>3, <1>4, <1>6 DEF Both, Half, Seat
<1> QED BY <1>3, <1>5, <1>7, <1>8 DEF Half

\* x repeats the answer it stored for y, if there is one, for a msg1 of y.
LEMMA BothRepeated ==
  ASSUME NEW x, NEW y, x # y, NEW s, NEW t, NEW sent, Both(x, y, s, t, sent),
         IsPeer(s, y), NEW u, SameTo(s, u, y),
         NEW m, m.type = "msg1", m.from = y, m.to = x,
         NEW more, more = IF s.peers[y].msg2 = None THEN {} ELSE {s.peers[y].msg2},
         NEW left, left = (sent \ {m}) \cup more
  PROVE  Half(x, y, u, t, left) /\ Half(y, x, t, u, left)
<1>1. IsPeer(u, y) /\ Calls(u, y) = Calls(s, y) /\ u.peers[y] = s.peers[y]
  BY DEF SameTo, IsPeer
<1>2. \A a \in more : /\ s.peers[y].msg2 # None /\ a = s.peers[y].msg2
                      /\ a.type = "msg2" /\ a.from = x /\ a.to = y
  BY DEF Both, Addressed
<1>3. \A a \in left : a \in sent \/ a \in more
  OBVIOUS
<1>4. \A a \in sent : a \in left \/ (a.type = "msg1" /\ a.from = y /\ a.to = x)
  OBVIOUS
<1>5. s.peers[y].msg2 # None => s.peers[y].msg2 \in left
  OBVIOUS
<1>6. IsPeer(t, x) /\ t.peers[x].msg2 # None => t.peers[x].msg2.type = "msg2"
  BY DEF Both, Addressed
<1>7. Call(x, y, u, t, left)
  BY <1>1, <1>2, <1>3, <1>4, <1>6 DEF Both, Half, Call
<1>8. Call(y, x, t, u, left)
  BY <1>1, <1>2, <1>3, <1>5 DEF Both, Half, Call
<1>9. /\ Answered(x, y, u, t) <=> Answered(x, y, s, t)
      /\ Answered(y, x, t, u) <=> Answered(y, x, t, s)
  BY <1>1 DEF Answered, IsPeer
<1>10. Seat(x, y, u, t, left)
  BY <1>1, <1>2, <1>3, <1>9 DEF Both, Half, Seat
<1>11. Seat(y, x, t, u, left)
  BY <1>1, <1>2, <1>3, <1>9 DEF Both, Half, Seat
<1> QED BY <1>7, <1>8, <1>10, <1>11 DEF Half

\* x answers the first msg1 of y, and holds the session of this handshake.
LEMMA BothAnswered ==
  ASSUME NEW x, NEW y, x # y, NEW s, NEW t, NEW sent, Both(x, y, s, t, sent),
         ~ IsPeer(s, y), NEW m \in sent, m.type = "msg1", m.from = y, m.to = x,
         NEW a, a # None, a.type = "msg2", a.from = x, a.to = y, a.receiver = m.sender,
         NEW u, IsPeer(u, y), Calls(u, y) = Calls(s, y), u.peers[y].msg2 = a,
         u.peers[y].session = SessionOf(a), ~ u.peers[y].aged,
         NEW left, left = (sent \ {m}) \cup {a}
  PROVE  Half(x, y, u, t, left) /\ Half(y, x, t, u, left)
<1>1. m.sender \in Calls(t, x)
  BY DEF Both, Half, Call
<1>2. IsPeer(t, x) => /\ t.peers[x].msg2 # None /\ ~ t.peers[x].aged /\ Calls(s, y) # {}
                      /\ t.peers[x].session = SessionOf(t.peers[x].msg2)
  BY DEF Both, Half, Seat, Answered
<1>3. IsPeer(t, x) /\ t.peers[x].msg2 # None => t.peers[x].msg2.type = "msg2"
  BY DEF Both, Addressed
<1>4. Call(x, y, u, t, left)
  BY <1>3 DEF Both, Half, Call
<1>5. Call(y, x, t, u, left)
  BY <1>1 DEF Both, Half, Call
<1>6. ~ Answered(x, y, u, t) /\ ~ Answered(y, x, t, u)
  BY <1>1, <1>2 DEF Answered
<1>7. Seat(x, y, u, t, left)
  BY <1>1, <1>6 DEF Seat
<1>8. Seat(y, x, t, u, left)
  BY <1>2, <1>6 DEF Seat
<1> QED BY <1>4, <1>5, <1>7, <1>8 DEF Half

\* An answer comes for which x has no connection any more.
LEMMA BothStale ==
  ASSUME NEW x, NEW y, x # y, NEW s, NEW t, NEW sent, Both(x, y, s, t, sent),
         Calls(s, y) = {}, NEW u, SameTo(s, u, y),
         NEW m, m.type = "msg2", m.from = y, m.to = x, NEW left, left = sent \ {m}
  PROVE  Half(x, y, u, t, left) /\ Half(y, x, t, u, left)
<1>1. /\ IsPeer(u, y) <=> IsPeer(s, y)
      /\ Calls(u, y) = {} /\ u.peers[y] = s.peers[y]
  BY DEF SameTo, IsPeer
<1>2. IsPeer(s, y) /\ s.peers[y].msg2 # None => s.peers[y].msg2 # m
  BY DEF Both, Addressed
<1>3. Call(x, y, u, t, left)
  BY <1>1 DEF Both, Half, Call
<1>4. Call(y, x, t, u, left)
  BY <1>1, <1>2 DEF Both, Half, Call
<1>5. /\ Answered(x, y, u, t) <=> Answered(x, y, s, t)
      /\ Answered(y, x, t, u) <=> Answered(y, x, t, s)
  BY <1>1 DEF Answered
<1>6. Seat(x, y, u, t, left)
  BY <1>1, <1>5 DEF Both, Half, Seat
<1>7. Seat(y, x, t, u, left)
  BY <1>1, <1>5 DEF Both, Half, Seat
<1> QED BY <1>3, <1>4, <1>6, <1>7 DEF Half

\* The answer of y comes to x, which holds no session with it.
LEMMA BothTaken ==
  ASSUME NEW x, NEW y, x # y, NEW s, NEW t, NEW sent, Both(x, y, s, t, sent),
         ~ IsPeer(s, y), NEW m \in sent, m # None, m.type = "msg2", m.from = y, m.to = x,
         NEW u, IsPeer(u, y), Calls(u, y) = {}, u.peers[y].msg2 = None,
         u.peers[y].session = SessionOf(m), ~ u.peers[y].aged,
         NEW left, left = sent \ {m}
  PROVE  Half(x, y, u, t, left) /\ Half(y, x, t, u, left)
<1>1. IsPeer(t, x) /\ t.peers[x].msg2 = m
  BY DEF Both, Half, Call
<1>2. ~ t.peers[x].aged /\ t.peers[x].session = SessionOf(m)
  BY <1>1 DEF Both, Half, Seat, Answered
<1>3. Call(x, y, u, t, left)
  BY <1>1 DEF Both, Half, Call
<1>4. Call(y, x, t, u, left)
  BY DEF Both, Half, Call
<1>5. Answered(x, y, u, t) /\ ~ Answered(y, x, t, u)
  BY <1>1 DEF Answered
<1>6. Seat(x, y, u, t, left)
  BY <1>1, <1>5 DEF Seat
<1>7. Seat(y, x, t, u, left)
  BY <1>1, <1>2, <1>5 DEF Seat
<1> QED BY <1>3, <1>4, <1>6, <1>7 DEF Half

\* The answer of y comes to x, which promoted y already: the connection of the
\* smaller node wins.
LEMMA BothCrossed ==
  ASSUME NEW x, NEW y, x # y, NEW s, NEW t, NEW sent, Both(x, y, s, t, sent),
         IsPeer(s, y), Calls(s, y) # {},
         NEW m \in sent, m # None, m.type = "msg2", m.from = y, m.to = x,
         NEW u, IsPeer(u, y), Calls(u, y) = {}, u.peers[y].msg2 = s.peers[y].msg2,
         u.peers[y].aged = s.peers[y].aged,
         x < y => u.peers[y].session = SessionOf(m),
         ~ (x < y) => u.peers[y].session = s.peers[y].session,
         NEW left, left = sent \ {m}
  PROVE  Half(x, y, u, t, left) /\ Half(y, x, t, u, left)
<1>1. IsPeer(t, x) /\ t.peers[x].msg2 = m
  BY DEF Both, Half, Call
<1>2. s.peers[y].msg2 # None /\ s.peers[y].session = SessionOf(s.peers[y].msg2)
  BY DEF Both, Half, Seat, Answered
<1>3. s.peers[y].msg2 # m
  BY <1>2 DEF Both, Addressed
<1>4. Call(x, y, u, t, left)
  BY <1>1 DEF Both, Half, Call
<1>5. Call(y, x, t, u, left)
  BY <1>3 DEF Both, Half, Call
<1>6. /\ Answered(x, y, u, t)
      /\ Answered(y, x, t, u) <=> Answered(y, x, t, s)
  BY <1>1 DEF Answered
<1>7. Seat(x, y, u, t, left)
  BY <1>1, <1>2, <1>6 DEF Both, Half, Seat
<1>8. Seat(y, x, t, u, left)
  BY <1>1, <1>6 DEF Both, Half, Seat
<1> QED BY <1>4, <1>5, <1>7, <1>8 DEF Half

\* The session x holds grows old, when nothing is on the way and y has no connection.
LEMMA BothAged ==
  ASSUME NEW x, NEW y, x # y, NEW s, NEW t, NEW sent, Both(x, y, s, t, sent),
         IsPeer(s, y), IsPeer(t, x), Calls(t, x) = {}, \A m \in sent : ~ Between(m, x, y),
         NEW u, IsPeer(u, y), Calls(u, y) = Calls(s, y),
         u.peers[y].msg2 = s.peers[y].msg2, u.peers[y].session = s.peers[y].session
  PROVE  Half(x, y, u, t, sent) /\ Half(y, x, t, u, sent)
<1>1. \A m \in sent : ~ (m.from = x /\ m.to = y) /\ ~ (m.from = y /\ m.to = x)
  BY DEF Between
<1>2. Call(x, y, u, t, sent)
  BY DEF Both, Half, Call
<1>3. Call(y, x, t, u, sent)
  BY <1>1 DEF Call
<1>4. /\ Answered(x, y, u, t) <=> Answered(x, y, s, t)
      /\ Answered(y, x, t, u) <=> Answered(y, x, t, s)
  BY DEF Answered
<1>5. Seat(x, y, u, t, sent)
  BY <1>1, <1>4 DEF Both, Half, Seat
<1>6. Seat(y, x, t, u, sent)
  BY <1>1, <1>4 DEF Both, Half, Seat
<1> QED BY <1>2, <1>3, <1>5, <1>6 DEF Half

\* When nothing is on the way between two nodes, a session one holds is held by both.
LEMMA BothAgree ==
  ASSUME NEW x \in Nat, NEW y \in Nat, x # y, NEW s, NEW t, NEW sent, Both(x, y, s, t, sent),
         IsPeer(s, y), \A m \in sent : ~ Between(m, x, y)
  PROVE  IsPeer(t, x) /\ s.peers[y].session = t.peers[x].session
<1>1. \A m \in sent : ~ (m.from = x /\ m.to = y) /\ ~ (m.from = y /\ m.to = x)
  BY DEF Between
<1>2. IsPeer(t, x) /\ t.peers[x].msg2 # None => Calls(s, y) = {}
  BY <1>1 DEF Both, Half, Call, Addressed
<1>3. s.peers[y].msg2 # None => Calls(t, x) = {}
  BY <1>1 DEF Both, Half, Call, Addressed
<1>4. CASE s.peers[y].msg2 = None
  <2>1. /\ IsPeer(t, x) /\ t.peers[x].msg2 # None
        /\ s.peers[y].session = SessionOf(t.peers[x].msg2)
    BY <1>4 DEF Both, Half, Seat, Answered
  <2>2. t.peers[x].session = SessionOf(t.peers[x].msg2)
    BY <1>4, <2>1 DEF Both, Half, Seat, Answered
  <2> QED BY <2>1, <2>2
<1>5. CASE s.peers[y].msg2 # None
  <2>1. IsPeer(t, x)
    BY <1>3, <1>5 DEF Both, Half, Seat
  <2>2. CASE t.peers[x].msg2 = None
    <3>1. t.peers[x].session = SessionOf(s.peers[y].msg2)
      BY <2>1, <2>2 DEF Both, Half, Seat
    <3>2. s.peers[y].session = SessionOf(s.peers[y].msg2)
      BY <1>5, <2>2 DEF Both, Half, Seat, Answered
    <3> QED BY <2>1, <3>1, <3>2
  <2>3. CASE t.peers[x].msg2 # None
    <3>1. Answered(x, y, s, t) /\ Answered(y, x, t, s)
      BY <1>2, <1>3, <1>5, <2>1, <2>3 DEF Answered
    <3>2. s.peers[y].session = SessionOf(IF x < y THEN t.peers[x].msg2 ELSE s.peers[y].msg2)
      BY <1>5, <3>1 DEF Both, Half, Seat
    <3>3. t.peers[x].session = SessionOf(IF y < x THEN s.peers[y].msg2 ELSE t.peers[x].msg2)
      BY <2>1, <2>3, <3>1 DEF Both, Half, Seat
    <3>4. CASE x < y
      <4>1. ~ (y < x)
        BY <3>4
      <4> QED BY <2>1, <3>2, <3>3, <3>4, <4>1
    <3>5. CASE y < x
      <4>1. ~ (x < y)
        BY <3>5
      <4> QED BY <2>1, <3>2, <3>3, <3>5, <4>1
    <3> QED BY <3>4, <3>5
  <2> QED BY <2>2, <2>3
<1> QED BY <1>4, <1>5

\* A step of n that changes nothing between it and another node.
LEMMA SilentStep ==
  ASSUME IndInv, Paired, NEW n \in Node, NEW t, node' = [node EXCEPT ![n] = t],
         Untroubled(n, t), net' = net, \A q \in Node : SameTo(node[n], t, q)
  PROVE  Paired'
<1>1. CASE \E p \in Node : p # n
  <2>1. PICK p \in Node : p # n
    BY <1>1
  <2>2. Half(n, p, node[n], node[p], net) /\ Half(p, n, node[p], node[n], net)
    BY <2>1 DEF Paired
  <2>3. Untroubled(n, node[n]) /\ Untroubled(p, node[p])
    BY DEF Paired
  <2>4. Addressed(n, p, node[p]) /\ Addressed(p, n, node[n])
    BY <2>3 DEF Untroubled, Addressed
  <2>5. SameTo(node[n], t, p) /\ SameTo(node[p], node[p], n)
    BY DEF SameTo
  <2>6. Half(n, p, t, node[p], net') /\ Half(p, n, node[p], t, net')
    BY <2>2, <2>4, <2>5, HalfKept
  <2> QED BY <2>1, <2>6, PairStep
<1>2. CASE \A p \in Node : p = n
  <2>1. node'[n] = t
    BY DEF IndInv, TypeOK
  <2>2. \A k \in Node : Untroubled(k, node'[k])
    BY <1>2, <2>1
  <2>3. \A m \in net' : UntroubledMessage(m)
    BY DEF Paired
  <2>4. \A x, y \in Node : x = y
    BY <1>2
  <2> QED BY <2>2, <2>3, <2>4 DEF Paired, Untroubled, IsPeer, UntroubledMessage
<1> QED BY <1>1, <1>2

LEMMA PairFacts ==
  ASSUME Paired, NEW n \in Node, NEW p \in Node, n # p
  PROVE  Both(n, p, node[n], node[p], net)
<1>1. Untroubled(n, node[n]) /\ Untroubled(p, node[p])
  BY DEF Paired
<1>2. Addressed(n, p, node[p]) /\ Addressed(p, n, node[n])
  BY <1>1 DEF Untroubled, Addressed
<1> QED BY <1>2 DEF Paired, Both

\* A step that ends undisturbed took no fault.
LEMMA SpendNothing ==
  ASSUME TypeOK, NEW fault \in BOOLEAN, Spend(fault), faults' = 0
  PROVE  ~ fault /\ faults = 0
BY ConstantTypes DEF Spend, TypeOK

LEMMA FaultDisturbs ==
  ASSUME TypeOK, faults' = faults + 1
  PROVE  faults' # 0
BY ConstantTypes DEF TypeOK

LEMMA TakeOnce ==
  ASSUME TypeOK, NEW m, NEW sent, Take(m, sent), faults' = 0
  PROVE  net' = (net \ {m}) \cup sent /\ faults = 0
<1>1. PICK again \in BOOLEAN : Spend(again) /\ net' = (IF again THEN net ELSE net \ {m}) \cup sent
  BY DEF Take
<1>2. ~ again /\ faults = 0
  BY <1>1, SpendNothing
<1> QED BY <1>1, <1>2

\* It began undisturbed, too.
LEMMA WasUndisturbed ==
  ASSUME IndInv, Undisturbed', faults = 0, NEW n \in Node, NEW t,
         node' = [node EXCEPT ![n] = t], t.refused = node[n].refused
  PROVE  Undisturbed
<1>1. node'[n] = t /\ \A k \in Node : k # n => node'[k] = node[k]
  BY DEF IndInv, TypeOK
<1>2. \A k \in Node : node'[k].refused = 0
  BY DEF Undisturbed
<1>3. \A k \in Node : node[k].refused = 0
  BY <1>1, <1>2
<1> QED BY <1>3 DEF Undisturbed

\* A configured peer is dialled.
LEMMA StartPaired ==
  ASSUME IndInv, Undisturbed => Paired, NEW n \in Node, NEW p \in Node, Start(n, p), Undisturbed'
  PROVE  Paired'
<1>1. PICK s : s = [node[n] EXCEPT !.starting = @ \ {p}]
  OBVIOUS
<1>2. /\ s \in NodeState /\ s.connections = node[n].connections
      /\ s.links = node[n].links /\ s.pendingOutbound = node[n].pendingOutbound
      /\ s.peers = node[n].peers /\ s.retry = node[n].retry /\ s.epoch = node[n].epoch
      /\ s.refused = node[n].refused /\ s.starting = node[n].starting \ {p}
  <2>1. node[n] \in NodeState
    BY NodeFacts
  <2> QED BY <1>1, <2>1 DEF NodeState
<1>3. faults' = 0 /\ TypeOK /\ p \in node[n].starting
  BY NodeFacts DEF Undisturbed, Start
<1>4. \A q : Calls(s, q) = Calls(node[n], q) /\ (IsPeer(s, q) <=> IsPeer(node[n], q))
  BY <1>2, CallsSame DEF IsPeer
<1>5. CASE IsPeer(s, p) \/ IsConnecting(s, p)
  <2>1. node' = [node EXCEPT ![n] = s] /\ net' = net /\ faults' = faults
    BY <1>1, <1>5 DEF Start
  <2>2. Paired
    BY <1>2, <1>3, <2>1, WasUndisturbed
  <2>3. Untroubled(n, node[n])
    BY <2>2 DEF Paired
  <2>4. Untroubled(n, s)
    BY <1>2, <2>3 DEF Untroubled, IsPeer
  <2>5. \A q \in Node : SameTo(node[n], s, q)
    BY <1>2, <1>4 DEF SameTo
  <2> QED BY <2>1, <2>2, <2>4, <2>5, SilentStep
<1>6. CASE ~ (IsPeer(s, p) \/ IsConnecting(s, p))
  <2>1. PICK fails \in BOOLEAN : Spend(fails) /\ Connect(n, s, p, fails)
    BY <1>1, <1>6 DEF Start
  <2>2. ~ fails /\ faults = 0
    BY <1>3, <2>1, SpendNothing
  <2>3. PICK l \in FreeLink(s), i \in FreeIndex :
          /\ node' = [node EXCEPT ![n] =
               [s EXCEPT !.links[l] = [addr |-> p, inbound |-> FALSE],
                         !.addrToLink[p] = l,
                         !.allocated = @ \cup {i},
                         !.connections[l] = [peer |-> p, our |-> i, resends |-> 0,
                                             state |-> "sent"],
                         !.pendingOutbound[i] = l]]
          /\ net' = net \cup {[type |-> "msg1", from |-> n, to |-> p, sender |-> i,
                               epoch |-> s.epoch]}
    BY <2>1, <2>2 DEF Connect, NewConnection
  <2>4. PICK c, msg1, conns :
          /\ c = [peer |-> p, our |-> i, resends |-> 0, state |-> "sent"]
          /\ msg1 = [type |-> "msg1", from |-> n, to |-> p, sender |-> i, epoch |-> s.epoch]
          /\ conns = [s.connections EXCEPT ![l] = c]
    OBVIOUS
  <2>5. PICK t : t = [s EXCEPT !.links[l] = [addr |-> p, inbound |-> FALSE],
                               !.addrToLink[p] = l, !.allocated = @ \cup {i},
                               !.connections = conns, !.pendingOutbound[i] = l]
    OBVIOUS
  <2>6. node' = [node EXCEPT ![n] = t] /\ net' = net \cup {msg1}
    BY <1>2, <2>3, <2>4, <2>5 DEF NodeState
  <2>7. /\ t.connections = conns /\ t.peers = s.peers /\ t.retry = s.retry
        /\ t.epoch = s.epoch /\ t.starting = s.starting /\ t.refused = s.refused
    BY <1>2, <2>5 DEF NodeState
  <2>8. Paired
    BY <1>2, <1>3, <2>2, <2>6, <2>7, WasUndisturbed
  <2>9. Untroubled(n, node[n])
    BY <2>8 DEF Paired
  <2>10. p # n /\ s.epoch = 0
    BY <1>2, <1>3, <2>9 DEF Untroubled
  <2>11. l \in LinkId /\ s.links[l] = None /\ i \in Index
    BY <1>3, FreeLinkIsNew, FreeIndexIsNew
  <2>12. s.connections[l] = None
    <3>1. TablesOK(node[n])
      BY NodeFacts
    <3> QED BY <1>2, <2>11, <3>1 DEF TablesOK, ConnectionsOK
  <2>13. c # None /\ c.peer = p /\ c.our = i /\ c.state = "sent"
    <3>1. c \in Connection
      BY <2>4, <2>11, ConstantTypes DEF Connection
    <3> QED BY <2>4, <3>1, NoneAssumption
  <2>14. conns[l] = c /\ \A k \in LinkId : k # l => conns[k] = node[n].connections[k]
    BY <1>2, <2>4, <2>11, FieldTypes
  <2>15. \A k \in LinkId : node[n].connections[k] # None => node[n].connections[k].peer # p
    BY <1>2, <1>6 DEF IsConnecting
  <2>16. Untroubled(n, t)
    BY <1>2, <2>7, <2>9, <2>10, <2>13, <2>14, <2>15 DEF Untroubled, IsPeer
  <2>17. Calls(t, p) = {i} /\ \A q \in Node : q # p => Calls(t, q) = Calls(node[n], q)
    <3>1. Calls(s, p) = {}
      BY <1>6, CallsFacts
    <3>2. /\ Calls(t, p) = Calls(s, p) \cup {i}
          /\ \A q \in Node : q # p => Calls(t, q) = Calls(s, q)
      BY <1>2, <2>4, <2>7, <2>11, <2>12, <2>13, CallsMade
    <3> QED BY <1>4, <3>1, <3>2
  <2>18. \A q \in Node : q # p => SameTo(node[n], t, q)
    BY <1>2, <2>7, <2>17 DEF SameTo
  <2>19. /\ msg1.type = "msg1" /\ msg1.from = n /\ msg1.to = p /\ msg1.sender = i
         /\ UntroubledMessage(msg1)
    BY <2>4, <2>10 DEF UntroubledMessage
  <2>20. Half(n, p, t, node[p], net') /\ Half(p, n, node[p], t, net')
    <3>1. Both(n, p, node[n], node[p], net)
      BY <2>8, <2>10, PairFacts
    <3>2. ~ IsPeer(node[n], p) /\ Calls(node[n], p) = {} /\ t.peers[p] = node[n].peers[p]
      BY <1>2, <1>4, <1>6, <2>7, CallsFacts
    <3> QED BY <2>6, <2>10, <2>17, <2>19, <3>1, <3>2, BothDialled
  <2>21. /\ \A m \in net : m \in net'
         /\ \A m \in net' : m \in net \/ (Between(m, n, p) /\ UntroubledMessage(m))
    BY <2>6, <2>19 DEF Between
  <2> QED BY <2>6, <2>8, <2>10, <2>16, <2>18, <2>20, <2>21, PairStep
<1> QED BY <1>5, <1>6

LEMMA ResendPaired ==
  ASSUME IndInv, Undisturbed => Paired, NEW n \in Node, NEW l \in LinkId, Resend(n, l),
         Undisturbed'
  PROVE  Paired'
<1>1. PICK s, c, d, msg1, conns :
        /\ s = node[n] /\ c = s.connections[l] /\ d = [c EXCEPT !.resends = @ + 1]
        /\ msg1 = [type |-> "msg1", from |-> n, to |-> c.peer, sender |-> c.our,
                   epoch |-> s.epoch]
        /\ conns = [s.connections EXCEPT ![l] = d]
  OBVIOUS
<1>2. PICK t : t = [s EXCEPT !.connections = conns]
  OBVIOUS
<1>3. /\ s \in NodeState /\ c # None /\ c \in Connection /\ c.resends < MaxResends
      /\ c.peer \in Node /\ c.state = "sent"
  BY <1>1, NodeFacts, ConnectionTypes DEF Resend
<1>4. /\ node' = [node EXCEPT ![n] = t] /\ net' = net \cup {msg1} /\ faults' = faults
  BY <1>1, <1>2, <1>3 DEF Resend, RecordResend, NodeState
<1>5. d # None /\ d.our = c.our /\ d.peer = c.peer /\ d.state = "sent"
  <2>1. d \in Connection /\ d.our = c.our /\ d.peer = c.peer /\ d.state = "sent"
    BY <1>1, <1>3, ConstantTypes DEF Connection
  <2> QED BY <2>1, NoneAssumption
<1>6. /\ t.connections = conns /\ t.peers = s.peers /\ t.retry = s.retry
      /\ t.epoch = s.epoch /\ t.starting = s.starting /\ t.refused = s.refused
  BY <1>2, <1>3 DEF NodeState
<1>7. Paired
  <2>1. faults = 0
    BY <1>4 DEF Undisturbed
  <2> QED BY <1>1, <1>4, <1>6, <2>1, WasUndisturbed
<1>8. Untroubled(n, s)
  BY <1>1, <1>7 DEF Paired
<1>9. c.peer # n /\ s.epoch = 0
  BY <1>1, <1>3, <1>8 DEF Untroubled
<1>10. conns[l] = d /\ \A k \in LinkId : k # l => conns[k] = s.connections[k]
  BY <1>1, <1>3, FieldTypes
<1>11. Untroubled(n, t)
  <2>1. ASSUME NEW k \in LinkId
        PROVE  /\ t.connections[k] = None <=> s.connections[k] = None
               /\ t.connections[k].peer = s.connections[k].peer
               /\ t.connections[k].state = s.connections[k].state
    BY <1>1, <1>3, <1>5, <1>6, <1>10
  <2>2. \A k \in LinkId : t.connections[k] # None => /\ t.connections[k].state = "sent"
                                                    /\ t.connections[k].peer # n
    BY <1>8, <2>1 DEF Untroubled
  <2>3. ASSUME NEW k \in LinkId, NEW j \in LinkId, t.connections[k] # None,
               t.connections[j] # None, t.connections[k].peer = t.connections[j].peer
        PROVE  k = j
    BY <1>8, <2>1, <2>3 DEF Untroubled
  <2> QED BY <1>6, <1>8, <2>2, <2>3 DEF Untroubled, IsPeer
<1>12. ASSUME NEW q PROVE Calls(t, q) = Calls(s, q)
  <2>1. /\ t.connections = [s.connections EXCEPT ![l] = d] /\ s.connections[l] # None
        /\ d.peer = s.connections[l].peer /\ d.our = s.connections[l].our
    BY <1>1, <1>3, <1>5, <1>6
  <2> QED BY <1>3, <1>5, <2>1, CallsKept
<1>13. \A q \in Node : SameTo(s, t, q)
  BY <1>6, <1>12 DEF SameTo
<1>14. /\ msg1.type = "msg1" /\ msg1.from = n /\ msg1.to = c.peer
       /\ msg1.sender \in Calls(s, c.peer) /\ UntroubledMessage(msg1)
  <2>1. c.our \in Calls(s, c.peer)
    BY <1>1, <1>3 DEF Calls
  <2> QED BY <1>1, <1>9, <2>1 DEF UntroubledMessage
<1>15. Half(n, c.peer, t, node[c.peer], net') /\ Half(c.peer, n, node[c.peer], t, net')
  <2>1. Both(n, c.peer, s, node[c.peer], net)
    BY <1>1, <1>3, <1>7, <1>9, PairFacts
  <2> QED BY <1>3, <1>4, <1>9, <1>13, <1>14, <2>1, BothResent
<1>16. /\ \A m \in net : m \in net'
       /\ \A m \in net' : m \in net \/ (Between(m, n, c.peer) /\ UntroubledMessage(m))
  BY <1>4, <1>14 DEF Between
<1> QED BY <1>1, <1>3, <1>4, <1>7, <1>9, <1>11, <1>13, <1>15, <1>16, PairStep

LEMMA CheckTimeoutPaired ==
  ASSUME IndInv, Undisturbed => Paired, NEW n \in Node, NEW l \in LinkId, CheckTimeout(n, l),
         Undisturbed'
  PROVE  Paired'
<1>1. PICK s, c, r, conns :
        /\ s = node[n] /\ c = s.connections[l] /\ r = ScheduleRetry(n, s, c.peer)
        /\ conns = [s.connections EXCEPT ![l] = None]
  OBVIOUS
<1>2. PICK u : u = [r EXCEPT !.connections[l] = None, !.pendingOutbound[c.our] = None,
                             !.allocated = @ \ {c.our}]
  OBVIOUS
<1>3. PICK t : t = RemoveLink(u, l)
  OBVIOUS
<1>4. /\ s \in NodeState /\ c # None /\ c.peer \in Node /\ c.our \in Index /\ Pursued(n, s)
  BY <1>1, NodeFacts, ConnectionTypes DEF CheckTimeout
<1>5. /\ r \in NodeState /\ r.connections = s.connections /\ r.peers = s.peers
      /\ r.epoch = s.epoch /\ r.starting = s.starting /\ r.refused = s.refused
      /\ IsPeer(s, c.peer) => r = s
  BY <1>1, <1>4, ScheduleRetryFields DEF Pursued, SameTables, SameRest
<1>6. /\ u \in NodeState /\ u.connections = conns /\ u.peers = r.peers /\ u.retry = r.retry
      /\ SameRest(r, u)
  <2>1. /\ conns \in [LinkId -> Connection \cup {None}]
        /\ [r.pendingOutbound EXCEPT ![c.our] = None] \in [Index -> LinkId \cup {None}]
        /\ r.allocated \ {c.our} \in SUBSET Index
    BY <1>1, <1>4, <1>5, FieldTypes
  <2>2. PICK pend, alloc : pend = [r.pendingOutbound EXCEPT ![c.our] = None]
                           /\ alloc = r.allocated \ {c.our}
    OBVIOUS
  <2>3. u = [r EXCEPT !.connections = conns, !.pendingOutbound = pend, !.allocated = alloc]
    BY <1>1, <1>2, <1>5, <2>2 DEF NodeState
  <2> QED BY <1>5, <2>1, <2>2, <2>3 DEF NodeState, SameRest
<1>7. /\ t.connections = conns /\ t.peers = s.peers /\ t.retry = r.retry
      /\ t.epoch = s.epoch /\ t.starting = s.starting /\ t.refused = s.refused
  BY <1>3, <1>5, <1>6, RemoveLinkFields DEF SameRest
<1>8. node' = [node EXCEPT ![n] = t] /\ net' = net /\ faults' = faults
  BY <1>1, <1>2, <1>3 DEF CheckTimeout
<1>9. Paired
  <2>1. faults = 0
    BY <1>8 DEF Undisturbed
  <2> QED BY <1>1, <1>7, <1>8, <2>1, WasUndisturbed
<1>10. Untroubled(n, s)
  BY <1>1, <1>9 DEF Paired
<1>11. c.peer # n /\ c.state = "sent"
  BY <1>1, <1>4, <1>10 DEF Untroubled
<1>12. \A m \in net : ~ Between(m, n, c.peer)
  <2>1. \A m \in net : {m.from, m.to} # {n, c.peer}
    BY <1>1, <1>11 DEF CheckTimeout
  <2> QED BY <2>1 DEF Between
<1>13. Calls(t, c.peer) = {} /\ \A q \in Node : q # c.peer => Calls(t, q) = Calls(s, q)
  BY <1>1, <1>4, <1>7, <1>10, CallsEnded
<1>14. Calls(s, c.peer) # {}
  BY <1>1, <1>4 DEF Calls
<1>15. /\ IsPeer(s, c.peer)
       /\ Half(n, c.peer, t, node[c.peer], net') /\ Half(c.peer, n, node[c.peer], t, net')
  <2>1. Both(n, c.peer, s, node[c.peer], net)
    BY <1>1, <1>4, <1>9, <1>11, PairFacts
  <2> QED BY <1>4, <1>7, <1>8, <1>11, <1>12, <1>13, <1>14, <2>1, BothDropped
<1>16. Untroubled(n, t)
  <2>1. t.retry = s.retry
    BY <1>5, <1>7, <1>15
  <2>2. conns[l] = None /\ \A k \in LinkId : k # l => conns[k] = s.connections[k]
    BY <1>1, <1>4, FieldTypes
  <2> QED BY <1>7, <1>10, <2>1, <2>2 DEF Untroubled, IsPeer
<1>17. \A q \in Node : q # c.peer => SameTo(s, t, q)
  BY <1>7, <1>13 DEF SameTo
<1> QED BY <1>1, <1>4, <1>8, <1>9, <1>11, <1>15, <1>16, <1>17, PairStep

\* A msg1 that is repeated is answered by what was stored, and one that comes to an
\* old session is never: both ends are done with their handshakes by then.
LEMMA Msg1KnownPaired ==
  ASSUME IndInv, Undisturbed => Paired, NEW n \in Node, NEW m \in net, m.type = "msg1",
         m.to = n, Msg1Rekey(n, m) \/ Msg1Duplicate(n, m), Undisturbed'
  PROVE  Paired'
<1>1. PICK s, p, u, t : /\ s = node[n] /\ p = m.from /\ u = StartHandshake(s)
                        /\ t = CompleteHandshake(u)
  OBVIOUS
<1>2. faults' = 0 /\ TypeOK /\ s \in NodeState /\ s.inbound = 0 /\ p \in Node
  BY <1>1, NodeFacts, MessageFields DEF Undisturbed, TablesOK
<1>3. /\ u \in NodeState /\ u.inbound = 1
      /\ u.connections = s.connections /\ u.peers = s.peers /\ u.retry = s.retry
      /\ SameRest(s, u)
  BY <1>1, <1>2, StartHandshakeFields
<1>4. IsPeer(s, p)
  BY <1>1 DEF Msg1Rekey, Msg1Duplicate, SameEpoch, IsPeer
<1>5. Undisturbed
  <2>1. PICK sent : Take(m, sent)
    BY DEF Msg1Rekey, Msg1Duplicate
  <2>2. faults = 0
    BY <1>2, <2>1, TakeOnce
  <2>3. PICK v : node' = [node EXCEPT ![n] = v] /\ v.refused = s.refused
    <3>1. t.refused = s.refused
      BY <1>1, <1>3, CompleteHandshakeFields DEF SameRest
    <3>2. CASE node' = [node EXCEPT ![n] = CompleteHandshake(StartHandshake(node[n]))]
      BY <1>1, <3>1, <3>2
    <3>3. CASE \E i \in FreeIndex :
                 node' = [node EXCEPT ![n] = CompleteHandshake(
                     [u EXCEPT !.allocated = @ \cup {i},
                               !.peersByIndex[i] = m.from,
                               !.peers[m.from].pending =
                                  [session |-> InboundSession(n, m, i),
                                   our |-> i, their |-> m.sender]])]
      <4>1. PICK i \in FreeIndex :
                 node' = [node EXCEPT ![n] = CompleteHandshake(
                     [u EXCEPT !.allocated = @ \cup {i},
                               !.peersByIndex[i] = m.from,
                               !.peers[m.from].pending =
                                  [session |-> InboundSession(n, m, i),
                                   our |-> i, their |-> m.sender]])]
        BY <3>3
      <4>2. PICK v : v = [u EXCEPT !.allocated = @ \cup {i},
                               !.peersByIndex[i] = m.from,
                               !.peers[m.from].pending =
                                  [session |-> InboundSession(n, m, i),
                                   our |-> i, their |-> m.sender]]
        OBVIOUS
      <4>3. v.refused = u.refused /\ CompleteHandshake(v).refused = v.refused
        BY <1>3, <4>2 DEF NodeState, CompleteHandshake
      <4> QED BY <1>3, <4>1, <4>2, <4>3 DEF SameRest
    <3> QED BY <1>1, <3>2, <3>3 DEF Msg1Rekey, Msg1Duplicate
  <2> QED BY <1>1, <2>2, <2>3, WasUndisturbed
<1>6. Paired
  BY <1>5
<1>7. Untroubled(n, s) /\ p # n
  BY <1>1, <1>6 DEF Paired, UntroubledMessage
<1>8. Both(n, p, s, node[p], net)
  BY <1>1, <1>2, <1>6, <1>7, PairFacts
<1>9. ~ s.peers[p].aged
  BY <1>1, <1>4, <1>8 DEF Both, Half, Seat
<1>10. PICK more : more = IF s.peers[p].msg2 = None THEN {} ELSE {s.peers[p].msg2}
  OBVIOUS
<1>11. node' = [node EXCEPT ![n] = t] /\ Take(m, more)
  BY <1>1, <1>3, <1>9, <1>10 DEF Msg1Rekey, Msg1Duplicate
<1>12. net' = (net \ {m}) \cup more
  BY <1>2, <1>11, TakeOnce
<1>13. t.connections = s.connections /\ t.peers = s.peers /\ t.retry = s.retry /\ SameRest(s, t)
  BY <1>1, <1>3, CompleteHandshakeFields DEF SameRest
<1>14. Untroubled(n, t)
  BY <1>7, <1>13 DEF Untroubled, IsPeer, SameRest
<1>15. \A q \in Node : SameTo(s, t, q)
  BY <1>13, CallsSame DEF SameTo
<1>16. Half(n, p, t, node[p], net') /\ Half(p, n, node[p], t, net')
  BY <1>1, <1>2, <1>4, <1>7, <1>8, <1>10, <1>12, <1>15, BothRepeated
<1>17. \A a \in more : UntroubledMessage(a) /\ Between(a, n, p)
  BY <1>2, <1>4, <1>7, <1>10 DEF Untroubled, UntroubledMessage, Between
<1>18. /\ \A a \in net : a \in net' \/ Between(a, n, p)
       /\ \A a \in net' : a \in net \/ (Between(a, n, p) /\ UntroubledMessage(a))
  BY <1>1, <1>12, <1>17 DEF Between
<1> QED BY <1>1, <1>2, <1>6, <1>7, <1>11, <1>14, <1>15, <1>16, <1>18, PairStep

\* A first msg1 is answered and its sender promoted.
LEMMA Msg1NewPaired ==
  ASSUME IndInv, Undisturbed => Paired, NEW n \in Node, NEW m \in net, m.type = "msg1",
         m.to = n, Msg1New(n, m), Undisturbed'
  PROVE  Paired'
<1>1. m \in Msg1 /\ m.from \in Node /\ m.sender \in Index
  <2>1. m \in Msg1
    BY NodeFacts, MessageFields
  <2> QED BY <2>1 DEF Msg1
<1>2. PICK p, s, u, b, k : /\ p = m.from /\ s = node[n] /\ u = StartHandshake(s)
                           /\ b = Without(s, p) /\ k = Cleared(n, u, p)
  OBVIOUS
<1>3. /\ p \in Node /\ s \in NodeState /\ TablesOK(s) /\ Pursued(n, s) /\ s.inbound = 0
      /\ TypeOK /\ faults' = 0
  BY <1>1, <1>2, NodeFacts DEF TablesOK, Undisturbed
<1>4. /\ u \in NodeState /\ u.inbound = 1 /\ u.retry = s.retry
      /\ SameButLimiter(s, u) /\ SameRest(s, u)
  BY <1>2, <1>3, StartHandshakeFields DEF SameButLimiter
<1>5. k \in NodeState /\ k.inbound = 1 /\ SameRest(s, k)
  BY <1>2, <1>3, <1>4, ClearedFields
<1> DEFINE K == LET s0 == StartHandshake(node[n])
                IN  IF IsPeer(s0, m.from)
                    THEN ScheduleReconnect(n, RemoveActivePeer(s0, m.from), m.from) ELSE s0
<1>6. \E l \in FreeLink(K), i \in FreeIndex :
        LET linked == [K EXCEPT !.links[l] = [addr |-> m.from, inbound |-> TRUE],
                                !.addrToLink[m.from] = l]
            peer == [link |-> l, our |-> i, their |-> m.sender,
                     session |-> InboundSession(n, m, i), epoch |-> m.epoch,
                     msg2 |-> Answer(n, m, i), pending |-> None, aged |-> FALSE]
        IN  /\ node' = [node EXCEPT ![n] = CompleteHandshake(
                 IF HasRoom(K)
                 THEN Promote([linked EXCEPT !.allocated = @ \cup {i}], m.from, peer)
                 ELSE [RemoveLink(linked, l) EXCEPT !.refused = @ + 1])]
            /\ Take(m, {Answer(n, m, i)})
  BY Zenon DEF Msg1New
<1>7. K = k /\ m.from = p
  BY <1>2 DEF Cleared
<1> HIDE DEF K
<1>8. PICK l \in FreeLink(k), i \in FreeIndex :
        LET linked == [k EXCEPT !.links[l] = [addr |-> p, inbound |-> TRUE],
                                !.addrToLink[p] = l]
            peer == [link |-> l, our |-> i, their |-> m.sender,
                     session |-> InboundSession(n, m, i), epoch |-> m.epoch,
                     msg2 |-> Answer(n, m, i), pending |-> None, aged |-> FALSE]
        IN  /\ node' = [node EXCEPT ![n] = CompleteHandshake(
                 IF HasRoom(k)
                 THEN Promote([linked EXCEPT !.allocated = @ \cup {i}], p, peer)
                 ELSE [RemoveLink(linked, l) EXCEPT !.refused = @ + 1])]
            /\ Take(m, {Answer(n, m, i)})
  BY ZenonT(60), <1>6, <1>7
<1>9. l \in LinkId /\ i \in Index
  BY <1>3, FreeLinkIsNew, FreeIndexIsNew
<1>10. PICK a, peer :
         /\ a = Answer(n, m, i)
         /\ peer = [link |-> l, our |-> i, their |-> m.sender,
                    session |-> InboundSession(n, m, i), epoch |-> m.epoch,
                    msg2 |-> a, pending |-> None, aged |-> FALSE]
  OBVIOUS
<1>11. PICK linked : linked = [k EXCEPT !.links[l] = [addr |-> p, inbound |-> TRUE],
                                        !.addrToLink[p] = l]
  OBVIOUS
<1>12. /\ node' = [node EXCEPT ![n] = CompleteHandshake(
                 IF HasRoom(k)
                 THEN Promote([linked EXCEPT !.allocated = @ \cup {i}], p, peer)
                 ELSE [RemoveLink(linked, l) EXCEPT !.refused = @ + 1])]
       /\ Take(m, {a})
  BY <1>8, <1>10, <1>11
<1>13. linked \in NodeState /\ linked.refused = s.refused /\ linked.inbound = 1
       /\ linked.connections = k.connections /\ linked.peers = k.peers
       /\ linked.retry = k.retry /\ SameRest(k, linked)
  <2>1. /\ [k.links EXCEPT ![l] = [addr |-> p, inbound |-> TRUE]] \in [LinkId -> Link \cup {None}]
        /\ [k.addrToLink EXCEPT ![p] = l] \in [Node -> LinkId \cup {None}]
    BY <1>3, <1>5, <1>9, FieldTypes DEF Link
  <2>2. PICK links, addr : /\ links = [k.links EXCEPT ![l] = [addr |-> p, inbound |-> TRUE]]
                           /\ addr = [k.addrToLink EXCEPT ![p] = l]
    OBVIOUS
  <2>3. linked = [k EXCEPT !.links = links, !.addrToLink = addr]
    BY <1>5, <1>11, <2>2 DEF NodeState
  <2> QED BY <1>5, <2>1, <2>2, <2>3 DEF NodeState, SameRest
<1>14. net' = (net \ {m}) \cup {a} /\ faults = 0
  BY <1>3, <1>12, TakeOnce
<1>15. HasRoom(k)
  <2>1. SUFFICES ASSUME ~ HasRoom(k) PROVE FALSE
    OBVIOUS
  <2>2. PICK v, w : v = RemoveLink(linked, l) /\ w = [v EXCEPT !.refused = v.refused + 1]
    OBVIOUS
  <2>3. v \in NodeState /\ v.refused = s.refused
    BY <1>9, <1>13, <2>2, RemoveLinkFields DEF SameRest
  <2>4. CompleteHandshake(w).refused = s.refused + 1
    BY <2>2, <2>3 DEF CompleteHandshake, NodeState
  <2>5. node' = [node EXCEPT ![n] = CompleteHandshake(w)]
    BY <1>12, <2>1, <2>2
  <2>6. node'[n] = CompleteHandshake(w)
    BY <2>5, NodeFacts
  <2>7. CompleteHandshake(w).refused = 0
    BY <2>6 DEF Undisturbed
  <2>8. s.refused \in Nat
    BY <1>3, FieldTypes, ConstantTypes
  <2> QED BY <2>4, <2>7, <2>8
<1>16. PICK v, t : /\ v = Promote([linked EXCEPT !.allocated = @ \cup {i}], p, peer)
                   /\ t = CompleteHandshake(v)
  OBVIOUS
<1>17. node' = [node EXCEPT ![n] = t]
  BY <1>12, <1>15, <1>16
<1>18. /\ t.peers = [k.peers EXCEPT ![p] = peer] /\ t.retry = [k.retry EXCEPT ![p] = None]
       /\ t.connections = k.connections /\ t.refused = s.refused
       /\ t.epoch = s.epoch /\ t.starting = s.starting
  <2>1. /\ v.peers = [k.peers EXCEPT ![p] = peer] /\ v.retry = [k.retry EXCEPT ![p] = None]
        /\ v.connections = k.connections /\ v.refused = s.refused
        /\ v.epoch = s.epoch /\ v.starting = s.starting
    BY <1>5, <1>13, <1>16 DEF Promote, NodeState, SameRest
  <2>2. /\ t.peers = v.peers /\ t.retry = v.retry /\ t.connections = v.connections
        /\ t.refused = v.refused /\ t.epoch = v.epoch /\ t.starting = v.starting
    BY <1>13, <1>16 DEF Promote, NodeState, CompleteHandshake
  <2> QED BY <2>1, <2>2
<1>19. Paired
  BY <1>2, <1>14, <1>17, <1>18, WasUndisturbed
<1>20. Untroubled(n, s) /\ UntroubledMessage(m)
  BY <1>2, <1>19 DEF Paired
<1>21. p # n /\ m.epoch = 0 /\ ~ IsPeer(s, p)
  <2>1. p # n /\ m.epoch = 0
    BY <1>2, <1>20 DEF UntroubledMessage
  <2>2. IsPeer(s, p) => SameEpoch(n, m)
    BY <1>2, <1>3, <1>20, <2>1 DEF Untroubled, SameEpoch, IsPeer
  <2> QED BY <2>1, <2>2 DEF Msg1New
<1>22. k = u
  BY <1>2, <1>4, <1>21 DEF Cleared, IsPeer, SameButLimiter
<1>23. /\ t.peers[p] = peer /\ \A q \in Node : q # p => t.peers[q] = s.peers[q]
       /\ t.connections = s.connections
       /\ \A q \in Node : t.retry[q] = None
  BY <1>3, <1>4, <1>18, <1>20, <1>22, FieldTypes DEF SameButLimiter, Untroubled
<1>24. /\ a \in Msg2 /\ a.type = "msg2" /\ a.to = p /\ a.from = n /\ a.receiver = m.sender
       /\ a.sender = i /\ a.epoch = s.epoch /\ a # None
  <2>1. /\ a \in Msg2 /\ a.type = "msg2" /\ a.to = p /\ a.from = n /\ a.receiver = m.sender
    BY <1>1, <1>2, <1>9, <1>10, AnswerTyped
  <2> QED BY <1>2, <1>10, <2>1, NoneAssumption DEF Answer
<1>25. /\ peer.msg2 = a /\ peer.session = SessionOf(a) /\ ~ peer.aged /\ peer.epoch = 0
       /\ peer # None
  <2>1. peer.msg2 = a /\ ~ peer.aged /\ peer.epoch = 0 /\ peer.session = InboundSession(n, m, i)
    BY <1>10, <1>21
  <2>2. InboundSession(n, m, i) = SessionOf(a)
    BY <1>2, <1>24 DEF InboundSession, SessionOf
  <2>3. peer \in ActivePeer
    BY <1>1, <1>3, <1>9, <1>10, <1>24 DEF ActivePeer, InboundSession, Session, Msg1
  <2> QED BY <2>1, <2>2, <2>3, NoneAssumption
<1>26. Untroubled(n, t)
  <2>1. s.epoch = 0
    BY <1>20 DEF Untroubled
  <2>2. \A q \in Node : IsPeer(t, q) =>
          /\ q # n /\ t.peers[q].epoch = 0
          /\ LET x == t.peers[q].msg2
             IN  x # None => x.type = "msg2" /\ x.from = n /\ x.to = q /\ x.epoch = 0
    BY <1>20, <1>21, <1>23, <1>24, <1>25, <2>1 DEF Untroubled, IsPeer
  <2> QED BY <1>18, <1>20, <1>23, <2>2 DEF Untroubled
<1>27. \A q \in Node : Calls(t, q) = Calls(s, q)
  BY <1>23, CallsSame
<1>28. \A q \in Node : q # p => SameTo(s, t, q)
  BY <1>23, <1>27 DEF SameTo
<1>29. Half(n, p, t, node[p], net') /\ Half(p, n, node[p], t, net')
  <2>1. Both(n, p, s, node[p], net)
    BY <1>2, <1>3, <1>19, <1>21, PairFacts
  <2>2. IsPeer(t, p) /\ Calls(t, p) = Calls(s, p) /\ t.peers[p].msg2 = a
        /\ t.peers[p].session = SessionOf(a) /\ ~ t.peers[p].aged
    BY <1>3, <1>23, <1>25, <1>27 DEF IsPeer
  <2>3. m.from = p /\ m.to = n /\ m.type = "msg1"
    BY <1>2
  <2> QED BY <1>14, <1>21, <1>24, <2>1, <2>2, <2>3, BothAnswered
<1>30. /\ \A x \in net : x \in net' \/ Between(x, n, p)
       /\ \A x \in net' : x \in net \/ (Between(x, n, p) /\ UntroubledMessage(x))
  <2>1. Between(m, n, p)
    BY <1>2 DEF Between
  <2>2. Between(a, n, p) /\ UntroubledMessage(a)
    BY <1>20, <1>21, <1>24 DEF Between, UntroubledMessage, Untroubled
  <2> QED BY <1>14, <2>1, <2>2
<1> QED BY <1>2, <1>3, <1>17, <1>19, <1>21, <1>26, <1>28, <1>29, <1>30, PairStep

\* An answer nothing waits for: the connection of its receiver index is gone.
LEMMA Msg2StalePaired ==
  ASSUME IndInv, Undisturbed => Paired, NEW n \in Node, NEW m \in net, m.type = "msg2",
         m.to = n, Msg2Stale(n, m), Undisturbed'
  PROVE  Paired'
<1>1. PICK s, p, t : /\ s = node[n] /\ p = m.from
                     /\ t = [s EXCEPT !.pendingOutbound[m.receiver] = None]
  OBVIOUS
<1>2. /\ s \in NodeState /\ TablesOK(s) /\ TypeOK /\ faults' = 0 /\ m \in Msg2
  BY <1>1, NodeFacts, MessageFields DEF Undisturbed
<1>3. p \in Node /\ m.receiver \in Index
  BY <1>1, <1>2 DEF Msg2
<1>4. /\ t.connections = s.connections /\ t.peers = s.peers /\ t.retry = s.retry
      /\ t.epoch = s.epoch /\ t.starting = s.starting /\ t.refused = s.refused
  BY <1>1, <1>2 DEF NodeState
<1>5. node' = [node EXCEPT ![n] = t] /\ Take(m, {})
  BY <1>1 DEF Msg2Stale
<1>6. net' = net \ {m} /\ faults = 0
  BY <1>2, <1>5, TakeOnce
<1>7. Paired
  <2>1. node' = [node EXCEPT ![n] = t] /\ t.refused = node[n].refused
    BY <1>1, <1>4, <1>5
  <2>2. Undisturbed
    BY <1>6, <2>1, WasUndisturbed
  <2> QED BY <2>2
<1>8. Untroubled(n, s) /\ p # n
  BY <1>1, <1>7 DEF Paired, UntroubledMessage
<1>9. Both(n, p, s, node[p], net)
  BY <1>1, <1>3, <1>7, <1>8, PairFacts
<1>10. Calls(s, p) = {}
  <2>1. SUFFICES ASSUME Calls(s, p) # {} PROVE FALSE
    OBVIOUS
  <2>2. IsPeer(node[p], n) /\ node[p].peers[n].msg2 = m
    BY <1>1, <1>9 DEF Both, Half, Call
  <2>3. m # None
    BY <1>2, NoneAssumption
  <2>4. m.receiver \in Calls(s, p)
    BY <1>9, <2>1, <2>2, <2>3 DEF Both, Half, Call
  <2>5. PICK l \in LinkId : s.connections[l] # None /\ s.connections[l].our = m.receiver
    BY <2>4, CallsFacts
  <2>6. s.pendingOutbound[m.receiver] = l
    BY <1>2, <2>5 DEF TablesOK, ConnectionsOK
  <2>7. s.connections[l].state # None
    BY <1>2, <2>5, ConnectionTypes, NoneAssumption
  <2>8. l # None
    BY NoNumberIsNone
  <2>9. Awaiting(s, m.receiver) = s.connections[l].state
    BY <2>5, <2>6, <2>8 DEF Awaiting
  <2> QED BY <1>1, <2>7, <2>9 DEF Msg2Stale
<1>11. Untroubled(n, t)
  BY <1>4, <1>8 DEF Untroubled, IsPeer
<1>12. \A q \in Node : SameTo(s, t, q)
  BY <1>4, CallsSame DEF SameTo
<1>13. Half(n, p, t, node[p], net') /\ Half(p, n, node[p], t, net')
  <2>1. SameTo(s, t, p) /\ m.from = p
    BY <1>1, <1>3, <1>12
  <2> QED BY <1>6, <1>8, <1>9, <1>10, <2>1, BothStale
<1>14. /\ \A x \in net : x \in net' \/ Between(x, n, p)
       /\ \A x \in net' : x \in net
  BY <1>1, <1>6 DEF Between
<1> QED BY <1>1, <1>3, <1>5, <1>7, <1>8, <1>11, <1>12, <1>13, <1>14, PairStep

\* No connection fails undisturbed.
LEMMA Msg2FailedPaired ==
  ASSUME IndInv, Undisturbed => Paired, NEW n \in Node, NEW m \in net, m.type = "msg2",
         m.to = n, Msg2Failed(n, m), Undisturbed'
  PROVE  Paired'
<1>1. node' = node /\ Take(m, {}) /\ Awaiting(node[n], m.receiver) = "failed"
  BY DEF Msg2Failed
<1>2. PICK s, l : s = node[n] /\ l = s.pendingOutbound[m.receiver]
  OBVIOUS
<1>3. TypeOK /\ faults' = 0 /\ s \in NodeState /\ m \in Msg2
  BY <1>2, NodeFacts, MessageFields DEF Undisturbed
<1>4. m.receiver \in Index
  BY <1>3 DEF Msg2
<1>5. faults = 0
  BY <1>1, <1>3, TakeOnce
<1>6. Undisturbed
  BY <1>1, <1>5 DEF Undisturbed
<1>7. Untroubled(n, s)
  BY <1>2, <1>6 DEF Paired
<1>8. l # None /\ s.connections[l] # None /\ s.connections[l].state = "failed"
  BY <1>1, <1>2, NoneAssumption DEF Awaiting
<1>9. l \in LinkId
  BY <1>2, <1>3, <1>4, <1>8, FieldTypes
<1> QED BY <1>7, <1>8, <1>9 DEF Untroubled

\* What an answer finds at its receiver.
LEMMA AnswerFound ==
  ASSUME IndInv, NEW n \in Node, NEW m \in net, m.type = "msg2", m.to = n,
         Awaiting(node[n], m.receiver) = "sent",
         NEW s, s = node[n], NEW l, l = s.pendingOutbound[m.receiver]
  PROVE  /\ TypeOK /\ s \in NodeState /\ m \in Msg2 /\ m # None
         /\ m.receiver \in Index /\ m.from \in Node /\ m.sender \in Index
         /\ l \in LinkId /\ s.connections[l] # None /\ s.connections[l].peer = m.from
         /\ s.connections[l].our = m.receiver
<1>1. PICK c : c = s.connections[l]
  OBVIOUS
<1>2. /\ m \in Msg2 /\ m.receiver \in Index /\ m.from \in Node /\ m.sender \in Index
      /\ l \in LinkId /\ c # None /\ c.our = m.receiver /\ c.peer = m.from
  BY <1>1, AwaitedConnection
<1> QED BY <1>1, <1>2, NodeFacts, NoneAssumption

\* The answer comes to a node that was dialled by the other and promoted it.
LEMMA Msg2CrossPaired ==
  ASSUME IndInv, Undisturbed => Paired, NEW n \in Node, NEW m \in net, m.type = "msg2",
         m.to = n, Msg2Cross(n, m), Undisturbed'
  PROVE  Paired'
<1>1. PICK s, p, l, c : /\ s = node[n] /\ p = m.from
                        /\ l = s.pendingOutbound[m.receiver] /\ c = s.connections[l]
  OBVIOUS
<1>2. Awaiting(node[n], m.receiver) = "sent"
  BY DEF Msg2Cross
<1>3. /\ TypeOK /\ s \in NodeState /\ m \in Msg2 /\ m # None
      /\ m.receiver \in Index /\ p \in Node /\ m.sender \in Index
      /\ l \in LinkId /\ c # None /\ c.peer = p /\ c.our = m.receiver
  BY <1>1, <1>2, AnswerFound
<1>4. IsPeer(s, p) /\ s.peers[p] \in ActivePeer
  <2>1. IsPeer(s, p)
    BY <1>1 DEF Msg2Cross
  <2> QED BY <1>3, <2>1, PeerTypes
<1> DEFINE done == [s EXCEPT !.connections[l] = None, !.pendingOutbound[m.receiver] = None]
           swapped == [done EXCEPT
                         !.allocated = @ \ {s.peers[p].our},
                         !.peersByIndex = [Forget(@, {s.peers[p].our}) EXCEPT ![c.our] = p],
                         !.peers[p].session = OutboundSession(n, m),
                         !.peers[p].our = c.our,
                         !.peers[p].their = m.sender]
           kept == [done EXCEPT !.allocated = @ \ {c.our}]
<1>5. /\ node' = [node EXCEPT ![n] =
           RemoveLink(IF OurOutboundWins(n, p) THEN swapped ELSE kept, l)]
      /\ Take(m, {})
  <2> DEFINE L == node[n].pendingOutbound[m.receiver]
             C == node[n].connections[L]
             D == [node[n] EXCEPT !.connections[L] = None,
                                  !.pendingOutbound[m.receiver] = None]
             U == [D EXCEPT
                     !.allocated = @ \ {node[n].peers[m.from].our},
                     !.peersByIndex = [Forget(@, {node[n].peers[m.from].our})
                                         EXCEPT ![C.our] = m.from],
                     !.peers[m.from].session = OutboundSession(n, m),
                     !.peers[m.from].our = C.our,
                     !.peers[m.from].their = m.sender]
             V == [D EXCEPT !.allocated = @ \ {C.our}]
  <2>1. /\ node' = [node EXCEPT ![n] =
             RemoveLink(IF OurOutboundWins(n, m.from) THEN U ELSE V, L)]
        /\ Take(m, {})
    BY Zenon DEF Msg2Cross
  <2>2. L = l /\ C = c
    BY <1>1
  <2>3. D = done
    BY <1>1, <2>2, Zenon
  <2>4. U = swapped /\ V = kept
    BY <1>1, <2>2, <2>3, Zenon
  <2> HIDE DEF L, U, V, swapped, kept
  <2> QED BY <1>1, <2>1, <2>2, <2>4, Zenon
<1>6. PICK conns, session, peer : /\ conns = [s.connections EXCEPT ![l] = None]
                                  /\ session = OutboundSession(n, m)
                                  /\ peer = [s.peers[p] EXCEPT !.session = session,
                                                               !.our = c.our, !.their = m.sender]
  OBVIOUS
<1>7. /\ peer # None /\ peer.session = session /\ peer.msg2 = s.peers[p].msg2
      /\ peer.aged = s.peers[p].aged /\ peer.epoch = s.peers[p].epoch
  <2>1. session \in Session
    BY <1>1, <1>3, <1>6 DEF OutboundSession, Session
  <2>2. /\ peer \in ActivePeer /\ peer.session = session /\ peer.msg2 = s.peers[p].msg2
        /\ peer.aged = s.peers[p].aged /\ peer.epoch = s.peers[p].epoch
    BY <1>3, <1>4, <1>6, <2>1 DEF ActivePeer
  <2> QED BY <2>2, NoneAssumption
<1>8. /\ kept.connections = conns /\ kept.peers = s.peers /\ kept.retry = s.retry
      /\ kept.links = s.links /\ kept.epoch = s.epoch /\ kept.starting = s.starting
      /\ kept.refused = s.refused
  BY <1>3, <1>6 DEF NodeState
<1>9. /\ swapped.connections = conns /\ swapped.peers = [s.peers EXCEPT ![p] = peer]
      /\ swapped.retry = s.retry /\ swapped.links = s.links
      /\ swapped.epoch = s.epoch /\ swapped.starting = s.starting
      /\ swapped.refused = s.refused
  <2>1. PICK f, g, h : /\ f = [s.peers EXCEPT ![p].session = session]
                       /\ g = [f EXCEPT ![p].our = c.our]
                       /\ h = [g EXCEPT ![p].their = m.sender]
    OBVIOUS
  <2>2. h = [s.peers EXCEPT ![p] = peer]
    BY <1>3, <1>4, <1>6, <2>1, FieldTypes
  <2>3. swapped.peers = h
    BY <1>3, <1>6, <2>1 DEF NodeState
  <2>4. /\ swapped.connections = conns
        /\ swapped.retry = s.retry /\ swapped.links = s.links
        /\ swapped.epoch = s.epoch /\ swapped.starting = s.starting
        /\ swapped.refused = s.refused
    BY <1>3, <1>6 DEF NodeState
  <2> QED BY <2>2, <2>3, <2>4
<1>10. PICK w, t : w = (IF OurOutboundWins(n, p) THEN swapped ELSE kept) /\ t = RemoveLink(w, l)
  OBVIOUS
<1>11. node' = [node EXCEPT ![n] = t]
  BY <1>5, <1>10
<1>12. /\ w.connections = conns /\ w.retry = s.retry /\ w.epoch = s.epoch
       /\ w.starting = s.starting /\ w.refused = s.refused
       /\ w.peers = IF n < p THEN [s.peers EXCEPT ![p] = peer] ELSE s.peers
  BY <1>8, <1>9, <1>10 DEF OurOutboundWins
<1>13. DOMAIN w = DOMAIN s
  <2>1. DOMAIN swapped = DOMAIN s /\ DOMAIN kept = DOMAIN s
    OBVIOUS
  <2> QED BY <1>10, <2>1
<1> HIDE DEF swapped, kept
<1>14. /\ t.connections = conns /\ t.retry = s.retry /\ t.epoch = s.epoch
       /\ t.starting = s.starting /\ t.refused = s.refused /\ t.peers = w.peers
  <2>1. t = w \/ t = [w EXCEPT !.links[l] = None,
                               !.addrToLink[w.links[l].addr] = IF @ = l THEN None ELSE @]
    BY <1>10 DEF RemoveLink
  <2>2. {"connections", "retry", "epoch", "starting", "refused", "peers", "links", "addrToLink"}
          \subseteq DOMAIN w
    BY <1>3, <1>13 DEF NodeState
  <2> QED BY <1>12, <2>1, <2>2
<1>15. net' = net \ {m} /\ faults = 0
  BY <1>3, <1>5, TakeOnce DEF Undisturbed
<1>16. Paired
  BY <1>1, <1>11, <1>14, <1>15, WasUndisturbed
<1>17. Untroubled(n, s) /\ p # n
  BY <1>1, <1>16 DEF Paired, UntroubledMessage
<1>18. /\ t.peers[p] = IF n < p THEN peer ELSE s.peers[p]
       /\ \A q \in Node : q # p => t.peers[q] = s.peers[q]
  BY <1>3, <1>12, <1>14, FieldTypes
<1>19. Calls(t, p) = {} /\ \A q \in Node : q # p => Calls(t, q) = Calls(s, q)
  <2>1. s.connections[l] # None /\ s.connections[l].peer = p
        /\ t.connections = [s.connections EXCEPT ![l] = None]
    BY <1>1, <1>3, <1>6, <1>14
  <2> QED BY <1>3, <1>17, <2>1, CallsEnded
<1>20. Untroubled(n, t)
  <2>1. conns[l] = None /\ \A k \in LinkId : k # l => conns[k] = s.connections[k]
    BY <1>3, <1>6, FieldTypes
  <2>2. ASSUME NEW q \in Node, IsPeer(t, q)
        PROVE  /\ IsPeer(s, q) /\ t.peers[q].msg2 = s.peers[q].msg2
               /\ t.peers[q].epoch = s.peers[q].epoch
    BY <1>4, <1>7, <1>18, <2>2 DEF IsPeer
  <2>3. \A q \in Node : IsPeer(t, q) =>
          /\ q # n /\ t.peers[q].epoch = 0
          /\ LET x == t.peers[q].msg2
             IN  x # None => x.type = "msg2" /\ x.from = n /\ x.to = q /\ x.epoch = 0
    BY <1>17, <2>2 DEF Untroubled
  <2> QED BY <1>14, <1>17, <2>1, <2>3 DEF Untroubled
<1>21. \A q \in Node : q # p => SameTo(s, t, q)
  BY <1>18, <1>19 DEF SameTo
<1>22. Half(n, p, t, node[p], net') /\ Half(p, n, node[p], t, net')
  <2>1. Both(n, p, s, node[p], net)
    BY <1>1, <1>3, <1>16, <1>17, PairFacts
  <2>2. IsPeer(t, p) /\ t.peers[p].msg2 = s.peers[p].msg2 /\ t.peers[p].aged = s.peers[p].aged
    BY <1>4, <1>7, <1>18 DEF IsPeer
  <2>3. /\ n < p => t.peers[p].session = SessionOf(m)
        /\ ~ (n < p) => t.peers[p].session = s.peers[p].session
    <3>1. session = SessionOf(m)
      BY <1>6 DEF OutboundSession, SessionOf
    <3> QED BY <1>7, <1>18, <3>1
  <2>4. Calls(s, p) # {}
    BY <1>1, <1>3 DEF Calls
  <2>5. m.from = p /\ m.to = n
    BY <1>1
  <2> QED BY <1>3, <1>4, <1>15, <1>17, <1>19, <2>1, <2>2, <2>3, <2>4, <2>5, BothCrossed
<1>23. /\ \A x \in net : x \in net' \/ Between(x, n, p)
       /\ \A x \in net' : x \in net
  BY <1>1, <1>15 DEF Between
<1> QED BY <1>1, <1>3, <1>11, <1>16, <1>17, <1>20, <1>21, <1>22, <1>23, PairStep

\* The answer comes to the node that dialled, and its sender is promoted.
LEMMA Msg2NewPaired ==
  ASSUME IndInv, Undisturbed => Paired, NEW n \in Node, NEW m \in net, m.type = "msg2",
         m.to = n, Msg2New(n, m), Undisturbed'
  PROVE  Paired'
<1>1. PICK s, p, l, c : /\ s = node[n] /\ p = m.from
                        /\ l = s.pendingOutbound[m.receiver] /\ c = s.connections[l]
  OBVIOUS
<1>2. Awaiting(node[n], m.receiver) = "sent" /\ Take(m, {})
  BY DEF Msg2New
<1>3. /\ TypeOK /\ s \in NodeState /\ m \in Msg2 /\ m # None
      /\ m.receiver \in Index /\ p \in Node /\ m.sender \in Index
      /\ l \in LinkId /\ c # None /\ c.peer = p
  BY <1>1, <1>2, AnswerFound
<1>4. net' = net \ {m} /\ faults = 0
  BY <1>2, <1>3, TakeOnce DEF Undisturbed
<1>5. PICK conns, peer : /\ conns = [s.connections EXCEPT ![l] = None]
                         /\ peer = [link |-> l, our |-> m.receiver, their |-> m.sender,
                                    session |-> OutboundSession(n, m), epoch |-> m.epoch,
                                    msg2 |-> None, pending |-> None, aged |-> FALSE]
  OBVIOUS
<1>6. HasRoom(s)
  <2>1. SUFFICES ASSUME ~ HasRoom(s) PROVE FALSE
    OBVIOUS
  <2>2. PICK t : t = [s EXCEPT !.connections[l] = None, !.allocated = @ \ {m.receiver},
                               !.parted = @ \cup {p}, !.refused = @ + 1,
                               !.leftover = @ \cup {l}]
    OBVIOUS
  <2>3. node' = [node EXCEPT ![n] = t]
    BY <1>1, <2>1, <2>2, Zenon DEF Msg2New
  <2>4. t.refused = s.refused + 1
    BY <1>3, <2>2 DEF NodeState
  <2>5. t.refused = 0
    BY <2>3, NodeFacts DEF Undisturbed
  <2>6. s.refused \in Nat
    BY <1>3, FieldTypes, ConstantTypes
  <2> QED BY <2>4, <2>5, <2>6
<1>7. PICK d, t : /\ d = [s EXCEPT !.connections[l] = None,
                                   !.pendingOutbound[m.receiver] = None]
                  /\ t = Promote(d, p, peer)
  OBVIOUS
<1>8. node' = [node EXCEPT ![n] = t]
  BY <1>1, <1>5, <1>6, <1>7, Zenon DEF Msg2New
<1>9. /\ t.connections = conns /\ t.peers = [s.peers EXCEPT ![p] = peer]
      /\ t.retry = [s.retry EXCEPT ![p] = None]
      /\ t.epoch = s.epoch /\ t.starting = s.starting /\ t.refused = s.refused
  BY <1>3, <1>5, <1>7 DEF Promote, NodeState
<1>10. Paired
  BY <1>1, <1>4, <1>8, <1>9, WasUndisturbed
<1>11. Untroubled(n, s) /\ UntroubledMessage(m)
  BY <1>1, <1>10 DEF Paired
<1>12. p # n /\ m.epoch = 0
  BY <1>1, <1>11 DEF UntroubledMessage
<1>13. /\ t.peers[p] = peer /\ \A q \in Node : q # p => t.peers[q] = s.peers[q]
       /\ \A q \in Node : t.retry[q] = None
  BY <1>3, <1>9, <1>11, FieldTypes DEF Untroubled
<1>14. /\ peer # None /\ peer.msg2 = None /\ peer.session = SessionOf(m) /\ ~ peer.aged
       /\ peer.epoch = 0
  <2>1. peer.msg2 = None /\ ~ peer.aged /\ peer.epoch = 0 /\ peer.session = OutboundSession(n, m)
    BY <1>5, <1>12
  <2>2. OutboundSession(n, m) = SessionOf(m)
    BY DEF OutboundSession, SessionOf
  <2>3. peer \in ActivePeer
    BY <1>1, <1>3, <1>5 DEF ActivePeer, OutboundSession, Session, Msg2
  <2> QED BY <2>1, <2>2, <2>3, NoneAssumption
<1>15. Calls(t, p) = {} /\ \A q \in Node : q # p => Calls(t, q) = Calls(s, q)
  <2>1. s.connections[l] # None /\ s.connections[l].peer = p
        /\ t.connections = [s.connections EXCEPT ![l] = None]
    BY <1>1, <1>3, <1>5, <1>9
  <2> QED BY <1>3, <1>11, <2>1, CallsEnded
<1>16. Untroubled(n, t)
  <2>1. conns[l] = None /\ \A k \in LinkId : k # l => conns[k] = s.connections[k]
    BY <1>3, <1>5, FieldTypes
  <2>2. \A q \in Node : IsPeer(t, q) =>
          /\ q # n /\ t.peers[q].epoch = 0
          /\ LET x == t.peers[q].msg2
             IN  x # None => x.type = "msg2" /\ x.from = n /\ x.to = q /\ x.epoch = 0
    BY <1>11, <1>12, <1>13, <1>14 DEF Untroubled, IsPeer
  <2> QED BY <1>9, <1>11, <1>13, <2>1, <2>2 DEF Untroubled
<1>17. \A q \in Node : q # p => SameTo(s, t, q)
  BY <1>13, <1>15 DEF SameTo
<1>18. Half(n, p, t, node[p], net') /\ Half(p, n, node[p], t, net')
  <2>1. Both(n, p, s, node[p], net)
    BY <1>1, <1>3, <1>10, <1>12, PairFacts
  <2>2. IsPeer(t, p) /\ t.peers[p].msg2 = None /\ t.peers[p].session = SessionOf(m)
        /\ ~ t.peers[p].aged
    BY <1>13, <1>14 DEF IsPeer
  <2>3. ~ IsPeer(s, p) /\ m.from = p /\ m.to = n
    BY <1>1 DEF Msg2New
  <2> QED BY <1>3, <1>4, <1>12, <1>15, <2>1, <2>2, <2>3, BothTaken
<1>19. /\ \A x \in net : x \in net' \/ Between(x, n, p)
       /\ \A x \in net' : x \in net
  BY <1>1, <1>4 DEF Between
<1> QED BY <1>1, <1>3, <1>8, <1>10, <1>12, <1>16, <1>17, <1>18, <1>19, PairStep

\* With nothing on the way, a peer is matched: its link is not found dead.
LEMMA PairedIsMatched ==
  ASSUME Paired, NEW n \in Node, NEW p \in Node, IsPeer(node[n], p),
         \A m \in net : {m.from, m.to} # {n, p}
  PROVE  p # n /\ Matched(n, p)
<1>1. Untroubled(n, node[n])
  BY DEF Paired
<1>2. p # n
  BY <1>1 DEF Untroubled
<1>3. \A m \in net : ~ Between(m, n, p)
  BY DEF Between
<1>4. Both(n, p, node[n], node[p], net)
  BY <1>2, PairFacts
<1>5. n \in Nat /\ p \in Nat
  BY SetAssumption
<1>6. IsPeer(node[p], n) /\ node[n].peers[p].session = node[p].peers[n].session
  BY <1>2, <1>3, <1>4, <1>5, BothAgree
<1> QED BY <1>2, <1>6 DEF Matched

LEMMA LinkDeadPaired ==
  ASSUME IndInv, Undisturbed => Paired, NEW n \in Node, NEW p \in Node, LinkDead(n, p),
         Undisturbed'
  PROVE  Paired'
<1>1. PICK s, b, t : /\ s = node[n] /\ b = RemoveActivePeer(s, p)
                     /\ t = ScheduleReconnect(n, b, p)
  OBVIOUS
<1>2. node' = [node EXCEPT ![n] = t] /\ IsPeer(s, p) /\ Spend(Matched(n, p))
  BY <1>1 DEF LinkDead
<1>3. TypeOK /\ s \in NodeState /\ faults' = 0
  BY <1>1, NodeFacts DEF Undisturbed
<1>4. ~ Matched(n, p) /\ faults = 0
  <2>1. Matched(n, p) \in BOOLEAN
    BY DEF Matched
  <2> QED BY <1>2, <1>3, <2>1, SpendNothing
<1>5. b \in NodeState /\ b.refused = s.refused
  BY <1>1, <1>2, <1>3, RemoveActivePeerFields DEF Removed, SameRest
<1>6. t.refused = s.refused
  <2>1. Reconnecting(n, b, p, t)
    BY <1>1, <1>5, ScheduleReconnectFields
  <2> QED BY <1>5, <2>1 DEF Reconnecting, SameRest
<1>7. Undisturbed
  BY <1>1, <1>2, <1>4, <1>6, WasUndisturbed
<1>8. Matched(n, p)
  BY <1>1, <1>2, <1>7, PairedIsMatched DEF LinkDead
<1> QED BY <1>4, <1>8

LEMMA AgePaired ==
  ASSUME IndInv, Undisturbed => Paired, NEW n \in Node, NEW p \in Node, Age(n, p), Undisturbed'
  PROVE  Paired'
<1>1. PICK s, peer, t : /\ s = node[n] /\ peer = [s.peers[p] EXCEPT !.aged = TRUE]
                        /\ t = [s EXCEPT !.peers[p] = peer]
  OBVIOUS
<1>2. /\ s \in NodeState /\ IsPeer(s, p) /\ IsPeer(node[p], n)
      /\ net' = net /\ faults' = faults /\ faults' = 0
  BY <1>1, NodeFacts DEF Age, Matched, Undisturbed
<1>3. node' = [node EXCEPT ![n] = t]
  BY <1>1, <1>2 DEF Age, NodeState
<1>4. /\ t.connections = s.connections /\ t.peers = [s.peers EXCEPT ![p] = peer]
      /\ t.retry = s.retry /\ t.epoch = s.epoch /\ t.starting = s.starting
      /\ t.refused = s.refused
  BY <1>1, <1>2 DEF NodeState
<1>5. Paired
  BY <1>1, <1>2, <1>3, <1>4, WasUndisturbed
<1>6. Untroubled(n, s)
  BY <1>1, <1>5 DEF Paired
<1>7. p # n /\ \A m \in net : ~ Between(m, n, p)
  BY <1>2, <1>6 DEF Untroubled, Age, Between
<1>8. /\ peer # None /\ peer.msg2 = s.peers[p].msg2 /\ peer.session = s.peers[p].session
      /\ peer.epoch = s.peers[p].epoch
  <2>1. s.peers[p] \in ActivePeer
    BY <1>2, PeerTypes
  <2>2. /\ peer \in ActivePeer /\ peer.msg2 = s.peers[p].msg2
        /\ peer.session = s.peers[p].session /\ peer.epoch = s.peers[p].epoch
    BY <1>1, <2>1 DEF ActivePeer
  <2> QED BY <2>2, NoneAssumption
<1>9. t.peers[p] = peer /\ \A q \in Node : q # p => t.peers[q] = s.peers[q]
  BY <1>2, <1>4, FieldTypes
<1>10. Untroubled(n, t)
  <2>1. \A q \in Node : IsPeer(t, q) =>
          /\ q # n /\ t.peers[q].epoch = 0
          /\ LET x == t.peers[q].msg2
             IN  x # None => x.type = "msg2" /\ x.from = n /\ x.to = q /\ x.epoch = 0
    BY <1>2, <1>6, <1>8, <1>9 DEF Untroubled, IsPeer
  <2> QED BY <1>4, <1>6, <2>1 DEF Untroubled
<1>11. \A q \in Node : Calls(t, q) = Calls(s, q)
  BY <1>4, CallsSame
<1>12. \A q \in Node : q # p => SameTo(s, t, q)
  BY <1>9, <1>11 DEF SameTo
<1>13. Half(n, p, t, node[p], net') /\ Half(p, n, node[p], t, net')
  <2>1. Both(n, p, s, node[p], net)
    BY <1>1, <1>5, <1>7, PairFacts
  <2>2. Calls(node[p], n) = {}
    BY CallsFacts DEF Age
  <2>3. IsPeer(t, p)
    BY <1>8, <1>9 DEF IsPeer
  <2> QED BY <1>2, <1>7, <1>8, <1>9, <1>11, <2>1, <2>2, <2>3, BothAged
<1> QED BY <1>1, <1>2, <1>3, <1>5, <1>7, <1>10, <1>12, <1>13, PairStep

\* Undisturbed nothing waits for a retry.
LEMMA ProcessRetryPaired ==
  ASSUME IndInv, Undisturbed => Paired, NEW n \in Node, NEW p \in Node, ProcessRetry(n, p),
         Undisturbed'
  PROVE  Paired'
<1>1. PICK s : s = node[n]
  OBVIOUS
<1>2. s \in NodeState /\ TypeOK /\ faults' = 0 /\ s.retry[p] # None
  BY <1>1, NodeFacts DEF Undisturbed, ProcessRetry
<1>3. PICK t : node' = [node EXCEPT ![n] = t] /\ t.refused = s.refused /\ faults = 0
  <2>1. CASE IsPeer(s, p)
    <3>1. node' = [node EXCEPT ![n] = [s EXCEPT !.retry[p] = None]] /\ faults' = faults
      BY <1>1, <2>1 DEF ProcessRetry
    <3>2. [s EXCEPT !.retry[p] = None].refused = s.refused
      BY <1>2 DEF NodeState
    <3> QED BY <1>2, <3>1, <3>2
  <2>2. CASE ~ IsPeer(s, p)
    <3>1. PICK fails \in BOOLEAN : Spend(fails) /\ Connect(n, s, p, fails)
      BY <1>1, <2>2 DEF ProcessRetry
    <3>2. PICK l, i, c : node' = [node EXCEPT ![n] =
                           [s EXCEPT !.links[l] = [addr |-> p, inbound |-> FALSE],
                                     !.addrToLink[p] = l,
                                     !.allocated = @ \cup {i},
                                     !.connections[l] = c,
                                     !.pendingOutbound[i] = l]]
      BY <3>1 DEF Connect
    <3>3. [s EXCEPT !.links[l] = [addr |-> p, inbound |-> FALSE],
                    !.addrToLink[p] = l,
                    !.allocated = @ \cup {i},
                    !.connections[l] = c,
                    !.pendingOutbound[i] = l].refused = s.refused
      BY <1>2 DEF NodeState
    <3> QED BY <1>2, <3>1, <3>2, <3>3, SpendNothing
  <2> QED BY <2>1, <2>2
<1>4. Undisturbed
  BY <1>1, <1>3, WasUndisturbed
<1>5. Untroubled(n, s)
  BY <1>1, <1>4 DEF Paired
<1> QED BY <1>2, <1>5 DEF Untroubled

\* Nobody says goodbye undisturbed.
LEMMA HandleDisconnectPaired ==
  ASSUME IndInv, Undisturbed => Paired, NEW n \in Node, NEW m \in net,
         HandleDisconnect(n, m), Undisturbed'
  PROVE  Paired'
<1>1. PICK s, p, b, t :
        /\ s = node[n] /\ p = m.from /\ b = RemoveActivePeer(s, p)
        /\ t = IF IsPeer(s, p) /\ s.peers[p].session = m.session
               THEN [b EXCEPT !.parted = @ \cup {p}] ELSE s
  OBVIOUS
<1>2. node' = [node EXCEPT ![n] = t] /\ Take(m, {}) /\ m.type = "disconnect"
  BY <1>1 DEF HandleDisconnect
<1>3. TypeOK /\ s \in NodeState /\ p \in Node /\ faults' = 0
  BY <1>1, NodeFacts, MessageFields DEF Undisturbed
<1>4. faults = 0
  BY <1>2, <1>3, TakeOnce
<1>5. t.refused = s.refused
  <2>1. CASE IsPeer(s, p)
    <3>1. b \in NodeState /\ b.refused = s.refused
      BY <1>1, <1>3, <2>1, RemoveActivePeerFields DEF Removed, SameRest
    <3>2. [b EXCEPT !.parted = @ \cup {p}].refused = b.refused
      BY <3>1 DEF NodeState
    <3> QED BY <1>1, <3>1, <3>2
  <2>2. CASE ~ IsPeer(s, p)
    BY <1>1, <2>2
  <2> QED BY <2>1, <2>2
<1>6. Undisturbed
  BY <1>1, <1>2, <1>4, <1>5, WasUndisturbed
<1> QED BY <1>2, <1>6 DEF Paired, UntroubledMessage

LEMMA GuestsLeavePaired ==
  ASSUME IndInv, Undisturbed => Paired, NEW n \in Node, GuestsLeave(n), Undisturbed'
  PROVE  Paired'
<1>1. PICK s, t : s = node[n] /\ t = [s EXCEPT !.guests = 0]
  OBVIOUS
<1>2. node' = [node EXCEPT ![n] = t] /\ net' = net /\ faults = 0
  BY <1>1 DEF GuestsLeave, Undisturbed
<1>3. /\ t.connections = s.connections /\ t.peers = s.peers /\ t.retry = s.retry
      /\ t.epoch = s.epoch /\ t.starting = s.starting /\ t.refused = s.refused
  BY <1>1, NodeFacts DEF NodeState
<1>4. Paired
  BY <1>1, <1>2, <1>3, WasUndisturbed
<1>5. Untroubled(n, s)
  BY <1>1, <1>4 DEF Paired
<1>6. Untroubled(n, t)
  BY <1>3, <1>5 DEF Untroubled, IsPeer
<1>7. \A q \in Node : SameTo(s, t, q)
  BY <1>3, CallsSame DEF SameTo
<1> QED BY <1>1, <1>2, <1>4, <1>6, <1>7, SilentStep

\* The steps that are a fault.
LEMMA FaultySteps ==
  ASSUME IndInv, Undisturbed'
  PROVE  /\ ~ Lose
         /\ \A n \in Node : /\ \A orderly \in BOOLEAN : ~ Restart(n, orderly)
                            /\ ~ GuestsJoin(n)
                            /\ \A m \in net : ~ Msg1SendFails(n, m)
         /\ \A n, p \in Node : ~ ApiConnect(n, p) /\ ~ ApiDisconnect(n, p)
<1>1. ~ (faults' = faults + 1)
  <2>1. TypeOK /\ faults' = 0
    BY DEF IndInv, Undisturbed
  <2> QED BY <2>1, FaultDisturbs
<1> QED BY ZenonT(30), <1>1 DEF Lose, Restart, GuestsJoin, Msg1SendFails, ApiConnect, ApiDisconnect

LEMMA NextPaired ==
  ASSUME IndInv, Undisturbed => Paired, [Next]_vars, Undisturbed'
  PROVE  Paired'
<1>1. CASE Next
  <2>1. ASSUME NEW n \in Node, Receive(n) PROVE Paired'
    <3>1. PICK m \in net : /\ m.to = n
                           /\ HandleMsg1(n, m) \/ HandleMsg2(n, m) \/ HandleDisconnect(n, m)
      BY <2>1 DEF Receive
    <3>2. CASE HandleMsg1(n, m)
      BY <3>1, <3>2, Msg1KnownPaired, Msg1NewPaired, FaultySteps DEF HandleMsg1
    <3>3. CASE HandleMsg2(n, m)
      BY <3>1, <3>3, Msg2StalePaired, Msg2FailedPaired, Msg2CrossPaired, Msg2NewPaired
         DEF HandleMsg2
    <3>4. CASE HandleDisconnect(n, m)
      BY <3>4, HandleDisconnectPaired
    <3> QED BY <3>1, <3>2, <3>3, <3>4
  <2>2. ASSUME NEW n \in Node, Tick(n) PROVE Paired'
    BY <2>2, StartPaired, ProcessRetryPaired, ResendPaired, CheckTimeoutPaired DEF Tick
  <2>3. ASSUME NEW n \in Node, NEW p \in Node,
               LinkDead(n, p) \/ Age(n, p) \/ ApiConnect(n, p) \/ ApiDisconnect(n, p)
        PROVE  Paired'
    BY <2>3, LinkDeadPaired, AgePaired, FaultySteps
  <2>4. ASSUME NEW n \in Node, NEW orderly \in BOOLEAN, Restart(n, orderly) PROVE Paired'
    BY <2>4, FaultySteps
  <2>5. ASSUME NEW n \in Node, GuestsJoin(n) \/ GuestsLeave(n) PROVE Paired'
    BY <2>5, GuestsLeavePaired, FaultySteps
  <2> QED BY <1>1, <2>1, <2>2, <2>3, <2>4, <2>5, FaultySteps DEF Next
<1>2. CASE UNCHANGED vars
  <2>1. node' = node /\ net' = net /\ faults' = faults
    BY <1>2 DEF vars
  <2>2. Paired
    BY <2>1 DEF Undisturbed
  <2>3. ASSUME NEW x \in Node, NEW y \in Node, x # y, NEW u, NEW v, u = node'[x], v = node'[y]
        PROVE  Half(x, y, u, v, net')
    BY <2>1, <2>2, <2>3 DEF Paired
  <2> QED BY <2>1, <2>2, <2>3 DEF Paired
<1> QED BY <1>1, <1>2

LEMMA InitPaired == Init => Paired
<1> SUFFICES ASSUME Init PROVE Paired
  OBVIOUS
<1>1. net = {} /\ \A n \in Node : node[n] = Fresh(n, 0)
  BY DEF Init
<1>2. ASSUME NEW n \in Node, NEW s, s = node[n]
      PROVE  /\ Untroubled(n, s) /\ \A p \in Node : ~ IsPeer(s, p)
             /\ \A p : Calls(s, p) = {}
  <2>1. s = Fresh(n, 0)
    BY <1>1, <1>2
  <2>2. /\ s.epoch = 0 /\ s.starting = AutoConnect[n]
        /\ \A l \in LinkId : s.connections[l] = None
        /\ \A p \in Node : s.peers[p] = None /\ s.retry[p] = None
    BY <2>1 DEF Fresh
  <2>3. Untroubled(n, s) /\ \A p \in Node : ~ IsPeer(s, p)
    BY <2>2, ConfigAssumption DEF Untroubled, IsPeer
  <2>4. \A p : Calls(s, p) = {}
    BY <2>2 DEF Calls
  <2> QED BY <2>3, <2>4
<1>3. \A x, y \in Node : Half(x, y, node[x], node[y], net)
  BY <1>1, <1>2 DEF Half, Call, Seat
<1> QED BY <1>1, <1>2, <1>3 DEF Paired

\* However two nodes dial each other, at once or in turn, with msg1 repeated, answers
\* crossed and connections timed out: as long as no message is lost, nobody restarts
\* and nobody is full, when nothing is under way between them both hold the session
\* of the same handshake or neither holds one (handle_msg1, handle_msg2 and
\* cross_connection_winner), for any number of nodes that connect to any others.
THEOREM HandshakeEndsAgree == Spec => []EndsAgree
<1>1. Init => (Undisturbed => Paired)
  BY InitPaired
<1>2. IndInv /\ (Undisturbed => Paired) /\ [Next]_vars => (Undisturbed => Paired)'
  <2>1. ASSUME IndInv, Undisturbed => Paired, [Next]_vars, Undisturbed' PROVE Paired'
    BY <2>1, NextPaired
  <2> QED BY <2>1
<1>3. (Undisturbed => Paired) => EndsAgree
  BY PairedIsMatched DEF EndsAgree, Quiet
<1> QED BY <1>1, <1>2, <1>3, Inductive, PTL DEF Spec

=============================================================================
