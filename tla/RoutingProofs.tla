---------------------------- MODULE RoutingProofs ----------------------------
(***************************************************************************)
(* Each hop of a settled mesh is closer to the destination, whatever the   *)
(* tree, the links, the filters and the costs are.                         *)
(***************************************************************************)
EXTENDS Routing, FiniteSetTheorems, TLAPS

-----------------------------------------------------------------------------
(* Distance in the tree.                                                   *)

LEMMA NodeFacts ==
  /\ Src \in Node /\ Dst \in Node /\ End \subseteq Node /\ Src # Dst
  /\ None \notin Node /\ None \notin Tree
<1>1. Src \in End /\ Dst \in End
  BY DEF End
<1>2. End \subseteq Node /\ Node \subseteq Int /\ None \notin Int /\ Src # Dst
  BY NodeAssumption
<1>3. Tree \subseteq Int
  BY DEF Tree
<1> QED BY <1>1, <1>2, <1>3

LEMMA TreeFacts ==
  ASSUME NEW t \in Tree, NEW n \in Node
  PROVE  /\ Coord[t][n] \in Seq(Node) /\ Coord[t][n] # <<>> /\ Coord[t][n][1] = n
         /\ Links[t][n] \in SUBSET Node /\ n \notin Links[t][n]
         /\ \A e \in End : Filter[t][n][e] \subseteq Links[t][n]
<1>1. /\ Coord \in [Tree -> [Node -> Seq(Node)]] /\ Links \in [Tree -> [Node -> SUBSET Node]]
      /\ \A u \in Tree, k \in Node : Coord[u][k] # <<>> /\ Coord[u][k][1] = k
      /\ \A u \in Tree, k \in Node :
           k \notin Links[u][k] /\ \A e \in End : Filter[u][k][e] \subseteq Links[u][k]
  BY TreeAssumption
<1>2. Coord[t] \in [Node -> Seq(Node)] /\ Links[t] \in [Node -> SUBSET Node]
  BY <1>1
<1>3. Coord[t][n] \in Seq(Node) /\ Links[t][n] \in SUBSET Node
  BY <1>2
<1> QED BY <1>1, <1>3

LEMMA IntervalSize ==
  ASSUME NEW n \in Nat
  PROVE  IsFiniteSet(1 .. n) /\ Cardinality(1 .. n) = n
<1>1. 1 \in Int /\ n \in Int
  OBVIOUS
<1>2. IsFiniteSet(1 .. n) /\ Cardinality(1 .. n) = IF 1 > n THEN 0 ELSE n - 1 + 1
  BY <1>1, FS_Interval
<1> QED BY <1>2

\* The entries two paths share are entries of both.
LEMMA SharedBound ==
  ASSUME NEW c \in Seq(Node), NEW d \in Seq(Node)
  PROVE  /\ Shared(c, d) \in Nat
         /\ Shared(c, d) <= Len(c) /\ Shared(c, d) <= Len(d)
         /\ Shared(c, d) = Len(c) /\ Len(c) > 0 =>
              Len(c) <= Len(d) /\ \A i \in 0 .. Len(c) - 1 : c[Len(c) - i] = d[Len(d) - i]
<1> DEFINE A == 1 .. Len(c)
           S == {k \in A : k <= Len(d) /\ \A i \in 0 .. k - 1 : c[Len(c) - i] = d[Len(d) - i]}
<1> Len(c) \in Nat /\ Len(d) \in Nat
  OBVIOUS
<1>1. IsFiniteSet(A) /\ Cardinality(A) = Len(c)
  BY IntervalSize
<1>2. S \subseteq A /\ S \subseteq 1 .. Len(d)
  OBVIOUS
<1>3. IsFiniteSet(S) /\ Cardinality(S) \in Nat /\ Cardinality(S) <= Len(c)
  BY <1>1, <1>2, FS_Subset, FS_CardinalityType
<1>4. IsFiniteSet(1 .. Len(d)) /\ Cardinality(1 .. Len(d)) = Len(d)
  BY IntervalSize
<1>5. Cardinality(S) <= Len(d)
  BY <1>2, <1>4, FS_Subset
<1>6. ASSUME Cardinality(S) = Len(c), Len(c) > 0
      PROVE  Len(c) \in S
  <2>1. S = A
    <3> HIDE DEF S, A
    <3> QED BY <1>1, <1>2, <1>6, FS_Subset
  <2>2. Len(c) \in A
    <3>1. \A l \in Nat : l > 0 => l \in 1 .. l
      OBVIOUS
    <3>2. Len(c) > 0
      BY <1>6, Zenon
    <3> QED BY <3>1, <3>2
  <2> HIDE DEF S, A
  <2> QED BY <2>1, <2>2
<1> QED BY <1>3, <1>5, <1>6 DEF Shared

LEMMA SharedWithItself ==
  ASSUME NEW c \in Seq(Node)
  PROVE  Shared(c, c) = Len(c)
<1>0. Len(c) \in Nat
  OBVIOUS
<1>1. {k \in 1 .. Len(c) : k <= Len(c) /\ \A i \in 0 .. k - 1 : c[Len(c) - i] = c[Len(c) - i]}
        = 1 .. Len(c)
  OBVIOUS
<1>2. Len(c) \in Nat /\ Cardinality(1 .. Len(c)) = Len(c)
  BY IntervalSize
<1> QED BY <1>1, <1>2, Zenon DEF Shared

LEMMA DistanceToItself ==
  ASSUME NEW c \in Seq(Node)
  PROVE  DistanceTo(c, c) = 0
<1>1. Len(c) \in Nat /\ Shared(c, c) = Len(c)
  BY SharedWithItself
<1> QED BY <1>1 DEF DistanceTo

LEMMA DistanceToAnother ==
  ASSUME NEW c \in Seq(Node), NEW d \in Seq(Node), c # <<>>, d # <<>>, c[1] # d[1]
  PROVE  DistanceTo(c, d) \in Nat \ {0}
<1>1. Len(c) \in Nat \ {0} /\ Len(d) \in Nat \ {0}
  OBVIOUS
<1>2. CASE Root(c) # Root(d)
  BY <1>2 DEF DistanceTo, Far
<1>3. CASE Root(c) = Root(d)
  <2>1. ~ (Shared(c, d) = Len(c) /\ Len(d) = Len(c))
    <3> SUFFICES ASSUME Shared(c, d) = Len(c), Len(d) = Len(c) PROVE FALSE
      OBVIOUS
    <3>1. \A i \in 0 .. Len(c) - 1 : c[Len(c) - i] = d[Len(d) - i]
      BY <1>1, SharedBound
    <3>2. c[Len(c) - (Len(c) - 1)] = d[Len(d) - (Len(c) - 1)]
      BY <1>1, <3>1
    <3>3. c[1] = d[1]
      BY <1>1, <3>2
    <3> QED BY <3>3
  <2>2. Shared(c, d) \in Nat /\ Shared(c, d) <= Len(c) /\ Shared(c, d) <= Len(d)
    BY SharedBound
  <2>3. Len(c) + Len(d) - 2 * Shared(c, d) \in Nat \ {0}
    BY <1>1, <2>1, <2>2
  <2> QED BY <1>3, <2>3 DEF DistanceTo
<1> QED BY <1>2, <1>3

\* A node is closer to itself than any other node is to it.
LEMMA DestinationIsClosest ==
  ASSUME NEW t \in Tree, NEW n \in Node, NEW e \in Node, n # e
  PROVE  Distance[t][e][t][e] < Distance[t][n][t][e]
<1>0. /\ Coord[t][e] \in Seq(Node) /\ Coord[t][e] # <<>> /\ Coord[t][e][1] = e
      /\ Coord[t][n] \in Seq(Node) /\ Coord[t][n] # <<>> /\ Coord[t][n][1] = n
  BY TreeFacts
<1>1. DistanceTo(Coord[t][e], Coord[t][e]) = 0
  BY <1>0, DistanceToItself
<1>2. DistanceTo(Coord[t][n], Coord[t][e]) \in Nat \ {0}
  BY <1>0, DistanceToAnother
<1>3. /\ Distance[t][e][t][e] = DistanceTo(Coord[t][e], Coord[t][e])
      /\ Distance[t][n][t][e] = DistanceTo(Coord[t][n], Coord[t][e])
  BY DEF Distance
<1> QED BY <1>1, <1>2, <1>3

-----------------------------------------------------------------------------
(* Types.                                                                  *)

OptCoords == [End -> Tree \cup {None}]

LEMMA EndFacts ==
  ASSUME NEW e \in End
  PROVE  Other(e) \in End /\ e \in Node /\ Other(e) \in Node
BY NodeFacts DEF Other, End

LEMMA NextHopIsPeer ==
  ASSUME TypeOK, NEW known, NEW n \in Node, NEW e \in End
  PROVE  NextHop(known, n, e) \subseteq Peers(n) /\ Peers(n) \subseteq Node /\ n \notin Peers(n)
<1>1. sees[n] \in Tree
  BY DEF TypeOK, Entry
<1>2. Peers(n) \subseteq Node /\ n \notin Peers(n) /\ Candidates(n, e) \subseteq Peers(n)
  BY <1>1, TreeFacts DEF Peers, Candidates
<1>3. Closer(known, n, e, Candidates(n, e)) \subseteq Peers(n) /\ Closer(known, n, e, Peers(n)) \subseteq Peers(n)
  BY <1>2 DEF Closer
<1>4. SelectBestCandidate(known, n, e) \subseteq Peers(n) /\ GreedyHop(known, n, e) \subseteq Peers(n)
  BY <1>3 DEF SelectBestCandidate, GreedyHop
<1> QED BY <1>2, <1>4 DEF NextHop

LEMMA SentType ==
  ASSUME TypeOK, NEW known, NEW n \in Node, NEW dst \in End, NEW coords \in OptCoords,
         NEW type \in {"setup", "ack", "data", "warmup", "required", "broken"}
  PROVE  Sent(type, known, n, dst, coords) \subseteq Datagram
<1>1. \A hop \in NextHop(known, n, dst) : hop \in Node
  BY NextHopIsPeer
<1>2. Ttl \in 0 .. Ttl
  BY BoundAssumption
<1>3. \A hop \in Node :
        [type |-> type, src |-> n, dst |-> dst, via |-> n, at |-> hop, ttl |-> Ttl,
         coords |-> coords] \in Datagram
  BY <1>2 DEF Datagram, OptCoords
<1> QED BY <1>1, <1>3 DEF Sent

LEMMA CoordsType ==
  ASSUME TypeOK, NEW known \in OptCoords, NEW e \in End
  PROVE  Coords(known, e) \in OptCoords /\ NoCoords \in OptCoords
<1>1. NoCoords \in OptCoords
  BY DEF NoCoords, OptCoords
<1>2. sees[e] \in Tree /\ known[Other(e)] \in Tree \cup {None}
  BY EndFacts DEF TypeOK, Entry, OptCoords
<1> QED BY <1>1, <1>2 DEF Coords, OptCoords

LEMMA DatagramFacts ==
  ASSUME TypeOK, NEW m \in air
  PROVE  /\ m \in Datagram /\ m.at \in Node /\ m.dst \in End /\ m.via \in Node /\ m.src \in Node
         /\ m.coords \in OptCoords /\ cache[m.at] \in OptCoords
         /\ sees[m.at] \in Tree
<1>1. m \in Datagram
  BY DEF TypeOK, Entry
<1>2. m.at \in Node /\ m.dst \in End /\ m.via \in Node /\ m.src \in Node /\ m.coords \in OptCoords
  BY <1>1 DEF Datagram, OptCoords
<1> QED BY <1>1, <1>2 DEF TypeOK, Entry, OptCoords

LEMMA WarmedType ==
  ASSUME NEW n \in Node, NEW m, m.coords \in OptCoords, cache[n] \in OptCoords
  PROVE  Warmed(n, m) \in OptCoords
BY DEF Warmed, OptCoords

\* The datagram that is passed on.
LEMMA PassedOn ==
  ASSUME NEW m \in Datagram, m.ttl > 0, NEW hop \in Node,
         NEW k, k = [m EXCEPT !.via = m.at, !.at = hop, !.ttl = @ - 1]
  PROVE  k \in Datagram /\ k.at = hop /\ k.dst = m.dst
<1>1. /\ m.type \in {"setup", "ack", "data", "warmup", "required", "broken"}
      /\ m.src \in Node /\ m.dst \in End /\ m.at \in Node /\ m.ttl \in 0 .. Ttl
      /\ m.coords \in [End -> Tree \cup {None}]
  BY DEF Datagram
<1>2. m.ttl - 1 \in 0 .. Ttl
  BY <1>1, BoundAssumption
<1>3. k = [type |-> m.type, src |-> m.src, dst |-> m.dst, via |-> m.at, at |-> hop,
           ttl |-> m.ttl - 1, coords |-> m.coords]
  <2>1. m = [type |-> m.type, src |-> m.src, dst |-> m.dst, via |-> m.via, at |-> m.at,
             ttl |-> m.ttl, coords |-> m.coords]
    BY DEF Datagram
  <2>2. [m EXCEPT !.via = m.at]
          = [type |-> m.type, src |-> m.src, dst |-> m.dst, via |-> m.at, at |-> m.at,
             ttl |-> m.ttl, coords |-> m.coords]
    BY <2>1
  <2> DEFINE at(v, h, t) == [type |-> m.type, src |-> m.src, dst |-> m.dst, via |-> v, at |-> h,
                              ttl |-> t, coords |-> m.coords]
  <2>3. [at(m.at, m.at, m.ttl) EXCEPT !.at = hop] = at(m.at, hop, m.ttl)
    OBVIOUS
  <2>4. [at(m.at, hop, m.ttl) EXCEPT !.ttl = m.ttl - 1] = at(m.at, hop, m.ttl - 1)
    OBVIOUS
  <2>5. k = [[[m EXCEPT !.via = m.at] EXCEPT !.at = hop] EXCEPT !.ttl = @ - 1]
    OBVIOUS
  <2>6. [m EXCEPT !.via = m.at] = at(m.at, m.at, m.ttl)
    BY <2>2
  <2>7. at(m.at, hop, m.ttl).ttl = m.ttl
    OBVIOUS
  <2>8. k = at(m.at, hop, m.ttl - 1)
    <3> HIDE DEF at
    <3> QED BY <2>3, <2>4, <2>5, <2>6, <2>7, Zenon
  <2> QED BY <2>8
<1> QED BY <1>1, <1>2, <1>3 DEF Datagram

LEMMA CacheStep ==
  ASSUME TypeOK, NEW n \in Node, NEW known \in OptCoords, cache' = [cache EXCEPT ![n] = known]
  PROVE  cache' \in [Node -> OptCoords]
BY DEF TypeOK, Entry, OptCoords

LEMMA ReceiveType ==
  ASSUME TypeOK, NEW m \in air, Receive(m)
  PROVE  cache' \in [Node -> OptCoords] /\ Warmed(m.at, m) \in OptCoords /\ m.ttl > 0
BY DatagramFacts, WarmedType, CacheStep DEF Receive

LEMMA StateFacts ==
  ASSUME TypeOK
  PROVE  /\ air \subseteq Datagram /\ cache \in [Node -> OptCoords] /\ NoCoords \in OptCoords
         /\ 0 \in 0 .. Warmups /\ Warmups \in 0 .. Warmups /\ Src \in End /\ Dst \in End
         /\ cache[Src] \in OptCoords
<1>1. air \subseteq Datagram /\ cache \in [Node -> OptCoords]
  BY DEF TypeOK, Entry, OptCoords
<1>2. NoCoords \in OptCoords
  BY DEF NoCoords, OptCoords
<1>3. Src \in End /\ Dst \in End /\ Src \in Node
  BY NodeFacts DEF End
<1>4. 0 \in 0 .. Warmups /\ Warmups \in 0 .. Warmups
  BY BoundAssumption
<1> QED BY <1>1, <1>2, <1>3, <1>4

LEMMA InitType == Init => TypeOK
<1> SUFFICES ASSUME Init PROVE TypeOK
  OBVIOUS
<1>1. 1 \in Tree /\ 0 \in 0 .. Warmups /\ MaxFaults \in 0 .. MaxFaults
  BY BoundAssumption DEF Tree
<1> QED BY <1>1 DEF Init, TypeOK, Entry, NoCoords

LEMMA DatagramType ==
  ASSUME TypeOK, NEW m \in air, HandleSessionDatagram(m)
  PROVE  TypeOK'
<1>1. /\ air \subseteq Datagram /\ cache \in [Node -> OptCoords] /\ NoCoords \in OptCoords
      /\ 0 \in 0 .. Warmups /\ Warmups \in 0 .. Warmups /\ Src \in End /\ Dst \in End
  BY StateFacts
<1>2. /\ m \in Datagram /\ m.at \in Node /\ m.dst \in End
      /\ cache[m.at] \in OptCoords
  BY DatagramFacts
<1>3. SUFFICES /\ air' \subseteq Datagram /\ cache' \in [Node -> OptCoords]
               /\ session' \in {"none", "initiating", "established"}
               /\ warm' \in 0 .. Warmups
               /\ lookup' \in {"none", "pending", "backoff"}
  BY DEF TypeOK, Entry, OptCoords, HandleSessionDatagram, Drop, Forward, SendRoutingError,
         DeliverSetup, DeliverAck, DeliverData, DeliverError
<1>4. CASE Drop(m)
  BY <1>1, <1>4 DEF Drop, TypeOK, Entry
<1>5. CASE Forward(m)
  <2>1. PICK hop \in NextHop(Warmed(m.at, m), m.at, m.dst) :
          air' = (air \ {m}) \cup {[m EXCEPT !.via = m.at, !.at = hop, !.ttl = @ - 1]}
    BY <1>5 DEF Forward
  <2>2. hop \in Node
    BY <1>2, <2>1, NextHopIsPeer
  <2>3. [m EXCEPT !.via = m.at, !.at = hop, !.ttl = @ - 1] \in Datagram
    BY <1>2, <1>5, <2>2, ReceiveType, PassedOn DEF Forward
  <2> QED BY <1>1, <1>5, <2>1, <2>3, ReceiveType DEF Forward, TypeOK, Entry
<1>6. CASE SendRoutingError(m)
  <2> DEFINE type == ErrorSignal(Warmed(m.at, m), m.dst)
  <2>1. type \in {"setup", "ack", "data", "warmup", "required", "broken"}
    BY DEF ErrorSignal
  <2>2. m.src \in End => Sent(type, Warmed(m.at, m), m.at, m.src, NoCoords) \subseteq Datagram
    BY <1>1, <1>2, <2>1, SentType
  <2> HIDE DEF type
  <2>3. air' \subseteq (air \ {m}) \cup Datagram
    BY <1>6, <2>2 DEF SendRoutingError, type
  <2> QED BY <1>1, <1>6, <2>3, ReceiveType DEF SendRoutingError, TypeOK, Entry
<1>7. CASE DeliverSetup(m)
  <2>1. cache' \in [Node -> OptCoords] /\ Warmed(Dst, m) \in OptCoords
    BY <1>7, ReceiveType DEF DeliverSetup
  <2>2. Sent("ack", Warmed(Dst, m), Dst, Src, Coords(Warmed(Dst, m), Dst)) \subseteq Datagram
    BY <1>1, <2>1, CoordsType, SentType, NodeFacts
  <2> QED BY <1>1, <1>7, <2>1, <2>2 DEF DeliverSetup, TypeOK, Entry
<1>8. CASE DeliverAck(m)
  BY <1>1, <1>8, ReceiveType DEF DeliverAck, TypeOK, Entry
<1>9. CASE DeliverData(m)
  BY <1>1, <1>9, ReceiveType DEF DeliverData, TypeOK, Entry
<1>10. CASE DeliverError(m)
  <2>1. cache' \in [Node -> OptCoords]
    <3>1. [cache[m.at] EXCEPT ![Other(m.at)] = None] \in OptCoords
      BY <1>2 DEF OptCoords
    <3>2. CASE cache' = [cache EXCEPT ![m.at][Other(m.at)] = None]
      <4>1. cache' = [cache EXCEPT ![m.at] = [cache[m.at] EXCEPT ![Other(m.at)] = None]]
        BY <3>2
      <4> QED BY <1>2, <3>1, <4>1, CacheStep
    <3> QED BY <1>1, <1>10, <3>2 DEF DeliverError
  <2>2. Sent("warmup", cache[Src], Src, Dst, Coords(cache[Src], Src)) \subseteq Datagram
    <3>1. cache[Src] \in OptCoords
      BY <1>1, NodeFacts
    <3> QED BY <1>1, <3>1, CoordsType, SentType, NodeFacts
  <2>3. air' \subseteq Datagram
    BY <1>1, <1>10, <2>2 DEF DeliverError
  <2> QED BY <1>1, <1>10, <2>1, <2>3 DEF DeliverError, MaybeInitiateLookup, TypeOK, Entry
<1> QED BY <1>4, <1>5, <1>6, <1>7, <1>8, <1>9, <1>10 DEF HandleSessionDatagram

LEMMA NextType ==
  ASSUME TypeOK, [Next]_vars
  PROVE  TypeOK'
<1>1. /\ air \subseteq Datagram /\ cache \in [Node -> OptCoords] /\ NoCoords \in OptCoords
      /\ 0 \in 0 .. Warmups /\ Warmups \in 0 .. Warmups /\ Src \in End /\ Dst \in End
      /\ cache[Src] \in OptCoords
  BY StateFacts
<1>2. CASE InitiateSession
  <2>1. Sent("setup", cache[Src], Src, Dst, Coords(cache[Src], Src)) \subseteq Datagram
    BY <1>1, CoordsType, SentType, NodeFacts
  <2> QED BY <1>1, <1>2, <2>1 DEF InitiateSession, MaybeInitiateLookup, TypeOK, Entry
<1>3. CASE HandshakeTimeout
  BY <1>3 DEF HandshakeTimeout, TypeOK, Entry
<1>4. CASE SendSessionData
  <2>1. \A coords \in OptCoords : Sent("data", cache[Src], Src, Dst, coords) \subseteq Datagram
    BY <1>1, SentType, NodeFacts
  <2>2. air' \subseteq Datagram
    BY <1>1, <1>4, <2>1, CoordsType DEF SendSessionData
  <2>3. warm' \in 0 .. Warmups
    BY <1>1, <1>4, BoundAssumption DEF SendSessionData, TypeOK, Entry
  <2> QED BY <1>4, <2>2, <2>3 DEF SendSessionData, TypeOK, Entry
<1>5. CASE PurgeIdleSession
  BY <1>5 DEF PurgeIdleSession, TypeOK, Entry
<1>6. CASE LookupFound
  <2>1. cache' \in [Node -> OptCoords]
    <3>1. [cache[Src] EXCEPT ![Dst] = sees[Dst]] \in OptCoords
      BY <1>1, NodeFacts DEF OptCoords, TypeOK, Entry
    <3>2. cache' = [cache EXCEPT ![Src] = [cache[Src] EXCEPT ![Dst] = sees[Dst]]]
      BY <1>6 DEF LookupFound, Inserted
    <3> QED BY <3>1, <3>2, CacheStep, NodeFacts
  <2> QED BY <1>1, <1>6, <2>1 DEF LookupFound, Inserted, TypeOK, Entry, OptCoords
<1>7. CASE LookupFails
  BY <1>7, BoundAssumption DEF LookupFails, TypeOK, Entry
<1>8. CASE BackoffEnds
  BY <1>8 DEF BackoffEnds, TypeOK, Entry
<1>9. ASSUME NEW m \in air, HandleSessionDatagram(m)
      PROVE  TypeOK'
  BY <1>9, DatagramType
<1>10. ASSUME NEW m \in air, Lose(m)
       PROVE  TypeOK'
  BY <1>10, BoundAssumption DEF Lose, TypeOK, Entry
<1>11. ASSUME NEW n \in Node, Adopt(n)
       PROVE  TypeOK'
  <2>1. sees' \in [Node -> Tree]
    <3>1. sees[n] + 1 \in Tree
      BY <1>11, BoundAssumption DEF Adopt, TypeOK, Entry, Tree
    <3> QED BY <1>11, <3>1 DEF Adopt, TypeOK, Entry
  <2>2. cache' \in [Node -> OptCoords]
    BY <1>1, <1>11, CacheStep DEF Adopt
  <2> QED BY <1>11, <2>1, <2>2 DEF Adopt, TypeOK, Entry, OptCoords
<1>12. ASSUME NEW n \in Node, NEW e \in Evictable, Evict(n, e)
       PROVE  TypeOK'
  <2>1. cache' \in [Node -> OptCoords]
    <3>1. cache[n] \in OptCoords
      BY <1>1
    <3>2. [cache[n] EXCEPT ![e] = None] \in OptCoords
      BY <3>1 DEF OptCoords
    <3>3. cache' = [cache EXCEPT ![n] = [cache[n] EXCEPT ![e] = None]]
      BY <1>12 DEF Evict
    <3> QED BY <3>2, <3>3, CacheStep
  <2> QED BY <1>12, <2>1, BoundAssumption DEF Evict, TypeOK, Entry, OptCoords
<1>13. CASE UNCHANGED vars
  BY <1>13 DEF vars, TypeOK, Entry
<1> QED BY <1>2, <1>3, <1>4, <1>5, <1>6, <1>7, <1>8, <1>9, <1>10, <1>11, <1>12, <1>13 DEF Next

\* Caches, datagrams and the session keep their types, for every tree, set of
\* links, filter and bound.
THEOREM TypeCorrect == Spec => []TypeOK
BY InitType, NextType, PTL DEF Spec

-----------------------------------------------------------------------------
(* Each hop is closer.                                                     *)

LEMMA HopIsCloser ==
  ASSUME TypeOK, Settled, NEW m \in air, Forward(m),
         NEW k \in air' \ air
  PROVE  Distance[sees[m.at]][k.at][sees[m.at]][m.dst] < Distance[sees[m.at]][m.at][sees[m.at]][m.dst]
<1> DEFINE n == m.at
           e == m.dst
           t == sees[n]
           known == Warmed(n, m)
<1>1. m \in Datagram /\ n \in Node /\ e \in End /\ e \in Node /\ t \in Tree
  BY DatagramFacts, EndFacts
<1>2. n # e
  BY DEF Forward
<1>3. PICK hop \in NextHop(known, n, e) : k = [m EXCEPT !.via = m.at, !.at = hop, !.ttl = @ - 1]
  BY DEF Forward
<1>4. hop \in Node /\ hop \in Peers(n)
  BY <1>1, <1>3, NextHopIsPeer
<1>5. k.at = hop
  BY <1>1, <1>3, <1>4, ReceiveType, PassedOn DEF Forward
<1>6. known[e] \in {None, t}
  <2>1. m.coords[e] \in {None, t} /\ cache[n][e] \in {None, t}
    BY <1>1 DEF Settled
  <2> QED BY <1>1, <2>1 DEF Warmed
<1> HIDE DEF known
<1>7. CASE e \in Peers(n)
  <2>1. hop = e
    BY <1>3, <1>7 DEF NextHop
  <2> QED BY <1>1, <1>2, <1>5, <2>1, DestinationIsClosest
<1>8. CASE e \notin Peers(n)
  <2>1. known[e] = t
    BY <1>3, <1>6, <1>8 DEF NextHop
  <2>2. Away(known, n, hop, e) < Away(known, n, n, e)
    BY <1>3, <1>8 DEF NextHop, SelectBestCandidate, GreedyHop, Closer
  <2> QED BY <1>5, <2>1, <2>2 DEF Away
<1> QED BY <1>7, <1>8

\* In a settled mesh a datagram that find_next_hop passes on comes strictly
\* closer to its destination with every hop, in any tree, with any filters,
\* links and costs: it cannot come round.
THEOREM HopsComeCloser == Spec => EachHopCloser
<1>1. TypeOK /\ [Next]_vars =>
        [\A m \in air : Settled /\ Forward(m) =>
           LET t == sees[m.at]
           IN  \A k \in air' \ air : Distance[t][k.at][t][m.dst] < Distance[t][m.at][t][m.dst]]_vars
  BY HopIsCloser
<1> QED BY <1>1, TypeCorrect, PTL DEF Spec, EachHopCloser
=============================================================================
