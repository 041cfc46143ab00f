------------------------------ MODULE Routing -------------------------------
(***************************************************************************)
(* Session datagrams between two ends, over nodes that know the tree and   *)
(* the coordinates of the ends more or less well.                          *)
(*                                                                         *)
(* A node passes a datagram to a peer that is the destination, or to one   *)
(* strictly closer to the coordinates it has cached.  Coordinates travel   *)
(* in a setup, its ack, a warmup and the first data of a session, and warm *)
(* the caches on the way.  A node that cannot pass a datagram on tells its *)
(* source, if it can reach it.                                             *)
(*                                                                         *)
(* The mesh goes from tree to tree; a node adopts the next one in a step   *)
(* of its own, with the coordinates, links and filters it then knows its   *)
(* peers by.  Coordinates are named by the tree they belong to.  The       *)
(* handshake and the lookup are told by what they end in (EndToEndSession, *)
(* Lookup), and Src is the only end that sends data.                       *)
(***************************************************************************)
EXTENDS Integers, Sequences, FiniteSets

CONSTANTS
  Node,          \* integers: the order of the addresses counts
  Src, Dst,
  MaxTree,       \* the mesh starts with tree 1 and ends with this one
  Coord,         \* Coord[t][n]: n's path to the root in tree t, itself first
  Links,         \* Links[t][n]: the peers n can send to
  Filter,        \* Filter[t][n][e]: those whose filter holds end e
  Cost,          \* Cost[n][m]: link cost
  None,
  Ttl,           \* default_ttl
  Warmups,       \* coords_warmup_packets
  Evictable,     \* ends whose coordinates a cache may lose
  MaxAir,        \* bound: datagrams on the way
  MaxFaults      \* bound: datagrams lost, cache entries evicted, lookups that fail

Tree == 1 .. MaxTree
End == {Src, Dst}
Other(e) == IF e = Src THEN Dst ELSE Src

ASSUME NodeAssumption == Node \subseteq Int /\ IsFiniteSet(Node) /\ End \subseteq Node /\ Src # Dst /\ None \notin Int /\ Evictable \subseteq End
ASSUME BoundAssumption ==
  /\ MaxTree \in Nat \ {0} /\ Ttl \in Nat /\ Warmups \in Nat
  /\ MaxAir \in Nat \ {0} /\ MaxFaults \in Nat
ASSUME TreeAssumption ==
  /\ Coord \in [Tree -> [Node -> Seq(Node)]]
  /\ \A t \in Tree, n \in Node : Coord[t][n] # <<>> /\ Coord[t][n][1] = n
  /\ Links \in [Tree -> [Node -> SUBSET Node]]
  /\ Filter \in [Tree -> [Node -> [End -> SUBSET Node]]]
  /\ \A t \in Tree, n \in Node :
       n \notin Links[t][n] /\ \A e \in End : Filter[t][n][e] \subseteq Links[t][n]
  /\ Cost \in [Node -> [Node -> Nat]]

-----------------------------------------------------------------------------
(* Coordinates.                                                            *)

Root(c) == c[Len(c)]

\* Entries two paths have in common, counted from the root.
Shared(c, d) ==
  Cardinality({k \in 1 .. Len(c) :
    k <= Len(d) /\ \A i \in 0 .. k - 1 : c[Len(c) - i] = d[Len(d) - i]})

Far == 1000   \* usize::MAX

DistanceTo(c, d) == IF Root(c) # Root(d) THEN Far ELSE Len(c) + Len(d) - 2 * Shared(c, d)

\* From where n is in tree t to where e is in tree u.
Distance ==
  [t \in Tree |-> [n \in Node |-> [u \in Tree |-> [e \in Node |->
    DistanceTo(Coord[t][n], Coord[u][e])]]]]

Datagram == [type : {"setup", "ack", "data", "warmup", "required", "broken"},
             src : Node, dst : End, via : Node, at : Node, ttl : 0 .. Ttl,
             coords : [End -> Tree \cup {None}]]
NoCoords == [e \in End |-> None]

\* CacheEntry: the tree in which the coordinates were taken, if there is one.
Entry == Tree \cup {None}

VARIABLES
  sees,     \* sees[n]: the tree n knows
  cache,    \* cache[n][e]: coordinates of e in n's cache
  air,      \* datagrams on the way
  session,  \* Src's session with Dst
  warm,     \* coords_warmup_remaining
  lookup,   \* Src's lookup of Dst
  faults    \* faults that may still happen

vars == <<sees, cache, air, session, warm, lookup, faults>>

TypeOK ==
  /\ sees \in [Node -> Tree]
  /\ cache \in [Node -> [End -> Entry]]
  /\ air \subseteq Datagram
  /\ session \in {"none", "initiating", "established"}
  /\ warm \in 0 .. Warmups
  /\ lookup \in {"none", "pending", "backoff"}
  /\ faults \in 0 .. MaxFaults

Init ==
  /\ sees = [n \in Node |-> 1]
  /\ cache = [n \in Node |-> NoCoords]
  /\ air = {}
  /\ session = "none"
  /\ warm = 0
  /\ lookup = "none"
  /\ faults = MaxFaults

-----------------------------------------------------------------------------
(* find_next_hop.  `known` is the cache of n.                              *)

Peers(n) == Links[sees[n]][n]
Candidates(n, e) == Filter[sees[n]][n][e]

\* How far a node that n knows is from where it takes e to be.
Away(known, n, m, e) == Distance[sees[n]][m][known[e]][e]

\* Wrong variant: as close as the node itself is close enough.
NotFarther(known, n, e, peers) ==
  {m \in peers : Away(known, n, m, e) <= Away(known, n, n, e)}

Closer(known, n, e, peers) ==
  {m \in peers : Away(known, n, m, e) < Away(known, n, n, e)}

\* Closer, or just as close with a smaller address.
Nearer(known, n, e, m, k) ==
  \/ Away(known, n, m, e) < Away(known, n, k, e)
  \/ Away(known, n, m, e) = Away(known, n, k, e) /\ m < k

\* Wrong variant: whether it is closer is asked of the best candidate only.
CheapestIfCloser(known, n, e) ==
  {m \in Closer(known, n, e, Candidates(n, e)) :
     \A k \in Candidates(n, e) \ {m} :
       Cost[n][m] < Cost[n][k] \/ (Cost[n][m] = Cost[n][k] /\ Nearer(known, n, e, m, k))}

\* The best candidate that is closer, if there is one.
SelectBestCandidate(known, n, e) ==
  LET closer == Closer(known, n, e, Candidates(n, e))
  IN  {m \in closer : \A k \in closer \ {m} :
         Cost[n][m] < Cost[n][k] \/ (Cost[n][m] = Cost[n][k] /\ Nearer(known, n, e, m, k))}

\* Not into another tree.
GreedyHop(known, n, e) ==
  LET closer == {m \in Closer(known, n, e, Peers(n)) : Away(known, n, n, e) # Far}
  IN  {m \in closer : \A k \in closer \ {m} : Nearer(known, n, e, m, k)}

\* The next hop, or nothing.
NextHop(known, n, e) ==
  IF e \in Peers(n) THEN {e}
  ELSE IF known[e] = None THEN {}
  ELSE IF Candidates(n, e) # {} THEN SelectBestCandidate(known, n, e)
  ELSE GreedyHop(known, n, e)

-----------------------------------------------------------------------------
(* The source.                                                             *)

HopOf(e) == NextHop(cache[e], e, Other(e))

\* The coordinates an end puts into a datagram to the other.
Coords(known, e) == [NoCoords EXCEPT ![e] = sees[e], ![Other(e)] = known[Other(e)]]

\* What send_session_datagram sends: nothing when there is no next hop.
Sent(type, known, n, dst, coords) ==
  {[type |-> type, src |-> n, dst |-> dst, via |-> n, at |-> hop, ttl |-> Ttl, coords |-> coords] :
     hop \in NextHop(known, n, dst)}

Room == Cardinality(air) < MaxAir

MaybeInitiateLookup == lookup' = IF lookup = "none" THEN "pending" ELSE lookup

\* A packet for Dst from the TUN, no session yet.
InitiateSession ==
  /\ session = "none"
  /\ Room
  /\ air' = air \cup Sent("setup", cache[Src], Src, Dst, Coords(cache[Src], Src))
  /\ IF HopOf(Src) = {}
       THEN MaybeInitiateLookup /\ UNCHANGED session
       ELSE session' = "initiating" /\ UNCHANGED lookup
  /\ UNCHANGED <<sees, cache, warm, faults>>

\* The handshake was not answered in time; nothing of it is on the way then.
HandshakeTimeout ==
  /\ session = "initiating"
  /\ \A m \in air : m.type \notin {"setup", "ack"}
  /\ session' = "none"
  /\ UNCHANGED <<sees, cache, air, warm, lookup, faults>>

\* The count goes down also when there is no next hop.
SendSessionData ==
  /\ session = "established"
  /\ Room
  /\ air' = air \cup Sent("data", cache[Src], Src, Dst,
                          IF warm > 0 THEN Coords(cache[Src], Src) ELSE NoCoords)
  /\ warm' = IF warm > 0 THEN warm - 1 ELSE 0
  /\ UNCHANGED <<sees, cache, session, lookup, faults>>

\* What cannot be sent does not count as activity; a lookup ends sooner.
PurgeIdleSession ==
  /\ session = "established"
  /\ HopOf(Src) = {}
  /\ lookup # "pending"
  /\ session' = "none"
  /\ UNCHANGED <<sees, cache, air, warm, lookup, faults>>

\* insert_with_path_mtu: an entry is made, or written over.
Inserted(n, e, t) == [cache EXCEPT ![n][e] = t]

LookupFound ==
  /\ lookup = "pending"
  /\ lookup' = "none"
  /\ cache' = Inserted(Src, Dst, sees[Dst])
  /\ warm' = IF session = "established" THEN Warmups ELSE warm
  /\ UNCHANGED <<sees, air, session, faults>>

LookupFails ==
  /\ lookup = "pending"
  /\ faults > 0
  /\ faults' = faults - 1
  /\ lookup' = "backoff"
  /\ UNCHANGED <<sees, cache, air, session, warm>>

BackoffEnds ==
  /\ lookup = "backoff"
  /\ lookup' = "none"
  /\ UNCHANGED <<sees, cache, air, session, warm, faults>>

-----------------------------------------------------------------------------
(* handle_session_datagram.                                                *)

\* Wrong variant: coordinates that are known are kept.
WarmedOnce(n, m) ==
  [e \in End |-> IF cache[n][e] = None THEN m.coords[e] ELSE cache[n][e]]

\* try_warm_coord_cache
Warmed(n, m) ==
  [e \in End |-> IF e # n /\ m.coords[e] # None THEN m.coords[e] ELSE cache[n][e]]

\* The link it came over is gone, or the time to live is used up.
Drop(m) ==
  /\ m.via \notin Peers(m.at) \/ m.ttl = 0
  /\ air' = air \ {m}
  /\ UNCHANGED <<sees, cache, session, warm, lookup, faults>>

\* The route is looked up with the coordinates just cached.
Receive(m) ==
  /\ m.via \in Peers(m.at) /\ m.ttl > 0
  /\ cache' = [cache EXCEPT ![m.at] = Warmed(m.at, m)]

Forward(m) ==
  /\ m.at # m.dst
  /\ Receive(m)
  /\ \E hop \in NextHop(Warmed(m.at, m), m.at, m.dst) :
       air' = (air \ {m}) \cup {[m EXCEPT !.via = m.at, !.at = hop, !.ttl = @ - 1]}
  /\ UNCHANGED <<sees, session, warm, lookup, faults>>

\* CoordsRequired or PathBroken
ErrorSignal(known, dst) == IF known[dst] = None THEN "required" ELSE "broken"

\* send_routing_error; a signal that cannot be passed on goes back to a router,
\* which makes nothing of it.
SendRoutingError(m) ==
  LET known == Warmed(m.at, m)
      type == ErrorSignal(known, m.dst)
  IN  /\ m.at # m.dst /\ NextHop(known, m.at, m.dst) = {}
      /\ Receive(m)
      /\ air' = (air \ {m}) \cup
           (IF m.src \in End THEN Sent(type, known, m.at, m.src, NoCoords) ELSE {})
      /\ UNCHANGED <<sees, session, warm, lookup, faults>>

\* handle_session_setup: the answer carries the coordinates just cached.
DeliverSetup(m) ==
  LET known == Warmed(Dst, m)
  IN  /\ m.at = Dst /\ m.type = "setup"
      /\ Receive(m)
      /\ air' = (air \ {m}) \cup Sent("ack", known, Dst, Src, Coords(known, Dst))
      /\ UNCHANGED <<sees, session, warm, lookup, faults>>

DeliverAck(m) ==
  /\ m.at = Src /\ m.type = "ack"
  /\ Receive(m)
  /\ air' = air \ {m}
  /\ IF session = "initiating"
       THEN session' = "established" /\ warm' = Warmups
       ELSE UNCHANGED <<session, warm>>
  /\ UNCHANGED <<sees, lookup, faults>>

DeliverData(m) ==
  /\ m.at = Dst /\ m.type \in {"data", "warmup"}
  /\ Receive(m)
  /\ air' = air \ {m}
  /\ UNCHANGED <<sees, session, warm, lookup, faults>>

\* handle_coords_required, handle_path_broken: the warmup goes out first, with
\* the coordinates that are then removed, unless one went out a moment ago.
\* Dst hears of its ack only and goes on waiting.
DeliverError(m) ==
  /\ m.at = m.dst /\ m.type \in {"required", "broken"}
  /\ m.via \in Peers(m.at) /\ m.ttl > 0
  /\ cache' = IF m.type = "broken" THEN [cache EXCEPT ![m.at][Other(m.at)] = None] ELSE cache
  /\ \/ air' = air \ {m}
     \/ /\ m.at = Src /\ session = "established"
        /\ air' = (air \ {m}) \cup Sent("warmup", cache[Src], Src, Dst, Coords(cache[Src], Src))
  /\ IF m.at = Src
       THEN MaybeInitiateLookup /\ warm' = (IF session # "none" THEN Warmups ELSE warm)
       ELSE UNCHANGED <<lookup, warm>>
  /\ UNCHANGED <<sees, session, faults>>

HandleSessionDatagram(m) ==
  \/ Drop(m)
  \/ Forward(m)
  \/ SendRoutingError(m)
  \/ DeliverSetup(m)
  \/ DeliverAck(m)
  \/ DeliverData(m)
  \/ DeliverError(m)

-----------------------------------------------------------------------------
(* What happens around them.                                               *)

\* A node whose own coordinates change forgets all others and every backoff,
\* unless it was the loss of its parent that moved it.
Moves(n) == Coord[sees[n] + 1][n] # Coord[sees[n]][n]
ParentLost(n) == Len(Coord[sees[n]][n]) > 1 /\ Coord[sees[n]][n][2] \notin Links[sees[n] + 1][n]

Adopt(n) ==
  /\ sees[n] < MaxTree
  /\ sees' = [sees EXCEPT ![n] = @ + 1]
  /\ \/ /\ Moves(n)
        /\ cache' = [cache EXCEPT ![n] = NoCoords]
        /\ lookup' = IF n = Src /\ lookup = "backoff" THEN "none" ELSE lookup
     \/ (Moves(n) => ParentLost(n)) /\ UNCHANGED <<cache, lookup>>
  /\ UNCHANGED <<air, session, warm, faults>>

Lose(m) ==
  /\ faults > 0
  /\ faults' = faults - 1
  /\ air' = air \ {m}
  /\ UNCHANGED <<sees, cache, session, warm, lookup>>

\* An entry expires, or makes room for another.
Evict(n, e) ==
  /\ cache[n][e] # None
  /\ faults > 0
  /\ faults' = faults - 1
  /\ cache' = [cache EXCEPT ![n][e] = None]
  /\ UNCHANGED <<sees, air, session, warm, lookup>>

Next ==
  \/ InitiateSession
  \/ HandshakeTimeout
  \/ SendSessionData
  \/ PurgeIdleSession
  \/ LookupFound
  \/ LookupFails
  \/ BackoffEnds
  \/ \E m \in air : HandleSessionDatagram(m) \/ Lose(m)
  \/ \E n \in Node : Adopt(n) \/ \E e \in Evictable : Evict(n, e)

Spec == Init /\ [][Next]_vars

Timer == HandshakeTimeout \/ PurgeIdleSession \/ LookupFound \/ BackoffEnds

\* The application goes on sending, datagrams are handled, timers run out, and
\* the next tree reaches every node.
FairSpec ==
  /\ Spec
  /\ WF_vars(InitiateSession \/ SendSessionData)
  /\ WF_vars(Timer)
  /\ WF_vars(\E m \in air : HandleSessionDatagram(m))
  /\ WF_vars(\E n \in Node : Adopt(n))

-----------------------------------------------------------------------------
(* Properties.                                                             *)

\* All nodes know the same tree, and no cache or datagram has coordinates of
\* another.
Settled ==
  \A n \in Node :
    /\ \A m \in Node : sees[m] = sees[n]
    /\ \A e \in End : cache[n][e] \in {None, sees[n]}
    /\ \A m \in air, e \in End : m.coords[e] \in {None, sees[n]}

\* In a settled mesh every node that passes a datagram on passes it to one that
\* is closer to the destination, so that none comes round again.
EachHopCloser ==
  [][\A m \in air : Settled /\ Forward(m) =>
       LET t == sees[m.at]
       IN  \A k \in air' \ air : Distance[t][k.at][t][m.dst] < Distance[t][m.at][t][m.dst]]_vars

\* Nobody is told that a path is broken because of the filters or the costs: in
\* a settled mesh coordinates are enough to get through.
BrokenMeansStale ==
  [][\A m \in air : Settled /\ SendRoutingError(m) => cache'[m.at][m.dst] = None]_vars

\* However the destination moves, data that is sent again and again comes
\* through again and again.
Recovers == []<>(\E m \in air : m.type = "data" /\ m.at = Dst)
=============================================================================
