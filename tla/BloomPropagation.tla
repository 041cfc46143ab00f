-------------------------- MODULE BloomPropagation --------------------------
(***************************************************************************)
(* Who is reachable through whom: the filters that travel along the tree.  *)
(*                                                                         *)
(* A node keeps the last filter of each peer and sends each peer the       *)
(* filters of its other tree neighbours together with its own address.     *)
(* Which peers are tree neighbours follows from the spanning tree, whose   *)
(* steps this module repeats with their effect on the filters.             *)
(*                                                                         *)
(* A filter is the set of addresses it was made from (no false positives,  *)
(* no leaf dependents: nothing but tests adds one).  A tick is longer than *)
(* the debounce interval and a filter is delivered within a tick, so that  *)
(* at most one is on the way to a peer and sequence numbers only tell      *)
(* which session a filter belongs to.                                      *)
(***************************************************************************)
EXTENDS SpanningTree

CONSTANTS
  InOrder,  \* does a filter wait for the announce of the tree it is made for?
  Rising    \* the links that may come up

ASSUME InOrderAssumption == InOrder \in BOOLEAN
ASSUME RisingAssumption == Rising \subseteq Links
ASSUME NoFilterAssumption == \A S \in SUBSET Node : S # None

VARIABLE bloom  \* bloom[n]: BloomState, and the inbound filters of the peers

bvars == <<vars, bloom>>

OptFilter == (SUBSET Node) \cup {None}
FilterState ==
  [inbound : [Node -> OptFilter],  \* inbound_filter of each peer
   pending : SUBSET Node,          \* pending_updates
   sent : [Node -> OptFilter],     \* last_sent_filters
   air : [Node -> OptFilter]]      \* on the way, by receiver

FilterTypeOK ==
  /\ bloom \in [Node -> FilterState]
  /\ \A n \in Node :
       /\ bloom[n].pending \subseteq peers[n]
       /\ \A m \in Node \ peers[n] : bloom[n].inbound[m] = None /\ bloom[n].sent[m] = None

NoFilters == [m \in Node |-> None]

\* m, its children, theirs and so on.
Subtree(m) ==
  {k \in Node :
     \A S \in SUBSET Node :
       m \in S /\ (\A i \in S, j \in Node : FromParent(j, i) => j \in S) => k \in S}

\* The nodes on m's side of the tree edge between n and m.
Side(n, m) ==
  IF FromParent(m, n) THEN Subtree(m)
  ELSE {k \in Node : k \notin Subtree(n) /\ Last(own[k].path) = Last(own[m].path)}

TreeEdge(n, m) == m \in peers[n] /\ (FromParent(n, m) \/ FromParent(m, n))

\* What the filter from m holds for n when the mesh is at rest.
Reached(n, m) ==
  IF TreeEdge(n, m) THEN Side(n, m) ELSE {k \in Node : Last(own[k].path) = Last(own[m].path)}

FilterInit ==
  LET held(n) == [m \in Node |->
        IF Settled /\ m \in peers[n] THEN Reached(n, m) ELSE None]
      told(n) == [m \in Node |->
        IF Settled /\ m \in peers[n] THEN Reached(m, n) ELSE None]
  IN  bloom = [n \in Node |->
        [inbound |-> held(n), pending |-> IF Settled THEN {} ELSE peers[n],
         sent |-> told(n), air |-> NoFilters]]

MeshInit == Init /\ FilterInit

-----------------------------------------------------------------------------
(* Building a filter.                                                      *)

TreePeers(n, path, known) ==
  {m \in peers[n] :
     \/ ~IsRoot(n, path) /\ Parent(path) = m
     \/ known[m] # None /\ Len(known[m].path) > 1 /\ Parent(known[m].path) = n}

\* Wrong variant: the filters of all peers are merged.
FiltersOfAllPeers(n) == {m \in peers[n] : bloom[n].inbound[m] # None}
\* peer_inbound_filters
PeerInboundFilters(n) ==
  {m \in TreePeers(n, own[n].path, heard[n]) : bloom[n].inbound[m] # None}

\* compute_outgoing_filter
Outgoing(n, inbound, sources, m) == {n} \cup UNION {inbound[k] : k \in sources \ {m}}

\* mark_update_needed, mark_all_updates_needed
Marked(n, targets) == [bloom EXCEPT ![n].pending = @ \cup targets]

-----------------------------------------------------------------------------
(* Filters are sent on the tick, after the announces that are due.         *)

Ready(n) ==
  {m \in bloom[n].pending :
     /\ bloom[n].air[m] = None
     /\ InOrder => m \notin out[n].pending /\ out[n].air[m] = {}}

SendPendingFilterAnnounces(n) ==
  LET filter(m) == Outgoing(n, bloom[n].inbound, PeerInboundFilters(n), m)
      after(last) == [m \in Node |-> IF m \in Ready(n) THEN filter(m) ELSE last[m]]
  IN  /\ Ready(n) # {}
      /\ out[n].pending \subseteq out[n].cooling
      /\ bloom' = [bloom EXCEPT ![n].pending = @ \ Ready(n),
                                ![n].sent = after(@), ![n].air = after(@)]
      /\ UNCHANGED vars

\* Wrong variant: every filter that arrives is passed on.
MarkAllPeers(n, m, inbound) == peers[n] \ {m}
\* mark_changed_peers
ChangedPeers(n, m, inbound) ==
  LET sources == {k \in TreePeers(n, own[n].path, heard[n]) : inbound[k] # None}
  IN  {k \in peers[n] \ {m} : bloom[n].sent[k] # Outgoing(n, inbound, sources, k)}

HandleFilterAnnounce(n, m) ==
  LET filter == bloom[m].air[n]
      inbound == [bloom[n].inbound EXCEPT ![m] = filter]
      arrived == [bloom EXCEPT ![m].air[n] = None]
  IN  /\ filter # None
      /\ InOrder => out[m].air[n] = {}
      /\ bloom' = IF m \in peers[n]
                  THEN [arrived EXCEPT ![n].inbound = inbound,
                          ![n].pending = @ \cup ChangedPeers(n, m, inbound)]
                  ELSE arrived
      /\ UNCHANGED vars

-----------------------------------------------------------------------------
(* The steps of the tree and what they do to the filters.                  *)

\* The peer an announce comes from, if it is a tree neighbour by it.
Welcome(n, m, a) == {m} \cap TreePeers(n, own[n].path, Known(n, m, a))

HearAnnounce(n, m) ==
  \E a \in out[m].air[n] :
    \/ IgnoreAnnounce(n, m, a) /\ UNCHANGED bloom
    \/ \E suppressed \in Suppressed :
         \/ /\ SwitchParent(n, m, a, suppressed)
            /\ bloom' = Marked(n, peers[n])
         \/ /\ DropLoopingParent(n, m, a, suppressed)
            /\ bloom' = Marked(n, {m})
         \/ /\ FollowParent(n, m, a, suppressed)
            /\ bloom' = Marked(n, IF Moved(n, own'[n].path) THEN peers[n] ELSE {m})
         \/ /\ NotePeer(n, m, a, suppressed)
            /\ bloom' = Marked(n, Welcome(n, m, a))

ChooseAgain(n, suppressed) ==
  Reevaluate(n, suppressed) /\ bloom' = Marked(n, peers[n])

ReportCost(n, m, c, suppressed) ==
  /\ MeasureCost(n, m, c, suppressed)
  /\ bloom' = IF own'[n] # own[n] THEN Marked(n, peers[n]) ELSE bloom

\* remove_peer_state and mark_all_updates_needed
ForgetPeer(n, m) ==
  [bloom EXCEPT ![n].inbound[m] = None, ![n].sent[m] = None, ![n].pending = peers[n] \ {m}]

PeerGone(n, m, suppressed) ==
  RemoveActivePeer(n, m, suppressed) /\ bloom' = ForgetPeer(n, m)

\* A filter on the way belongs to a session that is gone.
PeerNew(n, m) ==
  /\ {n, m} \in Rising
  /\ Connect(n, m)
  /\ bloom' = [bloom EXCEPT ![n].pending = @ \cup {m}, ![n].air[m] = None,
                            ![m].pending = @ \cup {n}, ![m].air[n] = None]

\* The end of an announce interval counts when an announce waits for it: had
\* it ended before, the announce would have left earlier on the same tick.
IntervalEnds(n, m) ==
  m \in out[n].pending /\ CoolDown(n, m) /\ UNCHANGED bloom

FilterNext ==
  \E n \in Node :
    \/ SendPending(n) /\ UNCHANGED bloom
    \/ \E s \in Suppressed : ChooseAgain(n, s)
    \/ SendPendingFilterAnnounces(n)
    \/ \E m \in Node \ {n} :
         \/ HearAnnounce(n, m)
         \/ \E c \in Costs, s \in Suppressed : ReportCost(n, m, c, s)
         \/ \E s \in Suppressed : PeerGone(n, m, s)
         \/ n < m /\ PeerNew(n, m)
         \/ IntervalEnds(n, m)
         \/ HandleFilterAnnounce(n, m)

FilterSpec == MeshInit /\ [][FilterNext]_bvars

\* What a node does of itself: no link goes up or down, no cost changes.
Work ==
  \E n \in Node :
    \/ SendPending(n) /\ UNCHANGED bloom
    \/ ChooseAgain(n, FALSE)
    \/ SendPendingFilterAnnounces(n)
    \/ \E m \in Node \ {n} :
         \/ HearAnnounce(n, m)
         \/ n \notin peers[m] /\ \E s \in Suppressed : PeerGone(n, m, s)
         \/ IntervalEnds(n, m)
         \/ HandleFilterAnnounce(n, m)

\* While there is something to do some node does it, in whatever order: less
\* than the tick and the transport provide.
FairFilterSpec == FilterSpec /\ WF_bvars(Work)

-----------------------------------------------------------------------------
(* Properties.                                                             *)

\* The mesh is calm and no filter is on the way or waits to be sent.
Quiet ==
  Calm /\ \A n \in Node : bloom[n].pending = {} /\ bloom[n].air = NoFilters

Missing(n, m) == Side(n, m) \ bloom[n].inbound[m]
Ghosts(n, m) == bloom[n].inbound[m] \ Side(n, m)

\* node/mod.rs:1107: "parent's filter covers nodes reachable upward, children's
\* filters cover disjoint subtrees downward".
FiltersExact ==
  Quiet =>
    \A n, m \in Node :
      TreeEdge(n, m) => bloom[n].inbound[m] # None /\ Missing(n, m) = {} /\ Ghosts(n, m) = {}

\* bloom/state.rs:150: "This prevents cascading update loops in steady state".
FiltersSettle == <>[]Quiet
=============================================================================
