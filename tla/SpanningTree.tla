---------------------------- MODULE SpanningTree ----------------------------
(***************************************************************************)
(* The spanning tree of the mesh: who is root, who is whose parent, and    *)
(* the announces that spread it.                                           *)
(*                                                                         *)
(* A node keeps one declaration (parent, sequence number) and its          *)
(* coordinates, the path from itself to the root.  It tells each peer, at  *)
(* most once per announce interval; an announce it may not send yet is     *)
(* marked pending and goes out on a later tick.  A fresher announce of a   *)
(* peer makes the node choose its parent again.                            *)
(*                                                                         *)
(* The declared parent is the second node of the path (the node itself     *)
(* when it is root), because set_parent and recompute_coords run together  *)
(* in every handler; sequence and path form one record.  NodeAddrs are     *)
(* numbers: the tree only compares them.  Signatures hold: an announce     *)
(* reaches the tree as its sender wrote it.                                *)
(***************************************************************************)
EXTENDS Naturals, Sequences, FiniteSets, SequencesExt

CONSTANTS
  Node,          \* NodeAddrs
  Links,         \* the pairs of nodes whose link may go up and down
  None,          \* Option::None
  Start,         \* Start[n]: the coordinates of n at the beginning,
  Connected,     \* the links that are up then,
  Settled,       \* and whether their ends have heard each other,
  StartCost,     \* and what the links cost then (0 if not measured)
  Costs,         \* link costs a measurement may yield, in hops
  HystNum, HystDen,  \* parent_hysteresis, a fraction
  Suppressed,    \* outcomes of the hold-down and flap dampening checks
  MayLose,       \* may an announce be lost?
  Timely,        \* does an announce arrive within the announce interval?
  MaxEvents      \* bound: links that go up or down, costs that change

Link == {l \in SUBSET Node : Cardinality(l) = 2}

ASSUME NodeAssumption == Node \subseteq Nat
ASSUME NoneAssumption == None \notin [seq : Nat, path : Seq(Node)] \cup Node
ASSUME LinkAssumption == Connected \cup Links \subseteq Link
ASSUME StartAssumption ==
  /\ Start \in [Node -> Seq(Node)]
  /\ \A n \in Node :
       /\ Start[n] # <<>> /\ Head(Start[n]) = n /\ IsInjective(Start[n])
       /\ Len(Start[n]) > 1 =>
            Settled /\ {n, Start[n][2]} \in Connected
                    /\ Start[n] = <<n>> \o Start[Start[n][2]]
ASSUME CostAssumption ==
  Costs \subseteq Nat \ {0} /\ StartCost \in Costs \cup {0}
ASSUME HysteresisAssumption ==
  HystNum \in Nat /\ HystDen \in Nat \ {0} /\ HystNum <= HystDen
ASSUME ModeAssumption == {Settled, MayLose, Timely} \cup Suppressed \subseteq BOOLEAN
ASSUME BoundAssumption == MaxEvents \in Nat

\* A declaration with the ancestry it travels with.
Announce == [seq : Nat, path : Seq(Node)]
OptAnnounce == Announce \cup {None}

VARIABLES
  peers,   \* peers[n]: the nodes n holds an ActivePeer for
  own,     \* own[n]: my_declaration and my_coords
  heard,   \* heard[n][m]: peer_declarations and peer_ancestry
  cost,    \* cost[n][m]: link_cost once has_srtt, 0 before
  out,     \* out[n]: announces on the way, and the pacing of the next ones
  events   \* links that went up or down, costs that changed

vars == <<peers, own, heard, cost, out, events>>

Outbox == [air : [Node -> SUBSET Announce],  \* on the way, by receiver
           cooling : SUBSET Node,            \* told within the interval
           pending : SUBSET Node]            \* pending_tree_announce

\* Nothing is kept of a node that is no peer.
OnlyPeers ==
  \A n \in Node :
    /\ out[n].cooling \cup out[n].pending \subseteq peers[n]
    /\ \A m \in Node : heard[n][m] # None \/ cost[n][m] # 0 => m \in peers[n]

TypeOK ==
  /\ peers \in [Node -> SUBSET Node]
  /\ own \in [Node -> Announce]
  /\ heard \in [Node -> [Node -> OptAnnounce]]
  /\ cost \in [Node -> [Node -> Costs \cup {0}]]
  /\ out \in [Node -> Outbox]
  /\ events \in 0 .. MaxEvents
  /\ OnlyPeers

Linked(n) == {m \in Node : {n, m} \in Connected}

Init ==
  /\ peers = [n \in Node |-> Linked(n)]
  /\ own = [n \in Node |-> [seq |-> 1, path |-> Start[n]]]
  /\ heard = [n \in Node |-> [m \in Node |->
       IF Settled /\ m \in Linked(n) THEN own[m] ELSE None]]
  /\ cost = [n \in Node |-> [m \in Node |->
       IF m \in Linked(n) THEN StartCost ELSE 0]]
  /\ out = [n \in Node |->
       [air |-> [m \in Node |->
          IF m \in Linked(n) /\ ~Settled THEN {own[n]} ELSE {}],
        cooling |-> IF Settled THEN {} ELSE Linked(n),
        pending |-> {}]]
  /\ events = 0

-----------------------------------------------------------------------------
(* Choosing a parent.  `known` is what the node has heard from each peer,  *)
(* `rtt` its row of measured costs.                                        *)

Depth(path) == Len(path) - 1
HeardFrom(known) == {m \in Node : known[m] # None}
Roots(known) == {Last(known[m].path) : m \in HeardFrom(known)}
SmallestRoot(known) == CHOOSE r \in Roots(known) : \A s \in Roots(known) : r <= s
Measured(rtt) == {m \in Node : rtt[m] # 0}

\* Until something is measured, every link counts as one hop.
EffectiveDepth(known, rtt, m) ==
  Depth(known[m].path) + (IF Measured(rtt) = {} THEN 1 ELSE rtt[m])

\* Wrong variant: a peer below the node itself may become its parent.
CandidatesWithoutLoopCheck(n, known, rtt) ==
  {m \in HeardFrom(known) :
     /\ Last(known[m].path) = SmallestRoot(known)
     /\ Measured(rtt) # {} => m \in Measured(rtt)}

Candidates(n, known, rtt) ==
  {m \in HeardFrom(known) :
     /\ Last(known[m].path) = SmallestRoot(known)
     /\ n \notin Range(known[m].path)
     /\ Measured(rtt) # {} => m \in Measured(rtt)}

BestCandidate(n, known, rtt) ==
  CHOOSE m \in Candidates(n, known, rtt) :
    \A k \in Candidates(n, known, rtt) :
      LET dm == EffectiveDepth(known, rtt, m)
          dk == EffectiveDepth(known, rtt, k)
      IN  dm < dk \/ (dm = dk /\ m <= k)

IsRoot(n, path) == Last(path) = n
Parent(path) == path[2]

\* No hysteresis and no hold-down applies to these switches.
MandatorySwitch(n, path, known) ==
  \/ IsRoot(n, path)
  \/ known[Parent(path)] = None
  \/ SmallestRoot(known) < Last(path)

WorthSwitching(path, known, rtt, best) ==
  LET p == Parent(path)
  IN  \/ Measured(rtt) # {} /\ p \notin Measured(rtt)
      \/ EffectiveDepth(known, rtt, best) * HystDen
           < EffectiveDepth(known, rtt, p) * (HystDen - HystNum)

EvaluateParent(n, path, known, rtt, suppressed) ==
  LET best == BestCandidate(n, known, rtt)
  IN  IF /\ Candidates(n, known, rtt) # {}
         /\ ~(IsRoot(n, path) /\ n <= SmallestRoot(known))
         /\ ~(~IsRoot(n, path) /\ Parent(path) = best)
         /\ \/ MandatorySwitch(n, path, known)
            \/ ~suppressed /\ WorthSwitching(path, known, rtt, best)
      THEN best ELSE None

\* Wrong variant: the coordinates are taken before the announce is entered.
BelowBefore(n, m, known) ==
  [seq |-> own[n].seq + 1,
   path |-> <<n>> \o (IF heard[n][m] # None THEN heard[n][m] ELSE known[m]).path]
\* Wrong variant: the sequence number is not incremented.
BelowSameSequence(n, m, known) ==
  [seq |-> own[n].seq, path |-> <<n>> \o known[m].path]

\* set_parent, sign and recompute_coords: the next declaration of n.
Below(n, m, known) == [seq |-> own[n].seq + 1, path |-> <<n>> \o known[m].path]

\* Wrong variant: becoming root does not increment the sequence number.
OwnRootSameSequence(n) == [seq |-> own[n].seq, path |-> <<n>>]

OwnRoot(n) == [seq |-> own[n].seq + 1, path |-> <<n>>]

AfterParentLost(n, known, rtt, suppressed) ==
  LET m == EvaluateParent(n, own[n].path, known, rtt, suppressed)
  IN  IF m = None THEN OwnRoot(n) ELSE Below(n, m, known)

-----------------------------------------------------------------------------
(* Announcing.                                                             *)

Announced(box, a, targets) ==
  [air |-> [m \in Node |->
     box.air[m] \cup IF m \in targets \ box.cooling THEN {a} ELSE {}],
   cooling |-> box.cooling \cup targets,
   pending |-> (box.pending \ targets) \cup (targets \cap box.cooling)]

\* The node takes a new declaration and announces it to all its peers.
Declare(n, a, boxes) ==
  /\ own' = [own EXCEPT ![n] = a]
  /\ out' = [boxes EXCEPT ![n] = Announced(@, a, peers[n])]

WithoutAir(m, n, a) == [out EXCEPT ![m].air[n] = @ \ {a}]

-----------------------------------------------------------------------------
(* handle_tree_announce, one action per way out of the handler.            *)

IsNews(n, m, a) ==
  m \in peers[n] /\ (heard[n][m] # None => a.seq > heard[n][m].seq)

\* From a node that is not a peer, or not fresher than what is known.
IgnoreAnnounce(n, m, a) ==
  /\ a \in out[m].air[n]
  /\ ~IsNews(n, m, a)
  /\ out' = WithoutAir(m, n, a)
  /\ UNCHANGED <<peers, own, heard, cost, events>>

\* What every other way through the handler has in common.
Hear(n, m, a) ==
  /\ a \in out[m].air[n]
  /\ IsNews(n, m, a)
  /\ heard' = [heard EXCEPT ![n][m] = a]
  /\ UNCHANGED <<peers, cost, events>>

Known(n, m, a) == [heard[n] EXCEPT ![m] = a]

Decision(n, m, a, suppressed) ==
  EvaluateParent(n, own[n].path, Known(n, m, a), cost[n], suppressed)

SwitchParent(n, m, a, suppressed) ==
  LET p == Decision(n, m, a, suppressed)
  IN  /\ Hear(n, m, a)
      /\ p # None
      /\ Declare(n, Below(n, p, Known(n, m, a)), WithoutAir(m, n, a))

FromParent(n, m) == ~IsRoot(n, own[n].path) /\ Parent(own[n].path) = m

\* The parent's ancestry contains the node itself.
DropLoopingParent(n, m, a, suppressed) ==
  /\ Hear(n, m, a)
  /\ Decision(n, m, a, suppressed) = None
  /\ FromParent(n, m)
  /\ n \in Range(a.path)
  /\ Declare(n, AfterParentLost(n, Known(n, m, a), cost[n], suppressed),
             WithoutAir(m, n, a))

Moved(n, path) == Last(path) # Last(own[n].path) \/ Len(path) # Len(own[n].path)

\* The same parent at another place; the peers are told of a change of root
\* or depth only.
FollowParent(n, m, a, suppressed) ==
  LET next == Below(n, m, Known(n, m, a))
  IN  /\ Hear(n, m, a)
      /\ Decision(n, m, a, suppressed) = None
      /\ FromParent(n, m)
      /\ n \notin Range(a.path)
      /\ IF Moved(n, next.path)
         THEN Declare(n, next, WithoutAir(m, n, a))
         ELSE own' = [own EXCEPT ![n] = next] /\ out' = WithoutAir(m, n, a)

NotePeer(n, m, a, suppressed) ==
  /\ Hear(n, m, a)
  /\ Decision(n, m, a, suppressed) = None
  /\ ~FromParent(n, m)
  /\ out' = WithoutAir(m, n, a)
  /\ UNCHANGED own

HandleTreeAnnounce(n, m) ==
  \E a \in out[m].air[n] :
    \/ IgnoreAnnounce(n, m, a)
    \/ \E suppressed \in Suppressed :
         \/ SwitchParent(n, m, a, suppressed)
         \/ DropLoopingParent(n, m, a, suppressed)
         \/ FollowParent(n, m, a, suppressed)
         \/ NotePeer(n, m, a, suppressed)

-----------------------------------------------------------------------------
(* check_tree_state, on the tick.                                          *)

Flushed(n) == Announced(out[n], own[n], out[n].pending \ out[n].cooling)

\* A tick on which the periodic re-evaluation is not due or changes nothing.
SendPending(n) ==
  /\ out[n].pending \ out[n].cooling # {}
  /\ out' = [out EXCEPT ![n] = Flushed(n)]
  /\ UNCHANGED <<peers, own, heard, cost, events>>

Reevaluate(n, suppressed) ==
  LET p == EvaluateParent(n, own[n].path, heard[n], cost[n], suppressed)
  IN  /\ Cardinality(peers[n]) >= 2
      /\ p # None
      /\ Declare(n, Below(n, p, heard[n]), [out EXCEPT ![n] = Flushed(n)])
      /\ UNCHANGED <<peers, heard, cost, events>>

\* A receiver report sets or changes a link's cost; the first one of a peer
\* makes the node choose its parent again.
MeasureCost(n, m, c, suppressed) ==
  LET rtt == [cost[n] EXCEPT ![m] = c]
      p == EvaluateParent(n, own[n].path, heard[n], rtt, suppressed)
  IN  /\ m \in peers[n]
      /\ c # cost[n][m]
      /\ cost[n][m] # 0 => events < MaxEvents
      /\ cost' = [cost EXCEPT ![n] = rtt]
      /\ IF cost[n][m] = 0 /\ p # None
         THEN Declare(n, Below(n, p, heard[n]), out)
         ELSE UNCHANGED <<own, out>>
      /\ events' = IF cost[n][m] # 0 THEN events + 1 ELSE events
      /\ UNCHANGED <<peers, heard>>

-----------------------------------------------------------------------------
(* Links.                                                                  *)

NoPacing(box, m) ==
  [air |-> box.air, cooling |-> box.cooling \ {m}, pending |-> box.pending \ {m}]

\* remove_active_peer: a dead link, a Disconnect, an operator's command.
\* The other side follows in its own time.
RemoveActivePeer(n, m, suppressed) ==
  LET known == [heard[n] EXCEPT ![m] = None]
      rtt   == [cost[n] EXCEPT ![m] = 0]
      box   == NoPacing(out[n], m)
  IN  /\ m \in peers[n]
      /\ n \in peers[m] => {n, m} \in Links /\ events < MaxEvents
      /\ events' = IF n \in peers[m] THEN events + 1 ELSE events
      /\ peers' = [peers EXCEPT ![n] = @ \ {m}]
      /\ heard' = [heard EXCEPT ![n] = known]
      /\ cost' = [cost EXCEPT ![n] = rtt]
      /\ IF FromParent(n, m)
         THEN /\ own' = [own EXCEPT ![n] = AfterParentLost(n, known, rtt, suppressed)]
              /\ out' = [out EXCEPT ![n] = [box EXCEPT !.pending = peers[n] \ {m}]]
         ELSE UNCHANGED own /\ out' = [out EXCEPT ![n] = box]

\* Both sides promote the link and announce to each other at once.  What was
\* on the way belongs to a session that is gone.
Greeting(n, m) ==
  [air |-> [out[n].air EXCEPT ![m] = {own[n]}],
   cooling |-> out[n].cooling \cup {m},
   pending |-> out[n].pending \ {m}]

Connect(n, m) ==
  /\ {n, m} \in Links
  /\ m \notin peers[n] /\ n \notin peers[m]
  /\ events < MaxEvents
  /\ events' = events + 1
  /\ peers' = [peers EXCEPT ![n] = @ \cup {m}, ![m] = @ \cup {n}]
  /\ out' = [out EXCEPT ![n] = Greeting(n, m), ![m] = Greeting(m, n)]
  /\ UNCHANGED <<own, heard, cost>>

-----------------------------------------------------------------------------
(* The transport and the clock.                                            *)

CoolDown(n, m) ==
  /\ m \in out[n].cooling
  /\ Timely => out[n].air[m] = {}
  /\ out' = [out EXCEPT ![n].cooling = @ \ {m}]
  /\ UNCHANGED <<peers, own, heard, cost, events>>

Lose(n, m) ==
  /\ MayLose
  /\ \E a \in out[n].air[m] : out' = WithoutAir(n, m, a)
  /\ UNCHANGED <<peers, own, heard, cost, events>>

Next ==
  \E n \in Node :
    \/ SendPending(n)
    \/ \E s \in Suppressed : Reevaluate(n, s)
    \/ \E m \in Node \ {n} :
         \/ HandleTreeAnnounce(n, m)
         \/ \E c \in Costs, s \in Suppressed : MeasureCost(n, m, c, s)
         \/ \E s \in Suppressed : RemoveActivePeer(n, m, s)
         \/ n < m /\ Connect(n, m)
         \/ CoolDown(n, m)
         \/ Lose(n, m)

Spec == Init /\ [][Next]_vars

-----------------------------------------------------------------------------
(* Properties.                                                             *)

\* Everything n has said that a peer knows or may still hear.
Published(n) ==
  (UNION {out[n].air[m] : m \in Node})
    \cup ({heard[m][n] : m \in Node} \ {None})

PathOf(n, path) ==
  path # <<>> /\ Head(path) = n /\ \A i, j \in 1 .. Len(path) : path[i] = path[j] => i = j

\* No coordinates that a node holds, has heard or may still hear contain a
\* node twice, and they begin with the node they belong to: the loop checks of
\* evaluate_parent and handle_tree_announce suffice.
SimplePaths ==
  \A n \in Node : \A a \in Published(n) \cup {own[n]} : PathOf(n, a.path)

\* A node's coordinates are its own address before the ancestry it last heard
\* from its parent, and that parent is a peer.
CoordsFollowParent ==
  \A n \in Node :
    Len(own[n].path) > 1 =>
      LET p == Parent(own[n].path)
      IN  /\ p \in peers[n] /\ heard[n][p] # None
          /\ own[n].path = <<n>> \o heard[n][p].path

\* A sequence number stands for one path, and the numbers known to others are
\* not ahead of the node's own: dropping an announce that is not fresher loses
\* nothing.
SequenceIdentifiesPath ==
  \A n \in Node : \A a, b \in Published(n) \cup {own[n]} :
    /\ a.seq <= own[n].seq
    /\ a.seq = b.seq => a = b

\* A re-evaluation would change nothing.
Stable(n) == EvaluateParent(n, own[n].path, heard[n], cost[n], FALSE) = None

\* Nothing is on the way or waits to be sent, both ends of every link know of
\* it, and the tick, which leaves a node with a single peer alone, changes nothing.
Calm ==
  \A n \in Node :
    /\ out[n].pending = {}
    /\ \A m \in Node : out[n].air[m] = {} /\ (m \in peers[n] => n \in peers[m])
    /\ Cardinality(peers[n]) >= 2 => Stable(n)

\* While only some peers of a node are measured, the others are no candidates.
EvenlyMeasured ==
  \A n \in Node : Measured(cost[n]) = IF Costs = {} THEN {} ELSE peers[n]

\* Whoever follows its parent to another place of the same root and depth keeps
\* that to itself (FollowParent), so what its peers know of its ancestry may be
\* old: one that is named in it takes the path for a loop.
AncestryIsCurrent ==
  \A n \in Node : \A p \in peers[n] : heard[n][p].path = own[p].path

\* In a calm network each node hangs one level below where its parent says it
\* is itself, and has its root.  All the nodes of a connected part agree on the
\* root if nobody holds an old ancestry and single peers, too, were looked at again.
CalmTree ==
  Calm =>
    \A n \in Node : \A p \in peers[n] :
      /\ FromParent(n, p) => /\ Last(own[p].path) = Last(own[n].path)
                             /\ Len(own[n].path) = Len(own[p].path) + 1
      /\ EvenlyMeasured /\ AncestryIsCurrent /\ (\A k \in Node : Stable(k)) =>
           Last(own[p].path) = Last(own[n].path)

=============================================================================
