------------------------ MODULE BloomPropagationProofs ------------------------
(***************************************************************************)
(* First the spanning tree alone, for every mesh, every set of link costs  *)
(* and whatever the transport loses or reorders: coordinates never contain *)
(* a node twice, and a node's coordinates are its address before what it   *)
(* last heard from its parent.  When nothing is lost, every peer has heard *)
(* where a node is, or is going to, so that a calm mesh has a tree.        *)
(*                                                                         *)
(* Then the filters, which ride on the tree without changing it: whatever  *)
(* holds of the tree holds while filters travel, and the state kept for    *)
(* the filters of a peer goes with the peer.  When nothing is lost and a   *)
(* filter waits for its announce, the filters of a quiet mesh are exact.   *)
(***************************************************************************)
EXTENDS BloomPropagation, FiniteSetTheorems, WellFoundedInduction, TLAPS

-----------------------------------------------------------------------------
(* Choosing a parent.                                                      *)

\* A non-empty set of natural numbers has a smallest one.
LEMMA SmallestOf ==
  ASSUME NEW S \in SUBSET Nat, S # {}
  PROVE  \E x \in S : \A y \in S : x <= y
<1> DEFINE R == OpToRel(<, Nat)
<1>1. \E x \in S : \A y \in S : <<y, x>> \notin R
  <2> HIDE DEF R
  <2>1. IsWellFoundedOn(R, Nat)
    BY NatLessThanWellFounded DEF R
  <2> QED BY <2>1, WFMin
<1>2. \A x, y \in Nat : y < x => <<y, x>> \in R
  BY DEF OpToRel
<1> HIDE DEF R
<1>3. PICK x \in S : \A y \in S : <<y, x>> \notin R
  BY <1>1
<1>4. \A y \in S : ~(y < x)
  BY <1>2, <1>3, Zenon
<1> QED BY <1>4

\* What a node may have heard: well-formed announces of loop-free paths.
GoodRow(known) ==
  /\ known \in [Node -> OptAnnounce]
  /\ \A m \in Node : known[m] # None => PathOf(m, known[m].path)

CostRow(rtt) == rtt \in [Node -> Costs \cup {0}]

\* The depth that a candidate would give is a number.
LEMMA EffectiveDepthNat ==
  ASSUME NEW known, NEW rtt, GoodRow(known), CostRow(rtt),
         NEW m \in Node, known[m] # None
  PROVE  EffectiveDepth(known, rtt, m) \in Nat
<1>1. known[m] \in Announce /\ PathOf(m, known[m].path)
  BY DEF GoodRow, OptAnnounce
<1>2. known[m].path \in Seq(Node) /\ known[m].path # <<>>
  BY <1>1 DEF Announce, PathOf
<1>3. Len(known[m].path) \in Nat /\ Len(known[m].path) >= 1
  BY <1>2
<1>4. Depth(known[m].path) \in Nat
  BY <1>3 DEF Depth
<1>5. rtt[m] \in Nat
  <2>1. rtt[m] \in Costs \cup {0}
    BY DEF CostRow
  <2>2. \A c \in Costs : c \in Nat
    BY CostAssumption, Zenon
  <2> QED BY <2>1, <2>2
<1> QED BY <1>4, <1>5 DEF EffectiveDepth

\* Where there are candidates, the best one is among them.
LEMMA BestIsCandidate ==
  ASSUME NEW n \in Node, NEW known, NEW rtt, GoodRow(known), CostRow(rtt),
         Candidates(n, known, rtt) # {}
  PROVE  BestCandidate(n, known, rtt) \in Candidates(n, known, rtt)
<1> DEFINE C == Candidates(n, known, rtt)
           D(m) == EffectiveDepth(known, rtt, m)
           Least == {m \in C : \A k \in C : D(m) <= D(k)}
<1>1. C \subseteq Node /\ \A m \in C : known[m] # None
  BY DEF Candidates, HeardFrom
<1>2. \A m \in C : D(m) \in Nat
  BY <1>1, EffectiveDepthNat
<1>3. C # {}
  OBVIOUS
<1>4. Least # {}
  <2> HIDE DEF C, D
  <2> DEFINE Depths == {D(m) : m \in C}
  <2>1. Depths \in SUBSET Nat /\ Depths # {}
    BY <1>2, <1>3
  <2>2. PICK d \in Depths : \A e \in Depths : d <= e
    <3> HIDE DEF Depths
    <3> QED BY <2>1, SmallestOf
  <2>3. PICK m \in C : D(m) = d
    BY <2>2
  <2> QED BY <2>2, <2>3
<1>5. Least \in SUBSET Nat
  BY <1>1, NodeAssumption
<1>6. PICK m \in Least : \A k \in Least : m <= k
  <2> HIDE DEF Least
  <2> QED BY <1>4, <1>5, SmallestOf
<1>7. \A k \in C : D(m) < D(k) \/ (D(m) = D(k) /\ m <= k)
  <2> SUFFICES ASSUME NEW k \in C, ~(D(m) < D(k))
               PROVE  D(m) = D(k) /\ m <= k
    OBVIOUS
  <2> HIDE DEF C, D
  <2>1. D(m) <= D(k) /\ m \in C
    BY <1>6
  <2>2. D(m) = D(k)
    BY <2>1, <1>2
  <2>3. k \in Least
    BY <2>2, <1>6
  <2> QED BY <2>2, <2>3, <1>6
<1>8. m \in C
  BY <1>6
<1>9. \E b \in C : \A k \in C : D(b) < D(k) \/ (D(b) = D(k) /\ b <= k)
  BY <1>7, <1>8
<1> QED BY <1>9 DEF BestCandidate

\* A parent that evaluate_parent recommends was heard from and is not below n.
LEMMA ChosenParent ==
  ASSUME NEW n \in Node, NEW path, NEW known, NEW rtt, NEW s,
         GoodRow(known), CostRow(rtt),
         NEW p, p = EvaluateParent(n, path, known, rtt, s), p # None
  PROVE  p \in Node /\ known[p] # None /\ n \notin Range(known[p].path)
<1>1. p = BestCandidate(n, known, rtt) /\ Candidates(n, known, rtt) # {}
  BY DEF EvaluateParent
<1>2. p \in Candidates(n, known, rtt)
  BY <1>1, BestIsCandidate
<1> QED BY <1>2 DEF Candidates, HeardFrom

\* A node's address before a loop-free path without it is a loop-free path.
LEMMA LongerPath ==
  ASSUME NEW n \in Node, NEW m, NEW path \in Seq(Node), PathOf(m, path),
         n \notin Range(path)
  PROVE  /\ <<n>> \o path \in Seq(Node) /\ PathOf(n, <<n>> \o path)
         /\ Len(<<n>> \o path) > 1 /\ (<<n>> \o path)[2] = m
<1> DEFINE long == <<n>> \o path
<1>1. /\ long \in Seq(Node) /\ Len(long) = Len(path) + 1 /\ Len(path) \in Nat
      /\ Len(path) >= 1
  BY DEF PathOf
<1>2. long[1] = n /\ \A i \in 2 .. Len(long) : long[i] = path[i - 1]
  BY <1>1
<1>3. \A i \in 1 .. Len(path) : path[i] # n
  BY DEF Range
<1>4. ASSUME NEW i \in 1 .. Len(long), NEW j \in 1 .. Len(long), long[i] = long[j]
      PROVE  i = j
  <2>1. CASE i = 1 /\ j = 1
    BY <2>1
  <2>2. CASE i = 1 /\ j # 1
    BY <1>1, <1>2, <1>3, <1>4, <2>2
  <2>3. CASE i # 1 /\ j = 1
    BY <1>1, <1>2, <1>3, <1>4, <2>3
  <2>4. CASE i # 1 /\ j # 1
    <3>1. i - 1 \in 1 .. Len(path) /\ j - 1 \in 1 .. Len(path)
      BY <1>1, <2>4
    <3>2. path[i - 1] = path[j - 1]
      BY <1>1, <1>2, <1>4, <2>4
    <3>3. i - 1 = j - 1
      BY <3>1, <3>2 DEF PathOf
    <3> QED BY <3>3, <1>1
  <2> QED BY <2>1, <2>2, <2>3, <2>4
<1>5. long # <<>> /\ Head(long) = n
  BY <1>1, <1>2
<1>6. long[2] = path[1] /\ path[1] = m
  BY <1>1, <1>2 DEF PathOf
<1> QED BY <1>1, <1>4, <1>5, <1>6 DEF PathOf

\* A path of its own makes a node its own root.
LEMMA ShortPath ==
  ASSUME NEW n \in Node
  PROVE  <<n>> \in Seq(Node) /\ PathOf(n, <<n>>) /\ Len(<<n>>) = 1
BY DEF PathOf

\* The declaration that hangs n below m.
LEMMA BelowIsPlace ==
  ASSUME TypeOK, NEW n \in Node, NEW m \in Node, NEW known, GoodRow(known),
         known[m] # None, n \notin Range(known[m].path)
  PROVE  LET a == Below(n, m, known)
         IN  /\ a \in Announce /\ PathOf(n, a.path)
             /\ Parent(a.path) = m /\ a.path = <<n>> \o known[m].path
<1>1. known[m] \in Announce /\ PathOf(m, known[m].path)
  BY DEF GoodRow, OptAnnounce
<1>2. known[m].path \in Seq(Node) /\ own[n].seq + 1 \in Nat
  BY <1>1 DEF Announce, TypeOK
<1> QED BY <1>1, <1>2, LongerPath DEF Below, Announce, Parent

LEMMA OwnRootIsPlace ==
  ASSUME TypeOK, NEW n \in Node
  PROVE  LET a == OwnRoot(n)
         IN  a \in Announce /\ PathOf(n, a.path) /\ Len(a.path) = 1
<1>1. own[n].seq + 1 \in Nat
  BY DEF TypeOK, Announce
<1> QED BY <1>1, ShortPath DEF OwnRoot, Announce

\* A place n may take: its own root, or below a node it heard from.
GoodPlace(n, known, a) ==
  /\ a \in Announce /\ PathOf(n, a.path)
  /\ Len(a.path) > 1 =>
       LET p == Parent(a.path)
       IN  p \in Node /\ known[p] # None /\ a.path = <<n>> \o known[p].path

LEMMA ChosenPlace ==
  ASSUME TypeOK, NEW n \in Node, NEW path, NEW known, NEW rtt, NEW s,
         GoodRow(known), CostRow(rtt),
         NEW p, p = EvaluateParent(n, path, known, rtt, s), p # None
  PROVE  GoodPlace(n, known, Below(n, p, known))
<1>1. p \in Node /\ known[p] # None /\ n \notin Range(known[p].path)
  BY ChosenParent
<1> QED BY SMTT(30), <1>1, BelowIsPlace DEF GoodPlace

LEMMA LostPlace ==
  ASSUME TypeOK, NEW n \in Node, NEW known, NEW rtt, NEW s,
         GoodRow(known), CostRow(rtt)
  PROVE  GoodPlace(n, known, AfterParentLost(n, known, rtt, s))
<1> DEFINE p == EvaluateParent(n, own[n].path, known, rtt, s)
<1>1. CASE p = None
  <2>1. AfterParentLost(n, known, rtt, s) = OwnRoot(n)
    BY <1>1 DEF AfterParentLost
  <2>2. Len(OwnRoot(n).path) = 1 /\ ~(1 > 1)
    BY OwnRootIsPlace
  <2> QED BY <2>1, <2>2, OwnRootIsPlace DEF GoodPlace
<1>2. CASE p # None
  <2>1. AfterParentLost(n, known, rtt, s) = Below(n, p, known)
    BY <1>2 DEF AfterParentLost
  <2>2. GoodPlace(n, known, Below(n, p, known))
    BY <1>2, ChosenPlace
  <2> QED BY <2>1, <2>2
<1> QED BY <1>1, <1>2

-----------------------------------------------------------------------------
(* The inductive invariant, node by node.                                  *)

\* What a node sends is well formed and loop-free, and goes to peers.
GoodBox(n, box, ps) ==
  /\ box \in Outbox
  /\ box.cooling \cup box.pending \subseteq ps
  /\ \A m \in Node : \A a \in box.air[m] : PathOf(n, a.path)

IndInv ==
  /\ TypeOK
  /\ \A n \in Node :
       /\ GoodRow(heard[n])
       /\ GoodPlace(n, heard[n], own[n])
       /\ GoodBox(n, out[n], peers[n])

LEMMA InitIndInv == Init => IndInv
<1> SUFFICES ASSUME Init PROVE IndInv
  OBVIOUS
<1> USE DEF Init
<1>1. ASSUME NEW n \in Node
      PROVE  own[n] \in Announce /\ own[n].path = Start[n] /\ PathOf(n, own[n].path)
  <2>1. Start[n] \in Seq(Node) /\ Start[n] # <<>> /\ Head(Start[n]) = n
    BY StartAssumption
  <2>2. \A i, j \in 1 .. Len(Start[n]) : Start[n][i] = Start[n][j] => i = j
    <3>1. IsInjective(Start[n])
      BY StartAssumption, Zenon
    <3>2. DOMAIN Start[n] = 1 .. Len(Start[n])
      BY <2>1
    <3> QED BY <3>1, <3>2, Zenon DEF IsInjective
  <2> QED BY <2>1, <2>2 DEF Announce, PathOf
<1>2. \A n, m \in Node : heard[n][m] # None => Settled /\ m \in Linked(n) /\ heard[n][m] = own[m]
  <2> TAKE n, m \in Node
  <2>1. heard[n][m] = IF Settled /\ m \in Linked(n) THEN own[m] ELSE None
    OBVIOUS
  <2> QED BY <2>1
<1>3. \A n \in Node : Linked(n) \subseteq Node
  BY DEF Linked
<1>4. own \in [Node -> Announce]
  BY <1>1
<1>5. heard \in [Node -> [Node -> OptAnnounce]]
  BY <1>1 DEF OptAnnounce
<1>6. cost \in [Node -> [Node -> Costs \cup {0}]]
  BY CostAssumption
<1>7. ASSUME NEW n \in Node
      PROVE  GoodBox(n, out[n], peers[n])
  BY <1>1, <1>3 DEF GoodBox, Outbox
<1>8. ASSUME NEW n \in Node
      PROVE  GoodRow(heard[n])
  BY <1>1, <1>2, <1>5 DEF GoodRow
<1>9. ASSUME NEW n \in Node, Len(own[n].path) > 1
      PROVE  LET p == Parent(own[n].path)
             IN  /\ p \in Node /\ heard[n][p] # None
                 /\ own[n].path = <<n>> \o heard[n][p].path
  <2> DEFINE p == Start[n][2]
  <2>1. own[n].path = Start[n] /\ Start[n] \in Seq(Node) /\ Len(Start[n]) > 1
    BY <1>1, <1>9, StartAssumption
  <2>2. p \in Node
    BY <2>1
  <2>3. Settled /\ {n, p} \in Connected /\ Start[n] = <<n>> \o Start[p]
    BY <2>1, StartAssumption
  <2>4. heard[n][p] = own[p]
    BY <2>2, <2>3 DEF Linked
  <2>5. own[p] # None
    BY <1>1, <2>2, NoneAssumption DEF Announce
  <2> QED BY <1>1, <2>1, <2>2, <2>3, <2>4, <2>5 DEF Parent
<1>10. ASSUME NEW n \in Node
       PROVE  GoodPlace(n, heard[n], own[n])
  BY <1>1, <1>9 DEF GoodPlace
<1>11. TypeOK
  <2>1. OnlyPeers
    BY <1>2, <1>3 DEF OnlyPeers
  <2>2. out \in [Node -> Outbox]
    BY <1>7 DEF GoodBox
  <2>3. events \in 0 .. MaxEvents
    BY BoundAssumption
  <2>4. peers \in [Node -> SUBSET Node]
    BY <1>3
  <2> QED BY <1>4, <1>5, <1>6, <2>1, <2>2, <2>3, <2>4 DEF TypeOK
<1> QED BY <1>7, <1>8, <1>10, <1>11 DEF IndInv

\* A step that gives one node another place, row, costs and peers, and leaves
\* every outbox good, keeps the invariant.
LEMMA NodeStep ==
  ASSUME IndInv, NEW n \in Node, NEW ps \in SUBSET Node, NEW row, NEW rtt, NEW a,
         peers' = [peers EXCEPT ![n] = ps],
         heard' = [heard EXCEPT ![n] = row],
         cost' = [cost EXCEPT ![n] = rtt],
         own' = [own EXCEPT ![n] = a],
         GoodRow(row), CostRow(rtt), GoodPlace(n, row, a),
         \A m \in Node : row[m] # None \/ rtt[m] # 0 => m \in ps,
         out' \in [Node -> Outbox],
         \A k \in Node : GoodBox(k, out'[k], peers'[k]),
         events' \in 0 .. MaxEvents
  PROVE  IndInv'
<1> USE DEF IndInv
<1>1. /\ peers' \in [Node -> SUBSET Node]
      /\ \A k \in Node : peers'[k] = IF k = n THEN ps ELSE peers[k]
  BY DEF TypeOK
<1>2. /\ heard' \in [Node -> [Node -> OptAnnounce]]
      /\ \A k \in Node : heard'[k] = IF k = n THEN row ELSE heard[k]
  BY DEF TypeOK, GoodRow
<1>3. /\ cost' \in [Node -> [Node -> Costs \cup {0}]]
      /\ \A k \in Node : cost'[k] = IF k = n THEN rtt ELSE cost[k]
  BY DEF TypeOK, CostRow
<1>4. /\ own' \in [Node -> Announce]
      /\ \A k \in Node : own'[k] = IF k = n THEN a ELSE own[k]
  BY DEF TypeOK, GoodPlace
<1>5. out' \in [Node -> Outbox]
  OBVIOUS
<1>6. OnlyPeers'
  <2>1. ASSUME NEW k \in Node, NEW m \in Node,
               heard'[k][m] # None \/ cost'[k][m] # 0
        PROVE  m \in peers'[k]
    BY <1>1, <1>2, <1>3, <2>1 DEF TypeOK, OnlyPeers
  <2>2. \A k \in Node : out'[k].cooling \cup out'[k].pending \subseteq peers'[k]
    BY DEF GoodBox
  <2> QED BY <2>1, <2>2 DEF OnlyPeers
<1>7. TypeOK'
  BY <1>1, <1>2, <1>3, <1>4, <1>5, <1>6 DEF TypeOK
<1>8. ASSUME NEW k \in Node
      PROVE  GoodRow(heard'[k]) /\ GoodPlace(k, heard'[k], own'[k])
  BY <1>2, <1>4
<1>9. \A k \in Node : GoodRow(heard[k])' /\ GoodPlace(k, heard[k], own[k])'
  BY <1>8 DEF GoodRow, GoodPlace
<1>10. \A k \in Node : GoodBox(k, out[k], peers[k])'
  BY DEF GoodBox
<1> QED BY <1>7, <1>9, <1>10

-----------------------------------------------------------------------------
(* Outboxes.                                                               *)

GoodBoxes(boxes) ==
  /\ boxes \in [Node -> Outbox]
  /\ \A k \in Node : GoodBox(k, boxes[k], peers[k])

LEMMA AnnouncedGood ==
  ASSUME NEW n \in Node, NEW ps \in SUBSET Node, NEW box, GoodBox(n, box, ps),
         NEW a \in Announce, PathOf(n, a.path), NEW targets \in SUBSET ps
  PROVE  GoodBox(n, Announced(box, a, targets), ps)
<1> DEFINE new == Announced(box, a, targets)
<1>1. /\ box.air \in [Node -> SUBSET Announce]
      /\ box.cooling \in SUBSET Node /\ box.pending \in SUBSET Node
  BY DEF GoodBox, Outbox
<1>2. /\ new.cooling = box.cooling \cup targets
      /\ new.pending = (box.pending \ targets) \cup (targets \cap box.cooling)
      /\ new.air = [m \in Node |->
           box.air[m] \cup IF m \in targets \ box.cooling THEN {a} ELSE {}]
  BY DEF Announced
<1>3. \A m \in Node : \A b \in new.air[m] : b \in box.air[m] \/ b = a
  BY <1>2
<1>4. new.air \in [Node -> SUBSET Announce]
  BY <1>1, <1>2
<1>5. new.cooling \in SUBSET ps /\ new.pending \in SUBSET ps
  BY <1>1, <1>2 DEF GoodBox
<1>6. new \in Outbox
  BY <1>4, <1>5 DEF Announced, Outbox
<1> QED BY <1>3, <1>5, <1>6 DEF GoodBox

LEMMA BoxesGood == IndInv => GoodBoxes(out)
BY DEF IndInv, TypeOK, GoodBoxes

\* An announce that was on the way is well formed; without it the boxes stay good.
LEMMA TakenGood ==
  ASSUME IndInv, NEW n \in Node, NEW m \in Node, NEW a \in out[m].air[n]
  PROVE  /\ a \in Announce /\ PathOf(m, a.path)
         /\ GoodBoxes(WithoutAir(m, n, a))
<1>1. /\ out \in [Node -> Outbox]
      /\ \A k \in Node : GoodBox(k, out[k], peers[k])
  BY DEF IndInv, TypeOK
<1>2. out[m].air \in [Node -> SUBSET Announce]
  BY <1>1 DEF Outbox
<1>3. a \in Announce /\ PathOf(m, a.path)
  BY <1>1, <1>2 DEF GoodBox
<1> DEFINE new == [out[m] EXCEPT !.air[n] = @ \ {a}]
<1>4. new \in Outbox /\ new.cooling = out[m].cooling /\ new.pending = out[m].pending
      /\ new.air = [out[m].air EXCEPT ![n] = @ \ {a}]
  <2> DEFINE air == [out[m].air EXCEPT ![n] = @ \ {a}]
  <2>1. out[m] \in Outbox
    BY <1>1
  <2>2. new = [out[m] EXCEPT !.air = air]
    OBVIOUS
  <2>3. air \in [Node -> SUBSET Announce]
    BY <1>2
  <2> HIDE DEF air, new
  <2>4. new \in Outbox /\ new.air = air
    BY <2>1, <2>2, <2>3 DEF Outbox
  <2>5. new.cooling = out[m].cooling /\ new.pending = out[m].pending
    BY <2>1, <2>2 DEF Outbox
  <2> QED BY <2>4, <2>5 DEF air
<1>5. \A k \in Node : new.air[k] \subseteq out[m].air[k]
  BY <1>2, <1>4
<1>6. GoodBox(m, new, peers[m])
  BY <1>1, <1>4, <1>5 DEF GoodBox
<1>7. WithoutAir(m, n, a) = [out EXCEPT ![m] = new]
  BY DEF WithoutAir
<1> HIDE DEF new
<1>8. GoodBoxes([out EXCEPT ![m] = new])
  BY <1>1, <1>4, <1>6 DEF GoodBoxes
<1> QED BY <1>3, <1>7, <1>8

\* A declaration leaves the boxes good.
LEMMA DeclareGood ==
  ASSUME peers \in [Node -> SUBSET Node], NEW n \in Node, NEW boxes, GoodBoxes(boxes),
         NEW a \in Announce, PathOf(n, a.path), Declare(n, a, boxes)
  PROVE  own' = [own EXCEPT ![n] = a] /\ GoodBoxes(out')
<1> DEFINE new == Announced(boxes[n], a, peers[n])
<1>1. GoodBox(n, new, peers[n])
  BY AnnouncedGood DEF GoodBoxes
<1>2. own' = [own EXCEPT ![n] = a] /\ out' = [boxes EXCEPT ![n] = new]
  BY DEF Declare
<1>3. new \in Outbox
  BY <1>1 DEF GoodBox
<1> HIDE DEF new
<1> QED BY <1>1, <1>2, <1>3 DEF GoodBoxes

-----------------------------------------------------------------------------
(* The actions.                                                            *)

\* NodeStep where the peers stay.
LEMMA SamePeers ==
  ASSUME IndInv, NEW n \in Node, NEW row, NEW rtt, NEW a, UNCHANGED peers,
         heard' = [heard EXCEPT ![n] = row],
         cost' = [cost EXCEPT ![n] = rtt],
         own' = [own EXCEPT ![n] = a],
         GoodRow(row), CostRow(rtt), GoodPlace(n, row, a),
         \A m \in Node : row[m] # None \/ rtt[m] # 0 => m \in peers[n],
         GoodBoxes(out'), events' \in 0 .. MaxEvents
  PROVE  IndInv'
<1>1. peers \in [Node -> SUBSET Node]
  BY DEF IndInv, TypeOK
<1>2. peers' = [peers EXCEPT ![n] = peers[n]] /\ peers[n] \in SUBSET Node
  BY <1>1
<1>3. out' \in [Node -> Outbox] /\ \A k \in Node : GoodBox(k, out'[k], peers'[k])
  BY DEF GoodBoxes
<1> QED BY <1>2, <1>3, NodeStep

\* What the invariant says of one node.
LEMMA NodeFacts ==
  ASSUME IndInv, NEW n \in Node
  PROVE  /\ GoodRow(heard[n]) /\ CostRow(cost[n])
         /\ GoodPlace(n, heard[n], own[n])
         /\ peers \in [Node -> SUBSET Node]
         /\ \A m \in Node : heard[n][m] # None \/ cost[n][m] # 0 => m \in peers[n]
         /\ heard = [heard EXCEPT ![n] = heard[n]]
         /\ cost = [cost EXCEPT ![n] = cost[n]]
         /\ own = [own EXCEPT ![n] = own[n]]
         /\ events \in 0 .. MaxEvents
BY DEF IndInv, TypeOK, OnlyPeers, CostRow

\* Steps that only touch the outboxes.
LEMMA BoxStep ==
  ASSUME IndInv, GoodBoxes(out'), UNCHANGED <<peers, own, heard, cost, events>>
  PROVE  IndInv'
<1>1. CASE Node = {}
  BY <1>1 DEF IndInv, TypeOK, OnlyPeers, GoodBoxes
<1>2. CASE Node # {}
  <2>1. PICK n \in Node : TRUE
    BY <1>2
  <2>2. /\ heard' = [heard EXCEPT ![n] = heard[n]]
        /\ cost' = [cost EXCEPT ![n] = cost[n]]
        /\ own' = [own EXCEPT ![n] = own[n]]
        /\ events' \in 0 .. MaxEvents
    BY NodeFacts
  <2> QED BY <2>2, NodeFacts, SamePeers
<1> QED BY <1>1, <1>2

\* The row after a fresh announce of m.
LEMMA HearRow ==
  ASSUME IndInv, NEW n \in Node, NEW m \in Node, NEW a, Hear(n, m, a)
  PROVE  /\ GoodRow(Known(n, m, a)) /\ Known(n, m, a)[m] = a
         /\ heard' = [heard EXCEPT ![n] = Known(n, m, a)]
         /\ \A k \in Node : Known(n, m, a)[k] # None => k \in peers[n]
         /\ \A k \in Node \ {m} : Known(n, m, a)[k] = heard[n][k]
         /\ a \in Announce /\ PathOf(m, a.path) /\ a # None
         /\ GoodBoxes(WithoutAir(m, n, a))
<1>1. a \in out[m].air[n] /\ m \in peers[n] /\ heard' = [heard EXCEPT ![n][m] = a]
  BY DEF Hear, IsNews
<1>2. a \in Announce /\ PathOf(m, a.path) /\ GoodBoxes(WithoutAir(m, n, a))
  BY <1>1, TakenGood
<1>3. a # None
  BY <1>2, NoneAssumption DEF Announce
<1>4. GoodRow(heard[n]) /\ \A k \in Node : heard[n][k] # None => k \in peers[n]
  BY NodeFacts
<1>5. heard[n] \in [Node -> OptAnnounce]
  BY <1>4 DEF GoodRow
<1>6. /\ Known(n, m, a) \in [Node -> OptAnnounce]
      /\ \A k \in Node : Known(n, m, a)[k] = IF k = m THEN a ELSE heard[n][k]
  BY <1>2, <1>5 DEF Known, OptAnnounce
<1>7. GoodRow(Known(n, m, a))
  BY <1>2, <1>4, <1>6 DEF GoodRow
<1>8. heard' = [heard EXCEPT ![n] = Known(n, m, a)]
  BY <1>1 DEF Known
<1> QED BY <1>1, <1>2, <1>3, <1>4, <1>6, <1>7, <1>8

\* A node that is below another is not its own root.
LEMMA DeepIsNotRoot ==
  ASSUME NEW n \in Node, NEW path \in Seq(Node), PathOf(n, path), Len(path) > 1
  PROVE  ~IsRoot(n, path)
<1>1. path[1] = n /\ path[Len(path)] # path[1]
  BY DEF PathOf
<1> QED BY <1>1 DEF IsRoot, Last

\* Unless m is the parent of n, the path of n does not lead through m first.
LEMMA ParentIsNot ==
  ASSUME IndInv, NEW n \in Node, NEW m \in Node, ~FromParent(n, m), Len(own[n].path) > 1
  PROVE  Parent(own[n].path) # m
<1>1. GoodPlace(n, heard[n], own[n])
  BY NodeFacts
<1>2. own[n].path \in Seq(Node) /\ PathOf(n, own[n].path)
  BY <1>1 DEF GoodPlace, Announce
<1>3. ~IsRoot(n, own[n].path)
  BY <1>2, DeepIsNotRoot
<1> QED BY <1>3 DEF FromParent

LEMMA IgnoreInv ==
  ASSUME IndInv, NEW n \in Node, NEW m \in Node, NEW a, IgnoreAnnounce(n, m, a)
  PROVE  IndInv'
<1>1. GoodBoxes(WithoutAir(m, n, a))
  BY TakenGood DEF IgnoreAnnounce
<1> QED BY <1>1, BoxStep DEF IgnoreAnnounce

\* A fresh announce after which the node stands at place b.
LEMMA HearInv ==
  ASSUME IndInv, NEW n \in Node, NEW m \in Node, NEW a, Hear(n, m, a), NEW b,
         own' = [own EXCEPT ![n] = b],
         GoodPlace(n, Known(n, m, a), b), GoodBoxes(out')
  PROVE  IndInv'
<1>1. /\ UNCHANGED <<peers, cost, events>>
      /\ cost' = [cost EXCEPT ![n] = cost[n]]
      /\ events' \in 0 .. MaxEvents
      /\ CostRow(cost[n])
      /\ \A k \in Node : cost[n][k] # 0 => k \in peers[n]
  BY NodeFacts DEF Hear
<1> DEFINE row == Known(n, m, a)
<1>2. /\ GoodRow(row) /\ heard' = [heard EXCEPT ![n] = row]
      /\ \A k \in Node : row[k] # None => k \in peers[n]
  BY HearRow
<1> HIDE DEF row
<1>3. \A k \in Node : row[k] # None \/ cost[n][k] # 0 => k \in peers[n]
  BY <1>1, <1>2
<1>4. GoodPlace(n, row, b)
  BY DEF row
<1> QED BY <1>1, <1>2, <1>3, <1>4, SamePeers

LEMMA SwitchInv ==
  ASSUME IndInv, NEW n \in Node, NEW m \in Node, NEW a, NEW s,
         SwitchParent(n, m, a, s)
  PROVE  IndInv'
<1> DEFINE p == Decision(n, m, a, s)
           b == Below(n, p, Known(n, m, a))
<1>1. /\ Hear(n, m, a) /\ p # None
      /\ Declare(n, b, WithoutAir(m, n, a))
  BY DEF SwitchParent
<1>2. GoodPlace(n, Known(n, m, a), b)
  BY <1>1, HearRow, NodeFacts, ChosenPlace DEF Decision, IndInv
<1>3. b \in Announce /\ PathOf(n, b.path)
  BY <1>2 DEF GoodPlace
<1> HIDE DEF b
<1>4. own' = [own EXCEPT ![n] = b] /\ GoodBoxes(out')
  BY <1>1, <1>3, HearRow, NodeFacts, DeclareGood
<1> QED BY <1>1, <1>2, <1>4, HearInv

LEMMA DropInv ==
  ASSUME IndInv, NEW n \in Node, NEW m \in Node, NEW a, NEW s,
         DropLoopingParent(n, m, a, s)
  PROVE  IndInv'
<1> DEFINE b == AfterParentLost(n, Known(n, m, a), cost[n], s)
<1>1. Hear(n, m, a) /\ Declare(n, b, WithoutAir(m, n, a))
  BY DEF DropLoopingParent
<1>2. GoodPlace(n, Known(n, m, a), b)
  BY <1>1, HearRow, NodeFacts, LostPlace DEF IndInv
<1>3. b \in Announce /\ PathOf(n, b.path)
  BY <1>2 DEF GoodPlace
<1> HIDE DEF b
<1>4. own' = [own EXCEPT ![n] = b] /\ GoodBoxes(out')
  BY <1>1, <1>3, HearRow, NodeFacts, DeclareGood
<1> QED BY <1>1, <1>2, <1>4, HearInv

LEMMA FollowInv ==
  ASSUME IndInv, NEW n \in Node, NEW m \in Node, NEW a, NEW s,
         FollowParent(n, m, a, s)
  PROVE  IndInv'
<1> DEFINE b == Below(n, m, Known(n, m, a))
<1>1. /\ Hear(n, m, a) /\ n \notin Range(a.path)
      /\ \/ Declare(n, b, WithoutAir(m, n, a))
         \/ own' = [own EXCEPT ![n] = b] /\ out' = WithoutAir(m, n, a)
  BY DEF FollowParent
<1>2. Known(n, m, a)[m] = a /\ a # None /\ GoodRow(Known(n, m, a))
      /\ GoodBoxes(WithoutAir(m, n, a))
  BY <1>1, HearRow
<1>3. b \in Announce /\ PathOf(n, b.path) /\ Parent(b.path) = m
      /\ b.path = <<n>> \o Known(n, m, a)[m].path
  BY <1>1, <1>2, BelowIsPlace DEF IndInv
<1>4. GoodPlace(n, Known(n, m, a), b)
  BY <1>2, <1>3 DEF GoodPlace
<1> HIDE DEF b
<1>5. own' = [own EXCEPT ![n] = b] /\ GoodBoxes(out')
  BY <1>1, <1>2, <1>3, NodeFacts, DeclareGood
<1> QED BY <1>1, <1>4, <1>5, HearInv

LEMMA NoteInv ==
  ASSUME IndInv, NEW n \in Node, NEW m \in Node, NEW a, NEW s,
         NotePeer(n, m, a, s)
  PROVE  IndInv'
<1>1. /\ Hear(n, m, a) /\ ~FromParent(n, m)
      /\ out' = WithoutAir(m, n, a) /\ own' = own
  BY DEF NotePeer
<1>2. GoodPlace(n, heard[n], own[n]) /\ own' = [own EXCEPT ![n] = own[n]]
  BY <1>1, NodeFacts
<1>3. Len(own[n].path) > 1 => Parent(own[n].path) # m
  BY <1>1, ParentIsNot
<1>4. GoodPlace(n, Known(n, m, a), own[n])
  BY <1>1, <1>2, <1>3, HearRow DEF GoodPlace
<1> QED BY <1>1, <1>2, <1>4, HearRow, HearInv

LEMMA HandleInv ==
  ASSUME IndInv, NEW n \in Node, NEW m \in Node, HandleTreeAnnounce(n, m)
  PROVE  IndInv'
BY IgnoreInv, SwitchInv, DropInv, FollowInv, NoteInv DEF HandleTreeAnnounce

LEMMA FlushedGood ==
  ASSUME IndInv, NEW n \in Node
  PROVE  GoodBoxes([out EXCEPT ![n] = Flushed(n)])
<1>1. /\ GoodBoxes(out) /\ GoodBox(n, out[n], peers[n])
      /\ out[n].pending \ out[n].cooling \in SUBSET peers[n]
      /\ peers[n] \in SUBSET Node
  BY BoxesGood, NodeFacts DEF GoodBoxes, GoodBox
<1>2. own[n] \in Announce /\ PathOf(n, own[n].path)
  BY NodeFacts DEF GoodPlace
<1>3. GoodBox(n, Flushed(n), peers[n])
  BY <1>1, <1>2, AnnouncedGood DEF Flushed
<1>4. Flushed(n) \in Outbox
  BY <1>3 DEF GoodBox
<1> QED BY <1>1, <1>3, <1>4 DEF GoodBoxes

LEMMA SendPendingInv ==
  ASSUME IndInv, NEW n \in Node, SendPending(n)
  PROVE  IndInv'
BY FlushedGood, BoxStep DEF SendPending

\* A switch that no announce brought about.
LEMMA OwnDecision ==
  ASSUME IndInv, NEW n \in Node, NEW rtt, CostRow(rtt), NEW s, NEW boxes,
         GoodBoxes(boxes),
         NEW p, p = EvaluateParent(n, own[n].path, heard[n], rtt, s), p # None,
         Declare(n, Below(n, p, heard[n]), boxes)
  PROVE  /\ GoodPlace(n, heard[n], Below(n, p, heard[n])) /\ GoodBoxes(out')
         /\ own' = [own EXCEPT ![n] = Below(n, p, heard[n])]
<1> DEFINE b == Below(n, p, heard[n])
<1>1. GoodPlace(n, heard[n], b)
  BY NodeFacts, ChosenPlace DEF IndInv
<1>2. b \in Announce /\ PathOf(n, b.path)
  BY <1>1 DEF GoodPlace
<1> QED BY <1>1, <1>2, NodeFacts, DeclareGood

LEMMA ReevaluateInv ==
  ASSUME IndInv, NEW n \in Node, NEW s, Reevaluate(n, s)
  PROVE  IndInv'
<1> DEFINE p == EvaluateParent(n, own[n].path, heard[n], cost[n], s)
           b == Below(n, p, heard[n])
<1>1. /\ p # None /\ Declare(n, b, [out EXCEPT ![n] = Flushed(n)])
      /\ UNCHANGED <<peers, heard, cost, events>>
  BY DEF Reevaluate
<1>2. /\ GoodPlace(n, heard[n], b) /\ GoodBoxes(out')
      /\ own' = [own EXCEPT ![n] = b]
  <2> DEFINE boxes == [out EXCEPT ![n] = Flushed(n)]
  <2>1. GoodBoxes(boxes) /\ CostRow(cost[n])
    BY FlushedGood, NodeFacts
  <2>2. Declare(n, b, boxes)
    BY <1>1
  <2> HIDE DEF boxes
  <2> QED BY <1>1, <2>1, <2>2, OwnDecision
<1> HIDE DEF p, b
<1>3. /\ heard' = [heard EXCEPT ![n] = heard[n]]
      /\ cost' = [cost EXCEPT ![n] = cost[n]]
      /\ events' \in 0 .. MaxEvents
  BY <1>1, NodeFacts
<1> QED BY <1>1, <1>2, <1>3, NodeFacts, SamePeers

LEMMA MeasureInv ==
  ASSUME IndInv, NEW n \in Node, NEW m \in Node, NEW c \in Costs, NEW s,
         MeasureCost(n, m, c, s)
  PROVE  IndInv'
<1> DEFINE rtt == [cost[n] EXCEPT ![m] = c]
           p == EvaluateParent(n, own[n].path, heard[n], rtt, s)
           b == Below(n, p, heard[n])
<1>1. /\ m \in peers[n] /\ cost' = [cost EXCEPT ![n] = rtt]
      /\ UNCHANGED <<peers, heard>>
      /\ \/ p # None /\ Declare(n, b, out)
         \/ UNCHANGED <<own, out>>
  BY DEF MeasureCost
<1>2. events' \in 0 .. MaxEvents
  BY NodeFacts, BoundAssumption DEF MeasureCost
<1>3. /\ CostRow(rtt)
      /\ \A k \in Node : heard[n][k] # None \/ rtt[k] # 0 => k \in peers[n]
  <2>1. cost[n] \in [Node -> Costs \cup {0}]
    BY NodeFacts DEF CostRow
  <2>2. rtt \in [Node -> Costs \cup {0}]
    BY <2>1
  <2>3. \A k \in Node : rtt[k] # 0 => k = m \/ cost[n][k] # 0
    BY <2>1
  <2> QED BY <1>1, <2>2, <2>3, NodeFacts DEF CostRow
<1> HIDE DEF rtt
<1>4. \E d : own' = [own EXCEPT ![n] = d] /\ GoodPlace(n, heard[n], d) /\ GoodBoxes(out')
  <2>1. CASE p # None /\ Declare(n, b, out)
    BY <1>3, <2>1, BoxesGood, OwnDecision
  <2>2. CASE UNCHANGED <<own, out>>
    BY <2>2, BoxesGood, NodeFacts
  <2> QED BY <1>1, <2>1, <2>2
<1>5. heard' = [heard EXCEPT ![n] = heard[n]] /\ GoodRow(heard[n])
  BY <1>1, NodeFacts
<1> HIDE DEF p, b
<1> QED BY <1>1, <1>2, <1>3, <1>4, <1>5, SamePeers

LEMMA RemoveInv ==
  ASSUME IndInv, NEW n \in Node, NEW m \in Node, NEW s, RemoveActivePeer(n, m, s)
  PROVE  IndInv'
<1> DEFINE known == [heard[n] EXCEPT ![m] = None]
           rtt   == [cost[n] EXCEPT ![m] = 0]
           box   == NoPacing(out[n], m)
           ps    == peers[n] \ {m}
           last  == [box EXCEPT !.pending = peers[n] \ {m}]
           place == AfterParentLost(n, known, rtt, s)
<1>1. /\ peers' = [peers EXCEPT ![n] = ps]
      /\ heard' = [heard EXCEPT ![n] = known] /\ cost' = [cost EXCEPT ![n] = rtt]
      /\ \/ own' = [own EXCEPT ![n] = place] /\ out' = [out EXCEPT ![n] = last]
         \/ ~FromParent(n, m) /\ own' = own /\ out' = [out EXCEPT ![n] = box]
  BY DEF RemoveActivePeer
<1>2. events' \in 0 .. MaxEvents
  BY NodeFacts, BoundAssumption DEF RemoveActivePeer
<1>3. ps \in SUBSET Node
  BY NodeFacts
<1>4. /\ GoodRow(known) /\ CostRow(rtt)
      /\ \A k \in Node : known[k] # None \/ rtt[k] # 0 => k \in ps
      /\ \A k \in Node \ {m} : known[k] = heard[n][k]
  <2>1. /\ heard[n] \in [Node -> OptAnnounce] /\ cost[n] \in [Node -> Costs \cup {0}]
        /\ \A k \in Node : heard[n][k] # None => PathOf(k, heard[n][k].path)
    BY NodeFacts DEF GoodRow, CostRow
  <2>2. known \in [Node -> OptAnnounce] /\ rtt \in [Node -> Costs \cup {0}]
    BY <2>1 DEF OptAnnounce
  <2>3. /\ \A k \in Node : known[k] = IF k = m THEN None ELSE heard[n][k]
        /\ \A k \in Node : rtt[k] = IF k = m THEN 0 ELSE cost[n][k]
    BY <2>1
  <2>4. GoodRow(known)
    BY <2>1, <2>2, <2>3 DEF GoodRow
  <2>5. CostRow(rtt)
    BY <2>2 DEF CostRow
  <2>6. ASSUME NEW k \in Node, known[k] # None \/ rtt[k] # 0
        PROVE  k \in ps
    <3>1. k # m /\ (heard[n][k] # None \/ cost[n][k] # 0)
      BY <2>3, <2>6
    <3> QED BY <3>1, NodeFacts
  <2> QED BY <2>3, <2>4, <2>5, <2>6
<1>5. GoodBox(n, box, ps) /\ GoodBox(n, last, ps)
  <2>1. GoodBox(n, out[n], peers[n])
    BY DEF IndInv
  <2>2. /\ out[n].air \in [Node -> SUBSET Announce]
        /\ out[n].cooling \in SUBSET peers[n] /\ out[n].pending \in SUBSET peers[n]
    BY <2>1 DEF GoodBox, Outbox
  <2>3. box = [air |-> out[n].air, cooling |-> out[n].cooling \ {m},
               pending |-> out[n].pending \ {m}]
    BY DEF NoPacing
  <2>4. last = [air |-> out[n].air, cooling |-> out[n].cooling \ {m}, pending |-> ps]
    BY <2>3
  <2> HIDE DEF box, last
  <2>5. box \in Outbox /\ last \in Outbox
    BY <1>3, <2>2, <2>3, <2>4 DEF Outbox
  <2>6. /\ box.cooling \cup box.pending \subseteq ps
        /\ last.cooling \cup last.pending \subseteq ps
        /\ box.air = out[n].air /\ last.air = out[n].air
    BY <2>2, <2>3, <2>4
  <2> QED BY <2>1, <2>5, <2>6 DEF GoodBox
<1> HIDE DEF rtt, box, last, place
<1>6. PICK d : own' = [own EXCEPT ![n] = d] /\ GoodPlace(n, known, d)
  <2>1. CASE own' = [own EXCEPT ![n] = place]
    <3>1. GoodPlace(n, known, place)
      BY <1>4, LostPlace DEF place, IndInv
    <3> QED BY <2>1, <3>1
  <2>2. CASE ~FromParent(n, m) /\ own' = own
    <3>1. GoodPlace(n, heard[n], own[n]) /\ own = [own EXCEPT ![n] = own[n]]
      BY NodeFacts
    <3>2. Len(own[n].path) > 1 => Parent(own[n].path) # m
      BY <2>2, ParentIsNot
    <3>3. GoodPlace(n, known, own[n])
      BY <1>4, <3>1, <3>2 DEF GoodPlace
    <3> QED BY <2>2, <3>1, <3>3
  <2> QED BY <1>1, <2>1, <2>2
<1>7. /\ out' \in [Node -> Outbox]
      /\ \A k \in Node : GoodBox(k, out'[k], peers'[k])
  <2>1. PICK new : out' = [out EXCEPT ![n] = new] /\ GoodBox(n, new, ps)
    BY <1>1, <1>5
  <2>2. GoodBoxes(out) /\ peers \in [Node -> SUBSET Node]
    BY BoxesGood, NodeFacts
  <2>3. new \in Outbox
    BY <2>1 DEF GoodBox
  <2>4. out' \in [Node -> Outbox]
    BY <2>1, <2>2, <2>3 DEF GoodBoxes
  <2>5. ASSUME NEW k \in Node
        PROVE  GoodBox(k, out'[k], peers'[k])
    <3>1. CASE k = n
      BY <1>1, <2>1, <2>2, <3>1 DEF GoodBoxes
    <3>2. CASE k # n
      BY <1>1, <2>1, <2>2, <3>2 DEF GoodBoxes
    <3> QED BY <3>1, <3>2
  <2> QED BY <2>4, <2>5
<1> HIDE DEF known, ps
<1> QED BY <1>1, <1>2, <1>3, <1>4, <1>6, <1>7, NodeStep

LEMMA GreetingGood ==
  ASSUME IndInv, NEW n \in Node, NEW m \in Node
  PROVE  GoodBox(n, Greeting(n, m), peers[n] \cup {m})
<1>1. GoodBox(n, out[n], peers[n]) /\ peers[n] \in SUBSET Node
  BY NodeFacts DEF IndInv
<1>2. /\ out[n].air \in [Node -> SUBSET Announce]
      /\ out[n].cooling \in SUBSET peers[n] /\ out[n].pending \in SUBSET peers[n]
  BY <1>1 DEF GoodBox, Outbox
<1>3. own[n] \in Announce /\ PathOf(n, own[n].path)
  BY NodeFacts DEF GoodPlace
<1> DEFINE air == [out[n].air EXCEPT ![m] = {own[n]}]
<1>4. air \in [Node -> SUBSET Announce]
  BY <1>2, <1>3
<1>5. \A k \in Node : \A a \in air[k] : PathOf(n, a.path)
  BY <1>1, <1>2, <1>3 DEF GoodBox
<1> HIDE DEF air
<1>6. Greeting(n, m) = [air |-> air, cooling |-> out[n].cooling \cup {m},
                        pending |-> out[n].pending \ {m}]
  BY DEF Greeting, air
<1> QED BY <1>1, <1>2, <1>4, <1>5, <1>6 DEF GoodBox, Outbox

LEMMA ConnectInv ==
  ASSUME IndInv, NEW n \in Node, NEW m \in Node, m # n, Connect(n, m)
  PROVE  IndInv'
<1>1. /\ peers' = [peers EXCEPT ![n] = @ \cup {m}, ![m] = @ \cup {n}]
      /\ out' = [out EXCEPT ![n] = Greeting(n, m), ![m] = Greeting(m, n)]
      /\ UNCHANGED <<own, heard, cost>> /\ events' \in 0 .. MaxEvents
  BY NodeFacts, BoundAssumption DEF Connect
<1>2. /\ peers \in [Node -> SUBSET Node] /\ out \in [Node -> Outbox]
      /\ \A k \in Node : GoodBox(k, out[k], peers[k])
  BY DEF IndInv, TypeOK
<1>3. /\ GoodBox(n, Greeting(n, m), peers[n] \cup {m})
      /\ GoodBox(m, Greeting(m, n), peers[m] \cup {n})
  BY GreetingGood
<1>4. /\ peers' \in [Node -> SUBSET Node]
      /\ \A k \in Node : peers'[k] = IF k = n THEN peers[n] \cup {m}
                                   ELSE IF k = m THEN peers[m] \cup {n} ELSE peers[k]
  BY <1>1, <1>2
<1>5. /\ out' \in [Node -> Outbox]
      /\ \A k \in Node : out'[k] = IF k = n THEN Greeting(n, m)
                                 ELSE IF k = m THEN Greeting(m, n) ELSE out[k]
  BY <1>1, <1>2, <1>3 DEF GoodBox
<1>6. ASSUME NEW k \in Node
      PROVE  GoodBox(k, out'[k], peers'[k])
  <2>1. CASE k = n
    BY <1>3, <1>4, <1>5, <2>1
  <2>2. CASE k = m /\ k # n
    BY <1>3, <1>4, <1>5, <2>2
  <2>3. CASE k # m /\ k # n
    BY <1>2, <1>4, <1>5, <2>3
  <2> QED BY <2>1, <2>2, <2>3
<1>7. OnlyPeers'
  <2>1. \A k \in Node : out'[k].cooling \cup out'[k].pending \subseteq peers'[k]
    BY <1>6 DEF GoodBox
  <2>2. \A k, j \in Node : heard[k][j] # None \/ cost[k][j] # 0 => j \in peers'[k]
    BY <1>4 DEF IndInv, TypeOK, OnlyPeers
  <2> QED BY <1>1, <2>1, <2>2 DEF OnlyPeers
<1>8. TypeOK'
  BY <1>1, <1>4, <1>5, <1>7 DEF IndInv, TypeOK
<1>9. \A k \in Node : GoodRow(heard[k])' /\ GoodPlace(k, heard[k], own[k])'
  BY <1>1 DEF IndInv, GoodRow, GoodPlace
<1>10. \A k \in Node : GoodBox(k, out[k], peers[k])'
  BY <1>6 DEF GoodBox
<1> QED BY <1>8, <1>9, <1>10 DEF IndInv

LEMMA CoolDownInv ==
  ASSUME IndInv, NEW n \in Node, NEW m \in Node, CoolDown(n, m)
  PROVE  IndInv'
<1> DEFINE box == [out[n] EXCEPT !.cooling = @ \ {m}]
<1>1. GoodBoxes(out) /\ GoodBox(n, out[n], peers[n])
  BY BoxesGood DEF GoodBoxes
<1>2. /\ box \in Outbox /\ box.air = out[n].air /\ box.pending = out[n].pending
      /\ box.cooling = out[n].cooling \ {m}
  BY <1>1 DEF GoodBox, Outbox
<1> HIDE DEF box
<1>3. GoodBox(n, box, peers[n])
  BY <1>1, <1>2 DEF GoodBox
<1>4. out' = [out EXCEPT ![n] = box]
  BY DEF CoolDown, box
<1>5. GoodBoxes(out')
  BY <1>1, <1>2, <1>3, <1>4 DEF GoodBoxes
<1> QED BY <1>5, BoxStep DEF CoolDown

LEMMA LoseInv ==
  ASSUME IndInv, NEW n \in Node, NEW m \in Node, Lose(n, m)
  PROVE  IndInv'
<1>1. PICK a \in out[n].air[m] : out' = WithoutAir(n, m, a)
  BY DEF Lose
<1>2. GoodBoxes(out')
  BY <1>1, TakenGood
<1> QED BY <1>2, BoxStep DEF Lose

LEMMA NextIndInv ==
  ASSUME IndInv, [Next]_vars
  PROVE  IndInv'
<1>1. CASE UNCHANGED vars
  BY <1>1, BoxesGood, BoxStep DEF vars, IndInv, TypeOK, OnlyPeers, GoodRow, GoodPlace, GoodBox
<1>2. ASSUME NEW n \in Node, SendPending(n)
      PROVE  IndInv'
  BY <1>2, SendPendingInv
<1>3. ASSUME NEW n \in Node, NEW s, Reevaluate(n, s)
      PROVE  IndInv'
  BY <1>3, ReevaluateInv
<1>4. ASSUME NEW n \in Node, NEW m \in Node \ {n},
             \/ HandleTreeAnnounce(n, m)
             \/ \E c \in Costs, s \in Suppressed : MeasureCost(n, m, c, s)
             \/ \E s \in Suppressed : RemoveActivePeer(n, m, s)
             \/ n < m /\ Connect(n, m)
             \/ CoolDown(n, m)
             \/ Lose(n, m)
      PROVE  IndInv'
  BY <1>4, HandleInv, MeasureInv, RemoveInv, ConnectInv, CoolDownInv, LoseInv
<1> QED BY <1>1, <1>2, <1>3, <1>4 DEF Next

-----------------------------------------------------------------------------
(* The theorems.                                                           *)

\* Every reachable state satisfies the inductive invariant.
THEOREM InductiveInvariant == Spec => []IndInv
<1>1. IndInv /\ [Next]_vars => IndInv'
  BY NextIndInv
<1> QED BY InitIndInv, <1>1, PTL DEF Spec

\* The state of every node stays well formed, and nothing is kept of a node
\* that remove_active_peer has dropped.
THEOREM TypeCorrect == Spec => []TypeOK
<1>1. IndInv => TypeOK
  BY DEF IndInv
<1> QED BY <1>1, InductiveInvariant, PTL

\* What a node has published is on the way or was heard by someone.
LEMMA PublishedCases ==
  ASSUME NEW n, NEW a, a \in Published(n)
  PROVE  \/ \E m \in Node : a \in out[n].air[m]
         \/ \E m \in Node : a = heard[m][n] /\ a # None
<1> DEFINE A == {out[n].air[m] : m \in Node}
           H == {heard[m][n] : m \in Node}
<1>1. a \in (UNION A) \cup (H \ {None})
  BY DEF Published
<1>2. CASE a \in UNION A
  <2>1. PICK S \in A : a \in S
    BY <1>2, Zenon
  <2>2. PICK m \in Node : S = out[n].air[m]
    BY <2>1, Zenon
  <2> QED BY <2>1, <2>2
<1>3. CASE a \in H /\ a # None
  <2>1. PICK m \in Node : a = heard[m][n]
    BY <1>3, Zenon
  <2> QED BY <1>3, <2>1
<1> HIDE DEF A, H
<1> QED BY <1>1, <1>2, <1>3

\* However announces are lost, delayed and reordered and links come and go, no
\* path contains a node twice: the loop checks of evaluate_parent and
\* handle_tree_announce suffice.
THEOREM PathsAreSimple == Spec => []SimplePaths
<1>1. IndInv => SimplePaths
  <2> SUFFICES ASSUME IndInv, NEW n \in Node, NEW a \in Published(n) \cup {own[n]}
               PROVE  PathOf(n, a.path)
    BY DEF SimplePaths
  <2>1. CASE a = own[n]
    BY <2>1, NodeFacts DEF GoodPlace
  <2>2. CASE \E m \in Node : a \in out[n].air[m]
    BY <2>2 DEF IndInv, GoodBox
  <2>3. CASE \E m \in Node : a = heard[m][n] /\ a # None
    <3>1. PICK m \in Node : a = heard[m][n] /\ a # None
      BY <2>3
    <3>2. GoodRow(heard[m])
      BY NodeFacts
    <3> QED BY <3>1, <3>2 DEF GoodRow
  <2>4. a = own[n] \/ a \in Published(n)
    OBVIOUS
  <2> QED BY <2>1, <2>2, <2>3, <2>4, PublishedCases
<1> QED BY <1>1, InductiveInvariant, PTL

\* A node's coordinates are always its address before the ancestry it last
\* heard from its parent, which is a peer.
THEOREM CoordsAreTheParents == Spec => []CoordsFollowParent
<1>1. IndInv => CoordsFollowParent
  BY NodeFacts DEF CoordsFollowParent, GoodPlace
<1> QED BY <1>1, InductiveInvariant, PTL

-----------------------------------------------------------------------------
(* Sequence numbers.                                                       *)

\* What a step may add to what is known of k: its old and its new place.
SaysOwn(k) ==
  /\ own'[k] = own[k] \/ own'[k].seq = own[k].seq + 1
  /\ \A j \in Node :
       /\ out'[k].air[j] \subseteq out[k].air[j] \cup {own[k], own'[k]}
       /\ heard'[j][k] \in out[k].air[j] \cup {heard[j][k], None}

\* Taking an announce from the way adds none.
LEMMA TakenAir ==
  ASSUME IndInv, NEW n \in Node, NEW m \in Node, NEW a
  PROVE  \A k, j \in Node : WithoutAir(m, n, a)[k].air[j] \subseteq out[k].air[j]
<1>1. out \in [Node -> Outbox]
  BY DEF IndInv, TypeOK
<1>2. out[m].air \in [Node -> SUBSET Announce]
  BY <1>1 DEF Outbox
<1>3. \A k \in Node : WithoutAir(m, n, a)[k].air =
        IF k = m THEN [out[m].air EXCEPT ![n] = @ \ {a}] ELSE out[k].air
  BY <1>1 DEF WithoutAir, Outbox
<1> QED BY <1>2, <1>3

\* A declaration adds the new place of n only.
LEMMA DeclaredAir ==
  ASSUME IndInv, NEW n \in Node, NEW boxes \in [Node -> Outbox], NEW b,
         \A k, j \in Node : boxes[k].air[j] \subseteq out[k].air[j] \cup {own[k], b},
         \A k \in Node \ {n} : \A j \in Node : boxes[k].air[j] \subseteq out[k].air[j] \cup {own[k]},
         Declare(n, b, boxes)
  PROVE  \A k, j \in Node : out'[k].air[j] \subseteq out[k].air[j] \cup {own[k], own'[k]}
<1>1. own' = [own EXCEPT ![n] = b]
      /\ out' = [boxes EXCEPT ![n] = Announced(boxes[n], b, peers[n])]
  BY DEF Declare
<1>2. own'[n] = b
  BY <1>1 DEF IndInv, TypeOK
<1>3. \A j \in Node : out'[n].air[j] \subseteq boxes[n].air[j] \cup {b}
  BY <1>1 DEF Announced
<1>4. \A k \in Node \ {n} : out'[k] = boxes[k]
  BY <1>1
<1> QED BY <1>2, <1>3, <1>4

\* A node that declares a place with the next number, from boxes that hold no more
\* than the old ones and what their nodes had declared.
LEMMA DeclareSays ==
  ASSUME IndInv, NEW n \in Node, NEW boxes \in [Node -> Outbox], NEW b,
         b.seq = own[n].seq + 1,
         \A k, j \in Node : boxes[k].air[j] \subseteq out[k].air[j] \cup {own[k]},
         \A k, j \in Node : heard'[j][k] \in out[k].air[j] \cup {heard[j][k], None},
         Declare(n, b, boxes)
  PROVE  \A k \in Node : SaysOwn(k)
<1>1. \A k, j \in Node : out'[k].air[j] \subseteq out[k].air[j] \cup {own[k], own'[k]}
  BY DeclaredAir
<1>2. own' = [own EXCEPT ![n] = b] /\ own \in [Node -> Announce]
  BY DEF Declare, IndInv, TypeOK
<1>3. \A k \in Node : own'[k] = own[k] \/ own'[k].seq = own[k].seq + 1
  BY <1>2
<1> QED BY <1>1, <1>3 DEF SaysOwn

\* Every new place has the next number.
LEMMA NextNumber ==
  ASSUME NEW n, NEW m, NEW known, NEW rtt, NEW s
  PROVE  /\ Below(n, m, known).seq = own[n].seq + 1
         /\ AfterParentLost(n, known, rtt, s).seq = own[n].seq + 1
BY DEF Below, AfterParentLost, OwnRoot

\* What n has heard is what was on the way to it.
LEMMA HearSays ==
  ASSUME IndInv, NEW n \in Node, NEW m \in Node, NEW a, Hear(n, m, a)
  PROVE  /\ \A k, j \in Node : heard'[j][k] \in out[k].air[j] \cup {heard[j][k], None}
         /\ WithoutAir(m, n, a) \in [Node -> Outbox]
<1>1. a \in out[m].air[n] /\ heard' = [heard EXCEPT ![n][m] = a]
  BY DEF Hear
<1>2. heard \in [Node -> [Node -> OptAnnounce]]
  BY DEF IndInv, TypeOK
<1>3. \A k, j \in Node : heard'[j][k] = IF j = n /\ k = m THEN a ELSE heard[j][k]
  BY <1>1, <1>2
<1>4. WithoutAir(m, n, a) \in [Node -> Outbox]
  BY <1>1, TakenGood DEF GoodBoxes
<1> QED BY <1>1, <1>3, <1>4

LEMMA HandleSays ==
  ASSUME IndInv, NEW n \in Node, NEW m \in Node, HandleTreeAnnounce(n, m)
  PROVE  \A k \in Node : SaysOwn(k)
<1> PICK a \in out[m].air[n] :
      \/ IgnoreAnnounce(n, m, a)
      \/ \E s \in Suppressed :
           \/ SwitchParent(n, m, a, s) \/ DropLoopingParent(n, m, a, s)
           \/ FollowParent(n, m, a, s) \/ NotePeer(n, m, a, s)
  BY DEF HandleTreeAnnounce
<1> DEFINE boxes == WithoutAir(m, n, a)
<1>1. \A k, j \in Node : boxes[k].air[j] \subseteq out[k].air[j]
  BY TakenAir
<1> HIDE DEF boxes
<1>2. CASE IgnoreAnnounce(n, m, a)
  <2>1. out' = boxes /\ UNCHANGED <<own, heard>>
    BY <1>2 DEF IgnoreAnnounce, boxes
  <2> QED BY <1>1, <2>1 DEF SaysOwn
<1>3. ASSUME NEW b, b.seq = own[n].seq + 1, Hear(n, m, a), Declare(n, b, boxes)
      PROVE  \A k \in Node : SaysOwn(k)
  <2>1. /\ \A k, j \in Node : heard'[j][k] \in out[k].air[j] \cup {heard[j][k], None}
        /\ boxes \in [Node -> Outbox]
    BY <1>3, HearSays DEF boxes
  <2> QED BY <1>1, <1>3, <2>1, DeclareSays
<1>4. ASSUME NEW s \in Suppressed, SwitchParent(n, m, a, s)
      PROVE  \A k \in Node : SaysOwn(k)
  BY <1>3, <1>4, NextNumber DEF SwitchParent, boxes
<1>5. ASSUME NEW s \in Suppressed, DropLoopingParent(n, m, a, s)
      PROVE  \A k \in Node : SaysOwn(k)
  BY <1>3, <1>5, NextNumber DEF DropLoopingParent, boxes
<1>6. ASSUME NEW s \in Suppressed, FollowParent(n, m, a, s) \/ NotePeer(n, m, a, s)
      PROVE  \A k \in Node : SaysOwn(k)
  <2> DEFINE b == Below(n, m, Known(n, m, a))
  <2>1. b.seq = own[n].seq + 1 /\ Hear(n, m, a)
    BY <1>6, NextNumber DEF FollowParent, NotePeer
  <2>2. \/ Declare(n, b, boxes)
        \/ own' = [own EXCEPT ![n] = b] /\ out' = boxes
        \/ own' = own /\ out' = boxes
    BY <1>6 DEF FollowParent, NotePeer, boxes
  <2> HIDE DEF b
  <2>3. CASE Declare(n, b, boxes)
    BY <1>3, <2>1, <2>3
  <2>4. CASE out' = boxes /\ (own' = [own EXCEPT ![n] = b] \/ own' = own)
    <3>1. own \in [Node -> Announce]
      BY DEF IndInv, TypeOK
    <3>2. \A k \in Node : own'[k] = own[k] \/ own'[k].seq = own[k].seq + 1
      BY <2>1, <2>4, <3>1
    <3>3. \A k, j \in Node : heard'[j][k] \in out[k].air[j] \cup {heard[j][k], None}
      BY <2>1, HearSays
    <3> QED BY <1>1, <2>4, <3>2, <3>3 DEF SaysOwn
  <2> QED BY <2>2, <2>3, <2>4
<1> QED BY <1>2, <1>4, <1>5, <1>6

\* What is sent late is what the node has declared by then.
LEMMA FlushedSays ==
  ASSUME IndInv, NEW n \in Node
  PROVE  /\ [out EXCEPT ![n] = Flushed(n)] \in [Node -> Outbox]
         /\ \A k, j \in Node :
              [out EXCEPT ![n] = Flushed(n)][k].air[j] \subseteq out[k].air[j] \cup {own[k]}
<1>1. [out EXCEPT ![n] = Flushed(n)] \in [Node -> Outbox]
  BY FlushedGood DEF GoodBoxes
<1>2. \A j \in Node : Flushed(n).air[j] \subseteq out[n].air[j] \cup {own[n]}
  BY DEF Flushed, Announced
<1>3. out \in [Node -> Outbox]
  BY DEF IndInv, TypeOK
<1> QED BY <1>1, <1>2, <1>3

LEMMA OtherSays ==
  ASSUME IndInv, NEW n \in Node, NEW m \in Node,
         \/ SendPending(n)
         \/ \E s \in Suppressed : Reevaluate(n, s) \/ RemoveActivePeer(n, m, s)
         \/ \E c \in Costs, s \in Suppressed : MeasureCost(n, m, c, s)
         \/ m # n /\ Connect(n, m)
         \/ CoolDown(n, m)
         \/ Lose(n, m)
  PROVE  \A k \in Node : SaysOwn(k)
<1>1. /\ out \in [Node -> Outbox] /\ own \in [Node -> Announce]
      /\ \A k \in Node : out[k].air \in [Node -> SUBSET Announce]
  BY DEF IndInv, TypeOK, Outbox
<1>2. CASE SendPending(n)
  BY <1>2, FlushedSays DEF SendPending, SaysOwn
<1>3. ASSUME NEW s \in Suppressed, Reevaluate(n, s)
      PROVE  \A k \in Node : SaysOwn(k)
  <2> DEFINE boxes == [out EXCEPT ![n] = Flushed(n)]
  <2>1. /\ boxes \in [Node -> Outbox]
        /\ \A k, j \in Node : boxes[k].air[j] \subseteq out[k].air[j] \cup {own[k]}
    BY FlushedSays
  <2> HIDE DEF boxes
  <2>2. PICK b : b.seq = own[n].seq + 1 /\ Declare(n, b, boxes) /\ heard' = heard
    BY <1>3, NextNumber DEF Reevaluate, boxes
  <2> QED BY <2>1, <2>2, DeclareSays
<1>4. ASSUME NEW s \in Suppressed, RemoveActivePeer(n, m, s)
      PROVE  \A k \in Node : SaysOwn(k)
  <2> DEFINE b == AfterParentLost(n, [heard[n] EXCEPT ![m] = None],
                                   [cost[n] EXCEPT ![m] = 0], s)
  <2>0. b.seq = own[n].seq + 1
    BY ZenonT(60), NextNumber
  <2>1. own' = own \/ own' = [own EXCEPT ![n] = b]
    BY <1>4 DEF RemoveActivePeer
  <2> HIDE DEF b
  <2> DEFINE box == NoPacing(out[n], m)
             last == [box EXCEPT !.pending = peers[n] \ {m}]
  <2>a. out' = [out EXCEPT ![n] = box] \/ out' = [out EXCEPT ![n] = last]
    BY <1>4 DEF RemoveActivePeer
  <2>b. box.air = out[n].air /\ last.air = out[n].air
    BY DEF NoPacing
  <2> HIDE DEF box, last
  <2>2. PICK new : new.air = out[n].air /\ out' = [out EXCEPT ![n] = new]
    BY <2>a, <2>b
  <2>3. \A k, j \in Node : out'[k].air[j] = out[k].air[j]
    BY <1>1, <2>2
  <2>4. \A k \in Node : own'[k] = own[k] \/ own'[k].seq = own[k].seq + 1
    BY <1>1, <2>0, <2>1
  <2>5. \A k, j \in Node : heard'[j][k] \in {heard[j][k], None}
    <3>1. heard' = [heard EXCEPT ![n] = [heard[n] EXCEPT ![m] = None]]
      BY <1>4 DEF RemoveActivePeer
    <3>2. heard \in [Node -> [Node -> OptAnnounce]]
      BY DEF IndInv, TypeOK
    <3> QED BY <3>1, <3>2
  <2> QED BY <2>3, <2>4, <2>5 DEF SaysOwn
<1>5. ASSUME NEW c \in Costs, NEW s \in Suppressed, MeasureCost(n, m, c, s)
      PROVE  \A k \in Node : SaysOwn(k)
  <2>1. heard' = heard
    BY <1>5 DEF MeasureCost
  <2>2. CASE UNCHANGED <<own, out>>
    BY <2>1, <2>2 DEF SaysOwn
  <2>3. CASE \E b : b.seq = own[n].seq + 1 /\ Declare(n, b, out)
    BY <1>1, <2>1, <2>3, DeclareSays
  <2> QED BY <1>5, <2>2, <2>3, NextNumber DEF MeasureCost
<1>6. CASE m # n /\ Connect(n, m)
  <2>1. /\ out' = [out EXCEPT ![n] = Greeting(n, m), ![m] = Greeting(m, n)]
        /\ UNCHANGED <<own, heard>>
    BY <1>6 DEF Connect
  <2>2. \A k, i, j \in Node : Greeting(k, i).air[j] \subseteq out[k].air[j] \cup {own[k]}
    BY <1>1 DEF Greeting
  <2>3. \A k \in Node : out'[k] = IF k = n THEN Greeting(n, m)
                                  ELSE IF k = m THEN Greeting(m, n) ELSE out[k]
    BY <1>1, <2>1
  <2>4. \A k, j \in Node : out'[k].air[j] \subseteq out[k].air[j] \cup {own[k]}
    BY <2>2, <2>3
  <2> QED BY <2>1, <2>4 DEF SaysOwn
<1>7. CASE CoolDown(n, m)
  <2>1. out' = [out EXCEPT ![n].cooling = @ \ {m}] /\ UNCHANGED <<own, heard>>
    BY <1>7 DEF CoolDown
  <2>2. \A k \in Node : out'[k].air = out[k].air
    BY <1>1, <2>1 DEF Outbox
  <2> QED BY <2>1, <2>2 DEF SaysOwn
<1>8. CASE Lose(n, m)
  <2>1. PICK a \in out[n].air[m] : out' = WithoutAir(n, m, a)
    BY <1>8 DEF Lose
  <2>2. UNCHANGED <<own, heard>>
    BY <1>8 DEF Lose
  <2>3. \A k, j \in Node : out'[k].air[j] \subseteq out[k].air[j]
    BY <2>1, TakenAir
  <2> QED BY <2>2, <2>3 DEF SaysOwn
<1> QED BY <1>2, <1>3, <1>4, <1>5, <1>6, <1>7, <1>8

\* No step makes a node say anything but its own old and new place.
LEMMA NextSays ==
  ASSUME IndInv, [Next]_vars
  PROVE  \A k \in Node : SaysOwn(k)
<1>1. CASE UNCHANGED vars
  BY <1>1 DEF vars, SaysOwn
<1>2. ASSUME NEW n \in Node, SendPending(n) \/ \E s \in Suppressed : Reevaluate(n, s)
      PROVE  \A k \in Node : SaysOwn(k)
  BY <1>2, OtherSays
<1>3. ASSUME NEW n \in Node, NEW m \in Node \ {n},
             \/ HandleTreeAnnounce(n, m)
             \/ \E c \in Costs, s \in Suppressed : MeasureCost(n, m, c, s)
             \/ \E s \in Suppressed : RemoveActivePeer(n, m, s)
             \/ n < m /\ Connect(n, m)
             \/ CoolDown(n, m)
             \/ Lose(n, m)
      PROVE  \A k \in Node : SaysOwn(k)
  BY <1>3, HandleSays, OtherSays
<1> QED BY <1>1, <1>2, <1>3 DEF Next

Said(n) == Published(n) \cup {own[n]}

\* What is on the way, heard or declared is an announce.
LEMMA SaidAnnounce ==
  ASSUME IndInv, NEW n \in Node, NEW a \in Said(n)
  PROVE  a.seq \in Nat
<1>1. /\ out[n].air \in [Node -> SUBSET Announce] /\ own[n] \in Announce
      /\ \A m \in Node : heard[m][n] \in Announce \cup {None}
  BY DEF IndInv, TypeOK, Outbox, OptAnnounce
<1>2. a = own[n] \/ a \in Published(n)
  BY DEF Said
<1>3. a \in Announce
  BY <1>1, <1>2, PublishedCases
<1> QED BY <1>3 DEF Announce

LEMMA SaidGrows ==
  ASSUME NEW n \in Node, SaysOwn(n), NEW a \in Said(n)'
  PROVE  a \in Said(n) \cup {own'[n]}
<1>1. CASE a = own'[n]
  BY <1>1
<1>2. ASSUME NEW m \in Node, a \in out'[n].air[m] \/ (a = heard'[m][n] /\ a # None)
      PROVE  a \in Said(n) \cup {own'[n]}
  <2>1. \/ a \in out[n].air[m] \/ a \in {own[n], own'[n]}
        \/ a = heard[m][n] /\ a # None
    BY <1>2 DEF SaysOwn
  <2>2. a \in out[n].air[m] => a \in UNION {out[n].air[k] : k \in Node}
    OBVIOUS
  <2>3. a = heard[m][n] /\ a # None => a \in {heard[k][n] : k \in Node} \ {None}
    OBVIOUS
  <2> QED BY <2>1, <2>2, <2>3 DEF Said, Published
<1>3. a \in Published(n)' \/ a = own'[n]
  BY DEF Said
<1>4. a \in Published(n)' => \/ \E m \in Node : a \in out'[n].air[m]
                             \/ \E m \in Node : a = heard'[m][n] /\ a # None
  <2> DEFINE A == {out'[n].air[m] : m \in Node}
             H == {heard'[m][n] : m \in Node}
  <2>1. ASSUME a \in Published(n)'
        PROVE  a \in (UNION A) \cup (H \ {None})
    BY <2>1 DEF Published
  <2>2. a \in UNION A => \E m \in Node : a \in out'[n].air[m]
    BY Zenon
  <2>3. a \in H => \E m \in Node : a = heard'[m][n]
    BY Zenon
  <2> HIDE DEF A, H
  <2> QED BY <2>1, <2>2, <2>3
<1> QED BY <1>1, <1>2, <1>3, <1>4

\* The sequence number of a node goes up by one with every new place and never
\* otherwise changes, and whatever is known or on the way of a node is a place it
\* had: sequence numbers identify paths however announces are lost and reordered.
THEOREM NumbersIdentifyPaths == Spec => []SequenceIdentifiesPath
<1>1. SequenceIdentifiesPath <=>
        \A n \in Node : \A a, b \in Said(n) : a.seq <= own[n].seq /\ (a.seq = b.seq => a = b)
  BY DEF SequenceIdentifiesPath, Said
<1>2. Init => SequenceIdentifiesPath
  <2> SUFFICES ASSUME Init, NEW n \in Node, NEW a \in Said(n) PROVE a = own[n]
    BY InitIndInv, <1>1, SaidAnnounce
  <2>1. CASE \E m \in Node : a \in out[n].air[m]
    BY <2>1 DEF Init
  <2>2. CASE \E m \in Node : a = heard[m][n] /\ a # None
    BY <2>2 DEF Init
  <2> QED BY <2>1, <2>2, PublishedCases DEF Said
<1>3. IndInv /\ SequenceIdentifiesPath /\ [Next]_vars => SequenceIdentifiesPath'
  <2> SUFFICES ASSUME IndInv, SequenceIdentifiesPath, [Next]_vars,
                      NEW n \in Node, NEW a \in Said(n)', NEW b \in Said(n)'
               PROVE  a.seq <= own'[n].seq /\ (a.seq = b.seq => a = b)
    BY DEF SequenceIdentifiesPath, Said
  <2>1. SaysOwn(n)
    BY NextSays
  <2>2. a \in Said(n) \cup {own'[n]} /\ b \in Said(n) \cup {own'[n]}
    BY <2>1, SaidGrows
  <2>3. own'[n] = own[n] \/ own'[n].seq = own[n].seq + 1
    BY <2>1 DEF SaysOwn
  <2>4. own[n] \in Said(n)
    BY DEF Said
  <2>5. \A c \in Said(n) : c.seq \in Nat
    BY SaidAnnounce
  <2>6. \A c, d \in Said(n) : c.seq <= own[n].seq /\ (c.seq = d.seq => c = d)
    BY <1>1
  <2> HIDE DEF SequenceIdentifiesPath
  <2> QED BY <2>2, <2>3, <2>4, <2>5, <2>6
<1> QED BY <1>2, <1>3, InductiveInvariant, PTL DEF Spec

-----------------------------------------------------------------------------
(* What a node has told its peers.                                         *)

\* What has reached n of m, or still may.
SaidTo(m, n) == out[m].air[n] \cup ({heard[n][m]} \ {None})
Alike(a, b) ==
  /\ Last(a.path) = Last(b.path) /\ Len(a.path) = Len(b.path)
  /\ Len(b.path) > 1 => a.path[2] = b.path[2]

\* The latest of it names the root, the depth and the parent m has.
Latest(m, n) ==
  \E a \in SaidTo(m, n) : Alike(a, own[m]) /\ \A b \in SaidTo(m, n) : b.seq <= a.seq

\* Without loss every peer has heard, or is going to hear, where a node is.
Delivered ==
  \A n \in Node : \A m \in peers[n] :
    n \in peers[m] => n \in out[m].pending \/ Latest(m, n)

\* A step that leaves n with what it had been told last of m.
Keeps(m, n) ==
  /\ Alike(own'[m], own[m])
  /\ n \in out[m].pending => n \in out'[m].pending
  /\ SaidTo(m, n)' \subseteq SaidTo(m, n)
  /\ \A a \in SaidTo(m, n) \ SaidTo(m, n)' : \E b \in SaidTo(m, n)' : b.seq > a.seq

\* A step by which m tells n where it is, or is going to.
Tells(m, n) == n \in out'[m].pending \/ own'[m] \in SaidTo(m, n)'

LEMMA SaidToIsSaid ==
  ASSUME NEW n \in Node, NEW m \in Node
  PROVE  SaidTo(m, n) \subseteq Published(m)
<1> SUFFICES ASSUME NEW a \in SaidTo(m, n) PROVE a \in Published(m)
  OBVIOUS
<1>1. CASE a \in out[m].air[n]
  <2>1. a \in UNION {out[m].air[k] : k \in Node}
    BY <1>1
  <2> QED BY <2>1 DEF Published
<1>2. CASE a = heard[n][m] /\ a # None
  <2>1. a \in {heard[k][m] : k \in Node} \ {None}
    BY <1>2
  <2> QED BY <2>1 DEF Published
<1> QED BY <1>1, <1>2 DEF SaidTo

OwnLatest == \A n, m \in Node : own[m] \in SaidTo(m, n) => Latest(m, n)

\* Nothing that is known of m carries a later number than what it has declared.
LEMMA OwnIsLatest == SequenceIdentifiesPath => OwnLatest
<1> SUFFICES ASSUME SequenceIdentifiesPath, NEW n \in Node, NEW m \in Node,
                    own[m] \in SaidTo(m, n)
             PROVE  Latest(m, n)
  BY DEF OwnLatest
<1>1. \A b \in SaidTo(m, n) : b.seq <= own[m].seq
  BY SaidToIsSaid DEF SequenceIdentifiesPath
<1>2. Alike(own[m], own[m])
  BY DEF Alike
<1> QED BY <1>1, <1>2 DEF Latest

\* Two things said of m with one number are the same.
LEMMA SaidOnce ==
  ASSUME IndInv, SequenceIdentifiesPath, NEW n \in Node, NEW m \in Node,
         NEW a \in SaidTo(m, n), NEW b \in SaidTo(m, n)
  PROVE  a.seq \in Nat /\ b.seq \in Nat /\ (a.seq = b.seq => a = b)
<1>1. a \in Published(m) /\ b \in Published(m)
  BY SaidToIsSaid
<1>2. a \in Said(m) /\ b \in Said(m)
  BY <1>1 DEF Said
<1>3. a.seq \in Nat /\ b.seq \in Nat
  BY <1>2, SaidAnnounce
<1>4. a.seq = b.seq => a = b
  BY <1>1 DEF SequenceIdentifiesPath
<1> QED BY <1>3, <1>4

LEMMA KeepsLatest ==
  ASSUME IndInv, SequenceIdentifiesPath, NEW n \in Node, NEW m \in Node, Keeps(m, n),
         Latest(m, n)
  PROVE  Latest(m, n)'
<1>1. PICK a \in SaidTo(m, n) :
        Alike(a, own[m]) /\ \A b \in SaidTo(m, n) : b.seq <= a.seq
  BY DEF Latest
<1>2. a \in SaidTo(m, n)'
  <2> SUFFICES ASSUME a \notin SaidTo(m, n)' PROVE FALSE
    OBVIOUS
  <2>1. PICK b \in SaidTo(m, n)' : b.seq > a.seq
    BY <1>1 DEF Keeps
  <2>2. b \in SaidTo(m, n) /\ b.seq <= a.seq
    BY <1>1 DEF Keeps
  <2>3. a.seq \in Nat /\ b.seq \in Nat
    BY <1>1, <2>2, SaidOnce
  <2> QED BY <2>1, <2>2, <2>3
<1>3. Alike(a, own'[m])
  BY <1>1 DEF Keeps, Alike
<1>4. \A b \in SaidTo(m, n)' : b.seq <= a.seq
  BY <1>1 DEF Keeps
<1>5. Alike(a, own[m])' <=> Alike(a, own'[m])
  BY DEF Alike
<1> QED BY <1>2, <1>3, <1>4, <1>5 DEF Latest

\* Where nothing of the pair changes.
LEMMA SameKeeps ==
  ASSUME NEW n \in Node, NEW m \in Node, Alike(own'[m], own[m]),
         n \in out[m].pending => n \in out'[m].pending,
         out'[m].air[n] = out[m].air[n], heard'[n][m] = heard[n][m]
  PROVE  Keeps(m, n)
BY DEF Keeps, SaidTo

LEMMA AlikeItself ==
  ASSUME NEW a
  PROVE  Alike(a, a)
BY DEF Alike

-----------------------------------------------------------------------------
(* What each step tells.                                                   *)

\* A pair of peers: n hears m.
Heeds(n, m) == Keeps(m, n) \/ Tells(m, n)

\* Who declares tells all its peers, now or when the interval ends.
LEMMA DeclareTells ==
  ASSUME IndInv, NEW k \in Node, NEW b, NEW boxes \in [Node -> Outbox], Declare(k, b, boxes),
         NEW n \in peers[k]
  PROVE  n \in Node /\ Tells(k, n)
<1>1. /\ own \in [Node -> Announce] /\ peers[k] \subseteq Node
      /\ own' = [own EXCEPT ![k] = b]
      /\ out' = [boxes EXCEPT ![k] = Announced(boxes[k], b, peers[k])]
  BY DEF Declare, IndInv, TypeOK
<1>2. own'[k] = b /\ out'[k] = Announced(boxes[k], b, peers[k])
  BY <1>1
<1>3. CASE n \in boxes[k].cooling
  BY <1>1, <1>2, <1>3 DEF Announced, Tells
<1>4. CASE n \notin boxes[k].cooling
  BY <1>1, <1>2, <1>4 DEF Announced, Tells, SaidTo
<1> QED BY <1>1, <1>3, <1>4

\* What others have on the way does not change, except to n from m.
LEMMA OthersAir ==
  ASSUME IndInv, NEW n \in Node, NEW m \in Node, NEW a
  PROVE  /\ \A k \in Node : WithoutAir(m, n, a)[k].pending = out[k].pending
         /\ \A k, j \in Node : (k # m \/ j # n) =>
              WithoutAir(m, n, a)[k].air[j] = out[k].air[j]
         /\ WithoutAir(m, n, a)[m].air[n] = out[m].air[n] \ {a}
<1>1. out \in [Node -> Outbox] /\ out[m].air \in [Node -> SUBSET Announce]
  BY DEF IndInv, TypeOK, Outbox
<1>2. \A k \in Node : WithoutAir(m, n, a)[k] =
        IF k = m THEN [out[m] EXCEPT !.air = [out[m].air EXCEPT ![n] = @ \ {a}]] ELSE out[k]
  BY <1>1, Zenon DEF WithoutAir
<1>3. out[m] \in Outbox
  BY <1>1
<1>4. /\ WithoutAir(m, n, a)[m].air = [out[m].air EXCEPT ![n] = @ \ {a}]
      /\ WithoutAir(m, n, a)[m].pending = out[m].pending
  BY <1>2, <1>3 DEF Outbox
<1> QED BY <1>1, <1>2, <1>4

\* A node that has heard m anew knows the latest it knew, or a later one.
LEMMA HearKeeps ==
  ASSUME IndInv, NEW n \in Node, NEW m \in Node, NEW a, Hear(n, m, a),
         own'[m] = own[m], out'[m] = WithoutAir(m, n, a)[m]
  PROVE  Keeps(m, n)
<1>1. a \in out[m].air[n] /\ heard'[n][m] = a /\ a # None
  <2>1. heard' = [heard EXCEPT ![n] = Known(n, m, a)] /\ Known(n, m, a)[m] = a /\ a # None
    BY HearRow
  <2>2. heard \in [Node -> [Node -> OptAnnounce]]
    BY DEF IndInv, TypeOK
  <2>3. heard'[n] = Known(n, m, a)
    BY <2>1, <2>2
  <2> QED BY <2>1, <2>3 DEF Hear
<1>2. heard[n][m] # None => a.seq > heard[n][m].seq
  BY DEF Hear, IsNews
<1>3. /\ out'[m].pending = out[m].pending
      /\ out'[m].air[n] = out[m].air[n] \ {a}
  BY OthersAir
<1>4. SaidTo(m, n)' = out[m].air[n]
  BY <1>1, <1>3 DEF SaidTo
<1>5. SaidTo(m, n) \ SaidTo(m, n)' \subseteq {heard[n][m]} \ {None}
  BY <1>4 DEF SaidTo
<1>6. a \in SaidTo(m, n)'
  BY <1>1, <1>4
<1>7. SaidTo(m, n)' \subseteq SaidTo(m, n)
  BY <1>4 DEF SaidTo
<1> QED BY <1>2, <1>3, <1>5, <1>6, <1>7, AlikeItself DEF Keeps

\* An announce that is not fresher is either what n has or older.
LEMMA IgnoreKeeps ==
  ASSUME IndInv, SequenceIdentifiesPath, NEW n \in Node, NEW m \in Node, NEW a,
         IgnoreAnnounce(n, m, a), m \in peers[n]
  PROVE  Keeps(m, n)
<1>1. /\ a \in out[m].air[n] /\ heard[n][m] # None /\ ~ (a.seq > heard[n][m].seq)
      /\ out' = WithoutAir(m, n, a) /\ UNCHANGED <<own, heard>>
  BY DEF IgnoreAnnounce, IsNews
<1>2. /\ out'[m].pending = out[m].pending
      /\ out'[m].air[n] = out[m].air[n] \ {a}
  BY <1>1, OthersAir
<1>3. a \in SaidTo(m, n) /\ heard[n][m] \in SaidTo(m, n) /\ heard[n][m] \in SaidTo(m, n)'
  BY <1>1 DEF SaidTo
<1>4. SaidTo(m, n)' \subseteq SaidTo(m, n) /\ SaidTo(m, n) \ SaidTo(m, n)' \subseteq {a}
  BY <1>1, <1>2 DEF SaidTo
<1>5. a # heard[n][m] => heard[n][m].seq > a.seq
  BY <1>1, <1>3, SaidOnce
<1> QED BY <1>1, <1>2, <1>3, <1>4, <1>5, AlikeItself DEF Keeps

\* All pairs of peers after the step were peers before and heed each other, or are told.
AllHeed ==
  \A n \in Node : \A m \in peers'[n] :
    n \in peers'[m] =>
      Tells(m, n) \/ (m \in peers[n] /\ n \in peers[m] /\ Keeps(m, n))

\* A step of k that leaves the outboxes of others but for what k takes from them.
LEMMA DeclareHeeds ==
  ASSUME IndInv, UNCHANGED peers, NEW k \in Node, NEW b, NEW boxes \in [Node -> Outbox],
         Declare(k, b, boxes),
         \A n, m \in Node : m # k /\ own'[m] = own[m] /\ out'[m] = boxes[m] /\ m \in peers[n] =>
           Keeps(m, n)
  PROVE  AllHeed
<1> SUFFICES ASSUME NEW n \in Node, NEW m \in peers[n], n \in peers[m]
             PROVE  Tells(m, n) \/ Keeps(m, n)
  BY DEF AllHeed
<1>1. /\ own \in [Node -> Announce] /\ peers \in [Node -> SUBSET Node]
      /\ own' = [own EXCEPT ![k] = b]
      /\ out' = [boxes EXCEPT ![k] = Announced(boxes[k], b, peers[k])]
  BY DEF Declare, IndInv, TypeOK
<1>2. m \in Node
  BY <1>1
<1>3. CASE m = k
  BY <1>3, DeclareTells
<1>4. CASE m # k
  BY <1>1, <1>2, <1>4
<1> QED BY <1>3, <1>4

\* The pairs beside (n, m) do not notice that n has heard an announce of m.
LEMMA OthersKeep ==
  ASSUME IndInv, NEW k \in Node, NEW x \in Node, NEW a, Hear(k, x, a),
         NEW n \in Node, NEW m \in Node, n # k \/ m # x,
         Alike(own'[m], own[m]), out'[m] = WithoutAir(x, k, a)[m]
  PROVE  Keeps(m, n)
<1>1. out'[m].pending = out[m].pending /\ out'[m].air[n] = out[m].air[n]
  BY OthersAir
<1>2. heard'[n][m] = heard[n][m]
  <2>1. heard' = [heard EXCEPT ![k][x] = a] /\ heard \in [Node -> [Node -> OptAnnounce]]
    BY DEF Hear, IndInv, TypeOK
  <2> QED BY <2>1
<1> QED BY <1>1, <1>2, SameKeeps

LEMMA HandleHeeds ==
  ASSUME IndInv, SequenceIdentifiesPath, NEW k \in Node, NEW x \in Node \ {k},
         HandleTreeAnnounce(k, x)
  PROVE  AllHeed
<1> PICK a \in out[x].air[k] :
      \/ IgnoreAnnounce(k, x, a)
      \/ \E s \in Suppressed :
           \/ SwitchParent(k, x, a, s) \/ DropLoopingParent(k, x, a, s)
           \/ FollowParent(k, x, a, s) \/ NotePeer(k, x, a, s)
  BY DEF HandleTreeAnnounce
<1> DEFINE boxes == WithoutAir(x, k, a)
<1>1. own \in [Node -> Announce] /\ peers \in [Node -> SUBSET Node]
  BY DEF IndInv, TypeOK
<1>2. CASE IgnoreAnnounce(k, x, a)
  <2>1. out' = boxes /\ UNCHANGED <<peers, own, heard>>
    BY <1>2 DEF IgnoreAnnounce
  <2> SUFFICES ASSUME NEW n \in Node, NEW m \in peers[n]
               PROVE  Keeps(m, n)
    BY <2>1 DEF AllHeed
  <2>2. m \in Node
    BY <1>1
  <2>3. CASE n = k /\ m = x
    BY <1>2, <2>3, IgnoreKeeps
  <2>4. CASE n # k \/ m # x
    <3>1. out'[m].pending = out[m].pending /\ out'[m].air[n] = out[m].air[n]
      BY <2>1, <2>2, <2>4, OthersAir
    <3> QED BY <2>1, <2>2, <3>1, SameKeeps, AlikeItself
  <2> QED BY <2>3, <2>4
<1>3. ASSUME Hear(k, x, a), NEW n \in Node, NEW m \in Node, Alike(own'[m], own[m]),
             m = x => own'[m] = own[m], out'[m] = boxes[m]
      PROVE  Keeps(m, n)
  <2>1. CASE n = k /\ m = x
    BY <1>3, <2>1, HearKeeps
  <2>2. CASE n # k \/ m # x
    BY <1>3, <2>2, OthersKeep
  <2> QED BY <2>1, <2>2
<1>4. ASSUME NEW b, Hear(k, x, a), Declare(k, b, boxes)
      PROVE  AllHeed
  <2>1. boxes \in [Node -> Outbox] /\ UNCHANGED peers
    BY <1>4, HearSays DEF Hear
  <2>2. \A n, m \in Node : m # k /\ own'[m] = own[m] /\ out'[m] = boxes[m] /\ m \in peers[n] =>
          Keeps(m, n)
    BY <1>3, <1>4, AlikeItself
  <2> HIDE DEF boxes
  <2> QED BY <1>4, <2>1, <2>2, DeclareHeeds
<1>5. ASSUME Hear(k, x, a), out' = boxes, own' = own \/ own' = [own EXCEPT ![k] = own'[k]],
             Alike(own'[k], own[k])
      PROVE  AllHeed
  <2>1. UNCHANGED peers
    BY <1>5 DEF Hear
  <2> SUFFICES ASSUME NEW n \in Node, NEW m \in peers[n]
               PROVE  Keeps(m, n)
    BY <2>1 DEF AllHeed
  <2>2. m \in Node
    BY <1>1
  <2>3. m # k => own'[m] = own[m]
    BY <1>1, <1>5, <2>2
  <2>4. Alike(own'[m], own[m])
    BY <1>5, <2>3, AlikeItself
  <2> QED BY <1>3, <1>5, <2>2, <2>3, <2>4
<1>6. ASSUME NEW s \in Suppressed, SwitchParent(k, x, a, s)
      PROVE  AllHeed
  BY <1>4, <1>6 DEF SwitchParent
<1>7. ASSUME NEW s \in Suppressed, DropLoopingParent(k, x, a, s)
      PROVE  AllHeed
  BY <1>4, <1>7 DEF DropLoopingParent
<1>8. ASSUME NEW s \in Suppressed, FollowParent(k, x, a, s)
      PROVE  AllHeed
  <2> DEFINE b == Below(k, x, Known(k, x, a))
  <2>1. Hear(k, x, a)
    BY <1>8 DEF FollowParent
  <2>2. \/ Declare(k, b, boxes)
        \/ ~ Moved(k, b.path) /\ own' = [own EXCEPT ![k] = b] /\ out' = boxes
    BY <1>8 DEF FollowParent
  <2>5. b.path[2] = x /\ own[k].path[2] = x
    <3>1. out[x] \in Outbox /\ GoodBox(x, out[x], peers[x]) /\ heard \in [Node -> [Node -> OptAnnounce]]
      BY DEF IndInv, TypeOK
    <3>2. a \in Announce /\ PathOf(x, a.path)
      BY <3>1 DEF Outbox, GoodBox
    <3>3. b.path = <<k>> \o a.path
      BY <3>1 DEF Below, Known
    <3>4. a.path \in Seq(Node) /\ a.path # <<>> /\ a.path[1] = x
      BY <3>2 DEF Announce, PathOf
    <3>5. \A path \in Seq(Node) : path # <<>> => (<<k>> \o path)[2] = path[1]
      OBVIOUS
    <3>6. b.path[2] = x
      BY <3>3, <3>4, <3>5, Zenon
    <3>7. own[k].path[2] = x
      BY <1>8 DEF FollowParent, FromParent, Parent
    <3> QED BY <3>6, <3>7
  <2> HIDE DEF b, boxes
  <2>3. CASE Declare(k, b, boxes)
    BY <1>4, <2>1, <2>3
  <2>4. CASE ~ Moved(k, b.path) /\ own' = [own EXCEPT ![k] = b] /\ out' = boxes
    <3>1. own'[k] = b
      BY <1>1, <2>4
    <3>2. Alike(own'[k], own[k])
      BY <2>4, <2>5, <3>1 DEF Moved, Alike
    <3> QED BY <1>5, <2>1, <2>4, <3>1, <3>2
  <2> QED BY <2>2, <2>3, <2>4
<1>9. ASSUME NEW s \in Suppressed, NotePeer(k, x, a, s)
      PROVE  AllHeed
  BY <1>5, <1>9, AlikeItself DEF NotePeer
<1> QED BY <1>2, <1>6, <1>7, <1>8, <1>9

\* Steps after which the peers are the same and nothing but pacing has changed.
LEMMA QuietHeeds ==
  ASSUME IndInv, UNCHANGED <<peers, own, heard>>,
         \A n, m \in Node : n \in out[m].pending /\ n \notin out'[m].pending =>
           own[m] \in out'[m].air[n],
         \A n, m \in Node : out'[m].air[n] = out[m].air[n] \/ own[m] \in out'[m].air[n]
  PROVE  AllHeed
<1> SUFFICES ASSUME NEW n \in Node, NEW m \in Node
             PROVE  Tells(m, n) \/ Keeps(m, n)
  BY DEF AllHeed, IndInv, TypeOK
<1>1. CASE own[m] \in out'[m].air[n]
  BY <1>1 DEF Tells, SaidTo
<1>2. CASE own[m] \notin out'[m].air[n]
  BY <1>2, SameKeeps, AlikeItself
<1> QED BY <1>1, <1>2

LEMMA SendPendingHeeds ==
  ASSUME IndInv, NEW k \in Node, SendPending(k)
  PROVE  AllHeed
<1>1. /\ out' = [out EXCEPT ![k] = Flushed(k)] /\ UNCHANGED <<peers, own, heard>>
      /\ out \in [Node -> Outbox] /\ out[k].pending \subseteq Node
  BY DEF SendPending, IndInv, TypeOK, Outbox
<1>2. \A m \in Node : out'[m] = IF m = k THEN Flushed(k) ELSE out[m]
  BY <1>1
<1>3. \A n \in Node : /\ n \in out[k].pending /\ n \notin Flushed(k).pending =>
                           own[k] \in Flushed(k).air[n]
                      /\ \/ Flushed(k).air[n] = out[k].air[n]
                         \/ own[k] \in Flushed(k).air[n]
  BY DEF Flushed, Announced
<1> QED BY <1>1, <1>2, <1>3, QuietHeeds

LEMMA ReevaluateHeeds ==
  ASSUME IndInv, NEW k \in Node, NEW s \in Suppressed, Reevaluate(k, s)
  PROVE  AllHeed
<1> DEFINE boxes == [out EXCEPT ![k] = Flushed(k)]
<1>1. boxes \in [Node -> Outbox]
  BY FlushedSays
<1>2. \A m \in Node \ {k} : boxes[m] = out[m]
  BY DEF IndInv, TypeOK
<1> HIDE DEF boxes
<1>3. PICK b : Declare(k, b, boxes) /\ UNCHANGED <<peers, heard>>
  BY DEF Reevaluate, boxes
<1>4. \A n, m \in Node : m # k /\ own'[m] = own[m] /\ out'[m] = boxes[m] => Keeps(m, n)
  BY <1>2, <1>3, SameKeeps, AlikeItself
<1> QED BY <1>1, <1>3, <1>4, DeclareHeeds

LEMMA MeasureHeeds ==
  ASSUME IndInv, NEW k \in Node, NEW x \in Node, NEW c \in Costs, NEW s \in Suppressed,
         MeasureCost(k, x, c, s)
  PROVE  AllHeed
<1>1. UNCHANGED <<peers, heard>> /\ out \in [Node -> Outbox]
  BY DEF MeasureCost, IndInv, TypeOK
<1>2. CASE UNCHANGED <<own, out>>
  BY <1>1, <1>2, QuietHeeds
<1>3. CASE \E b : Declare(k, b, out)
  <2>1. PICK b : Declare(k, b, out)
    BY <1>3
  <2>2. \A n, m \in Node : m # k /\ own'[m] = own[m] /\ out'[m] = out[m] => Keeps(m, n)
    BY <1>1, SameKeeps, AlikeItself
  <2> QED BY <1>1, <2>1, <2>2, DeclareHeeds
<1> QED BY <1>2, <1>3 DEF MeasureCost

LEMMA RemoveHeeds ==
  ASSUME IndInv, NEW k \in Node, NEW x \in Node, NEW s \in Suppressed,
         RemoveActivePeer(k, x, s)
  PROVE  AllHeed
<1>1. /\ peers \in [Node -> SUBSET Node] /\ out \in [Node -> Outbox]
      /\ own \in [Node -> Announce] /\ heard \in [Node -> [Node -> OptAnnounce]]
  BY DEF IndInv, TypeOK
<1>2. peers' = [peers EXCEPT ![k] = @ \ {x}]
  BY DEF RemoveActivePeer
<1>3. \A n, m \in Node : (n # k \/ m # x) => heard'[n][m] = heard[n][m]
  <2>1. heard' = [heard EXCEPT ![k] = [heard[k] EXCEPT ![x] = None]]
    BY DEF RemoveActivePeer
  <2> QED BY <1>1, <2>1
<1> DEFINE box == NoPacing(out[k], x)
           last == [box EXCEPT !.pending = peers[k] \ {x}]
<1>4. /\ box.air = out[k].air /\ box.pending = out[k].pending \ {x}
      /\ last.air = out[k].air /\ last.pending = peers[k] \ {x}
  BY DEF NoPacing
<1>5. \/ \E b : own' = [own EXCEPT ![k] = b] /\ out' = [out EXCEPT ![k] = last]
      \/ own' = own /\ out' = [out EXCEPT ![k] = box]
  BY DEF RemoveActivePeer
<1> HIDE DEF box, last
<1> SUFFICES ASSUME NEW n \in Node, NEW m \in peers'[n], n \in peers'[m]
             PROVE  Tells(m, n) \/ (m \in peers[n] /\ n \in peers[m] /\ Keeps(m, n))
  BY DEF AllHeed
<1>6. /\ m \in Node /\ m \in peers[n] /\ n \in peers[m]
      /\ m = k => n # x
      /\ n = k => m # x
  BY <1>1, <1>2
<1>7. CASE m # k
  <2>1. own'[m] = own[m] /\ out'[m] = out[m]
    BY <1>1, <1>5, <1>6, <1>7
  <2> QED BY <1>3, <1>6, <2>1, SameKeeps, AlikeItself
<1>8. CASE m = k /\ out' = [out EXCEPT ![k] = last]
  <2>1. n \in out'[m].pending
    BY <1>1, <1>4, <1>6, <1>8
  <2> QED BY <2>1 DEF Tells
<1>9. CASE m = k /\ own' = own /\ out' = [out EXCEPT ![k] = box]
  <2>1. /\ out'[m].air[n] = out[m].air[n]
        /\ n \in out[m].pending => n \in out'[m].pending
    BY <1>1, <1>4, <1>6, <1>9
  <2> QED BY <1>3, <1>6, <1>9, <2>1, SameKeeps, AlikeItself
<1> QED BY <1>5, <1>7, <1>8, <1>9

LEMMA ConnectHeeds ==
  ASSUME IndInv, NEW k \in Node, NEW x \in Node, k # x, Connect(k, x)
  PROVE  AllHeed
<1>1. /\ peers \in [Node -> SUBSET Node] /\ out \in [Node -> Outbox]
      /\ own \in [Node -> Announce]
      /\ \A m \in Node : out[m].air \in [Node -> SUBSET Announce]
  BY DEF IndInv, TypeOK, Outbox
<1>2. /\ peers' = [peers EXCEPT ![k] = @ \cup {x}, ![x] = @ \cup {k}]
      /\ out' = [out EXCEPT ![k] = Greeting(k, x), ![x] = Greeting(x, k)]
      /\ UNCHANGED <<own, heard>>
  BY DEF Connect
<1>3. \A m \in Node : out'[m] = IF m = k THEN Greeting(k, x)
                                ELSE IF m = x THEN Greeting(x, k) ELSE out[m]
  BY <1>1, <1>2
<1>4. \A m \in Node : peers'[m] = IF m = k THEN peers[k] \cup {x}
                                  ELSE IF m = x THEN peers[x] \cup {k} ELSE peers[m]
  BY <1>1, <1>2
<1> SUFFICES ASSUME NEW n \in Node, NEW m \in peers'[n], n \in peers'[m]
             PROVE  Tells(m, n) \/ (m \in peers[n] /\ n \in peers[m] /\ Keeps(m, n))
  BY DEF AllHeed
<1>5. m \in Node
  BY <1>1, <1>4
<1>6. ASSUME NEW i \in Node, NEW j \in Node
      PROVE  /\ Greeting(i, j).air[j] = {own[i]}
             /\ \A l \in Node \ {j} :
                  /\ Greeting(i, j).air[l] = out[i].air[l]
                  /\ l \in out[i].pending => l \in Greeting(i, j).pending
  BY <1>1 DEF Greeting
<1>7. CASE (m = k /\ n = x) \/ (m = x /\ n = k)
  <2>1. CASE m = k /\ n = x
    <3>1. out'[m].air[n] = {own[m]}
      BY <1>3, <1>6, <2>1
    <3> QED BY <1>2, <3>1 DEF Tells, SaidTo
  <2>2. CASE m = x /\ n = k
    <3>1. out'[m] = Greeting(x, k)
      BY <1>3, <2>2
    <3>2. Greeting(x, k).air[k] = {own[x]}
      BY <1>6
    <3> QED BY <1>2, <2>2, <3>1, <3>2 DEF Tells, SaidTo
  <2> QED BY <1>7, <2>1, <2>2
<1>8. CASE ~ ((m = k /\ n = x) \/ (m = x /\ n = k))
  <2>1. m \in peers[n] /\ n \in peers[m]
    BY <1>4, <1>5, <1>8
  <2>2. /\ out'[m].air[n] = out[m].air[n]
        /\ n \in out[m].pending => n \in out'[m].pending
    BY <1>3, <1>5, <1>6, <1>8
  <2> QED BY <1>2, <1>5, <2>1, <2>2, SameKeeps, AlikeItself
<1> QED BY <1>7, <1>8

LEMMA CoolDownHeeds ==
  ASSUME IndInv, NEW k \in Node, NEW x \in Node, CoolDown(k, x)
  PROVE  AllHeed
<1>1. out' = [out EXCEPT ![k].cooling = @ \ {x}] /\ UNCHANGED <<peers, own, heard>>
  BY DEF CoolDown
<1>2. out \in [Node -> Outbox]
  BY DEF IndInv, TypeOK
<1>3. \A m \in Node : out'[m].air = out[m].air /\ out'[m].pending = out[m].pending
  BY <1>1, <1>2 DEF Outbox
<1> QED BY <1>1, <1>3, QuietHeeds

LEMMA NextHeeds ==
  ASSUME ~ MayLose, IndInv, SequenceIdentifiesPath, [Next]_vars
  PROVE  AllHeed
<1>1. CASE UNCHANGED vars
  BY <1>1, QuietHeeds DEF vars
<1>2. ASSUME NEW n \in Node, SendPending(n) \/ \E s \in Suppressed : Reevaluate(n, s)
      PROVE  AllHeed
  BY <1>2, SendPendingHeeds, ReevaluateHeeds
<1>3. ASSUME NEW n \in Node, NEW m \in Node \ {n},
             \/ HandleTreeAnnounce(n, m)
             \/ \E c \in Costs, s \in Suppressed : MeasureCost(n, m, c, s)
             \/ \E s \in Suppressed : RemoveActivePeer(n, m, s)
             \/ n < m /\ Connect(n, m)
             \/ CoolDown(n, m)
      PROVE  AllHeed
  BY <1>3, HandleHeeds, MeasureHeeds, RemoveHeeds, ConnectHeeds, CoolDownHeeds
<1>4. \A n, m : ~ Lose(n, m)
  BY DEF Lose
<1> QED BY <1>1, <1>2, <1>3, <1>4 DEF Next

\* Without loss, what a node has heard last of a peer, or will hear, names the root,
\* the depth and the parent the peer has now; or the peer has an announce waiting for it.
LEMMA AlwaysDelivered == ~ MayLose => (Spec => []Delivered)
<1> SUFFICES ASSUME ~ MayLose PROVE Spec => []Delivered
  OBVIOUS
<1>1. Init /\ SequenceIdentifiesPath => Delivered
  <2> SUFFICES ASSUME Init, SequenceIdentifiesPath, NEW n \in Node, NEW m \in peers[n]
               PROVE  Latest(m, n)
    BY DEF Delivered
  <2>1. IndInv
    BY InitIndInv
  <2>2. m \in Node /\ m \in Linked(n) /\ n \in Linked(m)
    BY DEF Init, Linked
  <2>3. own[m] # None
    BY <2>1, <2>2, NoneAssumption DEF IndInv, TypeOK, Announce
  <2>4. own[m] \in SaidTo(m, n)
    <3>1. CASE Settled
      <4>1. heard[n][m] = own[m]
        BY <2>2, <3>1 DEF Init
      <4> QED BY <2>3, <4>1 DEF SaidTo
    <3>2. CASE ~ Settled
      <4>1. out[m].air[n] = {own[m]}
        BY <2>2, <3>2 DEF Init
      <4> QED BY <4>1 DEF SaidTo
    <3> QED BY <3>1, <3>2
  <2> QED BY <2>2, <2>4, OwnIsLatest DEF OwnLatest
<1>2. IndInv /\ SequenceIdentifiesPath /\ OwnLatest' /\ Delivered /\ [Next]_vars
        => Delivered'
  <2> SUFFICES ASSUME IndInv, SequenceIdentifiesPath, OwnLatest', Delivered,
                      [Next]_vars, NEW n \in Node, NEW m \in peers'[n], n \in peers'[m]
               PROVE  n \in out'[m].pending \/ Latest(m, n)'
    BY DEF Delivered
  <2>1. AllHeed
    BY NextHeeds
  <2>2. IndInv'
    BY NextIndInv
  <2>3. m \in Node
    BY <2>2 DEF IndInv, TypeOK
  <2>5. CASE Tells(m, n)
    <3>1. own'[m] \in SaidTo(m, n)' => Latest(m, n)'
      BY <2>3 DEF OwnLatest
    <3> QED BY <2>5, <3>1 DEF Tells
  <2>6. CASE m \in peers[n] /\ n \in peers[m] /\ Keeps(m, n)
    <3>1. n \in out[m].pending \/ Latest(m, n)
      BY <2>3, <2>6 DEF Delivered
    <3>2. Latest(m, n) => Latest(m, n)'
      BY <2>3, <2>6, KeepsLatest
    <3> QED BY <2>6, <3>1, <3>2 DEF Keeps
  <2> QED BY <2>1, <2>5, <2>6 DEF AllHeed
<1> QED BY <1>1, <1>2, OwnIsLatest, InductiveInvariant, NumbersIdentifyPaths, PTL DEF Spec

-----------------------------------------------------------------------------
(* The tree of a calm network.                                             *)

\* A path that is not empty has a length and a last node, a number.
LEMMA NonEmpty ==
  ASSUME NEW path \in Seq(Node), path # <<>>
  PROVE  Len(path) \in Nat \ {0} /\ Last(path) \in Node /\ Last(path) \in Nat
<1>1. Len(path) \in Nat \ {0}
  OBVIOUS
<1>2. path[Len(path)] \in Node
  BY <1>1
<1> QED BY <1>1, <1>2, NodeAssumption DEF Last

\* A node's address before a path keeps the path's root and adds one to it.
LEMMA Prefixed ==
  ASSUME NEW n \in Node, NEW path \in Seq(Node), path # <<>>,
         NEW long, long = <<n>> \o path
  PROVE  /\ Len(long) = Len(path) + 1 /\ Last(long) = Last(path)
         /\ Range(long) = {n} \cup Range(path)
<1>1. Len(path) \in Nat \ {0}
  BY NonEmpty
<1>2. /\ Len(long) = Len(path) + 1 /\ long[1] = n
      /\ \A i \in 1 .. Len(path) : long[i + 1] = path[i]
  BY <1>1
<1>3. Last(long) = Last(path)
  BY <1>1, <1>2 DEF Last
<1>4. DOMAIN long = 1 .. Len(path) + 1 /\ DOMAIN path = 1 .. Len(path)
  BY <1>1, <1>2
<1>5. ASSUME NEW x \in Range(long)
      PROVE  x \in {n} \cup Range(path)
  <2>1. PICK i \in 1 .. Len(path) + 1 : x = long[i]
    BY <1>4, <1>5 DEF Range
  <2>2. CASE i = 1
    BY <1>2, <2>1, <2>2
  <2>3. CASE i # 1
    <3>1. i - 1 \in 1 .. Len(path) /\ x = path[i - 1]
      BY <1>1, <1>2, <2>1, <2>3
    <3> QED BY <1>4, <3>1 DEF Range
  <2> QED BY <2>2, <2>3
<1>6. ASSUME NEW x \in {n} \cup Range(path)
      PROVE  x \in Range(long)
  <2>1. CASE x = n
    <3>1. 1 \in DOMAIN long /\ x = long[1]
      BY <1>1, <1>2, <1>4, <2>1
    <3> QED BY <3>1 DEF Range
  <2>2. CASE x \in Range(path)
    <3>1. PICK i \in 1 .. Len(path) : x = path[i]
      BY <1>4, <2>2 DEF Range
    <3>2. i + 1 \in DOMAIN long /\ x = long[i + 1]
      BY <1>1, <1>2, <1>4, <3>1
    <3> QED BY <3>2 DEF Range
  <2> QED BY <2>1, <2>2
<1> QED BY <1>2, <1>3, <1>5, <1>6

\* A node that is not root stands below a peer, where it last heard that peer was.
LEMMA StandsBelow ==
  ASSUME IndInv, NEW n \in Node
  PROVE  /\ own[n].path \in Seq(Node) /\ own[n].path # <<>>
         /\ Last(own[n].path) \in Nat
         /\ \/ Len(own[n].path) = 1 /\ own[n].path = <<n>> /\ IsRoot(n, own[n].path)
            \/ \E p \in peers[n] :
                 /\ p = Parent(own[n].path) /\ p \in Node /\ heard[n][p] # None
                 /\ heard[n][p].path \in Seq(Node) /\ heard[n][p].path # <<>>
                 /\ own[n].path = <<n>> \o heard[n][p].path
<1> DEFINE path == own[n].path
<1>1. GoodPlace(n, heard[n], own[n]) /\ GoodRow(heard[n])
  BY NodeFacts
<1>2. path \in Seq(Node) /\ path # <<>> /\ path[1] = n
  BY <1>1 DEF GoodPlace, Announce, PathOf
<1>3. Len(path) \in Nat \ {0}
  BY <1>2, NonEmpty
<1>4. Last(path) \in Nat
  BY <1>2, NonEmpty
<1>5. CASE Len(path) = 1
  <2>1. path = <<n>> /\ Last(path) = n
    BY <1>2, <1>5 DEF Last
  <2> QED BY <1>2, <1>4, <1>5, <2>1 DEF IsRoot
<1>6. CASE Len(path) > 1
  <2> DEFINE p == Parent(path)
  <2>1. p \in Node /\ heard[n][p] # None /\ path = <<n>> \o heard[n][p].path
    BY <1>1, <1>6 DEF GoodPlace
  <2>2. p \in peers[n]
    BY <2>1, NodeFacts
  <2>3. heard[n][p] \in Announce /\ PathOf(p, heard[n][p].path)
    BY <1>1, <2>1 DEF GoodRow, OptAnnounce
  <2> QED BY <1>2, <1>4, <2>1, <2>2, <2>3 DEF Announce, PathOf
<1>7. Len(path) = 1 \/ Len(path) > 1
  <2>1. \A l \in Nat \ {0} : l = 1 \/ l > 1
    OBVIOUS
  <2> QED BY <1>3, <2>1, Zenon
<1> QED BY <1>5, <1>6, <1>7

\* When all know each other's ancestry as it is, whoever is named in the path of a
\* node has the root of that node.
LEMMA ChainRoot ==
  ASSUME IndInv, AncestryIsCurrent, NEW q \in Node, NEW a \in Node,
         a \in Range(own[q].path)
  PROVE  Last(own[a].path) = Last(own[q].path)
<1> DEFINE Astray(k) == \E x \in Node : /\ x \in Range(own[k].path)
                                         /\ Last(own[x].path) # Last(own[k].path)
           Lengths == {Len(own[k].path) : k \in {j \in Node : Astray(j)}}
<1> SUFFICES ASSUME Lengths # {} PROVE FALSE
  OBVIOUS
<1>1. Lengths \in SUBSET Nat
  BY StandsBelow
<1>2. PICK least \in Lengths : \A l \in Lengths : least <= l
  <2> HIDE DEF Lengths
  <2> QED BY <1>1, SmallestOf
<1>3. PICK k \in Node : Astray(k) /\ Len(own[k].path) = least
  BY <1>2
<1>4. PICK x \in Node : x \in Range(own[k].path) /\ Last(own[x].path) # Last(own[k].path)
  BY <1>3
<1>5. CASE own[k].path = <<k>>
  <2>1. x = k
    BY <1>4, <1>5 DEF Range
  <2> QED BY <1>4, <2>1
<1>6. ASSUME NEW p \in peers[k], p \in Node, heard[k][p].path \in Seq(Node),
             heard[k][p].path # <<>>, own[k].path = <<k>> \o heard[k][p].path
      PROVE  FALSE
  <2>1. heard[k][p].path = own[p].path
    BY <1>6 DEF AncestryIsCurrent
  <2>2. /\ Len(own[k].path) = Len(own[p].path) + 1
        /\ Last(own[k].path) = Last(own[p].path)
        /\ Range(own[k].path) = {k} \cup Range(own[p].path)
    <3>1. \A path \in Seq(Node) : path # <<>> =>
            /\ Len(<<k>> \o path) = Len(path) + 1 /\ Last(<<k>> \o path) = Last(path)
            /\ Range(<<k>> \o path) = {k} \cup Range(path)
      BY Prefixed
    <3> QED BY <1>6, <2>1, <3>1, Zenon
  <2>3. x # k /\ x \in Range(own[p].path)
    BY <1>4, <2>2
  <2>4. Astray(p)
    BY <1>4, <2>2, <2>3
  <2>5. Len(own[p].path) \in Lengths
    BY <1>6, <2>4
  <2>6. Len(own[p].path) \in Nat
    BY <1>1, <2>5
  <2>7. least <= Len(own[p].path)
    BY <1>2, <2>5
  <2>8. least = Len(own[p].path) + 1
    BY <1>3, <2>2
  <2> HIDE DEF Lengths
  <2> QED BY <2>6, <2>7, <2>8
<1> QED BY <1>5, <1>6, StandsBelow

\* In a calm network each node has heard where its peers are.
LEMMA HeardAlike ==
  ASSUME Calm, Delivered, NEW n \in Node, NEW p \in peers[n], p \in Node
  PROVE  heard[n][p] # None /\ Alike(heard[n][p], own[p])
<1>1. n \in peers[p] /\ n \notin out[p].pending /\ out[p].air[n] = {}
  BY DEF Calm
<1>2. Latest(p, n)
  BY <1>1 DEF Delivered
<1>3. SaidTo(p, n) = {heard[n][p]} \ {None}
  BY <1>1 DEF SaidTo
<1> QED BY <1>2, <1>3 DEF Latest

\* The smallest of the roots a node has heard of.
LEMMA SmallestRootIs ==
  ASSUME NEW known, GoodRow(known), HeardFrom(known) # {}
  PROVE  /\ \E q \in HeardFrom(known) : Last(known[q].path) = SmallestRoot(known)
         /\ \A q \in HeardFrom(known) : SmallestRoot(known) <= Last(known[q].path)
         /\ SmallestRoot(known) \in Nat
<1>1. ASSUME NEW q \in HeardFrom(known)
      PROVE  Last(known[q].path) \in Nat
  <2>1. known[q] \in Announce /\ PathOf(q, known[q].path)
    BY DEF GoodRow, HeardFrom, OptAnnounce
  <2>2. known[q].path \in Seq(Node) /\ known[q].path # <<>>
    BY <2>1 DEF Announce, PathOf
  <2> QED BY <2>2, NonEmpty
<1>2. Roots(known) \in SUBSET Nat /\ Roots(known) # {}
  BY <1>1 DEF Roots
<1>3. \E r \in Roots(known) : \A s \in Roots(known) : r <= s
  BY <1>2, SmallestOf
<1>4. /\ SmallestRoot(known) \in Roots(known)
      /\ \A s \in Roots(known) : SmallestRoot(known) <= s
  BY <1>3 DEF SmallestRoot
<1> QED BY <1>1, <1>4 DEF Roots

\* A node beside one with a smaller root would go over to it.
LEMMA NoSmallerNextDoor ==
  ASSUME IndInv, Delivered, Calm, EvenlyMeasured, AncestryIsCurrent,
         NEW a \in Node, Stable(a), NEW b \in peers[a], b \in Node
  PROVE  Last(own[a].path) <= Last(own[b].path)
<1> DEFINE mine == Last(own[a].path)
           least == SmallestRoot(heard[a])
           best == BestCandidate(a, heard[a], cost[a])
<1> SUFFICES ASSUME ~ (mine <= Last(own[b].path)) PROVE FALSE
  OBVIOUS
<1>1. /\ GoodRow(heard[a]) /\ CostRow(cost[a])
      /\ \A m \in Node : heard[a][m] # None => m \in peers[a]
  BY NodeFacts
<1>2. mine \in Nat /\ Last(own[b].path) \in Nat
  BY StandsBelow
<1>3. heard[a][b] # None /\ Last(heard[a][b].path) = Last(own[b].path)
  BY HeardAlike DEF Alike
<1>4. HeardFrom(heard[a]) # {} /\ b \in HeardFrom(heard[a])
  BY <1>3 DEF HeardFrom
<1>5. least \in Nat /\ least < mine
  <2>1. least \in Nat /\ least <= Last(heard[a][b].path)
    BY <1>1, <1>4, SmallestRootIs
  <2> QED BY <1>2, <1>3, <2>1
<1>6. PICK q \in HeardFrom(heard[a]) : Last(heard[a][q].path) = least
  BY <1>1, <1>4, SmallestRootIs
<1>7. q \in Node /\ q \in peers[a] /\ heard[a][q].path = own[q].path
  BY <1>1, <1>6 DEF HeardFrom, AncestryIsCurrent
<1>8. a \notin Range(heard[a][q].path)
  <2>1. a \in Range(own[q].path) => mine = Last(own[q].path)
    BY <1>7, ChainRoot
  <2> QED BY <1>5, <1>6, <1>7, <2>1
<1>9. q \in Candidates(a, heard[a], cost[a])
  <2>1. Measured(cost[a]) # {} => q \in Measured(cost[a])
    BY <1>7 DEF EvenlyMeasured
  <2> QED BY <1>6, <1>8, <2>1 DEF Candidates
<1>10. /\ best \in Candidates(a, heard[a], cost[a])
       /\ best \in Node /\ best # None /\ Last(heard[a][best].path) = least
  <2>1. best \in Candidates(a, heard[a], cost[a])
    BY <1>1, <1>9, BestIsCandidate
  <2> QED BY <2>1, NoneAssumption DEF Candidates, HeardFrom
<1>11. ~ (IsRoot(a, own[a].path) /\ a <= least)
  BY <1>2, <1>5 DEF IsRoot
<1>12. ~ (~IsRoot(a, own[a].path) /\ Parent(own[a].path) = best)
  <2> SUFFICES ASSUME ~IsRoot(a, own[a].path), Parent(own[a].path) = best PROVE FALSE
    OBVIOUS
  <2>1. /\ heard[a][best].path \in Seq(Node) /\ heard[a][best].path # <<>>
        /\ own[a].path = <<a>> \o heard[a][best].path
    BY StandsBelow
  <2>2. mine = Last(heard[a][best].path)
    <3>1. \A path \in Seq(Node) : path # <<>> => Last(<<a>> \o path) = Last(path)
      BY Prefixed
    <3> QED BY <2>1, <3>1, Zenon
  <2>3. mine = least
    BY <1>10, <2>2
  <2> QED BY <1>2, <1>5, <2>3
<1>13. MandatorySwitch(a, own[a].path, heard[a])
  BY <1>5 DEF MandatorySwitch
<1>14. EvaluateParent(a, own[a].path, heard[a], cost[a], FALSE) = best
  BY <1>9, <1>11, <1>12, <1>13 DEF EvaluateParent
<1> QED BY <1>10, <1>14 DEF Stable

LEMMA DeliveredCalmTree == IndInv /\ Delivered => CalmTree
<1> SUFFICES ASSUME IndInv, Delivered, Calm, NEW n \in Node, NEW p \in peers[n]
             PROVE  /\ FromParent(n, p) =>
                         /\ Last(own[p].path) = Last(own[n].path)
                         /\ Len(own[n].path) = Len(own[p].path) + 1
                    /\ EvenlyMeasured /\ AncestryIsCurrent /\ (\A k \in Node : Stable(k)) =>
                         Last(own[p].path) = Last(own[n].path)
  BY DEF CalmTree
<1>1. p \in Node /\ n \in peers[p]
  BY DEF IndInv, TypeOK, Calm
<1>2. ASSUME FromParent(n, p)
      PROVE  /\ Last(own[p].path) = Last(own[n].path)
             /\ Len(own[n].path) = Len(own[p].path) + 1
  <2>1. /\ heard[n][p].path \in Seq(Node) /\ heard[n][p].path # <<>>
        /\ own[n].path = <<n>> \o heard[n][p].path
    BY <1>2, StandsBelow DEF FromParent
  <2>2. /\ Last(own[n].path) = Last(heard[n][p].path)
        /\ Len(own[n].path) = Len(heard[n][p].path) + 1
    <3>1. \A path \in Seq(Node) : path # <<>> =>
            /\ Len(<<n>> \o path) = Len(path) + 1 /\ Last(<<n>> \o path) = Last(path)
      BY Prefixed
    <3> QED BY <2>1, <3>1, Zenon
  <2> QED BY <1>1, <2>2, HeardAlike DEF Alike
<1>3. ASSUME EvenlyMeasured, AncestryIsCurrent, \A k \in Node : Stable(k)
      PROVE  Last(own[p].path) = Last(own[n].path)
  <2>1. /\ Last(own[n].path) <= Last(own[p].path)
        /\ Last(own[p].path) <= Last(own[n].path)
    BY <1>1, <1>3, NoSmallerNextDoor
  <2>2. Last(own[n].path) \in Nat /\ Last(own[p].path) \in Nat
    BY <1>1, StandsBelow
  <2> QED BY <2>1, <2>2
<1> QED BY <1>2, <1>3

\* Without loss a calm network has a tree: each node hangs below its parent as the
\* parent is (handle_tree_announce, check_tree_state and the pacing of announces lose
\* no change of root or depth), and when all ancestry is current no node keeps a root
\* that is not the smallest its neighbours offer (evaluate_parent).
THEOREM CalmNetworksHaveATree == ~ MayLose => (Spec => []CalmTree)
BY DeliveredCalmTree, AlwaysDelivered, InductiveInvariant, PTL

-----------------------------------------------------------------------------
(* A step of the filters is a step of the tree or leaves it alone.         *)

LEMMA HearAnnounceHandles ==
  ASSUME NEW n \in Node, NEW m \in Node \ {n}, HearAnnounce(n, m)
  PROVE  HandleTreeAnnounce(n, m)
BY DEF HearAnnounce, HandleTreeAnnounce

LEMMA FilterStepIsTreeStep == FilterNext => [Next]_vars
<1> SUFFICES ASSUME FilterNext PROVE [Next]_vars
  OBVIOUS
<1> PICK n \in Node :
      \/ SendPending(n)
      \/ \E s \in Suppressed : ChooseAgain(n, s)
      \/ SendPendingFilterAnnounces(n)
      \/ \E m \in Node \ {n} :
           \/ HearAnnounce(n, m)
           \/ \E c \in Costs, s \in Suppressed : ReportCost(n, m, c, s)
           \/ \E s \in Suppressed : PeerGone(n, m, s)
           \/ n < m /\ PeerNew(n, m)
           \/ IntervalEnds(n, m)
           \/ HandleFilterAnnounce(n, m)
  BY DEF FilterNext
<1>1. CASE SendPending(n)
  BY <1>1 DEF Next
<1>2. ASSUME NEW s \in Suppressed, ChooseAgain(n, s)
      PROVE  Next
  BY <1>2 DEF ChooseAgain, Next
<1>3. CASE SendPendingFilterAnnounces(n)
  BY <1>3 DEF SendPendingFilterAnnounces
<1>4. ASSUME NEW m \in Node \ {n}, HearAnnounce(n, m)
      PROVE  Next
  BY <1>4, HearAnnounceHandles DEF Next
<1>5. ASSUME NEW m \in Node \ {n}, NEW c \in Costs, NEW s \in Suppressed, ReportCost(n, m, c, s)
      PROVE  Next
  BY <1>5 DEF ReportCost, Next
<1>6. ASSUME NEW m \in Node \ {n}, NEW s \in Suppressed, PeerGone(n, m, s)
      PROVE  Next
  BY <1>6 DEF PeerGone, Next
<1>7. ASSUME NEW m \in Node \ {n}, n < m, PeerNew(n, m)
      PROVE  Next
  BY <1>7 DEF PeerNew, Next
<1>8. ASSUME NEW m \in Node \ {n}, IntervalEnds(n, m)
      PROVE  Next
  BY <1>8 DEF IntervalEnds, Next
<1>9. ASSUME NEW m \in Node \ {n}, HandleFilterAnnounce(n, m)
      PROVE  UNCHANGED vars
  BY <1>9 DEF HandleFilterAnnounce
<1> QED BY <1>1, <1>2, <1>3, <1>4, <1>5, <1>6, <1>7, <1>8, <1>9

\* Node announces of the bloom filters never disturb the spanning tree: the
\* specification with filters implements the one of the tree.
THEOREM FiltersLeaveTheTreeAlone == FilterSpec => Spec
<1>1. [FilterNext]_bvars => [Next]_vars
  BY FilterStepIsTreeStep DEF bvars
<1>2. MeshInit => Init
  BY DEF MeshInit
<1> QED BY <1>1, <1>2, PTL DEF FilterSpec, Spec

\* With filters on the way, too, no ancestry contains a node twice.
THEOREM PathsStaySimple == FilterSpec => []SimplePaths
BY FiltersLeaveTheTreeAlone, PathsAreSimple, PTL

\* With filters on the way, too, coordinates are those of the parent.
THEOREM CoordsStayTheParents == FilterSpec => []CoordsFollowParent
BY FiltersLeaveTheTreeAlone, CoordsAreTheParents, PTL

\* With filters on the way, too, a sequence number stands for one path.
THEOREM NumbersStayUnique == FilterSpec => []SequenceIdentifiesPath
BY FiltersLeaveTheTreeAlone, NumbersIdentifyPaths, PTL

\* With filters on the way, too, a calm network has a tree.
THEOREM CalmMeshesHaveATree == ~ MayLose => (FilterSpec => []CalmTree)
BY FiltersLeaveTheTreeAlone, CalmNetworksHaveATree, PTL

-----------------------------------------------------------------------------
(* The state of the filters.                                               *)

LEMMA OutgoingIsFilter ==
  ASSUME NEW n \in Node, NEW inbound \in [Node -> OptFilter],
         NEW sources \in SUBSET {k \in Node : inbound[k] # None}, NEW m
  PROVE  Outgoing(n, inbound, sources, m) \in SUBSET Node
<1>1. \A k \in sources : inbound[k] \in SUBSET Node
  BY DEF OptFilter
<1> DEFINE F == {inbound[k] : k \in sources \ {m}}
<1>2. \A S \in F : S \subseteq Node
  BY <1>1
<1>3. UNION F \subseteq Node
  <2> HIDE DEF F
  <2> QED BY <1>2, Zenon
<1> QED BY <1>3 DEF Outgoing

LEMMA SourcesHaveFilters ==
  ASSUME TypeOK, FilterTypeOK, NEW n \in Node
  PROVE  PeerInboundFilters(n) \in SUBSET {k \in Node : bloom[n].inbound[k] # None}
<1>1. peers[n] \subseteq Node
  BY DEF TypeOK
<1> QED BY <1>1 DEF PeerInboundFilters, TreePeers

LEMMA FilterInitType == MeshInit => FilterTypeOK
<1> SUFFICES ASSUME Init, FilterInit PROVE FilterTypeOK
  BY DEF MeshInit
<1>1. peers \in [Node -> SUBSET Node]
  BY InitIndInv DEF IndInv, TypeOK
<1>2. \A n, m \in Node : Reached(n, m) \in SUBSET Node
  BY DEF Reached, Side, Subtree
<1> DEFINE held(n) == [m \in Node |->
             IF Settled /\ m \in peers[n] THEN Reached(n, m) ELSE None]
           told(n) == [m \in Node |->
             IF Settled /\ m \in peers[n] THEN Reached(m, n) ELSE None]
<1>3. \A n \in Node : held(n) \in [Node -> OptFilter] /\ told(n) \in [Node -> OptFilter]
  BY <1>2 DEF OptFilter
<1>4. NoFilters \in [Node -> OptFilter]
  BY DEF NoFilters, OptFilter
<1>5. bloom = [n \in Node |->
        [inbound |-> held(n), pending |-> IF Settled THEN {} ELSE peers[n],
         sent |-> told(n), air |-> NoFilters]]
  BY DEF FilterInit
<1>6. \A n \in Node : \A m \in Node \ peers[n] : held(n)[m] = None /\ told(n)[m] = None
  OBVIOUS
<1> HIDE DEF held, told
<1>7. bloom \in [Node -> FilterState]
  BY <1>1, <1>3, <1>4, <1>5 DEF FilterState
<1> QED BY <1>1, <1>5, <1>6, <1>7 DEF FilterTypeOK

\* A step that gives n another state of its filters, with nothing kept of a node
\* that is no peer any more, and may take a filter from the way or drop one.
LEMMA FilterStep ==
  ASSUME TypeOK, FilterTypeOK, peers' \in [Node -> SUBSET Node],
         bloom' \in [Node -> FilterState],
         \A n \in Node :
           /\ bloom'[n].pending \subseteq peers'[n]
           /\ \A m \in Node \ peers'[n] : bloom'[n].inbound[m] = None /\ bloom'[n].sent[m] = None
  PROVE  FilterTypeOK'
BY DEF FilterTypeOK

\* A record of the filters with its fields replaced one after the other.
LEMMA PendingExcept ==
  ASSUME NEW s \in FilterState, NEW P
  PROVE  [s EXCEPT !.pending = P]
           = [inbound |-> s.inbound, pending |-> P, sent |-> s.sent, air |-> s.air]
BY DEF FilterState

LEMMA SentExcept ==
  ASSUME NEW I, NEW P, NEW S, NEW A, NEW T
  PROVE  [[inbound |-> I, pending |-> P, sent |-> S, air |-> A] EXCEPT !.sent = T]
           = [inbound |-> I, pending |-> P, sent |-> T, air |-> A]
OBVIOUS

LEMMA AirExcept ==
  ASSUME NEW I, NEW P, NEW S, NEW A, NEW T
  PROVE  [[inbound |-> I, pending |-> P, sent |-> S, air |-> A] EXCEPT !.air = T]
           = [inbound |-> I, pending |-> P, sent |-> S, air |-> T]
OBVIOUS

LEMMA SendExcept ==
  ASSUME NEW s \in FilterState, NEW P, NEW S, NEW A
  PROVE  [s EXCEPT !.pending = P, !.sent = S, !.air = A]
           = [inbound |-> s.inbound, pending |-> P, sent |-> S, air |-> A]
<1>1. [s EXCEPT !.pending = P]
        = [inbound |-> s.inbound, pending |-> P, sent |-> s.sent, air |-> s.air]
  BY PendingExcept
<1>2. [[inbound |-> s.inbound, pending |-> P, sent |-> s.sent, air |-> s.air] EXCEPT !.sent = S]
        = [inbound |-> s.inbound, pending |-> P, sent |-> S, air |-> s.air]
  BY SentExcept
<1>3. [[inbound |-> s.inbound, pending |-> P, sent |-> S, air |-> s.air] EXCEPT !.air = A]
        = [inbound |-> s.inbound, pending |-> P, sent |-> S, air |-> A]
  BY AirExcept
<1> QED BY <1>1, <1>2, <1>3, Zenon

LEMMA MarkedType ==
  ASSUME TypeOK, FilterTypeOK, NEW n \in Node, NEW targets \in SUBSET peers[n],
         UNCHANGED peers, bloom' = Marked(n, targets)
  PROVE  FilterTypeOK'
<1>1. peers \in [Node -> SUBSET Node]
  BY DEF TypeOK
<1>2. bloom' = [bloom EXCEPT ![n].pending = @ \cup targets]
  BY DEF Marked
<1>3. bloom \in [Node -> FilterState] /\ bloom[n].pending \subseteq peers[n]
  BY DEF FilterTypeOK
<1> DEFINE state == [bloom[n] EXCEPT !.pending = @ \cup targets]
<1>4. /\ state \in FilterState /\ state.pending = bloom[n].pending \cup targets
      /\ state.inbound = bloom[n].inbound /\ state.sent = bloom[n].sent
  <2>1. bloom[n] \in FilterState /\ bloom[n].pending \cup targets \in SUBSET Node
    BY <1>1, <1>3
  <2>2. state = [inbound |-> bloom[n].inbound, pending |-> bloom[n].pending \cup targets,
                 sent |-> bloom[n].sent, air |-> bloom[n].air]
    BY <2>1, PendingExcept
  <2> HIDE DEF state
  <2> QED BY <2>1, <2>2 DEF FilterState
<1>5. bloom' = [bloom EXCEPT ![n] = state]
  BY <1>2
<1> HIDE DEF state
<1>6. /\ bloom' \in [Node -> FilterState]
      /\ \A k \in Node : bloom'[k] = IF k = n THEN state ELSE bloom[k]
  BY <1>3, <1>4, <1>5
<1> QED BY <1>1, <1>3, <1>4, <1>6, FilterStep DEF FilterTypeOK

LEMMA HearAnnounceType ==
  ASSUME IndInv, FilterTypeOK, NEW n \in Node, NEW m \in Node \ {n}, HearAnnounce(n, m)
  PROVE  FilterTypeOK'
<1> USE DEF IndInv
<1> PICK a \in out[m].air[n] :
      \/ IgnoreAnnounce(n, m, a) /\ UNCHANGED bloom
      \/ \E s \in Suppressed :
           \/ SwitchParent(n, m, a, s) /\ bloom' = Marked(n, peers[n])
           \/ DropLoopingParent(n, m, a, s) /\ bloom' = Marked(n, {m})
           \/ /\ FollowParent(n, m, a, s)
              /\ bloom' = Marked(n, IF Moved(n, own'[n].path) THEN peers[n] ELSE {m})
           \/ NotePeer(n, m, a, s) /\ bloom' = Marked(n, Welcome(n, m, a))
  BY DEF HearAnnounce
<1>1. CASE IgnoreAnnounce(n, m, a) /\ UNCHANGED bloom
  <2>1. UNCHANGED <<peers, bloom>>
    BY <1>1 DEF IgnoreAnnounce
  <2> QED BY <2>1 DEF FilterTypeOK
<1>2. ASSUME NEW targets \in SUBSET (peers[n] \cup {m}), Hear(n, m, a), bloom' = Marked(n, targets)
      PROVE  FilterTypeOK'
  <2>1. m \in peers[n] /\ UNCHANGED peers
    BY <1>2 DEF Hear, IsNews
  <2> QED BY <1>2, <2>1, MarkedType
<1>3. ASSUME NEW s \in Suppressed, SwitchParent(n, m, a, s), bloom' = Marked(n, peers[n])
      PROVE  FilterTypeOK'
  BY <1>2, <1>3 DEF SwitchParent
<1>4. ASSUME NEW s \in Suppressed, DropLoopingParent(n, m, a, s), bloom' = Marked(n, {m})
      PROVE  FilterTypeOK'
  BY <1>2, <1>4 DEF DropLoopingParent
<1>5. ASSUME NEW s \in Suppressed, FollowParent(n, m, a, s),
             bloom' = Marked(n, IF Moved(n, own'[n].path) THEN peers[n] ELSE {m})
      PROVE  FilterTypeOK'
  <2>1. Hear(n, m, a)
    BY <1>5 DEF FollowParent
  <2> QED BY <1>2, <1>5, <2>1
<1>6. ASSUME NEW s \in Suppressed, NotePeer(n, m, a, s), bloom' = Marked(n, Welcome(n, m, a))
      PROVE  FilterTypeOK'
  <2>1. Hear(n, m, a) /\ Welcome(n, m, a) \subseteq {m}
    BY <1>6 DEF NotePeer, Welcome
  <2> QED BY <1>2, <1>6, <2>1
<1> QED BY <1>1, <1>3, <1>4, <1>5, <1>6

LEMMA SendFiltersType ==
  ASSUME TypeOK, FilterTypeOK, NEW n \in Node, SendPendingFilterAnnounces(n)
  PROVE  FilterTypeOK'
<1> DEFINE filter(m) == Outgoing(n, bloom[n].inbound, PeerInboundFilters(n), m)
           after(last) == [m \in Node |-> IF m \in Ready(n) THEN filter(m) ELSE last[m]]
           state == [bloom[n] EXCEPT !.pending = @ \ Ready(n), !.sent = after(@), !.air = after(@)]
<1>1. /\ peers \in [Node -> SUBSET Node] /\ UNCHANGED peers
      /\ bloom \in [Node -> FilterState] /\ bloom[n].pending \subseteq peers[n]
  BY DEF TypeOK, FilterTypeOK, SendPendingFilterAnnounces, vars
<1>2. /\ bloom[n].inbound \in [Node -> OptFilter] /\ bloom[n].sent \in [Node -> OptFilter]
      /\ bloom[n].air \in [Node -> OptFilter]
  BY <1>1 DEF FilterState
<1>3. \A m \in Node : filter(m) \in SUBSET Node
  BY <1>2, SourcesHaveFilters, OutgoingIsFilter
<1>4. bloom' = [bloom EXCEPT ![n] = state]
  BY DEF SendPendingFilterAnnounces
<1>5. after(bloom[n].sent) \in [Node -> OptFilter] /\ after(bloom[n].air) \in [Node -> OptFilter]
  BY <1>2, <1>3 DEF OptFilter
<1>6. \A m \in Node \ peers[n] : after(bloom[n].sent)[m] = bloom[n].sent[m]
  BY <1>1 DEF Ready
<1> HIDE DEF after, filter
<1>7. /\ state \in FilterState /\ state.pending \subseteq peers[n]
      /\ state.inbound = bloom[n].inbound /\ state.sent = after(bloom[n].sent)
  <2>1. /\ bloom[n] \in FilterState
        /\ bloom[n].pending \ Ready(n) \in SUBSET Node /\ bloom[n].pending \ Ready(n) \subseteq peers[n]
    BY <1>1
  <2>2. state = [inbound |-> bloom[n].inbound, pending |-> bloom[n].pending \ Ready(n),
                 sent |-> after(bloom[n].sent), air |-> after(bloom[n].air)]
    BY <2>1, SendExcept
  <2> HIDE DEF state
  <2> QED BY <1>5, <2>1, <2>2 DEF FilterState
<1> HIDE DEF state
<1>8. /\ bloom' \in [Node -> FilterState]
      /\ \A k \in Node : bloom'[k] = IF k = n THEN state ELSE bloom[k]
  BY <1>1, <1>4, <1>7
<1> QED BY <1>1, <1>6, <1>7, <1>8, FilterStep DEF FilterTypeOK

LEMMA AirStateExcept ==
  ASSUME NEW s \in FilterState, NEW A
  PROVE  [s EXCEPT !.air = A]
           = [inbound |-> s.inbound, pending |-> s.pending, sent |-> s.sent, air |-> A]
BY DEF FilterState

LEMMA InboundStateExcept ==
  ASSUME NEW s \in FilterState, NEW I, NEW P
  PROVE  [s EXCEPT !.inbound = I, !.pending = P]
           = [inbound |-> I, pending |-> P, sent |-> s.sent, air |-> s.air]
<1>1. [s EXCEPT !.inbound = I]
        = [inbound |-> I, pending |-> s.pending, sent |-> s.sent, air |-> s.air]
  BY DEF FilterState
<1>2. [[inbound |-> I, pending |-> s.pending, sent |-> s.sent, air |-> s.air] EXCEPT !.pending = P]
        = [inbound |-> I, pending |-> P, sent |-> s.sent, air |-> s.air]
  OBVIOUS
<1> QED BY <1>1, <1>2, Zenon

LEMMA HandleFilterType ==
  ASSUME TypeOK, FilterTypeOK, NEW n \in Node, NEW m \in Node \ {n}, HandleFilterAnnounce(n, m)
  PROVE  FilterTypeOK'
<1> DEFINE filter == bloom[m].air[n]
           inbound == [bloom[n].inbound EXCEPT ![m] = filter]
           air == [bloom[m].air EXCEPT ![n] = None]
           sender == [bloom[m] EXCEPT !.air = air]
           pending == bloom[n].pending \cup ChangedPeers(n, m, inbound)
           state == [bloom[n] EXCEPT !.inbound = inbound, !.pending = pending]
<1>1. /\ peers \in [Node -> SUBSET Node] /\ UNCHANGED peers
      /\ bloom \in [Node -> FilterState]
  BY DEF TypeOK, FilterTypeOK, HandleFilterAnnounce, vars
<1>2. /\ bloom[n].inbound \in [Node -> OptFilter] /\ bloom[m].air \in [Node -> OptFilter]
      /\ bloom[n].pending \subseteq peers[n]
  BY <1>1 DEF FilterState, FilterTypeOK
<1>3. inbound \in [Node -> OptFilter] /\ air \in [Node -> OptFilter]
  BY <1>2 DEF OptFilter
<1>4. pending \subseteq peers[n] /\ pending \in SUBSET Node
  BY <1>1, <1>2 DEF ChangedPeers
<1>5. \A k \in Node \ {m} : inbound[k] = bloom[n].inbound[k]
  BY <1>2
<1>6. bloom' = IF m \in peers[n] THEN [bloom EXCEPT ![m] = sender, ![n] = state]
               ELSE [bloom EXCEPT ![m] = sender]
  <2>1. [bloom EXCEPT ![m].air[n] = None] = [bloom EXCEPT ![m] = sender]
    BY Zenon
  <2>2. [bloom EXCEPT ![m] = sender][n] = bloom[n]
    BY <1>1
  <2>3. [[bloom EXCEPT ![m].air[n] = None] EXCEPT ![n].inbound = inbound,
                          ![n].pending = @ \cup ChangedPeers(n, m, inbound)]
         = [[bloom EXCEPT ![m] = sender] EXCEPT ![n] = state]
    BY <1>1, <2>1, <2>2
  <2> QED BY <2>1, <2>3 DEF HandleFilterAnnounce
<1>7. /\ sender = [inbound |-> bloom[m].inbound, pending |-> bloom[m].pending,
                   sent |-> bloom[m].sent, air |-> air]
      /\ state = [inbound |-> inbound, pending |-> pending,
                  sent |-> bloom[n].sent, air |-> bloom[n].air]
  <2>1. bloom[m] \in FilterState /\ bloom[n] \in FilterState
    BY <1>1
  <2> HIDE DEF inbound, air, pending
  <2>2. sender = [inbound |-> bloom[m].inbound, pending |-> bloom[m].pending,
                  sent |-> bloom[m].sent, air |-> air]
    BY <2>1, AirStateExcept
  <2>3. state = [inbound |-> inbound, pending |-> pending,
                 sent |-> bloom[n].sent, air |-> bloom[n].air]
    BY <2>1, InboundStateExcept
  <2> QED BY <2>2, <2>3
<1> HIDE DEF filter, inbound, air, pending, sender, state
<1>8. sender \in FilterState /\ state \in FilterState
  BY <1>1, <1>3, <1>4, <1>7 DEF FilterState
<1>9. /\ bloom' \in [Node -> FilterState]
      /\ \A k \in Node :
           bloom'[k] = IF k = m THEN sender ELSE IF k = n /\ m \in peers[n] THEN state ELSE bloom[k]
  BY <1>1, <1>6, <1>8
<1>10. /\ sender.pending = bloom[m].pending
       /\ sender.inbound = bloom[m].inbound /\ sender.sent = bloom[m].sent
       /\ state.pending = pending /\ state.inbound = inbound /\ state.sent = bloom[n].sent
  BY <1>7
<1>11. \A k \in Node :
         /\ bloom'[k].pending \subseteq peers[k]
         /\ \A j \in Node \ peers[k] : bloom'[k].inbound[j] = None /\ bloom'[k].sent[j] = None
  BY <1>4, <1>5, <1>9, <1>10 DEF FilterTypeOK
<1> QED BY <1>1, <1>9, <1>11, FilterStep

LEMMA ForgetExcept ==
  ASSUME NEW s \in FilterState, NEW I, NEW S, NEW P
  PROVE  [s EXCEPT !.inbound = I, !.sent = S, !.pending = P]
           = [inbound |-> I, pending |-> P, sent |-> S, air |-> s.air]
<1>1. [s EXCEPT !.inbound = I]
        = [inbound |-> I, pending |-> s.pending, sent |-> s.sent, air |-> s.air]
  BY DEF FilterState
<1>2. [[inbound |-> I, pending |-> s.pending, sent |-> s.sent, air |-> s.air] EXCEPT !.sent = S]
        = [inbound |-> I, pending |-> s.pending, sent |-> S, air |-> s.air]
  OBVIOUS
<1>3. [[inbound |-> I, pending |-> s.pending, sent |-> S, air |-> s.air] EXCEPT !.pending = P]
        = [inbound |-> I, pending |-> P, sent |-> S, air |-> s.air]
  OBVIOUS
<1> QED BY <1>1, <1>2, <1>3, Zenon

LEMMA ForgetType ==
  ASSUME TypeOK, FilterTypeOK, NEW n \in Node, NEW m \in Node,
         peers' = [peers EXCEPT ![n] = @ \ {m}], bloom' = ForgetPeer(n, m)
  PROVE  FilterTypeOK'
<1> DEFINE inbound == [bloom[n].inbound EXCEPT ![m] = None]
           sent == [bloom[n].sent EXCEPT ![m] = None]
           pending == peers[n] \ {m}
           state == [inbound |-> inbound, pending |-> pending, sent |-> sent, air |-> bloom[n].air]
<1>1. peers \in [Node -> SUBSET Node] /\ bloom \in [Node -> FilterState]
  BY DEF TypeOK, FilterTypeOK
<1>2. /\ bloom[n].inbound \in [Node -> OptFilter] /\ bloom[n].sent \in [Node -> OptFilter]
      /\ bloom[n].air \in [Node -> OptFilter]
  BY <1>1 DEF FilterState
<1>3. inbound \in [Node -> OptFilter] /\ sent \in [Node -> OptFilter] /\ pending \in SUBSET Node
  BY <1>1, <1>2 DEF OptFilter
<1>4. \A k \in Node : /\ inbound[k] = IF k = m THEN None ELSE bloom[n].inbound[k]
                      /\ sent[k] = IF k = m THEN None ELSE bloom[n].sent[k]
  BY <1>2
<1>5. bloom' = [bloom EXCEPT ![n] = state]
  <2>1. [bloom EXCEPT ![n].inbound[m] = None, ![n].sent[m] = None, ![n].pending = pending]
        = [bloom EXCEPT ![n] = [@ EXCEPT !.inbound = inbound, !.sent = sent, !.pending = pending]]
    <3> HIDE DEF pending
    <3> QED BY <1>1, Zenon
  <2>2. [bloom[n] EXCEPT !.inbound = inbound, !.sent = sent, !.pending = pending] = state
    <3> HIDE DEF inbound, sent, pending
    <3>1. bloom[n] \in FilterState
      BY <1>1
    <3> QED BY <3>1, ForgetExcept
  <2> QED BY <2>1, <2>2 DEF ForgetPeer
<1>6. state.pending = pending /\ state.inbound = inbound /\ state.sent = sent
  OBVIOUS
<1>7. state \in FilterState
  <2> HIDE DEF inbound, sent, pending
  <2> QED BY <1>2, <1>3 DEF FilterState
<1> HIDE DEF inbound, sent, state
<1>8. /\ bloom' \in [Node -> FilterState]
      /\ \A k \in Node : bloom'[k] = IF k = n THEN state ELSE bloom[k]
  BY <1>1, <1>5, <1>7
<1>9. /\ peers' \in [Node -> SUBSET Node]
      /\ \A k \in Node : peers'[k] = IF k = n THEN pending ELSE peers[k]
  BY <1>1
<1> HIDE DEF pending
<1>10. \A j \in Node \ pending : inbound[j] = None /\ sent[j] = None
  BY <1>4 DEF FilterTypeOK, pending
<1>11. \A k \in Node :
         /\ bloom'[k].pending \subseteq peers'[k]
         /\ \A j \in Node \ peers'[k] : bloom'[k].inbound[j] = None /\ bloom'[k].sent[j] = None
  BY <1>6, <1>8, <1>9, <1>10 DEF FilterTypeOK
<1> QED BY <1>8, <1>9, <1>11, FilterStep

LEMMA PendingAirExcept ==
  ASSUME NEW s \in FilterState, NEW P, NEW A
  PROVE  [s EXCEPT !.pending = P, !.air = A]
           = [inbound |-> s.inbound, pending |-> P, sent |-> s.sent, air |-> A]
<1>1. [s EXCEPT !.pending = P]
        = [inbound |-> s.inbound, pending |-> P, sent |-> s.sent, air |-> s.air]
  BY PendingExcept
<1>2. [[inbound |-> s.inbound, pending |-> P, sent |-> s.sent, air |-> s.air] EXCEPT !.air = A]
        = [inbound |-> s.inbound, pending |-> P, sent |-> s.sent, air |-> A]
  BY AirExcept
<1> QED BY <1>1, <1>2, Zenon

LEMMA GreetExcept ==
  ASSUME NEW F \in [Node -> FilterState], NEW n \in Node, NEW m \in Node
  PROVE  [F EXCEPT ![n].pending = @ \cup {m}, ![n].air[m] = None]
           = [F EXCEPT ![n] = [inbound |-> F[n].inbound, pending |-> F[n].pending \cup {m},
                               sent |-> F[n].sent, air |-> [F[n].air EXCEPT ![m] = None]]]
<1> DEFINE P == F[n].pending \cup {m}
           s == [inbound |-> F[n].inbound, pending |-> P, sent |-> F[n].sent, air |-> F[n].air]
           G == [F EXCEPT ![n] = s]
<1>1. [F[n] EXCEPT !.pending = P] = s
  BY PendingExcept
<1>2. [F EXCEPT ![n].pending = P] = G
  BY <1>1, Zenon
<1>3. G[n] = s /\ s.air = F[n].air
  OBVIOUS
<1>4. ASSUME NEW X PROVE [G EXCEPT ![n] = X] = [F EXCEPT ![n] = X]
  OBVIOUS
<1>5. [G EXCEPT ![n].air[m] = None] = [G EXCEPT ![n] = [s EXCEPT !.air = [F[n].air EXCEPT ![m] = None]]]
  <2> HIDE DEF G, s
  <2> QED BY <1>3, Zenon
<1>6. [s EXCEPT !.air = [F[n].air EXCEPT ![m] = None]]
        = [inbound |-> F[n].inbound, pending |-> P, sent |-> F[n].sent,
           air |-> [F[n].air EXCEPT ![m] = None]]
  BY AirExcept
<1>7. [G EXCEPT ![n] = [s EXCEPT !.air = [F[n].air EXCEPT ![m] = None]]]
        = [F EXCEPT ![n] = [s EXCEPT !.air = [F[n].air EXCEPT ![m] = None]]]
  BY <1>4
<1>8. [F EXCEPT ![n].pending = @ \cup {m}] = G
  BY <1>2
<1> HIDE DEF P, s, G
<1>9. [[F EXCEPT ![n].pending = @ \cup {m}] EXCEPT ![n].air[m] = None]
        = [F EXCEPT ![n] = [inbound |-> F[n].inbound, pending |-> P, sent |-> F[n].sent,
                            air |-> [F[n].air EXCEPT ![m] = None]]]
  BY <1>5, <1>6, <1>7, <1>8, Zenon
<1> QED BY <1>9 DEF P

\* The state of the filters of k when a peer j is new.
Fresh(k, j) ==
  [inbound |-> bloom[k].inbound, pending |-> bloom[k].pending \cup {j},
   sent |-> bloom[k].sent, air |-> [bloom[k].air EXCEPT ![j] = None]]

LEMMA FreshState ==
  ASSUME FilterTypeOK, NEW k \in Node, NEW j \in Node
  PROVE  /\ Fresh(k, j) \in FilterState
         /\ Fresh(k, j).pending = bloom[k].pending \cup {j}
         /\ Fresh(k, j).inbound = bloom[k].inbound /\ Fresh(k, j).sent = bloom[k].sent
         /\ Fresh(k, j).air = [bloom[k].air EXCEPT ![j] = None]
<1>1. /\ bloom[k].inbound \in [Node -> OptFilter] /\ bloom[k].sent \in [Node -> OptFilter]
      /\ bloom[k].air \in [Node -> OptFilter] /\ bloom[k].pending \cup {j} \in SUBSET Node
  BY DEF FilterTypeOK, FilterState
<1>2. [bloom[k].air EXCEPT ![j] = None] \in [Node -> OptFilter]
  BY <1>1 DEF OptFilter
<1> QED BY <1>1, <1>2 DEF Fresh, FilterState

LEMMA WelcomeIs ==
  ASSUME FilterTypeOK, NEW n \in Node, NEW m \in Node, n # m, PeerNew(n, m)
  PROVE  /\ bloom' \in [Node -> FilterState]
         /\ \A k \in Node : bloom'[k] = IF k = m THEN Fresh(m, n)
                                        ELSE IF k = n THEN Fresh(n, m) ELSE bloom[k]
<1>1. bloom \in [Node -> FilterState]
  BY DEF FilterTypeOK
<1>3. \A k, j \in Node : Fresh(k, j) \in FilterState
  BY FreshState
<1>4. bloom' = [[bloom EXCEPT ![n].pending = @ \cup {m}, ![n].air[m] = None]
                  EXCEPT ![m].pending = @ \cup {n}, ![m].air[n] = None]
  BY ZenonT(60) DEF PeerNew
<1>5. bloom' = [bloom EXCEPT ![n] = Fresh(n, m), ![m] = Fresh(m, n)]
  <2> DEFINE G == [bloom EXCEPT ![n] = Fresh(n, m)]
  <2>1. [bloom EXCEPT ![n].pending = @ \cup {m}, ![n].air[m] = None] = G
    BY ZenonT(60), <1>1, GreetExcept DEF Fresh
  <2>2. G \in [Node -> FilterState]
    <3> QED BY <1>1, <1>3
  <2>3. G[m] = bloom[m]
    BY <1>1
  <2> HIDE DEF G
  <2>4. [G EXCEPT ![m].pending = @ \cup {n}, ![m].air[n] = None] = [G EXCEPT ![m] = Fresh(m, n)]
    <3>1. [G EXCEPT ![m].pending = @ \cup {n}, ![m].air[n] = None]
            = [G EXCEPT ![m] = [inbound |-> G[m].inbound, pending |-> G[m].pending \cup {n},
                                sent |-> G[m].sent, air |-> [G[m].air EXCEPT ![n] = None]]]
      BY ZenonT(60), <2>2, GreetExcept
    <3>2. [inbound |-> G[m].inbound, pending |-> G[m].pending \cup {n},
           sent |-> G[m].sent, air |-> [G[m].air EXCEPT ![n] = None]] = Fresh(m, n)
      BY <2>3 DEF Fresh
    <3> QED BY <3>1, <3>2, Zenon
  <2>5. bloom' = [G EXCEPT ![m] = Fresh(m, n)]
    BY <1>4, <2>1, <2>4, Zenon
  <2> QED BY <2>5 DEF G
<1> QED BY <1>1, <1>3, <1>5

LEMMA WelcomeType ==
  ASSUME TypeOK, FilterTypeOK, NEW n \in Node, NEW m \in Node, n # m, PeerNew(n, m)
  PROVE  FilterTypeOK'
<1>1. /\ peers \in [Node -> SUBSET Node]
      /\ peers' = [peers EXCEPT ![n] = @ \cup {m}, ![m] = @ \cup {n}]
  BY DEF TypeOK, PeerNew, Connect
<1>2. /\ peers' \in [Node -> SUBSET Node]
      /\ \A k \in Node : peers'[k] = IF k = n THEN peers[n] \cup {m}
                                   ELSE IF k = m THEN peers[m] \cup {n} ELSE peers[k]
  BY <1>1
<1>3. /\ bloom' \in [Node -> FilterState]
      /\ \A k \in Node : bloom'[k] = IF k = m THEN Fresh(m, n)
                                     ELSE IF k = n THEN Fresh(n, m) ELSE bloom[k]
  BY WelcomeIs
<1>4. \A k, j \in Node : /\ Fresh(k, j).pending = bloom[k].pending \cup {j}
                         /\ Fresh(k, j).inbound = bloom[k].inbound
                         /\ Fresh(k, j).sent = bloom[k].sent
  BY FreshState
<1>5. \A k \in Node :
        /\ bloom'[k].pending \subseteq peers'[k]
        /\ \A j \in Node \ peers'[k] : bloom'[k].inbound[j] = None /\ bloom'[k].sent[j] = None
  BY <1>2, <1>3, <1>4 DEF FilterTypeOK
<1> QED BY <1>2, <1>3, <1>5, FilterStep

LEMMA NextFilterType ==
  ASSUME IndInv, FilterTypeOK, FilterNext
  PROVE  FilterTypeOK'
<1>1. TypeOK
  BY DEF IndInv
<1> PICK n \in Node :
      \/ SendPending(n) /\ UNCHANGED bloom
      \/ \E s \in Suppressed : ChooseAgain(n, s)
      \/ SendPendingFilterAnnounces(n)
      \/ \E m \in Node \ {n} :
           \/ HearAnnounce(n, m)
           \/ \E c \in Costs, s \in Suppressed : ReportCost(n, m, c, s)
           \/ \E s \in Suppressed : PeerGone(n, m, s)
           \/ n < m /\ PeerNew(n, m)
           \/ IntervalEnds(n, m)
           \/ HandleFilterAnnounce(n, m)
  BY DEF FilterNext
<1>2. ASSUME UNCHANGED <<peers, bloom>> PROVE FilterTypeOK'
  BY <1>2 DEF FilterTypeOK
<1>3. ASSUME UNCHANGED peers, bloom' = Marked(n, peers[n]) PROVE FilterTypeOK'
  BY <1>1, <1>3, MarkedType
<1>4. CASE SendPending(n) /\ UNCHANGED bloom
  BY <1>2, <1>4 DEF SendPending
<1>5. ASSUME NEW s \in Suppressed, ChooseAgain(n, s)
      PROVE  FilterTypeOK'
  BY <1>3, <1>5 DEF ChooseAgain, Reevaluate
<1>6. CASE SendPendingFilterAnnounces(n)
  BY <1>1, <1>6, SendFiltersType
<1>7. ASSUME NEW m \in Node \ {n}, HearAnnounce(n, m)
      PROVE  FilterTypeOK'
  BY <1>7, HearAnnounceType
<1>8. ASSUME NEW m \in Node \ {n}, NEW c \in Costs, NEW s \in Suppressed, ReportCost(n, m, c, s)
      PROVE  FilterTypeOK'
  <2>1. UNCHANGED peers /\ bloom' = IF own'[n] # own[n] THEN Marked(n, peers[n]) ELSE bloom
    BY <1>8 DEF ReportCost, MeasureCost
  <2> QED BY <1>2, <1>3, <2>1
<1>9. ASSUME NEW m \in Node \ {n}, NEW s \in Suppressed, PeerGone(n, m, s)
      PROVE  FilterTypeOK'
  <2>1. peers' = [peers EXCEPT ![n] = @ \ {m}] /\ bloom' = ForgetPeer(n, m)
    BY <1>9 DEF PeerGone, RemoveActivePeer
  <2> QED BY <1>1, <2>1, ForgetType
<1>10. ASSUME NEW m \in Node \ {n}, n < m, PeerNew(n, m)
       PROVE  FilterTypeOK'
  BY <1>1, <1>10, WelcomeType
<1>11. ASSUME NEW m \in Node \ {n}, IntervalEnds(n, m)
       PROVE  FilterTypeOK'
  BY <1>2, <1>11 DEF IntervalEnds, CoolDown
<1>12. ASSUME NEW m \in Node \ {n}, HandleFilterAnnounce(n, m)
       PROVE  FilterTypeOK'
  BY <1>1, <1>12, HandleFilterType
<1> QED BY <1>4, <1>5, <1>6, <1>7, <1>8, <1>9, <1>10, <1>11, <1>12

\* Filters are sets of nodes, and nothing is kept or pending for a node that
\* is no peer: remove_peer_state clears what the peer left behind.
THEOREM FilterStateCorrect == FilterSpec => []FilterTypeOK
<1>1. MeshInit => FilterTypeOK
  BY FilterInitType
<1>2. IndInv /\ FilterTypeOK /\ [FilterNext]_bvars => FilterTypeOK'
  BY NextFilterType DEF bvars, vars, FilterTypeOK
<1>3. FilterSpec => []IndInv
  BY FiltersLeaveTheTreeAlone, InductiveInvariant, PTL
<1> QED BY <1>1, <1>2, <1>3, PTL DEF FilterSpec

-----------------------------------------------------------------------------
(* Subtrees.                                                               *)

Deep(n) == Len(own[n].path)
RootOf(n) == Last(own[n].path)

\* A tree on the peers: who is not root hangs one level below a peer with its root.
TreeShape ==
  /\ peers \in [Node -> SUBSET Node]
  /\ \A n \in Node : \A m \in peers[n] : n \in peers[m]
  /\ \A n \in Node :
       /\ Deep(n) \in Nat \ {0} /\ RootOf(n) \in Node
       /\ \/ Deep(n) = 1 /\ RootOf(n) = n
          \/ \E p \in peers[n] : /\ FromParent(n, p) /\ RootOf(p) = RootOf(n)
                                 /\ Deep(n) = Deep(p) + 1

\* A child is a level below its only parent and has its root.
LEMMA ChildIs ==
  ASSUME TreeShape, NEW n \in Node, NEW p, FromParent(n, p)
  PROVE  /\ p \in Node /\ p \in peers[n] /\ n \in peers[p]
         /\ RootOf(p) = RootOf(n) /\ Deep(n) = Deep(p) + 1
<1>1. RootOf(n) # n /\ Parent(own[n].path) = p
  BY DEF FromParent, IsRoot, RootOf
<1>2. PICK q \in peers[n] : /\ FromParent(n, q) /\ RootOf(q) = RootOf(n)
                            /\ Deep(n) = Deep(q) + 1
  BY <1>1 DEF TreeShape
<1>3. q = p
  BY <1>1, <1>2 DEF FromParent
<1> QED BY <1>2, <1>3 DEF TreeShape

LEMMA OneParent ==
  ASSUME NEW n, NEW p, NEW q, FromParent(n, p), FromParent(n, q)
  PROVE  p = q
BY DEF FromParent

LEMMA SubtreeGrows ==
  ASSUME NEW m \in Node
  PROVE  /\ Subtree(m) \subseteq Node /\ m \in Subtree(m)
         /\ \A i \in Subtree(m), j \in Node : FromParent(j, i) => j \in Subtree(m)
<1>1. Subtree(m) \subseteq Node /\ m \in Subtree(m)
  BY DEF Subtree
<1>2. ASSUME NEW i \in Subtree(m), NEW j \in Node, FromParent(j, i)
      PROVE  j \in Subtree(m)
  <2> SUFFICES ASSUME NEW S \in SUBSET Node, m \in S,
                      \A h \in S, k \in Node : FromParent(k, h) => k \in S
               PROVE  j \in S
    BY DEF Subtree
  <2>1. i \in S
    BY DEF Subtree
  <2> QED BY <1>2, <2>1
<1> QED BY <1>1, <1>2

LEMMA SubtreeLeast ==
  ASSUME NEW m \in Node, NEW S \in SUBSET Node, m \in S,
         \A i \in S, j \in Node : FromParent(j, i) => j \in S
  PROVE  Subtree(m) \subseteq S
BY DEF Subtree

LEMMA SubtreeCase ==
  ASSUME NEW m \in Node, NEW j \in Subtree(m)
  PROVE  j = m \/ \E i \in Subtree(m) : FromParent(j, i)
<1> DEFINE S == {k \in Subtree(m) : k = m \/ \E i \in Subtree(m) : FromParent(k, i)}
<1>1. S \in SUBSET Node /\ m \in S
  BY SubtreeGrows
<1>2. \A i \in S, k \in Node : FromParent(k, i) => k \in S
  BY SubtreeGrows
<1>3. Subtree(m) \subseteq S
  <2> HIDE DEF S
  <2> QED BY <1>1, <1>2, SubtreeLeast
<1> QED BY <1>3

LEMMA SubtreeDepth ==
  ASSUME TreeShape, NEW m \in Node, NEW j \in Subtree(m)
  PROVE  j \in Node /\ RootOf(j) = RootOf(m) /\ (j = m \/ Deep(j) > Deep(m))
<1> DEFINE S == {k \in Node : RootOf(k) = RootOf(m) /\ (k = m \/ Deep(k) > Deep(m))}
<1>1. S \in SUBSET Node /\ m \in S
  OBVIOUS
<1>2. ASSUME NEW i \in S, NEW k \in Node, FromParent(k, i)
      PROVE  k \in S
  <2>1. RootOf(k) = RootOf(i) /\ Deep(k) = Deep(i) + 1
    BY <1>2, ChildIs
  <2>2. Deep(i) \in Nat /\ Deep(m) \in Nat
    BY DEF TreeShape
  <2> QED BY <2>1, <2>2
<1>3. Subtree(m) \subseteq S
  <2> HIDE DEF S
  <2> QED BY <1>1, <1>2, SubtreeLeast
<1> QED BY <1>3

LEMMA SubtreeOfChild ==
  ASSUME NEW m \in Node, NEW c \in Node, FromParent(c, m)
  PROVE  Subtree(c) \subseteq Subtree(m)
<1>1. c \in Subtree(m)
  BY SubtreeGrows
<1> QED BY <1>1, SubtreeGrows, SubtreeLeast

\* A subtree is its top with the subtrees of the top's children.
LEMMA SubtreeUnion ==
  ASSUME NEW m \in Node
  PROVE  Subtree(m) = {m} \cup UNION {Subtree(c) : c \in {k \in Node : FromParent(k, m)}}
<1> DEFINE S == {m} \cup UNION {Subtree(c) : c \in {k \in Node : FromParent(k, m)}}
<1>1. S \subseteq Subtree(m)
  BY SubtreeGrows, SubtreeOfChild
<1>2. S \in SUBSET Node /\ m \in S
  BY <1>1, SubtreeGrows
<1>3. ASSUME NEW i \in S, NEW j \in Node, FromParent(j, i)
      PROVE  j \in S
  <2>1. CASE i = m
    BY <1>3, <2>1, SubtreeGrows
  <2>2. ASSUME NEW c \in Node, FromParent(c, m), i \in Subtree(c)
        PROVE  j \in S
    <3>1. j \in Subtree(c)
      BY <1>3, <2>2, SubtreeGrows
    <3> QED BY <2>2, <3>1
  <2> QED BY <2>1, <2>2
<1>4. Subtree(m) \subseteq S
  <2> HIDE DEF S
  <2> QED BY <1>2, <1>3, SubtreeLeast
<1> QED BY <1>1, <1>4

\* The subtrees of two children have no node in common.
LEMMA SubtreesApart ==
  ASSUME TreeShape, NEW m \in Node, NEW c \in Node, NEW d \in Node, c # d,
         FromParent(c, m), FromParent(d, m), NEW j \in Subtree(c)
  PROVE  j \notin Subtree(d)
<1> DEFINE S == {k \in Subtree(c) : k \notin Subtree(d)}
<1>1. Deep(c) = Deep(m) + 1 /\ Deep(d) = Deep(m) + 1 /\ Deep(m) \in Nat
  BY ChildIs DEF TreeShape
<1>2. m \notin Subtree(c) /\ m \notin Subtree(d)
  <2>1. m # c /\ m # d /\ ~ (Deep(m) > Deep(c)) /\ ~ (Deep(m) > Deep(d))
    BY <1>1
  <2> QED BY <2>1, SubtreeDepth
<1>3. c \in S
  <2>1. c \notin Subtree(d)
    BY <1>2, SubtreeCase, OneParent
  <2> QED BY <2>1, SubtreeGrows
<1>4. S \in SUBSET Node
  BY SubtreeGrows
<1>5. ASSUME NEW i \in S, NEW k \in Node, FromParent(k, i)
      PROVE  k \in S
  <2>1. k \in Subtree(c)
    BY <1>5, SubtreeGrows
  <2>2. k \notin Subtree(d)
    <3> SUFFICES ASSUME k \in Subtree(d) PROVE FALSE
      OBVIOUS
    <3>1. CASE k = d
      BY <1>2, <1>5, <3>1, OneParent
    <3>2. ASSUME NEW h \in Subtree(d), FromParent(k, h) PROVE FALSE
      BY <1>5, <3>2, OneParent
    <3> QED BY <3>1, <3>2, SubtreeCase
  <2> QED BY <2>1, <2>2
<1>6. Subtree(c) \subseteq S
  <2> HIDE DEF S
  <2> QED BY <1>3, <1>4, <1>5, SubtreeLeast
<1> QED BY <1>6

-----------------------------------------------------------------------------
(* What lies on the two sides of a tree edge.                              *)

\* Whoever has a root stands below it.
LEMMA RootHoldsAll ==
  ASSUME TreeShape, NEW r \in Node, Deep(r) = 1, NEW k \in Node, RootOf(k) = RootOf(r)
  PROVE  k \in Subtree(r)
<1> DEFINE Stray == {j \in Node : RootOf(j) = RootOf(r) /\ j \notin Subtree(r)}
           Depths == {Deep(j) : j \in Stray}
<1> SUFFICES ASSUME Depths # {} PROVE FALSE
  OBVIOUS
<1>1. Depths \in SUBSET Nat
  BY DEF TreeShape
<1>2. PICK least \in Depths : \A d \in Depths : least <= d
  <2> HIDE DEF Depths
  <2> QED BY <1>1, SmallestOf
<1>3. PICK j \in Stray : Deep(j) = least
  BY <1>2
<1>4. RootOf(r) = r
  <2> SUFFICES ASSUME NEW p \in peers[r], Deep(r) = Deep(p) + 1 PROVE FALSE
    BY DEF TreeShape
  <2>1. p \in Node /\ Deep(p) \in Nat \ {0}
    BY DEF TreeShape
  <2> QED BY <2>1
<1>5. CASE RootOf(j) = j
  BY <1>3, <1>4, <1>5, SubtreeGrows
<1>6. ASSUME NEW p \in peers[j], FromParent(j, p)
      PROVE  FALSE
  <2>1. p \in Node /\ RootOf(p) = RootOf(j) /\ Deep(j) = Deep(p) + 1
    BY <1>6, ChildIs
  <2>2. p \in Subtree(r) => j \in Subtree(r)
    BY <1>6, SubtreeGrows
  <2>3. p \in Stray
    BY <1>3, <2>1, <2>2
  <2>4. Deep(p) \in Depths /\ Deep(p) \in Nat
    BY <1>1, <2>3
  <2>5. least <= Deep(p) /\ least = Deep(p) + 1
    BY <1>2, <1>3, <2>1, <2>4
  <2> HIDE DEF Depths
  <2> QED BY <2>4, <2>5
<1> QED BY <1>5, <1>6 DEF TreeShape

\* The nodes with the root of n that are not below n.
Beyond(n) == {k \in Node : k \notin Subtree(n) /\ RootOf(k) = RootOf(n)}

LEMMA SideIs ==
  ASSUME TreeShape, NEW n \in Node, NEW m \in Node
  PROVE  /\ FromParent(m, n) => Side(n, m) = Subtree(m)
         /\ FromParent(n, m) => Side(n, m) = Beyond(n) /\ ~ FromParent(m, n)
<1>1. FromParent(m, n) => Side(n, m) = Subtree(m)
  BY DEF Side
<1>2. ASSUME FromParent(n, m)
      PROVE  Side(n, m) = Beyond(n) /\ ~ FromParent(m, n)
  <2>1. RootOf(m) = RootOf(n) /\ Deep(n) = Deep(m) + 1 /\ Deep(m) \in Nat
    BY <1>2, ChildIs DEF TreeShape
  <2>2. FromParent(m, n) => Deep(m) = Deep(n) + 1
    BY ChildIs
  <2>3. ~ FromParent(m, n)
    BY <2>1, <2>2
  <2> QED BY <2>1, <2>3 DEF Side, Beyond, RootOf
<1> QED BY <1>1, <1>2

Children(n) == {k \in Node : FromParent(k, n)}
Parents(n) == {k \in Node : FromParent(n, k)}

LEMMA TreeEdges ==
  ASSUME TreeShape, NEW n \in Node
  PROVE  /\ {k \in Node : TreeEdge(n, k)} = Children(n) \cup Parents(n)
         /\ \A k : TreeEdge(n, k) => k \in Node /\ TreeEdge(k, n)
<1>1. peers[n] \subseteq Node /\ \A k \in peers[n] : n \in peers[k]
  BY DEF TreeShape
<1>2. \A k \in Node : FromParent(k, n) \/ FromParent(n, k) => k \in peers[n]
  BY ChildIs
<1> QED BY <1>1, <1>2 DEF TreeEdge, Children, Parents

LEMMA SubtreeIs ==
  ASSUME NEW n \in Node
  PROVE  Subtree(n) = {n} \cup (UNION {Side(n, c) : c \in Children(n)})
<1>1. \A c \in Children(n) : Side(n, c) = Subtree(c)
  BY DEF Side, Children
<1>2. {Side(n, c) : c \in Children(n)} = {Subtree(c) : c \in {k \in Node : FromParent(k, n)}}
  BY <1>1 DEF Children
<1> QED BY <1>2, SubtreeUnion

\* All nodes with the root of n are below n or beyond it.
LEMMA AllAre ==
  ASSUME TreeShape, NEW n \in Node
  PROVE  {k \in Node : RootOf(k) = RootOf(n)}
           = Subtree(n) \cup (UNION {Side(n, p) : p \in Parents(n)})
<1>1. \A k \in Subtree(n) : k \in Node /\ RootOf(k) = RootOf(n)
  BY SubtreeDepth
<1>2. \A p \in Parents(n) : Side(n, p) = Beyond(n)
  BY SideIs DEF Parents
<1>3. CASE Parents(n) = {}
  <2>1. Deep(n) = 1
    BY <1>3, ChildIs DEF TreeShape, Parents
  <2>2. \A k \in Node : RootOf(k) = RootOf(n) => k \in Subtree(n)
    BY <2>1, RootHoldsAll
  <2>3. (UNION {Side(n, p) : p \in Parents(n)}) = {}
    BY <1>3
  <2> QED BY <1>1, <2>2, <2>3
<1>4. CASE Parents(n) # {}
  <2>1. {Side(n, p) : p \in Parents(n)} = {Beyond(n)}
    BY <1>2, <1>4
  <2>2. (UNION {Side(n, p) : p \in Parents(n)}) = Beyond(n)
    BY <2>1
  <2> QED BY <1>1, <2>2 DEF Beyond
<1> QED BY <1>3, <1>4

\* Beyond a node are its parent, its siblings' subtrees, and what is beyond the parent.
LEMMA BeyondIs ==
  ASSUME TreeShape, NEW n \in Node, NEW m \in Node, FromParent(m, n)
  PROVE  Beyond(m) = {n} \cup (UNION {Side(n, c) : c \in Children(n) \ {m}})
                         \cup (UNION {Side(n, p) : p \in Parents(n)})
<1> DEFINE Siblings == (UNION {Side(n, c) : c \in Children(n) \ {m}})
           Above == (UNION {Side(n, p) : p \in Parents(n)})
<1>1. RootOf(m) = RootOf(n) /\ m \in Children(n) /\ n \notin Subtree(m)
  <2>1. RootOf(m) = RootOf(n) /\ Deep(m) = Deep(n) + 1 /\ Deep(n) \in Nat
    BY ChildIs DEF TreeShape
  <2>2. n # m /\ ~ (Deep(n) > Deep(m))
    BY <2>1
  <2> QED BY <2>1, <2>2, SubtreeDepth DEF Children
<1>2. Side(n, m) = Subtree(m)
  BY SideIs
<1>3. Subtree(n) = {n} \cup Subtree(m) \cup Siblings
  <2>1. {Side(n, c) : c \in Children(n)} = {Side(n, m)} \cup {Side(n, c) : c \in Children(n) \ {m}}
    BY <1>1
  <2>2. (UNION {Side(n, c) : c \in Children(n)}) = Side(n, m) \cup Siblings
    BY <2>1
  <2> QED BY <1>2, <2>2, SubtreeIs
<1>4. \A k \in Siblings : k \notin Subtree(m)
  <2> SUFFICES ASSUME NEW c \in Children(n) \ {m}, NEW k \in Side(n, c)
               PROVE  k \notin Subtree(m)
    OBVIOUS
  <2>1. Side(n, c) = Subtree(c)
    BY SideIs DEF Children
  <2> QED BY <2>1, SubtreesApart DEF Children
<1>5. \A k \in Above : k \notin Subtree(n)
  <2> SUFFICES ASSUME NEW p \in Parents(n), NEW k \in Side(n, p)
               PROVE  k \notin Subtree(n)
    OBVIOUS
  <2>1. Side(n, p) = Beyond(n)
    BY SideIs DEF Parents
  <2> QED BY <2>1 DEF Beyond
<1>6. {k \in Node : RootOf(k) = RootOf(n)} = Subtree(n) \cup Above
  BY AllAre
<1> HIDE DEF Siblings, Above
<1>7. Subtree(m) \subseteq Subtree(n)
  BY <1>3
<1>8. Beyond(m) = {k \in Subtree(n) \cup Above : k \notin Subtree(m)}
  BY <1>1, <1>6 DEF Beyond
<1>9. \A k \in Above : k \notin Subtree(m)
  BY <1>5, <1>7
<1>10. Beyond(m) = {n} \cup Siblings \cup Above
  BY <1>1, <1>3, <1>4, <1>8, <1>9
<1> QED BY <1>10 DEF Siblings, Above

\* What one side of n hears from n: n itself and all the other sides.
LEMMA ReachedIs ==
  ASSUME TreeShape, NEW n \in Node, NEW m \in Node
  PROVE  Reached(m, n) =
           {n} \cup UNION {Side(n, k) : k \in {j \in Node : TreeEdge(n, j)} \ {m}}
<1> DEFINE Edges == {j \in Node : TreeEdge(n, j)}
<1>1. Edges = Children(n) \cup Parents(n)
  BY TreeEdges
<1>2. TreeEdge(m, n) <=> m \in Edges
  BY TreeEdges
<1>3. ASSUME NEW S, NEW T
      PROVE  (UNION {Side(n, k) : k \in S \cup T}) =
               (UNION {Side(n, k) : k \in S}) \cup (UNION {Side(n, k) : k \in T})
  OBVIOUS
<1>4. CASE m \in Children(n)
  <2>1. FromParent(m, n) /\ m \notin Parents(n)
    BY <1>4, SideIs DEF Children, Parents
  <2>2. Reached(m, n) = Beyond(m)
    BY <1>1, <1>2, <1>4, <2>1, SideIs DEF Reached
  <2>3. Edges \ {m} = (Children(n) \ {m}) \cup Parents(n)
    BY <1>1, <2>1
  <2> HIDE DEF Edges
  <2>4. (UNION {Side(n, k) : k \in Edges \ {m}}) = (UNION {Side(n, k) : k \in Children(n) \ {m}})
                                           \cup (UNION {Side(n, k) : k \in Parents(n)})
    BY <1>3, <2>3
  <2>5. Beyond(m) = {n} \cup (UNION {Side(n, k) : k \in Edges \ {m}})
    BY <2>1, <2>4, BeyondIs
  <2> QED BY <2>2, <2>5 DEF Edges
<1>5. CASE m \in Parents(n)
  <2>1. FromParent(n, m) /\ m \notin Children(n)
    BY <1>5, SideIs DEF Children, Parents
  <2>2. Reached(m, n) = Subtree(n)
    BY <1>1, <1>2, <1>5, <2>1, SideIs DEF Reached
  <2>3. Parents(n) \ {m} = {}
    BY <2>1, OneParent DEF Parents
  <2>4. Edges \ {m} = Children(n)
    BY <1>1, <2>1, <2>3
  <2> HIDE DEF Edges
  <2>5. Subtree(n) = {n} \cup (UNION {Side(n, k) : k \in Edges \ {m}})
    BY <2>4, SubtreeIs
  <2> QED BY <2>2, <2>5 DEF Edges
<1>6. CASE m \notin Edges
  <2>1. Reached(m, n) = {k \in Node : RootOf(k) = RootOf(n)}
    BY <1>2, <1>6 DEF Reached, RootOf
  <2>2. Edges \ {m} = Children(n) \cup Parents(n)
    BY <1>1, <1>6
  <2> HIDE DEF Edges
  <2>3. (UNION {Side(n, k) : k \in Edges \ {m}}) = (UNION {Side(n, k) : k \in Children(n)})
                                           \cup (UNION {Side(n, k) : k \in Parents(n)})
    BY <1>3, <2>2
  <2>4. Reached(m, n) = {n} \cup (UNION {Side(n, k) : k \in Edges \ {m}})
    BY <2>1, <2>3, SubtreeIs, AllAre
  <2> QED BY <2>4 DEF Edges
<1> QED BY <1>1, <1>4, <1>5, <1>6

-----------------------------------------------------------------------------
(* Only the two sides of each edge satisfy the equations of the filters.   *)

\* Each tree neighbour holds what the others of n sent to n, and n.
AtRest ==
  \A n \in Node : \A m \in Node :
    TreeEdge(n, m) =>
      bloom[m].inbound[n] =
        {n} \cup (UNION {bloom[n].inbound[k] : k \in {j \in Node : TreeEdge(n, j)} \ {m}})

\* What m holds from n follows from what n holds from its other neighbours.
LEMMA RestFollows ==
  ASSUME TreeShape, AtRest, NEW n \in Node, NEW m \in Node, TreeEdge(n, m),
         \A k \in Node \ {m} : TreeEdge(n, k) => bloom[n].inbound[k] = Side(n, k)
  PROVE  bloom[m].inbound[n] = Side(m, n)
<1> DEFINE Others == {j \in Node : TreeEdge(n, j)} \ {m}
<1>1. bloom[m].inbound[n] = {n} \cup (UNION {bloom[n].inbound[k] : k \in Others})
  BY DEF AtRest
<1>2. Reached(m, n) = {n} \cup (UNION {Side(n, k) : k \in Others})
  BY ReachedIs
<1>3. \A k \in Others : bloom[n].inbound[k] = Side(n, k)
  OBVIOUS
<1>4. {bloom[n].inbound[k] : k \in Others} = {Side(n, k) : k \in Others}
  <2> HIDE DEF Others
  <2> QED BY <1>3
<1>5. Reached(m, n) = Side(m, n)
  BY TreeEdges DEF Reached
<1> QED BY <1>1, <1>2, <1>4, <1>5

\* A child's subtree is smaller.
LEMMA SmallerSubtree ==
  ASSUME IsFiniteSet(Node), TreeShape, NEW n \in Node, NEW c \in Node, FromParent(c, n)
  PROVE  /\ Cardinality(Subtree(c)) \in Nat /\ Cardinality(Subtree(n)) \in Nat
         /\ Cardinality(Subtree(c)) < Cardinality(Subtree(n))
<1>1. Subtree(c) \in SUBSET Subtree(n) /\ IsFiniteSet(Subtree(n))
  BY SubtreeOfChild, SubtreeGrows, FS_Subset
<1>2. n \in Subtree(n) /\ n \notin Subtree(c)
  <2>1. Deep(c) = Deep(n) + 1 /\ Deep(n) \in Nat
    BY ChildIs DEF TreeShape
  <2>2. n # c /\ ~ (Deep(n) > Deep(c))
    BY <2>1
  <2> QED BY <2>2, SubtreeDepth, SubtreeGrows
<1>3. /\ IsFiniteSet(Subtree(c)) /\ Cardinality(Subtree(c)) <= Cardinality(Subtree(n))
      /\ Cardinality(Subtree(c)) = Cardinality(Subtree(n)) => Subtree(n) = Subtree(c)
  BY <1>1, FS_Subset
<1>4. Cardinality(Subtree(c)) \in Nat /\ Cardinality(Subtree(n)) \in Nat
  BY <1>1, <1>3, FS_CardinalityType
<1> QED BY <1>2, <1>3, <1>4

\* What comes up from a child is its subtree: a child whose filter is wrong and
\* whose subtree is smallest would have right filters from all its own children.
LEMMA UpwardExact ==
  ASSUME IsFiniteSet(Node), TreeShape, AtRest, NEW n0 \in Node, NEW m0 \in Node,
         FromParent(n0, m0)
  PROVE  bloom[m0].inbound[n0] = Side(m0, n0)
<1> DEFINE Wrong == {n \in Node : \E m \in Node : FromParent(n, m) /\ bloom[m].inbound[n] # Side(m, n)}
           Sizes == {Cardinality(Subtree(n)) : n \in Wrong}
<1> SUFFICES ASSUME Sizes # {} PROVE FALSE
  OBVIOUS
<1>1. Sizes \in SUBSET Nat
  BY FS_Subset, FS_CardinalityType, SubtreeGrows
<1>2. PICK least \in Sizes : \A s \in Sizes : least <= s
  <2> HIDE DEF Sizes
  <2> QED BY <1>1, SmallestOf
<1>3. PICK n \in Wrong : Cardinality(Subtree(n)) = least
  BY <1>2
<1>4. PICK m \in Node : FromParent(n, m) /\ bloom[m].inbound[n] # Side(m, n)
  BY <1>3
<1>5. ASSUME NEW k \in Node \ {m}, TreeEdge(n, k)
      PROVE  bloom[n].inbound[k] = Side(n, k)
  <2>1. FromParent(k, n)
    BY <1>4, <1>5, OneParent DEF TreeEdge
  <2>2. Cardinality(Subtree(k)) \in Nat /\ Cardinality(Subtree(k)) < least /\ least \in Nat
    BY <1>3, <2>1, SmallerSubtree
  <2>3. Cardinality(Subtree(k)) \notin Sizes
    <3> HIDE DEF Sizes
    <3> QED BY <1>2, <2>2
  <2>4. k \notin Wrong
    <3> HIDE DEF Wrong
    <3> QED BY <2>3
  <2> QED BY <1>3, <2>1, <2>4
<1>6. TreeEdge(n, m)
  BY <1>4, ChildIs DEF TreeEdge
<1>7. bloom[m].inbound[n] = Side(m, n)
  BY <1>5, <1>6, RestFollows
<1> QED BY <1>4, <1>7

\* What comes down from a parent is all that is beyond the child: above the highest
\* parent whose filter is wrong all are right, and so are those of the siblings.
LEMMA DownwardExact ==
  ASSUME IsFiniteSet(Node), TreeShape, AtRest, NEW n0 \in Node, NEW m0 \in Node,
         FromParent(m0, n0)
  PROVE  bloom[m0].inbound[n0] = Side(m0, n0)
<1> DEFINE Wrong == {n \in Node : \E m \in Node : FromParent(m, n) /\ bloom[m].inbound[n] # Side(m, n)}
           Depths == {Deep(n) : n \in Wrong}
<1> SUFFICES ASSUME Depths # {} PROVE FALSE
  OBVIOUS
<1>1. Depths \in SUBSET Nat
  BY DEF TreeShape
<1>2. PICK least \in Depths : \A s \in Depths : least <= s
  <2> HIDE DEF Depths
  <2> QED BY <1>1, SmallestOf
<1>3. PICK n \in Wrong : Deep(n) = least
  BY <1>2
<1>4. PICK m \in Node : FromParent(m, n) /\ bloom[m].inbound[n] # Side(m, n)
  BY <1>3
<1>5. ASSUME NEW k \in Node \ {m}, TreeEdge(n, k)
      PROVE  bloom[n].inbound[k] = Side(n, k)
  <2>1. CASE FromParent(k, n)
    BY <2>1, UpwardExact
  <2>2. CASE FromParent(n, k)
    <3>1. Deep(n) = Deep(k) + 1 /\ Deep(k) \in Nat /\ k \in Node
      BY <2>2, ChildIs DEF TreeShape
    <3>2. Deep(k) \notin Depths
      <4> HIDE DEF Depths
      <4> QED BY <1>2, <1>3, <3>1
    <3>3. k \notin Wrong
      <4> HIDE DEF Wrong
      <4> QED BY <3>2
    <3> QED BY <1>3, <2>2, <3>3
  <2> QED BY <1>5, <2>1, <2>2 DEF TreeEdge
<1>6. TreeEdge(n, m)
  BY <1>4, ChildIs DEF TreeEdge
<1>7. bloom[m].inbound[n] = Side(m, n)
  BY <1>5, <1>6, RestFollows
<1> QED BY <1>4, <1>7

LEMMA RestIsExact ==
  ASSUME IsFiniteSet(Node), TreeShape, AtRest, NEW n \in Node, NEW m \in Node, TreeEdge(n, m)
  PROVE  bloom[n].inbound[m] = Side(n, m)
BY UpwardExact, DownwardExact DEF TreeEdge

-----------------------------------------------------------------------------
(* What two peers owe each other.                                          *)

\* An announce that names m as the parent of its sender.
Says(a, m) == Len(a.path) > 1 /\ a.path[2] = m

\* n is going to send m a filter.
Due(n, m) == m \in bloom[n].pending

\* What m holds from n, or will when what is on the way has arrived, is what n sent last.
SentArrives(n, m) ==
  bloom[n].sent[m] = IF bloom[n].air[m] # None THEN bloom[n].air[m] ELSE bloom[m].inbound[n]

\* Whether n is below m is known to m, or told with the filter that is due.
ParentIsTold(n, m) ==
  \A a \in SaidTo(n, m) : (Says(a, m) <=> Says(own[n], m)) \/ Due(n, m)

\* With an announce that n has a parent goes a filter.
NewsIsDue(n, m) ==
  \/ Due(n, m)
  \/ /\ \A a \in out[n].air[m] : ~ (Len(a.path) > 1)
     /\ m \in out[n].pending => ~ (Len(own[n].path) > 1)

\* n sent m what it would send now.
Current(n, m) ==
  bloom[n].sent[m] = Outgoing(n, bloom[n].inbound, PeerInboundFilters(n), m)

\* n is going to hear from its peer k: a filter, or that the link is gone.
Waits(n, k) == n \notin peers[k] \/ Due(k, n) \/ bloom[k].air[n] # None

\* n sent m what it would send now, or will send again, at the latest after it
\* has heard from another peer.
WillBeCurrent(n, m) ==
  Due(n, m) \/ Current(n, m) \/ \E k \in peers[n] \ {m} : Waits(n, k)

Owed(n, m) ==
  SentArrives(n, m) /\ ParentIsTold(n, m) /\ NewsIsDue(n, m) /\ WillBeCurrent(n, m)

AllOwed == \A n \in Node : \A m \in peers[n] : n \in peers[m] => Owed(n, m)

\* The tree neighbours of n by what it knows.
LEMMA TreePeersAre ==
  ASSUME IndInv, NEW n \in Node, NEW known
  PROVE  TreePeers(n, own[n].path, known) =
           {m \in peers[n] : FromParent(n, m) \/ (known[m] # None /\ Says(known[m], n))}
BY DEF TreePeers, FromParent, Says, Parent

LEMMA ParentIsSaid ==
  ASSUME IndInv, NEW n \in Node, NEW m
  PROVE  FromParent(n, m) <=> Says(own[n], m)
<1>1. own[n].path \in Seq(Node) /\ PathOf(n, own[n].path)
  BY NodeFacts DEF GoodPlace, Announce
<1>2. Len(own[n].path) \in Nat \ {0} /\ own[n].path[1] = n
  BY <1>1, NonEmpty DEF PathOf
<1>3. CASE Len(own[n].path) = 1
  <2>1. IsRoot(n, own[n].path) /\ ~ (Len(own[n].path) > 1)
    BY <1>2, <1>3 DEF IsRoot, Last
  <2> QED BY <2>1 DEF FromParent, Says
<1>4. CASE Len(own[n].path) > 1
  <2>1. ~ IsRoot(n, own[n].path)
    BY <1>1, <1>4, DeepIsNotRoot
  <2> QED BY <1>4, <2>1 DEF FromParent, Says, Parent
<1>5. Len(own[n].path) = 1 \/ Len(own[n].path) > 1
  <2>1. \A l \in Nat \ {0} : l = 1 \/ l > 1
    OBVIOUS
  <2> QED BY <1>2, <2>1, Zenon
<1> QED BY <1>3, <1>4, <1>5

-----------------------------------------------------------------------------
(* What each step does to the filters.                                     *)

\* Nothing but what is due has changed, and that for targets of n only.
OnlyMarks(n, targets) ==
  /\ \A k \in Node : /\ bloom'[k].inbound = bloom[k].inbound
                     /\ bloom'[k].sent = bloom[k].sent
                     /\ bloom'[k].air = bloom[k].air
                     /\ bloom[k].pending \subseteq bloom'[k].pending
  /\ targets \subseteq bloom'[n].pending

LEMMA MarkedMarks ==
  ASSUME FilterTypeOK, NEW n \in Node, NEW targets \in SUBSET Node,
         bloom' = Marked(n, targets)
  PROVE  OnlyMarks(n, targets)
<1> DEFINE state == [bloom[n] EXCEPT !.pending = @ \cup targets]
<1>1. bloom \in [Node -> FilterState]
  BY DEF FilterTypeOK
<1>2. /\ state.pending = bloom[n].pending \cup targets /\ state.inbound = bloom[n].inbound
      /\ state.sent = bloom[n].sent /\ state.air = bloom[n].air
  <2>1. state = [inbound |-> bloom[n].inbound, pending |-> bloom[n].pending \cup targets,
                 sent |-> bloom[n].sent, air |-> bloom[n].air]
    BY <1>1, PendingExcept
  <2> HIDE DEF state
  <2> QED BY <2>1
<1>3. bloom' = [bloom EXCEPT ![n] = state]
  BY DEF Marked
<1> HIDE DEF state
<1>4. \A k \in Node : bloom'[k] = IF k = n THEN state ELSE bloom[k]
  BY <1>1, <1>3
<1> QED BY <1>2, <1>4 DEF OnlyMarks

LEMMA UnchangedMarks ==
  ASSUME UNCHANGED bloom, NEW n \in Node
  PROVE  OnlyMarks(n, {})
BY DEF OnlyMarks

LEMMA SendFields ==
  ASSUME TypeOK, FilterTypeOK, NEW n \in Node, SendPendingFilterAnnounces(n)
  PROVE  /\ \A k \in Node \ {n} : bloom'[k] = bloom[k]
         /\ bloom'[n].inbound = bloom[n].inbound
         /\ bloom'[n].pending = bloom[n].pending \ Ready(n)
         /\ \A m \in Ready(n) :
              /\ bloom'[n].sent[m] = Outgoing(n, bloom[n].inbound, PeerInboundFilters(n), m)
              /\ bloom'[n].air[m] = bloom'[n].sent[m] /\ bloom'[n].air[m] \in SUBSET Node
         /\ \A m \in Node \ Ready(n) : /\ bloom'[n].sent[m] = bloom[n].sent[m]
                                       /\ bloom'[n].air[m] = bloom[n].air[m]
         /\ UNCHANGED vars
<1> DEFINE filter(m) == Outgoing(n, bloom[n].inbound, PeerInboundFilters(n), m)
           after(last) == [m \in Node |-> IF m \in Ready(n) THEN filter(m) ELSE last[m]]
           state == [bloom[n] EXCEPT !.pending = @ \ Ready(n), !.sent = after(@), !.air = after(@)]
<1>1. /\ peers \in [Node -> SUBSET Node]
      /\ bloom \in [Node -> FilterState] /\ bloom[n].pending \subseteq peers[n]
  BY DEF TypeOK, FilterTypeOK
<1>2. bloom[n].inbound \in [Node -> OptFilter] /\ Ready(n) \subseteq Node
  BY <1>1 DEF FilterState, Ready
<1>3. \A m \in Node : filter(m) \in SUBSET Node
  BY <1>2, SourcesHaveFilters, OutgoingIsFilter
<1>4. bloom' = [bloom EXCEPT ![n] = state] /\ UNCHANGED vars
  BY DEF SendPendingFilterAnnounces
<1>5. \A last : \A m \in Node : after(last)[m] = IF m \in Ready(n) THEN filter(m) ELSE last[m]
  OBVIOUS
<1> HIDE DEF after
<1>6. state = [inbound |-> bloom[n].inbound, pending |-> bloom[n].pending \ Ready(n),
               sent |-> after(bloom[n].sent), air |-> after(bloom[n].air)]
  BY <1>1, SendExcept
<1> HIDE DEF state
<1>7. \A k \in Node : bloom'[k] = IF k = n THEN state ELSE bloom[k]
  BY <1>1, <1>4
<1>8. /\ bloom'[n].inbound = bloom[n].inbound /\ bloom'[n].pending = bloom[n].pending \ Ready(n)
      /\ bloom'[n].sent = after(bloom[n].sent) /\ bloom'[n].air = after(bloom[n].air)
  BY <1>6, <1>7
<1>9. \A m \in Ready(n) :
        bloom'[n].sent[m] = filter(m) /\ bloom'[n].air[m] = filter(m) /\ filter(m) \in SUBSET Node
  BY <1>2, <1>3, <1>5, <1>8
<1>10. \A m \in Node \ Ready(n) :
         bloom'[n].sent[m] = bloom[n].sent[m] /\ bloom'[n].air[m] = bloom[n].air[m]
  BY <1>5, <1>8
<1> QED BY <1>4, <1>7, <1>8, <1>9, <1>10

LEMMA HandleFields ==
  ASSUME TypeOK, FilterTypeOK, NEW n \in Node, NEW m \in Node \ {n}, HandleFilterAnnounce(n, m)
  PROVE  LET inbound == [bloom[n].inbound EXCEPT ![m] = bloom[m].air[n]]
         IN  /\ \A k \in Node \ {n, m} : bloom'[k] = bloom[k]
             /\ \A k \in Node : /\ bloom[k].pending \subseteq bloom'[k].pending
                                /\ bloom'[k].sent = bloom[k].sent
             /\ bloom'[m].inbound = bloom[m].inbound /\ bloom'[m].pending = bloom[m].pending
             /\ bloom'[m].air = [bloom[m].air EXCEPT ![n] = None]
             /\ bloom'[n].air = bloom[n].air
             /\ m \in peers[n] => /\ bloom'[n].inbound = inbound
                                  /\ ChangedPeers(n, m, inbound) \subseteq bloom'[n].pending
             /\ m \notin peers[n] => bloom'[n] = bloom[n]
             /\ bloom[m].air[n] # None /\ UNCHANGED vars
<1> DEFINE filter == bloom[m].air[n]
           inbound == [bloom[n].inbound EXCEPT ![m] = filter]
           air == [bloom[m].air EXCEPT ![n] = None]
           sender == [bloom[m] EXCEPT !.air = air]
           pending == bloom[n].pending \cup ChangedPeers(n, m, inbound)
           state == [bloom[n] EXCEPT !.inbound = inbound, !.pending = pending]
<1>1. bloom \in [Node -> FilterState] /\ UNCHANGED vars /\ bloom[m].air[n] # None
  BY DEF FilterTypeOK, HandleFilterAnnounce
<1>2. bloom' = IF m \in peers[n] THEN [bloom EXCEPT ![m] = sender, ![n] = state]
               ELSE [bloom EXCEPT ![m] = sender]
  <2>1. [bloom EXCEPT ![m].air[n] = None] = [bloom EXCEPT ![m] = sender]
    BY Zenon
  <2>2. [bloom EXCEPT ![m] = sender][n] = bloom[n]
    BY <1>1
  <2>3. [[bloom EXCEPT ![m].air[n] = None] EXCEPT ![n].inbound = inbound,
                          ![n].pending = @ \cup ChangedPeers(n, m, inbound)]
         = [[bloom EXCEPT ![m] = sender] EXCEPT ![n] = state]
    BY <1>1, <2>1, <2>2
  <2> QED BY <2>1, <2>3 DEF HandleFilterAnnounce
<1>3. /\ sender = [inbound |-> bloom[m].inbound, pending |-> bloom[m].pending,
                   sent |-> bloom[m].sent, air |-> air]
      /\ state = [inbound |-> inbound, pending |-> pending,
                  sent |-> bloom[n].sent, air |-> bloom[n].air]
  <2>1. bloom[m] \in FilterState /\ bloom[n] \in FilterState
    BY <1>1
  <2> HIDE DEF inbound, air, pending
  <2>2. sender = [inbound |-> bloom[m].inbound, pending |-> bloom[m].pending,
                  sent |-> bloom[m].sent, air |-> air]
    BY <2>1, AirStateExcept
  <2>3. state = [inbound |-> inbound, pending |-> pending,
                 sent |-> bloom[n].sent, air |-> bloom[n].air]
    BY <2>1, InboundStateExcept
  <2> QED BY <2>2, <2>3
<1> HIDE DEF sender, state
<1>4. \A k \in Node :
        bloom'[k] = IF k = m THEN sender ELSE IF k = n /\ m \in peers[n] THEN state ELSE bloom[k]
  BY <1>1, <1>2
<1>5. /\ sender.pending = bloom[m].pending /\ sender.inbound = bloom[m].inbound
      /\ sender.sent = bloom[m].sent /\ sender.air = air
      /\ state.pending = pending /\ state.inbound = inbound
      /\ state.sent = bloom[n].sent /\ state.air = bloom[n].air
  <2> HIDE DEF inbound, air, pending
  <2> QED BY <1>3
<1>6. ChangedPeers(n, m, inbound) \subseteq pending /\ bloom[n].pending \subseteq pending
  OBVIOUS
<1> HIDE DEF pending, filter, inbound, air
<1>7. CASE m \in peers[n]
  <2>1. bloom'[m] = sender /\ bloom'[n] = state /\ \A k \in Node \ {n, m} : bloom'[k] = bloom[k]
    BY <1>4, <1>7
  <2> QED BY <1>1, <1>5, <1>6, <1>7, <2>1 DEF filter, inbound, air
<1>8. CASE m \notin peers[n]
  <2>1. bloom'[m] = sender /\ bloom'[n] = bloom[n] /\ \A k \in Node \ {n, m} : bloom'[k] = bloom[k]
    BY <1>4, <1>8
  <2> QED BY <1>1, <1>5, <1>8, <2>1 DEF air
<1> QED BY <1>7, <1>8

LEMMA ForgetFields ==
  ASSUME TypeOK, FilterTypeOK, NEW n \in Node, NEW m \in Node, bloom' = ForgetPeer(n, m)
  PROVE  /\ \A k \in Node \ {n} : bloom'[k] = bloom[k]
         /\ bloom'[n].pending = peers[n] \ {m} /\ bloom'[n].air = bloom[n].air
         /\ \A k \in Node \ {m} : /\ bloom'[n].inbound[k] = bloom[n].inbound[k]
                                  /\ bloom'[n].sent[k] = bloom[n].sent[k]
<1> DEFINE inbound == [bloom[n].inbound EXCEPT ![m] = None]
           sent == [bloom[n].sent EXCEPT ![m] = None]
           pending == peers[n] \ {m}
           state == [inbound |-> inbound, pending |-> pending, sent |-> sent, air |-> bloom[n].air]
<1>1. bloom \in [Node -> FilterState]
  BY DEF FilterTypeOK
<1>2. bloom[n].inbound \in [Node -> OptFilter] /\ bloom[n].sent \in [Node -> OptFilter]
  BY <1>1 DEF FilterState
<1>3. \A k \in Node \ {m} : inbound[k] = bloom[n].inbound[k] /\ sent[k] = bloom[n].sent[k]
  BY <1>2
<1>4. bloom' = [bloom EXCEPT ![n] = state]
  <2>1. [bloom EXCEPT ![n].inbound[m] = None, ![n].sent[m] = None, ![n].pending = pending]
        = [bloom EXCEPT ![n] = [@ EXCEPT !.inbound = inbound, !.sent = sent, !.pending = pending]]
    <3> HIDE DEF pending
    <3> QED BY <1>1, Zenon
  <2>2. [bloom[n] EXCEPT !.inbound = inbound, !.sent = sent, !.pending = pending] = state
    <3> HIDE DEF inbound, sent, pending
    <3>1. bloom[n] \in FilterState
      BY <1>1
    <3> QED BY <3>1, ForgetExcept
  <2> QED BY <2>1, <2>2 DEF ForgetPeer
<1>5. /\ state.pending = pending /\ state.inbound = inbound /\ state.sent = sent
      /\ state.air = bloom[n].air
  OBVIOUS
<1> HIDE DEF inbound, sent, state
<1>6. bloom'[n] = state /\ \A k \in Node \ {n} : bloom'[k] = bloom[k]
  BY <1>1, <1>4
<1> QED BY <1>3, <1>5, <1>6

-----------------------------------------------------------------------------
(* What keeps the debts of a pair.                                         *)

\* The tree neighbours of n by what it knows.
TreeNow(n) == TreePeers(n, own[n].path, heard[n])

LEMMA DueOwes ==
  ASSUME NEW n, NEW m, SentArrives(n, m)', Due(n, m)'
  PROVE  Owed(n, m)'
BY DEF Owed, ParentIsTold, NewsIsDue, WillBeCurrent

LEMMA MarksKeep ==
  ASSUME NEW k \in Node, NEW targets, OnlyMarks(k, targets), UNCHANGED peers,
         NEW n \in Node, NEW m \in Node
  PROVE  /\ SentArrives(n, m) => SentArrives(n, m)'
         /\ Due(n, m) => Due(n, m)'
         /\ Waits(n, m) => Waits(n, m)'
         /\ n = k /\ m \in targets => Due(n, m)'
BY DEF OnlyMarks, SentArrives, Due, Waits

\* A step that tells m nothing of the parent of n that n did not stand for.
StillTold(n, m) ==
  /\ Says(own'[n], m) <=> Says(own[n], m)
  /\ Len(own'[n].path) > 1 => Len(own[n].path) > 1
  /\ m \in out'[n].pending => m \in out[n].pending
  /\ \A a \in out'[n].air[m] : a \in out[n].air[m] \/ (a = own[n] /\ m \in out[n].pending)
  /\ heard'[m][n] \in out[n].air[m] \cup {heard[m][n], None}

LEMMA StillToldKeeps ==
  ASSUME NEW n, NEW m, StillTold(n, m), Due(n, m) => Due(n, m)',
         ParentIsTold(n, m), NewsIsDue(n, m)
  PROVE  ParentIsTold(n, m)' /\ NewsIsDue(n, m)'
<1>1. SUFFICES ASSUME ~ Due(n, m)' PROVE ParentIsTold(n, m)' /\ NewsIsDue(n, m)'
  BY DEF ParentIsTold, NewsIsDue
<1>2. ~ Due(n, m)
  BY <1>1
<1>3. \A a \in SaidTo(n, m)' : a \in SaidTo(n, m) \/ a = own[n]
  BY DEF SaidTo, StillTold
<1>4. ParentIsTold(n, m)'
  BY <1>2, <1>3 DEF ParentIsTold, StillTold, Says
<1>5. \A a \in out'[n].air[m] : ~ (Len(a.path) > 1)
  BY <1>2 DEF NewsIsDue, StillTold
<1>6. m \in out'[n].pending => ~ (Len(own'[n].path) > 1)
  BY <1>2 DEF NewsIsDue, StillTold
<1> QED BY <1>4, <1>5, <1>6 DEF NewsIsDue

LEMMA StillCurrent ==
  ASSUME NEW n, NEW m, WillBeCurrent(n, m), Due(n, m) => Due(n, m)',
         bloom'[n].inbound = bloom[n].inbound, bloom'[n].sent[m] = bloom[n].sent[m],
         TreeNow(n)' \ {m} = TreeNow(n) \ {m},
         \A k \in peers[n] \ {m} : Waits(n, k) => k \in peers'[n] /\ Waits(n, k)'
  PROVE  WillBeCurrent(n, m)'
<1>1. CASE Current(n, m)
  <2>1. PeerInboundFilters(n) \ {m} = {k \in TreeNow(n) \ {m} : bloom[n].inbound[k] # None}
    BY DEF PeerInboundFilters, TreeNow
  <2>2. PeerInboundFilters(n)' \ {m} = {k \in TreeNow(n)' \ {m} : bloom'[n].inbound[k] # None}
    BY DEF PeerInboundFilters, TreeNow
  <2>3. PeerInboundFilters(n)' \ {m} = PeerInboundFilters(n) \ {m}
    BY <2>1, <2>2
  <2>4. Current(n, m)'
    BY <1>1, <2>3 DEF Current, Outgoing
  <2> QED BY <2>4 DEF WillBeCurrent
<1>2. CASE Due(n, m)
  BY <1>2 DEF WillBeCurrent
<1>3. ASSUME NEW k \in peers[n] \ {m}, Waits(n, k)
      PROVE  WillBeCurrent(n, m)'
  BY <1>3 DEF WillBeCurrent
<1> QED BY <1>1, <1>2, <1>3 DEF WillBeCurrent

LEMMA SameTree ==
  ASSUME NEW n, peers'[n] = peers[n], own'[n] = own[n], heard'[n] = heard[n]
  PROVE  TreeNow(n)' = TreeNow(n)
BY DEF TreeNow, TreePeers

\* Steps that leave the peers and mark for k only: what is left are the pairs of k.
LEMMA MarkedOwes ==
  ASSUME AllOwed, TypeOK, NEW k \in Node, NEW targets, OnlyMarks(k, targets), UNCHANGED peers,
         \A n \in Node : \A m \in Node : n # k => StillTold(n, m),
         \A n \in Node \ {k} : own'[n] = own[n] /\ heard'[n] = heard[n],
         \A m \in peers[k] \ targets : k \in peers[m] =>
           /\ ParentIsTold(k, m)' /\ NewsIsDue(k, m)' /\ WillBeCurrent(k, m)'
  PROVE  AllOwed'
<1>1. peers \in [Node -> SUBSET Node]
  BY DEF TypeOK
<1> SUFFICES ASSUME NEW n \in Node, NEW m \in peers[n], n \in peers[m]
             PROVE  Owed(n, m)'
  BY DEF AllOwed
<1>2. m \in Node /\ Owed(n, m)
  BY <1>1 DEF AllOwed
<1>3. /\ SentArrives(n, m)'
      /\ Due(n, m) => Due(n, m)'
      /\ \A j \in Node : Waits(n, j) => Waits(n, j)'
      /\ n = k /\ m \in targets => Due(n, m)'
  BY <1>2, MarksKeep DEF Owed
<1>4. CASE n = k /\ m \in targets
  BY <1>3, <1>4, DueOwes
<1>5. CASE n = k /\ m \notin targets
  BY <1>3, <1>5 DEF Owed
<1>6. CASE n # k
  <2>1. ParentIsTold(n, m)' /\ NewsIsDue(n, m)'
    BY <1>2, <1>3, <1>6, StillToldKeeps DEF Owed
  <2>2. TreeNow(n)' = TreeNow(n)
    BY <1>6, SameTree
  <2>3. /\ bloom'[n].inbound = bloom[n].inbound /\ bloom'[n].sent = bloom[n].sent
    BY DEF OnlyMarks
  <2>4. WillBeCurrent(n, m)'
    BY <1>1, <1>2, <1>3, <2>2, <2>3, StillCurrent DEF Owed
  <2> QED BY <1>3, <2>1, <2>4 DEF Owed
<1> QED BY <1>4, <1>5, <1>6

-----------------------------------------------------------------------------
(* The steps of the tree keep the debts.                                   *)

LEMMA QuietOwes ==
  ASSUME AllOwed, TypeOK, UNCHANGED <<peers, own, heard, bloom>>,
         \A n, m \in Node :
           /\ m \in out'[n].pending => m \in out[n].pending
           /\ \A a \in out'[n].air[m] : a \in out[n].air[m] \/ (a = own[n] /\ m \in out[n].pending)
  PROVE  AllOwed'
<1> SUFFICES ASSUME NEW n \in Node, NEW m \in peers[n], n \in peers[m]
             PROVE  Owed(n, m)'
  BY DEF AllOwed
<1>1. m \in Node /\ Owed(n, m)
  BY DEF AllOwed, TypeOK
<1>2. StillTold(n, m)
  BY <1>1 DEF StillTold, Says
<1>3. Due(n, m) => Due(n, m)'
  BY DEF Due
<1>4. ParentIsTold(n, m)' /\ NewsIsDue(n, m)'
  BY <1>1, <1>2, <1>3, StillToldKeeps DEF Owed
<1>5. \A k : Waits(n, k) => Waits(n, k)'
  BY DEF Waits, Due
<1>6. TreeNow(n)' = TreeNow(n)
  BY SameTree
<1>7. WillBeCurrent(n, m)'
  BY <1>1, <1>3, <1>5, <1>6, StillCurrent DEF Owed
<1>8. SentArrives(n, m)'
  BY <1>1 DEF Owed, SentArrives
<1> QED BY <1>4, <1>7, <1>8 DEF Owed

\* What hearing an announce leaves to the others.
LEMMA HearOthers ==
  ASSUME IndInv, NEW k \in Node, NEW x \in Node, NEW a, Hear(k, x, a),
         NEW n \in Node, own'[n] = own[n], out'[n] = WithoutAir(x, k, a)[n]
  PROVE  /\ \A m \in Node : StillTold(n, m)
         /\ n # k => heard'[n] = heard[n]
<1>1. \A m \in Node : out'[n].air[m] \subseteq out[n].air[m]
  BY TakenAir
<1>2. out'[n].pending = out[n].pending
  BY OthersAir
<1>3. \A m \in Node : heard'[m][n] \in out[n].air[m] \cup {heard[m][n], None}
  BY HearSays
<1>4. \A m \in Node : StillTold(n, m)
  BY <1>1, <1>2, <1>3 DEF StillTold, Says
<1>5. n # k => heard'[n] = heard[n]
  <2>1. heard' = [heard EXCEPT ![k][x] = a] /\ heard \in [Node -> [Node -> OptAnnounce]]
    BY DEF Hear, IndInv, TypeOK
  <2> QED BY <2>1
<1> QED BY <1>4, <1>5

\* Whoever marks all its peers owes nothing but that.
LEMMA AllMarkedOwes ==
  ASSUME AllOwed, TypeOK, NEW k \in Node, bloom' = Marked(k, peers[k]), UNCHANGED peers,
         FilterTypeOK,
         \A n \in Node \ {k} : /\ own'[n] = own[n] /\ heard'[n] = heard[n]
                               /\ \A m \in Node : StillTold(n, m)
  PROVE  AllOwed'
<1>1. peers[k] \in SUBSET Node
  BY DEF TypeOK
<1>2. OnlyMarks(k, peers[k])
  BY <1>1, MarkedMarks
<1> QED BY <1>2, MarkedOwes

\* The same after a declaration, made on hearing an announce or without.
LEMMA DeclareOwes ==
  ASSUME AllOwed, IndInv, FilterTypeOK, NEW k \in Node, NEW x \in Node, NEW a, Hear(k, x, a),
         NEW b, Declare(k, b, WithoutAir(x, k, a)), bloom' = Marked(k, peers[k])
  PROVE  AllOwed'
<1>1. TypeOK /\ UNCHANGED peers /\ own \in [Node -> Announce]
  BY DEF IndInv, TypeOK, Hear
<1> DEFINE boxes == WithoutAir(x, k, a)
<1>2. boxes \in [Node -> Outbox]
  BY HearSays
<1>3. \A n \in Node \ {k} : own'[n] = own[n] /\ out'[n] = boxes[n]
  BY <1>1, <1>2 DEF Declare
<1>4. \A n \in Node \ {k} : heard'[n] = heard[n] /\ \A m \in Node : StillTold(n, m)
  BY <1>3, HearOthers
<1> QED BY <1>1, <1>3, <1>4, AllMarkedOwes

\* Where only the place of x among the tree neighbours of k changes, and x is going to
\* send k a filter if it does.
LEMMA HearCurrent ==
  ASSUME NEW k \in Node, NEW x \in peers[k] \cap Node, NEW m \in Node,
         NEW targets, OnlyMarks(k, targets), UNCHANGED peers, TypeOK,
         WillBeCurrent(k, m), TreeNow(k)' \ {x} = TreeNow(k) \ {x},
         (x \in TreeNow(k)' <=> x \in TreeNow(k)) \/ Waits(k, x)
  PROVE  WillBeCurrent(k, m)'
<1>1. /\ Due(k, m) => Due(k, m)'
      /\ \A j \in Node : Waits(k, j) => Waits(k, j)'
      /\ bloom'[k].inbound = bloom[k].inbound /\ bloom'[k].sent = bloom[k].sent
  BY MarksKeep DEF OnlyMarks
<1>2. peers[k] \subseteq Node
  BY DEF TypeOK
<1>3. CASE TreeNow(k)' \ {m} = TreeNow(k) \ {m}
  BY <1>1, <1>2, <1>3, StillCurrent
<1>4. CASE m # x /\ Waits(k, x)
  BY <1>1, <1>4 DEF WillBeCurrent
<1> QED BY <1>3, <1>4

\* What k knows of its tree neighbours after it has heard x.
LEMMA HearTree ==
  ASSUME IndInv, IndInv', NEW k \in Node, NEW x \in Node, NEW a, Hear(k, x, a)
  PROVE  /\ (\A j \in Node \ {x} : FromParent(k, j)' <=> FromParent(k, j)) =>
              TreeNow(k)' \ {x} = TreeNow(k) \ {x}
         /\ x \in TreeNow(k) <=>
              FromParent(k, x) \/ (heard[k][x] # None /\ Says(heard[k][x], k))
         /\ x \in TreeNow(k)' <=> FromParent(k, x)' \/ Says(a, k)
<1>1. /\ heard'[k][x] = a /\ a # None
      /\ \A j \in Node \ {x} : heard'[k][j] = heard[k][j]
  <2>1. /\ heard' = [heard EXCEPT ![k] = Known(k, x, a)] /\ Known(k, x, a)[x] = a /\ a # None
        /\ \A j \in Node \ {x} : Known(k, x, a)[j] = heard[k][j]
    BY HearRow
  <2>2. heard'[k] = Known(k, x, a)
    BY <2>1 DEF IndInv, TypeOK
  <2> QED BY <2>1, <2>2
<1>2. x \in peers[k] /\ peers'[k] = peers[k] /\ peers[k] \subseteq Node
  BY DEF Hear, IsNews, IndInv, TypeOK
<1>3. TreeNow(k) = {m \in peers[k] : FromParent(k, m) \/ (heard[k][m] # None /\ Says(heard[k][m], k))}
  BY TreePeersAre DEF TreeNow
<1>4. TreeNow(k)' = {m \in peers[k] : FromParent(k, m)' \/ (heard'[k][m] # None /\ Says(heard'[k][m], k))}
  BY <1>2 DEF TreeNow, TreePeers, FromParent, Says, Parent
<1> QED BY <1>1, <1>2, <1>3, <1>4

\* If k may learn from what x says that x is or is no more below it, x is going to send
\* a filter.
LEMMA ChildIsDue ==
  ASSUME AllOwed, NEW k \in Node, NEW x \in peers[k] \cap Node, NEW a \in out[x].air[k]
  PROVE  /\ Len(a.path) > 1 => Waits(k, x)
         /\ \/ Says(a, k) <=> (heard[k][x] # None /\ Says(heard[k][x], k))
            \/ Waits(k, x)
<1>1. CASE k \notin peers[x]
  BY <1>1 DEF Waits
<1>2. CASE k \in peers[x]
  <2>1. ParentIsTold(x, k) /\ NewsIsDue(x, k)
    BY <1>2 DEF AllOwed, Owed
  <2>2. Len(a.path) > 1 => Due(x, k)
    BY <2>1 DEF NewsIsDue
  <2>3. a \in SaidTo(x, k) /\ (heard[k][x] # None => heard[k][x] \in SaidTo(x, k))
    BY DEF SaidTo
  <2>4. \/ Due(x, k) \/ (Says(a, k) <=> Says(own[x], k))
    BY <2>1, <2>3 DEF ParentIsTold
  <2>5. \/ Due(x, k) \/ heard[k][x] = None \/ (Says(heard[k][x], k) <=> Says(own[x], k))
    BY <2>1, <2>3 DEF ParentIsTold
  <2>6. Says(a, k) => Due(x, k)
    BY <2>2 DEF Says
  <2> QED BY <2>2, <2>4, <2>5, <2>6 DEF Waits
<1> QED BY <1>1, <1>2

LEMMA DropOwes ==
  ASSUME AllOwed, IndInv, IndInv', FilterTypeOK, NEW k \in Node, NEW x \in Node \ {k},
         NEW a, NEW s, DropLoopingParent(k, x, a, s), bloom' = Marked(k, {x})
  PROVE  AllOwed'
<1> DEFINE boxes == WithoutAir(x, k, a)
           b == OwnRoot(k)
<1>1. /\ Hear(k, x, a) /\ FromParent(k, x) /\ k \in Range(a.path)
      /\ Declare(k, b, boxes)
  BY DEF DropLoopingParent, Decision, AfterParentLost
<1>2. TypeOK /\ UNCHANGED peers /\ own \in [Node -> Announce] /\ x \in peers[k]
  BY <1>1 DEF IndInv, TypeOK, Hear, IsNews
<1>3. boxes \in [Node -> Outbox] /\ a \in out[x].air[k]
  BY <1>1, HearSays DEF Hear
<1>4. /\ b.path = <<k>> /\ own'[k] = b
      /\ out' = [boxes EXCEPT ![k] = Announced(boxes[k], b, peers[k])]
      /\ own' = [own EXCEPT ![k] = b]
  BY <1>1, <1>2 DEF Declare, OwnRoot
<1>5. \A n \in Node \ {k} : own'[n] = own[n] /\ out'[n] = boxes[n]
  BY <1>2, <1>3, <1>4
<1>6. \A n \in Node \ {k} : heard'[n] = heard[n] /\ \A m \in Node : StillTold(n, m)
  BY <1>1, <1>5, HearOthers
<1>7. ~ (Len(b.path) > 1) /\ \A m : ~ Says(b, m)
  BY <1>4 DEF Says
<1>8. OnlyMarks(k, {x})
  BY MarkedMarks
<1>9. ASSUME NEW m \in peers[k] \ {x}, k \in peers[m]
      PROVE  ParentIsTold(k, m)' /\ NewsIsDue(k, m)'
  <2>1. m \in Node /\ Owed(k, m) /\ (Due(k, m) => Due(k, m)')
    BY <1>2, <1>8, <1>9, MarksKeep DEF AllOwed, TypeOK
  <2>2. ~ Says(own[k], m)
    BY <1>1, <1>9, ParentIsSaid, OneParent
  <2>3. \A c \in out'[k].air[m] : c \in out[k].air[m] \/ c = b
    <3>1. out'[k].air[m] \subseteq boxes[k].air[m] \cup {b}
      BY <1>3, <1>4, <2>1 DEF Announced
    <3>2. boxes[k].air[m] \subseteq out[k].air[m]
      BY <2>1, TakenAir
    <3> QED BY <3>1, <3>2
  <2>4. heard'[m][k] \in out[k].air[m] \cup {heard[m][k], None}
    BY <1>1, <2>1, HearSays
  <2>5. \A c \in SaidTo(k, m)' : c \in SaidTo(k, m) \/ c = b
    BY <2>3, <2>4 DEF SaidTo
  <2>6. CASE Due(k, m)'
    BY <2>6 DEF ParentIsTold, NewsIsDue
  <2>7. CASE ~ Due(k, m)'
    <3>1. \A c \in SaidTo(k, m) : ~ Says(c, m)
      BY <2>1, <2>2, <2>7 DEF Owed, ParentIsTold
    <3>2. \A c \in SaidTo(k, m)' : ~ Says(c, m)
      BY <1>7, <2>5, <3>1
    <3>3. ~ Says(own'[k], m)
      BY <1>4, <1>7
    <3>4. \A c \in out[k].air[m] : ~ (Len(c.path) > 1)
      BY <2>1, <2>7 DEF Owed, NewsIsDue
    <3>5. \A c \in out'[k].air[m] : ~ (Len(c.path) > 1)
      BY <1>7, <2>3, <3>4
    <3>6. ParentIsTold(k, m)'
      BY <3>2, <3>3 DEF ParentIsTold, Says
    <3>7. ~ (Len(own'[k].path) > 1)
      BY <1>4, <1>7
    <3> QED BY <3>5, <3>6, <3>7 DEF NewsIsDue
  <2> QED BY <2>6, <2>7
<1>10. ASSUME NEW m \in peers[k] \ {x}, k \in peers[m]
       PROVE  WillBeCurrent(k, m)'
  <2>1. m \in Node /\ WillBeCurrent(k, m)
    BY <1>2, <1>10 DEF AllOwed, Owed, TypeOK
  <2>2. \A j : ~ FromParent(k, j)'
    <3>1. own'[k].path = <<k>> /\ <<k>>[Len(<<k>>)] = k
      BY <1>4
    <3>2. IsRoot(k, own'[k].path)
      BY <3>1 DEF IsRoot, Last
    <3> QED BY <3>2 DEF FromParent, IsRoot
  <2>3. TreeNow(k)' \ {x} = TreeNow(k) \ {x}
    BY <1>1, <2>2, HearTree, OneParent
  <2>4. Len(a.path) > 1
    <3>1. a.path \in Seq(Node) /\ PathOf(x, a.path)
      BY <1>1, HearRow DEF Announce
    <3>2. PICK i \in 1 .. Len(a.path) : a.path[i] = k
      BY <1>1, <3>1 DEF Range
    <3>3. i # 1 /\ Len(a.path) \in Nat
      BY <3>1, <3>2 DEF PathOf
    <3> QED BY <3>2, <3>3
  <2>5. Waits(k, x)
    BY <1>2, <1>3, <2>4, ChildIsDue
  <2> QED BY <1>2, <1>8, <2>1, <2>3, <2>5, HearCurrent
<1> QED BY <1>2, <1>5, <1>6, <1>8, <1>9, <1>10, MarkedOwes

\* An announce after which k stands where it stood, as far as its peers can tell.
LEMMA StayOwes ==
  ASSUME AllOwed, IndInv, IndInv', FilterTypeOK, NEW k \in Node, NEW x \in Node \ {k},
         NEW a, Hear(k, x, a), out' = WithoutAir(x, k, a),
         \A n \in Node \ {k} : own'[n] = own[n],
         \A m \in Node : /\ FromParent(k, m)' <=> FromParent(k, m)
                         /\ Says(own'[k], m) <=> Says(own[k], m),
         Len(own'[k].path) > 1 => Len(own[k].path) > 1,
         NEW targets \in SUBSET Node, bloom' = Marked(k, targets),
         x \notin targets => ~ FromParent(k, x)
  PROVE  AllOwed'
<1>1. TypeOK /\ UNCHANGED peers /\ x \in peers[k] \cap Node /\ a \in out[x].air[k]
  BY DEF IndInv, TypeOK, Hear, IsNews
<1>2. OnlyMarks(k, targets)
  BY MarkedMarks
<1>3. \A n \in Node \ {k} : heard'[n] = heard[n] /\ \A m \in Node : StillTold(n, m)
  BY HearOthers
<1>4. \A m \in Node : StillTold(k, m)
  <2>1. \A m \in Node : out'[k].air[m] \subseteq out[k].air[m]
    BY TakenAir
  <2>2. out'[k].pending = out[k].pending
    BY OthersAir
  <2>3. \A m \in Node : heard'[m][k] \in out[k].air[m] \cup {heard[m][k], None}
    BY HearSays
  <2> QED BY <2>1, <2>2, <2>3 DEF StillTold
<1>5. ASSUME NEW m \in peers[k] \ targets, k \in peers[m]
      PROVE  ParentIsTold(k, m)' /\ NewsIsDue(k, m)' /\ WillBeCurrent(k, m)'
  <2>1. m \in Node /\ Owed(k, m) /\ (Due(k, m) => Due(k, m)')
    BY <1>1, <1>2, <1>5, MarksKeep DEF AllOwed, TypeOK
  <2>2. ParentIsTold(k, m)' /\ NewsIsDue(k, m)'
    BY <1>4, <2>1, StillToldKeeps DEF Owed
  <2>3. TreeNow(k)' \ {x} = TreeNow(k) \ {x}
    BY HearTree
  <2>4. (x \in TreeNow(k)' <=> x \in TreeNow(k)) \/ Waits(k, x)
    <3>1. CASE FromParent(k, x)
      BY <3>1, HearTree
    <3>2. CASE ~ FromParent(k, x)
      BY <1>1, <3>2, HearTree, ChildIsDue
    <3> QED BY <3>1, <3>2
  <2>5. WillBeCurrent(k, m)'
    BY <1>1, <1>2, <2>1, <2>3, <2>4, HearCurrent DEF Owed
  <2> QED BY <2>2, <2>5
<1> QED BY <1>1, <1>2, <1>3, <1>5, MarkedOwes

LEMMA FollowOwes ==
  ASSUME AllOwed, IndInv, IndInv', FilterTypeOK, NEW k \in Node, NEW x \in Node \ {k},
         NEW a, NEW s, FollowParent(k, x, a, s),
         bloom' = Marked(k, IF Moved(k, own'[k].path) THEN peers[k] ELSE {x})
  PROVE  AllOwed'
<1> DEFINE b == Below(k, x, Known(k, x, a))
<1>1. /\ Hear(k, x, a) /\ FromParent(k, x)
      /\ \/ Moved(k, b.path) /\ Declare(k, b, WithoutAir(x, k, a))
         \/ /\ ~ Moved(k, b.path) /\ own' = [own EXCEPT ![k] = b]
            /\ out' = WithoutAir(x, k, a)
  BY DEF FollowParent
<1>2. own \in [Node -> Announce]
  BY DEF IndInv, TypeOK
<1>3. own'[k] = b
  BY <1>1, <1>2 DEF Declare
<1>4. CASE Moved(k, b.path) /\ Declare(k, b, WithoutAir(x, k, a))
  <2>1. bloom' = Marked(k, peers[k])
    BY <1>3, <1>4
  <2> HIDE DEF b
  <2> QED BY <1>1, <1>4, <2>1, DeclareOwes
<1>5. CASE ~ Moved(k, b.path) /\ own' = [own EXCEPT ![k] = b] /\ out' = WithoutAir(x, k, a)
  <2>1. /\ bloom' = Marked(k, {x})
        /\ Last(b.path) = Last(own[k].path) /\ Len(b.path) = Len(own[k].path)
    BY <1>3, <1>5 DEF Moved
  <2>2. b.path[2] = x /\ own[k].path[2] = x
    <3>1. /\ GoodRow(Known(k, x, a)) /\ Known(k, x, a)[x] = a /\ a # None
      BY <1>1, HearRow
    <3>2. k \notin Range(a.path)
      BY DEF FollowParent
    <3>3. Parent(b.path) = x
      BY <3>1, <3>2, BelowIsPlace DEF IndInv
    <3> QED BY <1>1, <3>3 DEF FromParent, Parent
  <2> HIDE DEF b
  <2>3. \A m \in Node : /\ FromParent(k, m)' <=> FromParent(k, m)
                        /\ Says(own'[k], m) <=> Says(own[k], m)
    BY <1>3, <2>1, <2>2 DEF FromParent, IsRoot, Parent, Says
  <2>4. \A n \in Node \ {k} : own'[n] = own[n]
    BY <1>2, <1>5
  <2>5. Len(own'[k].path) > 1 => Len(own[k].path) > 1
    BY <1>3, <2>1
  <2> QED BY <1>1, <1>5, <2>1, <2>3, <2>4, <2>5, StayOwes
<1> QED BY <1>1, <1>4, <1>5

LEMMA NoteOwes ==
  ASSUME AllOwed, IndInv, IndInv', FilterTypeOK, NEW k \in Node, NEW x \in Node \ {k},
         NEW a, NEW s, NotePeer(k, x, a, s), bloom' = Marked(k, Welcome(k, x, a))
  PROVE  AllOwed'
<1>1. /\ Hear(k, x, a) /\ ~ FromParent(k, x) /\ out' = WithoutAir(x, k, a)
      /\ UNCHANGED own
  BY DEF NotePeer
<1>2. Welcome(k, x, a) \in SUBSET Node
  BY DEF Welcome
<1>3. \A m \in Node : /\ FromParent(k, m)' <=> FromParent(k, m)
                      /\ Says(own'[k], m) <=> Says(own[k], m)
  BY <1>1 DEF FromParent, Says
<1> QED BY <1>1, <1>2, <1>3, StayOwes

LEMMA HearOwes ==
  ASSUME AllOwed, IndInv, IndInv', FilterTypeOK, NEW k \in Node, NEW x \in Node \ {k},
         HearAnnounce(k, x)
  PROVE  AllOwed'
<1> PICK a \in out[x].air[k] :
      \/ IgnoreAnnounce(k, x, a) /\ UNCHANGED bloom
      \/ \E s \in Suppressed :
           \/ SwitchParent(k, x, a, s) /\ bloom' = Marked(k, peers[k])
           \/ DropLoopingParent(k, x, a, s) /\ bloom' = Marked(k, {x})
           \/ /\ FollowParent(k, x, a, s)
              /\ bloom' = Marked(k, IF Moved(k, own'[k].path) THEN peers[k] ELSE {x})
           \/ NotePeer(k, x, a, s) /\ bloom' = Marked(k, Welcome(k, x, a))
  BY DEF HearAnnounce
<1>1. CASE IgnoreAnnounce(k, x, a) /\ UNCHANGED bloom
  <2>1. out' = WithoutAir(x, k, a) /\ UNCHANGED <<peers, own, heard, bloom>>
    BY <1>1 DEF IgnoreAnnounce
  <2>2. \A n, m \in Node : out'[n].air[m] \subseteq out[n].air[m]
    BY <2>1, TakenAir
  <2>3. \A n \in Node : out'[n].pending = out[n].pending
    BY <2>1, OthersAir
  <2> QED BY <2>1, <2>2, <2>3, QuietOwes DEF IndInv
<1>2. ASSUME NEW s, SwitchParent(k, x, a, s), bloom' = Marked(k, peers[k])
      PROVE  AllOwed'
  <2>1. PICK b : Hear(k, x, a) /\ Declare(k, b, WithoutAir(x, k, a))
    BY <1>2 DEF SwitchParent
  <2> QED BY <1>2, <2>1, DeclareOwes
<1> QED BY <1>1, <1>2, DropOwes, FollowOwes, NoteOwes

LEMMA SendPendingOwes ==
  ASSUME AllOwed, IndInv, NEW k \in Node, SendPending(k), UNCHANGED bloom
  PROVE  AllOwed'
<1>1. /\ out' = [out EXCEPT ![k] = Flushed(k)] /\ UNCHANGED <<peers, own, heard>>
      /\ out \in [Node -> Outbox] /\ TypeOK
  BY DEF SendPending, IndInv, TypeOK
<1>2. \A n \in Node : out'[n] = IF n = k THEN Flushed(k) ELSE out[n]
  BY <1>1
<1>3. \A m \in Node : /\ m \in Flushed(k).pending => m \in out[k].pending
                      /\ \A a \in Flushed(k).air[m] :
                           a \in out[k].air[m] \/ (a = own[k] /\ m \in out[k].pending)
  BY DEF Flushed, Announced
<1> QED BY <1>1, <1>2, <1>3, QuietOwes

LEMMA IntervalOwes ==
  ASSUME AllOwed, IndInv, NEW k \in Node, NEW x \in Node, IntervalEnds(k, x)
  PROVE  AllOwed'
<1>1. out' = [out EXCEPT ![k].cooling = @ \ {x}] /\ UNCHANGED <<peers, own, heard, bloom>>
  BY DEF IntervalEnds, CoolDown
<1>2. out \in [Node -> Outbox] /\ TypeOK
  BY DEF IndInv, TypeOK
<1>3. \A m \in Node : out'[m].air = out[m].air /\ out'[m].pending = out[m].pending
  BY <1>1, <1>2 DEF Outbox
<1> QED BY <1>1, <1>2, <1>3, QuietOwes

\* A declaration made without an announce.
LEMMA OwnDeclareOwes ==
  ASSUME AllOwed, IndInv, FilterTypeOK, NEW k \in Node, NEW b, NEW boxes \in [Node -> Outbox],
         Declare(k, b, boxes), UNCHANGED <<peers, heard>>,
         \A n \in Node \ {k} : boxes[n] = out[n],
         bloom' = Marked(k, peers[k])
  PROVE  AllOwed'
<1>1. TypeOK /\ own \in [Node -> Announce]
  BY DEF IndInv, TypeOK
<1>2. \A n \in Node \ {k} : own'[n] = own[n] /\ out'[n] = out[n]
  BY <1>1 DEF Declare
<1>3. \A n \in Node \ {k} : heard'[n] = heard[n] /\ \A m \in Node : StillTold(n, m)
  BY <1>2 DEF StillTold, Says
<1> QED BY <1>1, <1>2, <1>3, AllMarkedOwes

LEMMA ChooseOwes ==
  ASSUME AllOwed, IndInv, FilterTypeOK, NEW k \in Node, NEW s, ChooseAgain(k, s)
  PROVE  AllOwed'
<1> DEFINE boxes == [out EXCEPT ![k] = Flushed(k)]
<1>1. boxes \in [Node -> Outbox] /\ \A n \in Node \ {k} : boxes[n] = out[n]
  BY FlushedGood DEF GoodBoxes, IndInv, TypeOK
<1> HIDE DEF boxes
<1>2. PICK b : Declare(k, b, boxes) /\ UNCHANGED <<peers, heard>>
  BY DEF ChooseAgain, Reevaluate, boxes
<1>3. bloom' = Marked(k, peers[k])
  BY DEF ChooseAgain
<1> QED BY <1>1, <1>2, <1>3, OwnDeclareOwes

LEMMA ReportOwes ==
  ASSUME AllOwed, IndInv, FilterTypeOK, NEW k \in Node, NEW x \in Node, NEW c, NEW s,
         ReportCost(k, x, c, s)
  PROVE  AllOwed'
<1>1. /\ UNCHANGED <<peers, heard>> /\ out \in [Node -> Outbox] /\ TypeOK
      /\ own \in [Node -> Announce]
  BY DEF ReportCost, MeasureCost, IndInv, TypeOK
<1>2. \/ UNCHANGED <<own, out>>
      \/ \E p : Declare(k, Below(k, p, heard[k]), out)
  BY DEF ReportCost, MeasureCost
<1>3. CASE UNCHANGED <<own, out>>
  <2>1. UNCHANGED bloom
    BY <1>3 DEF ReportCost
  <2> QED BY <1>1, <1>3, <2>1, QuietOwes
<1>4. ASSUME NEW p, Declare(k, Below(k, p, heard[k]), out)
      PROVE  AllOwed'
  <2>1. own'[k].seq = own[k].seq + 1 /\ own[k].seq \in Nat
    BY <1>1, <1>4 DEF Declare, Below, Announce
  <2>2. own'[k] # own[k]
    BY <2>1
  <2>3. bloom' = Marked(k, peers[k])
    BY <2>2 DEF ReportCost
  <2> QED BY <1>1, <1>4, <2>3, OwnDeclareOwes
<1> QED BY <1>2, <1>3, <1>4

LEMMA GoneOwes ==
  ASSUME AllOwed, IndInv, FilterTypeOK, NEW k \in Node, NEW x \in Node, NEW s, PeerGone(k, x, s)
  PROVE  AllOwed'
<1>1. /\ peers \in [Node -> SUBSET Node] /\ out \in [Node -> Outbox]
      /\ own \in [Node -> Announce] /\ heard \in [Node -> [Node -> OptAnnounce]] /\ TypeOK
  BY DEF IndInv, TypeOK
<1>2. peers' = [peers EXCEPT ![k] = @ \ {x}] /\ bloom' = ForgetPeer(k, x)
  BY DEF PeerGone, RemoveActivePeer
<1>3. peers'[k] = peers[k] \ {x} /\ \A n \in Node \ {k} : peers'[n] = peers[n]
  BY <1>1, <1>2
<1>4. /\ \A n, m \in Node : (n # k \/ m # x) => heard'[n][m] = heard[n][m]
      /\ \A n \in Node \ {k} : heard'[n] = heard[n]
  <2>1. heard' = [heard EXCEPT ![k] = [heard[k] EXCEPT ![x] = None]]
    BY DEF PeerGone, RemoveActivePeer
  <2> QED BY <1>1, <2>1
<1>5. \A n \in Node \ {k} : own'[n] = own[n] /\ out'[n] = out[n]
  <2>1. \/ \E b : own' = [own EXCEPT ![k] = b]
        \/ own' = own
    BY DEF PeerGone, RemoveActivePeer
  <2>2. \E box : out' = [out EXCEPT ![k] = box]
    BY DEF PeerGone, RemoveActivePeer
  <2> QED BY <1>1, <2>1, <2>2
<1>6. /\ \A n \in Node \ {k} : bloom'[n] = bloom[n]
      /\ bloom'[k].pending = peers[k] \ {x} /\ bloom'[k].air = bloom[k].air
      /\ \A n \in Node \ {x} : /\ bloom'[k].inbound[n] = bloom[k].inbound[n]
                               /\ bloom'[k].sent[n] = bloom[k].sent[n]
  BY <1>1, <1>2, ForgetFields
<1> SUFFICES ASSUME NEW n \in Node, NEW m \in peers'[n], n \in peers'[m]
             PROVE  Owed(n, m)'
  BY DEF AllOwed
<1>7. /\ m \in Node /\ m \in peers[n] /\ n \in peers[m]
      /\ n = k => m # x
      /\ m = k => n # x
  BY <1>1, <1>3
<1>8. Owed(n, m)
  BY <1>7 DEF AllOwed
<1>9. SentArrives(n, m)'
  <2>1. bloom'[n].sent[m] = bloom[n].sent[m] /\ bloom'[n].air = bloom[n].air
    BY <1>6, <1>7
  <2>2. bloom'[m].inbound[n] = bloom[m].inbound[n]
    BY <1>6, <1>7
  <2> QED BY <1>8, <2>1, <2>2 DEF Owed, SentArrives
<1>10. CASE n = k
  <2>1. Due(n, m)'
    BY <1>6, <1>7, <1>10 DEF Due
  <2> QED BY <1>9, <2>1, DueOwes
<1>11. CASE n # k
  <2>1. bloom'[n] = bloom[n] /\ own'[n] = own[n] /\ out'[n] = out[n]
        /\ peers'[n] = peers[n] /\ heard'[n] = heard[n] /\ heard'[m][n] = heard[m][n]
    BY <1>3, <1>4, <1>5, <1>6, <1>7, <1>11
  <2>2. StillTold(n, m)
    BY <2>1 DEF StillTold, Says
  <2>3. Due(n, m) => Due(n, m)'
    BY <2>1 DEF Due
  <2>4. ParentIsTold(n, m)' /\ NewsIsDue(n, m)'
    BY <1>8, <2>2, <2>3, StillToldKeeps DEF Owed
  <2>5. ASSUME NEW j \in peers[n], Waits(n, j)
        PROVE  j \in peers'[n] /\ Waits(n, j)'
    <3>1. j \in Node
      BY <1>1
    <3>2. CASE j # k
      BY <1>3, <1>6, <2>1, <2>5, <3>1, <3>2 DEF Waits, Due
    <3>3. CASE j = k
      <4>1. n # x => (Due(k, n) => Due(k, n)')
        BY <1>6 DEF Due, FilterTypeOK
      <4> QED BY <1>3, <1>6, <2>1, <2>5, <3>3, <4>1 DEF Waits
    <3> QED BY <3>2, <3>3
  <2>6. TreeNow(n)' = TreeNow(n)
    BY <2>1, SameTree
  <2>7. WillBeCurrent(n, m)'
    BY <1>8, <2>1, <2>3, <2>5, <2>6, StillCurrent DEF Owed
  <2> QED BY <1>9, <2>4, <2>7 DEF Owed
<1> QED BY <1>10, <1>11

LEMMA NewOwes ==
  ASSUME AllOwed, IndInv, FilterTypeOK, NEW k \in Node, NEW x \in Node, k # x, PeerNew(k, x)
  PROVE  AllOwed'
<1>1. /\ peers \in [Node -> SUBSET Node] /\ out \in [Node -> Outbox]
      /\ bloom \in [Node -> FilterState]
      /\ \A n \in Node : /\ out[n].air \in [Node -> SUBSET Announce]
                         /\ bloom[n].air \in [Node -> OptFilter]
  BY DEF IndInv, TypeOK, Outbox, FilterTypeOK, FilterState
<1>2. /\ peers' = [peers EXCEPT ![k] = @ \cup {x}, ![x] = @ \cup {k}]
      /\ out' = [out EXCEPT ![k] = Greeting(k, x), ![x] = Greeting(x, k)]
      /\ UNCHANGED <<own, heard>> /\ x \notin peers[k] /\ k \notin peers[x]
  BY DEF PeerNew, Connect
<1>3. \A n \in Node : peers'[n] = IF n = k THEN peers[k] \cup {x}
                                  ELSE IF n = x THEN peers[x] \cup {k} ELSE peers[n]
  BY <1>1, <1>2
<1>4. \A n \in Node : out'[n] = IF n = k THEN Greeting(k, x)
                                ELSE IF n = x THEN Greeting(x, k) ELSE out[n]
  BY <1>1, <1>2
<1>5. \A n \in Node : bloom'[n] = IF n = x THEN Fresh(x, k)
                                  ELSE IF n = k THEN Fresh(k, x) ELSE bloom[n]
  BY WelcomeIs
<1>6. \A n, m \in Node :
        /\ Fresh(n, m).pending = bloom[n].pending \cup {m}
        /\ Fresh(n, m).inbound = bloom[n].inbound /\ Fresh(n, m).sent = bloom[n].sent
        /\ Fresh(n, m).air = [bloom[n].air EXCEPT ![m] = None]
  BY FreshState
<1>7. \A n, m \in Node :
        /\ bloom'[n].inbound = bloom[n].inbound /\ bloom'[n].sent = bloom[n].sent
        /\ bloom[n].pending \subseteq bloom'[n].pending
        /\ bloom'[n].air[m] = IF (n = k /\ m = x) \/ (n = x /\ m = k)
                              THEN None ELSE bloom[n].air[m]
  <2>1. ASSUME NEW n \in Node, NEW m \in Node, NEW j \in Node
        PROVE  Fresh(n, m).air[j] = IF j = m THEN None ELSE bloom[n].air[j]
    <3>1. Fresh(n, m).air = [bloom[n].air EXCEPT ![m] = None]
      BY <1>6
    <3>2. bloom[n].air \in [Node -> OptFilter]
      BY <1>1
    <3> QED BY <3>1, <3>2
  <2>2. /\ bloom'[x] = Fresh(x, k) /\ bloom'[k] = Fresh(k, x)
        /\ \A n \in Node \ {k, x} : bloom'[n] = bloom[n]
    BY <1>5
  <2> SUFFICES ASSUME NEW n \in Node
               PROVE  /\ bloom'[n].inbound = bloom[n].inbound /\ bloom'[n].sent = bloom[n].sent
                      /\ bloom[n].pending \subseteq bloom'[n].pending
                      /\ \A m \in Node :
                           bloom'[n].air[m] = IF (n = k /\ m = x) \/ (n = x /\ m = k)
                                              THEN None ELSE bloom[n].air[m]
    OBVIOUS
  <2>3. ASSUME NEW m \in Node, bloom'[n] = Fresh(n, m), (n = k /\ m = x) \/ (n = x /\ m = k)
        PROVE  /\ bloom'[n].inbound = bloom[n].inbound /\ bloom'[n].sent = bloom[n].sent
               /\ bloom[n].pending \subseteq bloom'[n].pending
               /\ \A j \in Node :
                    bloom'[n].air[j] = IF (n = k /\ j = x) \/ (n = x /\ j = k)
                                       THEN None ELSE bloom[n].air[j]
    <3>1. /\ Fresh(n, m).pending = bloom[n].pending \cup {m}
          /\ Fresh(n, m).inbound = bloom[n].inbound /\ Fresh(n, m).sent = bloom[n].sent
      BY <1>6
    <3>2. \A j \in Node : (n = k /\ j = x) \/ (n = x /\ j = k) <=> j = m
      BY <2>3
    <3> QED BY <2>1, <2>3, <3>1, <3>2
  <2>4. CASE n = k
    BY <2>2, <2>3, <2>4
  <2>5. CASE n = x
    BY <2>2, <2>3, <2>5
  <2>6. CASE n # k /\ n # x
    BY <2>2, <2>6
  <2> QED BY <2>4, <2>5, <2>6
<1>8. x \in bloom'[k].pending /\ k \in bloom'[x].pending
  BY <1>5, <1>6
<1>9. \A n, m \in Node :
        /\ m \in Greeting(n, m).pending => m \in out[n].pending
        /\ \A j \in Node \ {m} : Greeting(n, m).air[j] = out[n].air[j]
        /\ Greeting(n, m).pending \subseteq out[n].pending
  BY <1>1 DEF Greeting
<1> SUFFICES ASSUME NEW n \in Node, NEW m \in peers'[n], n \in peers'[m]
             PROVE  Owed(n, m)'
  BY DEF AllOwed
<1>10. m \in Node
  BY <1>1, <1>3
<1>11. CASE (n = k /\ m = x) \/ (n = x /\ m = k)
  <2>1. Due(n, m)'
    BY <1>8, <1>11 DEF Due
  <2>2. bloom[n].sent[m] = None /\ bloom[m].inbound[n] = None
    BY <1>2, <1>11 DEF FilterTypeOK
  <2>3. SentArrives(n, m)'
    BY <1>7, <1>10, <1>11, <2>2 DEF SentArrives
  <2> QED BY <2>1, <2>3, DueOwes
<1>12. CASE ~ ((n = k /\ m = x) \/ (n = x /\ m = k))
  <2>1. m \in peers[n] /\ n \in peers[m]
    BY <1>3, <1>10, <1>12
  <2>2. Owed(n, m)
    BY <2>1 DEF AllOwed
  <2>3. SentArrives(n, m)' /\ (Due(n, m) => Due(n, m)')
    BY <1>7, <1>10, <1>12, <2>2 DEF Owed, SentArrives, Due
  <2>4. /\ out'[n].air[m] = out[n].air[m]
        /\ m \in out'[n].pending => m \in out[n].pending
    BY <1>4, <1>9, <1>10, <1>12
  <2>5. StillTold(n, m)
    BY <1>2, <2>4 DEF StillTold, Says
  <2>6. ParentIsTold(n, m)' /\ NewsIsDue(n, m)'
    BY <2>2, <2>3, <2>5, StillToldKeeps DEF Owed
  <2>7. ASSUME NEW j \in peers[n], Waits(n, j)
        PROVE  j \in peers'[n] /\ Waits(n, j)'
    <3>1. j \in Node /\ j \in peers'[n] /\ ~ ((n = k /\ j = x) \/ (n = x /\ j = k))
      BY <1>1, <1>2, <1>3
    <3>2. n \notin peers[j] => n \notin peers'[j]
      BY <1>3, <3>1
    <3> QED BY <1>7, <2>7, <3>1, <3>2 DEF Waits, Due
  <2>8. TreeNow(n)' = TreeNow(n)
    <3>1. ASSUME NEW j \in Node \ peers[n]
          PROVE  heard[n][j] = None /\ ~ FromParent(n, j)
      <4>1. heard[n][j] = None
        BY NodeFacts
      <4>2. FromParent(n, j) => j \in peers[n]
        BY StandsBelow DEF FromParent
      <4> QED BY <4>1, <4>2
    <3>2. TreeNow(n) = {j \in peers[n] : FromParent(n, j) \/ (heard[n][j] # None /\ Says(heard[n][j], n))}
      BY TreePeersAre DEF TreeNow
    <3>3. TreeNow(n)' = {j \in peers'[n] : FromParent(n, j) \/ (heard[n][j] # None /\ Says(heard[n][j], n))}
      BY <1>2 DEF TreeNow, TreePeers, FromParent, Says, Parent
    <3>4. peers[n] \subseteq peers'[n] /\ peers'[n] \subseteq Node
      BY <1>1, <1>3
    <3> QED BY <3>1, <3>2, <3>3, <3>4
  <2>9. WillBeCurrent(n, m)'
    BY <1>7, <1>10, <2>2, <2>3, <2>7, <2>8, StillCurrent DEF Owed
  <2> QED BY <2>3, <2>6, <2>9 DEF Owed
<1> QED BY <1>11, <1>12

\* A filter leaves after the announce it is made for has arrived, so that its receiver
\* knows whether the sender is below it.
LEMMA SendOwes ==
  ASSUME InOrder, AllOwed, Delivered, IndInv, FilterTypeOK, NEW k \in Node,
         SendPendingFilterAnnounces(k)
  PROVE  AllOwed'
<1>1. /\ \A n \in Node \ {k} : bloom'[n] = bloom[n]
      /\ \A n \in Node : bloom'[n].inbound = bloom[n].inbound
      /\ bloom'[k].pending = bloom[k].pending \ Ready(k)
      /\ \A m \in Ready(k) :
           /\ bloom'[k].sent[m] = Outgoing(k, bloom[k].inbound, PeerInboundFilters(k), m)
           /\ bloom'[k].air[m] = bloom'[k].sent[m] /\ bloom'[k].air[m] \in SUBSET Node
      /\ \A m \in Node \ Ready(k) : /\ bloom'[k].sent[m] = bloom[k].sent[m]
                                    /\ bloom'[k].air[m] = bloom[k].air[m]
      /\ UNCHANGED <<peers, own, heard, out>>
  BY SendFields DEF IndInv, vars
<1>2. \A m \in Ready(k) : bloom'[k].air[m] # None
  BY <1>1, NoFilterAssumption
<1>3. \A n \in Node : peers[n] \subseteq Node /\ bloom[n].pending \subseteq Node
  BY DEF IndInv, TypeOK, FilterTypeOK
<1>4. ASSUME NEW n \in Node, NEW j \in Node, Waits(n, j)
      PROVE  Waits(n, j)'
  <2>1. CASE j # k
    BY <1>1, <1>4, <2>1 DEF Waits, Due
  <2>2. CASE j = k /\ n \in Ready(k)
    BY <1>2, <2>2 DEF Waits
  <2>3. CASE j = k /\ n \notin Ready(k)
    BY <1>1, <1>4, <2>3 DEF Waits, Due
  <2> QED BY <2>1, <2>2, <2>3
<1>5. \A n \in Node : TreeNow(n)' = TreeNow(n)
  BY <1>1, SameTree
<1> SUFFICES ASSUME NEW n \in Node, NEW m \in peers[n], n \in peers[m]
             PROVE  Owed(n, m)'
  BY <1>1 DEF AllOwed
<1>6. m \in Node /\ Owed(n, m)
  BY <1>3 DEF AllOwed
<1>7. CASE n = k /\ m \in Ready(k)
  <2>1. SentArrives(n, m)'
    BY <1>1, <1>2, <1>7 DEF SentArrives
  <2>2. m \notin out[k].pending /\ out[k].air[m] = {}
    BY <1>7 DEF Ready
  <2>3. Latest(k, m)
    BY <1>6, <1>7, <2>2 DEF Delivered
  <2>4. \A a \in SaidTo(k, m) : Alike(a, own[k])
    BY <2>2, <2>3 DEF Latest, SaidTo
  <2>5. \A a \in SaidTo(k, m) : Says(a, m) <=> Says(own[k], m)
    BY <2>4 DEF Alike, Says
  <2>6. SaidTo(k, m)' = SaidTo(k, m)
    BY <1>1 DEF SaidTo
  <2>7. ParentIsTold(n, m)'
    BY <1>1, <1>7, <2>5, <2>6 DEF ParentIsTold, Says
  <2>8. NewsIsDue(n, m)'
    BY <1>1, <1>7, <2>2 DEF NewsIsDue
  <2>9. Current(n, m)'
    <3>1. PeerInboundFilters(k)' = PeerInboundFilters(k)
      BY <1>1 DEF PeerInboundFilters, TreePeers
    <3> QED BY <1>1, <1>7, <3>1 DEF Current, Outgoing
  <2> QED BY <2>1, <2>7, <2>8, <2>9 DEF Owed, WillBeCurrent
<1>8. CASE ~ (n = k /\ m \in Ready(k))
  <2>1. /\ bloom'[n].sent[m] = bloom[n].sent[m] /\ bloom'[n].air[m] = bloom[n].air[m]
        /\ Due(n, m) <=> Due(n, m)'
    BY <1>1, <1>6, <1>8 DEF Due
  <2>2. StillTold(n, m)
    BY <1>1 DEF StillTold, Says
  <2>3. ParentIsTold(n, m)' /\ NewsIsDue(n, m)'
    BY <1>6, <2>1, <2>2, StillToldKeeps DEF Owed
  <2>4. SentArrives(n, m)'
    BY <1>1, <1>6, <2>1 DEF Owed, SentArrives
  <2>5. \A j \in peers[n] : Waits(n, j) => j \in peers'[n] /\ Waits(n, j)'
    BY <1>1, <1>3, <1>4
  <2>6. WillBeCurrent(n, m)'
    BY <1>1, <1>5, <1>6, <2>1, <2>5, StillCurrent DEF Owed
  <2> QED BY <2>3, <2>4, <2>6 DEF Owed
<1> QED BY <1>7, <1>8

LEMMA ReceiveOwes ==
  ASSUME AllOwed, IndInv, FilterTypeOK, NEW k \in Node, NEW x \in Node \ {k},
         HandleFilterAnnounce(k, x)
  PROVE  AllOwed'
<1> DEFINE filter == bloom[x].air[k]
           inbound == [bloom[k].inbound EXCEPT ![x] = filter]
<1>1. /\ \A n \in Node \ {k, x} : bloom'[n] = bloom[n]
      /\ \A n \in Node : /\ bloom[n].pending \subseteq bloom'[n].pending
                         /\ bloom'[n].sent = bloom[n].sent
      /\ bloom'[x].inbound = bloom[x].inbound
      /\ bloom'[x].air = [bloom[x].air EXCEPT ![k] = None] /\ bloom'[k].air = bloom[k].air
      /\ x \in peers[k] => /\ bloom'[k].inbound = inbound
                           /\ ChangedPeers(k, x, inbound) \subseteq bloom'[k].pending
      /\ x \notin peers[k] => bloom'[k] = bloom[k]
      /\ filter # None /\ UNCHANGED <<peers, own, heard, out>>
  BY HandleFields DEF IndInv, vars
<1>2. /\ bloom[x].air \in [Node -> OptFilter] /\ bloom[k].inbound \in [Node -> OptFilter]
      /\ \A n \in Node : peers[n] \subseteq Node
  BY DEF FilterTypeOK, FilterState, IndInv, TypeOK
<1>3. inbound[x] = filter /\ \A j \in Node \ {x} : inbound[j] = bloom[k].inbound[j]
  BY <1>2
<1>4. bloom'[x].air[k] = None /\ \A j \in Node \ {k} : bloom'[x].air[j] = bloom[x].air[j]
  BY <1>1, <1>2
<1> HIDE DEF filter, inbound
<1>5. ASSUME NEW n \in Node, NEW j \in Node, n # k \/ j # x
      PROVE  bloom'[j].air[n] = bloom[j].air[n] /\ (Waits(n, j) => Waits(n, j)')
  <2>1. bloom'[j].air[n] = bloom[j].air[n]
    BY <1>1, <1>4, <1>5
  <2> QED BY <1>1, <2>1 DEF Waits, Due
<1>6. \A n \in Node : TreeNow(n)' = TreeNow(n)
  BY <1>1, SameTree
<1> SUFFICES ASSUME NEW n \in Node, NEW m \in peers[n], n \in peers[m]
             PROVE  Owed(n, m)'
  BY <1>1 DEF AllOwed
<1>7. m \in Node /\ Owed(n, m)
  BY <1>2 DEF AllOwed
<1>8. ParentIsTold(n, m)' /\ NewsIsDue(n, m)' /\ (Due(n, m) => Due(n, m)')
  <2>1. StillTold(n, m) /\ (Due(n, m) => Due(n, m)')
    BY <1>1, <1>7 DEF StillTold, Says, Due
  <2> QED BY <1>7, <2>1, StillToldKeeps DEF Owed
<1>9. SentArrives(n, m)'
  <2>1. CASE n = x /\ m = k
    <3>1. bloom[x].sent[k] = filter
      BY <1>1, <1>7, <2>1 DEF Owed, SentArrives, filter
    <3>2. bloom'[k].inbound[x] = filter
      BY <1>1, <1>3, <2>1
    <3> QED BY <1>1, <1>4, <2>1, <3>1, <3>2 DEF SentArrives
  <2>2. CASE n # x \/ m # k
    <3>1. bloom'[n].air[m] = bloom[n].air[m]
      BY <1>5, <1>7, <2>2
    <3>2. bloom'[m].inbound[n] = bloom[m].inbound[n]
      BY <1>1, <1>3, <1>7, <2>2
    <3> QED BY <1>1, <1>7, <3>1, <3>2 DEF Owed, SentArrives
  <2> QED BY <2>1, <2>2
<1>10. CASE n # k \/ x \notin peers[k]
  <2>1. bloom'[n].inbound = bloom[n].inbound
    BY <1>1, <1>10
  <2>2. \A j \in peers[n] : Waits(n, j) => j \in peers'[n] /\ Waits(n, j)'
    BY <1>1, <1>2, <1>5, <1>10
  <2>3. WillBeCurrent(n, m)'
    BY <1>1, <1>6, <1>7, <1>8, <2>1, <2>2, StillCurrent DEF Owed
  <2> QED BY <1>8, <1>9, <2>3 DEF Owed
<1>11. CASE n = k /\ x \in peers[k]
  <2>1. PeerInboundFilters(k)' = {j \in TreeNow(k) : inbound[j] # None}
    BY <1>1, <1>6, <1>11 DEF PeerInboundFilters, TreeNow
  <2>2. CASE m # x
    <3>1. \/ m \in ChangedPeers(k, x, inbound)
          \/ bloom[k].sent[m] = Outgoing(k, inbound, {j \in TreeNow(k) : inbound[j] # None}, m)
      BY <1>11, <2>2 DEF ChangedPeers, TreeNow
    <3>2. Due(k, m)' \/ Current(k, m)'
      BY <1>1, <1>11, <2>1, <3>1 DEF Due, Current
    <3> QED BY <1>8, <1>9, <1>11, <3>2 DEF Owed, WillBeCurrent
  <2>3. CASE m = x
    <3>1. CASE Due(n, m)
      BY <1>8, <1>9, <3>1 DEF Owed, WillBeCurrent
    <3>2. CASE Current(n, m)
      <4>1. PeerInboundFilters(k) = {j \in TreeNow(k) : bloom[k].inbound[j] # None}
        BY DEF PeerInboundFilters, TreeNow
      <4>2. TreeNow(k) \subseteq Node
        BY <1>2 DEF TreeNow, TreePeers
      <4>3. PeerInboundFilters(k)' \ {x} = PeerInboundFilters(k) \ {x}
        BY <1>3, <2>1, <4>1, <4>2
      <4>4. {inbound[j] : j \in PeerInboundFilters(k) \ {x}}
              = {bloom[k].inbound[j] : j \in PeerInboundFilters(k) \ {x}}
        <5>1. \A j \in PeerInboundFilters(k) \ {x} : inbound[j] = bloom[k].inbound[j]
          BY <1>3, <4>1, <4>2
        <5> QED BY <5>1
      <4>5. Current(k, x)'
        <5>1. bloom[k].sent[x]
                = {k} \cup (UNION {bloom[k].inbound[j] : j \in PeerInboundFilters(k) \ {x}})
          BY <1>11, <2>3, <3>2 DEF Current, Outgoing
        <5>2. /\ bloom'[k].inbound = inbound /\ bloom'[k].sent = bloom[k].sent
              /\ bloom'[k].sent[x] = bloom[k].sent[x]
          BY <1>1, <1>11
        <5>3. {bloom'[k].inbound[j] : j \in PeerInboundFilters(k)' \ {x}}
                = {inbound[j] : j \in PeerInboundFilters(k) \ {x}}
          BY <4>3, <5>2
        <5>4. bloom'[k].sent[x]
                = {k} \cup (UNION {bloom'[k].inbound[j] : j \in PeerInboundFilters(k)' \ {x}})
          BY <4>4, <5>1, <5>2, <5>3
        <5> QED BY <5>4 DEF Current, Outgoing
      <4> QED BY <1>8, <1>9, <1>11, <2>3, <4>5 DEF Owed, WillBeCurrent
    <3>3. ASSUME NEW j \in peers[n] \ {m}, Waits(n, j)
          PROVE  Owed(n, m)'
      <4>1. j \in peers'[n] /\ Waits(n, j)'
        BY <1>1, <1>2, <1>5, <2>3, <3>3
      <4>2. WillBeCurrent(n, m)'
        BY <4>1 DEF WillBeCurrent
      <4> QED BY <1>8, <1>9, <4>2 DEF Owed
    <3> QED BY <1>7, <3>1, <3>2, <3>3 DEF Owed, WillBeCurrent
  <2> QED BY <2>2, <2>3
<1> QED BY <1>10, <1>11

LEMMA NextOwes ==
  ASSUME InOrder, AllOwed, Delivered, IndInv, IndInv', FilterTypeOK, [FilterNext]_bvars
  PROVE  AllOwed'
<1>1. CASE UNCHANGED bvars
  BY <1>1, QuietOwes DEF bvars, vars, IndInv
<1>2. ASSUME NEW n \in Node,
             \/ SendPending(n) /\ UNCHANGED bloom
             \/ \E s \in Suppressed : ChooseAgain(n, s)
             \/ SendPendingFilterAnnounces(n)
      PROVE  AllOwed'
  BY <1>2, SendPendingOwes, ChooseOwes, SendOwes
<1>3. ASSUME NEW n \in Node, NEW m \in Node \ {n},
             \/ HearAnnounce(n, m)
             \/ \E c \in Costs, s \in Suppressed : ReportCost(n, m, c, s)
             \/ \E s \in Suppressed : PeerGone(n, m, s)
             \/ n < m /\ PeerNew(n, m)
             \/ IntervalEnds(n, m)
             \/ HandleFilterAnnounce(n, m)
      PROVE  AllOwed'
  BY <1>3, HearOwes, ReportOwes, GoneOwes, NewOwes, IntervalOwes, ReceiveOwes
<1> QED BY <1>1, <1>2, <1>3 DEF FilterNext

-----------------------------------------------------------------------------
(* When the mesh is quiet.                                                 *)

LEMMA CalmShape ==
  ASSUME IndInv, Delivered, Calm
  PROVE  TreeShape
<1>1. peers \in [Node -> SUBSET Node] /\ \A n \in Node : \A m \in peers[n] : n \in peers[m]
  <2>1. peers \in [Node -> SUBSET Node]
    BY DEF IndInv, TypeOK
  <2> QED BY <2>1 DEF Calm
<1>2. CalmTree
  BY DeliveredCalmTree
<1>3. ASSUME NEW n \in Node
      PROVE  /\ Deep(n) \in Nat \ {0} /\ RootOf(n) \in Node
             /\ \/ Deep(n) = 1 /\ RootOf(n) = n
                \/ \E p \in peers[n] : /\ FromParent(n, p) /\ RootOf(p) = RootOf(n)
                                       /\ Deep(n) = Deep(p) + 1
  <2>1. Deep(n) \in Nat \ {0} /\ RootOf(n) \in Node
    BY StandsBelow, NonEmpty DEF Deep, RootOf
  <2>2. CASE Len(own[n].path) = 1 /\ IsRoot(n, own[n].path)
    BY <2>1, <2>2 DEF IsRoot, Deep, RootOf
  <2>3. ASSUME NEW p \in peers[n], p = Parent(own[n].path), p \in Node,
               heard[n][p].path \in Seq(Node), heard[n][p].path # <<>>,
               own[n].path = <<n>> \o heard[n][p].path
        PROVE  /\ FromParent(n, p) /\ RootOf(p) = RootOf(n)
               /\ Deep(n) = Deep(p) + 1
    <3>1. Len(own[n].path) > 1
      <4>1. Len(heard[n][p].path) \in Nat \ {0}
        BY <2>3, NonEmpty
      <4>2. Len(own[n].path) = Len(heard[n][p].path) + 1
        BY <2>3, Prefixed
      <4> QED BY <4>1, <4>2
    <3>2. ~ IsRoot(n, own[n].path)
      <4>1. own[n].path \in Seq(Node) /\ PathOf(n, own[n].path)
        BY NodeFacts DEF GoodPlace, Announce
      <4> QED BY <3>1, <4>1, DeepIsNotRoot
    <3>3. FromParent(n, p)
      BY <2>3, <3>2 DEF FromParent
    <3> QED BY <1>2, <3>3 DEF CalmTree, RootOf, Deep
  <2> QED BY <2>1, <2>2, <2>3, StandsBelow
<1> QED BY <1>1, <1>3 DEF TreeShape

\* What nodes know of each other's parents is what they are.
LEMMA CalmTreeNow ==
  ASSUME IndInv, Delivered, Calm, AllOwed, \A n, m \in Node : ~ Due(n, m),
         NEW n \in Node
  PROVE  TreeNow(n) = {k \in Node : TreeEdge(n, k)}
<1>1. peers[n] \subseteq Node /\ \A k \in peers[n] : n \in peers[k]
  BY CalmShape DEF TreeShape
<1>2. TreeNow(n) = {k \in peers[n] : FromParent(n, k) \/ (heard[n][k] # None /\ Says(heard[n][k], n))}
  BY TreePeersAre DEF TreeNow
<1>3. ASSUME NEW k \in peers[n]
      PROVE  heard[n][k] # None /\ (Says(heard[n][k], n) <=> FromParent(k, n))
  <2>1. k \in Node /\ heard[n][k] # None
    BY <1>1, HeardAlike
  <2>2. heard[n][k] \in SaidTo(k, n)
    BY <2>1 DEF SaidTo
  <2>3. ParentIsTold(k, n)
    BY <1>1, <2>1 DEF AllOwed, Owed
  <2>4. Says(heard[n][k], n) <=> Says(own[k], n)
    BY <2>1, <2>2, <2>3 DEF ParentIsTold
  <2> QED BY <2>1, <2>4, ParentIsSaid
<1> QED BY <1>1, <1>2, <1>3 DEF TreeEdge

\* Each node holds what its tree neighbours would send it now.
LEMMA QuietRests ==
  ASSUME IndInv, FilterTypeOK, Delivered, AllOwed, Quiet
  PROVE  /\ AtRest
         /\ \A n, m \in Node : TreeEdge(n, m) => bloom[n].inbound[m] # None
<1>1. Calm /\ \A n, m \in Node : ~ Due(n, m) /\ bloom[n].air[m] = None
  BY DEF Quiet, Due, NoFilters
<1>2. TreeShape
  BY <1>1, CalmShape
<1>3. \A n \in Node : peers[n] \subseteq Node /\ \A m \in peers[n] : n \in peers[m]
  BY <1>2 DEF TreeShape
<1>4. ASSUME NEW n \in Node, NEW m \in peers[n]
      PROVE  bloom[m].inbound[n] = Outgoing(n, bloom[n].inbound, PeerInboundFilters(n), m)
  <2>1. m \in Node /\ Owed(n, m)
    BY <1>3 DEF AllOwed
  <2>2. \A k \in peers[n] : ~ Waits(n, k)
    BY <1>1, <1>3 DEF Waits
  <2>3. Current(n, m)
    BY <1>1, <2>1, <2>2 DEF Owed, WillBeCurrent
  <2>4. bloom[n].sent[m] = bloom[m].inbound[n]
    BY <1>1, <2>1 DEF Owed, SentArrives
  <2> QED BY <2>3, <2>4 DEF Current
<1>5. ASSUME NEW n \in Node
      PROVE  /\ PeerInboundFilters(n) \in SUBSET {k \in Node : bloom[n].inbound[k] # None}
             /\ bloom[n].inbound \in [Node -> OptFilter]
  <2>1. TypeOK
    BY DEF IndInv
  <2>2. PeerInboundFilters(n) \in SUBSET {k \in Node : bloom[n].inbound[k] # None}
    BY <2>1, SourcesHaveFilters
  <2> QED BY <2>2 DEF FilterTypeOK, FilterState
<1>6. ASSUME NEW n \in Node, NEW m \in peers[n]
      PROVE  bloom[m].inbound[n] # None
  <2>1. bloom[m].inbound[n] \in SUBSET Node
    BY <1>4, <1>5, <1>6, OutgoingIsFilter
  <2> QED BY <2>1, NoFilterAssumption
<1>7. \A n \in Node : \A m \in Node : TreeEdge(n, m) => m \in peers[n] /\ n \in peers[m]
  BY <1>3 DEF TreeEdge
<1>8. ASSUME NEW n \in Node, NEW m \in Node, TreeEdge(n, m)
      PROVE  bloom[m].inbound[n] =
        {n} \cup (UNION {bloom[n].inbound[k] : k \in {j \in Node : TreeEdge(n, j)} \ {m}})
  <2>1. TreeNow(n) = {j \in Node : TreeEdge(n, j)}
    BY <1>1, CalmTreeNow
  <2>2. \A j \in TreeNow(n) : bloom[n].inbound[j] # None
    BY <1>6, <1>7, <2>1
  <2>3. PeerInboundFilters(n) = {j \in Node : TreeEdge(n, j)}
    <3>1. PeerInboundFilters(n) = {j \in TreeNow(n) : bloom[n].inbound[j] # None}
      BY DEF PeerInboundFilters, TreeNow
    <3> QED BY <2>1, <2>2, <3>1
  <2>4. m \in peers[n]
    BY <1>7, <1>8
  <2> QED BY <1>4, <2>3, <2>4 DEF Outgoing
<1> QED BY <1>6, <1>7, <1>8 DEF AtRest

LEMMA QuietIsExact ==
  ASSUME IsFiniteSet(Node), IndInv, FilterTypeOK, Delivered, AllOwed
  PROVE  FiltersExact
<1> SUFFICES ASSUME Quiet, NEW n \in Node, NEW m \in Node, TreeEdge(n, m)
             PROVE  /\ bloom[n].inbound[m] # None
                    /\ Missing(n, m) = {} /\ Ghosts(n, m) = {}
  BY DEF FiltersExact
<1>1. AtRest /\ bloom[n].inbound[m] # None
  BY QuietRests
<1>2. TreeShape
  BY CalmShape DEF Quiet
<1>3. bloom[n].inbound[m] = Side(n, m)
  BY <1>1, <1>2, RestIsExact
<1> QED BY <1>1, <1>3 DEF Missing, Ghosts

-----------------------------------------------------------------------------
(* At the beginning.                                                       *)

LEMMA StartShape ==
  ASSUME Init
  PROVE  TreeShape
<1>1. IndInv
  BY InitIndInv
<1>2. peers = [n \in Node |-> Linked(n)] /\ \A n \in Node : own[n].path = Start[n]
  BY DEF Init
<1>3. peers \in [Node -> SUBSET Node] /\ \A n \in Node : \A m \in peers[n] : n \in peers[m]
  BY <1>2 DEF Linked
<1>4. ASSUME NEW n \in Node
      PROVE  /\ Deep(n) \in Nat \ {0} /\ RootOf(n) \in Node
             /\ \/ Deep(n) = 1 /\ RootOf(n) = n
                \/ \E p \in peers[n] : /\ FromParent(n, p) /\ RootOf(p) = RootOf(n)
                                       /\ Deep(n) = Deep(p) + 1
  <2>1. Deep(n) \in Nat \ {0} /\ RootOf(n) \in Node
    BY <1>1, StandsBelow, NonEmpty DEF Deep, RootOf
  <2>2. CASE Deep(n) = 1
    <3>1. IsRoot(n, own[n].path)
      <4>1. own[n].path \in Seq(Node) /\ own[n].path # <<>> /\ own[n].path[1] = n
        <5>1. GoodPlace(n, heard[n], own[n])
          BY <1>1, NodeFacts
        <5> QED BY <5>1 DEF GoodPlace, Announce, PathOf
      <4> QED BY <2>2, <4>1 DEF IsRoot, Last, Deep
    <3> QED BY <2>1, <2>2, <3>1 DEF IsRoot, RootOf
  <2>3. CASE Deep(n) > 1
    <3> DEFINE p == Start[n][2]
    <3>1. own[n].path = Start[n] /\ Start[n] \in Seq(Node) /\ Len(Start[n]) > 1
      BY <1>2, <2>3, StartAssumption DEF Deep
    <3>2. {n, p} \in Connected /\ Start[n] = <<n>> \o Start[p]
      BY <3>1, StartAssumption
    <3>3. p \in Node
      BY <3>1
    <3>4. p \in peers[n] /\ own[p].path = Start[p] /\ Start[p] \in Seq(Node) /\ Start[p] # <<>>
      BY <1>2, <3>2, <3>3, StartAssumption DEF Linked
    <3>5. Len(Start[n]) = Len(Start[p]) + 1 /\ Last(Start[n]) = Last(Start[p])
      BY <3>2, <3>4, Prefixed
    <3>6. FromParent(n, p)
      <4>1. PathOf(n, own[n].path)
        BY <1>1, NodeFacts DEF GoodPlace
      <4>2. ~ IsRoot(n, own[n].path)
        BY <3>1, <4>1, DeepIsNotRoot
      <4> QED BY <3>1, <4>2 DEF FromParent, Parent
    <3>7. RootOf(p) = RootOf(n) /\ Deep(n) = Deep(p) + 1
      BY <3>1, <3>4, <3>5 DEF RootOf, Deep
    <3> QED BY <2>1, <3>4, <3>6, <3>7
  <2>4. Deep(n) = 1 \/ Deep(n) > 1
    BY <2>1
  <2> QED BY <2>1, <2>2, <2>3, <2>4
<1> QED BY <1>3, <1>4 DEF TreeShape

LEMMA StartBloom ==
  ASSUME MeshInit, NEW n \in Node, NEW m \in Node
  PROVE  /\ bloom[n].inbound[m] = IF Settled /\ m \in peers[n] THEN Reached(n, m) ELSE None
         /\ bloom[n].sent[m] = IF Settled /\ m \in peers[n] THEN Reached(m, n) ELSE None
         /\ bloom[n].air[m] = None
         /\ bloom[n].pending = IF Settled THEN {} ELSE peers[n]
<1> DEFINE held(k) == [j \in Node |->
             IF Settled /\ j \in peers[k] THEN Reached(k, j) ELSE None]
           told(k) == [j \in Node |->
             IF Settled /\ j \in peers[k] THEN Reached(j, k) ELSE None]
<1>1. bloom = [k \in Node |->
        [inbound |-> held(k), pending |-> IF Settled THEN {} ELSE peers[k],
         sent |-> told(k), air |-> NoFilters]]
  BY DEF MeshInit, FilterInit
<1>2. /\ held(n)[m] = IF Settled /\ m \in peers[n] THEN Reached(n, m) ELSE None
      /\ told(n)[m] = IF Settled /\ m \in peers[n] THEN Reached(m, n) ELSE None
  OBVIOUS
<1> HIDE DEF held, told
<1> QED BY <1>1, <1>2 DEF NoFilters

\* A settled mesh is at rest, in any other every peer is to be sent a filter.
LEMMA InitOwes ==
  ASSUME MeshInit
  PROVE  AllOwed
<1>1. Init /\ IndInv /\ TreeShape
  BY InitIndInv, StartShape DEF MeshInit
<1>2. \A n \in Node : peers[n] \subseteq Node /\ \A m \in peers[n] : n \in peers[m]
  BY <1>1 DEF TreeShape
<1> SUFFICES ASSUME NEW n \in Node, NEW m \in peers[n], n \in peers[m]
             PROVE  Owed(n, m)
  BY DEF AllOwed
<1>3. m \in Node
  BY <1>2
<1>4. SentArrives(n, m)
  <2>1. /\ bloom[n].sent[m] = IF Settled THEN Reached(m, n) ELSE None
        /\ bloom[n].air[m] = None
        /\ bloom[m].inbound[n] = IF Settled THEN Reached(m, n) ELSE None
    BY <1>3, StartBloom
  <2> QED BY <2>1 DEF SentArrives
<1>5. CASE ~ Settled
  <2>1. Due(n, m)
    BY <1>3, <1>5, StartBloom DEF Due
  <2> QED BY <1>4, <2>1 DEF Owed, ParentIsTold, NewsIsDue, WillBeCurrent
<1>6. CASE Settled
  <2>1. /\ out[n].air[m] = {} /\ out[n].pending = {}
        /\ \A k \in Node : \A j \in peers[k] : heard[k][j] = own[j]
        /\ \A k \in Node : own[k] \in Announce
    <3>1. out[n].air[m] = {} /\ out[n].pending = {}
      BY <1>1, <1>3, <1>6 DEF Init
    <3>2. \A k \in Node : \A j \in peers[k] : heard[k][j] = own[j]
      <4> SUFFICES ASSUME NEW k \in Node, NEW j \in peers[k] PROVE heard[k][j] = own[j]
        OBVIOUS
      <4>1. j \in Node /\ j \in Linked(k)
        BY <1>1, <1>2 DEF Init
      <4> QED BY <1>1, <1>6, <4>1 DEF Init
    <3> QED BY <1>1, <3>1, <3>2 DEF IndInv, TypeOK
  <2>2. ParentIsTold(n, m) /\ NewsIsDue(n, m)
    <3>1. heard[m][n] = own[n]
      BY <1>3, <2>1
    <3>2. SaidTo(n, m) \subseteq {own[n]}
      BY <2>1, <3>1 DEF SaidTo
    <3> QED BY <2>1, <3>2 DEF ParentIsTold, NewsIsDue
  <2>3. TreeNow(n) = {k \in Node : TreeEdge(n, k)}
    <3>1. TreeNow(n) = {k \in peers[n] : FromParent(n, k) \/ (heard[n][k] # None /\ Says(heard[n][k], n))}
      BY <1>1, TreePeersAre DEF TreeNow
    <3>2. ASSUME NEW k \in peers[n]
          PROVE  heard[n][k] # None /\ (Says(heard[n][k], n) <=> FromParent(k, n))
      <4>1. k \in Node /\ heard[n][k] = own[k] /\ own[k] # None
        BY <1>2, <2>1, NoneAssumption DEF Announce
      <4> QED BY <1>1, <4>1, ParentIsSaid
    <3> QED BY <1>2, <3>1, <3>2 DEF TreeEdge
  <2>4. ASSUME NEW k \in Node, TreeEdge(n, k)
        PROVE  bloom[n].inbound[k] = Side(n, k) /\ bloom[n].inbound[k] # None
    <3>1. k \in peers[n]
      BY <2>4 DEF TreeEdge
    <3>2. bloom[n].inbound[k] = Reached(n, k)
      BY <1>6, <3>1, StartBloom
    <3>3. Reached(n, k) = Side(n, k) /\ Side(n, k) \in SUBSET Node
      BY <2>4 DEF Reached, Side, Subtree
    <3> QED BY <3>2, <3>3, NoFilterAssumption
  <2>5. Current(n, m)
    <3>1. bloom[n].sent[m] = Reached(m, n)
      BY <1>3, <1>6, StartBloom
    <3>2. Reached(m, n) = {n} \cup (UNION {Side(n, k) : k \in {j \in Node : TreeEdge(n, j)} \ {m}})
      BY <1>1, <1>3, ReachedIs
    <3>3. PeerInboundFilters(n) = {j \in Node : TreeEdge(n, j)}
      BY <2>3, <2>4 DEF PeerInboundFilters, TreeNow
    <3>4. {bloom[n].inbound[k] : k \in {j \in Node : TreeEdge(n, j)} \ {m}}
            = {Side(n, k) : k \in {j \in Node : TreeEdge(n, j)} \ {m}}
      BY <2>4
    <3> QED BY <3>1, <3>2, <3>3, <3>4 DEF Current, Outgoing
  <2> QED BY <1>4, <2>2, <2>5 DEF Owed, WillBeCurrent
<1> QED BY <1>5, <1>6

\* When no announce is lost and a filter waits for the announce of the tree it is made
\* for, every filter of a quiet mesh is exact: what a node holds from a tree neighbour
\* (peer_inbound_filters, compute_outgoing_filter) is the neighbour's side of the edge,
\* nothing missing and nothing left over, whatever parents, links and costs did before.
\* The marks of mark_changed_peers, mark_update_needed and mark_all_updates_needed are
\* enough: no change of the tree or of a filter leaves a peer with an old one.
THEOREM FiltersAreExact ==
  ~ MayLose /\ InOrder /\ IsFiniteSet(Node) => (FilterSpec => []FiltersExact)
<1> SUFFICES ASSUME ~ MayLose, InOrder, IsFiniteSet(Node)
             PROVE  FilterSpec => []FiltersExact
  OBVIOUS
<1>1. MeshInit => AllOwed
  BY InitOwes
<1>2. IndInv /\ IndInv' /\ Delivered /\ FilterTypeOK /\ AllOwed /\ [FilterNext]_bvars => AllOwed'
  BY NextOwes
<1>3. IndInv /\ FilterTypeOK /\ Delivered /\ AllOwed => FiltersExact
  BY QuietIsExact
<1>4. FilterSpec => []IndInv /\ []Delivered
  BY FiltersLeaveTheTreeAlone, InductiveInvariant, AlwaysDelivered, PTL
<1> QED BY <1>1, <1>2, <1>3, <1>4, FilterStateCorrect, PTL DEF FilterSpec
=============================================================================
