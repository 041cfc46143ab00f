----------------------------- MODULE MCRouting ------------------------------
EXTENDS Routing

\* Parents[t][n]: n's parent in tree t.  1 is the root and 4 the source; 3 moves
\* from 1 to 2 and takes the destination 5 along.
Parents == << <<1, 1, 1, 1, 3>>, <<1, 1, 2, 1, 3>> >>

Path(parent) ==
  LET f[n \in 1 .. 5] == IF parent[n] = n THEN <<n>> ELSE <<n>> \o f[parent[n]]
  IN  f
Coords2 == [t \in 1 .. 2 |-> Path(Parents[t])]

\* The links of the tree, and one between 2 and 3 that is not in it.
InTree(t, n, m) == n # m /\ (Parents[t][n] = m \/ Parents[t][m] = n)
Links2 == [t \in 1 .. 2 |-> [n \in 1 .. 5 |->
  {m \in 1 .. 5 : InTree(t, n, m) \/ {n, m} = {2, 3}}]]

\* A tree neighbour's filter holds its side of the tree, another peer's all.
Holds(t, n, m, e) ==
  InTree(t, n, m) =>
    DistanceTo(Coords2[t][m], Coords2[t][e]) < DistanceTo(Coords2[t][n], Coords2[t][e])
Filter2 == [t \in 1 .. 2 |-> [n \in 1 .. 5 |-> [e \in {4, 5} |->
  {m \in Links2[t][n] : Holds(t, n, m, e)}]]]

\* The link between 2 and 3 is the cheapest.
Costs == [n \in 1 .. 5 |-> [m \in 1 .. 5 |-> IF {n, m} = {2, 3} THEN 1 ELSE 2]]
=============================================================================
