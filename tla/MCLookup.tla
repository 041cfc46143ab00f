------------------------------ MODULE MCLookup ------------------------------
(* A small mesh for Lookup: two nodes that ask (1 and 2) below a router (3)
   next to the target (4), and a leaf (5) below node 1 with another link to
   the router. *)
EXTENDS Lookup

SmallTree == [n \in 1 .. 5 |->
  CASE n = 1 -> {3, 5} [] n = 2 -> {3} [] n = 3 -> {1, 2, 4} [] n = 4 -> {3} [] n = 5 -> {1}]
SmallMesh == [n \in 1 .. 5 |-> CASE n = 3 -> {5} [] n = 5 -> {3} [] OTHER -> {}]

UpToDate == [n \in 1 .. 5 |->
  CASE n = 1 -> {3} [] n = 2 -> {3} [] n = 3 -> {4, 5} [] n = 4 -> {} [] n = 5 -> {1, 3}]

\* The leaf's filter holds the target wrongly; the leaf has not heard of it.
Ghost == [UpToDate EXCEPT ![1] = {3, 5}]
GhostFallback == [Ghost EXCEPT ![5] = {3}]
Unheard == [UpToDate EXCEPT ![1] = {}]

AllHints == {UpToDate, GhostFallback, Unheard}
=============================================================================
