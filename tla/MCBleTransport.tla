---------------------------- MODULE MCBleTransport ----------------------------
(* Small instances of BleTransport for TLC. *)
EXTENDS BleTransport

Pair == {<<1, 2>>, <<2, 1>>}
\* Node 2 in the middle: larger than one of its neighbours, smaller than the other.
Line == Pair \cup {<<2, 3>>, <<3, 2>>}

\* Faults between two nodes, and a node with more neighbours than connections.
PairAndLine ==
  { [inRange |-> Pair, max |-> 1, faults |-> 2],
    [inRange |-> Line, max |-> 1, faults |-> 0] }

=============================================================================
