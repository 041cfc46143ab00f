------------------------ MODULE StreamTransportProofs ------------------------
(***************************************************************************)
(* For any number of connections, handshakes and faults: the tables of the *)
(* two nodes keep their types and limits, and a receive task reads the     *)
(* connection that the pool has at its address.                            *)
(*                                                                         *)
(* The second is not inductive alone.  A task is spawned for a connection  *)
(* that comes from the backlog or from a background connect, so it matters *)
(* that such a connection is new to this side and was dialled by the right *)
(* one; and the clean-up of an ended task removes what the pool has at its *)
(* address, so it matters that this is still its own.  `Owned` says so of  *)
(* the state S a handler works on, and every helper keeps it.              *)
(***************************************************************************)
EXTENDS StreamTransport, FiniteSetTheorems, SequenceTheorems, TLAPS

\* The states a handler may work on.
State ==
  [node : [Node -> NodeState], wire : [Conn -> Wire],
   faults : 0 .. MaxFaults[Cardinality(dialers)]]

\* The pool has a connection at its own address only.
OwnAddress(S) ==
  \A n \in Node, a \in Addr :
    S.node[n].pool[a] # None => a = AddrOf(S, n, S.node[n].pool[a])
\* A receive task, running or about to clean up, has the entry at its address.
OwnEntry(S) ==
  \A n \in Node, c \in Conn :
    S.node[n].reader[c] # "none" => S.node[n].pool[AddrOf(S, n, c)] = c
\* A connection that is not in the pool yet is in no other table, and this
\* side dialled it, or the other one did.
New(S, n, c, a) ==
  AddrOf(S, n, c) = a /\ S.node[n].reader[c] = "none" /\ S.node[n].pool[a] # c
OwnConnect(S) ==
  \A n \in Node :
    S.node[n].connecting \in Conn => New(S, n, S.node[n].connecting, Peer)
OwnBacklog(S) ==
  \A n \in Node : \A c \in S.node[n].backlog : New(S, n, c, c)
Owned(S) == OwnAddress(S) /\ OwnEntry(S) /\ OwnConnect(S) /\ OwnBacklog(S)

Ok(S) == S \in State /\ Owned(S)

IndInv == TypeOK /\ Owned(Now)

-----------------------------------------------------------------------------
(* Constants, addresses and states.                                        *)

LEMMA Nodes ==
  /\ Node = {1, 2}
  /\ \A n \in Node : Other(n) \in Node /\ Other(n) # n /\ Other(Other(n)) = n
BY DEF Node, Other

LEMMA Addresses ==
  /\ Conn \subseteq Nat /\ Peer \notin Conn /\ None \notin Conn
  /\ Running \notin Conn /\ Failed \notin Conn
  /\ Peer \in Addr /\ Conn \subseteq Addr
BY StreamAssumption DEF Peer, Addr

LEMMA Limits ==
  ASSUME dialers \in DialerSets
  PROVE  /\ Cardinality(dialers) \in 0 .. 2
         /\ MaxFaults[Cardinality(dialers)] \in Nat
         /\ MaxResends[Cardinality(dialers)] \in Nat
<1>1. dialers \subseteq 1 .. 2
  BY StreamAssumption
<1>2. IsFiniteSet(1 .. 2) /\ Cardinality(1 .. 2) = 2
  <2>1. 1 \in Int /\ 2 \in Int /\ ~(1 > 2) /\ 2 - 1 + 1 = 2
    OBVIOUS
  <2> QED BY <2>1, FS_Interval, Zenon
<1>3. IsFiniteSet(dialers) /\ Cardinality(dialers) <= 2
  BY <1>1, <1>2, FS_Subset
<1>4. Cardinality(dialers) \in Nat
  BY <1>3, FS_CardinalityType
<1>5. MaxFaults \in [0 .. 2 -> Nat] /\ MaxResends \in [0 .. 2 -> Nat]
  BY StreamAssumption
<1> QED BY <1>3, <1>4, <1>5

\* The address of a connection.
LEMMA AddressOf ==
  ASSUME NEW S \in State, NEW n \in Node, NEW c \in Conn
  PROVE  /\ AddrOf(S, n, c) \in {Peer, c}
         /\ AddrOf(S, n, c) \in Addr
         /\ S.wire[c].by = n => AddrOf(S, n, c) = Peer
         /\ S.wire[c].by # n => AddrOf(S, n, c) = c
         /\ S.wire[c].by \in Node
BY Addresses DEF AddrOf, State, Wire

\* What of a state's node and wire the invariant depends on.
LEMMA StateFields ==
  ASSUME NEW S \in State, NEW n \in Node
  PROVE  /\ S.node \in [Node -> NodeState] /\ S.wire \in [Conn -> Wire]
         /\ S.node[n] \in NodeState
         /\ S.node[n].pool \in [Addr -> Conn \cup {None}]
         /\ S.node[n].reader \in [Conn -> {"none", "reading", "ended"}]
         /\ S.node[n].backlog \subseteq Conn
         /\ S.node[n].connecting \in {None, Running, Failed} \cup Conn
         /\ S.faults \in 0 .. MaxFaults[Cardinality(dialers)]
BY DEF State, NodeState

\* Owned is about four tables of a node and who dialled the connections in use.
LEMMA OwnedAlike ==
  ASSUME NEW S \in State, NEW T \in State, Owned(S),
         \A n \in Node : /\ T.node[n].pool = S.node[n].pool
                         /\ T.node[n].reader = S.node[n].reader
                         /\ T.node[n].backlog = S.node[n].backlog
                         /\ T.node[n].connecting = S.node[n].connecting,
         \A c \in Conn : InUse(S, c) => T.wire[c].by = S.wire[c].by
  PROVE  Owned(T)
<1>1. \A n \in Node, c \in Conn : InUse(S, c) => AddrOf(T, n, c) = AddrOf(S, n, c)
  BY DEF AddrOf
<1>2. \A n \in Node : /\ S.node[n].pool \in [Addr -> Conn \cup {None}]
                      /\ S.node[n].backlog \subseteq Conn
  BY StateFields
<1>3. /\ \A n \in Node, a \in Addr :
           S.node[n].pool[a] \in Conn => InUse(S, S.node[n].pool[a])
      /\ \A n \in Node, c \in Conn : S.node[n].reader[c] # "none" => InUse(S, c)
      /\ \A n \in Node : \A c \in S.node[n].backlog : InUse(S, c)
      /\ \A n \in Node : S.node[n].connecting \in Conn => InUse(S, S.node[n].connecting)
  BY DEF InUse, Holds
<1>4. OwnAddress(T)
  BY <1>1, <1>2, <1>3 DEF Owned, OwnAddress
<1>5. OwnEntry(T)
  BY <1>1, <1>3 DEF Owned, OwnEntry
<1>6. OwnConnect(T)
  BY <1>1, <1>3 DEF Owned, OwnConnect, New
<1>7. OwnBacklog(T)
  BY <1>1, <1>2, <1>3 DEF Owned, OwnBacklog, New
<1> QED BY <1>4, <1>5, <1>6, <1>7 DEF Owned

-----------------------------------------------------------------------------
(* A state with one part replaced.                                         *)

SetNode(S, n, s) == [S EXCEPT !.node[n] = s]
SetWire(S, c, w) == [S EXCEPT !.wire[c] = w]
SetFaults(S, f) == [S EXCEPT !.faults = f]

LEMMA NodeSet ==
  ASSUME NEW S \in State, NEW n \in Node, NEW s \in NodeState
  PROVE  /\ SetNode(S, n, s) \in State
         /\ SetNode(S, n, s).node[n] = s
         /\ \A p \in Node \ {n} : SetNode(S, n, s).node[p] = S.node[p]
         /\ SetNode(S, n, s).wire = S.wire
         /\ SetNode(S, n, s).faults = S.faults
BY DEF SetNode, State

LEMMA WireSet ==
  ASSUME NEW S \in State, NEW c \in Conn, NEW w \in Wire
  PROVE  /\ SetWire(S, c, w) \in State
         /\ SetWire(S, c, w).wire[c] = w
         /\ \A d \in Conn \ {c} : SetWire(S, c, w).wire[d] = S.wire[d]
         /\ SetWire(S, c, w).node = S.node
         /\ SetWire(S, c, w).faults = S.faults
BY DEF SetWire, State

LEMMA FaultsSet ==
  ASSUME NEW S \in State, NEW f \in 0 .. MaxFaults[Cardinality(dialers)]
  PROVE  /\ SetFaults(S, f) \in State
         /\ SetFaults(S, f).wire = S.wire
         /\ SetFaults(S, f).node = S.node
BY DEF SetFaults, State

\* One table of a node replaced.
LEMMA TableSet ==
  ASSUME NEW s \in NodeState
  PROVE  /\ \A x \in [Addr -> Conn \cup {None}] : [s EXCEPT !.pool = x] \in NodeState
         /\ \A x \in [Conn -> {"none", "reading", "ended"}] :
              [s EXCEPT !.reader = x] \in NodeState
         /\ \A x \in SUBSET Conn : [s EXCEPT !.backlog = x] \in NodeState
         /\ \A x \in {None, Running, Failed} \cup Conn :
              [s EXCEPT !.connecting = x] \in NodeState
BY DEF NodeState

-----------------------------------------------------------------------------
(* The pool.                                                               *)

LEMMA DialOk ==
  ASSUME NEW S \in State, NEW n \in Node, NEW c \in FreeConn(S), Owned(S)
  PROVE  /\ Ok(Dial(S, n, c))
         /\ Dial(S, n, c).wire[c].by = n
         /\ Dial(S, n, c).node[n] = S.node[n]
         /\ c \in Conn /\ ~InUse(S, c)
<1> DEFINE T == Dial(S, n, c)
           o == Other(n)
<1>1. c \in Conn /\ ~InUse(S, c)
  BY DEF FreeConn, Least
<1>2. o \in Node /\ o # n
  BY Nodes
<1>3. NoWire \in Wire
  BY Nodes, EmptySeq DEF NoWire, Wire
<1> DEFINE w == [NoWire EXCEPT !.by = n]
           b == [S.node[o] EXCEPT !.backlog = S.node[o].backlog \cup {c}]
           U == SetWire(S, c, w)
<1>4. w \in Wire /\ w.by = n
  BY <1>3 DEF Wire
<1>5. /\ b \in NodeState
      /\ b.pool = S.node[o].pool /\ b.reader = S.node[o].reader
      /\ b.connecting = S.node[o].connecting
      /\ b.backlog = S.node[o].backlog \cup {c}
  <2>1. S.node[o] \in NodeState /\ S.node[o].backlog \cup {c} \in SUBSET Conn
    BY <1>1, <1>2, StateFields
  <2>2. b \in NodeState
    BY <2>1, TableSet
  <2> QED BY <2>1, <2>2 DEF NodeState
<1>6. U.node = S.node /\ T = SetNode(U, o, b)
  <2>1. U.node = S.node
    BY <1>1, <1>4, WireSet
  <2>2. T = SetNode(U, o, [U.node[o] EXCEPT !.backlog = U.node[o].backlog \cup {c}])
    BY DEF Dial, SetNode, SetWire
  <2> QED BY <2>1, <2>2
<1> HIDE DEF T, o, w, b, U
<1>60. U \in State
  BY <1>1, <1>4, WireSet DEF U
<1>61. T \in State
  BY <1>2, <1>5, <1>6, <1>60, NodeSet
<1>7. /\ T.wire[c].by = n /\ T.node[n] = S.node[n]
      /\ \A d \in Conn \ {c} : T.wire[d].by = S.wire[d].by
      /\ \A p \in Node : /\ T.node[p].pool = S.node[p].pool
                         /\ T.node[p].reader = S.node[p].reader
                         /\ T.node[p].connecting = S.node[p].connecting
      /\ T.node[o].backlog = S.node[o].backlog \cup {c}
      /\ \A p \in Node \ {o} : T.node[p].backlog = S.node[p].backlog
  <2>1. U.wire[c] = w /\ \A d \in Conn \ {c} : U.wire[d] = S.wire[d]
    BY <1>1, <1>4, WireSet DEF U
  <2>2. T.wire = U.wire /\ T.node[o] = b /\ \A p \in Node \ {o} : T.node[p] = S.node[p]
    BY <1>2, <1>5, <1>6, <1>60, NodeSet
  <2> QED BY <2>1, <2>2, <1>2, <1>4, <1>5
<1>8. /\ \A p \in Node, a \in Addr : S.node[p].pool[a] # c
      /\ \A p \in Node : S.node[p].reader[c] = "none"
      /\ \A p \in Node : S.node[p].connecting # c
      /\ \A p \in Node : c \notin S.node[p].backlog
  BY <1>1 DEF InUse, Holds
<1>9. \A p \in Node, d \in Conn \ {c} : AddrOf(T, p, d) = AddrOf(S, p, d)
  BY <1>7 DEF AddrOf
<1>10. Owned(T)
  <2>1. OwnAddress(T)
    BY <1>7, <1>8, <1>9, StateFields DEF Owned, OwnAddress
  <2>2. OwnEntry(T)
    BY <1>7, <1>8, <1>9 DEF Owned, OwnEntry
  <2>3. OwnConnect(T)
    BY <1>7, <1>8, <1>9 DEF Owned, OwnConnect, New
  <2>4. AddrOf(T, o, c) = c /\ T.node[o].reader[c] = "none" /\ T.node[o].pool[c] # c
    BY <1>1, <1>2, <1>7, <1>8, Addresses DEF AddrOf
  <2>5. OwnBacklog(T)
    BY <1>2, <1>7, <1>8, <1>9, <2>4, StateFields DEF Owned, OwnBacklog, New
  <2> QED BY <2>1, <2>2, <2>3, <2>5 DEF Owned
<1> QED BY <1>1, <1>61, <1>7, <1>10 DEF Ok, T

\* A connection goes into the pool, with its task (r) or when that is over.
LEMMA InsertOk ==
  ASSUME NEW S \in State, NEW T \in State, NEW n \in Node, NEW a \in Addr,
         NEW c \in Conn, NEW r \in {"none", "reading"},
         Owned(S), New(S, n, c, a), S.node[n].pool[a] = None,
         S.node[n].connecting # c, c \notin S.node[n].backlog,
         T.wire = S.wire,
         \A p \in Node \ {n} : T.node[p] = S.node[p],
         T.node[n].pool = [S.node[n].pool EXCEPT ![a] = c],
         T.node[n].reader = [S.node[n].reader EXCEPT ![c] = r],
         T.node[n].backlog = S.node[n].backlog,
         T.node[n].connecting = S.node[n].connecting
  PROVE  Owned(T)
<1>1. \A p \in Node, d \in Conn : AddrOf(T, p, d) = AddrOf(S, p, d)
  BY DEF AddrOf
<1>2. AddrOf(S, n, c) = a /\ S.node[n].reader[c] = "none"
  BY DEF New
<1>3. \A p \in Node : /\ S.node[p].pool \in [Addr -> Conn \cup {None}]
                      /\ S.node[p].reader \in [Conn -> {"none", "reading", "ended"}]
                      /\ S.node[p].backlog \subseteq Conn
  BY StateFields
<1>4. \A d \in Conn : AddrOf(S, n, d) \in Addr
  BY AddressOf
<1>5. OwnAddress(T)
  BY <1>1, <1>2, <1>3 DEF Owned, OwnAddress
<1>6. OwnEntry(T)
  BY <1>1, <1>2, <1>3, <1>4, Addresses DEF Owned, OwnEntry
<1>7. OwnConnect(T)
  BY <1>1, <1>3, Addresses DEF Owned, OwnConnect, New
<1>8. OwnBacklog(T)
  <2>1. \A p \in Node : \A d \in S.node[p].backlog : d \in Conn /\ New(S, p, d, d)
    BY <1>3 DEF Owned, OwnBacklog
  <2>2. ASSUME NEW d \in T.node[n].backlog PROVE New(T, n, d, d)
    <3>1. d \in Conn /\ d \in Addr /\ d # c /\ New(S, n, d, d)
      BY <2>1, <2>2, Addresses
    <3>2. T.node[n].pool[d] # d /\ T.node[n].reader[d] = "none"
      BY <1>3, <3>1 DEF New
    <3> QED BY <1>1, <3>1, <3>2 DEF New
  <2>3. ASSUME NEW p \in Node \ {n}, NEW d \in T.node[p].backlog PROVE New(T, p, d, d)
    BY <1>1, <2>1, <2>3 DEF New
  <2> QED BY <2>2, <2>3 DEF OwnBacklog
<1> QED BY <1>5, <1>6, <1>7, <1>8 DEF Owned

\* An entry and its task go, whoever removes them.
LEMMA RemoveOk ==
  ASSUME NEW S \in State, NEW T \in State, NEW n \in Node, NEW c \in Conn,
         Owned(S), S.node[n].pool[AddrOf(S, n, c)] = c,
         T.wire = S.wire,
         \A p \in Node \ {n} : T.node[p] = S.node[p],
         T.node[n].pool = [S.node[n].pool EXCEPT ![AddrOf(S, n, c)] = None],
         T.node[n].reader = [S.node[n].reader EXCEPT ![c] = "none"],
         T.node[n].backlog = S.node[n].backlog,
         T.node[n].connecting = S.node[n].connecting
  PROVE  Owned(T)
<1>1. \A p \in Node, d \in Conn : AddrOf(T, p, d) = AddrOf(S, p, d)
  BY DEF AddrOf
<1>2. PICK a \in Addr : a = AddrOf(S, n, c)
  BY AddressOf
<1>3. \A p \in Node : /\ S.node[p].pool \in [Addr -> Conn \cup {None}]
                      /\ S.node[p].reader \in [Conn -> {"none", "reading", "ended"}]
                      /\ S.node[p].backlog \subseteq Conn
  BY StateFields
<1>4. \A d \in Conn : AddrOf(S, n, d) \in Addr
  BY AddressOf
<1>5. OwnAddress(T)
  BY <1>1, <1>2, <1>3 DEF Owned, OwnAddress
<1>6. OwnEntry(T)
  BY <1>1, <1>2, <1>3, <1>4, Addresses DEF Owned, OwnEntry
<1>7. OwnConnect(T)
  <2>1. ASSUME NEW p \in Node, T.node[p].connecting \in Conn
        PROVE  New(T, p, T.node[p].connecting, Peer)
    <3>1. PICK d \in Conn : d = T.node[p].connecting /\ d = S.node[p].connecting
      BY <2>1
    <3>2. New(S, p, d, Peer)
      BY <3>1 DEF Owned, OwnConnect
    <3>3. T.node[p].pool[Peer] # d /\ T.node[p].reader[d] = "none"
      BY <1>2, <1>3, <3>1, <3>2, Addresses DEF New
    <3> QED BY <1>1, <3>1, <3>2, <3>3 DEF New
  <2> QED BY <2>1 DEF OwnConnect
<1>8. OwnBacklog(T)
  <2>1. \A p \in Node : \A d \in S.node[p].backlog : d \in Conn /\ New(S, p, d, d)
    BY <1>3 DEF Owned, OwnBacklog
  <2>2. ASSUME NEW d \in T.node[n].backlog PROVE New(T, n, d, d)
    <3>1. d \in Conn /\ d \in Addr /\ New(S, n, d, d)
      BY <2>1, <2>2, Addresses
    <3>2. T.node[n].pool[d] # d /\ T.node[n].reader[d] = "none"
      BY <1>3, <1>2, <3>1, Addresses DEF New
    <3> QED BY <1>1, <3>1, <3>2 DEF New
  <2>3. ASSUME NEW p \in Node \ {n}, NEW d \in T.node[p].backlog PROVE New(T, p, d, d)
    BY <1>1, <2>1, <2>3 DEF New
  <2> QED BY <2>2, <2>3 DEF OwnBacklog
<1> QED BY <1>5, <1>6, <1>7, <1>8 DEF Owned

LEMMA DropEntryOk ==
  ASSUME NEW S \in State, NEW n \in Node, NEW a \in Addr, Owned(S)
  PROVE  Ok(DropEntry(S, n, a)) /\ DropEntry(S, n, a).node[n].peer = S.node[n].peer
<1> DEFINE c == S.node[n].pool[a]
           s == S.node[n]
           s1 == [s EXCEPT !.pool = [s.pool EXCEPT ![a] = None]]
           U == SetNode(S, n, s1)
           s2 == [s1 EXCEPT !.reader = [s.reader EXCEPT ![c] = "none"]]
           T == SetNode(U, n, s2)
<1>1. CASE c = None
  BY <1>1 DEF DropEntry, Ok
<1>2. CASE c # None
  <2>1. /\ s \in NodeState /\ c \in Conn
        /\ s.pool \in [Addr -> Conn \cup {None}]
        /\ s.reader \in [Conn -> {"none", "reading", "ended"}]
    BY <1>2, StateFields
  <2>2. [s.pool EXCEPT ![a] = None] \in [Addr -> Conn \cup {None}]
    BY <2>1
  <2>3. s1 \in NodeState
    BY <2>1, <2>2, TableSet
  <2>4. [s.reader EXCEPT ![c] = "none"] \in [Conn -> {"none", "reading", "ended"}]
    BY <2>1
  <2>5. s2 \in NodeState
    BY <2>3, <2>4, TableSet
  <2>6. /\ s1.reader = s.reader
        /\ s2.pool = [s.pool EXCEPT ![a] = None]
        /\ s2.reader = [s.reader EXCEPT ![c] = "none"]
        /\ s2.backlog = s.backlog /\ s2.connecting = s.connecting
        /\ s2.peer = s.peer
    BY <2>1, <2>2, <2>4 DEF NodeState
  <2>7. a = AddrOf(S, n, c)
    BY <1>2 DEF Owned, OwnAddress
  <2>8. DropEntry(S, n, a) =
          SetNode(U, n, [U.node[n] EXCEPT !.reader = [U.node[n].reader EXCEPT ![c] = "none"]])
    BY <1>2 DEF DropEntry, SetNode
  <2> HIDE DEF s1, s2, U, T, c
  <2>9. U \in State /\ U.node[n] = s1
        /\ U.wire = S.wire /\ \A p \in Node \ {n} : U.node[p] = S.node[p]
    BY <2>3, NodeSet DEF U
  <2>10. DropEntry(S, n, a) = T
    BY <2>6, <2>8, <2>9 DEF T, s2
  <2>11. T \in State /\ T.node[n] = s2 /\ T.wire = U.wire
         /\ \A p \in Node \ {n} : T.node[p] = U.node[p]
    BY <2>5, <2>9, NodeSet DEF T
  <2>12. Owned(T)
    <3>1. S.node[n].pool[AddrOf(S, n, c)] = c
      BY <2>7 DEF c
    <3> QED BY <2>1, <2>6, <2>7, <2>9, <2>11, <3>1, RemoveOk
  <2> QED BY <2>6, <2>10, <2>11, <2>12 DEF Ok
<1> QED BY <1>1, <1>2

LEMMA PoolOk ==
  ASSUME NEW S \in State, NEW n \in Node, NEW a \in Addr, NEW c \in Conn,
         Owned(S), New(S, n, c, a), S.node[n].pool[a] = None,
         S.node[n].connecting # c, c \notin S.node[n].backlog
  PROVE  /\ Ok(Pool(S, n, a, c))
         /\ Ok([S EXCEPT !.node[n].pool[a] = c])
<1> DEFINE s == S.node[n]
           s1 == [s EXCEPT !.pool = [s.pool EXCEPT ![a] = c]]
           U == SetNode(S, n, s1)
           s2 == [s1 EXCEPT !.reader = [s.reader EXCEPT ![c] = "reading"]]
           T == SetNode(U, n, s2)
<1>1. /\ s \in NodeState
      /\ s.pool \in [Addr -> Conn \cup {None}]
      /\ s.reader \in [Conn -> {"none", "reading", "ended"}]
  BY StateFields
<1>2. [s.pool EXCEPT ![a] = c] \in [Addr -> Conn \cup {None}]
  BY <1>1
<1>3. s1 \in NodeState
  BY <1>1, <1>2, TableSet
<1>4. [s.reader EXCEPT ![c] = "reading"] \in [Conn -> {"none", "reading", "ended"}]
  BY <1>1
<1>5. s2 \in NodeState
  BY <1>3, <1>4, TableSet
<1>6. /\ s1.reader = s.reader /\ s1.pool = [s.pool EXCEPT ![a] = c]
      /\ s1.backlog = s.backlog /\ s1.connecting = s.connecting
      /\ s2.pool = [s.pool EXCEPT ![a] = c]
      /\ s2.reader = [s.reader EXCEPT ![c] = "reading"]
      /\ s2.backlog = s.backlog /\ s2.connecting = s.connecting
  BY <1>1, <1>2, <1>4 DEF NodeState
<1>7. /\ [S EXCEPT !.node[n].pool[a] = c] = U
      /\ Pool(S, n, a, c) =
          SetNode(U, n, [U.node[n] EXCEPT !.reader = [U.node[n].reader EXCEPT ![c] = "reading"]])
  BY DEF Pool, SetNode
<1> HIDE DEF s1, s2, U, T
<1>8. U \in State /\ U.node[n] = s1
      /\ U.wire = S.wire /\ \A p \in Node \ {n} : U.node[p] = S.node[p]
  BY <1>3, NodeSet DEF U
<1>9. Pool(S, n, a, c) = T
  BY <1>6, <1>7, <1>8 DEF T, s2
<1>10. T \in State /\ T.node[n] = s2 /\ T.wire = U.wire
       /\ \A p \in Node \ {n} : T.node[p] = U.node[p]
  BY <1>5, <1>8, NodeSet DEF T
<1>11. Owned(T)
  <2>1. "reading" \in {"none", "reading"}
    OBVIOUS
  <2> QED BY ZenonT(60), <1>6, <1>8, <1>10, <2>1, InsertOk
<1>12. Owned(U)
  <2>1. "none" \in {"none", "reading"} /\ S.node[n].reader[c] = "none"
    BY DEF New
  <2>2. s1.reader = [s.reader EXCEPT ![c] = "none"]
    BY <1>1, <1>6, <2>1
  <2> QED BY <1>6, <1>8, <2>1, <2>2, InsertOk
<1> QED BY <1>7, <1>8, <1>9, <1>10, <1>11, <1>12 DEF Ok

LEMMA FaultOk ==
  ASSUME NEW S \in State, dialers \in DialerSets, Owned(S), NEW T \in Fault(S)
  PROVE  Ok(T) /\ T.node = S.node /\ T.wire = S.wire
<1>1. S.faults \in Nat /\ MaxFaults[Cardinality(dialers)] \in Nat
      /\ S.faults < MaxFaults[Cardinality(dialers)]
  BY Limits DEF State, Fault
<1>2. S.faults + 1 \in 0 .. MaxFaults[Cardinality(dialers)]
  BY <1>1
<1>3. T = SetFaults(S, S.faults + 1)
  BY <1>1 DEF Fault, SetFaults
<1>4. T \in State /\ T.node = S.node /\ T.wire = S.wire
  BY <1>2, <1>3, FaultsSet
<1>5. Owned(T)
  BY <1>4, OwnedAlike
<1> QED BY <1>4, <1>5 DEF Ok

LEMMA PooledOk ==
  ASSUME NEW S \in State, dialers \in DialerSets,
         NEW n \in Node, NEW a \in Addr, NEW c \in Conn,
         Owned(S), New(S, n, c, a), S.node[n].pool[a] = None,
         S.node[n].connecting # c, c \notin S.node[n].backlog,
         NEW T \in Pooled(S, n, a, c)
  PROVE  Ok(T)
<1>1. CASE T = Pool(S, n, a, c)
  BY <1>1, PoolOk
<1>2. CASE \E F \in Fault(S) : T = [F EXCEPT !.node[n].pool[a] = c]
  <2>1. PICK F \in Fault(S) : T = [F EXCEPT !.node[n].pool[a] = c]
    BY <1>2
  <2>2. F \in State /\ Owned(F) /\ F.node = S.node /\ F.wire = S.wire
    BY FaultOk DEF Ok
  <2>3. New(F, n, c, a)
    BY <2>2 DEF New, AddrOf
  <2> QED BY <2>1, <2>2, <2>3, PoolOk
<1> QED BY <1>1, <1>2 DEF Pooled

-----------------------------------------------------------------------------
(* Sending.                                                                *)

\* A connection changes, but not who dialled it.
LEMMA WireOk ==
  ASSUME NEW S \in State, NEW c \in Conn, Owned(S),
         NEW w \in Wire, w.by = S.wire[c].by
  PROVE  Ok(SetWire(S, c, w)) /\ SetWire(S, c, w).node = S.node
<1>1. /\ SetWire(S, c, w) \in State /\ SetWire(S, c, w).node = S.node
      /\ SetWire(S, c, w).wire[c] = w
      /\ \A d \in Conn \ {c} : SetWire(S, c, w).wire[d] = S.wire[d]
  BY WireSet
<1>2. \A d \in Conn : SetWire(S, c, w).wire[d].by = S.wire[d].by
  BY <1>1
<1>3. Owned(SetWire(S, c, w))
  BY <1>1, <1>2, OwnedAlike
<1> QED BY <1>1, <1>3 DEF Ok

LEMMA WriteOk ==
  ASSUME NEW S \in State, NEW n \in Node, NEW c \in Conn, NEW m \in Message, Owned(S)
  PROVE  Ok(Write(S, n, c, m))
<1> DEFINE o == Other(n)
           v == S.wire[c]
           w == [v EXCEPT !.to = [v.to EXCEPT ![o] = Append(v.to[o], m)]]
<1>1. v \in Wire /\ v.to \in [Node -> Seq(Message)] /\ o \in Node
  BY Nodes, StateFields DEF Wire
<1>2. Append(v.to[o], m) \in Seq(Message)
  BY <1>1, AppendProperties
<1>3. [v.to EXCEPT ![o] = Append(v.to[o], m)] \in [Node -> Seq(Message)]
  BY <1>1, <1>2
<1>4. w \in Wire /\ w.by = v.by
  BY <1>1, <1>3 DEF Wire
<1>5. Write(S, n, c, m) = SetWire(S, c, w)
  BY DEF Write, SetWire
<1> HIDE DEF w
<1> QED BY <1>4, <1>5, WireOk

LEMMA BrokenOk ==
  ASSUME NEW S \in State, NEW c \in Conn, Owned(S)
  PROVE  Ok([S EXCEPT !.wire[c].broken = TRUE])
<1> DEFINE w == [S.wire[c] EXCEPT !.broken = TRUE]
<1>1. w \in Wire /\ w.by = S.wire[c].by
  BY DEF State, Wire
<1>2. [S EXCEPT !.wire[c].broken = TRUE] = SetWire(S, c, w)
  BY DEF SetWire
<1> HIDE DEF w
<1> QED BY <1>1, <1>2, WireOk

LEMMA SendPooledOk ==
  ASSUME NEW S \in State, Owned(S), NEW n \in Node, NEW a \in Addr, NEW m \in Message,
         S.node[n].pool[a] # None, NEW r \in SendPooled(S, n, a, m)
  PROVE  Ok(r[1]) /\ r[2] \in BOOLEAN
<1> DEFINE c == S.node[n].pool[a]
           B == [S EXCEPT !.wire[c].broken = TRUE]
<1>1. c \in Conn
  BY StateFields
<1>2. \/ r = <<DropEntry(S, n, a), FALSE>>
      \/ r = <<B, TRUE>>
      \/ r = <<Write(S, n, c, m), TRUE>>
  BY DEF SendPooled
<1>3. Ok(DropEntry(S, n, a)) /\ Ok(B) /\ Ok(Write(S, n, c, m))
  BY <1>1, DropEntryOk, BrokenOk, WriteOk
<1> HIDE DEF c, B
<1>4. CASE r = <<DropEntry(S, n, a), FALSE>>
  BY <1>3, <1>4
<1>5. CASE r = <<B, TRUE>>
  BY <1>3, <1>5
<1>6. CASE r = <<Write(S, n, c, m), TRUE>>
  BY <1>3, <1>6
<1> QED BY <1>2, <1>4, <1>5, <1>6

LEMMA ConnectOnSendOk ==
  ASSUME NEW S \in State, dialers \in DialerSets, Owned(S),
         NEW n \in Node, NEW a \in Addr, NEW m \in Message,
         S.node[n].pool[a] = None, NEW r \in ConnectOnSend(S, n, a, m)
  PROVE  Ok(r[1]) /\ r[2] \in BOOLEAN
<1>1. CASE r = <<S, FALSE>>
  BY <1>1 DEF Ok
<1>2. CASE \E T \in Fault(S) : r = <<T, FALSE>>
  BY <1>2, FaultOk
<1>3. CASE /\ a = Peer
           /\ \E c \in FreeConn(S) :
                r = <<Write(Pool(Dial(S, n, c), n, Peer, c), n, c, m), TRUE>>
  <2>1. PICK c \in FreeConn(S) :
          r = <<Write(Pool(Dial(S, n, c), n, Peer, c), n, c, m), TRUE>>
    BY <1>3
  <2> DEFINE D == Dial(S, n, c)
             P == Pool(D, n, Peer, c)
  <2>2. /\ D \in State /\ Owned(D) /\ D.wire[c].by = n /\ D.node[n] = S.node[n]
        /\ c \in Conn /\ ~InUse(S, c)
    BY DialOk DEF Ok
  <2> HIDE DEF D
  <2>3. /\ S.node[n].reader[c] = "none" /\ S.node[n].pool[Peer] = None
        /\ S.node[n].connecting # c /\ c \notin S.node[n].backlog
    BY <1>3, <2>2 DEF InUse, Holds
  <2>4. New(D, n, c, Peer)
    BY <2>2, <2>3, Addresses, AddressOf DEF New
  <2>5. P \in State /\ Owned(P)
    BY <2>2, <2>3, <2>4, Addresses, PoolOk DEF Ok
  <2> HIDE DEF P
  <2>6. Ok(Write(P, n, c, m))
    BY <2>2, <2>5, WriteOk
  <2>7. r = <<Write(P, n, c, m), TRUE>>
    BY <2>1 DEF P, D
  <2> QED BY <2>6, <2>7
<1>4. a # Peer => r = <<S, FALSE>>
  BY DEF ConnectOnSend
<1>5. a = Peer => \/ \E T \in Fault(S) : r = <<T, FALSE>>
                  \/ \E c \in FreeConn(S) :
                       r = <<Write(Pool(Dial(S, n, c), n, Peer, c), n, c, m), TRUE>>
  BY DEF ConnectOnSend
<1> QED BY <1>1, <1>2, <1>3, <1>4, <1>5

LEMMA SendOk ==
  ASSUME NEW S \in State, dialers \in DialerSets, Owned(S),
         NEW n \in Node, NEW a \in Addr, NEW m \in Message
  PROVE  /\ \A r \in Send(S, n, a, m) : Ok(r[1]) /\ r[2] \in BOOLEAN
         /\ \A T \in Sent(S, n, a, m) : Ok(T)
<1>1. \A r \in Send(S, n, a, m) : Ok(r[1]) /\ r[2] \in BOOLEAN
  BY SendPooledOk, ConnectOnSendOk DEF Send
<1> QED BY <1>1 DEF Sent

PeerRecord == [addr : Addr, session : Handshake, msg2 : Handshake \cup {None}]

\* What is known of the peer.
LEMMA PeerFields ==
  ASSUME NEW S \in State, NEW n \in Node, IsPeer(S.node[n])
  PROVE  /\ S.node[n].peer \in PeerRecord
         /\ S.node[n].peer.msg2 \in Handshake \cup {None}
<1>1. S.node[n].peer \in PeerRecord
  BY DEF State, NodeState, IsPeer, PeerRecord
<1> QED BY <1>1 DEF PeerRecord

LEMMA MessageOf ==
  ASSUME NEW h \in Handshake, NEW t \in {"msg1", "msg2", "data"}
  PROVE  [type |-> t, h |-> h] \in Message
BY DEF Message

LEMMA SendDataOk ==
  ASSUME NEW S \in State, dialers \in DialerSets, Owned(S),
         NEW n \in Node, S.node[n].peer \in PeerRecord, NEW T \in SendData(S, n)
  PROVE  Ok(T)
<1>1. S.node[n].peer.addr \in Addr /\ S.node[n].peer.session \in Handshake
  BY DEF PeerRecord
<1>2. [type |-> "data", h |-> S.node[n].peer.session] \in Message
  BY <1>1, MessageOf
<1> QED BY <1>1, <1>2, SendOk DEF SendData

-----------------------------------------------------------------------------
(* What an action makes of the state it has worked on.                     *)

LEMMA NowOk ==
  ASSUME IndInv
  PROVE  /\ Now \in State /\ Owned(Now) /\ dialers \in DialerSets
         /\ Now.node = node /\ Now.wire = wire /\ Now.faults = faults
BY DEF IndInv, TypeOK, Now, State

\* The kernel's clean-up changes nothing about a connection in use but what is
\* on the way.
LEMMA TidyOk ==
  ASSUME NEW S \in State
  PROVE  /\ Tidy(S).wire \in [Conn -> Wire]
         /\ \A c \in Conn : InUse(S, c) => Tidy(S).wire[c].by = S.wire[c].by
<1> DEFINE kept(c, v) == [n \in Node |-> IF Reads(S, n, c) /\ ~ v.broken THEN v.to[n] ELSE <<>>]
           w(c) == IF ~ InUse(S, c) THEN NoWire
                   ELSE [S.wire[c] EXCEPT !.to = kept(c, S.wire[c])]
<1>1. <<>> \in Seq(Message)
  BY EmptySeq
<1>2. NoWire \in Wire
  BY <1>1, Nodes DEF NoWire, Wire
<1>3. ASSUME NEW c \in Conn, NEW v \in Wire
      PROVE  [v EXCEPT !.to = kept(c, v)] \in Wire /\ [v EXCEPT !.to = kept(c, v)].by = v.by
  <2>1. v.to \in [Node -> Seq(Message)]
    BY DEF Wire
  <2>2. kept(c, v) \in [Node -> Seq(Message)]
    BY <1>1, <2>1
  <2> HIDE DEF kept
  <2> QED BY <2>2 DEF Wire
<1>4. \A c \in Conn : S.wire[c] \in Wire
  BY DEF State
<1>5. Tidy(S).wire = [c \in Conn |-> w(c)]
  BY DEF Tidy, State
<1> HIDE DEF kept
<1>6. \A c \in Conn : w(c) \in Wire /\ (InUse(S, c) => w(c).by = S.wire[c].by)
  BY <1>2, <1>3, <1>4
<1> HIDE DEF w
<1> QED BY <1>5, <1>6

\* The invariant for a next state.
LEMMA NextOk ==
  ASSUME dialers \in DialerSets, NEW T \in State, Owned(T),
         node' = T.node, wire' = T.wire, faults' = T.faults, dialers' = dialers
  PROVE  IndInv'
<1>1. TypeOK'
  BY DEF TypeOK, State, NodeState
<1>2. Now'.node = T.node /\ Now'.wire = T.wire
  BY DEF Now
<1>3. Owned(Now)'
  BY <1>2 DEF Owned, OwnAddress, OwnEntry, OwnConnect, OwnBacklog, New, AddrOf
<1> QED BY <1>1, <1>3 DEF IndInv

LEMMA BecomeOk ==
  ASSUME dialers \in DialerSets, NEW S, Ok(S), Become(S)
  PROVE  IndInv'
<1> DEFINE T == [node |-> S.node, wire |-> Tidy(S).wire, faults |-> S.faults]
<1>1. S \in State /\ Owned(S)
  BY DEF Ok
<1>2. T \in State
  BY <1>1, TidyOk DEF State
<1>3. Owned(T)
  BY <1>1, <1>2, TidyOk, OwnedAlike
<1> QED BY <1>2, <1>3, NextOk DEF Become

-----------------------------------------------------------------------------
(* The node's other tables.                                                *)

\* Every table but pool, tasks and backlog may change, and no background
\* connect may appear.
LEMMA TablesOk ==
  ASSUME NEW S \in State, Owned(S), NEW n \in Node, NEW s \in NodeState,
         s.pool = S.node[n].pool, s.reader = S.node[n].reader,
         s.backlog \subseteq S.node[n].backlog,
         s.connecting = S.node[n].connecting \/ s.connecting \notin Conn
  PROVE  Ok(SetNode(S, n, s))
<1> DEFINE T == SetNode(S, n, s)
<1>1. /\ T \in State /\ T.node[n] = s /\ T.wire = S.wire
      /\ \A p \in Node \ {n} : T.node[p] = S.node[p]
  BY NodeSet
<1> HIDE DEF T
<1>2. \A p \in Node, d \in Conn : AddrOf(T, p, d) = AddrOf(S, p, d)
  BY <1>1 DEF AddrOf
<1>3. \A p \in Node : /\ S.node[p].pool \in [Addr -> Conn \cup {None}]
                      /\ S.node[p].backlog \subseteq Conn
                      /\ T.node[p].pool = S.node[p].pool
                      /\ T.node[p].reader = S.node[p].reader
                      /\ T.node[p].backlog \subseteq S.node[p].backlog
                      /\ T.node[p].connecting \in Conn
                           => T.node[p].connecting = S.node[p].connecting
  BY <1>1, StateFields
<1>4. OwnAddress(T)
  BY <1>2, <1>3 DEF Owned, OwnAddress
<1>5. OwnEntry(T)
  BY <1>2, <1>3 DEF Owned, OwnEntry
<1>6. OwnConnect(T)
  BY <1>2, <1>3 DEF Owned, OwnConnect, New
<1>7. OwnBacklog(T)
  BY <1>2, <1>3 DEF Owned, OwnBacklog, New
<1> QED BY <1>1, <1>4, <1>5, <1>6, <1>7 DEF Owned, Ok, T

\* The tables that the invariant is not about.
Pending == 0 .. MaxPending
Handshakes ==
  SUBSET [h : Handshake, resends : 0 .. MaxResends[Cardinality(dialers)], failed : BOOLEAN]

LEMMA PlainOk ==
  ASSUME NEW S \in State, Owned(S), NEW n \in Node
  PROVE  /\ \A x \in Seq(Addr \X Message) : Ok([S EXCEPT !.node[n].queue = x])
         /\ \A x \in Pending : Ok([S EXCEPT !.node[n].pending = x])
         /\ \A x \in Handshakes : Ok([S EXCEPT !.node[n].hs = x])
         /\ \A x \in PeerRecord \cup {None} : Ok([S EXCEPT !.node[n].peer = x])
         /\ \A x \in BOOLEAN : Ok([S EXCEPT !.node[n].retry = x])
         /\ \A x \in {None, Running, Failed} : Ok([S EXCEPT !.node[n].connecting = x])
         /\ \A x \in SUBSET S.node[n].backlog : Ok([S EXCEPT !.node[n].backlog = x])
<1> DEFINE s == S.node[n]
<1>0. s \in NodeState
  BY StateFields
<1> HIDE DEF s
<1>1. ASSUME NEW x \in Seq(Addr \X Message) PROVE Ok(SetNode(S, n, [s EXCEPT !.queue = x]))
  <2>1. /\ [s EXCEPT !.queue = x] \in NodeState
        /\ [s EXCEPT !.queue = x].pool = s.pool /\ [s EXCEPT !.queue = x].reader = s.reader
        /\ [s EXCEPT !.queue = x].backlog = s.backlog
        /\ [s EXCEPT !.queue = x].connecting = s.connecting
    BY <1>0 DEF NodeState
  <2> QED BY <2>1, TablesOk DEF s
<1>2. ASSUME NEW x \in Pending PROVE Ok(SetNode(S, n, [s EXCEPT !.pending = x]))
  <2>1. /\ [s EXCEPT !.pending = x] \in NodeState
        /\ [s EXCEPT !.pending = x].pool = s.pool /\ [s EXCEPT !.pending = x].reader = s.reader
        /\ [s EXCEPT !.pending = x].backlog = s.backlog
        /\ [s EXCEPT !.pending = x].connecting = s.connecting
    BY <1>0 DEF NodeState, Pending
  <2> QED BY <2>1, TablesOk DEF s
<1>3. ASSUME NEW x \in Handshakes PROVE Ok(SetNode(S, n, [s EXCEPT !.hs = x]))
  <2>1. /\ [s EXCEPT !.hs = x] \in NodeState
        /\ [s EXCEPT !.hs = x].pool = s.pool /\ [s EXCEPT !.hs = x].reader = s.reader
        /\ [s EXCEPT !.hs = x].backlog = s.backlog
        /\ [s EXCEPT !.hs = x].connecting = s.connecting
    BY <1>0 DEF NodeState, Handshakes
  <2> QED BY <2>1, TablesOk DEF s
<1>4. ASSUME NEW x \in PeerRecord \cup {None} PROVE Ok(SetNode(S, n, [s EXCEPT !.peer = x]))
  <2>1. /\ [s EXCEPT !.peer = x] \in NodeState
        /\ [s EXCEPT !.peer = x].pool = s.pool /\ [s EXCEPT !.peer = x].reader = s.reader
        /\ [s EXCEPT !.peer = x].backlog = s.backlog
        /\ [s EXCEPT !.peer = x].connecting = s.connecting
    BY <1>0 DEF NodeState, PeerRecord
  <2> QED BY <2>1, TablesOk DEF s
<1>5. ASSUME NEW x \in BOOLEAN PROVE Ok(SetNode(S, n, [s EXCEPT !.retry = x]))
  <2>1. /\ [s EXCEPT !.retry = x] \in NodeState
        /\ [s EXCEPT !.retry = x].pool = s.pool /\ [s EXCEPT !.retry = x].reader = s.reader
        /\ [s EXCEPT !.retry = x].backlog = s.backlog
        /\ [s EXCEPT !.retry = x].connecting = s.connecting
    BY <1>0 DEF NodeState
  <2> QED BY <2>1, TablesOk DEF s
<1>6. ASSUME NEW x \in {None, Running, Failed}
      PROVE  Ok(SetNode(S, n, [s EXCEPT !.connecting = x]))
  <2>1. /\ [s EXCEPT !.connecting = x] \in NodeState
        /\ [s EXCEPT !.connecting = x].pool = s.pool
        /\ [s EXCEPT !.connecting = x].reader = s.reader
        /\ [s EXCEPT !.connecting = x].backlog = s.backlog
        /\ [s EXCEPT !.connecting = x].connecting = x
    BY <1>0 DEF NodeState
  <2>2. x \notin Conn
    BY Addresses
  <2> QED BY <2>1, <2>2, TablesOk DEF s
<1>7. ASSUME NEW x \in SUBSET s.backlog PROVE Ok(SetNode(S, n, [s EXCEPT !.backlog = x]))
  <2>1. /\ [s EXCEPT !.backlog = x] \in NodeState
        /\ [s EXCEPT !.backlog = x].pool = s.pool /\ [s EXCEPT !.backlog = x].reader = s.reader
        /\ [s EXCEPT !.backlog = x].backlog = x
        /\ [s EXCEPT !.backlog = x].connecting = s.connecting
    BY <1>0 DEF NodeState
  <2> QED BY <2>1, TablesOk DEF s
<1> QED BY <1>1, <1>2, <1>3, <1>4, <1>5, <1>6, <1>7 DEF SetNode, s

\* A background connect ends with a new connection.
LEMMA ConnectedOk ==
  ASSUME NEW S \in State, Owned(S), NEW n \in Node, NEW c \in Conn, New(S, n, c, Peer)
  PROVE  Ok([S EXCEPT !.node[n].connecting = c])
<1> DEFINE s == S.node[n]
           u == [s EXCEPT !.connecting = c]
           T == SetNode(S, n, u)
<1>1. s \in NodeState
  BY StateFields
<1>2. /\ u \in NodeState /\ u.connecting = c
      /\ u.pool = s.pool /\ u.reader = s.reader /\ u.backlog = s.backlog
  BY <1>1 DEF NodeState
<1>3. [S EXCEPT !.node[n].connecting = c] = T
  BY DEF SetNode
<1> HIDE DEF u, T
<1>4. /\ T \in State /\ T.node[n] = u /\ T.wire = S.wire
      /\ \A p \in Node \ {n} : T.node[p] = S.node[p]
  BY <1>2, NodeSet DEF T
<1>5. \A p \in Node, d \in Conn : AddrOf(T, p, d) = AddrOf(S, p, d)
  BY <1>4 DEF AddrOf
<1>6. \A p \in Node : /\ S.node[p].pool \in [Addr -> Conn \cup {None}]
                      /\ S.node[p].backlog \subseteq Conn
                      /\ T.node[p].pool = S.node[p].pool
                      /\ T.node[p].reader = S.node[p].reader
                      /\ T.node[p].backlog = S.node[p].backlog
  BY <1>2, <1>4, StateFields
<1>7. OwnAddress(T)
  BY <1>5, <1>6 DEF Owned, OwnAddress
<1>8. OwnEntry(T)
  BY <1>5, <1>6 DEF Owned, OwnEntry
<1>9. OwnConnect(T)
  BY <1>2, <1>4, <1>5, <1>6 DEF Owned, OwnConnect, New
<1>10. OwnBacklog(T)
  BY <1>5, <1>6 DEF Owned, OwnBacklog, New
<1> QED BY <1>3, <1>4, <1>7, <1>8, <1>9, <1>10 DEF Owned, Ok

\* A connection on its way into the pool is in one table only, and the pool
\* has nothing at its address that it would replace.
LEMMA NewApart ==
  ASSUME NEW S \in State, Owned(S), NEW n \in Node
  PROVE  /\ S.node[n].connecting \in Conn => S.node[n].connecting \notin S.node[n].backlog
         /\ \A c \in S.node[n].backlog : S.node[n].pool[c] = None
<1>1. /\ S.node[n].pool \in [Addr -> Conn \cup {None}] /\ S.node[n].backlog \subseteq Conn
  BY StateFields
<1>2. S.node[n].connecting \in Conn => S.node[n].connecting \notin S.node[n].backlog
  BY Addresses DEF Owned, OwnConnect, OwnBacklog, New
<1>3. ASSUME NEW c \in S.node[n].backlog, S.node[n].pool[c] # None PROVE FALSE
  <2>1. PICK d \in Conn : d = S.node[n].pool[c] /\ c \in Conn /\ c \in Addr
    BY <1>1, <1>3, Addresses
  <2>2. c = AddrOf(S, n, d) /\ d # c
    BY <1>3, <2>1 DEF Owned, OwnAddress, OwnBacklog, New
  <2>3. AddrOf(S, n, d) \in {Peer, d}
    BY AddressOf
  <2> QED BY <2>1, <2>2, <2>3, Addresses
<1> QED BY <1>2, <1>3

LEMMA PromotedOk ==
  ASSUME NEW S \in State, dialers \in DialerSets, Owned(S), NEW n \in Node,
         NEW T \in Promoted(S, n)
  PROVE  Ok(T)
<1> DEFINE c == S.node[n].connecting
           idle == [S EXCEPT !.node[n].connecting = None]
<1>1. Ok(idle) /\ Ok(S)
  BY PlainOk DEF Ok
<1>2. \/ T = S \/ T = idle
      \/ /\ S.node[n].pool[Peer] = None /\ c \in Conn
         /\ T \in Fault(idle) \cup Pooled(idle, n, Peer, c)
  BY DEF Promoted
<1>3. ASSUME S.node[n].pool[Peer] = None, c \in Conn, T \in Fault(idle) PROVE Ok(T)
  BY <1>1, <1>3, FaultOk DEF Ok
<1>4. ASSUME S.node[n].pool[Peer] = None, c \in Conn, T \in Pooled(idle, n, Peer, c)
      PROVE  Ok(T)
  <2>1. /\ idle.node[n].pool = S.node[n].pool /\ idle.node[n].reader = S.node[n].reader
        /\ idle.node[n].backlog = S.node[n].backlog
        /\ idle.node[n].connecting = None /\ idle.wire = S.wire
    <3> DEFINE b == [S.node[n] EXCEPT !.connecting = None]
    <3>1. S.node[n] \in NodeState
      BY StateFields
    <3>2. /\ b \in NodeState
          /\ b.pool = S.node[n].pool /\ b.reader = S.node[n].reader
          /\ b.backlog = S.node[n].backlog /\ b.connecting = None
      BY <3>1 DEF NodeState
    <3>3. idle = SetNode(S, n, b)
      BY DEF SetNode
    <3> HIDE DEF b, idle
    <3>4. idle.node[n] = b /\ idle.wire = S.wire
      BY <3>2, <3>3, NodeSet
    <3> QED BY <3>2, <3>4
  <2>2. New(S, n, c, Peer)
    BY <1>4 DEF Owned, OwnConnect
  <2>3. c # None /\ c \notin S.node[n].backlog
    BY <1>4, Addresses, NewApart
  <2> HIDE DEF idle, c
  <2>4. New(idle, n, c, Peer)
    BY <2>1, <2>2 DEF New, AddrOf
  <2> QED BY <1>1, <1>4, <2>1, <2>3, <2>4, Addresses, PooledOk DEF Ok
<1> QED BY <1>1, <1>2, <1>3, <1>4

LEMMA StartHandshakeOk ==
  ASSUME NEW S \in State, dialers \in DialerSets, Owned(S), NEW n \in Node,
         NEW T \in StartHandshake(S, n)
  PROVE  Ok(T)
<1>1. PICK t \in FreeTry(S, n) :
        \E r \in Send(S, n, Peer, [type |-> "msg1", h |-> <<n, t>>]) :
          T = [r[1] EXCEPT !.node[n].hs =
                 @ \cup {[h |-> <<n, t>>, resends |-> 0, failed |-> ~ r[2]]}]
  BY DEF StartHandshake
<1>2. t \in Try /\ <<n, t>> \in Handshake
  BY DEF FreeTry, Least, Handshake
<1>3. [type |-> "msg1", h |-> <<n, t>>] \in Message
  BY <1>2, MessageOf
<1>4. PICK r \in Send(S, n, Peer, [type |-> "msg1", h |-> <<n, t>>]) :
        T = [r[1] EXCEPT !.node[n].hs =
               @ \cup {[h |-> <<n, t>>, resends |-> 0, failed |-> ~ r[2]]}]
  BY <1>1
<1>5. Ok(r[1]) /\ r[2] \in BOOLEAN
  BY <1>3, Addresses, SendOk
<1> DEFINE U == r[1]
           k == [h |-> <<n, t>>, resends |-> 0, failed |-> ~ r[2]]
<1>6. U.node[n].hs \in Handshakes
  BY <1>5 DEF Ok, State, NodeState, Handshakes
<1>7. k \in [h : Handshake, resends : 0 .. MaxResends[Cardinality(dialers)], failed : BOOLEAN]
  BY <1>2, <1>5, Limits
<1>8. T = [U EXCEPT !.node[n].hs = U.node[n].hs \cup {k}]
  BY <1>4
<1> HIDE DEF U, k
<1>9. U.node[n].hs \cup {k} \in Handshakes
  BY <1>6, <1>7 DEF Handshakes
<1> QED BY <1>5, <1>8, <1>9, PlainOk DEF Ok, U

-----------------------------------------------------------------------------
(* The actions of the loop.                                                *)

LEMMA ProcessRetryInv ==
  ASSUME IndInv, NEW n \in Node, ProcessRetry(n)
  PROVE  IndInv'
<1> DEFINE s == node[n]
<1>1. /\ Now \in State /\ Owned(Now) /\ dialers \in DialerSets
      /\ Now.node = node /\ Now.wire = wire /\ Now.faults = faults
  BY NowOk
<1>2. s \in NodeState
  BY <1>1, StateFields
<1>3. CASE IsPeer(s)
  <2> DEFINE T == [Now EXCEPT !.node[n].retry = FALSE]
  <2>1. T \in State /\ Owned(T)
    BY <1>1, PlainOk DEF Ok
  <2>2. T.node = [node EXCEPT ![n].retry = FALSE] /\ T.wire = wire /\ T.faults = faults
    BY DEF Now
  <2> HIDE DEF T
  <2> QED BY <1>1, <1>3, <2>1, <2>2, NextOk DEF ProcessRetry
<1>4. CASE ~IsPeer(s)
  <2> DEFINE x == IF s.pool[Peer] = None /\ s.connecting = None THEN Running ELSE s.connecting
             U == [Now EXCEPT !.node[n].connecting = x]
             T == [U EXCEPT !.node[n].pending = s.pending + 1]
  <2>1. s.pending + 1 \in Pending
    BY <1>2, <1>4, StreamAssumption DEF ProcessRetry, NodeState, Pending
  <2>2. U \in State /\ Owned(U)
    <3>1. CASE x = Running
      BY <1>1, <3>1, PlainOk DEF Ok
    <3>2. CASE x = s.connecting
      <4>1. [Now.node[n] EXCEPT !.connecting = s.connecting] = Now.node[n]
        BY <1>1, <1>2 DEF NodeState
      <4>2. [Now.node EXCEPT ![n] = Now.node[n]] = Now.node
        BY <1>1 DEF State
      <4>3. U = [Now EXCEPT !.node = Now.node]
        BY <3>2, <4>1, <4>2
      <4>4. U = Now
        BY <4>3 DEF Now
      <4> QED BY <1>1, <4>4
    <3> QED BY <3>1, <3>2
  <2> HIDE DEF x
  <2>3. T.node = [node EXCEPT ![n] = [[s EXCEPT !.connecting = x] EXCEPT !.pending = s.pending + 1]]
        /\ T.wire = wire /\ T.faults = faults
    BY <1>1, <1>2 DEF Now, State
  <2>4. InitiateConnection(s) = [[s EXCEPT !.connecting = x] EXCEPT !.pending = s.pending + 1]
    BY DEF InitiateConnection, x
  <2>5. T \in State /\ Owned(T)
    <3> HIDE DEF U
    <3> QED BY <2>1, <2>2, PlainOk DEF Ok
  <2> HIDE DEF T
  <2> QED BY <1>1, <1>4, <2>3, <2>4, <2>5, NextOk DEF ProcessRetry
<1> QED BY <1>3, <1>4

LEMMA PollPendingConnectsInv ==
  ASSUME IndInv, NEW n \in Node, PollPendingConnects(n)
  PROVE  IndInv'
<1> DEFINE s == node[n]
<1>1. Now \in State /\ Owned(Now) /\ dialers \in DialerSets
  BY NowOk
<1>2. PICK P \in Promoted(Now, n) :
        LET S == [P EXCEPT !.node[n].pending = 0]
            Once == StartHandshake(S, n)
        IN  IF ConnectionState(s) = "connected"
            THEN \E T \in IF s.pending = 1 THEN Once
                           ELSE UNION {StartHandshake(U, n) : U \in Once} : Become(T)
            ELSE Become([S EXCEPT !.node[n].retry = @ \/ (n \in dialers /\ ~ IsPeer(s))])
  BY DEF PollPendingConnects
<1> DEFINE S == [P EXCEPT !.node[n].pending = 0]
<1>3. Ok(P)
  BY <1>1, PromotedOk
<1>4. 0 \in Pending
  BY StreamAssumption DEF Pending
<1>5. Ok(S)
  BY <1>3, <1>4, PlainOk DEF Ok
<1>6. \/ \E T \in StartHandshake(S, n) : Become(T)
      \/ \E U \in StartHandshake(S, n) : \E T \in StartHandshake(U, n) : Become(T)
      \/ Become([S EXCEPT !.node[n].retry = S.node[n].retry \/ (n \in dialers /\ ~ IsPeer(s))])
  BY <1>2
<1> HIDE DEF S
<1>7. CASE \E T \in StartHandshake(S, n) : Become(T)
  BY <1>1, <1>5, <1>7, StartHandshakeOk, BecomeOk DEF Ok
<1>8. CASE \E U \in StartHandshake(S, n) : \E T \in StartHandshake(U, n) : Become(T)
  <2>1. PICK U \in StartHandshake(S, n) : \E T \in StartHandshake(U, n) : Become(T)
    BY <1>8
  <2>2. U \in State /\ Owned(U)
    BY <1>1, <1>5, StartHandshakeOk DEF Ok
  <2> QED BY <1>1, <2>1, <2>2, StartHandshakeOk, BecomeOk
<1>9. CASE Become([S EXCEPT !.node[n].retry = S.node[n].retry \/ (n \in dialers /\ ~ IsPeer(s))])
  <2>1. PICK x \in BOOLEAN : x = (S.node[n].retry \/ (n \in dialers /\ ~ IsPeer(s)))
    OBVIOUS
  <2>2. Ok([S EXCEPT !.node[n].retry = x])
    BY <1>5, PlainOk DEF Ok
  <2> QED BY <1>1, <1>9, <2>1, <2>2, BecomeOk
<1> QED BY <1>6, <1>7, <1>8, <1>9

LEMMA HeartbeatInv ==
  ASSUME IndInv, NEW n \in Node, Heartbeat(n)
  PROVE  IndInv'
<1>1. Now \in State /\ Owned(Now) /\ dialers \in DialerSets /\ Now.node = node
  BY NowOk
<1>2. Now.node[n].peer \in PeerRecord
  BY <1>1, PeerFields DEF Heartbeat
<1> QED BY <1>1, <1>2, SendDataOk, BecomeOk DEF Heartbeat

LEMMA ResendInv ==
  ASSUME IndInv, NEW n \in Node, Resend(n)
  PROVE  IndInv'
<1>1. Now \in State /\ Owned(Now) /\ dialers \in DialerSets /\ Now.node = node
  BY NowOk
<1>2. PICK c \in node[n].hs :
        /\ c.resends < MaxResends[Cardinality(dialers)]
        /\ \E T \in Sent(Now, n, Peer, [type |-> "msg1", h |-> c.h]) :
             Become([T EXCEPT !.node[n].hs = (@ \ {c}) \cup {[c EXCEPT !.resends = @ + 1]}])
  BY DEF Resend
<1>3. c \in [h : Handshake, resends : 0 .. MaxResends[Cardinality(dialers)], failed : BOOLEAN]
  BY <1>1, StateFields DEF NodeState
<1>4. [type |-> "msg1", h |-> c.h] \in Message
  BY <1>3, MessageOf
<1>5. PICK T \in Sent(Now, n, Peer, [type |-> "msg1", h |-> c.h]) :
        Become([T EXCEPT !.node[n].hs =
                  (T.node[n].hs \ {c}) \cup {[c EXCEPT !.resends = c.resends + 1]}])
  BY <1>2
<1>6. Ok(T)
  BY <1>1, <1>4, Addresses, SendOk
<1> DEFINE d == [c EXCEPT !.resends = c.resends + 1]
<1>7. d \in [h : Handshake, resends : 0 .. MaxResends[Cardinality(dialers)], failed : BOOLEAN]
  BY <1>1, <1>2, <1>3, Limits
<1>8. T.node[n].hs \in Handshakes
  BY <1>6 DEF Ok, State, NodeState, Handshakes
<1> HIDE DEF d
<1>9. (T.node[n].hs \ {c}) \cup {d} \in Handshakes
  BY <1>7, <1>8 DEF Handshakes
<1>10. Ok([T EXCEPT !.node[n].hs = (T.node[n].hs \ {c}) \cup {d}])
  BY <1>6, <1>9, PlainOk DEF Ok
<1> QED BY <1>1, <1>5, <1>10, BecomeOk DEF d

LEMMA CheckTimeoutInv ==
  ASSUME IndInv, NEW n \in Node, CheckTimeout(n)
  PROVE  IndInv'
<1>1. Now \in State /\ Owned(Now) /\ dialers \in DialerSets /\ Now.node = node
  BY NowOk
<1>2. PICK c \in node[n].hs :
        Become([Now EXCEPT !.node[n].hs = @ \ {c},
                           !.node[n].retry = @ \/ (n \in dialers /\ ~ IsPeer(node[n]))])
  BY DEF CheckTimeout
<1> DEFINE x == Now.node[n].hs \ {c}
           U == [Now EXCEPT !.node[n].hs = x]
<1>3. x \in Handshakes
  BY <1>1, StateFields DEF NodeState, Handshakes
<1>4. PICK b \in BOOLEAN : b = (Now.node[n].retry \/ (n \in dialers /\ ~ IsPeer(node[n])))
  OBVIOUS
<1>5. Become([U EXCEPT !.node[n].retry = b])
  BY <1>2, <1>4
<1> HIDE DEF x
<1>6. Ok(U)
  BY <1>1, <1>3, PlainOk
<1> HIDE DEF U
<1>7. Ok([U EXCEPT !.node[n].retry = b])
  BY <1>6, PlainOk DEF Ok
<1> QED BY <1>1, <1>5, <1>7, BecomeOk

LEMMA LinkDeadInv ==
  ASSUME IndInv, NEW n \in Node, LinkDead(n)
  PROVE  IndInv'
<1>1. Now \in State /\ Owned(Now) /\ dialers \in DialerSets
  BY NowOk
<1> DEFINE U == [Now EXCEPT !.node[n].peer = None]
<1>2. PICK b \in BOOLEAN : b = (Now.node[n].retry \/ n \in dialers)
  OBVIOUS
<1>3. Become([U EXCEPT !.node[n].retry = b])
  BY <1>2 DEF LinkDead
<1>4. Ok(U)
  BY <1>1, PlainOk
<1> HIDE DEF U
<1>5. Ok([U EXCEPT !.node[n].retry = b])
  BY <1>4, PlainOk DEF Ok
<1> QED BY <1>1, <1>3, <1>5, BecomeOk

\* The peer after one of the node's tables was replaced.
LEMMA PeerSet ==
  ASSUME NEW S \in State, NEW n \in Node
  PROVE  /\ \A x \in Handshakes : [S EXCEPT !.node[n].hs = x].node[n].peer = S.node[n].peer
         /\ \A x \in PeerRecord \cup {None} : [S EXCEPT !.node[n].peer = x].node[n].peer = x
         /\ \A x \in BOOLEAN : [S EXCEPT !.node[n].retry = x].node[n].peer = S.node[n].peer
<1>1. S.node[n] \in NodeState
  BY StateFields
<1>2. /\ \A x \in Handshakes : [S.node[n] EXCEPT !.hs = x].peer = S.node[n].peer
      /\ \A x \in PeerRecord \cup {None} : [S.node[n] EXCEPT !.peer = x].peer = x
      /\ \A x \in BOOLEAN : [S.node[n] EXCEPT !.retry = x].peer = S.node[n].peer
  BY <1>1 DEF NodeState
<1>3. \A s : [S EXCEPT !.node = [S.node EXCEPT ![n] = s]].node[n] = s
  BY DEF State
<1> QED BY <1>2, <1>3

LEMMA HandleMsg1Ok ==
  ASSUME NEW S \in State, dialers \in DialerSets, Owned(S), NEW n \in Node,
         NEW a \in Addr, NEW h \in Handshake, NEW T \in HandleMsg1(S, n, a, h)
  PROVE  Ok(T)
<1> DEFINE s == S.node[n]
           m == [type |-> "msg2", h |-> h]
           new == [addr |-> a, session |-> h, msg2 |-> h]
<1>1. CASE IsPeer(s)
  <2>1. CASE s.peer.msg2 = None
    BY <1>1, <2>1 DEF HandleMsg1, Ok
  <2>2. CASE s.peer.msg2 # None
    <3>1. s.peer.msg2 \in Handshake
      BY <1>1, <2>2, PeerFields
    <3>2. [type |-> "msg2", h |-> s.peer.msg2] \in Message
      BY <3>1, MessageOf
    <3> QED BY <1>1, <2>2, <3>2, SendOk DEF HandleMsg1
  <2> QED BY <2>1, <2>2
<1>2. CASE ~IsPeer(s)
  <2>1. PICK r \in Send(S, n, a, m) :
          LET U == IF r[2] THEN [r[1] EXCEPT !.node[n].peer = new, !.node[n].retry = FALSE]
                   ELSE r[1]
          IN  T \in IF IsPeer(U.node[n]) THEN SendData(U, n) ELSE {U}
    BY ZenonT(60), <1>2 DEF HandleMsg1
  <2> DEFINE V == [r[1] EXCEPT !.node[n].peer = new]
             U == IF r[2] THEN [V EXCEPT !.node[n].retry = FALSE] ELSE r[1]
  <2>2. m \in Message
    BY MessageOf
  <2>3. Ok(r[1])
    BY <2>2, SendOk
  <2>4. new \in PeerRecord
    BY DEF PeerRecord
  <2>5. T \in IF IsPeer(U.node[n]) THEN SendData(U, n) ELSE {U}
    BY <2>1
  <2> HIDE DEF new
  <2>6. Ok(V)
    BY <2>3, <2>4, PlainOk DEF Ok
  <2> HIDE DEF V
  <2>7. Ok(U)
    BY <2>3, <2>6, PlainOk DEF Ok
  <2> HIDE DEF U
  <2> QED BY <2>5, <2>7, PeerFields, SendDataOk DEF Ok
<1> QED BY <1>1, <1>2

LEMMA HandleMsg2Ok ==
  ASSUME NEW S \in State, dialers \in DialerSets, Owned(S), NEW n \in Node,
         NEW h \in Handshake, NEW T \in HandleMsg2(S, n, h)
  PROVE  Ok(T)
<1> DEFINE s == S.node[n]
           rest == {c \in s.hs : c.h # h}
           done == [S EXCEPT !.node[n].hs = rest]
           held == [done.node[n].peer EXCEPT !.session = h]
           new == [addr |-> Peer, session |-> h, msg2 |-> None]
           swapped == IF OurOutboundWins(n) THEN [done EXCEPT !.node[n].peer = held] ELSE done
           fresh == [done EXCEPT !.node[n].peer = new]
           promoted == [fresh EXCEPT !.node[n].retry = FALSE]
<1>1. \/ T = S
      \/ IsPeer(s) /\ T \in SendData(CloseConnection(swapped, n, Peer), n)
      \/ T \in SendData(promoted, n)
  BY DEF HandleMsg2
<1>2. rest \in Handshakes
  BY StateFields DEF NodeState, Handshakes
<1>3. new \in PeerRecord
  BY Addresses DEF PeerRecord
<1> HIDE DEF rest, new
<1>4. Ok(done) /\ done.node[n].peer = s.peer
  BY <1>2, PlainOk, PeerSet
<1> HIDE DEF done
<1>5. ASSUME IsPeer(s), T \in SendData(CloseConnection(swapped, n, Peer), n) PROVE Ok(T)
  <2>1. s.peer \in PeerRecord
    BY <1>5, PeerFields
  <2>2. held \in PeerRecord
    BY <1>4, <2>1 DEF PeerRecord
  <2> HIDE DEF held
  <2>3. Ok(swapped) /\ swapped.node[n].peer \in PeerRecord
    BY <1>4, <2>1, <2>2, PlainOk, PeerSet DEF Ok
  <2> HIDE DEF swapped
  <2>4. /\ Ok(CloseConnection(swapped, n, Peer))
        /\ CloseConnection(swapped, n, Peer).node[n].peer \in PeerRecord
    BY <2>3, Addresses, DropEntryOk DEF Ok, CloseConnection
  <2> QED BY <1>5, <2>4, SendDataOk DEF Ok
<1>6. ASSUME T \in SendData(promoted, n) PROVE Ok(T)
  <2>1. Ok(fresh) /\ fresh.node[n].peer = new
    BY <1>3, <1>4, PlainOk, PeerSet DEF Ok
  <2> HIDE DEF fresh
  <2>2. Ok(promoted) /\ promoted.node[n].peer = new
    BY <2>1, PlainOk, PeerSet DEF Ok
  <2> HIDE DEF promoted
  <2> QED BY <1>3, <1>6, <2>2, SendDataOk DEF Ok
<1> QED BY <1>1, <1>5, <1>6 DEF Ok

LEMMA HandleDataOk ==
  ASSUME NEW S \in State, Owned(S), NEW n \in Node, NEW a \in Addr,
         NEW h \in Handshake, NEW T \in HandleData(S, n, a, h)
  PROVE  Ok(T)
<1>1. CASE T = S
  BY <1>1 DEF Ok
<1>2. CASE IsPeer(S.node[n]) /\ T = [S EXCEPT !.node[n].peer.addr = a]
  <2> DEFINE q == [S.node[n].peer EXCEPT !.addr = a]
  <2>1. q \in PeerRecord
    BY <1>2, PeerFields DEF PeerRecord
  <2>2. T = [S EXCEPT !.node[n].peer = q]
    BY <1>2
  <2> HIDE DEF q
  <2> QED BY <2>1, <2>2, PlainOk
<1> QED BY <1>1, <1>2 DEF HandleData

LEMMA ProcessPacketInv ==
  ASSUME IndInv, NEW n \in Node, ProcessPacket(n)
  PROVE  IndInv'
<1> DEFINE q == node[n].queue
           S == [Now EXCEPT !.node[n].queue = Tail(q)]
           a == Head(q)[1]
           m == Head(q)[2]
<1>1. Now \in State /\ Owned(Now) /\ dialers \in DialerSets /\ Now.node = node
  BY NowOk
<1>2. q \in Seq(Addr \X Message) /\ q # <<>>
  BY <1>1, StateFields DEF NodeState, ProcessPacket
<1>3. Tail(q) \in Seq(Addr \X Message) /\ Head(q) \in Addr \X Message
  BY <1>2, HeadTailProperties
<1>4. a \in Addr /\ m \in Message
  BY <1>3
<1>5. m.type \in {"msg1", "msg2", "data"} /\ m.h \in Handshake
  BY <1>4 DEF Message
<1>6. S = [Now EXCEPT !.node[n].queue = Tail(Now.node[n].queue)]
  BY <1>1
<1>7. \E T : /\ \/ T \in HandleMsg1(S, n, a, m.h)
                \/ T \in HandleMsg2(S, n, m.h)
                \/ T \in HandleData(S, n, a, m.h)
             /\ Become(T)
  <2>1. \E T \in CASE m.type = "msg1" -> HandleMsg1(S, n, a, m.h)
                  [] m.type = "msg2" -> HandleMsg2(S, n, m.h)
                  [] OTHER -> HandleData(S, n, a, m.h) : Become(T)
    BY <1>6 DEF ProcessPacket
  <2> HIDE DEF S, a, m
  <2> QED BY <1>5, <2>1
<1> HIDE DEF a, m
<1>8. Ok(S)
  BY <1>1, <1>3, PlainOk
<1> HIDE DEF S
<1> QED BY <1>1, <1>4, <1>5, <1>7, <1>8, HandleMsg1Ok, HandleMsg2Ok, HandleDataOk, BecomeOk DEF Ok

-----------------------------------------------------------------------------
(* The tasks of the transport.                                             *)

LEMMA ConnectTaskInv ==
  ASSUME IndInv, NEW n \in Node, ConnectTask(n)
  PROVE  IndInv'
<1>1. Now \in State /\ Owned(Now) /\ dialers \in DialerSets /\ Now.node = node
  BY NowOk
<1>2. CASE \E c \in FreeConn(Now) : Become([Dial(Now, n, c) EXCEPT !.node[n].connecting = c])
  <2>1. PICK c \in FreeConn(Now) : Become([Dial(Now, n, c) EXCEPT !.node[n].connecting = c])
    BY <1>2
  <2> DEFINE D == Dial(Now, n, c)
  <2>2. /\ D \in State /\ Owned(D) /\ D.wire[c].by = n /\ D.node[n] = Now.node[n]
        /\ c \in Conn /\ ~InUse(Now, c)
    BY <1>1, DialOk DEF Ok
  <2> HIDE DEF D
  <2>3. D.node[n].reader[c] = "none" /\ D.node[n].pool[Peer] # c
    BY <2>2, Addresses DEF InUse, Holds
  <2>4. New(D, n, c, Peer)
    BY <2>2, <2>3, AddressOf DEF New
  <2>5. Ok([D EXCEPT !.node[n].connecting = c])
    BY <2>2, <2>4, ConnectedOk
  <2> QED BY <1>1, <2>1, <2>5, BecomeOk DEF D
<1>3. CASE \E S \in Fault(Now) : Become([S EXCEPT !.node[n].connecting = Failed])
  <2>1. PICK S \in Fault(Now) : Become([S EXCEPT !.node[n].connecting = Failed])
    BY <1>3
  <2>2. S \in State /\ Owned(S)
    BY <1>1, FaultOk DEF Ok
  <2>3. Ok([S EXCEPT !.node[n].connecting = Failed])
    BY <2>2, PlainOk
  <2> QED BY <1>1, <2>1, <2>3, BecomeOk
<1> QED BY <1>2, <1>3 DEF ConnectTask

LEMMA AcceptInv ==
  ASSUME IndInv, NEW n \in Node, NEW c \in Conn, Accept(n, c)
  PROVE  IndInv'
<1> DEFINE S == [Now EXCEPT !.node[n].backlog = Now.node[n].backlog \ {c}]
<1>1. Now \in State /\ Owned(Now) /\ dialers \in DialerSets /\ Now.node = node
  BY NowOk
<1>2. c \in Now.node[n].backlog /\ \E T \in {S} \cup Pooled(S, n, c, c) : Become(T)
  BY <1>1 DEF Accept
<1>3. Ok(S)
  BY <1>1, PlainOk
<1>4. /\ S.node[n].pool = Now.node[n].pool /\ S.node[n].reader = Now.node[n].reader
      /\ S.node[n].backlog = Now.node[n].backlog \ {c}
      /\ S.node[n].connecting = Now.node[n].connecting /\ S.wire = Now.wire
  <2>1. Now.node[n] \in NodeState
    BY <1>1, StateFields
  <2> DEFINE b == [Now.node[n] EXCEPT !.backlog = Now.node[n].backlog \ {c}]
  <2>2. /\ b \in NodeState /\ b.backlog = Now.node[n].backlog \ {c}
        /\ b.pool = Now.node[n].pool /\ b.reader = Now.node[n].reader
        /\ b.connecting = Now.node[n].connecting
    BY <2>1 DEF NodeState
  <2>3. S = SetNode(Now, n, b)
    BY DEF SetNode
  <2> HIDE DEF b, S
  <2>4. S.node[n] = b /\ S.wire = Now.wire
    BY <1>1, <2>2, <2>3, NodeSet
  <2> QED BY <2>2, <2>4
<1> HIDE DEF S
<1>5. New(Now, n, c, c) /\ Now.node[n].pool[c] = None
  BY <1>1, <1>2, NewApart DEF Owned, OwnBacklog
<1>6. Now.node[n].connecting # c
  BY <1>1, <1>2, NewApart
<1>7. New(S, n, c, c)
  BY <1>4, <1>5 DEF New, AddrOf
<1>8. \A T \in Pooled(S, n, c, c) : Ok(T)
  <2>1. c \notin S.node[n].backlog /\ S.node[n].pool[c] = None /\ S.node[n].connecting # c
    BY <1>4, <1>5, <1>6
  <2> QED BY <1>1, <1>3, <1>7, <2>1, Addresses, PooledOk DEF Ok
<1> QED BY <1>1, <1>2, <1>3, <1>8, BecomeOk

LEMMA ReadPacketInv ==
  ASSUME IndInv, NEW n \in Node, NEW c \in Conn, ReadPacket(n, c)
  PROVE  IndInv'
<1> DEFINE v == wire[c]
           w == [v EXCEPT !.to = [v.to EXCEPT ![n] = Tail(v.to[n])]]
           S == SetWire(Now, c, w)
           e == <<AddrOf(Now, n, c), Head(v.to[n])>>
           T == [S EXCEPT !.node[n].queue = Append(node[n].queue, e)]
<1>1. /\ Now \in State /\ Owned(Now) /\ dialers \in DialerSets
      /\ Now.node = node /\ Now.wire = wire
  BY NowOk
<1>2. v \in Wire /\ v.to \in [Node -> Seq(Message)] /\ v.to[n] # <<>>
  BY <1>1, StateFields DEF Wire, ReadPacket
<1>3. Tail(v.to[n]) \in Seq(Message) /\ Head(v.to[n]) \in Message
  BY <1>2, HeadTailProperties
<1>4. w \in Wire /\ w.by = v.by
  <2>1. [v.to EXCEPT ![n] = Tail(v.to[n])] \in [Node -> Seq(Message)]
    BY <1>2, <1>3
  <2> QED BY <1>2, <2>1 DEF Wire
<1>5. e \in Addr \X Message
  BY <1>1, <1>3, AddressOf
<1>6. Append(node[n].queue, e) \in Seq(Addr \X Message)
  <2>1. node[n].queue \in Seq(Addr \X Message)
    BY <1>1, StateFields DEF NodeState
  <2> QED BY <1>5, <2>1, AppendProperties
<1>7. Become(T)
  <2>1. Become([Now EXCEPT !.wire[c].to[n] = Tail(Now.wire[c].to[n]),
                           !.node[n].queue = Append(Now.node[n].queue, e)])
    BY <1>1 DEF ReadPacket
  <2> QED BY <1>1, <2>1 DEF SetWire
<1> HIDE DEF w, e
<1>8. Ok(S)
  BY <1>1, <1>4, WireOk
<1> HIDE DEF S
<1>9. Ok(T)
  BY <1>6, <1>8, PlainOk DEF Ok
<1> QED BY <1>1, <1>7, <1>9, BecomeOk

LEMMA ReadEndsInv ==
  ASSUME IndInv, NEW n \in Node, NEW c \in Conn, ReadEnds(n, c)
  PROVE  IndInv'
<1> DEFINE s == node[n]
           u == [s EXCEPT !.reader = [s.reader EXCEPT ![c] = "ended"]]
           T == SetNode(Now, n, u)
<1>1. Now \in State /\ Owned(Now) /\ dialers \in DialerSets /\ Now.node = node
  BY NowOk
<1>2. /\ s \in NodeState /\ s.reader[c] = "reading"
      /\ s.reader \in [Conn -> {"none", "reading", "ended"}]
  BY <1>1, StateFields DEF ReadEnds
<1>3. /\ u \in NodeState /\ u.reader = [s.reader EXCEPT ![c] = "ended"]
      /\ u.pool = s.pool /\ u.backlog = s.backlog /\ u.connecting = s.connecting
  <2>1. [s.reader EXCEPT ![c] = "ended"] \in [Conn -> {"none", "reading", "ended"}]
    BY <1>2
  <2> QED BY <1>2, <2>1 DEF NodeState
<1>4. Become(T)
  BY <1>1 DEF ReadEnds, SetNode
<1> HIDE DEF u, T
<1>5. /\ T \in State /\ T.node[n] = u /\ T.wire = Now.wire
      /\ \A p \in Node \ {n} : T.node[p] = node[p]
  BY <1>1, <1>3, NodeSet DEF T
<1>6. \A p \in Node, d \in Conn : AddrOf(T, p, d) = AddrOf(Now, p, d)
  BY <1>5 DEF AddrOf
<1>7. \A p \in Node :
        /\ T.node[p].pool = Now.node[p].pool /\ T.node[p].backlog = Now.node[p].backlog
        /\ T.node[p].connecting = Now.node[p].connecting
        /\ \A d \in Conn : T.node[p].reader[d] = "none" <=> Now.node[p].reader[d] = "none"
        /\ Now.node[p].pool \in [Addr -> Conn \cup {None}]
        /\ Now.node[p].backlog \subseteq Conn
  <2>1. \A d \in Conn : u.reader[d] = "none" <=> s.reader[d] = "none"
    BY <1>2, <1>3
  <2> QED BY <1>1, <1>3, <1>5, <2>1, StateFields
<1>8. OwnAddress(T)
  BY <1>1, <1>6, <1>7 DEF Owned, OwnAddress
<1>9. OwnEntry(T)
  BY <1>1, <1>6, <1>7 DEF Owned, OwnEntry
<1>10. OwnConnect(T)
  BY <1>1, <1>6, <1>7 DEF Owned, OwnConnect, New
<1>11. OwnBacklog(T)
  BY <1>1, <1>6, <1>7 DEF Owned, OwnBacklog, New
<1>12. Ok(T)
  BY <1>5, <1>8, <1>9, <1>10, <1>11 DEF Ok, Owned
<1> QED BY <1>1, <1>4, <1>12, BecomeOk

\* The task that ends removes the entry at its address, and that is its own.
LEMMA RemoveItselfInv ==
  ASSUME IndInv, NEW n \in Node, NEW c \in Conn, RemoveItself(n, c)
  PROVE  IndInv'
<1> DEFINE s == node[n]
           a == AddrOf(Now, n, c)
           s1 == [s EXCEPT !.reader = [s.reader EXCEPT ![c] = "none"]]
           U == SetNode(Now, n, s1)
           s2 == [s1 EXCEPT !.pool = [s.pool EXCEPT ![a] = None]]
           T == SetNode(U, n, s2)
<1>1. Now \in State /\ Owned(Now) /\ dialers \in DialerSets /\ Now.node = node
  BY NowOk
<1>2. /\ s \in NodeState /\ s.reader[c] = "ended" /\ a \in Addr
      /\ s.pool \in [Addr -> Conn \cup {None}]
      /\ s.reader \in [Conn -> {"none", "reading", "ended"}]
  BY <1>1, StateFields, AddressOf DEF RemoveItself
<1>3. s.pool[a] = c
  BY <1>1, <1>2 DEF Owned, OwnEntry
<1>4. Become([Now EXCEPT !.node[n].reader[c] = "none", !.node[n].pool[a] = None])
  BY DEF RemoveItself
<1> HIDE DEF a
<1>5. /\ [s.pool EXCEPT ![a] = None] \in [Addr -> Conn \cup {None}]
      /\ [s.reader EXCEPT ![c] = "none"] \in [Conn -> {"none", "reading", "ended"}]
  BY <1>2
<1>6. s1 \in NodeState
  BY <1>2, <1>5, TableSet
<1>7. s2 \in NodeState
  BY <1>5, <1>6, TableSet
<1>8. /\ s1.pool = s.pool
      /\ s2.pool = [s.pool EXCEPT ![a] = None]
      /\ s2.reader = [s.reader EXCEPT ![c] = "none"]
      /\ s2.backlog = s.backlog /\ s2.connecting = s.connecting
  BY <1>2, <1>5 DEF NodeState
<1>9. [Now EXCEPT !.node[n].reader[c] = "none", !.node[n].pool[a] = None] =
        SetNode(U, n, [U.node[n] EXCEPT !.pool = [U.node[n].pool EXCEPT ![a] = None]])
  BY <1>1 DEF SetNode
<1> HIDE DEF s1, s2, U, T
<1>10. U \in State /\ U.node[n] = s1
       /\ U.wire = Now.wire /\ \A p \in Node \ {n} : U.node[p] = node[p]
  BY <1>1, <1>6, NodeSet DEF U
<1>11. Become(T)
  BY <1>4, <1>8, <1>9, <1>10 DEF T, s2
<1>12. T \in State /\ T.node[n] = s2 /\ T.wire = U.wire
       /\ \A p \in Node \ {n} : T.node[p] = U.node[p]
  BY <1>7, <1>10, NodeSet DEF T
<1>13. Owned(T)
  BY <1>1, <1>3, <1>8, <1>10, <1>12, RemoveOk DEF a
<1> QED BY <1>1, <1>11, <1>12, <1>13, BecomeOk DEF Ok

LEMMA BreakInv ==
  ASSUME IndInv, NEW c \in Conn, Break(c)
  PROVE  IndInv'
<1>1. Now \in State /\ Owned(Now) /\ dialers \in DialerSets
  BY NowOk
<1>2. PICK S \in Fault(Now) : Become([S EXCEPT !.wire[c].broken = TRUE])
  BY DEF Break
<1>3. S \in State /\ Owned(S)
  BY <1>1, FaultOk DEF Ok
<1>4. Ok([S EXCEPT !.wire[c].broken = TRUE])
  BY <1>3, BrokenOk
<1> QED BY <1>1, <1>2, <1>4, BecomeOk

-----------------------------------------------------------------------------
(* Theorems.                                                               *)

LEMMA InitIndInv == Init => IndInv
<1> SUFFICES ASSUME Init PROVE IndInv
  OBVIOUS
<1>1. \A n \in Node : Fresh(n) \in NodeState
  BY Addresses, EmptySeq, StreamAssumption DEF Fresh, NodeState
<1>2. NoWire \in Wire
  BY Nodes, EmptySeq DEF NoWire, Wire
<1>3. TypeOK
  BY <1>1, <1>2, Limits DEF Init, TypeOK
<1>4. \A n \in Node : /\ Now.node[n] = Fresh(n) /\ Fresh(n).backlog = {}
                      /\ Fresh(n).connecting \notin Conn
                      /\ \A a \in Addr : Fresh(n).pool[a] = None
                      /\ \A c \in Conn : Fresh(n).reader[c] = "none"
  BY Addresses DEF Init, Now, Fresh
<1>5. Owned(Now)
  BY <1>4 DEF Owned, OwnAddress, OwnEntry, OwnConnect, OwnBacklog
<1> QED BY <1>3, <1>5 DEF IndInv

LEMMA NextIndInv == IndInv /\ [Next]_vars => IndInv'
<1> SUFFICES ASSUME IndInv, [Next]_vars PROVE IndInv'
  OBVIOUS
<1>1. CASE UNCHANGED vars
  <2>1. Now \in State /\ Owned(Now) /\ dialers \in DialerSets
    BY NowOk
  <2> QED BY <1>1, <2>1, NowOk, NextOk DEF vars
<1>2. ASSUME NEW n \in Node, Task(n) PROVE IndInv'
  BY <1>2, ConnectTaskInv, AcceptInv, ReadPacketInv, ReadEndsInv, RemoveItselfInv DEF Task
<1>3. ASSUME NEW n \in Node, Loop(n) PROVE IndInv'
  BY <1>3, ProcessPacketInv, PollPendingConnectsInv, ProcessRetryInv, HeartbeatInv,
     ResendInv, CheckTimeoutInv, LinkDeadInv DEF Loop
<1> QED BY <1>1, <1>2, <1>3, BreakInv DEF Next

\* Pool, receive tasks, backlog and background connect of either node agree on
\* whose each connection is, whatever the order of tasks and handlers.
THEOREM InductiveInvariant == Spec => []IndInv
BY InitIndInv, NextIndInv, PTL DEF Spec

\* The transport's and the node's tables keep their types, and no handshake is
\* sent more often than the limit (resend_pending_handshakes).
THEOREM TypeCorrect == Spec => []TypeOK
BY InductiveInvariant, PTL DEF IndInv

\* A receive task reads the connection that the pool has at its address
\* (tcp_receive_loop and its clean-up).
THEOREM TasksOwnTheirEntries == Spec => []ReaderOwnsEntry
<1>1. IndInv => ReaderOwnsEntry
  BY DEF IndInv, Owned, OwnEntry, ReaderOwnsEntry, Now
<1> QED BY <1>1, InductiveInvariant, PTL

\* The clean-up of a task that has ended takes away no connection but its own
\* (tcp_receive_loop): nobody reads a connection that it removes.
THEOREM CleanUpRemovesItself ==
  Spec => [][\A n \in Node, c \in Conn :
               RemoveItself(n, c) => node[n].pool[AddrOf(Now, n, c)] = c]_vars
<1>1. IndInv => \A n \in Node, c \in Conn :
                  RemoveItself(n, c) => node[n].pool[AddrOf(Now, n, c)] = c
  BY NowOk DEF Owned, OwnEntry, RemoveItself
<1> QED BY <1>1, InductiveInvariant, PTL

=============================================================================
