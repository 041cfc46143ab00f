--------------------------- MODULE StreamTransport ---------------------------
(***************************************************************************)
(* Two nodes that reach each other over the TCP transport: its connection  *)
(* pool, its background connects and its per-connection receive tasks,     *)
(* with the part of the node that drives them (pending_connects, the       *)
(* initial handshake, the peer's current address, the link timeout).       *)
(*                                                                         *)
(* A node knows the other by one configured address, written Peer; the     *)
(* address of an accepted connection is the number of the connection.  The *)
(* event loop, the tick, every receive task and the accept loop interleave *)
(* step by step.  A handshake is named by its initiator and a number, and  *)
(* so is the session it gives.  Rekeying is off (node.rekey.enabled) and   *)
(* no node restarts: PeerHandshake has both.  A refused connect, a broken  *)
(* connection and a race lost for the pool cost one of MaxFaults.          *)
(***************************************************************************)
EXTENDS Integers, Sequences, FiniteSets, SequencesExt

CONSTANTS
  Conn,         \* numbers of the connections
  Try,          \* numbers of a node's handshakes
  None,         \* Option::None
  Running, Failed, \* states of a background connect without a stream
  DialerSets,   \* which of the nodes have the other configured as a peer
  MaxInbound,   \* max_inbound_connections
  MaxResends,   \* node.rate_limit.handshake_max_resends, by the number of dialers
  MaxPending,   \* bound: pending connects of a node
  MaxFaults     \* bound, by the number of dialers: refused connects, broken
                \* connections, lost races

ASSUME StreamAssumption ==
  /\ Conn \subseteq Nat /\ Try \subseteq Nat /\ {0, None, Running, Failed} \cap Conn = {}
  /\ DialerSets \subseteq SUBSET (1 .. 2)
  /\ {MaxInbound, MaxPending} \subseteq Nat \ {0}
  /\ {MaxResends, MaxFaults} \subseteq [0 .. 2 -> Nat]

VARIABLES
  dialers, \* the nodes that have the other in their configuration
  node,    \* node[n]: the tables of n
  wire,    \* wire[c]: connection c between the two sockets
  faults   \* faults so far

vars == <<dialers, node, wire, faults>>

Node == 1 .. 2
Other(n) == 3 - n
Peer == 0
Addr == {Peer} \cup Conn
Handshake == Node \X Try
Message == [type : {"msg1", "msg2", "data"}, h : Handshake]

NodeState == [
  \* the transport
  pool       : [Addr -> Conn \cup {None}],                 \* addr -> connection
  reader     : [Conn -> {"none", "reading", "ended"}],     \* tcp_receive_loop
  backlog    : SUBSET Conn,                                \* not accepted yet
  connecting : {None, Running, Failed} \cup Conn,    \* task to Peer
  \* the node
  queue      : Seq(Addr \X Message),                       \* packet_rx
  pending    : 0 .. MaxPending,                            \* pending_connects
  hs         : SUBSET [h : Handshake, resends : 0 .. MaxResends[Cardinality(dialers)], failed : BOOLEAN],
  peer       : [addr : Addr, session : Handshake, msg2 : Handshake \cup {None}] \cup {None},
  retry      : BOOLEAN]                                    \* retry_pending

Wire == [by : Node, broken : BOOLEAN, to : [Node -> Seq(Message)]]
NoWire == [by |-> 1, broken |-> FALSE, to |-> [n \in Node |-> <<>>]]

Fresh(n) == [
  pool |-> [a \in Addr |-> None], reader |-> [c \in Conn |-> "none"],
  backlog |-> {}, connecting |-> None, queue |-> <<>>, pending |-> 0,
  hs |-> {}, peer |-> None, retry |-> n \in dialers]

Init ==
  /\ dialers \in DialerSets
  /\ node = [n \in Node |-> Fresh(n)]
  /\ wire = [c \in Conn |-> NoWire]
  /\ faults = 0

(***************************************************************************)
(* Sockets.  S is the state a handler works on.                            *)
(***************************************************************************)
\* n's end can still be written to: its write half is in the pool, or the
\* connection has not reached the pool yet.
Holds(S, n, c) ==
  \/ \E a \in Addr : S.node[n].pool[a] = c
  \/ c \in S.node[n].backlog
  \/ S.node[n].connecting = c
Reads(S, n, c) ==
  \/ S.node[n].reader[c] = "reading"
  \/ c \in S.node[n].backlog
  \/ S.node[n].connecting = c
IsPeer(s) == s.peer # None
InUse(S, c) == \E n \in Node : Holds(S, n, c) \/ S.node[n].reader[c] # "none"

\* The kernel drops what nobody will read, and forgets a connection closed at
\* both ends.
Tidy(S) ==
  [S EXCEPT !.wire = [c \in Conn |->
     IF ~ InUse(S, c) THEN NoWire
     ELSE [S.wire[c] EXCEPT !.to = [n \in Node |->
             IF Reads(S, n, c) /\ ~ S.wire[c].broken THEN @[n] ELSE <<>>]]]]

Now == [node |-> node, wire |-> wire, faults |-> faults]
Become(S) ==
  /\ node' = S.node /\ wire' = Tidy(S).wire /\ faults' = S.faults
  /\ UNCHANGED dialers

\* The address under which n's pool has connection c.
AddrOf(S, n, c) == IF S.wire[c].by = n THEN Peer ELSE c

Least(X) == {x \in X : \A y \in X : x <= y}
FreeConn(S) ==
  Least({c \in Conn : /\ ~ InUse(S, c)
                      /\ \A n \in Node : /\ IsPeer(S.node[n]) => S.node[n].peer.addr # c
                                         /\ \A q \in ToSet(S.node[n].queue) : q[1] # c})

\* One more fault, if there is one left.
Fault(S) == IF S.faults < MaxFaults[Cardinality(dialers)] THEN {[S EXCEPT !.faults = @ + 1]} ELSE {}

\* A connection the peer's kernel has taken; its accept loop has not.
Dial(S, n, c) ==
  [S EXCEPT !.wire[c] = [NoWire EXCEPT !.by = n],
            !.node[Other(n)].backlog = @ \cup {c}]

\* Wrong variant: the receive task is left running.
DropEntryKeepsReader(S, n, a) ==
  IF S.node[n].pool[a] = None THEN S ELSE [S EXCEPT !.node[n].pool[a] = None]

\* pool.remove(addr) by anyone but the receive task, which is aborted: both
\* halves of the socket close.
DropEntry(S, n, a) ==
  LET c == S.node[n].pool[a]
  IN  IF c = None THEN S
      ELSE [S EXCEPT !.node[n].pool[a] = None, !.node[n].reader[c] = "none"]

\* Spawn the receive task and insert into the pool.
Pool(S, n, a, c) ==
  [S EXCEPT !.node[n].pool[a] = c, !.node[n].reader[c] = "reading"]

\* The task runs before the insertion: when the connection has already ended,
\* the task may be gone, and its clean-up too, before there is an entry to
\* remove.
HasEnded(S, n, c) ==
  S.wire[c].broken \/ (~ Holds(S, Other(n), c) /\ S.wire[c].to[n] = <<>>)

Pooled(S, n, a, c) ==
  {Pool(S, n, a, c)} \cup
  (IF HasEnded(S, n, c) THEN {[T EXCEPT !.node[n].pool[a] = c] : T \in Fault(S)} ELSE {})

CloseConnection(S, n, a) == DropEntry(S, n, a)

(***************************************************************************)
(* send_async: the outcomes of sending m to a, as pairs of the new state   *)
(* and whether the send succeeded.                                         *)
(***************************************************************************)
Write(S, n, c, m) == [S EXCEPT !.wire[c].to[Other(n)] = Append(@, m)]

\* The first write after the other end has left is lost and answered with a
\* reset; a write after a reset fails.
SendPooled(S, n, a, m) ==
  LET c == S.node[n].pool[a]
  IN  IF S.wire[c].broken THEN {<<DropEntry(S, n, a), FALSE>>}
      ELSE IF ~ Reads(S, Other(n), c)
      THEN {<<[S EXCEPT !.wire[c].broken = TRUE], TRUE>>, <<DropEntry(S, n, a), FALSE>>}
      ELSE {<<Write(S, n, c, m), TRUE>>}

\* connect(): only the configured address has a listener.
ConnectOnSend(S, n, a, m) ==
  IF a # Peer THEN {<<S, FALSE>>}
  ELSE {<<Write(Pool(Dial(S, n, c), n, Peer, c), n, c, m), TRUE>> : c \in FreeConn(S)}
       \cup {<<T, FALSE>> : T \in Fault(S)}

Send(S, n, a, m) ==
  IF S.node[n].pool[a] # None THEN SendPooled(S, n, a, m) ELSE ConnectOnSend(S, n, a, m)

\* Send and ignore how it went.
Sent(S, n, a, m) == {r[1] : r \in Send(S, n, a, m)}
\* A frame of the established session to the peer's current address.
SendData(S, n) ==
  Sent(S, n, S.node[n].peer.addr, [type |-> "data", h |-> S.node[n].peer.session])

(***************************************************************************)
(* The node: connecting.                                                   *)
(***************************************************************************)
HsOf(s) == {c.h : c \in s.hs}

\* initiate_connection on this transport: connect_async starts a background
\* task unless the pool or the connecting table has the address.
InitiateConnection(s) ==
  [s EXCEPT !.connecting = IF s.pool[Peer] = None /\ @ = None THEN Running ELSE @,
            !.pending = @ + 1]

\* process_pending_retries, the entry of the peer: a peer that connected
\* meanwhile, or a new attempt.  Attempts still in pending_connects do not count
\* as in progress.
ProcessRetry(n) ==
  LET s == node[n]
  IN  /\ s.retry
      /\ IF IsPeer(s) THEN node' = [node EXCEPT ![n].retry = FALSE]
         ELSE /\ s.hs = {} /\ s.pending < MaxPending
              /\ node' = [node EXCEPT ![n] = InitiateConnection(s)]
      /\ UNCHANGED <<dialers, wire, faults>>

\* The background task of connect_async ends: connected, refused or timed out.
ConnectTask(n) ==
  /\ node[n].connecting = Running
  /\ \/ \E c \in FreeConn(Now) :
          Become([Dial(Now, n, c) EXCEPT !.node[n].connecting = c])
     \/ \E S \in Fault(Now) : Become([S EXCEPT !.node[n].connecting = Failed])

\* connection_state_sync(Peer): the state it returns and what it does to the
\* tables.  A connection that finds the pool locked is dropped and yet reported
\* as connected.
ConnectionState(s) ==
  IF s.pool[Peer] # None \/ s.connecting \in Conn THEN "connected"
  ELSE IF s.connecting = None THEN "none"
  ELSE IF s.connecting = Running THEN "connecting" ELSE "failed"

Promoted(S, n) ==
  LET s == S.node[n]
      idle == [S EXCEPT !.node[n].connecting = None]
  IN  IF s.pool[Peer] # None \/ s.connecting = Running THEN {S}
      ELSE IF s.connecting \in Conn THEN Fault(idle) \cup Pooled(idle, n, Peer, s.connecting)
      ELSE {idle}

Mentioned(S) ==
  UNION {HsOf(S.node[p]) \cup {m[2].h : m \in ToSet(S.node[p].queue)}
           \cup (IF IsPeer(S.node[p]) THEN {S.node[p].peer.session, S.node[p].peer.msg2} ELSE {})
           \cup UNION {{m.h : m \in ToSet(S.wire[c].to[p])} : c \in Conn}
         : p \in Node}
FreeTry(S, n) == Least({t \in Try : <<n, t>> \notin Mentioned(S)})

\* start_handshake on the configured address.
StartHandshake(S, n) ==
  UNION {{[r[1] EXCEPT !.node[n].hs =
             @ \cup {[h |-> <<n, t>>, resends |-> 0, failed |-> ~ r[2]]}]
          : r \in Send(S, n, Peer, [type |-> "msg1", h |-> <<n, t>>])}
         : t \in FreeTry(S, n)}

\* poll_pending_connects: every entry waits for the same connection, so the
\* first decides for all.
PollPendingConnects(n) ==
  LET s == node[n]
  IN  /\ s.pending > 0
      /\ ConnectionState(s) # "connecting"
      /\ \E P \in Promoted(Now, n) :
           LET S == [P EXCEPT !.node[n].pending = 0]
               Once == StartHandshake(S, n)
           IN  IF ConnectionState(s) = "connected"
               THEN \E T \in IF s.pending = 1 THEN Once
                              ELSE UNION {StartHandshake(U, n) : U \in Once} : Become(T)
               ELSE Become([S EXCEPT !.node[n].retry = @ \/ (n \in dialers /\ ~ IsPeer(s))])

(***************************************************************************)
(* The node: the handshake and the established link.                       *)
(***************************************************************************)
\* handle_msg1.  An active peer gets the stored msg2 again.
HandleMsg1(S, n, a, h) ==
  LET s == S.node[n]
      fresh == {IF r[2] THEN [r[1] EXCEPT !.node[n].peer = [addr |-> a, session |-> h, msg2 |-> h],
                                          !.node[n].retry = FALSE]
                ELSE r[1]
                : r \in Send(S, n, a, [type |-> "msg2", h |-> h])}
  IN  IF IsPeer(s)
      THEN IF s.peer.msg2 = None THEN {S}
           ELSE Sent(S, n, a, [type |-> "msg2", h |-> s.peer.msg2])
      ELSE UNION {IF IsPeer(T.node[n]) THEN SendData(T, n) ELSE {T} : T \in fresh}

\* Wrong variant: each node prefers its own connection.
OurOutboundAlwaysWins(n) == n = n

OurOutboundWins(n) == n < Other(n)

\* handle_msg2.  When the peer was promoted by its own msg1 meanwhile, both
\* nodes keep the session of the smaller node's connection, and each closes the
\* transport connection of its own outbound link.
HandleMsg2(S, n, h) ==
  LET s == S.node[n]
      done == [S EXCEPT !.node[n].hs = {c \in @ : c.h # h}]
      swapped == IF OurOutboundWins(n) THEN [done EXCEPT !.node[n].peer.session = h] ELSE done
      promoted == [done EXCEPT !.node[n].peer = [addr |-> Peer, session |-> h, msg2 |-> None],
                               !.node[n].retry = FALSE]
  IN  IF ~ \E c \in s.hs : c.h = h /\ ~ c.failed THEN {S}
      ELSE IF IsPeer(s) THEN SendData(CloseConnection(swapped, n, Peer), n)
      ELSE SendData(promoted, n)

\* handle_encrypted_frame: a frame that decrypts tells where the peer is now.
HandleData(S, n, a, h) ==
  IF IsPeer(S.node[n]) /\ S.node[n].peer.session = h
  THEN {[S EXCEPT !.node[n].peer.addr = a]} ELSE {S}

\* process_packet, the next packet of the channel.
ProcessPacket(n) ==
  /\ node[n].queue # <<>>
  /\ LET S == [Now EXCEPT !.node[n].queue = Tail(@)]
         a == Head(node[n].queue)[1]
         m == Head(node[n].queue)[2]
     IN  \E T \in CASE m.type = "msg1" -> HandleMsg1(S, n, a, m.h)
                     [] m.type = "msg2" -> HandleMsg2(S, n, m.h)
                     [] OTHER -> HandleData(S, n, a, m.h) : Become(T)

Underway(m) ==
  \E n \in Node : \/ \E q \in ToSet(node[n].queue) : q[2] = m
                  \/ \E c \in Conn : m \in ToSet(wire[c].to[n])

\* check_link_heartbeats: a frame to the peer, at most one on the way.
Heartbeat(n) ==
  /\ IsPeer(node[n])
  /\ ~ Underway([type |-> "data", h |-> node[n].peer.session])
  /\ \E T \in SendData(Now, n) : Become(T)

\* resend_pending_handshakes, one connection.
Resend(n) ==
  \E c \in node[n].hs :
    /\ ~ c.failed /\ c.resends < MaxResends[Cardinality(dialers)]
    /\ \E T \in Sent(Now, n, Peer, [type |-> "msg1", h |-> c.h]) :
         Become([T EXCEPT !.node[n].hs = (@ \ {c}) \cup {[c EXCEPT !.resends = @ + 1]}])

\* Nothing is under way between the nodes, nor left for a task to do.  Both
\* timeouts below (30 s) are longer than that takes.
Settled ==
  /\ \A n \in Node : /\ node[n].queue = <<>> /\ node[n].backlog = {}
                     /\ \A c \in Conn : node[n].reader[c] # "ended" /\ wire[c].to[n] = <<>>

\* check_timeouts, one connection; the transport connection stays.
CheckTimeout(n) ==
  \E c \in node[n].hs :
    /\ Settled
    /\ Become([Now EXCEPT !.node[n].hs = @ \ {c},
                          !.node[n].retry = @ \/ (n \in dialers /\ ~ IsPeer(node[n]))])

\* What n sends under the common session arrives.
Reaches(n) ==
  LET s == node[n]
      c == s.pool[s.peer.addr]
  IN  /\ IsPeer(s) /\ IsPeer(node[Other(n)])
      /\ s.peer.session = node[Other(n)].peer.session
      /\ IF c = None THEN s.peer.addr = Peer
         ELSE ~ wire[c].broken /\ Reads(Now, Other(n), c)

\* Wrong variant: the peer is removed and not scheduled for a reconnect.
LinkDeadForGood(n) ==
  /\ IsPeer(node[n])
  /\ ~ Reaches(Other(n))
  /\ Settled /\ \A p \in Node : node[p].hs = {}
  /\ Become([Now EXCEPT !.node[n].peer = None])

\* check_link_heartbeats: nothing readable came for link_dead_timeout.
LinkDead(n) ==
  /\ IsPeer(node[n])
  /\ ~ Reaches(Other(n))
  /\ Settled /\ \A p \in Node : node[p].hs = {}
  /\ Become([Now EXCEPT !.node[n].peer = None, !.node[n].retry = @ \/ n \in dialers])

(***************************************************************************)
(* The tasks of the transport.                                             *)
(***************************************************************************)
\* accept_loop.  The limit counts every connection of the pool.
Accept(n, c) ==
  /\ c \in node[n].backlog
  /\ LET S == [Now EXCEPT !.node[n].backlog = @ \ {c}]
     IN  \E T \in IF Cardinality({a \in Addr : node[n].pool[a] # None}) >= MaxInbound
                  THEN {S} ELSE Pooled(S, n, c, c) : Become(T)

\* tcp_receive_loop: one packet into the channel, or the end of the stream.
ReadPacket(n, c) ==
  /\ node[n].reader[c] = "reading" /\ wire[c].to[n] # <<>>
  /\ Become([Now EXCEPT !.wire[c].to[n] = Tail(@),
                        !.node[n].queue = Append(@, <<AddrOf(Now, n, c), Head(wire[c].to[n])>>)])

ReadEnds(n, c) ==
  /\ node[n].reader[c] = "reading" /\ wire[c].to[n] = <<>>
  /\ wire[c].broken \/ ~ Holds(Now, Other(n), c)
  /\ Become([Now EXCEPT !.node[n].reader[c] = "ended"])

\* The task removes whatever the pool has at its address.
RemoveItself(n, c) ==
  /\ node[n].reader[c] = "ended"
  /\ Become([Now EXCEPT !.node[n].reader[c] = "none",
                        !.node[n].pool[AddrOf(Now, n, c)] = None])

Break(c) ==
  /\ InUse(Now, c) /\ ~ wire[c].broken
  /\ \E S \in Fault(Now) : Become([S EXCEPT !.wire[c].broken = TRUE])

Task(n) == \/ ConnectTask(n)
           \/ \E c \in Conn : \/ Accept(n, c) \/ ReadPacket(n, c)
                             \/ ReadEnds(n, c) \/ RemoveItself(n, c)
Loop(n) == \/ ProcessPacket(n) \/ PollPendingConnects(n) \/ ProcessRetry(n)
           \/ Heartbeat(n) \/ Resend(n) \/ CheckTimeout(n) \/ LinkDead(n)

Next == \/ \E n \in Node : Task(n) \/ Loop(n)
        \/ \E c \in Conn : Break(c)

\* Every task is scheduled again and again and the loop takes every branch of
\* its select.  The two timeouts run out whatever frames pass meanwhile: they
\* need strong fairness because the model lets them end only while nothing is
\* on the way.  Nothing is assumed of Resend or Break.
Fairness ==
  \A n \in Node :
    /\ WF_vars(ConnectTask(n))
    /\ \A c \in Conn : /\ WF_vars(Accept(n, c)) /\ WF_vars(ReadPacket(n, c))
                        /\ WF_vars(ReadEnds(n, c)) /\ WF_vars(RemoveItself(n, c))
    /\ WF_vars(ProcessPacket(n)) /\ WF_vars(PollPendingConnects(n))
    /\ WF_vars(ProcessRetry(n)) /\ WF_vars(Heartbeat(n))
    /\ SF_vars(CheckTimeout(n)) /\ SF_vars(LinkDead(n))

Spec == Init /\ [][Next]_vars /\ Fairness

(***************************************************************************)
(* Properties.                                                             *)
(***************************************************************************)
\* The tables hold what their Rust types and the limits allow; the limit of
\* resends is kept.
TypeOK ==
  /\ node \in [Node -> NodeState]
  /\ wire \in [Conn -> Wire]
  /\ dialers \in DialerSets /\ faults \in 0 .. MaxFaults[Cardinality(dialers)]

\* A receive task reads the very connection the pool has at its address.  The
\* task ends by removing whatever the pool has there (tcp_receive_loop's
\* cleanup), so a task that outlived its entry would throw out the connection
\* that took its place.
ReaderOwnsEntry ==
  \A n \in Node, c \in Conn :
    node[n].reader[c] = "reading" => node[n].pool[AddrOf(Now, n, c)] = c

Quiet == Settled /\ \A n \in Node : node[n].hs = {} /\ node[n].pending = 0

\* Without faults, nodes that connected to each other at once end in the same
\* session, in whatever order the tasks and the two loops ran
\* (cross_connection_winner).
EndsAgree ==
  faults = 0 /\ Quiet /\ IsPeer(node[1]) /\ IsPeer(node[2])
    => node[1].peer.session = node[2].peer.session

\* When one of the nodes dials, the two end in one session over an open
\* connection and stay there, however the faults fall: refused connects, broken
\* connections, dead current addresses, handshakes that time out.
Recovers == Cardinality(dialers) = 1 => <>[](Reaches(1) /\ Reaches(2))
=============================================================================
