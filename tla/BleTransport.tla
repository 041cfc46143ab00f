----------------------------- MODULE BleTransport -----------------------------
(***************************************************************************)
(* The BLE transport of several nodes: the connection pool with eviction,  *)
(* the accept loop, the scan and probe loop with its cooldown, background  *)
(* connects, the exchange of public keys with its tie-break, and receive   *)
(* tasks, all interleaving with the event loop that sends.                 *)
(*                                                                         *)
(* A task of n that brings up a stream is a record of `work`: the accept   *)
(* loop and the probe loop have one at most, connect_async spawns more.    *)
(* Dropping a connection of the pool aborts its receive task and closes    *)
(* this end of its stream.  A stream that neither end holds is gone and    *)
(* its number free.                                                        *)
(*                                                                         *)
(* A step that waits for a lock either gets it at once or lets others in   *)
(* between.  That, refused connects, exchanges that time out, broken       *)
(* streams, closes by the node and connects it wants beside the probes     *)
(* cost one of the faults each.                                            *)
(***************************************************************************)
EXTENDS Naturals, Sequences, FiniteSets, SequencesExt

CONSTANTS
  Node,       \* numbers: the order of the NodeAddrs
  Stream,     \* numbers of the streams; a bound on those that exist at once
  None,       \* Option::None
  Settings    \* the settings to choose from, see `setting`

ASSUME BleAssumption ==
  /\ Node \subseteq Nat /\ Stream \subseteq Nat \ {0}
  /\ Settings \subseteq [inRange : SUBSET (Node \X Node), max : Nat \ {0}, faults : Nat]

VARIABLES
  setting,    \* inRange: who sees whom; max: max_connections of every node;
              \* faults: bound
  pool,       \* pool[n]: connections [peer, stream], the oldest first
  connecting, \* connecting[n]: peers of the attempts in the table
  work,       \* tasks that bring up a stream
  reader,     \* receive tasks; done: out of its loop, about to clear the pool
  event,      \* event[n]: where the event loop of n waits for a lock
  incoming,   \* incoming[n]: streams not accepted yet
  pending,    \* pending[n]: pending_addrs of the probe loop
  link,       \* link[s]: stream s
  faults

vars == <<setting, pool, connecting, work, reader, event, incoming, pending,
                 link, faults>>

Idle == [op |-> "none", peer |-> 0]

Pooled(n) == {pool[n][i].peer : i \in DOMAIN pool[n]}
Streams(entries) == {entries[i].stream : i \in DOMAIN entries}

\* An end is open while a task, the pool or the backlog has it.
Holds(n, s) ==
  \/ \E w \in work : w.at = n /\ w.stream = s
  \/ s \in Streams(pool[n])
  \/ \E r \in reader : r.at = n /\ r.stream = s
  \/ s \in ToSet(incoming[n])

OtherEnd(n, s) == IF link[s].from = n THEN link[s].to ELSE link[s].from

Gone(n, s) == link[s].broken \/ ~Holds(OtherEnd(n, s), s)

\* Streams are `l` from now on, without those that nobody holds any more.
Streaming(l) ==
  link' = [s \in Stream |-> IF \E n \in Node : Holds(n, s)' THEN l[s] ELSE None]

Costs(k) == faults + k <= setting.faults /\ faults' = faults + k
Fault == Costs(1)
AtOnce == UNCHANGED faults

-----------------------------------------------------------------------------
(* ConnectionPool.                                                         *)

Without(entries, p) == SelectSeq(entries, LAMBDA e : e.peer # p)

\* insert: a connection to the same peer is replaced, and with no room the oldest
\* makes place (is_static is false wherever a connection is made).
Insert(entries, p, s) ==
  LET others == Without(entries, p)
      room == Len(others) < Len(entries) \/ Len(entries) < setting.max
  IN  Append(IF room THEN others ELSE Tail(others), [peer |-> p, stream |-> s])

\* Wrong variant: the task goes on when its connection is dropped.
NoAbort(n, streams) == {}

\* BleConnection::drop aborts the receive task.
Aborted(n, streams) == {r \in reader : r.at = n /\ r.stream \in streams}

Pool(n, entries) ==
  /\ pool' = [pool EXCEPT ![n] = entries]
  /\ reader' = reader \ Aborted(n, Streams(pool[n]) \ Streams(entries))

-----------------------------------------------------------------------------
(* The event loop.                                                         *)

List(n, p) == connecting' = [connecting EXCEPT ![n] = @ \cup {p}]

\* send_async without a connection: connect_async spawns its task and puts the attempt
\* into the table.
Call(n, p) ==
  /\ <<n, p>> \in setting.inRange
  /\ event[n] = Idle
  /\ p \notin Pooled(n) \cup connecting[n]
  /\ work' = work \cup {[at |-> n, peer |-> p, kind |-> "connect",
                         stage |-> "dialing", stream |-> 0]}
  /\ \/ Costs(1) /\ List(n, p) /\ UNCHANGED event
     \/ /\ Costs(2)
        /\ event' = [event EXCEPT ![n] = [op |-> "list", peer |-> p]]
        /\ UNCHANGED connecting
  /\ UNCHANGED <<setting, pool, reader, incoming, pending, link>>

\* The table now has an attempt that may be over.
ListAttempt(n) ==
  /\ event[n].op = "list"
  /\ List(n, event[n].peer)
  /\ event' = [event EXCEPT ![n] = Idle]
  /\ UNCHANGED <<setting, pool, work, reader, incoming, pending, link, faults>>

\* send_async on a dead connection gives the lock back and takes it again to remove it.
SendFails(n, p) ==
  /\ event[n] = Idle
  /\ \E i \in DOMAIN pool[n] : pool[n][i].peer = p /\ Gone(n, pool[n][i].stream)
  /\ \/ AtOnce /\ Pool(n, Without(pool[n], p)) /\ UNCHANGED event
     \/ /\ Fault
        /\ event' = [event EXCEPT ![n] = [op |-> "remove", peer |-> p]]
        /\ UNCHANGED <<pool, reader>>
  /\ UNCHANGED <<setting, connecting, work, incoming, pending>>
  /\ Streaming(link)

\* What the pool has for the peer by now is removed.
RemoveAfterSend(n) ==
  /\ event[n].op = "remove"
  /\ Pool(n, Without(pool[n], event[n].peer))
  /\ event' = [event EXCEPT ![n] = Idle]
  /\ UNCHANGED <<setting, connecting, work, incoming, pending, faults>>
  /\ Streaming(link)

\* close_connection_async.
Close(n, p) ==
  /\ event[n] = Idle
  /\ p \in Pooled(n)
  /\ Fault
  /\ Pool(n, Without(pool[n], p))
  /\ UNCHANGED <<setting, connecting, work, event, incoming, pending>>
  /\ Streaming(link)

-----------------------------------------------------------------------------
(* Bringing up a stream.                                                   *)

Unlisted(w) ==
  IF w.kind = "connect" THEN [connecting EXCEPT ![w.at] = @ \ {w.peer}] ELSE connecting

\* connect succeeds and pubkey_exchange sends our key.
Dial(w) ==
  LET free == {s \in Stream : link[s] = None}
      s == CHOOSE t \in free : \A u \in free : t <= u
  IN  /\ w.stage = "dialing"
      /\ free # {}
      /\ work' = (work \ {w}) \cup {[w EXCEPT !.stage = "exchange", !.stream = s]}
      /\ incoming' = [incoming EXCEPT ![w.peer] = Append(@, s)]
      /\ connecting' = Unlisted(w)
      /\ link' = [link EXCEPT ![s] = [from |-> w.at, to |-> w.peer,
                                      keys |-> {w.at}, broken |-> FALSE]]
      /\ UNCHANGED <<setting, pool, reader, event, pending, faults>>

\* connect fails or times out.
DialFails(w) ==
  /\ w.stage = "dialing"
  /\ Fault
  /\ work' = work \ {w}
  /\ connecting' = Unlisted(w)
  /\ UNCHANGED <<setting, pool, reader, event, incoming, pending, link>>

\* accept_loop: a peer we are connected to is turned away, before any exchange.
Accept(n) ==
  LET s == Head(incoming[n])
      p == link[s].from
  IN  /\ incoming[n] # <<>>
      /\ ~\E w \in work : w.at = n /\ w.kind = "accept"
      /\ incoming' = [incoming EXCEPT ![n] = Tail(@)]
      /\ UNCHANGED <<setting, pool, connecting, reader, event, pending, faults>>
      /\ IF p \in Pooled(n)
         THEN UNCHANGED work /\ Streaming(link)
         ELSE /\ work' = work \cup {[at |-> n, peer |-> p, kind |-> "accept",
                                     stage |-> "exchange", stream |-> s]}
              /\ Streaming([link EXCEPT ![s].keys = @ \cup {n}])

\* Wrong variant: an inbound connection is kept by both ends.
KeepsInbound(w) == w.kind = "probe" => w.at < w.peer

\* Wrong variant: whoever dialled yields.
YieldsOutbound(w) == w.at > w.peer

\* The tie-break: the outbound stream of the smaller node wins; connect_async has none.
Keeps(w) ==
  CASE w.kind = "accept" -> w.at > w.peer
    [] w.kind = "probe" -> w.at < w.peer
    [] OTHER -> TRUE

Task(w) == [at |-> w.at, stream |-> w.stream, done |-> FALSE]

\* The connection goes into the pool; the probe loop has done with its address.
GoesIn(w) ==
  LET entries == Insert(pool[w.at], w.peer, w.stream)
  IN  /\ work' = work \ {w}
      /\ pool' = [pool EXCEPT ![w.at] = entries]
      /\ reader' = (IF w.stage = "promote" THEN reader ELSE reader \cup {Task(w)})
                   \ Aborted(w.at, Streams(pool[w.at]) \ Streams(entries))
      /\ pending' = IF w.kind = "probe"
                    THEN [pending EXCEPT ![w.at] = SelectSeq(@, LAMBDA p : p # w.peer)]
                    ELSE pending

\* The peer's key is there: the stream is dropped, or its receive task is started and
\* it goes into the pool.
Exchanged(w) ==
  /\ w.stage = "exchange"
  /\ w.peer \in link[w.stream].keys
  /\ \/ ~Keeps(w) /\ AtOnce /\ work' = work \ {w} /\ UNCHANGED <<pool, reader, pending>>
     \/ Keeps(w) /\ AtOnce /\ GoesIn(w)
     \/ /\ Keeps(w)
        /\ Fault
        /\ work' = (work \ {w}) \cup {[w EXCEPT !.stage = "promote"]}
        /\ reader' = reader \cup {Task(w)}
        /\ UNCHANGED <<pool, pending>>
  /\ UNCHANGED <<setting, connecting, event, incoming>>
  /\ Streaming(link)

\* The stream ends before the key is read, or PUBKEY_EXCHANGE_TIMEOUT_SECS go by.
ExchangeFails(w) ==
  /\ w.stage = "exchange"
  /\ \/ Gone(w.at, w.stream) /\ UNCHANGED faults
     \/ w.peer \notin link[w.stream].keys /\ ~Gone(w.at, w.stream) /\ Fault
  /\ work' = work \ {w}
  /\ UNCHANGED <<setting, pool, connecting, reader, event, incoming, pending>>
  /\ Streaming(link)

\* The lock of the pool is there after a wait.
Promote(w) ==
  /\ w.stage = "promote"
  /\ GoesIn(w)
  /\ UNCHANGED <<setting, connecting, event, incoming, faults>>
  /\ Streaming(link)

-----------------------------------------------------------------------------
(* receive_loop.                                                           *)

\* The end of the task: what the pool has for the address goes, whosever it is.
Clears(r) ==
  LET rest == Without(pool[r.at], OtherEnd(r.at, r.stream))
  IN  /\ pool' = [pool EXCEPT ![r.at] = rest]
      /\ reader' = reader \ ({r} \cup Aborted(r.at, Streams(pool[r.at]) \ Streams(rest)))

ReceiveEnds(r) ==
  /\ ~r.done
  /\ Gone(r.at, r.stream)
  /\ \/ AtOnce /\ Clears(r)
     \/ Fault /\ reader' = (reader \ {r}) \cup {[r EXCEPT !.done = TRUE]} /\ UNCHANGED pool
  /\ UNCHANGED <<setting, connecting, work, event, incoming, pending>>
  /\ Streaming(link)

ClearsLate(r) ==
  /\ r.done
  /\ Clears(r)
  /\ UNCHANGED <<setting, connecting, work, event, incoming, pending, faults>>
  /\ Streaming(link)

Break(s) ==
  /\ link[s] # None /\ ~link[s].broken
  /\ Fault
  /\ link' = [link EXCEPT ![s].broken = TRUE]
  /\ UNCHANGED <<setting, pool, connecting, work, reader, event, incoming, pending>>

-----------------------------------------------------------------------------
(* scan_probe_loop.                                                        *)

\* The loop body for p, with `waiting` as pending_addrs.  A peer that was probed less
\* than cooldown_secs ago is left alone: how long that is, is left open.
Probe(n, p, waiting) ==
  /\ ~\E w \in work : w.at = n /\ w.kind = "probe"
  /\ IF p \in Pooled(n)
     THEN /\ pending' = [pending EXCEPT ![n] = SelectSeq(waiting, LAMBDA q : q # p)]
          /\ UNCHANGED work
     ELSE /\ pending' = [pending EXCEPT ![n] = IF p \in ToSet(waiting) THEN waiting
                                               ELSE Append(waiting, p)]
          /\ \/ UNCHANGED work
             \/ work' = work \cup {[at |-> n, peer |-> p, kind |-> "probe",
                                    stage |-> "dialing", stream |-> 0]}
  /\ UNCHANGED <<setting, pool, connecting, reader, event, incoming, link, faults>>

\* The scanner reports a device.
Scan(n, p) ==
  /\ <<n, p>> \in setting.inRange
  /\ Probe(n, p, pending[n])

\* The retry timer: the first address without a connection.
Retry(n) ==
  LET waiting == SelectSeq(pending[n], LAMBDA p : p \notin Pooled(n))
  IN  waiting # <<>> /\ Probe(n, Head(waiting), waiting)

-----------------------------------------------------------------------------

Init ==
  /\ setting \in Settings
  /\ pool = [n \in Node |-> <<>>]
  /\ connecting = [n \in Node |-> {}]
  /\ work = {}
  /\ reader = {}
  /\ event = [n \in Node |-> Idle]
  /\ incoming = [n \in Node |-> <<>>]
  /\ pending = [n \in Node |-> <<>>]
  /\ link = [s \in Stream |-> None]
  /\ faults = 0

Run(w) == Dial(w) \/ Exchanged(w) \/ ExchangeFails(w) \/ Promote(w)

AcceptLoopStep(n) == Accept(n) \/ \E w \in work : w.at = n /\ w.kind = "accept" /\ Run(w)
ProbeLoopStep(n) ==
  \/ \E w \in work : w.at = n /\ w.kind = "probe" /\ Run(w)
  \/ Retry(n)
  \/ \E p \in Node : Scan(n, p)
ConnectStep(n) == \E w \in work : w.at = n /\ w.kind = "connect" /\ Run(w)
ReceiveStep(n) == \E r \in reader : r.at = n /\ (ReceiveEnds(r) \/ ClearsLate(r))
EventLoopStep(n) == ListAttempt(n) \/ RemoveAfterSend(n) \/ \E p \in Node : SendFails(n, p)

Environment ==
  \/ \E w \in work : DialFails(w)
  \/ \E n, p \in Node : Call(n, p) \/ Close(n, p)
  \/ \E s \in Stream : Break(s)

Next ==
  \/ \E n \in Node : \/ AcceptLoopStep(n) \/ ProbeLoopStep(n) \/ ConnectStep(n)
                     \/ ReceiveStep(n) \/ EventLoopStep(n)
  \/ Environment

Spec == Init /\ [][Next]_vars

\* Tasks run, timers fire, a device in range is reported, and the node sends on every
\* connection (heartbeats, msg1 and its resends).
FairSpec ==
  /\ Spec
  /\ \A n \in Node :
       /\ WF_vars(AcceptLoopStep(n))
       /\ WF_vars(ProbeLoopStep(n))
       /\ WF_vars(ConnectStep(n))
       /\ WF_vars(ReceiveStep(n))
       /\ WF_vars(EventLoopStep(n))

-----------------------------------------------------------------------------
(* Properties.                                                             *)

Reads(n, s) == \E r \in reader : r.at = n /\ r.stream = s

Connected(n, p) ==
  \E s \in Streams(pool[n]) \cap Streams(pool[p]) : {link[s].from, link[s].to} = {n, p}

\* A receive task removes its address, not its connection, from the pool (mod.rs 866).
\* Only its own connection can be there, as replacing it aborts the task: unless the
\* task ended before its connection was pooled.
OnlyOwnEntry ==
  \A r \in reader :
    r.done => \/ \A i \in DOMAIN pool[r.at] :
                   pool[r.at][i].peer = OtherEnd(r.at, r.stream)
                     => pool[r.at][i].stream = r.stream
              \/ \E w \in work : w.at = r.at /\ w.stream = r.stream /\ w.stage = "promote"

\* When nothing is under way the pools agree: a connection that is read at one end is
\* in the pool of the other, and it was dialled by the smaller node, however probes,
\* connects and inbound streams crossed ("smaller NodeAddr's outbound wins").
EndsAgree ==
  LET quiet == /\ work = {}
               /\ \A n \in Node : event[n] = Idle /\ incoming[n] = <<>>
               /\ \A r \in reader : ~r.done /\ ~Gone(r.at, r.stream)
  IN  quiet => \A n \in Node : \A s \in Streams(pool[n]) :
                 Reads(n, s) => /\ s \in Streams(pool[OtherEnd(n, s)])
                                /\ link[s].from < link[s].to

\* Nodes in range of each other whose pools have room end up connected for good once
\* faults and connects by sends end, although probes cross, inbound streams are turned
\* away while a dying connection is in the pool, and receive tasks may end too early.
Connects ==
  <>[](\A e \in setting.inRange :
         (\A n \in {e[1], e[2]} :
            Cardinality({p \in Node : <<n, p>> \in setting.inRange}) <= setting.max)
         => Connected(e[1], e[2]))

=============================================================================
