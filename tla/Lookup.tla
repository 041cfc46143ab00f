------------------------------- MODULE Lookup -------------------------------
(***************************************************************************)
(* Discovery: how nodes find the coordinates of a target.                  *)
(*                                                                         *)
(* A request follows the filters that hold the target; each node on the    *)
(* way remembers who it came from, and the answer goes back from node to   *)
(* node.  The node that asked does not remember its own request: an answer *)
(* it has no entry for is its own.                                         *)
(*                                                                         *)
(* There is one target.  What the filters say is `hint`, which may be      *)
(* wrong and may change; the tree itself stays.  An entry outlives the     *)
(* messages of its request, the proof in an answer holds, and only nodes   *)
(* that ask know the target's identity.  A message that is lost, or that   *)
(* arrives after a retry or a timeout, costs one of the faults.            *)
(***************************************************************************)
EXTENDS Naturals, FiniteSets, FiniteSetsExt

CONSTANTS
  Node, Source, Target,  \* the nodes, those that ask, the one asked for
  Tree,         \* Tree[n]: n's neighbours in the tree
  Mesh,         \* Mesh[n]: its other peers
  Hints,        \* what the filters may say at the beginning
  Exact,        \* what they say when they are all up to date
  None,
  MaxTtl, MaxAttempts, MaxQueue,   \* ttl, max_attempts, pending_packets_per_dest
  MaxIds,       \* bound: requests
  MaxFaults     \* bound: lost or late messages, filters that change

Peers(n) == Tree[n] \cup Mesh[n]
Id == 1 .. MaxIds

ASSUME NodeAssumption == Source \subseteq Node \ {Target} /\ Target \in Node /\ None \notin Node
ASSUME PeerAssumption ==
  /\ Tree \in [Node -> SUBSET Node] /\ Mesh \in [Node -> SUBSET Node]
  /\ \A n, m \in Node : (m \in Tree[n] <=> n \in Tree[m]) /\ (m \in Mesh[n] <=> n \in Mesh[m])
  /\ \A n \in Node : n \notin Peers(n) /\ Tree[n] \cap Mesh[n] = {}
ASSUME HintAssumption ==
  \A h \in Hints \cup {Exact} : h \in [Node -> SUBSET Node] /\ \A n \in Node : h[n] \subseteq Peers(n)
ASSUME BoundAssumption ==
  /\ MaxTtl \in Nat \ {0} /\ MaxAttempts \in Nat \ {0} /\ MaxQueue \in Nat \ {0}
  /\ MaxIds \in Nat /\ MaxFaults \in Nat

Request == [type : {"request"}, id : Id, from : Node, to : Node, ttl : 0 .. MaxTtl]
Answer == [type : {"answer"}, id : Id, from : Node, to : Node]
PendingLookup == [attempt : 1 .. MaxAttempts, id : Id, over : BOOLEAN]
RecentRequest == [from : Node, forwarded : BOOLEAN]

VARIABLES
  hint,     \* hint[n]: the peers of n whose filter holds the target
  air,      \* messages on the way
  asker,    \* asker[id]: who made the request
  recent,   \* recent[n][id]: recent_requests
  limited,  \* limited[n]: what engaged the forward limiter, what it held up
  pending,  \* pending[s]: pending_lookups of the target
  backoff,  \* backoff[s]: is_suppressed
  cached,   \* cached[s]: is the target in the coordinate cache?
  queue,    \* queue[s]: packets in pending_tun_packets
  faults    \* faults that may still happen

vars == <<hint, air, asker, recent, limited, pending, backoff, cached, queue, faults>>

TypeOK ==
  /\ hint \in [Node -> SUBSET Node] /\ \A n \in Node : hint[n] \subseteq Peers(n)
  /\ air \subseteq Request \cup Answer
  /\ asker \in [Id -> Source \cup {None}]
  /\ recent \in [Node -> [Id -> RecentRequest \cup {None}]]
  /\ limited \in [Node -> SUBSET Id]
  /\ pending \in [Source -> PendingLookup \cup {None}]
  /\ backoff \in [Source -> BOOLEAN]
  /\ cached \in [Source -> BOOLEAN]
  /\ queue \in [Source -> 0 .. MaxQueue]
  /\ faults \in 0 .. MaxFaults
  /\ \A m \in air : asker[m.id] # None /\ m.to \in Peers(m.from)
  /\ \A n \in Node, id \in Id :
       recent[n][id] # None => asker[id] # None /\ recent[n][id].from \in Peers(n)
  /\ \A s \in Source : pending[s] # None => asker[pending[s].id] = s

Init ==
  /\ hint \in Hints
  /\ air = {}
  /\ asker = [id \in Id |-> None]
  /\ recent = [n \in Node |-> [id \in Id |-> None]]
  /\ limited = [n \in Node |-> {}]
  /\ pending = [s \in Source |-> None]
  /\ backoff = [s \in Source |-> FALSE]
  /\ cached = [s \in Source |-> FALSE]
  /\ queue = [s \in Source |-> 0]
  /\ faults = MaxFaults

-----------------------------------------------------------------------------
(* The node that asks.                                                     *)

FreeIds == {id \in Id : asker[id] = None}
NextId == Min(FreeIds)

\* Requests that the lookups under way may still make.
Reserved ==
  MapThenSumSet(LAMBDA s : IF pending[s] = None THEN 0 ELSE MaxAttempts - pending[s].attempt, Source)
RoomForLookup == Cardinality(FreeIds) >= Reserved + MaxAttempts

Copies(id, n, targets, ttl) ==
  {[type |-> "request", id |-> id, from |-> n, to |-> m, ttl |-> ttl] : m \in targets}

TreeHints(n) == Tree[n] \cap hint[n]

\* initiate_lookup: a fresh request to the tree neighbours with a hint.
InitiateLookup(s, attempt) ==
  /\ FreeIds # {}
  /\ asker' = [asker EXCEPT ![NextId] = s]
  /\ air' = air \cup Copies(NextId, s, TreeHints(s), MaxTtl)
  /\ pending' = [pending EXCEPT ![s] = [attempt |-> attempt, id |-> NextId, over |-> FALSE]]

MaybeInitiateLookup(s) ==
  LET refused == (pending[s] # None /\ ~pending[s].over) \/ backoff[s]
  IN  \/ /\ refused
         /\ UNCHANGED <<pending, backoff, air, asker>>
      \/ /\ ~refused /\ TreeHints(s) # {}
         /\ RoomForLookup
         /\ InitiateLookup(s, 1)
         /\ UNCHANGED backoff
      \/ /\ ~refused /\ TreeHints(s) = {}
         /\ backoff' = [backoff EXCEPT ![s] = TRUE]
         /\ pending' = IF hint[s] = {} THEN pending ELSE [pending EXCEPT ![s] = None]
         /\ UNCHANGED <<air, asker>>

\* A packet for the target, no session and no coordinates.
HandleTunOutbound(s) ==
  /\ ~cached[s]
  /\ MaybeInitiateLookup(s)
  /\ queue' = [queue EXCEPT ![s] = IF @ < MaxQueue THEN @ + 1 ELSE @]
  /\ UNCHANGED <<hint, recent, limited, cached, faults>>

\* A router on the way could not pass a packet on.
HandlePathBroken(s) ==
  /\ cached[s]
  /\ faults > 0
  /\ faults' = faults - 1
  /\ cached' = [cached EXCEPT ![s] = FALSE]
  /\ MaybeInitiateLookup(s)
  /\ UNCHANGED <<hint, recent, limited, queue>>

\* A retry or a timeout takes longer than any message, or the message is late.
TimeGoesBy ==
  /\ air # {} => faults > 0
  /\ faults' = IF air # {} THEN faults - 1 ELSE faults

\* Wrong variant: the next attempt repeats the request of the last one.
RetrySameRequest(s) ==
  /\ pending[s] # None /\ ~pending[s].over
  /\ pending[s].attempt < MaxAttempts
  /\ TimeGoesBy
  /\ limited' = [n \in Node |-> IF pending[s].id \in limited[n] THEN {} ELSE limited[n]]
  /\ air' = air \cup Copies(pending[s].id, s, TreeHints(s), MaxTtl)
  /\ pending' = [pending EXCEPT ![s].attempt = @ + 1]
  /\ UNCHANGED <<hint, asker, recent, backoff, cached, queue>>

\* A limiter that held up the last attempt has let go by then.
Retry(s) ==
  /\ pending[s] # None /\ ~pending[s].over
  /\ pending[s].attempt < MaxAttempts
  /\ TimeGoesBy
  /\ limited' = [n \in Node |-> IF pending[s].id \in limited[n] THEN {} ELSE limited[n]]
  /\ InitiateLookup(s, pending[s].attempt + 1)
  /\ UNCHANGED <<hint, recent, backoff, cached, queue>>

\* The lookup is older than its timeout; the tick has yet to see it.
Expire(s) ==
  /\ pending[s] # None /\ ~pending[s].over
  /\ pending[s].attempt = MaxAttempts
  /\ TimeGoesBy
  /\ pending' = [pending EXCEPT ![s].over = TRUE]
  /\ UNCHANGED <<hint, air, asker, recent, limited, backoff, cached, queue>>

\* check_pending_lookups
Timeout(s) ==
  /\ pending[s] # None /\ pending[s].over
  /\ pending' = [pending EXCEPT ![s] = None]
  /\ backoff' = [backoff EXCEPT ![s] = TRUE]
  /\ queue' = [queue EXCEPT ![s] = 0]
  /\ UNCHANGED <<hint, air, asker, recent, limited, cached, faults>>

\* The suppression ends, or a new peer or parent clears it.
BackoffEnds(s) ==
  /\ backoff[s]
  /\ backoff' = [backoff EXCEPT ![s] = FALSE]
  /\ UNCHANGED <<hint, air, asker, recent, limited, pending, cached, queue, faults>>

-----------------------------------------------------------------------------
(* handle_lookup_request.                                                  *)

Eligible(n) == IF TreeHints(n) # {} THEN TreeHints(n) ELSE Mesh[n] \cap hint[n]

AnswerTo(m, n) == [type |-> "answer", id |-> m.id, from |-> n, to |-> m.from]

\* Wrong variant: a request that was seen before is taken again.
SeenNever(n, m) == FALSE
Seen(n, m) == recent[n][m.id] # None

DropRequest(n, m) ==
  /\ Seen(n, m)
  /\ air' = air \ {m}
  /\ UNCHANGED <<recent, limited>>

Record(n, m) ==
  /\ ~Seen(n, m)
  /\ recent' = [recent EXCEPT ![n][m.id] = [from |-> m.from, forwarded |-> FALSE]]

AnswerRequest(n, m) ==
  /\ n = Target
  /\ Record(n, m)
  /\ air' = (air \ {m}) \cup {AnswerTo(m, n)}
  /\ UNCHANGED limited

\* should_forward refuses: a request for the target was sent on a moment ago.
HeldUp(n) == limited[n] # {}

\* The time to live is used up, or the target was asked for a moment ago.
EndRequest(n, m) ==
  /\ n # Target
  /\ m.ttl = 0 \/ HeldUp(n)
  /\ Record(n, m)
  /\ air' = air \ {m}
  /\ limited' = IF m.ttl = 0 THEN limited ELSE [limited EXCEPT ![n] = @ \cup {m.id}]

\* The limiter of an earlier request may have let go.
ForwardRequest(n, m) ==
  /\ n # Target /\ m.ttl > 0
  /\ Record(n, m)
  /\ limited' = [limited EXCEPT ![n] = {m.id}]
  /\ air' = (air \ {m}) \cup Copies(m.id, n, Eligible(n), m.ttl - 1)

HandleLookupRequest(n, m) ==
  /\ m \in air /\ m.type = "request" /\ m.to = n
  /\ \/ DropRequest(n, m)
     \/ AnswerRequest(n, m)
     \/ EndRequest(n, m)
     \/ ForwardRequest(n, m)
  /\ UNCHANGED <<hint, asker, pending, backoff, cached, queue, faults>>

-----------------------------------------------------------------------------
(* handle_lookup_response.                                                 *)

ForwardAnswer(n, m) ==
  /\ recent[n][m.id] # None /\ ~recent[n][m.id].forwarded
  /\ recent' = [recent EXCEPT ![n][m.id].forwarded = TRUE]
  /\ air' = (air \ {m}) \cup
       {[type |-> "answer", id |-> m.id, from |-> n, to |-> recent[n][m.id].from]}
  /\ UNCHANGED <<pending, backoff, cached, queue>>

\* Sent on before, or nobody here knows the target's identity.
DropAnswer(n, m) ==
  /\ IF recent[n][m.id] # None THEN recent[n][m.id].forwarded ELSE n \notin Source
  /\ air' = air \ {m}
  /\ UNCHANGED <<recent, pending, backoff, cached, queue>>

\* The packets that wait go to the session.
TakeAnswer(n, m) ==
  /\ recent[n][m.id] = None /\ n \in Source
  /\ air' = air \ {m}
  /\ pending' = [pending EXCEPT ![n] = None]
  /\ backoff' = [backoff EXCEPT ![n] = FALSE]
  /\ cached' = [cached EXCEPT ![n] = TRUE]
  /\ queue' = [queue EXCEPT ![n] = 0]
  /\ UNCHANGED recent

HandleLookupResponse(n, m) ==
  /\ m \in air /\ m.type = "answer" /\ m.to = n
  /\ \/ ForwardAnswer(n, m)
     \/ DropAnswer(n, m)
     \/ TakeAnswer(n, m)
  /\ UNCHANGED <<hint, asker, limited, faults>>

-----------------------------------------------------------------------------
(* The network.                                                            *)

Lose(m) ==
  /\ m \in air
  /\ faults > 0
  /\ faults' = faults - 1
  /\ air' = air \ {m}
  /\ UNCHANGED <<hint, asker, recent, limited, pending, backoff, cached, queue>>

\* A filter arrives with or without the target.
FilterChanges(n, m) ==
  /\ m \in Peers(n)
  /\ faults > 0
  /\ faults' = faults - 1
  /\ hint' = [hint EXCEPT ![n] = IF m \in @ THEN @ \ {m} ELSE @ \cup {m}]
  /\ UNCHANGED <<air, asker, recent, limited, pending, backoff, cached, queue>>

Next ==
  \/ \E s \in Source :
       \/ HandleTunOutbound(s)
       \/ HandlePathBroken(s)
       \/ Retry(s)
       \/ Expire(s)
       \/ Timeout(s)
       \/ BackoffEnds(s)
  \/ \E n \in Node :
       \/ \E m \in air : HandleLookupRequest(n, m) \/ HandleLookupResponse(n, m)
       \/ \E m \in Node : FilterChanges(n, m)
  \/ \E m \in air : Lose(m)

Spec == Init /\ [][Next]_vars

\* A message is handled or lost, the tick checks the lookups, time goes by.
FairSpec ==
  /\ Spec
  /\ WF_vars(\E n \in Node, m \in air : HandleLookupRequest(n, m) \/ HandleLookupResponse(n, m))
  /\ \A s \in Source :
       WF_vars(Retry(s)) /\ WF_vars(Expire(s)) /\ WF_vars(Timeout(s))

-----------------------------------------------------------------------------
(* Properties.                                                             *)

\* While every filter is up to date and no message is lost or late, nobody who
\* looks the target up is told that it cannot be reached, also when several
\* look it up at once and the forward limiters on the way suppress a request.
ReachableIsFound ==
  faults = MaxFaults /\ hint = Exact =>
    \A s \in Source : ~backoff[s] /\ (queue[s] > 0 => pending[s] # None)

\* A request is answered once, by whatever ways it reaches the target, and the
\* answer never splits up.
OneAnswer ==
  \A id \in Id : Cardinality({m \in air : m.type = "answer" /\ m.id = id}) <= 1

\* Requests and answers die out, also when filters send them round in circles,
\* and no lookup stays pending.
Settles == <>[](air = {} /\ \A s \in Source : pending[s] = None)

=============================================================================
