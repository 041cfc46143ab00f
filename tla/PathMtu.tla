------------------------------- MODULE PathMtu -------------------------------
(***************************************************************************)
(* The path MTU of a session, in both directions.  Every session datagram  *)
(* collects the smallest link MTU of its route; the end it reaches reports *)
(* that to the other in PathMtuNotifications, and a router that cannot     *)
(* forward a datagram because of its size tells the source in an           *)
(* MtuExceeded.  The source (PathMtuState) lowers its MTU at once, raises  *)
(* it only after repeated reports, and answers packets of the TUN that are *)
(* too big with an ICMPv6 Packet Too Big.                                  *)
(*                                                                         *)
(* A node is one end of the session; the routers between the ends are the  *)
(* link MTUs of a route.  Time is counted in units of which the            *)
(* notification interval is a multiple and is kept as ages.  Session       *)
(* control messages fit every link.  How routes are found is Routing, how  *)
(* sessions come about EndToEndSession.                                    *)
(***************************************************************************)
EXTENDS Integers, FiniteSets, Sequences

CONSTANTS
  Routes,       \* the routes there may be from either node: sequences of link MTUs
  TransportMtu, \* transport_mtu() of either node
  Packet,       \* sizes of packets that applications send
  Unknown,      \* u16::MAX: no measurement yet
  None,         \* Option::None
  Interval,     \* notification_interval of either node
  Overhead,     \* FIPS_IPV6_OVERHEAD
  Coords,       \* bytes of the coordinates that may go with a packet
  MaxAir,       \* bound: messages on the way
  MaxChanges    \* bound: changes of routes, new sessions, new flows, lost messages

Node == 1 .. 2
Other(n) == 3 - n
Mtu == 1 .. Unknown

ASSUME PathAssumption ==
  /\ Unknown \in Nat \ {0}
  /\ \A n \in Node : \A r \in Routes[n] : r \in Seq(1 .. Unknown - 1) /\ r # <<>>
  /\ TransportMtu \in [Node -> 1 .. Unknown - 1]
  /\ Packet \subseteq Nat
  /\ None \notin Nat
  /\ Interval \in [Node -> Nat]
  /\ {Overhead, Coords, MaxAir, MaxChanges} \subseteq Nat

VARIABLES
  route,   \* route[n]: link MTUs from n to the other end
  mtu,     \* mtu[n]: PathMtuState of n
  app,     \* app[n]: size of the packets of an application at n
  net,     \* messages on the way
  silent,  \* silent[n]: do routers withhold errors for n, having sent one a moment ago?
  lowest,  \* history: smallest link MTU of n's routes so far
  calm,    \* history: time since a report below n's MTU, as far as it matters
  changes  \* number of changes and losses

vars == <<route, mtu, app, net, silent, lowest, calm, changes>>

-----------------------------------------------------------------------------
(* PathMtuState.                                                           *)

Patience(n) == 2 * Interval[n]

PathMtuState(n) == [
  current  : Mtu,                           \* current_mtu
  observed : Mtu,                           \* last_observed_mtu
  changed  : BOOLEAN,                       \* observed_changed
  notified : 0 .. Interval[n] \cup {None},  \* age of last_notification_time
  count    : 0 .. 3,                        \* consecutive_increase_count, up to 3
  first    : 0 .. Patience(n) \cup {None},  \* age of first_increase_time
  pending  : 0 .. Unknown]                  \* pending_increase_mtu

NewState == [current |-> Unknown, observed |-> Unknown, changed |-> FALSE,
             notified |-> None, count |-> 0, first |-> None, pending |-> 0]

Smaller(a, b) == IF a < b THEN a ELSE b

\* Each send: never above the MTU of the first link.
SeedSourceMtu(s, m) == [s EXCEPT !.current = Smaller(@, m)]

\* Wrong variant: what comes in is taken for what can be sent.
ObserveForSending(s, m) ==
  [s EXCEPT !.changed = @ \/ m # s.observed, !.observed = m,
            !.current = Smaller(@, m)]

ObserveIncomingMtu(s, m) ==
  [s EXCEPT !.changed = @ \/ m # s.observed, !.observed = m]

\* Wrong variant: a report is not repeated.
NotifyOnChange(n, s) ==
  /\ s.observed # Unknown
  /\ s.notified = None \/ (s.changed /\ s.observed < s.current)

\* The first measurement, a change to less than this end itself may send, or the
\* interval.
ShouldSendNotification(n, s) ==
  /\ s.observed # Unknown
  /\ \/ s.notified = None
     \/ s.changed /\ s.observed < s.current
     \/ s.notified = Interval[n]

BuildNotification(s) == [s EXCEPT !.notified = 0, !.changed = FALSE]

Lowered(s, m) == [s EXCEPT !.current = m, !.count = 0, !.first = None]

\* One more report of m, more than the current MTU.  A proposal of another value
\* begins anew; a report that equals the current MTU does not interrupt it.
Voted(s, m) ==
  IF m = s.pending THEN [s EXCEPT !.count = Smaller(3, @ + 1)]
  ELSE [s EXCEPT !.pending = m, !.count = 1, !.first = 0]

Confirmed(n, s) == s.count = 3 /\ s.first = Patience(n)

\* Wrong variant: a smaller value leaves the proposal as it is.
ApplyLeavingProposal(n, s, m) ==
  IF m < s.current THEN [s EXCEPT !.current = m]
  ELSE IF m = s.current THEN s
  ELSE IF Confirmed(n, Voted(s, m)) THEN Lowered(Voted(s, m), m)
  ELSE Voted(s, m)

\* The pending value survives a decrease though first_increase_time does not: a
\* value proposed before it cannot be proposed again (Stuck, below).
ApplyNotification(n, s, m) ==
  IF m < s.current THEN Lowered(s, m)
  ELSE IF m = s.current THEN s
  ELSE IF Confirmed(n, Voted(s, m)) THEN Lowered(Voted(s, m), m)
  ELSE Voted(s, m)

-----------------------------------------------------------------------------
(* Routes and messages.                                                    *)

Least(r) == CHOOSE m \in {r[i] : i \in DOMAIN r} : \A i \in DOMAIN r : m <= r[i]

\* The links of a route that do not take a datagram of this size.
Narrow(r, size) == {i \in DOMAIN r : r[i] < size}

\* A session message with the path MTU its envelope collected, and the value it
\* reports if it is a notification.
SessionMessage == [type : {"session"}, to : Node, mtu : Mtu, report : Mtu \cup {None}]
MtuExceeded == [type : {"exceeded"}, to : Node, mtu : Mtu]
Message == SessionMessage \cup MtuExceeded

EffectiveIpv6Mtu(m) == IF m > Overhead THEN m - Overhead ELSE 0

-----------------------------------------------------------------------------
(* Sending.                                                                *)

Init ==
  /\ \E r1 \in Routes[1], r2 \in Routes[2] : route = [n \in Node |-> IF n = 1 THEN r1 ELSE r2]
  /\ mtu = [n \in Node |-> NewState]
  /\ app = [n \in Node |-> EffectiveIpv6Mtu(TransportMtu[n])]
  /\ net = {}
  /\ silent = [n \in Node |-> FALSE]
  /\ lowest = [n \in Node |-> Least(route[n])]
  /\ calm = [n \in Node |-> Patience(n)]
  /\ changes = 0

\* send_session_datagram: s, the state of n, when it sends a datagram.
Seeded(n, s) == SeedSourceMtu(s, route[n][1])

\* The datagram has arrived at the last link.
Sent(n, report) ==
  net \cup {[type |-> "session", to |-> Other(n), mtu |-> Least(route[n]), report |-> report]}

\* The packet is larger than the node itself, or the path, can take.
Refused(n) ==
  LET own == EffectiveIpv6Mtu(TransportMtu[n])
      path == EffectiveIpv6Mtu(mtu[n].current)
  IN  IF app[n] > own THEN {own}
      ELSE IF path < own /\ app[n] > path THEN {path}
      ELSE {}

\* What build_packet_too_big reports, taken by the application's stack: from now on
\* its packets have m bytes.
PacketTooBig(n, m) == [app EXCEPT ![n] = m]

\* handle_tun_outbound refuses: the application hears of the MTU.  (A packet that is
\* refused within 100 ms of another is dropped without a word, that is, unseen here.)
SendPacketTooBig(n) ==
  /\ \E m \in Refused(n) : app' = PacketTooBig(n, m)
  /\ UNCHANGED <<route, mtu, net, silent, lowest, calm, changes>>

\* The router before the first narrow link drops the datagram and tells the source
\* what that link takes; the first node is the source itself.
Dropped(n, size) ==
  LET k == CHOOSE i \in Narrow(route[n], size) : \A j \in Narrow(route[n], size) : i <= j
  IN  IF k = 1 \/ silent[n] THEN UNCHANGED <<net, silent>>
      ELSE /\ net' = net \cup {[type |-> "exceeded", to |-> n, mtu |-> route[n][k]]}
           /\ silent' = [silent EXCEPT ![n] = TRUE]

\* send_session_data for a packet, with or without coordinates (CP flag).
SendData(n, withCoords) ==
  LET size == app[n] + Overhead + (IF withCoords THEN Coords ELSE 0)
  IN  /\ Refused(n) = {}
      /\ withCoords => size <= TransportMtu[n]
      /\ Cardinality(net) < MaxAir
      /\ mtu' = [mtu EXCEPT ![n] = Seeded(n, @)]
      /\ IF Narrow(route[n], size) # {} THEN Dropped(n, size)
         ELSE net' = Sent(n, None) /\ UNCHANGED silent
      /\ UNCHANGED <<route, app, lowest, calm, changes>>

\* A message that fits every link: a small packet, a report, standalone coordinates.
SendSmall(n) ==
  /\ Cardinality(net) < MaxAir
  /\ mtu' = [mtu EXCEPT ![n] = Seeded(n, @)]
  /\ net' = Sent(n, None)
  /\ UNCHANGED <<route, app, silent, lowest, calm, changes>>

\* check_session_mmp_reports.
Notify(n) ==
  /\ ShouldSendNotification(n, mtu[n])
  /\ Cardinality(net) < MaxAir
  /\ mtu' = [mtu EXCEPT ![n] = Seeded(n, BuildNotification(@))]
  /\ net' = Sent(n, mtu[n].observed)
  /\ UNCHANGED <<route, app, silent, lowest, calm, changes>>

-----------------------------------------------------------------------------
(* Receiving.                                                              *)

Hears(n, s, m) ==
  /\ mtu' = [mtu EXCEPT ![n] = ApplyNotification(n, s, m)]
  /\ calm' = [calm EXCEPT ![n] = IF m < s.current THEN 0 ELSE @]

\* handle_encrypted_session_msg: every message shows its path MTU, and a
\* notification is applied (handle_session_path_mtu_notification).
ReceiveSession(n, m) ==
  LET s == ObserveIncomingMtu(mtu[n], m.mtu)
  IN  /\ m \in net /\ m.type = "session" /\ m.to = n
      /\ net' = net \ {m}
      /\ IF m.report # None THEN Hears(n, s, m.report)
         ELSE mtu' = [mtu EXCEPT ![n] = s] /\ UNCHANGED calm
      /\ UNCHANGED <<route, app, silent, lowest, changes>>

HandleMtuExceeded(n, m) ==
  /\ m \in net /\ m.type = "exceeded" /\ m.to = n
  /\ net' = net \ {m}
  /\ Hears(n, mtu[n], m.mtu)
  /\ UNCHANGED <<route, app, silent, lowest, changes>>

-----------------------------------------------------------------------------
(* The environment.                                                        *)

Older(age, limit) == IF age = None THEN None ELSE Smaller(limit, age + 1)

Tick ==
  /\ mtu' = [n \in Node |-> [mtu[n] EXCEPT !.notified = Older(@, Interval[n]),
                                           !.first = Older(@, Patience(n))]]
  /\ calm' = [n \in Node |-> Older(calm[n], Patience(n))]
  /\ UNCHANGED <<route, app, net, silent, lowest, changes>>

\* The interval of the routers' limiter (100 ms) ends.
ErrorsAgain(n) ==
  /\ silent[n]
  /\ silent' = [silent EXCEPT ![n] = FALSE]
  /\ UNCHANGED <<route, mtu, app, net, lowest, calm, changes>>

Change == changes < MaxChanges /\ changes' = changes + 1

RouteChanges(n, r) ==
  /\ Change
  /\ route' = [route EXCEPT ![n] = r]
  /\ lowest' = [lowest EXCEPT ![n] = Smaller(@, Least(r))]
  /\ UNCHANGED <<mtu, app, net, silent, calm>>

\* Both ends hold a new session.  What was encrypted in the old one is not read,
\* errors are in the clear.
NewSession ==
  /\ Change
  /\ mtu' = [n \in Node |-> NewState]
  /\ net' = {m \in net : m.type = "exceeded"}
  /\ calm' = [n \in Node |-> Patience(n)]
  /\ UNCHANGED <<route, app, silent, lowest>>

ClampTcpMss(n, size) == Smaller(size, EffectiveIpv6Mtu(TransportMtu[n]))

\* The TUN reads the first packet of a new flow; the SYN of a TCP connection is
\* clamped.
NewFlow(n, size, tcp) ==
  /\ Change
  /\ app' = [app EXCEPT ![n] = IF tcp THEN ClampTcpMss(n, size) ELSE size]
  /\ UNCHANGED <<route, mtu, net, silent, lowest, calm>>

Lose(m) ==
  /\ Change
  /\ net' = net \ {m}
  /\ UNCHANGED <<route, mtu, app, silent, lowest, calm>>

Next ==
  \/ \E n \in Node : \/ SendPacketTooBig(n) \/ SendSmall(n) \/ Notify(n)
                     \/ \E withCoords \in BOOLEAN : SendData(n, withCoords)
                     \/ \E m \in net : ReceiveSession(n, m) \/ HandleMtuExceeded(n, m)
                     \/ ErrorsAgain(n)
                     \/ \E r \in Routes[n] : RouteChanges(n, r)
                     \/ \E size \in Packet, tcp \in BOOLEAN : NewFlow(n, size, tcp)
  \/ \E m \in net : Lose(m)
  \/ NewSession
  \/ Tick

\* Applications go on sending and each end its reports, the clock runs, the
\* limiters' intervals end, and what is not lost arrives.
Fairness ==
  /\ \A n \in Node :
       /\ WF_vars(SendPacketTooBig(n)) /\ SF_vars(SendData(n, FALSE))
       /\ SF_vars(SendSmall(n)) /\ SF_vars(Notify(n))
       /\ WF_vars(ErrorsAgain(n))
       /\ WF_vars(\E m \in net : ReceiveSession(n, m) \/ HandleMtuExceeded(n, m))
  /\ WF_vars(Tick)

Spec == Init /\ [][Next]_vars /\ Fairness

-----------------------------------------------------------------------------
(* Properties.                                                             *)

\* Every variable has its type.
TypeOK ==
  /\ route = [n \in Node |-> route[n]] /\ \A n \in Node : route[n] \in Routes[n]
  /\ mtu = [n \in Node |-> mtu[n]] /\ \A n \in Node : mtu[n] \in PathMtuState(n)
  /\ app \in [Node -> Nat]
  /\ net \subseteq Message
  /\ silent \in [Node -> BOOLEAN]
  /\ lowest \in [Node -> Mtu]
  /\ calm = [n \in Node |-> calm[n]] /\ \A n \in Node : calm[n] \in 0 .. Patience(n)
  /\ changes \in 0 .. MaxChanges

\* No source sends in smaller pieces than the worst route it ever had calls for,
\* and no end reports less than the other's worst route: the two directions are not
\* mixed up (PathMtuState serves both), and late reports and errors do no harm.
NeverTooLow ==
  \A n \in Node : /\ mtu[n].current >= lowest[n]
                  /\ mtu[n].observed >= lowest[Other(n)]

\* Hysteresis (apply_notification): for two notification intervals after it heard of
\* a smaller MTU a source does not raise its own, whatever old reports and errors
\* come late and in which order.  A new session starts without an MTU.
CalmStep ==
  \A n \in Node : /\ mtu'[n].current > mtu[n].current
                 /\ mtu'[n].current # Unknown
                 => calm[n] >= Patience(n)
NoFlapping == [][CalmStep]_vars

\* The value to rise to is the one pending since before a decrease: first_increase_time
\* is None and stays None, and the rise is never confirmed (mmp/mod.rs 437-446).
Stuck(n) == mtu[n].pending = Least(route[n]) /\ mtu[n].first = None

\* There is no black hole: after the last change of a route every application sends
\* packets that its path takes, and the source's MTU is that of the path, unless the
\* way up is stuck.
Follows ==
  <>[](\A n \in Node : /\ app[n] + Overhead <= Least(route[n])
                       /\ \/ mtu[n].current = Least(route[n])
                          \/ mtu[n].current < Least(route[n]) /\ Stuck(n))

=============================================================================
