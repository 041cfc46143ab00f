-------------------------- MODULE MeasurementProofs --------------------------
(***************************************************************************)
(* What a node measures of a path.  Its MTU: for all routes, intervals and *)
(* sizes, and whatever is lost, late or reordered, no source goes below    *)
(* its worst route, and none raises its MTU within two intervals of a      *)
(* lower report.  Its loss, round-trip time and jitter: across a rekey, at *)
(* any moment of it, no end derives a value that the link does not have.   *)
(***************************************************************************)
EXTENDS PathMtu, LinkMetrics, FiniteSetTheorems, WellFoundedInduction, TLAPS

-----------------------------------------------------------------------------
(* Routes.                                                                 *)

\* A non-empty set of natural numbers has a smallest one.
LEMMA SmallestOf ==
  ASSUME NEW S \in SUBSET Nat, S # {}
  PROVE  \E x \in S : \A y \in S : x <= y
<1> DEFINE R == OpToRel(<, Nat)
<1>1. \E x \in S : \A y \in S : <<y, x>> \notin R
  <2> HIDE DEF R
  <2>1. IsWellFoundedOn(R, Nat)
    BY NatLessThanWellFounded DEF R
  <2> QED BY <2>1, WFMin
<1>2. \A x, y \in Nat : y < x => <<y, x>> \in R
  BY DEF OpToRel
<1> HIDE DEF R
<1>3. PICK x \in S : \A y \in S : <<y, x>> \notin R
  BY <1>1
<1>4. \A y \in S : ~(y < x)
  BY <1>2, <1>3, Zenon
<1> QED BY <1>4

\* What the proofs use of a route: each link has an MTU, none is below the least.
RouteOK(r) ==
  /\ r[1] \in Mtu /\ Least(r) \in Mtu
  /\ Least(r) <= r[1]
  /\ \A i \in DOMAIN r : r[i] \in Mtu /\ Least(r) <= r[i]

LEMMA RoutesAreOK ==
  ASSUME NEW n \in Node, NEW r \in Routes[n]
  PROVE  RouteOK(r)
<1>1. r \in Seq(1 .. Unknown - 1) /\ r # <<>> /\ Unknown \in Nat
  BY PathAssumption
<1>2. 1 \in DOMAIN r /\ \A i \in DOMAIN r : r[i] \in 1 .. Unknown - 1
  BY <1>1
<1> DEFINE S == {r[i] : i \in DOMAIN r}
<1>3. S \in SUBSET Nat /\ S # {}
  BY <1>1, <1>2
<1>4. \E m \in S : \A i \in DOMAIN r : m <= r[i]
  <2>1. PICK m \in S : \A y \in S : m <= y
    <3> HIDE DEF S
    <3> QED BY <1>3, SmallestOf
  <2> QED BY <2>1
<1>5. Least(r) \in S /\ \A i \in DOMAIN r : Least(r) <= r[i]
  BY <1>4 DEF Least
<1>6. Least(r) \in 1 .. Unknown - 1
  BY <1>2, <1>5
<1> QED BY <1>1, <1>2, <1>5, <1>6 DEF RouteOK, Mtu

\* The first link too narrow for a datagram is a link of the route.
LEMMA FirstNarrowLink ==
  ASSUME NEW n \in Node, NEW r \in Routes[n], NEW size, Narrow(r, size) # {}
  PROVE  (CHOOSE i \in Narrow(r, size) : \A j \in Narrow(r, size) : i <= j) \in DOMAIN r
<1>1. Narrow(r, size) \in SUBSET Nat /\ Narrow(r, size) \subseteq DOMAIN r
  BY PathAssumption DEF Narrow
<1>2. \E i \in Narrow(r, size) : \A j \in Narrow(r, size) : i <= j
  BY <1>1, SmallestOf
<1> QED BY <1>1, <1>2

-----------------------------------------------------------------------------
(* The inductive invariant.                                                *)

\* What one end knows, when low and back are the worst MTUs of its way out and of the
\* way back, and it has not heard of a lower MTU for this long.
EndOK(n, s, low, back, quiet) ==
  /\ s \in PathMtuState(n)
  /\ low <= s.current /\ back <= s.observed
  /\ s.first # None => s.first <= quiet

\* A message reports no less than the worst route of the end it reports about.
MessageOK(m) ==
  /\ m \in Message
  /\ m.type = "session" =>
       /\ lowest[Other(m.to)] <= m.mtu
       /\ m.report # None => lowest[m.to] <= m.report
  /\ m.type = "exceeded" => lowest[m.to] <= m.mtu

Functions ==
  /\ route = [n \in Node |-> route[n]] /\ mtu = [n \in Node |-> mtu[n]]
  /\ calm = [n \in Node |-> calm[n]]
  /\ app \in [Node -> Nat] /\ silent \in [Node -> BOOLEAN]
  /\ lowest \in [Node -> Mtu]
  /\ changes \in 0 .. MaxChanges

\* NeverTooLow does not see what is still on its way, nor NoFlapping when the
\* proposal that is confirmed was made: both need the messages and the age of the
\* proposal.
IInv ==
  /\ Functions
  /\ \A n \in Node :
       /\ route[n] \in Routes[n] /\ lowest[n] <= Least(route[n])
       /\ calm[n] \in 0 .. Patience(n)
       /\ EndOK(n, mtu[n], lowest[n], lowest[Other(n)], calm[n])
  /\ \A m \in net : MessageOK(m)

LEMMA TypesFromIInv == IInv => TypeOK
BY DEF IInv, Functions, TypeOK, EndOK, MessageOK

LEMMA NotTooLowFromIInv == IInv => NeverTooLow
<1> SUFFICES ASSUME IInv, NEW n \in Node
             PROVE  mtu[n].current >= lowest[n] /\ mtu[n].observed >= lowest[Other(n)]
  BY DEF NeverTooLow
<1>1. /\ mtu[n].current \in Nat /\ mtu[n].observed \in Nat
      /\ lowest[n] \in Nat /\ lowest[Other(n)] \in Nat
      /\ lowest[n] <= mtu[n].current /\ lowest[Other(n)] <= mtu[n].observed
  <2>1. Other(n) \in Node
    BY DEF Other, Node
  <2>2. EndOK(n, mtu[n], lowest[n], lowest[Other(n)], calm[n])
    BY DEF IInv
  <2>3. lowest[n] \in Mtu /\ lowest[Other(n)] \in Mtu
    BY <2>1 DEF IInv, Functions
  <2> QED BY SMTT(30), <2>2, <2>3, PathAssumption DEF EndOK, PathMtuState, Mtu
<1> QED BY <1>1

-----------------------------------------------------------------------------
(* The operations of PathMtuState.                                         *)

LEMMA Numbers ==
  ASSUME NEW n \in Node
  PROVE  /\ Interval[n] \in Nat /\ Patience(n) \in Nat
         /\ Unknown \in Nat /\ Unknown \in Mtu /\ None \notin Nat
         /\ Other(n) \in Node /\ Other(Other(n)) = n /\ Other(n) # n
<1>1. Interval[n] \in Nat /\ Unknown \in Nat \ {0} /\ None \notin Nat
  BY PathAssumption
<1>2. Patience(n) \in Nat
  BY <1>1 DEF Patience
<1>3. CASE n = 1
  BY <1>1, <1>2, <1>3 DEF Mtu, Other, Node
<1>4. CASE n = 2
  BY <1>1, <1>2, <1>4 DEF Mtu, Other, Node
<1> QED BY <1>3, <1>4 DEF Node

LEMMA NewEnd ==
  ASSUME NEW n \in Node, NEW low \in Mtu, NEW back \in Mtu
  PROVE  EndOK(n, NewState, low, back, Patience(n))
BY Numbers, PathAssumption DEF EndOK, NewState, PathMtuState, Mtu

LEMMA SeedEnd ==
  ASSUME NEW n \in Node, NEW s, NEW low \in Mtu, NEW back \in Mtu, NEW quiet \in Nat,
         EndOK(n, s, low, back, quiet), NEW m \in Mtu, low <= m
  PROVE  EndOK(n, SeedSourceMtu(s, m), low, back, quiet)
BY Numbers DEF EndOK, SeedSourceMtu, PathMtuState, Smaller, Mtu

LEMMA ObserveEnd ==
  ASSUME NEW n \in Node, NEW s, NEW low \in Mtu, NEW back \in Mtu, NEW quiet \in Nat,
         EndOK(n, s, low, back, quiet), NEW m \in Mtu, back <= m
  PROVE  EndOK(n, ObserveIncomingMtu(s, m), low, back, quiet)
BY Numbers DEF EndOK, ObserveIncomingMtu, PathMtuState, Mtu

LEMMA BuildEnd ==
  ASSUME NEW n \in Node, NEW s, NEW low \in Mtu, NEW back \in Mtu, NEW quiet \in Nat,
         EndOK(n, s, low, back, quiet)
  PROVE  EndOK(n, BuildNotification(s), low, back, quiet)
<1>1. s \in PathMtuState(n) /\ 0 \in 0 .. Interval[n]
  BY Numbers DEF EndOK
<1>2. BuildNotification(s) \in PathMtuState(n)
  BY <1>1 DEF BuildNotification, PathMtuState
<1>3. /\ BuildNotification(s).current = s.current
      /\ BuildNotification(s).observed = s.observed
      /\ BuildNotification(s).first = s.first
  BY <1>1 DEF BuildNotification, PathMtuState
<1> QED BY <1>2, <1>3 DEF EndOK

LEMMA LowerEnd ==
  ASSUME NEW n \in Node, NEW s, NEW low \in Mtu, NEW back \in Mtu, NEW quiet \in Nat,
         EndOK(n, s, low, back, quiet), NEW m \in Mtu, low <= m, NEW later \in Nat
  PROVE  EndOK(n, Lowered(s, m), low, back, later)
<1>1. s \in PathMtuState(n) /\ 0 \in 0 .. 3 /\ None \in 0 .. Patience(n) \cup {None}
  BY DEF EndOK
<1>2. Lowered(s, m) \in PathMtuState(n)
  BY <1>1 DEF Lowered, PathMtuState
<1>3. /\ Lowered(s, m).current = m /\ Lowered(s, m).observed = s.observed
      /\ Lowered(s, m).first = None
  BY <1>1 DEF Lowered, PathMtuState
<1> QED BY <1>2, <1>3 DEF EndOK

LEMMA VoteEnd ==
  ASSUME NEW n \in Node, NEW s, NEW low \in Mtu, NEW back \in Mtu, NEW quiet \in Nat,
         EndOK(n, s, low, back, quiet), NEW m \in Mtu
  PROVE  EndOK(n, Voted(s, m), low, back, quiet)
<1>1. /\ s \in PathMtuState(n) /\ s.count \in 0 .. 3 /\ 1 \in 0 .. 3
      /\ 0 \in 0 .. Patience(n) \cup {None} /\ m \in 0 .. Unknown
  BY Numbers DEF EndOK, PathMtuState, Mtu
<1>2. CASE m = s.pending
  <2>1. Smaller(3, s.count + 1) \in 0 .. 3
    BY <1>1 DEF Smaller
  <2>2. Voted(s, m) = [s EXCEPT !.count = Smaller(3, s.count + 1)]
    BY <1>2 DEF Voted
  <2>3. Voted(s, m) \in PathMtuState(n)
    BY <1>1, <2>1, <2>2 DEF PathMtuState
  <2>4. /\ Voted(s, m).current = s.current /\ Voted(s, m).observed = s.observed
        /\ Voted(s, m).first = s.first
    BY <1>1, <2>2 DEF PathMtuState
  <2> QED BY <2>3, <2>4 DEF EndOK
<1>3. CASE m # s.pending
  <2>1. Voted(s, m) = [s EXCEPT !.pending = m, !.count = 1, !.first = 0]
    BY <1>3 DEF Voted
  <2>2. Voted(s, m) \in PathMtuState(n)
    BY <1>1, <2>1 DEF PathMtuState
  <2>3. /\ Voted(s, m).current = s.current /\ Voted(s, m).observed = s.observed
        /\ Voted(s, m).first = 0
    BY <1>1, <2>1 DEF PathMtuState
  <2> QED BY <2>2, <2>3 DEF EndOK
<1> QED BY <1>2, <1>3

\* A report is applied: the new state is in order, and if the MTU rises, it was calm
\* for long enough.
LEMMA ApplyEnd ==
  ASSUME NEW n \in Node, NEW s, NEW low \in Mtu, NEW back \in Mtu,
         NEW quiet \in 0 .. Patience(n),
         EndOK(n, s, low, back, quiet), NEW m \in Mtu, low <= m
  PROVE  LET t == ApplyNotification(n, s, m)
         IN  /\ EndOK(n, t, low, back, IF m < s.current THEN 0 ELSE quiet)
             /\ t.current > s.current => quiet >= Patience(n)
<1> DEFINE t == ApplyNotification(n, s, m)
<1>0. quiet \in Nat /\ s.current \in Nat /\ m \in Nat /\ Patience(n) \in Nat
  BY Numbers DEF EndOK, PathMtuState, Mtu
<1>1. CASE m < s.current
  <2>1. t = Lowered(s, m)
    BY <1>1 DEF ApplyNotification
  <2>2. t.current = m
    BY <2>1 DEF Lowered, EndOK, PathMtuState
  <2>3. EndOK(n, t, low, back, 0)
    BY <2>1, <1>0, LowerEnd
  <2> QED BY <1>0, <1>1, <2>2, <2>3
<1>2. CASE m = s.current
  <2>1. t = s
    BY <1>2, <1>0 DEF ApplyNotification
  <2> QED BY <1>0, <1>2, <2>1
<1>3. CASE m > s.current
  <2> DEFINE v == Voted(s, m)
  <2>1. EndOK(n, v, low, back, quiet)
    BY <1>0, VoteEnd
  <2>2. v.current = s.current
    BY DEF Voted, EndOK, PathMtuState
  <2>3. CASE Confirmed(n, v)
    <3>1. t = Lowered(v, m)
      BY <1>0, <1>3, <2>3 DEF ApplyNotification
    <3>2. EndOK(n, t, low, back, quiet)
      BY <3>1, <2>1, <1>0, LowerEnd
    <3>3. quiet >= Patience(n)
      BY <1>0, <2>1, <2>3, Numbers DEF Confirmed, EndOK
    <3> QED BY <1>0, <1>3, <3>2, <3>3
  <2>4. CASE ~ Confirmed(n, v)
    <3>1. t = v
      BY <1>0, <1>3, <2>4 DEF ApplyNotification
    <3> QED BY <1>0, <1>3, <2>1, <2>2, <3>1
  <2> QED BY <2>3, <2>4
<1> QED BY <1>0, <1>1, <1>2, <1>3

\* Time passes.
LEMMA OlderEnd ==
  ASSUME NEW n \in Node, NEW s, NEW low \in Mtu, NEW back \in Mtu,
         NEW quiet \in 0 .. Patience(n),
         EndOK(n, s, low, back, quiet)
  PROVE  /\ EndOK(n, [s EXCEPT !.notified = Older(@, Interval[n]),
                               !.first = Older(@, Patience(n))],
                  low, back, Older(quiet, Patience(n)))
         /\ Older(quiet, Patience(n)) \in 0 .. Patience(n)
<1> DEFINE t == [s EXCEPT !.notified = Older(s.notified, Interval[n]),
                          !.first = Older(s.first, Patience(n))]
<1>1. \A limit \in Nat : \A age \in 0 .. limit \cup {None} :
        Older(age, limit) \in 0 .. limit \cup {None}
  BY PathAssumption DEF Older, Smaller
<1>2. /\ s \in PathMtuState(n)
      /\ s.notified \in 0 .. Interval[n] \cup {None}
      /\ s.first \in 0 .. Patience(n) \cup {None}
  BY DEF EndOK, PathMtuState
<1>3. /\ Older(s.notified, Interval[n]) \in 0 .. Interval[n] \cup {None}
      /\ Older(s.first, Patience(n)) \in 0 .. Patience(n) \cup {None}
  BY <1>1, <1>2, Numbers
<1>4. t \in PathMtuState(n)
  BY <1>2, <1>3 DEF PathMtuState
<1>5. /\ t.current = s.current /\ t.observed = s.observed
      /\ t.first = Older(s.first, Patience(n))
  BY <1>2 DEF PathMtuState
<1>6. Older(quiet, Patience(n)) \in 0 .. Patience(n)
  BY Numbers DEF Older, Smaller
<1>7. t.first # None => t.first <= Older(quiet, Patience(n))
  BY <1>2, <1>5, Numbers DEF EndOK, Older, Smaller
<1> QED BY <1>4, <1>5, <1>6, <1>7 DEF EndOK

-----------------------------------------------------------------------------
(* Steps.                                                                  *)

LEMMA InitIInv == Init => IInv
<1> SUFFICES ASSUME Init PROVE IInv
  OBVIOUS
<1>1. PICK r1 \in Routes[1], r2 \in Routes[2] :
        route = [n \in Node |-> IF n = 1 THEN r1 ELSE r2]
  BY DEF Init
<1>2. \A n \in Node : route[n] \in Routes[n]
  BY <1>1 DEF Node
<1>3. \A n \in Node : Least(route[n]) \in Mtu
  BY <1>2, RoutesAreOK DEF RouteOK
<1>4. lowest = [n \in Node |-> Least(route[n])]
  BY DEF Init
<1>5. \A n \in Node : lowest[n] \in Mtu /\ lowest[n] <= Least(route[n])
  BY <1>3, <1>4, PathAssumption DEF Mtu
<1>6. \A n \in Node : EffectiveIpv6Mtu(TransportMtu[n]) \in Nat
  BY PathAssumption DEF EffectiveIpv6Mtu
<1>7. Functions
  BY <1>1, <1>4, <1>5, <1>6, PathAssumption DEF Init, Functions
<1>8. \A n \in Node : /\ calm[n] \in 0 .. Patience(n)
                      /\ EndOK(n, mtu[n], lowest[n], lowest[Other(n)], calm[n])
  <2> TAKE n \in Node
  <2>1. mtu[n] = NewState /\ calm[n] = Patience(n)
    BY DEF Init
  <2>2. EndOK(n, NewState, lowest[n], lowest[Other(n)], Patience(n))
    BY <1>5, Numbers, NewEnd
  <2> QED BY <2>1, <2>2, Numbers
<1>9. net = {}
  BY DEF Init
<1> QED BY <1>2, <1>5, <1>7, <1>8, <1>9 DEF IInv

\* What is known of one end.
LEMMA EndFacts ==
  ASSUME IInv, NEW n \in Node
  PROVE  /\ EndOK(n, mtu[n], lowest[n], lowest[Other(n)], calm[n])
         /\ calm[n] \in 0 .. Patience(n) /\ calm[n] \in Nat
         /\ lowest[n] \in Mtu /\ lowest[Other(n)] \in Mtu
         /\ mtu[n].current \in Nat
         /\ RouteOK(route[n]) /\ lowest[n] <= Least(route[n])
         /\ lowest[n] <= route[n][1]
<1>1. /\ EndOK(n, mtu[n], lowest[n], lowest[Other(n)], calm[n])
      /\ calm[n] \in 0 .. Patience(n)
      /\ route[n] \in Routes[n] /\ lowest[n] <= Least(route[n])
  BY DEF IInv
<1>2. lowest[n] \in Mtu /\ lowest[Other(n)] \in Mtu
  BY Numbers DEF IInv, Functions
<1>3. RouteOK(route[n])
  BY <1>1, RoutesAreOK
<1>4. mtu[n].current \in Nat
  BY <1>1, Numbers DEF EndOK, PathMtuState, Mtu
<1>5. lowest[n] <= route[n][1]
  BY <1>1, <1>2, <1>3, Numbers DEF RouteOK, Mtu
<1>6. calm[n] \in Nat
  BY <1>1, Numbers
<1> QED BY <1>1, <1>2, <1>3, <1>4, <1>5, <1>6

\* A step of one end.
LEMMA OneEnd ==
  ASSUME IInv, UNCHANGED <<route, lowest>>,
         NEW n \in Node, NEW s, mtu' = [mtu EXCEPT ![n] = s],
         NEW c \in 0 .. Patience(n), calm' = [calm EXCEPT ![n] = c],
         EndOK(n, s, lowest[n], lowest[Other(n)], c),
         s.current > mtu[n].current => calm[n] >= Patience(n),
         app' \in [Node -> Nat], silent' \in [Node -> BOOLEAN],
         changes' \in 0 .. MaxChanges,
         \A m \in net' : m \in net \/ MessageOK(m)
  PROVE  IInv' /\ CalmStep
<1>1. Functions
  BY DEF IInv
<1>2. /\ mtu'[n] = s /\ calm'[n] = c
      /\ \A k \in Node \ {n} : mtu'[k] = mtu[k] /\ calm'[k] = calm[k]
      /\ mtu' = [k \in Node |-> mtu'[k]] /\ calm' = [k \in Node |-> calm'[k]]
  BY <1>1 DEF Functions
<1>3. Functions'
  BY <1>1, <1>2 DEF Functions
<1>4. \A k \in Node : /\ route'[k] \in Routes[k] /\ lowest'[k] <= Least(route'[k])
                      /\ calm'[k] \in 0 .. Patience(k)
                      /\ EndOK(k, mtu'[k], lowest'[k], lowest'[Other(k)], calm'[k])
  <2> TAKE k \in Node
  <2>1. route'[k] \in Routes[k] /\ lowest'[k] <= Least(route'[k])
    BY DEF IInv
  <2>2. CASE k = n
    BY <1>2, <2>1, <2>2
  <2>3. CASE k # n
    <3>1. mtu'[k] = mtu[k] /\ calm'[k] = calm[k]
      BY <1>2, <2>3
    <3>2. /\ calm[k] \in 0 .. Patience(k)
          /\ EndOK(k, mtu[k], lowest[k], lowest[Other(k)], calm[k])
      BY DEF IInv
    <3> QED BY <2>1, <3>1, <3>2
  <2> QED BY <2>2, <2>3
<1>5. \A m \in net' : MessageOK(m)'
  BY DEF IInv, MessageOK
<1>6. IInv'
  BY <1>3, <1>4, <1>5 DEF IInv
<1>7. CalmStep
  <2> SUFFICES ASSUME NEW k \in Node, mtu'[k].current > mtu[k].current
               PROVE  calm[k] >= Patience(k)
    BY DEF CalmStep
  <2>1. CASE k = n
    BY <1>2, <2>1
  <2>2. CASE k # n
    <3>1. mtu'[k].current = mtu[k].current /\ mtu[k].current \in Nat
      BY <1>2, <2>2, EndFacts
    <3> QED BY <3>1
  <2> QED BY <2>1, <2>2
<1> QED BY <1>6, <1>7

\* A step in which the ends keep their state.
LEMMA EndsRest ==
  ASSUME IInv, UNCHANGED <<route, lowest, mtu, calm>>,
         app' \in [Node -> Nat], silent' \in [Node -> BOOLEAN],
         changes' \in 0 .. MaxChanges, net' \subseteq net
  PROVE  IInv' /\ CalmStep
<1>1. Functions'
  BY DEF IInv, Functions
<1>2. \A m \in net' : MessageOK(m)'
  BY DEF IInv, MessageOK
<1>3. IInv'
  BY <1>1, <1>2 DEF IInv
<1>4. CalmStep
  BY EndFacts DEF CalmStep
<1> QED BY <1>3, <1>4

\* A datagram tells the other end no less than the worst route.
LEMMA SentOK ==
  ASSUME IInv, NEW n \in Node,
         NEW report \in Mtu \cup {None}, report # None => lowest[Other(n)] <= report
  PROVE  \A m \in Sent(n, report) : m \in net \/ MessageOK(m)
<1>1. /\ Least(route[n]) \in Mtu /\ lowest[n] <= Least(route[n])
      /\ Other(n) \in Node /\ Other(Other(n)) = n
  BY EndFacts, Numbers DEF RouteOK
<1> SUFFICES ASSUME NEW m, m = [type |-> "session", to |-> Other(n),
                                mtu |-> Least(route[n]), report |-> report]
             PROVE  MessageOK(m)
  BY DEF Sent
<1>2. m \in Message /\ m.type = "session" /\ m.to = Other(n)
      /\ m.mtu = Least(route[n]) /\ m.report = report
  BY <1>1 DEF Message, SessionMessage
<1> QED BY <1>1, <1>2 DEF MessageOK

\* Every send seeds the source's MTU.
LEMMA SeededEnd ==
  ASSUME IInv, NEW n \in Node, NEW s,
         EndOK(n, s, lowest[n], lowest[Other(n)], calm[n]), s.current = mtu[n].current
  PROVE  /\ EndOK(n, Seeded(n, s), lowest[n], lowest[Other(n)], calm[n])
         /\ ~(Seeded(n, s).current > mtu[n].current)
<1>1. /\ calm[n] \in Nat /\ lowest[n] \in Mtu /\ lowest[Other(n)] \in Mtu
      /\ route[n][1] \in Mtu /\ lowest[n] <= route[n][1] /\ mtu[n].current \in Nat
  BY EndFacts DEF RouteOK
<1>2. EndOK(n, Seeded(n, s), lowest[n], lowest[Other(n)], calm[n])
  BY <1>1, SeedEnd DEF Seeded
<1>3. Seeded(n, s).current = Smaller(s.current, route[n][1])
  BY DEF Seeded, SeedSourceMtu, EndOK, PathMtuState
<1>4. route[n][1] \in Nat
  BY <1>1, Numbers DEF Mtu
<1> QED BY <1>1, <1>2, <1>3, <1>4 DEF Smaller

\* The other parts of the state have their types.
LEMMA OtherParts ==
  ASSUME IInv
  PROVE  /\ app \in [Node -> Nat] /\ silent \in [Node -> BOOLEAN]
         /\ changes \in 0 .. MaxChanges /\ MaxChanges \in Nat
         /\ mtu = [k \in Node |-> mtu[k]] /\ calm = [k \in Node |-> calm[k]]
         /\ \A n \in Node : calm = [calm EXCEPT ![n] = calm[n]]
         /\ Change => changes' \in 0 .. MaxChanges
<1>1. Functions /\ MaxChanges \in Nat
  BY PathAssumption DEF IInv
<1>2. \A n \in Node : calm = [calm EXCEPT ![n] = calm[n]]
  BY <1>1 DEF Functions
<1> QED BY <1>1, <1>2 DEF Functions, Change

LEMMA PacketTooBigStep ==
  ASSUME IInv, NEW n \in Node, SendPacketTooBig(n)
  PROVE  IInv' /\ CalmStep
<1>1. TransportMtu[n] \in Nat /\ Overhead \in Nat /\ mtu[n].current \in Nat
  BY EndFacts, PathAssumption
<1>2. \A m \in Refused(n) : m \in Nat
  BY <1>1 DEF Refused, EffectiveIpv6Mtu
<1>3. app' \in [Node -> Nat]
  BY <1>2, OtherParts DEF SendPacketTooBig, PacketTooBig
<1> QED BY <1>3, OtherParts, EndsRest DEF SendPacketTooBig, PacketTooBig

LEMMA SmallStep ==
  ASSUME IInv, NEW n \in Node, SendSmall(n)
  PROVE  IInv' /\ CalmStep
<1> DEFINE s == Seeded(n, mtu[n])
<1>1. /\ EndOK(n, s, lowest[n], lowest[Other(n)], calm[n])
      /\ ~(s.current > mtu[n].current)
  BY EndFacts, SeededEnd
<1>2. \A m \in net' : m \in net \/ MessageOK(m)
  BY SentOK DEF SendSmall
<1>3. /\ mtu' = [mtu EXCEPT ![n] = s] /\ UNCHANGED <<route, lowest>>
      /\ calm' = [calm EXCEPT ![n] = calm[n]]
      /\ app' \in [Node -> Nat] /\ silent' \in [Node -> BOOLEAN]
      /\ changes' \in 0 .. MaxChanges
  BY OtherParts DEF SendSmall
<1> HIDE DEF s
<1> QED BY <1>1, <1>2, <1>3, EndFacts, OneEnd

LEMMA DataStep ==
  ASSUME IInv, NEW n \in Node, NEW withCoords \in BOOLEAN, SendData(n, withCoords)
  PROVE  IInv' /\ CalmStep
<1> DEFINE s == Seeded(n, mtu[n])
           size == app[n] + Overhead + (IF withCoords THEN Coords ELSE 0)
           k == CHOOSE i \in Narrow(route[n], size) :
                  \A j \in Narrow(route[n], size) : i <= j
           e == [type |-> "exceeded", to |-> n, mtu |-> route[n][k]]
<1>1. /\ EndOK(n, s, lowest[n], lowest[Other(n)], calm[n])
      /\ ~(s.current > mtu[n].current)
  BY EndFacts, SeededEnd
<1>2. /\ mtu' = [mtu EXCEPT ![n] = s] /\ UNCHANGED <<route, lowest>>
      /\ calm' = [calm EXCEPT ![n] = calm[n]]
      /\ app' \in [Node -> Nat] /\ changes' \in 0 .. MaxChanges
  BY OtherParts DEF SendData
<1>3. /\ silent' \in [Node -> BOOLEAN]
      /\ \A m \in net' : m \in net \/ MessageOK(m)
  <2>1. CASE Narrow(route[n], size) # {}
    <3>1. Dropped(n, size)
      BY <2>1 DEF SendData
    <3>2. \/ UNCHANGED <<net, silent>>
          \/ net' = net \cup {e} /\ silent' = [silent EXCEPT ![n] = TRUE]
      BY <3>1 DEF Dropped
    <3>3. k \in DOMAIN route[n]
      <4> HIDE DEF size
      <4> QED BY <2>1, FirstNarrowLink DEF IInv
    <3>4. route[n][k] \in Mtu /\ lowest[n] <= route[n][k]
      <4> HIDE DEF k
      <4>1. /\ lowest[n] \in Nat /\ Least(route[n]) \in Nat /\ lowest[n] <= Least(route[n])
            /\ route[n][k] \in Nat /\ route[n][k] \in Mtu /\ Least(route[n]) <= route[n][k]
        BY <3>3, EndFacts, Numbers DEF RouteOK, Mtu
      <4> QED BY <4>1
    <3>5. MessageOK(e)
      <4> HIDE DEF k
      <4>1. e \in Message /\ e.type = "exceeded" /\ e.to = n /\ e.mtu = route[n][k]
        BY <3>4 DEF Message, MtuExceeded
      <4> HIDE DEF e
      <4> QED BY <3>4, <4>1 DEF MessageOK
    <3> HIDE DEF e
    <3> QED BY <3>2, <3>5, OtherParts
  <2>2. CASE Narrow(route[n], size) = {}
    <3>1. net' = Sent(n, None) /\ UNCHANGED silent
      BY <2>2 DEF SendData
    <3> QED BY <3>1, SentOK, OtherParts
  <2> QED BY <2>1, <2>2
<1> HIDE DEF s
<1> QED BY <1>1, <1>2, <1>3, EndFacts, OneEnd

LEMMA NotifyStep ==
  ASSUME IInv, NEW n \in Node, Notify(n)
  PROVE  IInv' /\ CalmStep
<1> DEFINE b == BuildNotification(mtu[n])
           s == Seeded(n, b)
<1>1. EndOK(n, b, lowest[n], lowest[Other(n)], calm[n])
  BY EndFacts, BuildEnd
<1>2. b.current = mtu[n].current
  BY EndFacts DEF BuildNotification, EndOK, PathMtuState
<1>3. /\ EndOK(n, s, lowest[n], lowest[Other(n)], calm[n])
      /\ ~(s.current > mtu[n].current)
  <2> HIDE DEF b
  <2> QED BY <1>1, <1>2, SeededEnd
<1>4. mtu[n].observed \in Mtu /\ lowest[Other(n)] <= mtu[n].observed
  BY EndFacts DEF EndOK, PathMtuState
<1>5. \A m \in net' : m \in net \/ MessageOK(m)
  BY <1>4, SentOK DEF Notify
<1>6. /\ mtu' = [mtu EXCEPT ![n] = s] /\ UNCHANGED <<route, lowest>>
      /\ calm' = [calm EXCEPT ![n] = calm[n]]
      /\ app' \in [Node -> Nat] /\ silent' \in [Node -> BOOLEAN]
      /\ changes' \in 0 .. MaxChanges
  BY OtherParts DEF Notify
<1> HIDE DEF s
<1> QED BY <1>3, <1>5, <1>6, EndFacts, OneEnd

\* A report or an error is heard: s is the state of the end that hears it.
LEMMA HearsStep ==
  ASSUME IInv, NEW n \in Node, NEW s, NEW m \in Mtu, Hears(n, s, m),
         EndOK(n, s, lowest[n], lowest[Other(n)], calm[n]), s.current = mtu[n].current,
         lowest[n] <= m,
         UNCHANGED <<route, app, silent, lowest, changes>>, net' \subseteq net
  PROVE  IInv' /\ CalmStep
<1> DEFINE t == ApplyNotification(n, s, m)
           c == IF m < s.current THEN 0 ELSE calm[n]
<1>1. /\ EndOK(n, t, lowest[n], lowest[Other(n)], c)
      /\ t.current > mtu[n].current => calm[n] >= Patience(n)
  BY EndFacts, ApplyEnd
<1>2. c \in 0 .. Patience(n)
  BY EndFacts, Numbers
<1>3. mtu' = [mtu EXCEPT ![n] = t] /\ calm' = [calm EXCEPT ![n] = c]
  BY DEF Hears
<1>4. /\ app' \in [Node -> Nat] /\ silent' \in [Node -> BOOLEAN]
      /\ changes' \in 0 .. MaxChanges
  BY OtherParts
<1> HIDE DEF t, c
<1> QED BY <1>1, <1>2, <1>3, <1>4, OneEnd

LEMMA ReceiveStep ==
  ASSUME IInv, NEW n \in Node, NEW m \in net, ReceiveSession(n, m)
  PROVE  IInv' /\ CalmStep
<1> DEFINE s == ObserveIncomingMtu(mtu[n], m.mtu)
<1>1. /\ m.mtu \in Mtu /\ lowest[Other(n)] <= m.mtu
      /\ m.report # None => m.report \in Mtu /\ lowest[n] <= m.report
  BY DEF IInv, MessageOK, Message, SessionMessage, MtuExceeded, ReceiveSession
<1>2. EndOK(n, s, lowest[n], lowest[Other(n)], calm[n])
  BY <1>1, EndFacts, ObserveEnd
<1>3. s.current = mtu[n].current
  BY EndFacts DEF ObserveIncomingMtu, EndOK, PathMtuState
<1>4. UNCHANGED <<route, app, silent, lowest, changes>> /\ net' \subseteq net
  BY DEF ReceiveSession
<1>5. CASE m.report # None
  <2>1. Hears(n, s, m.report)
    BY <1>5 DEF ReceiveSession
  <2> HIDE DEF s
  <2> QED BY <1>1, <1>2, <1>3, <1>4, <1>5, <2>1, HearsStep
<1>6. CASE m.report = None
  <2>1. mtu' = [mtu EXCEPT ![n] = s] /\ UNCHANGED calm
    BY <1>6 DEF ReceiveSession
  <2>2. /\ calm' = [calm EXCEPT ![n] = calm[n]] /\ calm[n] \in 0 .. Patience(n)
        /\ app' \in [Node -> Nat] /\ silent' \in [Node -> BOOLEAN]
        /\ changes' \in 0 .. MaxChanges
        /\ ~(s.current > mtu[n].current)
    BY <1>3, <1>4, <2>1, OtherParts, EndFacts
  <2> HIDE DEF s
  <2> QED BY <1>2, <1>4, <2>1, <2>2, OneEnd
<1> QED BY <1>5, <1>6

LEMMA ExceededStep ==
  ASSUME IInv, NEW n \in Node, NEW m \in net, HandleMtuExceeded(n, m)
  PROVE  IInv' /\ CalmStep
<1>1. m.mtu \in Mtu /\ lowest[n] <= m.mtu
  BY DEF IInv, MessageOK, Message, SessionMessage, MtuExceeded, HandleMtuExceeded
<1>2. /\ UNCHANGED <<route, app, silent, lowest, changes>> /\ net' \subseteq net
      /\ Hears(n, mtu[n], m.mtu)
  BY DEF HandleMtuExceeded
<1> QED BY <1>1, <1>2, EndFacts, HearsStep

LEMMA TickStep ==
  ASSUME IInv, Tick
  PROVE  IInv' /\ CalmStep
<1>1. \A n \in Node :
        /\ calm'[n] \in 0 .. Patience(n)
        /\ EndOK(n, mtu'[n], lowest[n], lowest[Other(n)], calm'[n])
        /\ mtu'[n].current = mtu[n].current
  <2> TAKE n \in Node
  <2> DEFINE t == [mtu[n] EXCEPT !.notified = Older(@, Interval[n]),
                                 !.first = Older(@, Patience(n))]
  <2>1. mtu'[n] = t /\ calm'[n] = Older(calm[n], Patience(n))
    BY DEF Tick
  <2>2. /\ EndOK(n, t, lowest[n], lowest[Other(n)], Older(calm[n], Patience(n)))
        /\ Older(calm[n], Patience(n)) \in 0 .. Patience(n)
    BY EndFacts, OlderEnd
  <2>3. t.current = mtu[n].current
    BY EndFacts DEF EndOK, PathMtuState
  <2> QED BY <2>1, <2>2, <2>3
<1>2. /\ UNCHANGED <<route, app, net, silent, lowest, changes>>
      /\ mtu' = [n \in Node |-> mtu'[n]] /\ calm' = [n \in Node |-> calm'[n]]
  BY DEF Tick
<1>3. Functions'
  BY <1>2 DEF IInv, Functions
<1>4. \A m \in net' : MessageOK(m)'
  BY <1>2 DEF IInv, MessageOK
<1>5. IInv'
  BY <1>1, <1>2, <1>3, <1>4 DEF IInv
<1>6. CalmStep
  BY <1>1, EndFacts DEF CalmStep
<1> QED BY <1>5, <1>6

\* A new route makes the worst route no better.
LEMMA RouteStep ==
  ASSUME IInv, NEW n \in Node, NEW r \in Routes[n], RouteChanges(n, r)
  PROVE  IInv' /\ CalmStep
<1>1. RouteOK(r)
  BY RoutesAreOK
<1>2. /\ route' = [route EXCEPT ![n] = r]
      /\ lowest' = [lowest EXCEPT ![n] = Smaller(lowest[n], Least(r))]
      /\ UNCHANGED <<mtu, app, net, silent, calm>> /\ changes' \in 0 .. MaxChanges
  BY OtherParts DEF RouteChanges
<1>3. Functions
  BY DEF IInv
<1>4. /\ \A k \in Node : lowest[k] \in Nat /\ lowest[k] \in Mtu
      /\ Least(r) \in Nat /\ Least(r) \in Mtu
  BY <1>1, <1>3, Numbers DEF Functions, Mtu, RouteOK
<1>5. \A k \in Node : lowest'[k] \in Mtu /\ lowest'[k] \in Nat /\ lowest'[k] <= lowest[k]
  BY <1>2, <1>3, <1>4 DEF Functions, Smaller
<1>6. \A k \in Node : route'[k] \in Routes[k] /\ lowest'[k] <= Least(route'[k])
  <2> TAKE k \in Node
  <2>1. CASE k = n
    <3>1. route'[k] = r /\ lowest'[k] = Smaller(lowest[n], Least(r))
      BY <1>2, <1>3, <2>1 DEF Functions
    <3> QED BY <1>4, <2>1, <3>1 DEF Smaller
  <2>2. CASE k # n
    <3>1. route'[k] = route[k] /\ lowest'[k] = lowest[k]
      BY <1>2, <1>3, <2>2 DEF Functions
    <3> QED BY <3>1 DEF IInv
  <2> QED BY <2>1, <2>2
<1>7. Functions'
  BY <1>2, <1>3, <1>5 DEF Functions
<1>8. \A k \in Node :
        /\ calm'[k] \in 0 .. Patience(k)
        /\ EndOK(k, mtu'[k], lowest'[k], lowest'[Other(k)], calm'[k])
  <2> TAKE k \in Node
  <2>1. /\ EndOK(k, mtu[k], lowest[k], lowest[Other(k)], calm[k])
        /\ calm[k] \in 0 .. Patience(k)
    BY EndFacts
  <2>2. /\ mtu[k].current \in Nat /\ mtu[k].observed \in Nat
        /\ lowest[k] \in Nat /\ lowest'[k] \in Nat /\ lowest'[k] <= lowest[k]
        /\ lowest[Other(k)] \in Nat /\ lowest'[Other(k)] \in Nat
        /\ lowest'[Other(k)] <= lowest[Other(k)]
    BY <1>4, <1>5, <2>1, Numbers DEF EndOK, PathMtuState, Mtu
  <2>3. /\ lowest'[k] <= mtu[k].current /\ lowest'[Other(k)] <= mtu[k].observed
    BY <2>1, <2>2 DEF EndOK
  <2> QED BY <1>2, <2>1, <2>3 DEF EndOK
<1>9. \A m \in net' : MessageOK(m)'
  <2> SUFFICES ASSUME NEW m \in net PROVE MessageOK(m)'
    BY <1>2
  <2>1. MessageOK(m) /\ m \in Message
    BY DEF IInv, MessageOK
  <2>2. m.to \in Node /\ Other(m.to) \in Node
    BY <2>1, Numbers DEF Message, SessionMessage, MtuExceeded
  <2>3. /\ lowest[m.to] \in Nat /\ lowest'[m.to] \in Nat /\ lowest'[m.to] <= lowest[m.to]
        /\ lowest[Other(m.to)] \in Nat /\ lowest'[Other(m.to)] \in Nat
        /\ lowest'[Other(m.to)] <= lowest[Other(m.to)]
    BY <1>4, <1>5, <2>2
  <2>4. CASE m.type = "session"
    <3>1. m.mtu \in Nat /\ (m.report # None => m.report \in Nat)
      BY <2>1, <2>4, Numbers DEF Message, SessionMessage, MtuExceeded, Mtu
    <3> QED BY <2>1, <2>3, <2>4, <3>1 DEF MessageOK
  <2>5. CASE m.type = "exceeded"
    <3>1. m.mtu \in Nat
      BY <2>1, <2>5, Numbers DEF Message, SessionMessage, MtuExceeded, Mtu
    <3> QED BY <2>1, <2>3, <2>5, <3>1 DEF MessageOK
  <2> QED BY <2>1, <2>4, <2>5 DEF Message, SessionMessage, MtuExceeded
<1>10. IInv'
  BY <1>6, <1>7, <1>8, <1>9 DEF IInv
<1>11. CalmStep
  BY <1>2, EndFacts DEF CalmStep
<1> QED BY <1>10, <1>11

LEMMA SessionStep ==
  ASSUME IInv, NewSession
  PROVE  IInv' /\ CalmStep
<1>1. /\ mtu' = [n \in Node |-> NewState] /\ calm' = [n \in Node |-> Patience(n)]
      /\ UNCHANGED <<route, app, silent, lowest>> /\ net' \subseteq net
      /\ changes' \in 0 .. MaxChanges
  BY OtherParts DEF NewSession
<1>2. Functions'
  BY <1>1 DEF IInv, Functions
<1>3. \A n \in Node :
        /\ calm'[n] \in 0 .. Patience(n)
        /\ EndOK(n, mtu'[n], lowest[n], lowest[Other(n)], calm'[n])
  BY <1>1, EndFacts, NewEnd, Numbers
<1>4. \A m \in net' : MessageOK(m)'
  BY <1>1 DEF IInv, MessageOK
<1>5. IInv'
  BY <1>1, <1>2, <1>3, <1>4 DEF IInv
<1>6. CalmStep
  BY <1>1 DEF CalmStep, NewState
<1> QED BY <1>5, <1>6

LEMMA FlowStep ==
  ASSUME IInv, NEW n \in Node, NEW size \in Packet, NEW tcp \in BOOLEAN,
         NewFlow(n, size, tcp)
  PROVE  IInv' /\ CalmStep
<1>1. size \in Nat /\ TransportMtu[n] \in Nat /\ Overhead \in Nat
  BY PathAssumption
<1>2. ClampTcpMss(n, size) \in Nat
  BY <1>1 DEF ClampTcpMss, Smaller, EffectiveIpv6Mtu
<1>3. app' \in [Node -> Nat]
  BY <1>1, <1>2, OtherParts DEF NewFlow
<1> QED BY <1>3, OtherParts, EndsRest DEF NewFlow

LEMMA OtherStep ==
  ASSUME IInv, (\E n \in Node : ErrorsAgain(n)) \/ (\E m \in net : Lose(m)) \/ UNCHANGED vars
  PROVE  IInv' /\ CalmStep
<1>1. CASE \E n \in Node : ErrorsAgain(n)
  <2>1. silent' \in [Node -> BOOLEAN]
    BY <1>1, OtherParts DEF ErrorsAgain
  <2> QED BY <1>1, <2>1, OtherParts, EndsRest DEF ErrorsAgain
<1>2. CASE \E m \in net : Lose(m)
  BY <1>2, OtherParts, EndsRest DEF Lose
<1>3. CASE UNCHANGED vars
  BY <1>3, OtherParts, EndsRest DEF vars
<1> QED BY <1>1, <1>2, <1>3

LEMMA NextIInv == IInv /\ [Next]_vars => IInv' /\ CalmStep
<1> SUFFICES ASSUME IInv, [Next]_vars PROVE IInv' /\ CalmStep
  OBVIOUS
<1>1. CASE \E n \in Node : SendPacketTooBig(n) \/ SendSmall(n) \/ Notify(n)
  BY <1>1, PacketTooBigStep, SmallStep, NotifyStep
<1>2. CASE \E n \in Node : \E withCoords \in BOOLEAN : SendData(n, withCoords)
  BY <1>2, DataStep
<1>3. CASE \E n \in Node : \E m \in net : ReceiveSession(n, m) \/ HandleMtuExceeded(n, m)
  BY <1>3, ReceiveStep, ExceededStep
<1>4. CASE \E n \in Node : \E r \in Routes[n] : RouteChanges(n, r)
  BY <1>4, RouteStep
<1>5. CASE \E n \in Node : \E size \in Packet, tcp \in BOOLEAN : NewFlow(n, size, tcp)
  BY <1>5, FlowStep
<1>6. CASE NewSession
  BY <1>6, SessionStep
<1>7. CASE Tick
  BY <1>7, TickStep
<1>8. CASE \/ \E n \in Node : ErrorsAgain(n)
           \/ \E m \in net : Lose(m)
           \/ UNCHANGED vars
  BY <1>8, OtherStep
<1> QED BY <1>1, <1>2, <1>3, <1>4, <1>5, <1>6, <1>7, <1>8 DEF Next

-----------------------------------------------------------------------------
(* Theorems.                                                               *)

LEMMA AlwaysIInv == Spec => []IInv
<1>1. IInv /\ [Next]_vars => IInv'
  BY NextIInv
<1> QED BY InitIInv, <1>1, PTL DEF Spec

\* Every variable keeps its type (PathMtuState, mmp/mod.rs 310-327).
THEOREM TypeCorrect == Spec => []TypeOK
BY AlwaysIInv, TypesFromIInv, PTL

\* Neither the MTU a source sends with nor what an end reports ever falls below the
\* worst route there was (seed_source_mtu, observe_incoming_mtu, apply_notification).
THEOREM SourcesAreNotTooLow == Spec => []NeverTooLow
BY AlwaysIInv, NotTooLowFromIInv, PTL

\* Within two notification intervals of a lower report no source raises its MTU
\* (apply_notification), whatever arrives late or twice.
THEOREM SourcesDoNotFlap == Spec => NoFlapping
<1>1. IInv /\ [Next]_vars => [CalmStep]_vars
  BY NextIInv
<1> QED BY AlwaysIInv, <1>1, PTL DEF Spec, NoFlapping

-----------------------------------------------------------------------------
(* Sets of frames.                                                         *)

\* The frames a to b of session s.
Run(s, a, b) == {[session |-> s, counter |-> k] : k \in a .. b}

\* Those of them between two counts.
Within(S, from, to) == {f \in S : /\ f.counter > from
                                  /\ f.counter <= to}

LEMMA RunSize ==
  ASSUME NEW s, NEW a \in Int, NEW b \in Int
  PROVE  /\ IsFiniteSet(Run(s, a, b))
         /\ Cardinality(Run(s, a, b)) = IF a > b THEN 0 ELSE b - a + 1
<1> DEFINE g == [k \in a .. b |-> [session |-> s, counter |-> k]]
<1>1. g \in Bijection(a .. b, Run(s, a, b))
  <2>1. \A k \in a .. b : g[k].counter = k /\ g[k] \in Run(s, a, b)
    BY DEF Run
  <2>2. \A j, k \in a .. b : g[j] = g[k] => j = k
    BY <2>1
  <2>3. \A f \in Run(s, a, b) : \E k \in a .. b : g[k] = f
    BY DEF Run
  <2>4. g \in [a .. b -> Run(s, a, b)]
    BY <2>1
  <2> HIDE DEF g
  <2> QED BY <2>2, <2>3, <2>4 DEF Bijection, Injection, Surjection, IsInjective
<1>2. ExistsBijection(a .. b, Run(s, a, b))
  BY <1>1 DEF ExistsBijection
<1>3. IsFiniteSet(a .. b) /\ Cardinality(a .. b) = IF a > b THEN 0 ELSE b - a + 1
  BY FS_Interval
<1> QED BY <1>2, <1>3, FS_Bijection

LEMMA RunMembers ==
  ASSUME NEW s, NEW a \in Int, NEW b \in Int, NEW f \in Run(s, a, b)
  PROVE  f.session = s /\ f.counter \in a .. b
BY DEF Run

\* A set that has all of S and the frames a to b, which S has not.
LEMMA RunAdds ==
  ASSUME NEW S, NEW T, IsFiniteSet(T), S \subseteq T, NEW s, NEW a \in Int, NEW b \in Int,
         a <= b + 1, Run(s, a, b) \subseteq T,
         \A f \in S : f.session = s => f.counter < a
  PROVE  Cardinality(S) + (b + 1 - a) <= Cardinality(T)
<1>1. S \cap Run(s, a, b) = {}
  BY RunMembers
<1>2. S \in SUBSET T /\ Run(s, a, b) \in SUBSET T
  OBVIOUS
<1>3. /\ IsFiniteSet(S) /\ IsFiniteSet(Run(s, a, b))
      /\ Cardinality(Run(s, a, b)) = b + 1 - a
  <2>1. IsFiniteSet(S)
    BY <1>2, FS_Subset
  <2>2. IsFiniteSet(Run(s, a, b)) /\ Cardinality(Run(s, a, b)) = IF a > b THEN 0 ELSE b - a + 1
    BY RunSize
  <2> QED BY <2>1, <2>2
<1>4. Cardinality(S \cup Run(s, a, b))
        = Cardinality(S) + Cardinality(Run(s, a, b)) - Cardinality(S \cap Run(s, a, b))
  BY <1>3, FS_Union
<1>5. Cardinality(S \cap Run(s, a, b)) = 0
  BY <1>1, FS_EmptySet
<1>6. Cardinality(S \cup Run(s, a, b)) <= Cardinality(T)
  <2>1. S \cup Run(s, a, b) \in SUBSET T
    BY <1>2
  <2> QED BY <2>1, FS_Subset
<1>7. Cardinality(S) \in Nat /\ Cardinality(T) \in Nat
  BY <1>3, FS_CardinalityType
<1> QED BY <1>3, <1>4, <1>5, <1>6, <1>7

\* From the counts al, ap to the counts h, p no more frames are missing than were
\* skipped.
Covered(skipped, al, ap, h, p) ==
  h <= al \/ h - al <= (p - ap) + Cardinality(Within(skipped, al, h))

LEMMA WithinSize ==
  ASSUME NEW T, IsFiniteSet(T), NEW S \in SUBSET T, NEW al, NEW h
  PROVE  /\ IsFiniteSet(Within(T, al, h)) /\ Cardinality(Within(T, al, h)) \in Nat
         /\ Cardinality(Within(S, al, h)) \in Nat
         /\ Cardinality(Within(S, al, h)) <= Cardinality(Within(T, al, h))
         /\ Cardinality(Within(T, al, h)) <= Cardinality(T)
<1>1. Within(T, al, h) \in SUBSET T /\ Within(S, al, h) \in SUBSET Within(T, al, h)
  BY DEF Within
<1>2. IsFiniteSet(Within(T, al, h)) /\ Cardinality(Within(T, al, h)) <= Cardinality(T)
  BY <1>1, FS_Subset
<1>3. /\ IsFiniteSet(Within(S, al, h))
      /\ Cardinality(Within(S, al, h)) <= Cardinality(Within(T, al, h))
  BY <1>1, <1>2, FS_Subset
<1> QED BY <1>2, <1>3, FS_CardinalityType

LEMMA CoveredGrows ==
  ASSUME NEW T, IsFiniteSet(T), NEW S \in SUBSET T, NEW al \in Int, NEW ap \in Int, NEW h \in Int,
         NEW p \in Int, NEW q \in Int, p <= q, Covered(S, al, ap, h, p)
  PROVE  Covered(T, al, ap, h, q)
<1>1. /\ Cardinality(Within(S, al, h)) \in Nat /\ Cardinality(Within(T, al, h)) \in Nat
      /\ Cardinality(Within(S, al, h)) <= Cardinality(Within(T, al, h))
  BY WithinSize
<1> QED BY <1>1 DEF Covered

\* A frame above all others of its session is received.
LEMMA CoveredFurther ==
  ASSUME NEW T, IsFiniteSet(T), NEW S \in SUBSET T, NEW s, NEW top \in Int, NEW c \in Int, top < c,
         Run(s, top + 1, c - 1) \subseteq T, \A f \in S : f.counter \in Nat,
         NEW al \in Int, NEW ap \in Int, NEW p \in Int, ap <= p, Covered(S, al, ap, top, p)
  PROVE  Covered(T, al, ap, c, p + 1)
<1>1. CASE c <= al
  BY <1>1 DEF Covered
<1>2. CASE al < c
  <2> DEFINE from == IF top <= al THEN al ELSE top
  <2>1. from \in Int /\ al <= from /\ top <= from /\ from < c
    BY <1>2
  <2>2. Run(s, from + 1, c - 1) \subseteq Within(T, al, c)
    <3>1. ASSUME NEW f \in Run(s, from + 1, c - 1) PROVE f \in Within(T, al, c)
      <4>1. f.counter \in from + 1 .. c - 1 /\ f.session = s
        BY <2>1, RunMembers
      <4>2. f \in Run(s, top + 1, c - 1)
        BY <2>1 DEF Run
      <4> QED BY <2>1, <4>1, <4>2 DEF Within
    <3> QED BY <3>1
  <2>3. Within(S, al, from) \subseteq Within(T, al, c)
    BY <2>1 DEF Within
  <2>4. \A f \in Within(S, al, from) : f.session = s => f.counter < from + 1
    BY <2>1 DEF Within
  <2>5. IsFiniteSet(Within(T, al, c))
    BY WithinSize
  <2>6. Cardinality(Within(S, al, from)) + (c - 1 + 1 - (from + 1)) <= Cardinality(Within(T, al, c))
    BY <2>1, <2>2, <2>3, <2>4, <2>5, RunAdds
  <2>7. /\ Cardinality(Within(S, al, from)) \in Nat /\ Cardinality(Within(T, al, c)) \in Nat
    BY WithinSize
  <2>8. from - al <= (p - ap) + Cardinality(Within(S, al, from))
    <3>1. CASE top <= al
      BY <2>7, <3>1
    <3>2. CASE ~ (top <= al)
      BY <3>2 DEF Covered
    <3> QED BY <3>1, <3>2
  <2> HIDE DEF from
  <2> QED BY <2>1, <2>6, <2>7, <2>8 DEF Covered
<1> QED BY <1>1, <1>2

-----------------------------------------------------------------------------
(* The invariant.                                                          *)

\* TimeAssumption, and nothing overtakes the frames of session 0.
LinkAssumption ==
  /\ {Delay, RekeyAge, Drain, Grace} \subseteq Nat /\ Used \in Nat \ {0}
  /\ RekeyAge > 2 * Delay /\ Drain <= Grace
  /\ Overtaking = FALSE

Frame == [session : Session, counter : Nat, timestamp : Int, at : Nat]
Reported == [session : Session, highest : Nat, packets : Nat, echo : Int, dwell : Int,
             sentAt : Int, at : Nat]
Tracker == [expected : Int, current : Nat, count : Nat, longest : Nat]
Receiver == [session : Session, highest : Nat, packets : Nat, gaps : Tracker, timestamp : Int,
             heard : Int, sentAt : Int, grace : Int, data : BOOLEAN]
Metrics == [known : BOOLEAN, highest : Nat, packets : Nat]

Types ==
  /\ now \in Nat
  /\ sender \in [session : Session, start : Int, counter : Nat]
  /\ metrics \in Metrics
  /\ air \subseteq Frame /\ reports \subseteq Reported
  /\ seen \in [top : [Session -> Int], skipped : SUBSET [session : Session, counter : Nat]]
  /\ IsFiniteSet(seen.skipped)

\* A timestamp of session k that stands for a time.
Stamp(k, timestamp, time) ==
  IF k = 0 THEN timestamp = time + RekeyAge
  ELSE sender.session = 1 /\ timestamp = time - sender.start

\* Frames and reports on the way tell the time they were sent; those of session 0
\* are received before those of session 1.
StampsOK ==
  /\ sender.session = 0 => sender.start = -RekeyAge
  /\ sender.session = 1 => sender.start \in 0 .. now
  /\ \A f \in air : /\ f.at <= now /\ now <= f.at + Delay
                    /\ Stamp(f.session, f.timestamp, f.at)
  /\ \A rr \in reports :
       /\ 0 <= rr.sentAt /\ now <= rr.at + Delay /\ rr.at - rr.dwell <= rr.sentAt + Delay
       /\ Stamp(0, rr.echo, rr.sentAt) \/ (rr.session = 1 /\ Stamp(1, rr.echo, rr.sentAt))
  /\ seen.top[1] # Null => sender.session = 1 /\ \A f \in air : f.session = 1

\* The timestamp the receiver kept: one of session 0 only as long as the grace of
\* the rekey lasts.
HeardOK(r) ==
  /\ r.heard # Null =>
       /\ 0 <= r.sentAt /\ r.sentAt <= r.heard
       /\ r.heard <= r.sentAt + Delay /\ r.heard <= now
       /\ \/ /\ Stamp(0, r.timestamp, r.sentAt)
             /\ r.session = 0 \/ (now < r.grace /\ seen.top[1] = Null)
          \/ Stamp(1, r.timestamp, r.sentAt) /\ r.session = 1
  /\ r.data => r.heard # Null /\ r.gaps.expected # Null
  /\ seen.top[1] # Null => r.session = 1

\* The receiver's counts.
Tallies(r) ==
  /\ r.gaps.expected = Null => r.highest = 0
  /\ r.gaps.expected # Null => /\ r.gaps.expected = r.highest + 1
                               /\ seen.top[1] = Null => r.highest = seen.top[0]
  /\ seen.top[1] # Null => seen.top[1] <= r.highest
  /\ r.gaps.current <= Cardinality(seen.skipped)
  /\ r.gaps.count <= Cardinality(seen.skipped)
  /\ r.gaps.longest <= Cardinality(seen.skipped)

\* Counts a of the receiver's, taken earlier: they cover what it counts now, and
\* what it will count when it begins anew.
Counted(r, a) ==
  /\ a.packets <= r.packets
  /\ \A h \in {r.highest, seen.top[1]} \cup (IF seen.top[1] = Null THEN {seen.top[0]} ELSE {}) :
       Covered(seen.skipped, a.highest, a.packets, h, r.packets)

\* The counts that were taken, m those of the receiving end.
Taken(m) == reports \cup {x \in {metrics, m} : x.known}

\* The receiving end, with receiver state r and metrics m.
ReceiverOK(r, m) ==
  /\ r \in Receiver /\ m \in Metrics
  /\ HeardOK(r) /\ Tallies(r)
  /\ \A a \in Taken(m) : Counted(r, a)
  /\ \A a \in reports : /\ a.session <= r.session
                        /\ a.session = r.session => a.highest <= r.highest

\* What was received of each session, and what is on the way.
FramesOK ==
  /\ \A s \in Session : seen.top[s] >= Null
  /\ \A f \in seen.skipped : f.counter < seen.top[f.session]
  /\ \A f \in air : f.session = 0 => /\ seen.top[0] < f.counter
                                     /\ sender.session = 0 => f.counter < sender.counter
  /\ \A f, o \in air : f.session = 0 /\ o.session = 0 /\ f.counter = o.counter => f = o
  /\ sender.session = 0 => seen.top[0] < sender.counter

\* Reports on the way cover those that follow, and so do the sender's counts.
ReportsOK ==
  /\ \A a, b \in reports : a.session <= b.session =>
       Covered(seen.skipped, a.highest, a.packets, b.highest, b.packets)
  /\ metrics.known => \A b \in reports :
       Covered(seen.skipped, metrics.highest, metrics.packets, b.highest, b.packets)

MeasuredOK == Types /\ StampsOK /\ FramesOK /\ ReportsOK /\ ReceiverOK(receiver, reverse)

LEMMA FreshReceiver ==
  ASSUME NEW k \in Session, NEW p \in Nat, NEW g \in Int
  PROVE  NewReceiver(k, p, g) \in Receiver
BY DEF NewReceiver, Receiver, NewTracker, Tracker, Session, Null

LEMMA ReceiverFields ==
  ASSUME NEW r \in Receiver
  PROVE  /\ r.session \in Session /\ r.highest \in Nat /\ r.packets \in Nat
         /\ r.gaps \in Tracker /\ r.timestamp \in Int /\ r.heard \in Int /\ r.sentAt \in Int
         /\ r.grace \in Int /\ r.data \in BOOLEAN
         /\ r.gaps.expected \in Int /\ r.gaps.current \in Nat /\ r.gaps.count \in Nat
         /\ r.gaps.longest \in Nat
BY DEF Receiver, Tracker

LEMMA FrameFields ==
  ASSUME NEW f \in Frame
  PROVE  /\ f.session \in Session /\ f.counter \in Nat /\ f.timestamp \in Int /\ f.at \in Nat
BY DEF Frame

LEMMA ReportFields ==
  ASSUME NEW rr \in Reported
  PROVE  /\ rr.session \in Session /\ rr.highest \in Nat /\ rr.packets \in Nat
         /\ rr.echo \in Int /\ rr.dwell \in Int /\ rr.sentAt \in Int /\ rr.at \in Nat
BY DEF Reported

LEMMA MetricsFields ==
  ASSUME NEW m \in Metrics
  PROVE  m.known \in BOOLEAN /\ m.highest \in Nat /\ m.packets \in Nat
BY DEF Metrics

\* What record_recv and observe leave in the receiver's state.
Recorded(r, f, t) ==
  /\ t.session = r.session /\ t.packets = r.packets + 1
  /\ t.highest = IF f.counter < r.highest THEN r.highest ELSE f.counter
  /\ t.timestamp = f.timestamp /\ t.heard = now /\ t.sentAt = f.at /\ t.data = TRUE
  /\ t.grace = IF now < r.grace THEN r.grace ELSE 0
  /\ t.gaps.expected = IF f.counter >= r.gaps.expected THEN f.counter + 1 ELSE r.gaps.expected
  /\ IF r.gaps.expected # Null /\ f.counter > r.gaps.expected
     THEN /\ t.gaps.current = r.gaps.current + (f.counter - r.gaps.expected)
          /\ t.gaps.count \in {r.gaps.count, r.gaps.count + 1}
          /\ t.gaps.longest = r.gaps.longest
     ELSE /\ t.gaps.current = 0 /\ t.gaps.count = r.gaps.count
          /\ t.gaps.longest \in {r.gaps.current, r.gaps.longest}

LEMMA RecordFields ==
  ASSUME now \in Nat, NEW r \in Receiver, NEW f \in Frame
  PROVE  Record(r, f) \in Receiver /\ Recorded(r, f, Record(r, f))
<1>1. PICK g, h : g = r.gaps /\ h = Observe(g, f.counter)
  OBVIOUS
<1>2. /\ r.gaps \in Tracker /\ g \in Tracker /\ f.counter \in Nat /\ r.highest \in Nat
      /\ r.packets \in Nat /\ f.timestamp \in Int /\ f.at \in Nat /\ r.grace \in Int
  BY <1>1, ReceiverFields, FrameFields
<1>3. PICK x : x = Expected(g, f.counter)
  OBVIOUS
<1>4. x \in Int /\ x = IF f.counter >= g.expected THEN f.counter + 1 ELSE g.expected
  BY <1>2, <1>3 DEF Expected, Tracker
<1>5. /\ h \in Tracker /\ h.expected = x
      /\ IF g.expected # Null /\ f.counter > g.expected
         THEN /\ h.current = g.current + (f.counter - g.expected)
              /\ h.count \in {g.count, g.count + 1} /\ h.longest = g.longest
         ELSE /\ h.current = 0 /\ h.count = g.count
              /\ h.longest \in {g.current, g.longest}
  <2>1. CASE g.expected # Null /\ f.counter > g.expected
    <3>1. h = [g EXCEPT !.expected = x, !.current = @ + f.counter - g.expected,
                        !.count = IF g.current > 0 THEN @ ELSE @ + 1]
      BY <1>1, <1>3, <2>1 DEF Observe
    <3>2. g.current + f.counter - g.expected \in Nat
      BY <1>2, <2>1 DEF Tracker, Null
    <3>3. PICK y : y = IF g.current > 0 THEN g.count ELSE g.count + 1
      OBVIOUS
    <3>4. h = [g EXCEPT !.expected = x, !.current = g.current + f.counter - g.expected,
                        !.count = y]
      BY <1>2, <3>1, <3>3 DEF Tracker
    <3>5. y \in Nat /\ y \in {g.count, g.count + 1}
      BY <1>2, <3>3 DEF Tracker
    <3> QED BY <1>2, <1>4, <2>1, <3>2, <3>4, <3>5 DEF Tracker
  <2>2. CASE ~ (g.expected # Null /\ f.counter > g.expected)
    <3>1. h = [FinishBurst(g) EXCEPT !.expected = x]
      BY <1>1, <1>3, <2>2 DEF Observe
    <3> QED BY <1>2, <1>4, <2>2, <3>1 DEF Tracker, FinishBurst
  <2> QED BY <2>1, <2>2
<1>6. PICK t : t = Record(r, f)
  OBVIOUS
<1>7. PICK grace, highest : /\ grace = IF now < r.grace THEN r.grace ELSE 0
                            /\ highest = IF f.counter < r.highest THEN r.highest ELSE f.counter
  OBVIOUS
<1>8. grace \in Int /\ highest \in Nat /\ r.packets + 1 \in Nat
  BY <1>2, <1>7
<1>9. t = [r EXCEPT !.grace = grace, !.highest = highest, !.packets = r.packets + 1, !.gaps = h,
                    !.timestamp = f.timestamp, !.heard = now, !.sentAt = f.at, !.data = TRUE]
  BY <1>1, <1>6, <1>7 DEF Record, InGrace, Receiver
<1>10. PICK u : u = [r EXCEPT !.grace = grace, !.highest = highest, !.packets = r.packets + 1,
                              !.gaps = h]
  OBVIOUS
<1>11. /\ u \in Receiver /\ u.session = r.session /\ u.packets = r.packets + 1
       /\ u.highest = highest /\ u.grace = grace /\ u.gaps = h
  BY <1>2, <1>5, <1>8, <1>10 DEF Receiver
<1>12. PICK v : v = [u EXCEPT !.timestamp = f.timestamp, !.heard = now, !.sentAt = f.at]
  OBVIOUS
<1>13. /\ v \in Receiver /\ v.session = u.session /\ v.packets = u.packets
       /\ v.highest = u.highest /\ v.grace = u.grace /\ v.gaps = u.gaps
       /\ v.timestamp = f.timestamp /\ v.heard = now /\ v.sentAt = f.at
  <2>1. now \in Int /\ f.at \in Int /\ f.timestamp \in Int
    BY <1>2
  <2>2. u \in Receiver
    BY <1>11
  <2> QED BY <2>1, <2>2, <1>12 DEF Receiver
<1>14. t = [v EXCEPT !.data = TRUE]
  BY <1>9, <1>10, <1>12
<1>15. /\ t \in Receiver /\ t.session = v.session /\ t.packets = v.packets
       /\ t.highest = v.highest /\ t.grace = v.grace /\ t.gaps = v.gaps
       /\ t.timestamp = v.timestamp /\ t.heard = v.heard /\ t.sentAt = v.sentAt /\ t.data = TRUE
  BY <1>13, <1>14 DEF Receiver
<1> QED BY <1>1, <1>4, <1>5, <1>6, <1>7, <1>11, <1>13, <1>15 DEF Recorded

-----------------------------------------------------------------------------
(* What an end does alone.                                                 *)

LEMMA NothingIsReal ==
  ASSUME Delay \in Nat, IsFiniteSet(seen'.skipped), derived' = Nothing
  PROVE  LossIsReal' /\ TimesAreReal'
<1>1. /\ derived'.loss.lost = 0 /\ derived'.bursts.count = 0 /\ derived'.bursts.longest = 0
      /\ derived'.rtt.sample = 0 /\ derived'.rtt.real = 0 /\ derived'.jitter = 0
  BY DEF Nothing
<1>2. /\ Cardinality(seen'.skipped) \in Nat
      /\ Cardinality(Within(seen'.skipped, derived'.loss.from, derived'.loss.to)) \in Nat
  BY WithinSize, FS_CardinalityType
<1> QED BY <1>1, <1>2 DEF LossIsReal, TimesAreReal, Within

LEMMA CutsOverFields ==
  ASSUME now \in Nat
  PROVE  /\ SenderCutsOver \in [session : Session, start : Int, counter : Nat]
         /\ SenderCutsOver.session = 1 /\ SenderCutsOver.start = now
BY DEF SenderCutsOver, Session

\* The sending end may cut over, and messages arrive or are lost.
LEMMA SenderStep ==
  ASSUME LinkAssumption, MeasuredOK, now' = now, receiver' = receiver, reverse' = reverse,
         seen' = seen,
         air' \subseteq air, reports' \subseteq reports,
         sender' = sender \/ (sender.session = 0 /\ sender' = SenderCutsOver),
         metrics' \in Metrics,
         metrics'.known => /\ Counted(receiver, metrics')
                           /\ \A b \in reports' : Covered(seen.skipped, metrics'.highest,
                                                  metrics'.packets, b.highest, b.packets)
  PROVE  MeasuredOK'
<1>1. Types'
  BY CutsOverFields DEF MeasuredOK, Types
<1>2. /\ sender'.session = 0 => sender'.start = -RekeyAge
      /\ sender'.session = 1 => sender'.start \in 0 .. now
      /\ \A timestamp, time : Stamp(0, timestamp, time) => Stamp(0, timestamp, time)'
      /\ \A timestamp, time : Stamp(1, timestamp, time) => Stamp(1, timestamp, time)'
      /\ sender.session = 1 => sender'.session = 1
  BY CutsOverFields DEF MeasuredOK, Types, StampsOK, Stamp
<1>3. \A f \in air : f.session \in {0, 1}
  BY FrameFields DEF MeasuredOK, Types, Session
<1>4. StampsOK'
  BY <1>2, <1>3 DEF MeasuredOK, StampsOK
<1>5. FramesOK'
  <2>1. sender'.session = 0 => sender' = sender
    BY CutsOverFields DEF MeasuredOK, Types
  <2> QED BY <2>1 DEF MeasuredOK, FramesOK
<1>6. ReportsOK'
  BY DEF MeasuredOK, ReportsOK
<1>7. HeardOK(receiver)'
  BY <1>2 DEF MeasuredOK, ReceiverOK, HeardOK
<1>8. \A a \in Taken(reverse)' : Counted(receiver, a)'
  BY DEF MeasuredOK, ReceiverOK, Taken, Counted
<1>9. Tallies(receiver)'
  BY DEF MeasuredOK, ReceiverOK, Tallies
<1>10. ReceiverOK(receiver, reverse)'
  BY <1>7, <1>8, <1>9 DEF MeasuredOK, ReceiverOK
<1> QED BY <1>1, <1>4, <1>5, <1>6, <1>10 DEF MeasuredOK

LEMMA NewMetricsFields == NewMetrics \in Metrics /\ ~ NewMetrics.known
BY DEF NewMetrics, Metrics

LEMMA SendFrameMeasured ==
  ASSUME LinkAssumption, MeasuredOK, SendFrame
  PROVE  MeasuredOK'
<1>1. PICK f : f = [session |-> sender.session, counter |-> sender.counter,
                    timestamp |-> now - sender.start, at |-> now]
  OBVIOUS
<1>2. PICK s : s = [sender EXCEPT !.counter = sender.counter + 1]
  OBVIOUS
<1>3. /\ sender' = s /\ air' = air \cup {f}
      /\ UNCHANGED <<now, receiver, reverse, metrics, reports, seen>>
  BY <1>1, <1>2 DEF SendFrame, MeasuredOK, Types
<1>4. /\ s \in [session : Session, start : Int, counter : Nat] /\ s.session = sender.session
      /\ s.start = sender.start /\ s.counter = sender.counter + 1
      /\ sender.session \in {0, 1} /\ sender.start \in Int /\ sender.counter \in Nat /\ now \in Nat
  BY <1>2 DEF MeasuredOK, Types, Session
<1>5. /\ f \in Frame /\ f.session = sender.session /\ f.counter = sender.counter
      /\ f.timestamp = now - sender.start /\ f.at = now
  BY <1>1, <1>4 DEF Frame, Session
<1>6. Types'
  BY <1>3, <1>4, <1>5 DEF MeasuredOK, Types
<1>7. \A k, timestamp, time : Stamp(k, timestamp, time)' <=> Stamp(k, timestamp, time)
  BY <1>3, <1>4 DEF Stamp
<1>8. Stamp(f.session, f.timestamp, f.at)
  BY <1>4, <1>5 DEF MeasuredOK, StampsOK, Stamp, LinkAssumption
<1>9. StampsOK'
  <2>1. now <= now + Delay
    BY <1>4 DEF LinkAssumption
  <2>2. \A g \in air' : g \in air \/ g = f
    BY <1>3
  <2>3. \A g \in air' : /\ g.at <= now' /\ now' <= g.at + Delay
                        /\ Stamp(g.session, g.timestamp, g.at)'
    <3>1. ASSUME NEW g \in air'
          PROVE  g.at <= now /\ now <= g.at + Delay /\ Stamp(g.session, g.timestamp, g.at)
      <4>1. CASE g \in air
        BY <4>1 DEF MeasuredOK, StampsOK
      <4>2. CASE g = f
        BY <1>4, <1>5, <1>8, <2>1, <4>2
      <4> QED BY <2>2, <4>1, <4>2
    <3> QED BY <1>3, <1>7, <3>1
  <2>4. seen'.top[1] # Null => sender'.session = 1 /\ \A g \in air' : g.session = 1
    BY <1>3, <1>4, <1>5, <2>2 DEF MeasuredOK, StampsOK
  <2> QED BY <1>3, <1>4, <1>7, <2>3, <2>4 DEF MeasuredOK, StampsOK
<1>10. FramesOK'
  <2>1. \A g \in air' : g \in air \/ g = f
    BY <1>3
  <2>2. \A g \in air : g.counter \in Nat
    BY FrameFields DEF MeasuredOK, Types
  <2>3. \A g \in air' : g.session = 0 => /\ seen'.top[0] < g.counter
                                         /\ sender'.session = 0 => g.counter < sender'.counter
    BY <1>3, <1>4, <1>5, <2>1, <2>2 DEF MeasuredOK, FramesOK
  <2>4. ASSUME NEW g \in air', NEW o \in air', g.session = 0, o.session = 0, g.counter = o.counter
        PROVE  g = o
    BY <1>4, <1>5, <2>1, <2>2, <2>4 DEF MeasuredOK, FramesOK
  <2>5. sender'.session = 0 => seen'.top[0] < sender'.counter
    <3>1. seen.top[0] \in Int
      BY DEF MeasuredOK, Types, Session
    <3> QED BY <1>3, <1>4, <3>1 DEF MeasuredOK, FramesOK
  <2> QED BY <1>3, <2>3, <2>4, <2>5 DEF MeasuredOK, FramesOK
<1>11. ReportsOK'
  BY <1>3 DEF MeasuredOK, ReportsOK
<1>12. ReceiverOK(receiver, reverse)'
  <2>1. HeardOK(receiver)'
    BY <1>3, <1>7 DEF MeasuredOK, ReceiverOK, HeardOK
  <2>2. Tallies(receiver)'
    BY <1>3 DEF MeasuredOK, ReceiverOK, Tallies
  <2>3. \A a \in Taken(reverse)' : Counted(receiver, a)'
    BY <1>3 DEF MeasuredOK, ReceiverOK, Taken, Counted
  <2> QED BY <1>3, <2>1, <2>2, <2>3 DEF MeasuredOK, ReceiverOK
<1> QED BY <1>6, <1>9, <1>10, <1>11, <1>12 DEF MeasuredOK

LEMMA TickMeasured ==
  ASSUME LinkAssumption, MeasuredOK, LinkTick
  PROVE  MeasuredOK'
<1>1. /\ now' = now + 1 /\ now \in Nat
      /\ UNCHANGED <<sender, receiver, reverse, metrics, air, reports, seen>>
  BY DEF LinkTick, MeasuredOK, Types
<1>2. Types'
  BY <1>1 DEF MeasuredOK, Types
<1>3. \A k, timestamp, time : Stamp(k, timestamp, time)' <=> Stamp(k, timestamp, time)
  BY <1>1 DEF Stamp
<1>4. /\ \A f \in air : f.at \in Nat
      /\ \A rr \in reports : rr.at \in Nat
      /\ sender.start \in Int /\ Delay \in Nat
  BY FrameFields, ReportFields DEF MeasuredOK, Types, LinkAssumption
<1>5. /\ \A f \in air : f.at <= now + 1 /\ now + 1 <= f.at + Delay
      /\ \A rr \in reports : now + 1 <= rr.at + Delay
      /\ sender.session = 1 => sender.start \in 0 .. now + 1
  BY <1>1, <1>4 DEF LinkTick, MeasuredOK, StampsOK
<1>6. StampsOK'
  BY <1>1, <1>3, <1>5 DEF MeasuredOK, StampsOK
<1>7. FramesOK' /\ ReportsOK'
  BY <1>1 DEF MeasuredOK, FramesOK, ReportsOK
<1>8. HeardOK(receiver)'
  <2>1. receiver.heard \in Int
    BY ReceiverFields DEF MeasuredOK, ReceiverOK
  <2>2. receiver.session = 1 /\ seen.top[1] = Null => now + 1 < receiver.grace
    BY DEF LinkTick
  <2>3. receiver.session \in {0, 1}
    BY ReceiverFields DEF MeasuredOK, ReceiverOK, Session
  <2> QED BY <1>1, <1>3, <2>1, <2>2, <2>3 DEF MeasuredOK, ReceiverOK, HeardOK
<1>9. Tallies(receiver)'
  BY <1>1 DEF MeasuredOK, ReceiverOK, Tallies
<1>10. \A a \in Taken(reverse)' : Counted(receiver, a)'
  BY <1>1 DEF MeasuredOK, ReceiverOK, Taken, Counted
<1>11. ReceiverOK(receiver, reverse)'
  BY <1>1, <1>8, <1>9, <1>10 DEF MeasuredOK, ReceiverOK
<1> QED BY <1>2, <1>6, <1>7, <1>11 DEF MeasuredOK

\* The receiving end begins anew.
LEMMA ResetOK ==
  ASSUME LinkAssumption, MeasuredOK, receiver.session = 0
  PROVE  /\ ReceiverOK(ResetReceiver(receiver), NewMetrics) /\ seen.top[1] = Null
         /\ ResetReceiver(receiver).session = 1 /\ ResetReceiver(receiver).heard = Null
         /\ ResetReceiver(receiver).grace = now + Grace
<1>1. PICK r : r = ResetReceiver(receiver)
  OBVIOUS
<1>2. receiver \in Receiver /\ receiver.packets \in Nat /\ now + Grace \in Int
  BY ReceiverFields DEF MeasuredOK, Types, ReceiverOK, LinkAssumption
<1>3. /\ r \in Receiver /\ r.session = 1 /\ r.highest = 0 /\ r.packets = receiver.packets
      /\ r.gaps = NewTracker /\ r.heard = Null /\ r.grace = now + Grace /\ r.data = FALSE
  <2>1. r = NewReceiver(1, receiver.packets, now + Grace)
    BY <1>1 DEF ResetReceiver
  <2>2. r \in Receiver
    BY <1>2, <2>1, FreshReceiver DEF Session
  <2> QED BY <2>1, <2>2 DEF NewReceiver
<1>4. seen.top[1] = Null
  BY DEF MeasuredOK, ReceiverOK, HeardOK
<1>5. HeardOK(r)
  BY <1>3, <1>4 DEF HeardOK
<1>6. Tallies(r)
  <2>1. Cardinality(seen.skipped) \in Nat
    BY FS_CardinalityType DEF MeasuredOK, Types
  <2> QED BY <1>3, <1>4, <2>1 DEF Tallies, NewTracker
<1>7. \A a \in Taken(NewMetrics) : Counted(r, a)
  <2>1. ASSUME NEW a \in Taken(NewMetrics) PROVE Counted(r, a)
    <3>1. a \in Taken(reverse) /\ a.highest \in Nat
      BY NewMetricsFields, ReportFields, MetricsFields DEF Taken, MeasuredOK, Types
    <3>2. Counted(receiver, a)
      BY <3>1 DEF MeasuredOK, ReceiverOK
    <3> QED BY <1>3, <3>1, <3>2 DEF Counted, Covered
  <2> QED BY <2>1
<1>8. \A a \in reports : /\ a.session <= r.session
                         /\ a.session = r.session => a.highest <= r.highest
  <2>1. \A a \in reports : a.session \in Session /\ a.session <= receiver.session
    BY ReportFields DEF MeasuredOK, Types, ReceiverOK
  <2> QED BY <1>3, <2>1 DEF Session
<1> QED BY <1>1, <1>3, <1>4, <1>5, <1>6, <1>7, <1>8, NewMetricsFields DEF ReceiverOK

-----------------------------------------------------------------------------
(* A frame is received.                                                    *)

\* What the history becomes.
SeenOf(f) ==
  [top |-> [seen.top EXCEPT ![f.session] = IF f.counter > @ THEN f.counter ELSE @],
   skipped |-> seen.skipped \cup Skipped(f)]

LEMMA SeenFields ==
  ASSUME Types, FramesOK, NEW f \in Frame, NEW T, T = SeenOf(f).skipped, NEW u, u = SeenOf(f).top
  PROVE  /\ SeenOf(f) \in [top : [Session -> Int],
                             skipped : SUBSET [session : Session, counter : Nat]]
         /\ IsFiniteSet(T) /\ seen.skipped \subseteq T
         /\ Run(f.session, seen.top[f.session] + 1, f.counter - 1) \subseteq T
         /\ \A s \in Session : s # f.session => u[s] = seen.top[s]
         /\ u[f.session] = IF f.counter > seen.top[f.session] THEN f.counter
                           ELSE seen.top[f.session]
         /\ \A s \in Session : u[s] >= Null
         /\ \A g \in T : g.counter < u[g.session]
<1>1. /\ f.session \in Session /\ f.counter \in Nat
      /\ \A s \in Session : seen.top[s] \in Int /\ seen.top[s] >= Null
      /\ seen.skipped \subseteq [session : Session, counter : Nat] /\ IsFiniteSet(seen.skipped)
  BY FrameFields DEF Types, FramesOK
<1>2. PICK top, R : top = seen.top[f.session] /\ R = Run(f.session, top + 1, f.counter - 1)
  OBVIOUS
<1>3. top \in Int /\ top >= Null
  BY <1>1, <1>2
<1>4. T = seen.skipped \cup R
  BY <1>2 DEF SeenOf, Skipped, Run
<1>5. IsFiniteSet(R)
  BY <1>1, <1>2, <1>3, RunSize
<1>6. ASSUME NEW g \in R
      PROVE  /\ g \in [session : Session, counter : Nat] /\ g.session = f.session
             /\ g.counter < f.counter /\ top < f.counter
  <2>1. g.session = f.session /\ g.counter \in top + 1 .. f.counter - 1
    BY <1>1, <1>2, <1>3, RunMembers
  <2>2. PICK k \in top + 1 .. f.counter - 1 : g = [session |-> f.session, counter |-> k]
    BY <1>2 DEF Run
  <2> QED BY <1>1, <1>3, <2>1, <2>2 DEF Null
<1>7. /\ \A s \in Session : s # f.session => u[s] = seen.top[s]
      /\ u[f.session] = (IF f.counter > top THEN f.counter ELSE top)
      /\ u \in [Session -> Int]
  <2>1. seen.top \in [Session -> Int]
    BY DEF Types
  <2>2. PICK y : y = IF f.counter > top THEN f.counter ELSE top
    OBVIOUS
  <2>3. u = [seen.top EXCEPT ![f.session] = y] /\ y \in Int
    BY <1>1, <1>2, <1>3, <2>1, <2>2 DEF SeenOf
  <2> QED BY <1>1, <2>1, <2>2, <2>3
<1>8. IsFiniteSet(T)
  BY <1>1, <1>4, <1>5, FS_Union
<1>9. \A g \in T : g.counter < u[g.session]
  <2>1. ASSUME NEW g \in seen.skipped PROVE g.counter < u[g.session]
    <3>1. g.session \in Session /\ g.counter \in Nat /\ g.counter < seen.top[g.session]
      BY <1>1 DEF FramesOK
    <3> QED BY <1>1, <1>2, <1>3, <1>7, <3>1
  <2>2. ASSUME NEW g \in R PROVE g.counter < u[g.session]
    BY <1>6, <1>7
  <2> QED BY <1>4, <2>1, <2>2
<1>10. SeenOf(f) \in [top : [Session -> Int],
                      skipped : SUBSET [session : Session, counter : Nat]]
  <2>1. T \in SUBSET [session : Session, counter : Nat]
    BY <1>1, <1>4, <1>6
  <2> QED BY <1>7, <2>1 DEF SeenOf
<1>11. \A s \in Session : u[s] >= Null
  BY <1>1, <1>2, <1>3, <1>7 DEF Null
<1> QED BY <1>2, <1>4, <1>7, <1>8, <1>9, <1>10, <1>11

\* What is known of frame f when the receiving end, in state b after its reset, if
\* there was one, records it.
Recordable(b, f) ==
  /\ f \in air
  /\ \A o \in air : o.session = 0 => f.session = 0 /\ f.counter <= o.counter
  /\ IF f.session = 1 THEN b.session = 1 ELSE b.session = 1 => now < b.grace

\* The frame is the first of its session or above all others, or late.
LEMMA RecordedCounts ==
  ASSUME Types, FramesOK, StampsOK, NEW b \in Receiver, Tallies(b), NEW f, Recordable(b, f),
         NEW t, Recorded(b, f, t), NEW T, T = SeenOf(f).skipped, NEW u, u = SeenOf(f).top,
         NEW a, a.highest \in Nat, a.packets \in Nat, Counted(b, a)
  PROVE  /\ a.packets <= t.packets
         /\ \A h \in {t.highest, u[1]} \cup (IF u[1] = Null THEN {u[0]} ELSE {}) :
              Covered(T, a.highest, a.packets, h, t.packets)
<1>1. f \in Frame /\ f.session \in {0, 1} /\ f.counter \in Nat
  BY FrameFields DEF Recordable, Types, Session
<1>2. /\ IsFiniteSet(T) /\ seen.skipped \subseteq T
      /\ Run(f.session, seen.top[f.session] + 1, f.counter - 1) \subseteq T
      /\ \A s \in Session : s # f.session => u[s] = seen.top[s]
      /\ u[f.session] = IF f.counter > seen.top[f.session] THEN f.counter
                        ELSE seen.top[f.session]
  BY <1>1, SeenFields
<1>3. /\ \A s \in {0, 1} : seen.top[s] \in Int /\ seen.top[s] >= Null
      /\ \A g \in seen.skipped : g.counter \in Nat
  BY DEF Types, FramesOK, Session
<1>4. b.highest \in Nat /\ b.packets \in Nat /\ t.packets = b.packets + 1
  BY ReceiverFields DEF Recorded
<1>5. a.packets <= b.packets /\ a.packets <= t.packets
  BY <1>4 DEF Counted
<1>6. ASSUME NEW h \in Int, Covered(seen.skipped, a.highest, a.packets, h, b.packets)
      PROVE  Covered(T, a.highest, a.packets, h, t.packets)
  BY <1>2, <1>4, <1>6, CoveredGrows
<1>7. ASSUME f.counter > seen.top[f.session],
             Covered(seen.skipped, a.highest, a.packets, seen.top[f.session], b.packets)
      PROVE  Covered(T, a.highest, a.packets, f.counter, t.packets)
  <2>1. Covered(T, a.highest, a.packets, f.counter, b.packets + 1)
    BY <1>1, <1>2, <1>3, <1>4, <1>5, <1>7, CoveredFurther
  <2> QED BY <1>4, <2>1
<1>8. /\ Covered(T, a.highest, a.packets, b.highest, t.packets)
      /\ Covered(T, a.highest, a.packets, seen.top[1], t.packets)
      /\ seen.top[1] = Null => Covered(T, a.highest, a.packets, seen.top[0], t.packets)
  BY <1>3, <1>4, <1>6 DEF Counted
<1>9. CASE f.session = 0
  <2>1. seen.top[1] = Null /\ f.counter > seen.top[0]
    BY <1>9 DEF Recordable, StampsOK, FramesOK
  <2>2. Covered(T, a.highest, a.packets, f.counter, t.packets)
    BY <1>7, <1>9, <2>1 DEF Counted
  <2>3. u[1] = seen.top[1] /\ u[0] = f.counter /\ t.highest \in {b.highest, f.counter}
    BY <1>2, <1>9, <2>1 DEF Recorded, Session
  <2> QED BY <1>5, <1>8, <2>1, <2>2, <2>3
<1>10. CASE f.session = 1
  <2>1. CASE f.counter > seen.top[1]
    <3>1. Covered(T, a.highest, a.packets, f.counter, t.packets)
      BY <1>7, <1>10, <2>1 DEF Counted
    <3>2. u[1] = f.counter /\ u[1] # Null /\ t.highest \in {b.highest, f.counter}
      BY <1>1, <1>2, <1>10, <2>1 DEF Recorded, Null
    <3> QED BY <1>5, <1>8, <3>1, <3>2
  <2>2. CASE ~ (f.counter > seen.top[1])
    <3>1. u[1] = seen.top[1] /\ u[1] # Null
      BY <1>1, <1>2, <1>3, <1>10, <2>2 DEF Null
    <3>2. t.highest = b.highest
      BY <1>1, <1>3, <1>4, <2>2, <3>1 DEF Tallies, Recorded
    <3> QED BY <1>5, <1>8, <3>1, <3>2
  <2> QED BY <2>1, <2>2
<1> QED BY <1>1, <1>9, <1>10

\* What was not received below the highest counter was skipped.
LEMMA RecordedTallies ==
  ASSUME Types, FramesOK, StampsOK, NEW b \in Receiver, Tallies(b), NEW f, Recordable(b, f),
         NEW t \in Receiver, Recorded(b, f, t), NEW T, T = SeenOf(f).skipped,
         NEW u, u = SeenOf(f).top
  PROVE  /\ t.gaps.expected = t.highest + 1 /\ t.gaps.expected # Null
         /\ u[1] = Null => t.highest = u[0]
         /\ u[1] # Null => u[1] <= t.highest
         /\ t.gaps.current <= Cardinality(T) /\ t.gaps.count <= Cardinality(T)
         /\ t.gaps.longest <= Cardinality(T)
<1>1. f \in Frame /\ f.session \in {0, 1} /\ f.counter \in Nat
  BY FrameFields DEF Recordable, Types, Session
<1>2. /\ IsFiniteSet(T) /\ seen.skipped \subseteq T
      /\ Run(f.session, seen.top[f.session] + 1, f.counter - 1) \subseteq T
      /\ \A s \in Session : s # f.session => u[s] = seen.top[s]
      /\ u[f.session] = IF f.counter > seen.top[f.session] THEN f.counter
                        ELSE seen.top[f.session]
  BY <1>1, SeenFields
<1>3. /\ \A s \in {0, 1} : seen.top[s] \in Int /\ seen.top[s] >= Null
      /\ \A g \in seen.skipped : g.counter \in Nat /\ g.counter < seen.top[g.session]
  BY DEF Types, FramesOK, Session
<1>4. /\ b.highest \in Nat /\ b.gaps.expected \in Int /\ b.gaps.current \in Nat
      /\ b.gaps.count \in Nat /\ b.gaps.longest \in Nat
  BY ReceiverFields
<1>5. Cardinality(seen.skipped) \in Nat /\ Cardinality(T) \in Nat
      /\ Cardinality(seen.skipped) <= Cardinality(T)
  <2>1. seen.skipped \in SUBSET T
    BY <1>2
  <2> QED BY <1>2, <2>1, FS_Subset, FS_CardinalityType
<1>6. t.gaps.expected = t.highest + 1 /\ t.gaps.expected # Null /\ t.highest \in Nat
  BY <1>1, <1>4 DEF Tallies, Recorded, Null
<1>7. f.session = 0 => seen.top[1] = Null /\ f.counter > seen.top[0]
  BY DEF Recordable, StampsOK, FramesOK
<1>8. u[1] = Null => t.highest = u[0]
  <2>1. CASE f.session = 0
    BY <1>1, <1>2, <1>3, <1>4, <1>7, <2>1 DEF Tallies, Recorded, Session, Null
  <2>2. CASE f.session = 1
    BY <1>1, <1>2, <1>3, <2>2 DEF Null
  <2> QED BY <1>1, <2>1, <2>2
<1>9. u[1] # Null => u[1] <= t.highest
  <2>1. CASE f.session = 0
    BY <1>2, <1>7, <2>1 DEF Session
  <2>2. CASE f.session = 1
    BY <1>1, <1>2, <1>3, <1>4, <2>2 DEF Tallies, Recorded, Null
  <2> QED BY <1>1, <2>1, <2>2
<1>10. CASE b.gaps.expected # Null /\ f.counter > b.gaps.expected
  <2>1. b.gaps.expected = b.highest + 1 /\ seen.top[f.session] <= b.highest
    BY <1>1, <1>3, <1>4, <1>7, <1>10 DEF Tallies, Null
  <2>2. Run(f.session, b.gaps.expected, f.counter - 1) \subseteq T
    <3>1. \A k \in b.gaps.expected .. f.counter - 1 : k \in seen.top[f.session] + 1 .. f.counter - 1
      BY <1>1, <1>3, <1>4, <2>1
    <3> QED BY <1>2, <3>1 DEF Run
  <2>3. \A g \in seen.skipped : g.session = f.session => g.counter < b.gaps.expected
    BY <1>1, <1>3, <1>4, <2>1
  <2>4. Cardinality(seen.skipped) + (f.counter - 1 + 1 - b.gaps.expected) <= Cardinality(T)
    BY <1>1, <1>2, <1>4, <1>10, <2>2, <2>3, RunAdds
  <2>5. t.gaps.current <= Cardinality(T) /\ t.gaps.count <= Cardinality(T)
        /\ t.gaps.longest <= Cardinality(T)
    BY <1>1, <1>4, <1>5, <1>10, <2>4 DEF Tallies, Recorded
  <2> QED BY <1>6, <1>8, <1>9, <2>5
<1>11. CASE ~ (b.gaps.expected # Null /\ f.counter > b.gaps.expected)
  <2>1. t.gaps.current <= Cardinality(T) /\ t.gaps.count <= Cardinality(T)
        /\ t.gaps.longest <= Cardinality(T)
    BY <1>4, <1>5, <1>11 DEF Tallies, Recorded
  <2> QED BY <1>6, <1>8, <1>9, <2>1
<1> QED BY <1>10, <1>11

\* The frame is recorded, and the receiving end's own counts may be taken.
LEMMA RecordStep ==
  ASSUME LinkAssumption, MeasuredOK, NEW b, NEW m, ReceiverOK(b, m), NEW f, Recordable(b, f),
         NEW t, t = Record(b, f), receiver' = t, air' = air \ {f}, seen' = SeenOf(f),
         UNCHANGED <<now, sender, metrics, reports>>,
         reverse' = m \/ reverse' = Counts(m, t.highest, t.packets)
  PROVE  /\ MeasuredOK'
         /\ m.known => Covered(seen'.skipped, m.highest, m.packets, t.highest, t.packets)
<1>1. /\ Types /\ FramesOK /\ StampsOK /\ ReportsOK /\ b \in Receiver /\ Tallies(b) /\ HeardOK(b)
      /\ now \in Nat /\ f \in Frame /\ f \in air /\ f.session \in {0, 1} /\ f.counter \in Nat
  BY FrameFields DEF MeasuredOK, Types, ReceiverOK, Recordable, Session
<1>2. t \in Receiver /\ Recorded(b, f, t)
  BY <1>1, RecordFields
<1>3. PICK T, u : T = SeenOf(f).skipped /\ u = SeenOf(f).top
  OBVIOUS
<1>4. /\ seen' \in [top : [Session -> Int], skipped : SUBSET [session : Session, counter : Nat]]
      /\ IsFiniteSet(T) /\ seen.skipped \subseteq T
      /\ \A s \in Session : s # f.session => u[s] = seen.top[s]
      /\ u[f.session] = (IF f.counter > seen.top[f.session] THEN f.counter
                         ELSE seen.top[f.session])
      /\ \A s \in Session : u[s] >= Null
      /\ \A g \in T : g.counter < u[g.session]
      /\ seen'.skipped = T /\ seen'.top = u
  BY <1>1, <1>3, SeenFields
<1>5. t.highest \in Nat /\ t.packets \in Nat /\ b.highest \in Nat /\ b.packets \in Nat
      /\ t.session = b.session /\ b.session \in {0, 1}
  BY <1>1, <1>2, ReceiverFields DEF Recorded, Session
<1>6. ASSUME NEW a, a.highest \in Nat, a.packets \in Nat, Counted(b, a)
      PROVE  Counted(receiver, a)'
  <2>1. /\ a.packets <= t.packets
        /\ \A h \in {t.highest, u[1]} \cup (IF u[1] = Null THEN {u[0]} ELSE {}) :
             Covered(T, a.highest, a.packets, h, t.packets)
    BY <1>1, <1>2, <1>3, <1>6, RecordedCounts
  <2>2. receiver' = t /\ seen'.skipped = T /\ seen'.top = u
    BY <1>4
  <2> QED BY <2>1, <2>2 DEF Counted
<1>7. ASSUME NEW a \in Taken(m)
      PROVE  a.highest \in Nat /\ a.packets \in Nat /\ Counted(receiver, a)'
  <2>1. a.highest \in Nat /\ a.packets \in Nat
    BY <1>1, ReportFields, MetricsFields DEF Taken, Types, ReceiverOK
  <2>2. Counted(b, a)
    BY DEF ReceiverOK
  <2> QED BY <1>6, <2>1, <2>2
<1>8. m.known => Covered(T, m.highest, m.packets, t.highest, t.packets)
  <2>1. m.known => Counted(receiver, m)'
    BY <1>7 DEF Taken
  <2>2. receiver' = t /\ seen'.skipped = T
    BY <1>4
  <2> QED BY <2>1, <2>2 DEF Counted
<1>9. reverse' \in Metrics /\ (reverse'.known => Counted(receiver, reverse)')
  <2>1. CASE reverse' = m
    BY <1>7, <2>1 DEF Taken, ReceiverOK, Counted
  <2>2. CASE reverse' = Counts(m, t.highest, t.packets)
    <3>1. reverse' \in Metrics /\ reverse'.highest = t.highest /\ reverse'.packets = t.packets
      BY <1>5, <2>2 DEF Counts, Metrics
    <3>2. \A h \in {t.highest, u[1]} \cup (IF u[1] = Null THEN {u[0]} ELSE {}) : h <= t.highest
      BY <1>1, <1>2, <1>3, <1>4, <1>5, RecordedTallies DEF Null
    <3> QED BY <1>4, <1>5, <3>1, <3>2 DEF Counted, Covered
  <2> QED BY <2>1, <2>2
<1>10. \A a \in Taken(reverse)' : Counted(receiver, a)'
  <2>1. \A a \in Taken(reverse)' : a \in reports \/ (metrics.known /\ a = metrics)
                                   \/ (reverse'.known /\ a = reverse')
    BY DEF Taken
  <2>2. \A a \in reports : a \in Taken(m)
    BY DEF Taken
  <2>3. metrics.known => metrics \in Taken(m)
    BY DEF Taken
  <2>4. reverse'.known => Counted(receiver, reverse)'
    BY <1>9
  <2>5. \A a \in Taken(m) : Counted(receiver, a)'
    BY <1>7
  <2>6. ASSUME NEW a, a = reverse', Counted(receiver, reverse)' PROVE Counted(receiver, a)'
    BY <2>6 DEF Counted
  <2>7. ASSUME NEW a \in Taken(reverse)' PROVE Counted(receiver, a)'
    BY <2>1, <2>2, <2>3, <2>4, <2>5, <2>6
  <2> QED BY <2>7
<1>11. Tallies(receiver)'
  <2>1. /\ t.gaps.expected = t.highest + 1 /\ t.gaps.expected # Null
        /\ u[1] = Null => t.highest = u[0]
        /\ u[1] # Null => u[1] <= t.highest
        /\ t.gaps.current <= Cardinality(T) /\ t.gaps.count <= Cardinality(T)
        /\ t.gaps.longest <= Cardinality(T)
    BY <1>1, <1>2, <1>3, RecordedTallies
  <2>2. receiver' = t /\ seen'.skipped = T /\ seen'.top = u
    BY <1>4
  <2> QED BY <2>1, <2>2 DEF Tallies
<1>12. \A k, timestamp, time : Stamp(k, timestamp, time)' <=> Stamp(k, timestamp, time)
  BY DEF Stamp
<1>13. u[1] = Null <=> seen.top[1] = Null /\ f.session = 0
  BY <1>1, <1>4 DEF Session, FramesOK, Null
<1>14. HeardOK(receiver)'
  <2>1. /\ t.heard = now /\ t.sentAt = f.at /\ t.timestamp = f.timestamp
        /\ t.grace = (IF now < b.grace THEN b.grace ELSE 0)
        /\ 0 <= f.at /\ f.at <= now /\ now <= f.at + Delay /\ Stamp(f.session, f.timestamp, f.at)
    BY <1>1, <1>2, FrameFields DEF Recorded, StampsOK
  <2>2. f.session = 0 => b.session = 0 \/ now < t.grace
    BY <1>1, <1>5, <2>1 DEF Recordable
  <2>3. f.session = 0 => u[1] = Null
    BY <1>1, <1>13 DEF StampsOK
  <2>4. f.session = 1 => b.session = 1
    BY DEF Recordable
  <2>5. u[1] # Null => b.session = 1
    BY <1>1, <1>5, <1>13, <2>4 DEF HeardOK
  <2>6. receiver' = t /\ now' = now /\ seen'.top = u
    BY <1>4
  <2>7. /\ t.heard # Null /\ t.gaps.expected # Null
        /\ u[1] # Null => t.session = 1
        /\ 0 <= t.sentAt /\ t.sentAt <= t.heard /\ t.heard <= t.sentAt + Delay /\ t.heard <= now
    <3>1. t.gaps.expected # Null
      BY <1>1, <1>2, <1>3, RecordedTallies
    <3> QED BY <1>1, <1>5, <2>1, <2>5, <3>1 DEF Null
  <2>8. \/ /\ Stamp(0, t.timestamp, t.sentAt)
           /\ t.session = 0 \/ (now < t.grace /\ u[1] = Null)
        \/ Stamp(1, t.timestamp, t.sentAt) /\ t.session = 1
    <3>1. CASE f.session = 0
      BY <1>5, <2>1, <2>2, <2>3, <3>1
    <3>2. CASE f.session = 1
      BY <1>5, <2>1, <2>4, <3>2
    <3> QED BY <1>1, <3>1, <3>2
  <2>9. \/ /\ Stamp(0, t.timestamp, t.sentAt)'
           /\ t.session = 0 \/ (now < t.grace /\ u[1] = Null)
        \/ Stamp(1, t.timestamp, t.sentAt)' /\ t.session = 1
    BY <1>12, <2>8
  <2> QED BY <2>6, <2>7, <2>9 DEF HeardOK
<1>15. Types'
  BY <1>1, <1>4 DEF Types
<1>16. StampsOK'
  <2>1. u[1] # Null => sender.session = 1 /\ \A g \in air : g = f \/ g.session = 1
    <3>1. CASE f.session = 0
      BY <1>1, <1>13, <3>1 DEF StampsOK
    <3>2. CASE f.session = 1
      <4>1. \A g \in air : g.session \in {0, 1}
        BY <1>1, FrameFields DEF Types, Session
      <4> QED BY <1>1, <3>2, <4>1 DEF StampsOK, Stamp, Recordable
    <3> QED BY <1>1, <3>1, <3>2
  <2> QED BY <1>1, <1>4, <1>12, <2>1 DEF StampsOK
<1>17. FramesOK'
  <2>1. \A g \in air \ {f} : g.session = 0 => u[0] < g.counter
    <3>1. ASSUME NEW g \in air \ {f}, g.session = 0 PROVE u[0] < g.counter
      <4>1. f.session = 0 /\ f.counter <= g.counter /\ f.counter # g.counter /\ g.counter \in Nat
        BY <1>1, <3>1, FrameFields DEF Recordable, FramesOK, Types
      <4> QED BY <1>1, <1>4, <3>1, <4>1 DEF FramesOK, Session
    <3> QED BY <3>1
  <2>2. sender.session = 0 => u[0] < sender.counter
    BY <1>1, <1>4 DEF FramesOK, StampsOK, Stamp, Session
  <2> QED BY <1>1, <1>4, <2>1, <2>2 DEF FramesOK
<1>18. ReportsOK'
  <2>1. ASSUME NEW a, a.highest \in Nat, a.packets \in Nat, NEW c \in reports,
               Covered(seen.skipped, a.highest, a.packets, c.highest, c.packets)
        PROVE  Covered(T, a.highest, a.packets, c.highest, c.packets)
    <3>1. c.highest \in Int /\ c.packets \in Int
      BY <1>1, ReportFields DEF Types
    <3> QED BY <1>4, <2>1, <3>1, CoveredGrows
  <2>2. \A a \in reports : a.highest \in Nat /\ a.packets \in Nat
    BY <1>1, ReportFields DEF Types
  <2>3. metrics.highest \in Nat /\ metrics.packets \in Nat
    BY <1>1, MetricsFields DEF Types
  <2> QED BY <1>1, <1>4, <2>1, <2>2, <2>3 DEF ReportsOK
<1>19. \A a \in reports : /\ a.session <= t.session
                          /\ a.session = t.session => a.highest <= t.highest
  <2>1. \A a \in reports : a.highest \in Nat
    BY <1>1, ReportFields DEF Types
  <2>2. b.highest <= t.highest
    BY <1>1, <1>2, <1>5 DEF Recorded
  <2> QED BY <1>5, <2>1, <2>2 DEF ReceiverOK
<1>20. ReceiverOK(receiver, reverse)'
  BY <1>2, <1>9, <1>10, <1>11, <1>14, <1>19 DEF ReceiverOK
<1>21. MeasuredOK'
  BY <1>15, <1>16, <1>17, <1>18, <1>20 DEF MeasuredOK
<1> QED BY <1>4, <1>8, <1>21


-----------------------------------------------------------------------------
(* What the ends derive.                                                   *)

Real == LossIsReal /\ TimesAreReal

LEMMA LossCovered ==
  ASSUME NEW S, IsFiniteSet(S), NEW m \in Metrics, NEW h \in Nat, NEW p \in Nat,
         m.known => Covered(S, m.highest, m.packets, h, p)
  PROVE  Loss(m, h, p).lost <= Cardinality(Within(S, Loss(m, h, p).from, Loss(m, h, p).to))
<1>1. m.known \in BOOLEAN /\ m.highest \in Nat /\ m.packets \in Nat
  BY MetricsFields
<1>2. Loss(m, h, p).from = m.highest /\ Loss(m, h, p).to = h
  BY DEF Loss
<1>3. PICK k : k = Cardinality(Within(S, m.highest, h))
  OBVIOUS
<1>4. k \in Nat
  BY <1>3, WithinSize
<1>5. Loss(m, h, p).lost
        = IF m.known THEN Monus(Monus(h, m.highest), Monus(p, m.packets)) ELSE 0
  BY DEF Loss
<1>6. m.known => h <= m.highest \/ h - m.highest <= (p - m.packets) + k
  BY <1>3 DEF Covered
<1>7. Loss(m, h, p).lost <= k
  BY <1>1, <1>4, <1>5, <1>6 DEF Monus
<1> QED BY <1>2, <1>3, <1>7

\* Real, part by part.
LEMMA RealParts ==
  ASSUME derived'.loss.lost
           <= Cardinality(Within(seen'.skipped, derived'.loss.from, derived'.loss.to)),
         derived'.bursts.count <= Cardinality(seen'.skipped),
         derived'.bursts.longest <= Cardinality(seen'.skipped),
         derived'.rtt.sample = derived'.rtt.real, derived'.jitter \in -Delay .. Delay
  PROVE  Real'
BY DEF Real, LossIsReal, TimesAreReal, Within

LEMMA NothingFields ==
  ASSUME Delay \in Nat, NEW S, IsFiniteSet(S)
  PROVE  /\ Nothing.loss.lost <= Cardinality(Within(S, Nothing.loss.from, Nothing.loss.to))
         /\ Nothing.bursts.count <= Cardinality(S) /\ Nothing.bursts.longest <= Cardinality(S)
         /\ Nothing.rtt.sample = Nothing.rtt.real /\ Nothing.jitter \in -Delay .. Delay
<1>1. /\ Cardinality(S) \in Nat
      /\ Cardinality(Within(S, Nothing.loss.from, Nothing.loss.to)) \in Nat
  BY WithinSize, FS_CardinalityType
<1> QED BY <1>1 DEF Nothing

\* The transit time changes by Delay at most.
LEMMA JitterIsSmall ==
  ASSUME LinkAssumption, MeasuredOK, NEW b \in Receiver, HeardOK(b), NEW f, Recordable(b, f)
  PROVE  Jitter(b, f) \in -Delay .. Delay
<1>1. /\ f \in Frame /\ f \in air /\ f.session \in {0, 1} /\ f.timestamp \in Int /\ f.at \in Nat
      /\ now \in Nat /\ Delay \in Nat /\ RekeyAge \in Nat /\ sender.start \in Int
      /\ f.at <= now /\ now <= f.at + Delay /\ Stamp(f.session, f.timestamp, f.at)
  BY FrameFields DEF MeasuredOK, Types, StampsOK, Recordable, Session, LinkAssumption
<1>2. /\ b.session \in {0, 1} /\ b.timestamp \in Int /\ b.heard \in Int /\ b.sentAt \in Int
      /\ b.grace \in Int
  BY ReceiverFields DEF Session
<1>3. CASE InGrace(b) \/ b.heard = Null
  BY <1>1, <1>3 DEF Jitter
<1>4. CASE ~ (InGrace(b) \/ b.heard = Null)
  <2>1. /\ b.sentAt <= b.heard /\ b.heard <= b.sentAt + Delay
        /\ (b.session = 0 /\ Stamp(0, b.timestamp, b.sentAt))
             \/ (b.session = 1 /\ Stamp(1, b.timestamp, b.sentAt))
    BY <1>4 DEF HeardOK, InGrace
  <2>2. f.session = b.session
    BY <1>1, <1>2, <1>4 DEF Recordable, InGrace
  <2>3. f.timestamp - b.timestamp = f.at - b.sentAt
    BY <1>1, <1>2, <2>1, <2>2 DEF Stamp
  <2>4. Jitter(b, f) = (now - b.heard) - (f.timestamp - b.timestamp)
    BY <1>4 DEF Jitter
  <2> QED BY <1>1, <1>2, <2>1, <2>3, <2>4
<1> QED BY <1>3, <1>4

-----------------------------------------------------------------------------
(* The steps.                                                              *)

LEMMA ReadableFrame ==
  ASSUME LinkAssumption, MeasuredOK, NEW f \in air, NEW b, NEW m, ReceiverOK(b, m),
         Recordable(b, f),
         NEW t, t = Record(b, f), NEW isReport \in BOOLEAN,
         receiver' = t, air' = air \ {f}, seen' = SeenOf(f),
         UNCHANGED <<now, sender, metrics, reports>>,
         reverse' = IF isReport THEN Counts(m, t.highest, t.packets) ELSE m,
         derived' = [Nothing EXCEPT !.jitter = Jitter(b, f),
                                    !.loss = IF isReport THEN Loss(m, t.highest, t.packets)
                                             ELSE @]
  PROVE  MeasuredOK' /\ Real'
<1>1. /\ MeasuredOK'
      /\ m.known => Covered(seen'.skipped, m.highest, m.packets, t.highest, t.packets)
  BY RecordStep
<1>2. b \in Receiver /\ m \in Metrics /\ HeardOK(b) /\ now \in Nat /\ f \in Frame /\ Delay \in Nat
  BY DEF ReceiverOK, MeasuredOK, Types, LinkAssumption
<1>3. t \in Receiver
  BY <1>2, RecordFields
<1>4. t.highest \in Nat /\ t.packets \in Nat
  BY <1>3, ReceiverFields
<1>5. Jitter(b, f) \in -Delay .. Delay
  BY <1>2, JitterIsSmall
<1>6. IsFiniteSet(seen'.skipped)
  BY <1>1 DEF MeasuredOK, Types
<1>7. PICK loss : loss = IF isReport THEN Loss(m, t.highest, t.packets) ELSE Nothing.loss
  OBVIOUS
<1>8. /\ derived'.loss = loss /\ derived'.bursts = Nothing.bursts /\ derived'.rtt = Nothing.rtt
      /\ derived'.jitter = Jitter(b, f)
  BY <1>7 DEF Nothing
<1>9. loss.lost <= Cardinality(Within(seen'.skipped, loss.from, loss.to))
  <2>1. CASE isReport
    BY <1>1, <1>2, <1>4, <1>6, <1>7, <2>1, LossCovered
  <2>2. CASE ~ isReport
    BY <1>2, <1>6, <1>7, <2>2, NothingFields
  <2> QED BY <2>1, <2>2
<1>10. Real'
  BY <1>2, <1>5, <1>6, <1>8, <1>9, NothingFields, RealParts
<1> QED BY <1>1, <1>10

\* Frames arrive or are lost, and nothing is recorded.
LEMMA UnrecordedMeasured ==
  ASSUME LinkAssumption, MeasuredOK, air' \subseteq air, reports' \subseteq reports,
         UNCHANGED <<now, sender, receiver, reverse, metrics, seen>>
  PROVE  MeasuredOK'
<1>1. metrics \in Metrics
  BY DEF MeasuredOK, Types
<1>2. metrics.known => Counted(receiver, metrics)
  BY DEF MeasuredOK, ReceiverOK, Taken
<1>3. metrics.known => \A b \in reports' : Covered(seen.skipped, metrics.highest,
                                                   metrics.packets, b.highest, b.packets)
  BY DEF MeasuredOK, ReportsOK
<1>4. PICK k, n : k = metrics /\ n = metrics'
  OBVIOUS
<1>5. k = n
  BY <1>4
<1>6. metrics' \in Metrics /\ (metrics'.known => Counted(receiver, metrics'))
  BY <1>1, <1>2, <1>4, <1>5
<1>7. metrics'.known => \A b \in reports' : Covered(seen.skipped, metrics'.highest,
                                                    metrics'.packets, b.highest, b.packets)
  BY <1>3, <1>4, <1>5
<1> QED BY <1>6, <1>7, SenderStep

LEMMA FiniteSkipped ==
  ASSUME MeasuredOK'
  PROVE  IsFiniteSet(seen'.skipped)
BY DEF MeasuredOK, Types

LEMMA QuietIsReal ==
  ASSUME LinkAssumption, MeasuredOK', derived' = Nothing
  PROVE  Real'
BY FiniteSkipped, NothingIsReal DEF Real, LinkAssumption

LEMMA ReceiveFrameReal ==
  ASSUME LinkAssumption, MeasuredOK, NEW f \in air, NEW isReport \in BOOLEAN,
         ReceiveFrame(f, isReport)
  PROVE  MeasuredOK' /\ Real'
<1> DEFINE flips == f.session = 1 /\ receiver.session = 0
           b == IF flips THEN ResetReceiver(receiver) ELSE receiver
           t == Record(b, f)
           m == IF flips THEN NewMetrics ELSE reverse
<1>1. /\ \A o \in air : o.session = 0 => f.session = 0 /\ f.counter <= o.counter
      /\ air' = air \ {f}
      /\ UNCHANGED <<now, sender, metrics, reports>>
  BY DEF ReceiveFrame, LinkAssumption
<1>2. CASE Readable(f.session, receiver.session, receiver.grace - Grace)
  <2>1. /\ receiver' = t
        /\ reverse' = IF isReport THEN Counts(m, t.highest, t.packets) ELSE m
        /\ derived' = [Nothing EXCEPT !.jitter = Jitter(b, f),
                                      !.loss = IF isReport THEN Loss(m, t.highest, t.packets)
                                               ELSE @]
        /\ seen' = SeenOf(f)
    BY <1>2, Zenon DEF ReceiveFrame, SeenOf
  <2>2. ReceiverOK(b, m) /\ b.session = IF flips THEN 1 ELSE receiver.session
    BY ResetOK DEF MeasuredOK
  <2>3. receiver.session \in {0, 1} /\ f.session \in {0, 1} /\ receiver.grace \in Int /\ now \in Nat
    BY ReceiverFields, FrameFields DEF MeasuredOK, Types, ReceiverOK, Session
  <2>4. f.session = 0 => b = receiver
    OBVIOUS
  <2>5. f.session = 0 => receiver.session = 0 \/ now < receiver.grace
    BY <1>2, <2>3 DEF Readable, LinkAssumption
  <2>6. f.session = 1 => b.session = 1
    BY <2>2, <2>3
  <2> HIDE DEF b, t, m
  <2>7. Recordable(b, f)
    BY <1>1, <2>3, <2>4, <2>5, <2>6 DEF Recordable
  <2>8. PICK x : x = t
    OBVIOUS
  <2>9. x = Record(b, f)
    BY <2>8 DEF t
  <2> QED BY <1>1, <2>1, <2>2, <2>7, <2>8, <2>9, ReadableFrame
<1>3. CASE ~ Readable(f.session, receiver.session, receiver.grace - Grace)
  <2>1. derived' = Nothing /\ UNCHANGED <<receiver, reverse, seen>>
    BY <1>3, Zenon DEF ReceiveFrame
  <2>2. MeasuredOK'
    BY <1>1, <2>1, UnrecordedMeasured
  <2> QED BY <2>1, <2>2, QuietIsReal
<1> QED BY <1>2, <1>3

LEMMA LoseReal ==
  ASSUME LinkAssumption, MeasuredOK, LinkLoses
  PROVE  MeasuredOK' /\ Real'
<1>1. /\ air' \subseteq air /\ reports' \subseteq reports /\ derived' = Nothing
      /\ UNCHANGED <<now, sender, receiver, reverse, metrics, seen>>
  BY DEF LinkLoses
<1>2. MeasuredOK'
  BY <1>1, UnrecordedMeasured
<1> QED BY <1>1, <1>2, QuietIsReal

LEMMA SenderCutsReal ==
  ASSUME LinkAssumption, MeasuredOK, CutoverSender \/ BeatArrives
  PROVE  MeasuredOK' /\ Real'
<1>1. /\ sender.session = 0 /\ sender' = SenderCutsOver /\ metrics' = NewMetrics
      /\ derived' = Nothing
      /\ now' = now /\ receiver' = receiver /\ reverse' = reverse /\ seen' = seen
      /\ air' = air /\ reports' = reports
  BY DEF CutoverSender, BeatArrives
<1>2. metrics' \in Metrics /\ ~ metrics'.known
  BY <1>1, NewMetricsFields
<1>3. MeasuredOK'
  BY <1>1, <1>2, SenderStep
<1> QED BY <1>1, <1>3, QuietIsReal

LEMMA ReceiverCutsReal ==
  ASSUME LinkAssumption, MeasuredOK, CutoverReceiver
  PROVE  MeasuredOK' /\ Real'
<1>1. PICK b, m : b = ResetReceiver(receiver) /\ m = NewMetrics
  OBVIOUS
<1>2. /\ receiver.session = 0 /\ receiver' = b /\ reverse' = m /\ derived' = Nothing
      /\ UNCHANGED <<now, sender, metrics, air, reports, seen>>
  BY <1>1 DEF CutoverReceiver
<1>3. ReceiverOK(b, m)
  BY <1>1, <1>2, ResetOK
<1>4. Types' /\ FramesOK' /\ ReportsOK'
  BY <1>2 DEF MeasuredOK, Types, FramesOK, ReportsOK
<1>5. \A k, timestamp, time : Stamp(k, timestamp, time)' <=> Stamp(k, timestamp, time)
  BY <1>2 DEF Stamp
<1>6. StampsOK'
  BY <1>2, <1>5 DEF MeasuredOK, StampsOK
<1>7. HeardOK(receiver)'
  BY <1>2, <1>3, <1>5 DEF ReceiverOK, HeardOK
<1>8. Tallies(receiver)'
  BY <1>2, <1>3 DEF ReceiverOK, Tallies
<1>9. \A a \in Taken(reverse)' : Counted(receiver, a)'
  BY <1>2, <1>3 DEF ReceiverOK, Taken, Counted
<1>10. ReceiverOK(receiver, reverse)'
  BY <1>2, <1>3, <1>7, <1>8, <1>9 DEF ReceiverOK
<1>11. MeasuredOK'
  BY <1>4, <1>6, <1>10 DEF MeasuredOK
<1> QED BY <1>2, <1>11, QuietIsReal

\* What the receiver's state is after a report.
LEMMA ReportedReceiver ==
  ASSUME NEW r \in Receiver, NEW t, t = [r EXCEPT !.gaps = IntervalEnds(@), !.data = FALSE]
  PROVE  /\ t \in Receiver /\ t.session = r.session /\ t.highest = r.highest
         /\ t.packets = r.packets /\ t.timestamp = r.timestamp /\ t.heard = r.heard
         /\ t.sentAt = r.sentAt /\ t.grace = r.grace /\ t.data = FALSE
         /\ t.gaps.expected = r.gaps.expected /\ t.gaps.current = 0
         /\ t.gaps.count = 0 /\ t.gaps.longest = 0
<1>1. PICK g, h : g = r.gaps /\ h = IntervalEnds(g)
  OBVIOUS
<1>2. g \in Tracker
  BY <1>1, ReceiverFields
<1>3. FinishBurst(g) \in Tracker /\ FinishBurst(g).expected = g.expected
      /\ FinishBurst(g).current = 0
  BY <1>2 DEF FinishBurst, Tracker
<1>4. h = [FinishBurst(g) EXCEPT !.count = 0, !.longest = 0]
  BY <1>1 DEF IntervalEnds
<1>5. /\ h \in Tracker /\ h.expected = g.expected /\ h.current = 0 /\ h.count = 0 /\ h.longest = 0
  BY <1>3, <1>4 DEF Tracker
<1>6. t = [r EXCEPT !.gaps = h, !.data = FALSE]
  BY <1>1 DEF Receiver
<1> QED BY <1>1, <1>5, <1>6 DEF Receiver

LEMMA SendReportReal ==
  ASSUME LinkAssumption, MeasuredOK, SendReport
  PROVE  MeasuredOK' /\ Real'
<1>1. PICK r, t, c : /\ r = receiver /\ c = Report
                     /\ t = [r EXCEPT !.gaps = IntervalEnds(@), !.data = FALSE]
  OBVIOUS
<1>2. /\ r.data /\ reports' = reports \cup {c} /\ receiver' = t
      /\ derived' = [Nothing EXCEPT !.bursts = Bursts(r.gaps)]
      /\ UNCHANGED <<now, sender, reverse, metrics, air, seen>>
  BY <1>1 DEF SendReport
<1>3. /\ r \in Receiver /\ HeardOK(r) /\ Tallies(r) /\ reverse \in Metrics /\ metrics \in Metrics
      /\ \A a \in Taken(reverse) : Counted(r, a)
      /\ \A a \in reports : /\ a.session <= r.session
                            /\ a.session = r.session => a.highest <= r.highest
      /\ IsFiniteSet(seen.skipped) /\ now \in Nat /\ Delay \in Nat
  BY <1>1 DEF MeasuredOK, ReceiverOK, Types, LinkAssumption
<1>4. /\ r.session \in {0, 1} /\ r.highest \in Nat /\ r.packets \in Nat /\ r.timestamp \in Int
      /\ r.heard \in Int /\ r.sentAt \in Int
      /\ r.gaps.current \in Nat /\ r.gaps.count \in Nat /\ r.gaps.longest \in Nat
  BY <1>3, ReceiverFields DEF Session
<1>5. /\ t \in Receiver /\ t.session = r.session /\ t.highest = r.highest
      /\ t.packets = r.packets /\ t.timestamp = r.timestamp /\ t.heard = r.heard
      /\ t.sentAt = r.sentAt /\ t.grace = r.grace /\ t.data = FALSE
      /\ t.gaps.expected = r.gaps.expected /\ t.gaps.current = 0
      /\ t.gaps.count = 0 /\ t.gaps.longest = 0
  <2>1. r \in Receiver
    BY <1>3
  <2>2. t = [r EXCEPT !.gaps = IntervalEnds(@), !.data = FALSE]
    BY <1>1
  <2> QED BY <2>1, <2>2, ReportedReceiver
<1>6. /\ c \in Reported /\ c.session = r.session /\ c.highest = r.highest /\ c.packets = r.packets
      /\ c.echo = r.timestamp /\ c.dwell = now - r.heard /\ c.sentAt = r.sentAt /\ c.at = now
  BY <1>1, <1>3, <1>4 DEF Report, Reported, Session
<1>7. r.heard # Null /\ r.gaps.expected # Null
  BY <1>2, <1>3 DEF HeardOK
<1>8. \A k, timestamp, time : Stamp(k, timestamp, time)' <=> Stamp(k, timestamp, time)
  BY <1>2 DEF Stamp
<1>9. Types'
  <2>1. reports' \subseteq Reported
    BY <1>2, <1>6 DEF MeasuredOK, Types
  <2> QED BY <1>2, <2>1 DEF MeasuredOK, Types
<1>10. StampsOK'
  <2>1. /\ 0 <= c.sentAt /\ now <= c.at + Delay /\ c.at - c.dwell <= c.sentAt + Delay
        /\ Stamp(0, c.echo, c.sentAt) \/ (c.session = 1 /\ Stamp(1, c.echo, c.sentAt))
    BY <1>3, <1>4, <1>6, <1>7 DEF HeardOK
  <2>2. \A rr \in reports :
          /\ 0 <= rr.sentAt /\ now <= rr.at + Delay /\ rr.at - rr.dwell <= rr.sentAt + Delay
          /\ Stamp(0, rr.echo, rr.sentAt) \/ (rr.session = 1 /\ Stamp(1, rr.echo, rr.sentAt))
    BY DEF MeasuredOK, StampsOK
  <2>3. \A rr \in reports' : rr \in reports \/ rr = c
    BY <1>2
  <2>4. \A rr \in reports' :
          /\ 0 <= rr.sentAt /\ now <= rr.at + Delay /\ rr.at - rr.dwell <= rr.sentAt + Delay
          /\ Stamp(0, rr.echo, rr.sentAt) \/ (rr.session = 1 /\ Stamp(1, rr.echo, rr.sentAt))
    BY <2>1, <2>2, <2>3
  <2> QED BY <1>2, <1>8, <2>4 DEF MeasuredOK, StampsOK
<1>11. FramesOK'
  BY <1>2 DEF MeasuredOK, FramesOK
<1>12. ASSUME NEW a \in Taken(reverse)
       PROVE  Covered(seen.skipped, a.highest, a.packets, c.highest, c.packets)
  <2>1. Counted(r, a)
    BY <1>3
  <2> QED BY <1>6, <2>1 DEF Counted
<1>13. ReportsOK'
  <2>1. \A a \in reports : Covered(seen.skipped, a.highest, a.packets, c.highest, c.packets)
    BY <1>12 DEF Taken
  <2>2. metrics.known => Covered(seen.skipped, metrics.highest, metrics.packets,
                                 c.highest, c.packets)
    BY <1>12 DEF Taken
  <2>3. ASSUME NEW a \in reports, c.session <= a.session
        PROVE  Covered(seen.skipped, c.highest, c.packets, a.highest, a.packets)
    <3>1. a.session = r.session
      BY <1>3, <1>4, <1>6, <2>3, ReportFields DEF MeasuredOK, Types, Session
    <3>2. a.highest <= c.highest
      BY <1>3, <1>6, <3>1
    <3> QED BY <3>2 DEF Covered
  <2>4. Covered(seen.skipped, c.highest, c.packets, c.highest, c.packets)
    BY <1>4, <1>6 DEF Covered
  <2>5. ASSUME NEW a \in reports', NEW d \in reports', a.session <= d.session
        PROVE  Covered(seen.skipped, a.highest, a.packets, d.highest, d.packets)
    <3>1. CASE a \in reports /\ d \in reports
      BY <2>5, <3>1 DEF MeasuredOK, ReportsOK
    <3>2. CASE a \in reports /\ d = c
      BY <2>1, <3>2
    <3>3. CASE a = c /\ d \in reports
      BY <2>3, <2>5, <3>3
    <3>4. CASE a = c /\ d = c
      BY <2>4, <3>4
    <3> QED BY <1>2, <3>1, <3>2, <3>3, <3>4
  <2>6. ASSUME metrics.known, NEW d \in reports'
        PROVE  Covered(seen.skipped, metrics.highest, metrics.packets, d.highest, d.packets)
    BY <1>2, <2>2, <2>6 DEF MeasuredOK, ReportsOK
  <2> QED BY <1>2, <2>5, <2>6 DEF ReportsOK
<1>14. HeardOK(receiver)'
  <2>1. HeardOK(t)
    BY <1>3, <1>5 DEF HeardOK
  <2> QED BY <1>2, <1>8, <2>1 DEF HeardOK
<1>15. Tallies(receiver)'
  <2>1. Cardinality(seen.skipped) \in Nat
    BY <1>3, FS_CardinalityType
  <2>2. Tallies(t)
    BY <1>3, <1>5, <2>1 DEF Tallies
  <2> QED BY <1>2, <2>2 DEF Tallies
<1>16. Counted(t, c)
  <2>1. ASSUME NEW h \in {t.highest, seen.top[1]}
                         \cup (IF seen.top[1] = Null THEN {seen.top[0]} ELSE {})
        PROVE  h <= c.highest
    BY <1>3, <1>4, <1>5, <1>6, <1>7, <2>1 DEF Tallies, Null
  <2> QED BY <1>4, <1>5, <1>6, <2>1 DEF Counted, Covered
<1>17. \A a \in Taken(reverse)' : Counted(receiver, a)'
  <2>1. \A a \in Taken(reverse)' : a \in Taken(reverse) \/ a = c
    BY <1>2 DEF Taken
  <2>2. \A a \in Taken(reverse) : Counted(t, a)
    BY <1>3, <1>5 DEF Counted
  <2>3. \A a \in Taken(reverse)' : Counted(t, a)
    BY <1>16, <2>1, <2>2
  <2> QED BY <1>2, <2>3 DEF Counted
<1>18. ReceiverOK(receiver, reverse)'
  <2>1. \A a \in reports' : /\ a.session <= t.session
                            /\ a.session = t.session => a.highest <= t.highest
    BY <1>2, <1>3, <1>4, <1>5, <1>6
  <2> QED BY <1>2, <1>3, <1>5, <1>14, <1>15, <1>17, <2>1 DEF ReceiverOK
<1>19. MeasuredOK'
  BY <1>9, <1>10, <1>11, <1>13, <1>18 DEF MeasuredOK
<1>20. Real'
  <2>1. /\ derived'.loss = Nothing.loss /\ derived'.rtt = Nothing.rtt
        /\ derived'.jitter = Nothing.jitter /\ derived'.bursts = Bursts(r.gaps)
    BY <1>2 DEF Nothing
  <2>2. /\ Bursts(r.gaps).count = r.gaps.count
        /\ Bursts(r.gaps).longest \in {r.gaps.current, r.gaps.longest}
    <3>1. r.gaps \in Tracker
      BY <1>3, ReceiverFields
    <3> QED BY <3>1 DEF Bursts, FinishBurst, Tracker
  <2>3. /\ Bursts(r.gaps).count <= Cardinality(seen.skipped)
        /\ Bursts(r.gaps).longest <= Cardinality(seen.skipped)
    BY <1>3, <2>2 DEF Tallies
  <2>4. seen' = seen
    BY <1>2
  <2> QED BY <1>3, <2>1, <2>3, <2>4, NothingFields, RealParts
<1> QED BY <1>19, <1>20

LEMMA SampleIsReal ==
  ASSUME LinkAssumption, MeasuredOK, NEW rr \in reports, NEW s,
         s = IF rr.session = 1 /\ sender.session = 0 THEN SenderCutsOver ELSE sender
  PROVE  Rtt(rr, now - s.start).sample = Rtt(rr, now - s.start).real
<1>1. /\ rr.session \in {0, 1} /\ rr.echo \in Int /\ rr.dwell \in Int /\ rr.sentAt \in Int
      /\ rr.at \in Nat
      /\ now \in Nat /\ sender.session \in {0, 1} /\ sender.start \in Int
      /\ Delay \in Nat /\ RekeyAge \in Nat /\ RekeyAge > 2 * Delay
  BY ReportFields DEF MeasuredOK, Types, Session, LinkAssumption
<1>2. /\ 0 <= rr.sentAt /\ now <= rr.at + Delay /\ rr.at - rr.dwell <= rr.sentAt + Delay
      /\ Stamp(0, rr.echo, rr.sentAt) \/ Stamp(1, rr.echo, rr.sentAt)
      /\ sender.session = 0 => sender.start = -RekeyAge
      /\ sender.session = 1 => sender.start \in 0 .. now
  BY DEF MeasuredOK, StampsOK
<1>3. PICK e : e = now - s.start
  OBVIOUS
<1>4. CASE rr.session = 1 /\ sender.session = 0
  <2>1. e = 0
    BY <1>1, <1>3, <1>4, CutsOverFields
  <2>2. rr.echo = rr.sentAt + RekeyAge
    BY <1>2, <1>4 DEF Stamp
  <2>3. ~ IsSample(rr, e)
    BY <1>1, <1>2, <2>1, <2>2 DEF IsSample
  <2> QED BY <1>3, <2>3 DEF Rtt
<1>5. CASE ~ (rr.session = 1 /\ sender.session = 0)
  <2>1. e = now - sender.start
    BY <1>3, <1>5
  <2>2. CASE Stamp(0, rr.echo, rr.sentAt) /\ sender.session = 1
    <3>1. rr.echo = rr.sentAt + RekeyAge
      BY <2>2 DEF Stamp
    <3>2. ~ IsSample(rr, e)
      BY <1>1, <1>2, <2>1, <2>2, <3>1 DEF IsSample
    <3> QED BY <1>3, <3>2 DEF Rtt
  <2>3. CASE ~ (Stamp(0, rr.echo, rr.sentAt) /\ sender.session = 1)
    <3>1. rr.echo = rr.sentAt - sender.start
      BY <1>1, <1>2, <2>3 DEF Stamp
    <3>2. e - rr.echo - rr.dwell = now - rr.sentAt - rr.dwell
      BY <1>1, <2>1, <3>1
    <3> QED BY <1>3, <3>2 DEF Rtt
  <2> QED BY <2>2, <2>3
<1> QED BY <1>4, <1>5

LEMMA ReceiveReportReal ==
  ASSUME LinkAssumption, MeasuredOK, NEW rr \in reports, ReceiveReport(rr)
  PROVE  MeasuredOK' /\ Real'
<1> DEFINE flips == rr.session = 1 /\ sender.session = 0
           s == IF flips THEN SenderCutsOver ELSE sender
           m == IF flips THEN NewMetrics ELSE metrics
<1>1. /\ \A o \in reports : o.session = 0 => rr.session = 0
      /\ reports' = reports \ {rr}
      /\ UNCHANGED <<now, receiver, reverse, air, seen>>
  BY DEF ReceiveReport, LinkAssumption
<1>2. CASE Readable(rr.session, sender.session, sender.start)
  <2>1. /\ sender' = s /\ metrics' = Counts(m, rr.highest, rr.packets)
        /\ derived' = [Nothing EXCEPT !.loss = Loss(m, rr.highest, rr.packets),
                                      !.rtt = Rtt(rr, now - s.start)]
    BY <1>2, Zenon DEF ReceiveReport
  <2>2. /\ rr.highest \in Nat /\ rr.packets \in Nat /\ m \in Metrics
        /\ IsFiniteSet(seen.skipped) /\ Delay \in Nat
    BY ReportFields, NewMetricsFields DEF MeasuredOK, Types, LinkAssumption
  <2>3. /\ metrics' \in Metrics /\ metrics'.highest = rr.highest
        /\ metrics'.packets = rr.packets
    BY <2>1, <2>2 DEF Counts, Metrics
  <2>4. Counted(receiver, metrics')
    <3>1. Counted(receiver, rr)
      BY DEF MeasuredOK, ReceiverOK, Taken
    <3> QED BY <2>3, <3>1 DEF Counted
  <2>5. ASSUME NEW c \in reports'
        PROVE  Covered(seen.skipped, metrics'.highest, metrics'.packets, c.highest, c.packets)
    <3>1. c \in reports /\ rr.session <= c.session
      BY <1>1, ReportFields DEF MeasuredOK, Types, Session
    <3> QED BY <2>3, <3>1 DEF MeasuredOK, ReportsOK
  <2>6. sender' = sender \/ (sender.session = 0 /\ sender' = SenderCutsOver)
    BY <2>1
  <2>7. MeasuredOK'
    BY <1>1, <2>3, <2>4, <2>5, <2>6, SenderStep
  <2>8. m.known => Covered(seen.skipped, m.highest, m.packets, rr.highest, rr.packets)
    BY NewMetricsFields DEF MeasuredOK, ReportsOK
  <2>9. Rtt(rr, now - s.start).sample = Rtt(rr, now - s.start).real
    BY SampleIsReal
  <2> HIDE DEF s, m
  <2>10. PICK loss, rtt : loss = Loss(m, rr.highest, rr.packets) /\ rtt = Rtt(rr, now - s.start)
    OBVIOUS
  <2>11. /\ derived'.loss = loss /\ derived'.rtt = rtt /\ derived'.jitter = Nothing.jitter
         /\ derived'.bursts = Nothing.bursts
    BY <2>1, <2>10 DEF Nothing
  <2>12. loss.lost <= Cardinality(Within(seen.skipped, loss.from, loss.to))
    BY <2>2, <2>8, <2>10, LossCovered
  <2>13. rtt.sample = rtt.real
    BY <2>9, <2>10
  <2>14. seen' = seen
    BY <1>1
  <2>15. Real'
    BY <2>2, <2>11, <2>12, <2>13, <2>14, NothingFields, RealParts
  <2> QED BY <2>7, <2>15
<1>3. CASE ~ Readable(rr.session, sender.session, sender.start)
  <2>1. derived' = Nothing /\ UNCHANGED <<sender, metrics>>
    BY <1>3, Zenon DEF ReceiveReport
  <2>2. MeasuredOK'
    BY <1>1, <2>1, UnrecordedMeasured
  <2> QED BY <2>1, <2>2, QuietIsReal
<1> QED BY <1>2, <1>3

LEMMA InitReal ==
  ASSUME LinkAssumption, LinkInit
  PROVE  MeasuredOK /\ Real
<1>1. PICK r, n : /\ n = NewReceiver(0, Used, 0)
                  /\ r = [n EXCEPT !.highest = Used - 1, !.gaps.expected = Used,
                                   !.timestamp = RekeyAge, !.heard = 0, !.sentAt = 0]
  OBVIOUS
<1>2. /\ now = 0 /\ receiver = r /\ reverse = NewMetrics /\ metrics = NewMetrics
      /\ air = {} /\ reports = {} /\ derived = Nothing
      /\ sender = [session |-> 0, start |-> -RekeyAge, counter |-> Used]
      /\ seen = [top |-> [s \in Session |-> IF s = 0 THEN Used - 1 ELSE Null], skipped |-> {}]
  BY <1>1 DEF LinkInit
<1>3. Used \in Nat /\ Used >= 1 /\ RekeyAge \in Nat /\ Delay \in Nat
  BY DEF LinkAssumption
<1>4. n \in Receiver /\ n.session = 0 /\ n.gaps = NewTracker /\ n.data = FALSE
  <2>1. n \in Receiver
    BY <1>1, <1>3, FreshReceiver DEF Session
  <2> QED BY <1>1, <2>1 DEF NewReceiver
<1>5. PICK g : g = [NewTracker EXCEPT !.expected = Used]
  OBVIOUS
<1>6. g \in Tracker /\ g.expected = Used /\ g.current = 0 /\ g.count = 0 /\ g.longest = 0
  BY <1>3, <1>5 DEF NewTracker, Tracker, Null
<1>7. PICK v : v = [n EXCEPT !.highest = Used - 1, !.gaps = g, !.timestamp = RekeyAge]
  OBVIOUS
<1>8. r = [v EXCEPT !.heard = 0, !.sentAt = 0]
  BY <1>1, <1>4, <1>5, <1>7 DEF Receiver
<1>9. /\ v \in Receiver /\ v.session = 0 /\ v.highest = Used - 1 /\ v.gaps = g
      /\ v.timestamp = RekeyAge /\ v.data = FALSE
  <2>1. Used - 1 \in Nat /\ RekeyAge \in Int
    BY <1>3
  <2> QED BY <1>4, <1>6, <1>7, <2>1 DEF Receiver
<1>10. /\ r \in Receiver /\ r.session = 0 /\ r.highest = Used - 1 /\ r.gaps = g
       /\ r.timestamp = RekeyAge /\ r.data = FALSE /\ r.heard = 0 /\ r.sentAt = 0
  <2>1. v \in Receiver /\ 0 \in Int
    BY <1>9
  <2>2. r = [v EXCEPT !.heard = 0, !.sentAt = 0]
    BY <1>8
  <2>3. /\ r \in Receiver /\ r.session = v.session /\ r.highest = v.highest /\ r.gaps = v.gaps
        /\ r.timestamp = v.timestamp /\ r.data = v.data /\ r.heard = 0 /\ r.sentAt = 0
    BY <2>1, <2>2 DEF Receiver
  <2> QED BY <1>9, <2>3
<1>11. /\ seen \in [top : [Session -> Int], skipped : SUBSET [session : Session, counter : Nat]]
       /\ seen.top[0] = Used - 1 /\ seen.top[1] = Null /\ seen.skipped = {}
  BY <1>2, <1>3 DEF Session, Null
<1>12. IsFiniteSet(seen.skipped) /\ Cardinality(seen.skipped) = 0
  BY <1>11, FS_EmptySet
<1>13. /\ sender \in [session : Session, start : Int, counter : Nat] /\ sender.session = 0
       /\ sender.start = -RekeyAge /\ sender.counter = Used
  BY <1>2, <1>3 DEF Session
<1>14. Types
  BY <1>2, <1>11, <1>12, <1>13, NewMetricsFields DEF Types
<1>15. StampsOK
  BY <1>2, <1>11, <1>13 DEF StampsOK
<1>16. FramesOK /\ ReportsOK
  <2>1. \A s \in Session : seen.top[s] >= Null
    BY <1>3, <1>11 DEF Session, Null
  <2> QED BY <1>2, <1>3, <1>11, <1>13, <2>1, NewMetricsFields DEF FramesOK, ReportsOK
<1>17. HeardOK(r)
  BY <1>2, <1>3, <1>10, <1>11 DEF HeardOK, Stamp
<1>18. Tallies(r)
  BY <1>3, <1>6, <1>10, <1>11, <1>12 DEF Tallies, Null
<1>19. Taken(NewMetrics) = {}
  BY <1>2, NewMetricsFields DEF Taken
<1>20. ReceiverOK(receiver, reverse)
  BY <1>2, <1>10, <1>17, <1>18, <1>19, NewMetricsFields DEF ReceiverOK
<1>21. MeasuredOK
  BY <1>14, <1>15, <1>16, <1>20 DEF MeasuredOK
<1>22. Real
  BY <1>2, <1>3, <1>12, NothingFields
  DEF Real, LossIsReal, TimesAreReal, Within
<1> QED BY <1>21, <1>22

LEMMA StepReal ==
  ASSUME LinkAssumption, MeasuredOK, Real, [LinkNext]_linkVars
  PROVE  MeasuredOK' /\ Real'
<1>1. CASE SendFrame
  <2>1. derived' = Nothing
    BY <1>1 DEF SendFrame
  <2> QED BY <1>1, <2>1, SendFrameMeasured, QuietIsReal
<1>2. CASE \E f \in air, isReport \in BOOLEAN : ReceiveFrame(f, isReport)
  BY <1>2, ReceiveFrameReal
<1>3. CASE SendReport
  BY <1>3, SendReportReal
<1>4. CASE \E rr \in reports : ReceiveReport(rr)
  BY <1>4, ReceiveReportReal
<1>5. CASE CutoverSender \/ BeatArrives
  BY <1>5, SenderCutsReal
<1>6. CASE CutoverReceiver
  BY <1>6, ReceiverCutsReal
<1>7. CASE LinkLoses
  BY <1>7, LoseReal
<1>8. CASE LinkTick
  <2>1. derived' = Nothing
    BY <1>8 DEF LinkTick
  <2> QED BY <1>8, <2>1, TickMeasured, QuietIsReal
<1>9. CASE UNCHANGED linkVars
  <2>1. /\ UNCHANGED <<now, sender, receiver, reverse, metrics, air, reports, seen>>
        /\ derived' = derived
    BY <1>9 DEF linkVars
  <2>2. MeasuredOK'
    BY <2>1, UnrecordedMeasured
  <2>3. Real'
    BY <2>1 DEF Real, LossIsReal, TimesAreReal
  <2> QED BY <2>2, <2>3
<1> QED BY <1>1, <1>2, <1>3, <1>4, <1>5, <1>6, <1>7, <1>8, <1>9 DEF LinkNext

\* No end takes for lost what the link did not lose, and no report tells of more or longer
\* bursts than there were frames skipped: GapTracker, update_reverse_delivery and
\* process_receiver_report over the change of session.
THEOREM LossesAreReal == Overtaking = FALSE => (LinkSpec => []LossIsReal)
<1> SUFFICES ASSUME Overtaking = FALSE PROVE LinkSpec => []LossIsReal
  OBVIOUS
<1> LinkAssumption
  BY TimeAssumption DEF LinkAssumption
<1>1. LinkInit => MeasuredOK /\ Real
  BY InitReal
<1>2. MeasuredOK /\ Real /\ [LinkNext]_linkVars => MeasuredOK' /\ Real'
  BY StepReal
<1>3. Real => LossIsReal
  BY DEF Real
<1> QED BY <1>1, <1>2, <1>3, PTL DEF LinkSpec

\* Round-trip samples are exact and the jitter estimator is fed what the link can cause, though
\* timestamps begin again with the new session: reset_for_rekey, the grace period and the guard
\* in process_receiver_report.
THEOREM TimesMeasuredAreReal == Overtaking = FALSE => (LinkSpec => []TimesAreReal)
<1> SUFFICES ASSUME Overtaking = FALSE PROVE LinkSpec => []TimesAreReal
  OBVIOUS
<1> LinkAssumption
  BY TimeAssumption DEF LinkAssumption
<1>1. LinkInit => MeasuredOK /\ Real
  BY InitReal
<1>2. MeasuredOK /\ Real /\ [LinkNext]_linkVars => MeasuredOK' /\ Real'
  BY StepReal
<1>3. Real => TimesAreReal
  BY DEF Real
<1> QED BY <1>1, <1>2, <1>3, PTL DEF LinkSpec

==============================================================================
