----------------------------- MODULE LinkMetrics -----------------------------
(***************************************************************************)
(* Measurement (MMP) of one direction of a link or of a session, before,   *)
(* during and after a rekey.  The sender's frames carry a counter and a    *)
(* timestamp relative to the start of their session; the receiver keeps    *)
(* cumulative counts, a gap tracker and a jitter estimator and sends       *)
(* reports, from which the sender derives round-trip time and loss.  The   *)
(* receiver derives the loss of this direction too, from its own state.    *)
(*                                                                         *)
(* Session 0 is replaced by session 1 once: one end cuts over first, the   *)
(* other when it sees a frame of the new session; old frames are accepted  *)
(* for Drain after that.  LinkRekey and EndToEndSession model how the      *)
(* sessions come about.                                                    *)
(***************************************************************************)
EXTENDS Integers, FiniteSets

CONSTANTS
  Delay,       \* longest time of a frame or report on the way
  RekeyAge,    \* age of session 0 at the start: its rekey is complete
  Drain,       \* DRAIN_WINDOW_SECS
  Grace,       \* REKEY_JITTER_GRACE_SECS
  Overtaking,  \* whether session 0's frames, and its reports by session 1's,
               \* may be overtaken; those of session 1 always may
  Used,        \* frames of session 0 received before the start
  MaxOld,      \* bound: frames sent in session 0
  MaxNew,      \* bound: frames sent in session 1
  MaxFrames,   \* bound: frames, and reports, on the way at once
  MaxLost,     \* bound: frames and reports lost
  MaxTime      \* bound: the clock

ASSUME TimeAssumption == /\ {Delay, RekeyAge, Drain, Grace, MaxTime} \subseteq Nat
                         /\ Used \in Nat \ {0}
                         /\ RekeyAge > 2 * Delay /\ Drain <= Grace

Null == -1  \* Option::None
Session == {0, 1}

VARIABLES
  now,       \* the clock of both ends
  sender,    \* the sending end: session, its start, next counter
  receiver,  \* ReceiverState of the receiving end, with its session
  reverse,   \* the receiving end's MmpMetrics: what it makes of its own counts
  metrics,   \* the sending end's MmpMetrics
  air,       \* frames on the way
  reports,   \* receiver reports on the way
  seen,      \* history: highest counter recorded by session, frames it skipped
  derived,   \* history: what the last step derived from its measurements
  lost       \* number of frames and reports lost

linkVars == <<now, sender, receiver, reverse, metrics, air, reports, seen, derived, lost>>

-----------------------------------------------------------------------------
(* What the receiver keeps.                                                *)

NewTracker == [expected |-> Null, current |-> 0, count |-> 0, longest |-> 0]
NewReceiver(session, packets, grace) ==
  [session |-> session, highest |-> 0, packets |-> packets, gaps |-> NewTracker,
   timestamp |-> 0, heard |-> Null, sentAt |-> Null, grace |-> grace, data |-> FALSE]

FinishBurst(g) ==
  [g EXCEPT !.current = 0,
            !.longest = IF g.current > @ THEN g.current ELSE @]

\* A late frame does not change what is expected next.
Expected(g, c) == IF c >= g.expected THEN c + 1 ELSE g.expected

\* GapTracker::observe.
Observe(g, c) ==
  IF g.expected # Null /\ c > g.expected
  THEN [g EXCEPT !.expected = Expected(g, c),
                 !.current = @ + c - g.expected,
                 !.count = IF g.current > 0 THEN @ ELSE @ + 1]
  ELSE [FinishBurst(g) EXCEPT !.expected = Expected(g, c)]

\* Wrong variant: the drained frames are taken for those of the new session.
NoGrace(r) == r.grace < 0

InGrace(r) == now < r.grace

\* What the jitter estimator is fed: the change of the transit time.
Jitter(r, f) ==
  IF InGrace(r) \/ r.heard = Null THEN 0
  ELSE (now - r.heard) - (f.timestamp - r.timestamp)

\* record_recv.
Record(r, f) ==
  [r EXCEPT !.grace = IF InGrace(r) THEN @ ELSE 0,
            !.highest = IF f.counter < @ THEN @ ELSE f.counter,
            !.packets = @ + 1,
            !.gaps = Observe(@, f.counter),
            !.timestamp = f.timestamp,
            !.heard = now,
            !.sentAt = f.at,
            !.data = TRUE]

\* ReceiverState::reset_for_rekey.
ResetReceiver(r) == NewReceiver(1, r.packets, now + Grace)

-----------------------------------------------------------------------------
(* What the ends derive.                                                   *)

NewMetrics == [known |-> FALSE, highest |-> 0, packets |-> 0]

Monus(a, b) == IF a > b THEN a - b ELSE 0

\* Wrong variant: counts never go back when reports come in the wrong order.
HighestCounts(m, highest, packets) ==
  [known |-> TRUE, highest |-> highest,
   packets |-> IF m.packets > packets THEN m.packets ELSE packets]

\* process_receiver_report, update_reverse_delivery: the counts of the next interval.
Counts(m, highest, packets) ==
  [known |-> TRUE, highest |-> highest, packets |-> packets]

\* The delivery ratio of an interval, as the number of frames it says were lost.
Loss(m, highest, packets) ==
  LET span == Monus(highest, m.highest)
  IN  [lost |-> IF m.known THEN Monus(span, Monus(packets, m.packets)) ELSE 0,
       from |-> m.highest, to |-> highest]

\* Guard against timestamps of another session.
IsSample(rr, elapsed) == rr.echo > 0 /\ elapsed > rr.echo + rr.dwell

\* The round-trip sample in a report, and the real time.
Rtt(rr, elapsed) ==
  IF IsSample(rr, elapsed)
  THEN [sample |-> elapsed - rr.echo - rr.dwell, real |-> now - rr.sentAt - rr.dwell]
  ELSE [sample |-> 0, real |-> 0]

Nothing == [loss |-> [lost |-> 0, from |-> 0, to |-> 0],
            rtt |-> [sample |-> 0, real |-> 0],
            jitter |-> 0,
            bursts |-> [count |-> 0, longest |-> 0]]

-----------------------------------------------------------------------------
(* Frames.                                                                 *)

LinkInit ==
  /\ now = 0
  /\ sender = [session |-> 0, start |-> -RekeyAge, counter |-> Used]
  /\ receiver = [NewReceiver(0, Used, 0) EXCEPT
                  !.highest = Used - 1, !.gaps.expected = Used,
                  !.timestamp = RekeyAge, !.heard = 0, !.sentAt = 0]
  /\ reverse = NewMetrics
  /\ metrics = NewMetrics
  /\ air = {} /\ reports = {}
  /\ seen = [top |-> [s \in Session |-> IF s = 0 THEN Used - 1 ELSE Null], skipped |-> {}]
  /\ derived = Nothing
  /\ lost = 0

\* Any frame: data, a report or a heartbeat.
SendFrame ==
  /\ sender.counter < IF sender.session = 0 THEN MaxOld ELSE MaxNew
  /\ Cardinality(air) < MaxFrames
  /\ air' = air \cup {[session |-> sender.session, counter |-> sender.counter,
                       timestamp |-> now - sender.start, at |-> now]}
  /\ sender' = [sender EXCEPT !.counter = @ + 1]
  /\ derived' = Nothing
  /\ UNCHANGED <<now, receiver, reverse, metrics, reports, seen, lost>>

\* A frame of session 1 makes an end cut over that has not; one of session 0 can
\* be read until the drain of the end that cut over at `since` is over.  (At the
\* receiving end `grace` tells when that was; once it is 0, the drain is over too.)
Readable(session, mine, since) == session = 1 \/ mine = 0 \/ now < since + Drain

Skipped(f) == {[session |-> f.session, counter |-> c] :
                 c \in seen.top[f.session] + 1 .. f.counter - 1}

\* The receiving end: handle_encrypted_frame, and for a report of the sender the
\* call of update_reverse_delivery in handle_receiver_report.
ReceiveFrame(f, isReport) ==
  LET flips == f.session = 1 /\ receiver.session = 0
      before == IF flips THEN ResetReceiver(receiver) ELSE receiver
      r == Record(before, f)
      m == IF flips THEN NewMetrics ELSE reverse
  IN  /\ f \in air
      /\ \/ Overtaking
         \/ \A o \in air : o.session = 0 => f.session = 0 /\ f.counter <= o.counter
      /\ air' = air \ {f}
      /\ IF Readable(f.session, receiver.session, receiver.grace - Grace)
         THEN /\ receiver' = r
              /\ reverse' = IF isReport THEN Counts(m, r.highest, r.packets) ELSE m
              /\ derived' = [Nothing EXCEPT
                               !.jitter = Jitter(before, f),
                               !.loss = IF isReport THEN Loss(m, r.highest, r.packets)
                                        ELSE @]
              /\ seen' = [top |-> [seen.top EXCEPT ![f.session] =
                                     IF f.counter > @ THEN f.counter ELSE @],
                          skipped |-> seen.skipped \cup Skipped(f)]
         ELSE derived' = Nothing /\ UNCHANGED <<receiver, reverse, seen>>
      /\ UNCHANGED <<now, sender, metrics, reports, lost>>

-----------------------------------------------------------------------------
(* Reports.                                                                *)

\* build_report.
Report ==
  [session |-> receiver.session, highest |-> receiver.highest,
   packets |-> receiver.packets, echo |-> receiver.timestamp,
   dwell |-> now - receiver.heard, sentAt |-> receiver.sentAt, at |-> now]

\* take_interval_stats.
IntervalEnds(g) == [FinishBurst(g) EXCEPT !.count = 0, !.longest = 0]
Bursts(g) == [count |-> g.count, longest |-> FinishBurst(g).longest]

\* check_mmp_reports: nothing is sent unless a frame was recorded.
SendReport ==
  /\ receiver.data
  /\ Cardinality(reports) < MaxFrames
  /\ reports' = reports \cup {Report}
  /\ receiver' = [receiver EXCEPT !.gaps = IntervalEnds(@), !.data = FALSE]
  /\ derived' = [Nothing EXCEPT !.bursts = Bursts(receiver.gaps)]
  /\ UNCHANGED <<now, sender, reverse, metrics, air, seen, lost>>

SenderCutsOver == [session |-> 1, start |-> now, counter |-> 0]

\* The sending end: handle_receiver_report.
ReceiveReport(rr) ==
  LET flips == rr.session = 1 /\ sender.session = 0
      s == IF flips THEN SenderCutsOver ELSE sender
      m == IF flips THEN NewMetrics ELSE metrics
  IN  /\ rr \in reports
      /\ Overtaking \/ \A o \in reports : o.session = 0 => rr.session = 0
      /\ reports' = reports \ {rr}
      /\ IF Readable(rr.session, sender.session, sender.start)
         THEN /\ sender' = s
              /\ metrics' = Counts(m, rr.highest, rr.packets)
              /\ derived' = [Nothing EXCEPT !.loss = Loss(m, rr.highest, rr.packets),
                                            !.rtt = Rtt(rr, now - s.start)]
         ELSE derived' = Nothing /\ UNCHANGED <<sender, metrics>>
      /\ UNCHANGED <<now, receiver, reverse, air, seen, lost>>

-----------------------------------------------------------------------------
(* The rekey.                                                              *)

\* cutover_to_new_session at the sending end, the rekey's initiator, ...
CutoverSender ==
  /\ sender.session = 0 /\ receiver.session = 0
  /\ sender' = SenderCutsOver
  /\ metrics' = NewMetrics
  /\ derived' = Nothing
  /\ UNCHANGED <<now, receiver, reverse, air, reports, seen, lost>>

\* ... or at the receiving end, ...
CutoverReceiver ==
  /\ sender.session = 0 /\ receiver.session = 0
  /\ receiver' = ResetReceiver(receiver)
  /\ reverse' = NewMetrics
  /\ derived' = Nothing
  /\ UNCHANGED <<now, sender, metrics, air, reports, seen, lost>>

\* ... whose first frame, a heartbeat or data, makes the sending end follow.
BeatArrives ==
  /\ receiver.session = 1 /\ sender.session = 0
  /\ sender' = SenderCutsOver
  /\ metrics' = NewMetrics
  /\ derived' = Nothing
  /\ UNCHANGED <<now, receiver, reverse, air, reports, seen, lost>>

-----------------------------------------------------------------------------
(* The environment.                                                        *)

LinkLoses ==
  /\ lost < MaxLost
  /\ lost' = lost + 1
  /\ \/ /\ \E f \in air : air' = air \ {f}
        /\ UNCHANGED reports
     \/ /\ \E rr \in reports : reports' = reports \ {rr}
        /\ UNCHANGED air
  /\ derived' = Nothing
  /\ UNCHANGED <<now, sender, receiver, reverse, metrics, seen>>

\* Nothing stays longer on the way than Delay, and the first frame of session 1
\* comes before the grace period is over.
LinkTick ==
  /\ now < MaxTime
  /\ \A x \in air \cup reports : now < x.at + Delay
  /\ receiver.session = 1 /\ seen.top[1] = Null => now + 1 < receiver.grace
  /\ now' = now + 1
  /\ derived' = Nothing
  /\ UNCHANGED <<sender, receiver, reverse, metrics, air, reports, seen, lost>>

LinkNext ==
  \/ SendFrame
  \/ \E f \in air, isReport \in BOOLEAN : ReceiveFrame(f, isReport)
  \/ SendReport
  \/ \E rr \in reports : ReceiveReport(rr)
  \/ CutoverSender
  \/ CutoverReceiver
  \/ BeatArrives
  \/ LinkLoses
  \/ LinkTick

LinkSpec == LinkInit /\ [][LinkNext]_linkVars

-----------------------------------------------------------------------------
(* Properties.                                                             *)

\* What either end takes for loss was lost or overtaken: no reset, no report out of
\* order and no change of session (metrics.rs 119, 193; receiver.rs 218) makes a
\* delivery ratio worse than the link; so are the bursts in a report (GapTracker,
\* receiver.rs 27).
LossIsReal ==
  LET loss == derived.loss
  IN  /\ loss.lost <= Cardinality({f \in seen.skipped : /\ f.counter > loss.from
                                                        /\ f.counter <= loss.to})
      /\ derived.bursts.count <= Cardinality(seen.skipped)
      /\ derived.bursts.longest <= Cardinality(seen.skipped)

\* Every round-trip sample is the time from the frame echoed to now without the
\* dwell, though timestamps start again with each session (metrics.rs 129); and the
\* jitter estimator is fed differences that the link can cause, never the jump from
\* one session's timestamps to the other's (receiver.rs 15).
TimesAreReal ==
  /\ derived.rtt.sample = derived.rtt.real
  /\ derived.jitter \in -Delay .. Delay

=============================================================================
