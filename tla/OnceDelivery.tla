----------------------------- MODULE OnceDelivery -----------------------------
(***************************************************************************)
(* What a Noise transport session promises, without a window or a bitmap:  *)
(* a sender never uses a counter twice, and the receiver hands a frame up  *)
(* exactly when it is genuine, was not handed up before, and is less than  *)
(* Window counters older than every frame handed up.                       *)
(***************************************************************************)
EXTENDS Naturals

CONSTANTS MaxCounter,  \* u64::MAX
          Window       \* REPLAY_WINDOW_SIZE

Counter == 0 .. MaxCounter
NoFrame == [counter |-> 0, genuine |-> FALSE, accepted |-> FALSE]

VARIABLES
  sent,     \* counters used by the sender
  times,    \* times[c]: how often the frame with counter c was handed up
  verdict   \* the last frame that came in and what became of it

vars == <<sent, times, verdict>>

Init == sent = {} /\ times = [c \in Counter |-> 0] /\ verdict = NoFrame

Send ==
  /\ \E c \in Counter \ sent : sent' = sent \cup {c}
  /\ UNCHANGED <<times, verdict>>

Acceptable(c) ==
  times[c] = 0 /\ \A d \in Counter : times[d] # 0 => d < c + Window

Deliver(c) ==
  /\ c \in sent
  /\ Acceptable(c)
  /\ times' = [times EXCEPT ![c] = 1]
  /\ verdict' = [counter |-> c, genuine |-> TRUE, accepted |-> TRUE]
  /\ UNCHANGED sent

Refuse(c, genuine) ==
  /\ ~(genuine /\ Acceptable(c))
  /\ verdict' = [counter |-> c, genuine |-> genuine, accepted |-> FALSE]
  /\ UNCHANGED <<sent, times>>

Next ==
  \/ Send
  \/ \E c \in Counter : Deliver(c) \/ \E genuine \in BOOLEAN : Refuse(c, genuine)

Spec == Init /\ [][Next]_vars

=============================================================================
