----------------------------- MODULE ReplayWindow -----------------------------
(***************************************************************************)
(* One direction of a Noise transport session: the sender's nonce and the  *)
(* receiver's sliding replay window.                                       *)
(*                                                                         *)
(* The window remembers the highest counter accepted and a bitmap of Words *)
(* words of Bits bits; bit b of word w stands for the counter              *)
(* highest - (w * Bits + b).  Frames arrive in any order, any number of    *)
(* times, corrupted or not at all.                                         *)
(*                                                                         *)
(* A difference of two u64 counters is cast to usize before it is compared *)
(* with the window, which keeps it only where usize has 64 bits: UsizeMod  *)
(* is 2^64 there, 2^32 in the armv7 and i686 builds.                       *)
(***************************************************************************)
EXTENDS Naturals

CONSTANTS
  Words, Bits,  \* shape of the bitmap: REPLAY_WINDOW_SIZE / 64 words of 64 bits
  MaxCounter,   \* u64::MAX
  UsizeMod      \* 2^(bits of usize)

ASSUME ShapeAssumption == Words \in Nat \ {0} /\ Bits \in Nat \ {0}
ASSUME CounterAssumption == MaxCounter \in Nat
ASSUME UsizeAssumption == UsizeMod \in Nat /\ UsizeMod > Words * Bits

Counter == 0 .. MaxCounter
Word == 0 .. Words - 1
Bit == 0 .. Bits - 1
Bitmap == [Word -> SUBSET Bit]
Window == Words * Bits
AsUsize(d) == d % UsizeMod

VARIABLES
  nonce,    \* the sender's next counter
  highest,  \* highest counter accepted
  bitmap,   \* bitmap[w]: the set bits of word w
  times,    \* history: how often the frame with counter c was handed up
  verdict   \* history: the last frame that came in and what became of it

vars == <<nonce, highest, bitmap, times, verdict>>

-----------------------------------------------------------------------------
(* ReplayWindow.                                                           *)

Empty == [w \in Word |-> {}]

\* Wrong variant: only frames newer than all before.
InOrderOnly(c) == c > highest

Check(c) ==
  \/ c > highest
  \/ LET d == AsUsize(highest - c)
     IN  d < Window /\ (d % Bits) \notin bitmap[d \div Bits]

ShiftWords(bm, k) == [w \in Word |-> IF w >= k THEN bm[w - k] ELSE {}]

\* Wrong variants: the bits that leave a word are lost, or stay in it.
ShiftBitsNoCarry(bm, k) == [w \in Word |-> {b \in Bit : b >= k /\ b - k \in bm[w]}]

\* A bit moves up by k; what leaves a word enters the next.
ShiftBits(bm, k) ==
  [w \in Word |->
     {b \in Bit : \/ b >= k /\ b - k \in bm[w]
                  \/ b < k /\ w > 0 /\ b + Bits - k \in bm[w - 1]}]

ShiftBitmap(k) == ShiftBits(ShiftWords(bitmap, k \div Bits), k % Bits)

Mark(bm, d) == [bm EXCEPT ![d \div Bits] = @ \cup {d % Bits}]

Accept(c) ==
  IF c > highest
  THEN LET k == AsUsize(c - highest)
       IN  /\ bitmap' = Mark(IF k >= Window THEN Empty ELSE ShiftBitmap(k), 0)
           /\ highest' = c
  ELSE /\ bitmap' = Mark(bitmap, AsUsize(highest - c))
       /\ UNCHANGED highest

-----------------------------------------------------------------------------
(* The session.                                                            *)

Init ==
  /\ nonce = 0
  /\ highest = 0
  /\ bitmap = Empty
  /\ times = [c \in Counter |-> 0]
  /\ verdict = [counter |-> 0, genuine |-> FALSE, accepted |-> FALSE]

\* encrypt_with_aad: the last counter is never used (NonceOverflow).
Send ==
  /\ nonce < MaxCounter
  /\ nonce' = nonce + 1
  /\ UNCHANGED <<highest, bitmap, times, verdict>>

\* decrypt_with_replay_check_and_aad on a frame that says it has counter c:
\* first the window, then the cipher, and only then the window is moved.
Receive(c, genuine) ==
  /\ genuine => c < nonce
  /\ \/ /\ Check(c) /\ genuine
        /\ Accept(c)
        /\ times' = [times EXCEPT ![c] = @ + 1]
        /\ verdict' = [counter |-> c, genuine |-> genuine, accepted |-> TRUE]
     \/ /\ ~(Check(c) /\ genuine)
        /\ verdict' = [counter |-> c, genuine |-> genuine, accepted |-> FALSE]
        /\ UNCHANGED <<highest, bitmap, times>>
  /\ UNCHANGED nonce

Next == Send \/ \E c \in Counter, genuine \in BOOLEAN : Receive(c, genuine)

Spec == Init /\ [][Next]_vars

-----------------------------------------------------------------------------
(* Properties.                                                             *)

\* Every variable has its type; no bit ever lies outside its word.
TypeOK ==
  /\ nonce \in Counter
  /\ highest \in Counter
  /\ bitmap \in Bitmap
  /\ times \in [Counter -> Nat]
  /\ verdict \in [counter: Counter, genuine: BOOLEAN, accepted: BOOLEAN]

\* The bitmap is exact: a bit is set if and only if the counter it stands for was
\* accepted, however far and in however many steps the window was shifted, and
\* nothing newer than `highest` was.
WindowExact ==
  /\ \A c \in Counter : times[c] # 0 => c < nonce /\ c <= highest
  /\ highest # 0 => times[highest] # 0
  /\ \A w \in Word, b \in Bit :
       b \in bitmap[w] <=> /\ w * Bits + b <= highest
                           /\ times[highest - (w * Bits + b)] # 0

\* The session implements the promise: no counter is used twice, no frame is
\* handed up twice or when forged, none is refused that is inside the window.
Once == INSTANCE OnceDelivery WITH sent <- 0 .. nonce - 1
ImplementsOnceDelivery == Once!Spec

=============================================================================
