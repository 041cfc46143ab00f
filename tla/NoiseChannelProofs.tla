-------------------------- MODULE NoiseChannelProofs --------------------------
(***************************************************************************)
(* First the replay window: for a window of any shape and counters of any  *)
(* width, provided a counter difference fits in a usize (Wide), the bitmap *)
(* is exact and the session implements OnceDelivery.  The bitmap is read   *)
(* as one sequence of Window bits: Has(bm, d) says that bit d is set.      *)
(* Everything rests on ShiftedBit: shifting whole words and then bits with *)
(* a carry moves bit d - k to bit d.                                       *)
(*                                                                         *)
(* Then a Noise session for any number of attempts, with any loss and      *)
(* delivery of messages between them: what completes is one handshake of   *)
(* two attempts, and the transport between them is the promise of          *)
(* OnceDelivery.  HandshakeInv lists the states a HandshakeState can be    *)
(* in, each with its chaining key and transcript spelt out as a function   *)
(* of the two ephemeral keys.  A read that fails leaves a spoiled state:   *)
(* its chaining key is too long, or its nonce too high, for anything ever  *)
(* sealed.                                                                 *)
(***************************************************************************)
EXTENDS NoiseChannel, SequenceTheorems, TLAPS


Wide == MaxCounter < UsizeMod

Has(bm, d) == (d % Bits) \in bm[d \div Bits]

Exact ==
  /\ \A c \in Counter : times[c] # 0 => c < nonce /\ c <= highest
  /\ highest # 0 => times[highest] # 0
  /\ \A d \in 0 .. Window - 1 :
       Has(bitmap, d) <=> d <= highest /\ times[highest - d] # 0

IndInv == TypeOK /\ Exact

-----------------------------------------------------------------------------
(* Positions in the bitmap.                                                *)

LEMMA DivMod ==
  ASSUME NEW d \in Nat
  PROVE  /\ d \div Bits \in Nat /\ d % Bits \in Bit
         /\ (d \div Bits) * Bits + (d % Bits) = d
BY ShapeAssumption DEF Bit

LEMMA UniquePosition ==
  ASSUME NEW v \in Nat, NEW w \in Nat, NEW a \in Bit, NEW b \in Bit,
         v * Bits + a = w * Bits + b
  PROVE  v = w /\ a = b
<1> USE ShapeAssumption DEF Bit
<1>1. ASSUME NEW x \in Nat, NEW y \in Nat, x < y PROVE x * Bits + Bits <= y * Bits
  <2>1. (x + 1) * Bits <= y * Bits
    BY <1>1
  <2>2. (x + 1) * Bits = x * Bits + Bits
    OBVIOUS
  <2> QED BY <2>1, <2>2
<1>2. ~(v < w)
  BY <1>1
<1>3. ~(w < v)
  BY <1>1
<1>4. v = w
  BY <1>2, <1>3
<1> QED BY <1>4

LEMMA WindowNat == Window \in Nat \ {0}
BY ShapeAssumption DEF Window

LEMMA PositionInWindow ==
  ASSUME NEW d \in 0 .. Window - 1
  PROVE  d \div Bits \in Word
<1> USE ShapeAssumption
<1>1. /\ d \in Nat /\ d < Words * Bits
  BY WindowNat DEF Window
<1>2. /\ d \div Bits \in Nat /\ d % Bits \in Bit
      /\ (d \div Bits) * Bits + (d % Bits) = d
  BY <1>1, DivMod
<1>3. SUFFICES ASSUME d \div Bits >= Words PROVE FALSE
  BY <1>2 DEF Word
<1>4. (d \div Bits) * Bits >= Words * Bits
  BY <1>2, <1>3
<1> QED BY <1>1, <1>2, <1>4 DEF Bit

LEMMA PositionOf ==
  ASSUME NEW w \in Word, NEW b \in Bit
  PROVE  /\ w * Bits + b \in 0 .. Window - 1
         /\ (w * Bits + b) \div Bits = w /\ (w * Bits + b) % Bits = b
<1> USE ShapeAssumption
<1>1. w \in Nat /\ w + 1 <= Words /\ b \in Nat /\ b + 1 <= Bits
  BY DEF Word, Bit
<1>2. (w + 1) * Bits <= Words * Bits /\ (w + 1) * Bits = w * Bits + Bits
  BY <1>1
<1>3. w * Bits \in Nat
  BY <1>1
<1>4. w * Bits + b \in 0 .. Window - 1
  BY <1>1, <1>2, <1>3 DEF Window
<1>5. w * Bits + b \in Nat
  BY <1>1, <1>3
<1> HIDE DEF Bit
<1> QED BY <1>1, <1>4, <1>5, DivMod, UniquePosition

-----------------------------------------------------------------------------
(* Shifting and marking.                                                   *)

LEMMA ShiftTyped ==
  ASSUME NEW bm \in Bitmap, NEW k \in Nat, NEW j \in Nat
  PROVE  ShiftBits(ShiftWords(bm, j), k) \in Bitmap
BY DEF ShiftBits, Bitmap

\* Bit d of the shifted bitmap is bit d - k of the old one.
LEMMA ShiftedBit ==
  ASSUME NEW bm \in Bitmap, NEW k \in 0 .. Window - 1, NEW d \in 0 .. Window - 1
  PROVE  LET new == ShiftBits(ShiftWords(bm, k \div Bits), k % Bits)
         IN  Has(new, d) <=> d >= k /\ Has(bm, d - k)
<1> USE ShapeAssumption
<1>1. k \in Nat /\ d \in Nat
  BY WindowNat
<1>2. PICK w \in Word, b \in Bit :
        w = d \div Bits /\ b = d % Bits /\ d = w * Bits + b
  BY <1>1, DivMod, PositionInWindow
<1>3. PICK j \in Word, r \in Bit :
        j = k \div Bits /\ r = k % Bits /\ k = j * Bits + r
  BY <1>1, DivMod, PositionInWindow
<1>4. /\ w \in Nat /\ b \in Nat /\ j \in Nat /\ r \in Nat /\ b < Bits /\ r < Bits
      /\ w < Words
  BY DEF Word, Bit
<1> DEFINE x == w * Bits
           y == j * Bits
<1>5. /\ x \in Nat /\ y \in Nat /\ d = x + b /\ k = y + r
      /\ (w - j) * Bits = x - y /\ (w - 1 - j) * Bits = x - Bits - y
  BY <1>2, <1>3, <1>4
<1> HIDE DEF x, y
<1> DEFINE moved == ShiftWords(bm, j)
           new == ShiftBits(moved, r)
<1> SUFFICES Has(new, d) <=> d >= k /\ Has(bm, d - k)
  BY <1>3
<1>6. Has(new, d) <=> \/ b >= r /\ b - r \in moved[w]
                      \/ b < r /\ w > 0 /\ b + Bits - r \in moved[w - 1]
  BY <1>2 DEF Has, ShiftBits
<1>7. CASE b >= r
  <2>1. Has(new, d) <=> w >= j /\ b - r \in bm[w - j]
    BY <1>4, <1>6, <1>7 DEF ShiftWords
  <2>2. ASSUME w >= j PROVE d >= k /\ (b - r \in bm[w - j] <=> Has(bm, d - k))
    <3>1. (w - j) * Bits \in Nat
      BY <1>4, <2>2
    <3>2. d - k = (w - j) * Bits + (b - r)
      BY <1>4, <1>5
    <3>3. w - j \in Word /\ b - r \in Bit
      BY <1>4, <1>7, <2>2 DEF Word, Bit
    <3>4. d >= k
      BY <1>1, <1>4, <1>7, <1>5, <3>1
    <3> QED BY ZenonT(60), <3>2, <3>3, <3>4, PositionOf DEF Has
  <2>3. ASSUME w < j PROVE ~(d >= k)
    <3>1. x + Bits <= y
      <4>1. (w + 1) * Bits <= j * Bits /\ (w + 1) * Bits = w * Bits + Bits
        BY <1>4, <2>3
      <4> QED BY <4>1 DEF x, y
    <3> QED BY <1>4, <1>5, <3>1
  <2> QED BY <1>4, <2>1, <2>2, <2>3
<1>8. CASE b < r
  <2>1. Has(new, d) <=> w >= j + 1 /\ b + Bits - r \in bm[w - 1 - j]
    <3>1. CASE w = 0
      BY <1>4, <1>6, <1>8, <3>1
    <3>2. CASE w > 0
      <4>1. w - 1 \in Word
        BY <1>4, <3>2 DEF Word
      <4> QED BY <1>4, <1>6, <1>8, <3>2, <4>1 DEF ShiftWords
    <3> QED BY <1>4, <3>1, <3>2
  <2>2. ASSUME w >= j + 1
        PROVE  d >= k /\ (b + Bits - r \in bm[w - 1 - j] <=> Has(bm, d - k))
    <3>1. (w - 1 - j) * Bits \in Nat
      BY <1>4, <2>2
    <3>2. d - k = (w - 1 - j) * Bits + (b + Bits - r)
      BY <1>4, <1>5
    <3>3. w - 1 - j \in Word /\ b + Bits - r \in Bit
      BY <1>4, <1>8, <2>2 DEF Word, Bit
    <3>4. d >= k
      BY <1>1, <1>4, <1>8, <1>5, <3>1
    <3> QED BY <3>2, <3>3, <3>4, PositionOf DEF Has
  <2>3. ASSUME w < j + 1 PROVE ~(d >= k)
    <3>1. x <= y
      <4>1. w * Bits <= j * Bits
        BY <1>4, <2>3
      <4> QED BY <4>1 DEF x, y
    <3> QED BY <1>4, <1>8, <1>5, <3>1
  <2> QED BY <1>4, <2>1, <2>2, <2>3
<1> QED BY <1>4, <1>7, <1>8

LEMMA MarkedBit ==
  ASSUME NEW bm \in Bitmap, NEW m \in 0 .. Window - 1
  PROVE  /\ Mark(bm, m) \in Bitmap
         /\ \A d \in 0 .. Window - 1 : Has(Mark(bm, m), d) <=> d = m \/ Has(bm, d)
<1>1. m \in Nat /\ m \div Bits \in Word /\ m % Bits \in Bit
  BY WindowNat, DivMod, PositionInWindow
<1>2. Mark(bm, m) \in Bitmap
  BY <1>1 DEF Mark, Bitmap
<1>3. ASSUME NEW d \in 0 .. Window - 1
      PROVE  Has(Mark(bm, m), d) <=> d = m \/ Has(bm, d)
  <2>1. d \in Nat /\ d \div Bits \in Word /\ d % Bits \in Bit
    BY WindowNat, DivMod, PositionInWindow
  <2>2. d \div Bits = m \div Bits /\ d % Bits = m % Bits => d = m
    BY <1>1, <2>1, DivMod
  <2> QED BY <1>1, <2>1, <2>2 DEF Mark, Bitmap, Has
<1> QED BY <1>2, <1>3

-----------------------------------------------------------------------------
(* The invariant.                                                          *)

LEMMA ExactIsWindowExact ==
  ASSUME TypeOK
  PROVE  Exact <=> WindowExact
<1>1. ASSUME NEW d \in 0 .. Window - 1
      PROVE  \E w \in Word, b \in Bit :
               d = w * Bits + b /\ w = d \div Bits /\ b = d % Bits
  BY <1>1, WindowNat, DivMod, PositionInWindow
<1>2. ASSUME Exact, NEW w \in Word, NEW b \in Bit
      PROVE  b \in bitmap[w] <=> /\ w * Bits + b <= highest
                                 /\ times[highest - (w * Bits + b)] # 0
  BY <1>2, PositionOf DEF Exact, Has
<1>3. ASSUME WindowExact, NEW d \in 0 .. Window - 1
      PROVE  Has(bitmap, d) <=> d <= highest /\ times[highest - d] # 0
  BY <1>1, <1>3 DEF WindowExact, Has
<1> QED BY <1>2, <1>3 DEF Exact, WindowExact

\* The window accepts a counter exactly when the promise does.
LEMMA CheckExact ==
  ASSUME Wide, IndInv, NEW c \in Counter
  PROVE  Check(c) <=> Once!Acceptable(c)
<1> USE DEF IndInv, TypeOK, Exact
<1>1. /\ c \in Nat /\ highest \in Nat /\ MaxCounter \in Nat /\ UsizeMod \in Nat
      /\ c <= MaxCounter /\ highest <= MaxCounter /\ Window \in Nat \ {0}
      /\ highest \in Counter
  BY CounterAssumption, UsizeAssumption, WindowNat DEF Counter
<1>2. Once!Acceptable(c) <=>
        times[c] = 0 /\ \A d \in Counter : times[d] # 0 => d < c + Window
  BY DEF Once!Acceptable, Once!Counter, Counter
<1>3. CASE c > highest
  <2>1. times[c] = 0
    BY <1>1, <1>3
  <2>2. \A d \in Counter : times[d] # 0 => d < c + Window
    BY <1>1, <1>3 DEF Counter
  <2> QED BY <1>2, <1>3, <2>1, <2>2 DEF Check
<1>4. CASE c <= highest
  <2> DEFINE d == highest - c
  <2>1. d \in Nat /\ AsUsize(d) = d /\ highest - d = c /\ d <= highest
    BY <1>1, <1>4 DEF AsUsize, Wide
  <2>2. Check(c) <=> d < Window /\ ~Has(bitmap, d)
    BY <1>1, <1>4, <2>1 DEF Check, Has
  <2>3. ASSUME d < Window PROVE Check(c) <=> times[c] = 0
    <3>1. d \in 0 .. Window - 1
      BY <1>1, <2>1, <2>3
    <3> HIDE DEF d
    <3> QED BY <2>1, <2>2, <2>3, <3>1
  <2>4. ASSUME d < Window, NEW e \in Counter, times[e] # 0 PROVE e < c + Window
    BY <1>1, <2>4 DEF Counter
  <2>5. ASSUME d >= Window PROVE ~Check(c) /\ ~Once!Acceptable(c)
    <3>1. times[highest] # 0 /\ ~(highest < c + Window)
      BY <1>1, <1>4, <2>5
    <3> QED BY <1>1, <1>2, <2>1, <2>2, <2>5, <3>1
  <2> QED BY <1>1, <1>2, <2>1, <2>3, <2>4, <2>5
<1> QED BY <1>1, <1>3, <1>4

LEMMA InitIndInv == Init => IndInv
<1> SUFFICES ASSUME Init PROVE IndInv
  OBVIOUS
<1>1. TypeOK
  BY CounterAssumption, ShapeAssumption
     DEF Init, TypeOK, Counter, Empty, Bitmap
<1>2. \A d \in 0 .. Window - 1 : ~Has(bitmap, d)
  BY PositionInWindow DEF Init, Empty, Has
<1>3. \A c \in Counter : times[c] = 0
  BY DEF Init
<1>4. ASSUME NEW d \in 0 .. Window - 1
      PROVE  Has(bitmap, d) <=> d <= highest /\ times[highest - d] # 0
  <2>1. d <= highest => highest - d = 0 /\ 0 \in Counter
    BY WindowNat, CounterAssumption DEF Init, Counter
  <2> QED BY <1>2, <1>3, <2>1
<1> QED BY <1>1, <1>3, <1>4 DEF IndInv, Exact, Init

\* A frame that is accepted: the window moves to a newer counter, or an older one
\* inside the window is marked.
LEMMA AcceptExact ==
  ASSUME Wide, IndInv, NEW c \in Counter, Check(c), c < nonce, Accept(c),
         times' = [times EXCEPT ![c] = @ + 1], nonce' = nonce
  PROVE  Exact' /\ highest' \in Counter /\ bitmap' \in Bitmap
<1>1. /\ c \in Nat /\ highest \in Nat /\ highest \in Counter
      /\ MaxCounter \in Nat /\ UsizeMod \in Nat
      /\ c <= MaxCounter /\ highest <= MaxCounter /\ Window \in Nat \ {0}
      /\ bitmap \in Bitmap /\ times \in [Counter -> Nat] /\ nonce \in Nat
      /\ \A e \in Counter : times[e] # 0 => e < nonce /\ e <= highest
      /\ highest # 0 => times[highest] # 0
      /\ \A d \in 0 .. Window - 1 :
           Has(bitmap, d) <=> d <= highest /\ times[highest - d] # 0
  BY CounterAssumption, UsizeAssumption, WindowNat
     DEF IndInv, TypeOK, Exact, Counter
<1>2. /\ times'[c] # 0
      /\ \A e \in Counter : e # c => times'[e] = times[e]
  BY <1>1
<1>3. CASE c > highest
  <2> DEFINE k == c - highest
             base == IF k >= Window THEN Empty ELSE ShiftBitmap(k)
  <2>1. k \in Nat \ {0} /\ AsUsize(k) = k /\ c = highest + k
    BY <1>1, <1>3 DEF AsUsize, Wide
  <2>2. highest' = c /\ bitmap' = Mark(base, 0)
    BY <1>3, <2>1 DEF Accept
  <2>3. /\ base \in Bitmap
        /\ \A d \in 0 .. Window - 1 :
             Has(base, d) <=> k < Window /\ d >= k /\ Has(bitmap, d - k)
    <3>1. CASE k >= Window
      <4>1. \A d \in 0 .. Window - 1 : ~Has(Empty, d)
        BY PositionInWindow DEF Empty, Has
      <4>2. Empty \in Bitmap
        BY DEF Empty, Bitmap
      <4> QED BY <1>1, <2>1, <3>1, <4>1, <4>2
    <3>2. CASE k < Window
      <4>1. k \in 0 .. Window - 1 /\ k \div Bits \in Nat /\ k % Bits \in Nat
        BY <1>1, <2>1, <3>2, DivMod DEF Bit
      <4>2. base = ShiftBits(ShiftWords(bitmap, k \div Bits), k % Bits)
        BY <1>1, <2>1, <3>2 DEF ShiftBitmap
      <4> HIDE DEF k, base
      <4> QED BY <1>1, <3>2, <4>1, <4>2, ShiftTyped, ShiftedBit
    <3> QED BY <1>1, <2>1, <3>1, <3>2
  <2>4. 0 \in 0 .. Window - 1
    BY <1>1
  <2>5. /\ bitmap' \in Bitmap
        /\ \A d \in 0 .. Window - 1 : Has(bitmap', d) <=> d = 0 \/ Has(base, d)
    <3> HIDE DEF base
    <3> QED BY <2>2, <2>3, <2>4, MarkedBit
  <2>6. ASSUME NEW d \in 0 .. Window - 1
        PROVE  Has(bitmap', d) <=> d <= highest' /\ times'[highest' - d] # 0
    <3>1. d \in Nat /\ d < Window
      BY <1>1
    <3>2. CASE d = 0
      BY <1>1, <1>2, <2>2, <2>5, <3>2
    <3>3. CASE d # 0 /\ d < k
      <4>1. ~Has(bitmap', d)
        BY <2>1, <2>3, <2>5, <3>1, <3>3
      <4>2. d <= c => /\ c - d \in Counter /\ c - d # c /\ c - d > highest
        BY <1>1, <2>1, <3>1, <3>3 DEF Counter
      <4> QED BY <1>1, <1>2, <2>2, <4>1, <4>2
    <3>4. CASE d # 0 /\ d >= k
      <4>1. d - k \in 0 .. Window - 1 /\ k < Window
        BY <1>1, <2>1, <3>1, <3>4
      <4>2. Has(bitmap', d) <=> Has(bitmap, d - k)
        BY <2>3, <2>5, <3>4, <4>1
      <4>3. Has(bitmap, d - k) <=> d - k <= highest /\ times[highest - (d - k)] # 0
        BY <1>1, <4>1
      <4>4. /\ d - k <= highest <=> d <= c
            /\ highest - (d - k) = c - d
            /\ d <= c => c - d \in Counter /\ c - d # c
        BY <1>1, <2>1, <3>1, <3>4 DEF Counter
      <4> HIDE DEF k
      <4> QED BY <1>2, <2>2, <4>2, <4>3, <4>4
    <3> QED BY <2>1, <3>1, <3>2, <3>3, <3>4
  <2>7. \A e \in Counter : times'[e] # 0 => e < nonce' /\ e <= highest'
    BY <1>1, <1>2, <1>3, <2>2 DEF Counter
  <2>8. highest' # 0 => times'[highest'] # 0
    BY <1>2, <2>2
  <2> QED BY <2>2, <2>5, <2>6, <2>7, <2>8 DEF Exact
<1>4. CASE c <= highest
  <2> DEFINE m == highest - c
  <2>1. m \in Nat /\ AsUsize(m) = m /\ c = highest - m /\ m <= highest
    BY <1>1, <1>4 DEF AsUsize, Wide
  <2>2. m \in 0 .. Window - 1
    BY <1>1, <1>4, <2>1 DEF Check
  <2>3. highest' = highest /\ bitmap' = Mark(bitmap, m)
    BY <1>1, <1>4, <2>1 DEF Accept
  <2>4. /\ bitmap' \in Bitmap
        /\ \A d \in 0 .. Window - 1 : Has(bitmap', d) <=> d = m \/ Has(bitmap, d)
    <3> HIDE DEF m
    <3> QED BY <1>1, <2>2, <2>3, MarkedBit
  <2>5. ASSUME NEW d \in 0 .. Window - 1
        PROVE  Has(bitmap', d) <=> d <= highest' /\ times'[highest' - d] # 0
    <3>1. d \in Nat
      BY <1>1
    <3>2. CASE d = m
      <4> HIDE DEF m
      <4> QED BY <1>2, <2>1, <2>3, <2>4, <3>2
    <3>3. CASE d # m
      <4>1. d <= highest => highest - d \in Counter /\ highest - d # c
        BY <1>1, <2>1, <3>1, <3>3 DEF Counter
      <4> HIDE DEF m
      <4> QED BY <1>1, <1>2, <2>3, <2>4, <3>3, <4>1
    <3> QED BY <3>2, <3>3
  <2>6. \A e \in Counter : times'[e] # 0 => e < nonce' /\ e <= highest'
    BY <1>1, <1>2, <1>4, <2>3
  <2>7. highest' # 0 => times'[highest'] # 0
    BY <1>1, <1>2, <2>3
  <2> QED BY <1>1, <2>3, <2>4, <2>5, <2>6, <2>7 DEF Exact
<1> QED BY <1>1, <1>3, <1>4

LEMMA NextIndInv ==
  ASSUME Wide, IndInv, [Next]_vars
  PROVE  IndInv'
<1> USE DEF IndInv
<1>1. CASE UNCHANGED vars
  BY <1>1 DEF vars, TypeOK, Exact
<1>2. CASE Send
  <2>1. TypeOK'
    BY <1>2, CounterAssumption DEF Send, TypeOK, Counter
  <2>2. Exact'
    BY <1>2, CounterAssumption DEF Send, TypeOK, Exact, Counter
  <2> QED BY <2>1, <2>2
<1>3. ASSUME NEW c \in Counter, NEW genuine \in BOOLEAN, Receive(c, genuine)
      PROVE  IndInv'
  <2>1. CASE Check(c) /\ genuine /\ Accept(c)
             /\ times' = [times EXCEPT ![c] = @ + 1]
             /\ verdict' = [counter |-> c, genuine |-> genuine, accepted |-> TRUE]
    <3>1. nonce' = nonce /\ c < nonce
      BY <1>3, <2>1 DEF Receive
    <3>2. Exact' /\ highest' \in Counter /\ bitmap' \in Bitmap
      BY <2>1, <3>1, AcceptExact
    <3>3. TypeOK'
      BY <2>1, <3>1, <3>2 DEF TypeOK
    <3> QED BY <3>2, <3>3
  <2>2. CASE UNCHANGED <<highest, bitmap, times>>
             /\ verdict' = [counter |-> c, genuine |-> genuine, accepted |-> FALSE]
    <3>1. nonce' = nonce
      BY <1>3 DEF Receive
    <3> QED BY <2>2, <3>1 DEF TypeOK, Exact
  <2> QED BY <1>3, <2>1, <2>2 DEF Receive
<1> QED BY <1>1, <1>2, <1>3 DEF Next

-----------------------------------------------------------------------------
(* The theorems.                                                           *)

\* Every variable keeps its type where a counter fits in a usize.
THEOREM TypeCorrect ==
  ASSUME Wide
  PROVE  Spec => []TypeOK
<1>1. IndInv /\ [Next]_vars => IndInv'
  BY NextIndInv
<1>2. IndInv => TypeOK
  BY DEF IndInv
<1> QED BY InitIndInv, <1>1, <1>2, PTL DEF Spec

\* However many words the bitmap has and however far the window jumps, bit i is
\* set exactly when counter highest - i was accepted.
THEOREM BitmapIsExact ==
  ASSUME Wide
  PROVE  Spec => []WindowExact
<1>1. IndInv /\ [Next]_vars => IndInv'
  BY NextIndInv
<1>2. IndInv => WindowExact
  BY ExactIsWindowExact DEF IndInv
<1> QED BY InitIndInv, <1>1, <1>2, PTL DEF Spec

\* One step of the session is one step of the promise, or none.
LEMMA StepSimulation ==
  ASSUME Wide, IndInv, [Next]_vars
  PROVE  [Once!Next]_(Once!vars)
<1> USE DEF Once!Counter, Counter
<1>1. CASE UNCHANGED vars
  BY <1>1 DEF vars, Once!vars
<1>2. CASE Send
  <2>1. nonce \in Nat /\ nonce < MaxCounter /\ nonce' = nonce + 1
    BY <1>2, CounterAssumption DEF Send, IndInv, TypeOK
  <2>2. nonce \in Once!Counter \ (0 .. nonce - 1)
    BY <2>1, CounterAssumption
  <2>3. 0 .. nonce' - 1 = (0 .. nonce - 1) \cup {nonce}
    BY <2>1
  <2> QED BY <1>2, <2>2, <2>3 DEF Send, Once!Next, Once!Send
<1>3. ASSUME NEW c \in Counter, NEW genuine \in BOOLEAN, Receive(c, genuine)
      PROVE  Once!Next
  <2>1. Check(c) <=> Once!Acceptable(c)
    BY CheckExact
  <2>2. CASE Check(c) /\ genuine
    <3>1. times[c] = 0
      BY <2>1, <2>2 DEF Once!Acceptable
    <3>2. /\ c < nonce /\ nonce' = nonce
          /\ times' = [times EXCEPT ![c] = @ + 1]
          /\ verdict' = [counter |-> c, genuine |-> TRUE, accepted |-> TRUE]
      BY <1>3, <2>2 DEF Receive
    <3>3. times' = [times EXCEPT ![c] = 1]
      BY <3>1, <3>2
    <3>4. c \in 0 .. nonce - 1
      BY <3>2, CounterAssumption DEF IndInv, TypeOK
    <3>5. Once!Deliver(c)
      BY <2>1, <2>2, <3>2, <3>3, <3>4 DEF Once!Deliver
    <3> QED BY <3>5 DEF Once!Next
  <2>3. CASE ~(Check(c) /\ genuine)
    <3>1. /\ nonce' = nonce /\ times' = times
          /\ verdict' = [counter |-> c, genuine |-> genuine, accepted |-> FALSE]
      BY <1>3, <2>3 DEF Receive
    <3>2. Once!Refuse(c, genuine)
      BY <2>1, <2>3, <3>1 DEF Once!Refuse
    <3> QED BY <3>2 DEF Once!Next
  <2> QED BY <2>2, <2>3
<1> QED BY <1>1, <1>2, <1>3 DEF Next

\* A session uses no counter twice, and hands a frame up exactly when it is
\* genuine, new, and inside the window.
THEOREM SessionImplementsOnceDelivery ==
  ASSUME Wide
  PROVE  Spec => ImplementsOnceDelivery
<1>1. IndInv /\ [Next]_vars => IndInv'
  BY NextIndInv
<1>2. Init => Once!Init
  BY CounterAssumption DEF Init, Once!Init, Once!NoFrame, Once!Counter, Counter
<1>3. IndInv /\ [Next]_vars => [Once!Next]_(Once!vars)
  BY StepSimulation
<1> QED BY InitIndInv, <1>1, <1>2, <1>3, PTL
        DEF Spec, ImplementsOnceDelivery, Once!Spec

-----------------------------------------------------------------------------
(* The handshake: its keys and transcripts.                                *)


X(a) == Ephemeral("initiator", a)
Y(b) == Ephemeral("responder", b)
Initiator == Static("initiator")
Responder == Published(Static("responder"))
EpochOf(end) == [epochOf |-> end]
Sealed(ck, n, text) == [key |-> ck, nonce |-> n, text |-> text]

\* The chaining keys of pattern p, between attempt a and attempt b.
K0(p) == <<p>>
K1(p, a) == Append(K0(p), Ecdh(X(a), Responder))
IK2(p, a) == Append(K1(p, a), Ecdh(Initiator, Responder))
IK3(p, a, b) == Append(IK2(p, a), Ecdh(X(a), Y(b)))
IK4(p, a, b) == Append(IK3(p, a, b), Ecdh(X(a), Responder))
XK2(p, a, b) == Append(K1(p, a), Ecdh(X(a), Y(b)))
XK3(p, a, b) == Append(XK2(p, a, b), Ecdh(Initiator, Y(b)))

\* The transcripts.
H0(p) == <<p, Responder>>
H1(p, a) == Append(H0(p), X(a))
IHs(p, a) == Append(H1(p, a), Sealed(K1(p, a), 0, Initiator))
IH2(p, a) == Append(IHs(p, a), Sealed(IK2(p, a), 0, EpochOf("initiator")))
IH3(p, a, b) == Append(IH2(p, a), Y(b))
IH4(p, a, b) == Append(IH3(p, a, b), Sealed(IK4(p, a, b), 0, EpochOf("responder")))
XH2(p, a, b) == Append(H1(p, a), Y(b))
XH3(p, a, b) == Append(XH2(p, a, b), Sealed(XK2(p, a, b), 0, EpochOf("responder")))
XHs(p, a, b) == Append(XH3(p, a, b), Sealed(XK2(p, a, b), 1, Initiator))
XH4(p, a, b) == Append(XHs(p, a, b), Sealed(XK3(p, a, b), 0, EpochOf("initiator")))

\* The messages.
M1(p, a) ==
  IF p = "IK" THEN [n |-> 1, e |-> X(a), static |-> Sealed(K1(p, a), 0, Initiator),
                    epoch |-> Sealed(IK2(p, a), 0, EpochOf("initiator"))]
  ELSE [n |-> 1, e |-> X(a)]
M2(p, a, b) ==
  [n |-> 2, e |-> Y(b),
   epoch |-> Sealed(IF p = "IK" THEN IK4(p, a, b) ELSE XK2(p, a, b), 0, EpochOf("responder"))]
M3(p, a, b) ==
  [n |-> 3, static |-> Sealed(XK2(p, a, b), 1, Initiator),
   epoch |-> Sealed(XK3(p, a, b), 0, EpochOf("initiator"))]

\* A HandshakeState.
State(pr, h, ck, n, e, re, rs, ep, f) ==
  [progress |-> pr, h |-> h, ck |-> ck, nonce |-> n, e |-> e, re |-> re, rs |-> rs,
   epochOf |-> ep, failed |-> f]
Good == FALSE
Bad == TRUE

\* The states of attempt a of the initiator and attempt b of the responder.
New(end, p) ==
  State("Initial", H0(p), K0(p), 0, NoKey, NoKey,
        IF end = "initiator" THEN Responder ELSE NoKey, "none", Good)
Sent1(p, a) ==
  IF p = "IK"
  THEN State("Message1Done", IH2(p, a), IK2(p, a), 1, X(a), NoKey, Responder, "none", Good)
  ELSE State("Message1Done", H1(p, a), K1(p, a), 0, X(a), NoKey, Responder, "none", Good)
Had2(p, a, b) ==
  IF p = "IK"
  THEN State("Complete", IH4(p, a, b), IK4(p, a, b), 1, X(a), Y(b), Responder, "responder", Good)
  ELSE State("Message2Done", XH3(p, a, b), XK2(p, a, b), 1, X(a), Y(b), Responder,
             "responder", Good)
Sent3(p, a, b) ==
  State("Complete", XH4(p, a, b), XK3(p, a, b), 1, X(a), Y(b), Responder, "responder", Good)

Had1(p, a) ==
  IF p = "IK"
  THEN State("Message1Done", IH2(p, a), IK2(p, a), 1, NoKey, X(a), Initiator, "initiator", Good)
  ELSE State("Message1Done", H1(p, a), K1(p, a), 0, NoKey, X(a), NoKey, "none", Good)
Sent2(p, a, b) ==
  IF p = "IK"
  THEN State("Complete", IH4(p, a, b), IK4(p, a, b), 1, Y(b), X(a), Initiator, "initiator", Good)
  ELSE State("Message2Done", XH3(p, a, b), XK2(p, a, b), 1, Y(b), X(a), NoKey, "none", Good)
Had3(p, a, b) ==
  State("Complete", XH4(p, a, b), XK3(p, a, b), 1, Y(b), X(a), Initiator, "initiator", Good)

\* A state whose reading of a message 2 failed: the chaining key is too long.
IsSequence(s) == \E S : s \in Seq(S)
Message1Length(p) == IF p = "IK" THEN 3 ELSE 2
Spoiled(s, p) ==
  \E h, ck, n, e, re, rs, ep :
    /\ s = State("Message1Done", h, ck, n, e, re, rs, ep, Good)
    /\ IsSequence(ck) /\ Len(ck) > Message1Length(p)

\* A state whose reading of a message 3 failed: the nonce is too high.
Ahead(s, p, a, b) ==
  \E n \in Nat : n > 1 /\ s = State("Message2Done", XH3(p, a, b), XK2(p, a, b), n, Y(b), X(a),
                                    NoKey, "none", Good)

-----------------------------------------------------------------------------
(* The invariant.                                                          *)

\* Attempt b answers attempt a, and attempt a has completed with b.
Answers(b, a) == hs["responder"][b].e = Y(b) /\ hs["responder"][b].re = X(a)
Finished(a, b) == hs["initiator"][a].progress = "Complete"
                  /\ hs["initiator"][a].e = X(a) /\ hs["initiator"][a].re = Y(b)

InitiatorOK(a) ==
  LET s == hs["initiator"][a]
  IN  \/ s = New("initiator", pattern)
      \/ s = Sent1(pattern, a)
      \/ Spoiled(s, pattern)
      \/ \E b \in Attempt : Answers(b, a) /\ s = Had2(pattern, a, b)
      \/ pattern = "XK" /\ \E b \in Attempt : Answers(b, a) /\ s = Sent3(pattern, a, b)

ResponderOK(b) ==
  LET s == hs["responder"][b]
  IN  \/ s = New("responder", pattern)
      \/ \E a \in Attempt : s = Had1(pattern, a)
      \/ \E a \in Attempt : s = Sent2(pattern, a, b)
      \/ pattern = "XK" /\ \E a \in Attempt : Ahead(s, pattern, a, b)
      \/ pattern = "XK" /\ \E a \in Attempt : Finished(a, b) /\ s = Had3(pattern, a, b)

MessageOK(m) ==
  \/ \E a \in Attempt : m = M1(pattern, a)
  \/ \E a, b \in Attempt : Answers(b, a) /\ m = M2(pattern, a, b)
  \/ pattern = "XK" /\ \E a, b \in Attempt : Finished(a, b) /\ m = M3(pattern, a, b)

KeysOK ==
  \/ keys.receive # <<>> /\ keys.receive = keys.send
  \/ /\ keys.receive = <<>>
     /\ \/ keys.send = <<>>
        \/ /\ keys.attempt \in Attempt
           /\ hs["initiator"][keys.attempt].progress = "Complete"
           /\ keys.send = SendKey(hs["initiator"][keys.attempt])

Shape == hs = [end \in End |-> [a \in Attempt |-> hs[end][a]]]
KeysShape == keys = [send |-> keys.send, receive |-> keys.receive, attempt |-> keys.attempt]

HandshakeInv ==
  /\ pattern \in {"IK", "XK"}
  /\ Shape /\ KeysShape
  /\ \A a \in Attempt : InitiatorOK(a) /\ ResponderOK(a)
  /\ \A m \in wire : MessageOK(m)
  /\ KeysOK

-----------------------------------------------------------------------------
(* What the parts of a message do to a state.                              *)

LEMMA Fields ==
  ASSUME NEW pr, NEW h, NEW ck, NEW n, NEW e, NEW re, NEW rs, NEW ep, NEW f
  PROVE  /\ State(pr, h, ck, n, e, re, rs, ep, f).progress = pr
         /\ State(pr, h, ck, n, e, re, rs, ep, f).h = h
         /\ State(pr, h, ck, n, e, re, rs, ep, f).ck = ck
         /\ State(pr, h, ck, n, e, re, rs, ep, f).nonce = n
         /\ State(pr, h, ck, n, e, re, rs, ep, f).e = e
         /\ State(pr, h, ck, n, e, re, rs, ep, f).re = re
         /\ State(pr, h, ck, n, e, re, rs, ep, f).rs = rs
         /\ State(pr, h, ck, n, e, re, rs, ep, f).epochOf = ep
         /\ State(pr, h, ck, n, e, re, rs, ep, f).failed = f
BY DEF State

LEMMA Mixed ==
  ASSUME NEW pr, NEW h, NEW ck, NEW n, NEW e, NEW re, NEW rs, NEW ep, NEW f, NEW d
  PROVE  /\ MixHash(State(pr, h, ck, n, e, re, rs, ep, f), d)
              = State(pr, Append(h, d), ck, n, e, re, rs, ep, f)
         /\ MixKey(State(pr, h, ck, n, e, re, rs, ep, f), d)
              = State(pr, h, Append(ck, d), 0, e, re, rs, ep, f)
<1>1. State(pr, h, ck, n, e, re, rs, ep, f).h = h
      /\ State(pr, h, ck, n, e, re, rs, ep, f).ck = ck
  BY DEF State
<1>2. [State(pr, h, ck, n, e, re, rs, ep, f) EXCEPT !.h = Append(h, d)]
        = State(pr, Append(h, d), ck, n, e, re, rs, ep, f)
  BY DEF State
<1>3. [State(pr, h, ck, n, e, re, rs, ep, f) EXCEPT !.ck = Append(ck, d)]
        = State(pr, h, Append(ck, d), n, e, re, rs, ep, f)
  BY SMTT(30) DEF State
<1>4. [State(pr, h, Append(ck, d), n, e, re, rs, ep, f) EXCEPT !.nonce = 0]
        = State(pr, h, Append(ck, d), 0, e, re, rs, ep, f)
  BY DEF State
<1>5. MixHash(State(pr, h, ck, n, e, re, rs, ep, f), d)
        = State(pr, Append(h, d), ck, n, e, re, rs, ep, f)
  BY Zenon, <1>1, <1>2 DEF MixHash
<1>6. MixKey(State(pr, h, ck, n, e, re, rs, ep, f), d)
        = State(pr, h, Append(ck, d), 0, e, re, rs, ep, f)
  BY Zenon, <1>1, <1>3, <1>4 DEF MixKey
<1> QED BY <1>5, <1>6

LEMMA EphemeralRead ==
  ASSUME NEW pr, NEW h, NEW ck, NEW n, NEW e, NEW re, NEW rs, NEW ep, NEW f, NEW k
  PROVE  ReadEphemeral(State(pr, h, ck, n, e, re, rs, ep, f), k)
           = State(pr, Append(h, k), ck, n, e, k, rs, ep, f)
<1>1. [State(pr, h, ck, n, e, re, rs, ep, f) EXCEPT !.re = k]
        = State(pr, h, ck, n, e, k, rs, ep, f)
  BY DEF State
<1>2. MixHash(State(pr, h, ck, n, e, k, rs, ep, f), k)
        = State(pr, Append(h, k), ck, n, e, k, rs, ep, f)
  BY Mixed
<1> QED BY Zenon, <1>1, <1>2 DEF ReadEphemeral

LEMMA EphemeralWritten ==
  ASSUME NEW pr, NEW h, NEW ck, NEW n, NEW e, NEW re, NEW rs, NEW ep, NEW f, NEW end, NEW a
  PROVE  WriteEphemeral(State(pr, h, ck, n, e, re, rs, ep, f), end, a)
           = State(pr, Append(h, Ephemeral(end, a)), ck, n, Ephemeral(end, a), re, rs, ep, f)
<1>1. [State(pr, h, ck, n, e, re, rs, ep, f) EXCEPT !.e = Ephemeral(end, a)]
        = State(pr, h, ck, n, Ephemeral(end, a), re, rs, ep, f)
  BY DEF State
<1>2. MixHash(State(pr, h, ck, n, Ephemeral(end, a), re, rs, ep, f), Ephemeral(end, a))
        = State(pr, Append(h, Ephemeral(end, a)), ck, n, Ephemeral(end, a), re, rs, ep, f)
  BY Mixed
<1> QED BY Zenon, <1>1, <1>2 DEF WriteEphemeral

LEMMA SealedText ==
  ASSUME NEW pr, NEW h, NEW ck, NEW n, NEW e, NEW re, NEW rs, NEW ep, NEW f, NEW text
  PROVE  EncryptAndHash(State(pr, h, ck, n, e, re, rs, ep, f), text)
           = State(pr, Append(h, Sealed(ck, n, text)), ck, n + 1, e, re, rs, ep, f)
<1>1. /\ Seal(State(pr, h, ck, n, e, re, rs, ep, f), text) = Sealed(ck, n, text)
      /\ NextNonce(State(pr, h, ck, n, e, re, rs, ep, f)) = n + 1
  BY DEF Seal, Sealed, NextNonce, State
<1>2. MixHash(State(pr, h, ck, n, e, re, rs, ep, f), Sealed(ck, n, text))
        = State(pr, Append(h, Sealed(ck, n, text)), ck, n, e, re, rs, ep, f)
  BY Mixed
<1>3. [State(pr, Append(h, Sealed(ck, n, text)), ck, n, e, re, rs, ep, f) EXCEPT !.nonce = n + 1]
        = State(pr, Append(h, Sealed(ck, n, text)), ck, n + 1, e, re, rs, ep, f)
  BY DEF State
<1> QED BY Zenon, <1>1, <1>2, <1>3 DEF EncryptAndHash

LEMMA OpenedText ==
  ASSUME NEW pr, NEW h, NEW ck, NEW n, NEW e, NEW re, NEW rs, NEW ep, NEW f, NEW text
  PROVE  DecryptAndHash(State(pr, h, ck, n, e, re, rs, ep, f), Sealed(ck, n, text))
           = State(pr, Append(h, Sealed(ck, n, text)), ck, n + 1, e, re, rs, ep, f)
<1>1. /\ Opens(State(pr, h, ck, n, e, re, rs, ep, f), Sealed(ck, n, text))
      /\ NextNonce(State(pr, h, ck, n, e, re, rs, ep, f)) = n + 1
  BY DEF Opens, Sealed, NextNonce, State
<1>2. MixHash(State(pr, h, ck, n, e, re, rs, ep, f), Sealed(ck, n, text))
        = State(pr, Append(h, Sealed(ck, n, text)), ck, n, e, re, rs, ep, f)
  BY Mixed
<1>3. [State(pr, Append(h, Sealed(ck, n, text)), ck, n, e, re, rs, ep, f) EXCEPT !.nonce = n + 1]
        = State(pr, Append(h, Sealed(ck, n, text)), ck, n + 1, e, re, rs, ep, f)
  BY DEF State
<1> QED BY Zenon, <1>1, <1>2, <1>3 DEF DecryptAndHash

LEMMA Refused ==
  ASSUME NEW pr, NEW h, NEW ck, NEW n, NEW e, NEW re, NEW rs, NEW ep, NEW f,
         NEW key, NEW m, NEW text, key # ck \/ m # n
  PROVE  DecryptAndHash(State(pr, h, ck, n, e, re, rs, ep, f), Sealed(key, m, text))
           = State(pr, h, ck, n + 1, e, re, rs, ep, Bad)
<1>1. /\ ~ Opens(State(pr, h, ck, n, e, re, rs, ep, f), Sealed(key, m, text))
      /\ NextNonce(State(pr, h, ck, n, e, re, rs, ep, f)) = n + 1
  BY DEF Opens, Sealed, NextNonce, State
<1>2. [State(pr, h, ck, n, e, re, rs, ep, f) EXCEPT !.nonce = n + 1]
        = State(pr, h, ck, n + 1, e, re, rs, ep, f)
  BY DEF State
<1>3. [State(pr, h, ck, n + 1, e, re, rs, ep, f) EXCEPT !.failed = Bad]
        = State(pr, h, ck, n + 1, e, re, rs, ep, Bad)
  BY DEF State
<1> QED BY Zenon, <1>1, <1>2, <1>3 DEF DecryptAndHash, Bad

LEMMA EpochRead ==
  ASSUME NEW pr, NEW h, NEW ck, NEW n, NEW e, NEW re, NEW rs, NEW ep, NEW end
  PROVE  ReadEpoch(State(pr, h, ck, n, e, re, rs, ep, Good), Sealed(ck, n, EpochOf(end)))
           = State(pr, Append(h, Sealed(ck, n, EpochOf(end))), ck, n + 1, e, re, rs, end, Good)
<1> DEFINE c == Sealed(ck, n, EpochOf(end))
<1>1. c.text.epochOf = end
  BY DEF Sealed, EpochOf
<1>2. DecryptAndHash(State(pr, h, ck, n, e, re, rs, ep, Good), c)
        = State(pr, Append(h, c), ck, n + 1, e, re, rs, ep, Good)
  BY OpenedText
<1>3. ~ State(pr, Append(h, c), ck, n + 1, e, re, rs, ep, Good).failed
  BY DEF State, Good
<1>4. [State(pr, Append(h, c), ck, n + 1, e, re, rs, ep, Good) EXCEPT !.epochOf = end]
        = State(pr, Append(h, c), ck, n + 1, e, re, rs, end, Good)
  BY SMTT(30) DEF State
<1> HIDE DEF c
<1> QED BY Zenon, <1>1, <1>2, <1>3, <1>4 DEF ReadEpoch, Then, c

LEMMA StaticRead ==
  ASSUME NEW pr, NEW h, NEW ck, NEW n, NEW e, NEW re, NEW rs, NEW ep, NEW k
  PROVE  ReadStatic(State(pr, h, ck, n, e, re, rs, ep, Good), Sealed(ck, n, k))
           = State(pr, Append(h, Sealed(ck, n, k)), ck, n + 1, e, re, k, ep, Good)
<1> DEFINE c == Sealed(ck, n, k)
<1>1. c.text = k
  BY DEF Sealed
<1>2. DecryptAndHash(State(pr, h, ck, n, e, re, rs, ep, Good), c)
        = State(pr, Append(h, c), ck, n + 1, e, re, rs, ep, Good)
  BY OpenedText
<1>3. ~ State(pr, Append(h, c), ck, n + 1, e, re, rs, ep, Good).failed
  BY DEF State, Good
<1>4. [State(pr, Append(h, c), ck, n + 1, e, re, rs, ep, Good) EXCEPT !.rs = k]
        = State(pr, Append(h, c), ck, n + 1, e, re, k, ep, Good)
  BY DEF State
<1> HIDE DEF c
<1> QED BY Zenon, <1>1, <1>2, <1>3, <1>4 DEF ReadStatic, Then, c

LEMMA ReadRefused ==
  ASSUME NEW pr, NEW h, NEW ck, NEW n, NEW e, NEW re, NEW rs, NEW ep,
         NEW key, NEW m, NEW text, key # ck \/ m # n
  PROVE  /\ ReadEpoch(State(pr, h, ck, n, e, re, rs, ep, Good), Sealed(key, m, text))
              = State(pr, h, ck, n + 1, e, re, rs, ep, Bad)
         /\ ReadStatic(State(pr, h, ck, n, e, re, rs, ep, Good), Sealed(key, m, text))
              = State(pr, h, ck, n + 1, e, re, rs, ep, Bad)
<1>1. DecryptAndHash(State(pr, h, ck, n, e, re, rs, ep, Good), Sealed(key, m, text))
        = State(pr, h, ck, n + 1, e, re, rs, ep, Bad)
  BY Refused
<1>2. State(pr, h, ck, n + 1, e, re, rs, ep, Bad).failed
  BY DEF State, Bad
<1> QED BY <1>1, <1>2 DEF ReadEpoch, ReadStatic, Then

LEMMA Advanced ==
  ASSUME NEW pr, NEW h, NEW ck, NEW n, NEW e, NEW re, NEW rs, NEW ep, NEW q
  PROVE  /\ Done(State(pr, h, ck, n, e, re, rs, ep, Good), q)
              = State(q, h, ck, n, e, re, rs, ep, Good)
         /\ Done(State(pr, h, ck, n, e, re, rs, ep, Bad), q)
              = State(pr, h, ck, n, e, re, rs, ep, Bad)
<1>1. /\ State(pr, h, ck, n, e, re, rs, ep, Bad).failed
      /\ ~ State(pr, h, ck, n, e, re, rs, ep, Good).failed
  BY DEF State, Good, Bad
<1>2. [State(pr, h, ck, n, e, re, rs, ep, Good) EXCEPT !.progress = q]
        = State(q, h, ck, n, e, re, rs, ep, Good)
  BY DEF State
<1> QED BY Zenon, <1>1, <1>2 DEF Done, Then

-----------------------------------------------------------------------------
(* Sequences and keys.                                                     *)

LEMMA Appended ==
  ASSUME NEW s, NEW x, IsSequence(s)
  PROVE  /\ IsSequence(Append(s, x))
         /\ Len(s) \in Nat /\ Len(Append(s, x)) = Len(s) + 1
         /\ Append(s, x)[Len(Append(s, x))] = x
<1>1. PICK S : s \in Seq(S)
  BY DEF IsSequence
<1> DEFINE T == S \cup {x}
<1>2. s \in Seq(T) /\ x \in T
  <2>1. s \in [1 .. Len(s) -> S] /\ Len(s) \in Nat
    BY <1>1
  <2>2. s \in [1 .. Len(s) -> T]
    BY <2>1
  <2> QED BY <2>1, <2>2, IsASeq
<1> HIDE DEF T
<1>3. /\ Append(s, x) \in Seq(T) /\ Len(Append(s, x)) = Len(s) + 1
      /\ Append(s, x)[Len(s) + 1] = x
  BY <1>2, AppendProperties
<1> QED BY <1>1, <1>3 DEF IsSequence

LEMMA AppendedEqual ==
  ASSUME NEW s, NEW t, NEW x, NEW y, IsSequence(s), IsSequence(t), Append(s, x) = Append(t, y)
  PROVE  s = t /\ x = y
<1>1. PICK S : s \in Seq(S)
  BY DEF IsSequence
<1>2. PICK T : t \in Seq(T)
  BY DEF IsSequence
<1> DEFINE U == S \cup T \cup {x, y}
<1>3. s \in Seq(U) /\ t \in Seq(U) /\ x \in U /\ y \in U
  <2>1. s \in [1 .. Len(s) -> S] /\ Len(s) \in Nat /\ t \in [1 .. Len(t) -> T] /\ Len(t) \in Nat
    BY <1>1, <1>2
  <2>2. s \in [1 .. Len(s) -> U] /\ t \in [1 .. Len(t) -> U]
    BY <2>1
  <2> QED BY <2>1, <2>2, IsASeq
<1> HIDE DEF U
<1> QED BY <1>3, AppendInjective

\* Only the names of two keys matter to their product.
LEMMA Products ==
  ASSUME NEW a, NEW b
  PROVE  /\ Ecdh(Static("responder"), X(a)) = Ecdh(X(a), Responder)
         /\ Ecdh(Static("responder"), Initiator) = Ecdh(Initiator, Responder)
         /\ Ecdh(Y(b), X(a)) = Ecdh(X(a), Y(b))
         /\ Ecdh(Y(b), Initiator) = Ecdh(Initiator, Y(b))
<1>1. /\ [owner |-> Responder.owner, of |-> Responder.of] = [owner |-> "responder", of |-> 0]
      /\ [owner |-> Static("responder").owner, of |-> Static("responder").of]
           = [owner |-> "responder", of |-> 0]
  BY DEF Responder, Static, Published
<1> QED BY <1>1 DEF Ecdh

LEMMA KeysKnown ==
  ASSUME NEW a, NEW b
  PROVE  /\ ResponderKey("initiator") = Responder
         /\ ResponderKey("responder") = Static("responder")
         /\ NormalizeForPremessage(Responder) = Responder
         /\ NormalizeForPremessage(Static("responder")) = Responder
         /\ NoKey # X(a) /\ NoKey # Y(b)
<1> DEFINE key(o) == [owner |-> "responder", of |-> 0, odd |-> o]
<1>0. ASSUME NEW o PROVE [key(o) EXCEPT !.odd = Good] = key(Good)
  OBVIOUS
<1>1. Responder = key(Good)
  BY Zenon, <1>0 DEF Responder, Static, Published, Good
<1>2. NormalizeForPremessage(Static("responder")) = key(Good)
  BY Zenon, <1>0 DEF Static, NormalizeForPremessage, Good
<1>3. NormalizeForPremessage(Responder) = key(Good)
  BY Zenon, <1>0, <1>1 DEF NormalizeForPremessage, Good
<1>4. NoKey.owner = "none" /\ X(a).owner = "initiator" /\ Y(b).owner = "responder"
  BY DEF NoKey, X, Y, Ephemeral
<1> QED BY <1>1, <1>2, <1>3, <1>4 DEF ResponderKey, Responder

LEMMA EphemeralsDiffer ==
  ASSUME NEW a, NEW b, NEW c, NEW d
  PROVE  /\ X(a) = X(c) => a = c
         /\ Y(b) = Y(d) => b = d
         /\ Ecdh(X(a), Y(b)) = Ecdh(X(c), Y(d)) => a = c /\ b = d
<1>1. /\ X(a).owner = "initiator" /\ X(a).of = a /\ X(c).owner = "initiator" /\ X(c).of = c
      /\ Y(b).owner = "responder" /\ Y(b).of = b /\ Y(d).owner = "responder" /\ Y(d).of = d
  BY DEF X, Y, Ephemeral
<1> DEFINE xa == [owner |-> "initiator", of |-> a]
           xc == [owner |-> "initiator", of |-> c]
           yb == [owner |-> "responder", of |-> b]
           yd == [owner |-> "responder", of |-> d]
<1>2. Ecdh(X(a), Y(b)) = {xa, yb} /\ Ecdh(X(c), Y(d)) = {xc, yd}
  BY <1>1 DEF Ecdh
<1>3. /\ xa.owner = "initiator" /\ xa.of = a /\ xc.owner = "initiator" /\ xc.of = c
      /\ yb.owner = "responder" /\ yb.of = b /\ yd.owner = "responder" /\ yd.of = d
  OBVIOUS
<1> HIDE DEF xa, xc, yb, yd
<1>4. {xa, yb} = {xc, yd} => xa = xc /\ yb = yd
  <2>1. xa # yd /\ yb # xc
    BY <1>3
  <2> QED BY <2>1
<1>5. (xa = xc => a = c) /\ (yb = yd => b = d)
  BY <1>3
<1> QED BY <1>1, <1>2, <1>4, <1>5

LEMMA FreshState ==
  ASSUME NEW p, NEW end \in End
  PROVE  NewHandshake(end, p) = New(end, p)
<1>1. NormalizeForPremessage(ResponderKey(end)) = Responder
  BY KeysKnown DEF End
<1>2. (IF end = "initiator" THEN ResponderKey(end) ELSE NoKey)
        = (IF end = "initiator" THEN Responder ELSE NoKey)
  BY KeysKnown
<1> QED BY Zenon, <1>1, <1>2 DEF NewHandshake, New, State, H0, K0, Good

LEMMA Sequences ==
  ASSUME NEW p, NEW a, NEW b
  PROVE  /\ IsSequence(K0(p)) /\ Len(K0(p)) = 1
         /\ IsSequence(K1(p, a)) /\ Len(K1(p, a)) = 2
         /\ IsSequence(IK2(p, a)) /\ Len(IK2(p, a)) = 3
         /\ IsSequence(IK3(p, a, b)) /\ Len(IK3(p, a, b)) = 4
         /\ IsSequence(IK4(p, a, b)) /\ Len(IK4(p, a, b)) = 5
         /\ IsSequence(XK2(p, a, b)) /\ Len(XK2(p, a, b)) = 3
         /\ IsSequence(XK3(p, a, b)) /\ Len(XK3(p, a, b)) = 4
<1>1. IsSequence(K0(p)) /\ Len(K0(p)) = 1
  <2>1. <<p>> \in Seq({p}) /\ Len(<<p>>) = 1
    OBVIOUS
  <2> QED BY <2>1 DEF K0, IsSequence
<1>2. IsSequence(K1(p, a)) /\ Len(K1(p, a)) = 2
  <2>1. IsSequence(K1(p, a)) /\ Len(K1(p, a)) = Len(K0(p)) + 1
    BY Zenon, <1>1, Appended DEF K1
  <2> QED BY <1>1, <2>1
<1>3. IsSequence(IK2(p, a)) /\ Len(IK2(p, a)) = 3
  <2>1. IsSequence(IK2(p, a)) /\ Len(IK2(p, a)) = Len(K1(p, a)) + 1
    BY Zenon, <1>2, Appended DEF IK2
  <2> QED BY <1>2, <2>1
<1>4. IsSequence(IK3(p, a, b)) /\ Len(IK3(p, a, b)) = 4
  <2>1. IsSequence(IK3(p, a, b)) /\ Len(IK3(p, a, b)) = Len(IK2(p, a)) + 1
    BY Zenon, <1>3, Appended DEF IK3
  <2> QED BY <1>3, <2>1
<1>5. IsSequence(IK4(p, a, b)) /\ Len(IK4(p, a, b)) = 5
  <2>1. IsSequence(IK4(p, a, b)) /\ Len(IK4(p, a, b)) = Len(IK3(p, a, b)) + 1
    BY Zenon, <1>4, Appended DEF IK4
  <2> QED BY <1>4, <2>1
<1>6. IsSequence(XK2(p, a, b)) /\ Len(XK2(p, a, b)) = 3
  <2>1. IsSequence(XK2(p, a, b)) /\ Len(XK2(p, a, b)) = Len(K1(p, a)) + 1
    BY Zenon, <1>2, Appended DEF XK2
  <2> QED BY <1>2, <2>1
<1>7. IsSequence(XK3(p, a, b)) /\ Len(XK3(p, a, b)) = 4
  <2>1. IsSequence(XK3(p, a, b)) /\ Len(XK3(p, a, b)) = Len(XK2(p, a, b)) + 1
    BY Zenon, <1>6, Appended DEF XK3
  <2> QED BY <1>6, <2>1
<1> QED BY <1>1, <1>2, <1>3, <1>4, <1>5, <1>6, <1>7

LEMMA Transcripts ==
  ASSUME NEW p, NEW a, NEW b
  PROVE  /\ IsSequence(H1(p, a)) /\ IsSequence(IHs(p, a)) /\ IsSequence(IH2(p, a))
         /\ IsSequence(IH3(p, a, b)) /\ IsSequence(XH2(p, a, b)) /\ IsSequence(XH3(p, a, b))
         /\ IsSequence(XHs(p, a, b))
<1>1. IsSequence(H0(p))
  <2>1. <<p, Responder>> \in Seq({p, Responder})
    OBVIOUS
  <2> QED BY <2>1 DEF H0, IsSequence
<1>2. IsSequence(H1(p, a))
  BY <1>1, Appended DEF H1
<1>3. IsSequence(IHs(p, a))
  BY <1>2, Appended DEF IHs
<1>4. IsSequence(IH2(p, a))
  BY <1>3, Appended DEF IH2
<1>5. IsSequence(IH3(p, a, b))
  BY <1>4, Appended DEF IH3
<1>6. IsSequence(XH2(p, a, b))
  BY <1>2, Appended DEF XH2
<1>7. IsSequence(XH3(p, a, b))
  BY <1>6, Appended DEF XH3
<1>8. IsSequence(XHs(p, a, b))
  BY <1>7, Appended DEF XHs
<1> QED BY <1>2, <1>3, <1>4, <1>5, <1>6, <1>7, <1>8

\* Two attempts never share a chaining key once their ephemeral keys are mixed.
LEMMA KeysDiffer ==
  ASSUME NEW p, NEW a, NEW b, NEW c, NEW d
  PROVE  /\ IK4(p, a, b) = IK4(p, c, d) => a = c /\ b = d
         /\ XK2(p, a, b) = XK2(p, c, d) => a = c /\ b = d
<1>1. ASSUME IK4(p, a, b) = IK4(p, c, d) PROVE a = c /\ b = d
  <2>1. IK3(p, a, b) = IK3(p, c, d)
    BY <1>1, Sequences, AppendedEqual DEF IK4
  <2>2. Ecdh(X(a), Y(b)) = Ecdh(X(c), Y(d))
    BY <2>1, Sequences, AppendedEqual DEF IK3
  <2> QED BY <2>2, EphemeralsDiffer
<1>2. ASSUME XK2(p, a, b) = XK2(p, c, d) PROVE a = c /\ b = d
  <2>1. Ecdh(X(a), Y(b)) = Ecdh(X(c), Y(d))
    BY <1>2, Sequences, AppendedEqual DEF XK2
  <2> QED BY <2>1, EphemeralsDiffer
<1> QED BY <1>1, <1>2

-----------------------------------------------------------------------------
(* The states of an attempt, by their progress.                            *)

LEMMA InitiatorCases ==
  ASSUME pattern \in {"IK", "XK"}, NEW a \in Attempt, InitiatorOK(a)
  PROVE  LET s == hs["initiator"][a]
         IN  /\ s.progress \in {"Initial", "Message1Done", "Message2Done", "Complete"}
             /\ s.progress = "Initial" => s = New("initiator", pattern)
             /\ s.progress = "Message1Done" => s = Sent1(pattern, a) \/ Spoiled(s, pattern)
             /\ s.progress = "Message2Done" =>
                  pattern = "XK" /\ \E b \in Attempt : Answers(b, a) /\ s = Had2(pattern, a, b)
             /\ s.progress = "Complete" =>
                  \E b \in Attempt : /\ Answers(b, a)
                                     /\ \/ pattern = "IK" /\ s = Had2(pattern, a, b)
                                        \/ pattern = "XK" /\ s = Sent3(pattern, a, b)
<1> DEFINE s == hs["initiator"][a]
<1>1. CASE s = New("initiator", pattern)
  <2>1. s.progress = "Initial"
    BY <1>1, Fields DEF New
  <2> QED BY <1>1, <2>1
<1>2. CASE s = Sent1(pattern, a)
  <2>1. s.progress = "Message1Done"
    BY <1>2, Fields DEF Sent1
  <2> QED BY <1>2, <2>1
<1>3. CASE Spoiled(s, pattern)
  <2>1. s.progress = "Message1Done"
    BY <1>3, Fields DEF Spoiled
  <2> QED BY <1>3, <2>1
<1>4. ASSUME NEW b \in Attempt, Answers(b, a), s = Had2(pattern, a, b)
      PROVE  \/ pattern = "IK" /\ s.progress = "Complete"
             \/ pattern = "XK" /\ s.progress = "Message2Done"
  BY <1>4, Fields DEF Had2
<1>5. ASSUME NEW b \in Attempt, s = Sent3(pattern, a, b)
      PROVE  s.progress = "Complete"
  BY <1>5, Fields DEF Sent3
<1> HIDE DEF s
<1> QED BY <1>1, <1>2, <1>3, <1>4, <1>5 DEF InitiatorOK, s

LEMMA ResponderCases ==
  ASSUME pattern \in {"IK", "XK"}, NEW b \in Attempt, ResponderOK(b)
  PROVE  LET s == hs["responder"][b]
         IN  /\ s.progress \in {"Initial", "Message1Done", "Message2Done", "Complete"}
             /\ s.progress = "Initial" => s = New("responder", pattern)
             /\ s.progress = "Message1Done" => \E a \in Attempt : s = Had1(pattern, a)
             /\ s.progress = "Message2Done" =>
                  pattern = "XK" /\ \E a \in Attempt : \/ s = Sent2(pattern, a, b)
                                                       \/ Ahead(s, pattern, a, b)
             /\ s.progress = "Complete" =>
                  \E a \in Attempt : \/ pattern = "IK" /\ s = Sent2(pattern, a, b)
                                     \/ pattern = "XK" /\ Finished(a, b) /\ s = Had3(pattern, a, b)
             /\ s.progress \in {"Initial", "Message1Done"} => s.e = NoKey
<1> DEFINE s == hs["responder"][b]
<1>1. CASE s = New("responder", pattern)
  <2>1. s.progress = "Initial" /\ s.e = NoKey
    BY <1>1, Fields DEF New
  <2> QED BY <1>1, <2>1
<1>2. ASSUME NEW a \in Attempt, s = Had1(pattern, a)
      PROVE  s.progress = "Message1Done" /\ s.e = NoKey
  BY <1>2, Fields DEF Had1
<1>3. ASSUME NEW a \in Attempt, s = Sent2(pattern, a, b)
      PROVE  \/ pattern = "IK" /\ s.progress = "Complete"
             \/ pattern = "XK" /\ s.progress = "Message2Done"
  BY <1>3, Fields DEF Sent2
<1>4. ASSUME NEW a \in Attempt, Ahead(s, pattern, a, b)
      PROVE  s.progress = "Message2Done"
  BY <1>4, Fields DEF Ahead
<1>5. ASSUME NEW a \in Attempt, s = Had3(pattern, a, b)
      PROVE  s.progress = "Complete"
  BY <1>5, Fields DEF Had3
<1> HIDE DEF s
<1> QED BY <1>1, <1>2, <1>3, <1>4, <1>5 DEF ResponderOK, s

LEMMA AfterFailure ==
  ASSUME NEW pr, NEW h, NEW ck, NEW n, NEW e, NEW re, NEW rs, NEW ep, NEW t
  PROVE  /\ Then(State(pr, h, ck, n, e, re, rs, ep, Good), t) = t
         /\ Then(State(pr, h, ck, n, e, re, rs, ep, Bad), t)
              = State(pr, h, ck, n, e, re, rs, ep, Bad)
<1>1. /\ State(pr, h, ck, n, e, re, rs, ep, Bad).failed
      /\ ~ State(pr, h, ck, n, e, re, rs, ep, Good).failed
  BY DEF State, Good, Bad
<1> QED BY <1>1 DEF Then

LEMMA MessageKinds ==
  ASSUME NEW p, NEW a, NEW b
  PROVE  /\ M1(p, a).n = 1 /\ M2(p, a, b).n = 2 /\ M3(p, a, b).n = 3
         /\ M1(p, a).e = X(a) /\ M2(p, a, b).e = Y(b)
         /\ p = "IK" => /\ M1(p, a).static = Sealed(K1(p, a), 0, Initiator)
                        /\ M1(p, a).epoch = Sealed(IK2(p, a), 0, EpochOf("initiator"))
                        /\ M2(p, a, b).epoch = Sealed(IK4(p, a, b), 0, EpochOf("responder"))
         /\ p # "IK" => M2(p, a, b).epoch = Sealed(XK2(p, a, b), 0, EpochOf("responder"))
         /\ M3(p, a, b).static = Sealed(XK2(p, a, b), 1, Initiator)
         /\ M3(p, a, b).epoch = Sealed(XK3(p, a, b), 0, EpochOf("initiator"))
BY DEF M1, M2, M3

\* A call leaves the state it changed, and a failed one too.
LEMMA StepTo ==
  ASSUME NEW end, NEW a,
         NEW pr, NEW h, NEW ck, NEW n, NEW e, NEW re, NEW rs, NEW ep, NEW f,
         Step(end, a, State(pr, h, ck, n, e, re, rs, ep, f))
  PROVE  hs' = [hs EXCEPT ![end][a] = State(pr, h, ck, n, e, re, rs, ep, Good)]
<1>1. [State(pr, h, ck, n, e, re, rs, ep, f) EXCEPT !.failed = Good]
        = State(pr, h, ck, n, e, re, rs, ep, Good)
  BY DEF State
<1> QED BY Zenon, <1>1 DEF Step, Good

LEMMA LastOf ==
  ASSUME NEW pr, NEW h, NEW ck, NEW n, NEW e, NEW re, NEW rs, NEW ep, NEW f, NEW x,
         IsSequence(h)
  PROVE  Written(State(pr, Append(h, x), ck, n, e, re, rs, ep, f)) = x
<1>1. State(pr, Append(h, x), ck, n, e, re, rs, ep, f).h = Append(h, x)
  BY DEF State
<1>2. Append(h, x)[Len(Append(h, x))] = x
  BY Zenon, Appended
<1> QED BY Zenon, <1>1, <1>2 DEF Written

-----------------------------------------------------------------------------
(* What the messages of the two patterns do.                               *)

LEMMA Message1Written ==
  ASSUME HandshakeInv, NEW a \in Attempt, WriteMessage1(a)
  PROVE  /\ hs["initiator"][a] = New("initiator", pattern)
         /\ hs' = [hs EXCEPT !["initiator"][a] = Sent1(pattern, a)]
         /\ wire' = wire \cup {M1(pattern, a)}
<1> DEFINE p == pattern
           s == hs["initiator"][a]
           we == WriteEphemeral(s, "initiator", a)
           es == MixKey(we, Ecdh(X(a), s.rs))
           st == WriteStatic(es, "initiator")
           ss == MixKey(st, Ecdh(Initiator, s.rs))
           ep == WriteEpoch(ss, "initiator")
<1>1. s = New("initiator", p)
  BY InitiatorCases DEF HandshakeInv, WriteMessage1
<1>2. s = State("Initial", H0(p), K0(p), 0, NoKey, NoKey, Responder, "none", Good)
      /\ s.rs = Responder
  BY <1>1, Fields DEF New
<1>3. we = State("Initial", H1(p, a), K0(p), 0, X(a), NoKey, Responder, "none", Good)
  BY <1>2, EphemeralWritten DEF H1, X
<1>4. es = State("Initial", H1(p, a), K1(p, a), 0, X(a), NoKey, Responder, "none", Good)
  BY <1>2, <1>3, Mixed DEF K1
<1>5. st = State("Initial", IHs(p, a), K1(p, a), 0 + 1, X(a), NoKey, Responder, "none", Good)
  BY <1>4, SealedText DEF WriteStatic, IHs, Initiator
<1>6. ss = State("Initial", IHs(p, a), IK2(p, a), 0, X(a), NoKey, Responder, "none", Good)
  BY <1>2, <1>5, Mixed DEF IK2
<1>7. ep = State("Initial", IH2(p, a), IK2(p, a), 1, X(a), NoKey, Responder, "none", Good)
  BY <1>6, SealedText DEF WriteEpoch, IH2, EpochOf
<1>8. /\ Done(ep, "Message1Done")
           = State("Message1Done", IH2(p, a), IK2(p, a), 1, X(a), NoKey, Responder, "none", Good)
      /\ Done(es, "Message1Done")
           = State("Message1Done", H1(p, a), K1(p, a), 0, X(a), NoKey, Responder, "none", Good)
  BY <1>4, <1>7, Advanced
<1>9. /\ Written(st) = Sealed(K1(p, a), 0, Initiator)
      /\ Written(ep) = Sealed(IK2(p, a), 0, EpochOf("initiator"))
      /\ ep.e = X(a) /\ es.e = X(a)
  BY <1>4, <1>5, <1>7, LastOf, Transcripts, Fields DEF IHs, IH2
<1>10. p = "IK" => /\ Step("initiator", a, Done(ep, "Message1Done"))
                   /\ wire' = wire \cup {[n |-> 1, e |-> ep.e, static |-> Written(st),
                                          epoch |-> Written(ep)]}
  BY DEF WriteMessage1, WriteXkMessage1, X, Initiator
<1>11. p # "IK" => /\ Step("initiator", a, Done(es, "Message1Done"))
                   /\ wire' = wire \cup {[n |-> 1, e |-> es.e]}
  BY DEF WriteMessage1, WriteXkMessage1, X, Initiator
<1> HIDE DEF p, s, we, es, st, ss, ep
<1>12. hs' = [hs EXCEPT !["initiator"][a] = Sent1(p, a)]
  <2>1. CASE p = "IK"
    BY <1>8, <1>10, <2>1, StepTo DEF Sent1
  <2>2. CASE p # "IK"
    BY <1>8, <1>11, <2>2, StepTo DEF Sent1
  <2> QED BY <2>1, <2>2
<1>13. wire' = wire \cup {M1(p, a)}
  BY <1>9, <1>10, <1>11 DEF M1
<1> QED BY <1>1, <1>12, <1>13 DEF s, p

LEMMA Message1Read ==
  ASSUME HandshakeInv, NEW b \in Attempt, NEW m \in wire, ReadMessage1(b, m)
  PROVE  /\ hs["responder"][b] = New("responder", pattern)
         /\ \E a \in Attempt : hs' = [hs EXCEPT !["responder"][b] = Had1(pattern, a)]
         /\ wire' = wire
<1> DEFINE p == pattern
           s == hs["responder"][b]
           rd == ReadEphemeral(s, m.e)
           es == MixKey(rd, Ecdh(Static("responder"), m.e))
           st == ReadStatic(es, m.static)
           ss == Then(st, MixKey(st, Ecdh(Static("responder"), st.rs)))
           ep == Then(ss, ReadEpoch(ss, m.epoch))
<1>1. s = New("responder", p)
  BY ResponderCases DEF HandshakeInv, ReadMessage1
<1>2. PICK a \in Attempt : m = M1(p, a)
  BY MessageKinds DEF HandshakeInv, MessageOK, ReadMessage1
<1>3. m.e = X(a)
  BY <1>2, MessageKinds
<1>4. s = State("Initial", H0(p), K0(p), 0, NoKey, NoKey, NoKey, "none", Good)
  BY <1>1 DEF New
<1>5. rd = State("Initial", H1(p, a), K0(p), 0, NoKey, X(a), NoKey, "none", Good)
  BY <1>3, <1>4, EphemeralRead DEF H1
<1>6. es = State("Initial", H1(p, a), K1(p, a), 0, NoKey, X(a), NoKey, "none", Good)
  BY <1>3, <1>5, Mixed, Products DEF K1
<1>7. ASSUME p = "IK"
      PROVE  ep = State("Initial", IH2(p, a), IK2(p, a), 1, NoKey, X(a), Initiator, "initiator",
                        Good)
  <2>1. m.static = Sealed(K1(p, a), 0, Initiator)
        /\ m.epoch = Sealed(IK2(p, a), 0, EpochOf("initiator"))
    BY <1>2, <1>7, MessageKinds
  <2>2. st = State("Initial", IHs(p, a), K1(p, a), 0 + 1, NoKey, X(a), Initiator, "none", Good)
    BY <1>6, <2>1, StaticRead DEF IHs
  <2>3. st.rs = Initiator
    BY <2>2, Fields
  <2>4. ss = State("Initial", IHs(p, a), IK2(p, a), 0, NoKey, X(a), Initiator, "none", Good)
    BY <2>2, <2>3, Mixed, Products, AfterFailure DEF IK2
  <2>5. ep = ReadEpoch(ss, m.epoch)
    BY <2>4, AfterFailure
  <2>6. ep = State("Initial", IH2(p, a), IK2(p, a), 0 + 1, NoKey, X(a), Initiator, "initiator",
                   Good)
    BY <2>1, <2>4, <2>5, EpochRead DEF IH2
  <2> QED BY <2>6
<1>8. Step("responder", b, Done(IF p = "IK" THEN ep ELSE es, "Message1Done")) /\ wire' = wire
  BY DEF ReadMessage1, ReadXkMessage1
<1> HIDE DEF p, s, rd, es, st, ss, ep
<1>9. hs' = [hs EXCEPT !["responder"][b] = Had1(p, a)]
  <2>1. CASE p = "IK"
    BY <1>7, <1>8, <2>1, Advanced, StepTo DEF Had1
  <2>2. CASE p # "IK"
    BY <1>6, <1>8, <2>2, Advanced, StepTo DEF Had1
  <2> QED BY <2>1, <2>2
<1> QED BY <1>1, <1>8, <1>9 DEF s, p

LEMMA Message2Written ==
  ASSUME HandshakeInv, NEW b \in Attempt, WriteMessage2(b)
  PROVE  \E a \in Attempt :
           /\ hs["responder"][b] = Had1(pattern, a)
           /\ hs' = [hs EXCEPT !["responder"][b] = Sent2(pattern, a, b)]
           /\ wire' = wire \cup {M2(pattern, a, b)}
<1> DEFINE p == pattern
           s == hs["responder"][b]
           we == WriteEphemeral(s, "responder", b)
           ee == MixKey(we, Ecdh(Y(b), s.re))
           se == MixKey(ee, Ecdh(Static("responder"), s.re))
           ep == IF p = "IK" THEN WriteEpoch(se, "responder") ELSE WriteEpoch(ee, "responder")
<1>0. Y(b) = Ephemeral("responder", b)
  BY DEF Y
<1>1. PICK a \in Attempt : s = Had1(p, a)
  BY ResponderCases DEF HandshakeInv, WriteMessage2
<1>2. s.re = X(a)
  BY <1>1, Fields DEF Had1
<1>3. /\ Step("responder", b, Done(ep, IF p = "IK" THEN "Complete" ELSE "Message2Done"))
      /\ wire' = wire \cup {[n |-> 2, e |-> ep.e, epoch |-> Written(ep)]}
  BY <1>0 DEF WriteMessage2, WriteXkMessage2, WriteIkMessage2, EphemeralsWritten
<1>4. CASE p = "IK"
  <2>1. s = State("Message1Done", IH2(p, a), IK2(p, a), 1, NoKey, X(a), Initiator, "initiator",
                  Good)
    BY <1>1, <1>4 DEF Had1
  <2>2. we = State("Message1Done", IH3(p, a, b), IK2(p, a), 1, Y(b), X(a), Initiator,
                   "initiator", Good)
    BY <1>0, <2>1, EphemeralWritten DEF IH3
  <2>3. ee = State("Message1Done", IH3(p, a, b), IK3(p, a, b), 0, Y(b), X(a), Initiator,
                   "initiator", Good)
    BY <1>2, <2>2, Mixed, Products DEF IK3
  <2>4. se = State("Message1Done", IH3(p, a, b), IK4(p, a, b), 0, Y(b), X(a), Initiator,
                   "initiator", Good)
    BY <1>2, <2>3, Mixed, Products DEF IK4
  <2>5. ep = State("Message1Done", IH4(p, a, b), IK4(p, a, b), 1, Y(b), X(a), Initiator,
                   "initiator", Good)
    BY <1>4, <2>4, SealedText DEF WriteEpoch, IH4, EpochOf
  <2>6. ep.e = Y(b) /\ Written(ep) = Sealed(IK4(p, a, b), 0, EpochOf("responder"))
    BY <2>5, LastOf, Transcripts, Fields DEF IH4
  <2> HIDE DEF p, s, we, ee, se, ep
  <2>7. hs' = [hs EXCEPT !["responder"][b] = Sent2(p, a, b)]
    BY <1>3, <1>4, <2>5, Advanced, StepTo DEF Sent2
  <2>8. wire' = wire \cup {M2(p, a, b)}
    BY <1>3, <1>4, <2>6 DEF M2
  <2> QED BY <1>1, <2>7, <2>8 DEF s, p
<1>5. CASE p # "IK"
  <2>1. s = State("Message1Done", H1(p, a), K1(p, a), 0, NoKey, X(a), NoKey, "none", Good)
    BY <1>1, <1>5 DEF Had1
  <2>2. we = State("Message1Done", XH2(p, a, b), K1(p, a), 0, Y(b), X(a), NoKey, "none", Good)
    BY <1>0, <2>1, EphemeralWritten DEF XH2
  <2>3. ee = State("Message1Done", XH2(p, a, b), XK2(p, a, b), 0, Y(b), X(a), NoKey, "none", Good)
    BY <1>2, <2>2, Mixed, Products DEF XK2
  <2>4. ep = State("Message1Done", XH3(p, a, b), XK2(p, a, b), 1, Y(b), X(a), NoKey, "none", Good)
    BY <1>5, <2>3, SealedText DEF WriteEpoch, XH3, EpochOf
  <2>5. ep.e = Y(b) /\ Written(ep) = Sealed(XK2(p, a, b), 0, EpochOf("responder"))
    BY <2>4, LastOf, Transcripts, Fields DEF XH3
  <2> HIDE DEF p, s, we, ee, se, ep
  <2>6. hs' = [hs EXCEPT !["responder"][b] = Sent2(p, a, b)]
    BY <1>3, <1>5, <2>4, Advanced, StepTo DEF Sent2
  <2>7. wire' = wire \cup {M2(p, a, b)}
    BY <1>3, <1>5, <2>5 DEF M2
  <2> QED BY <1>1, <2>6, <2>7 DEF s, p
<1> QED BY <1>4, <1>5

LEMMA Message2Read ==
  ASSUME HandshakeInv, NEW a \in Attempt, NEW m \in wire, ReadMessage2(a, m)
  PROVE  /\ hs["initiator"][a].progress = "Message1Done"
         /\ wire' = wire
         /\ \E v : /\ hs' = [hs EXCEPT !["initiator"][a] = v]
                   /\ \/ Spoiled(v, pattern)
                      \/ \E b \in Attempt : Answers(b, a) /\ v = Had2(pattern, a, b)
<1> DEFINE p == pattern
           s == hs["initiator"][a]
           rd == ReadEphemeral(s, m.e)
           ee == MixKey(rd, Ecdh(s.e, m.e))
           se == MixKey(ee, Ecdh(s.e, s.rs))
           ep == IF p = "IK" THEN ReadEpoch(se, m.epoch) ELSE ReadEpoch(ee, m.epoch)
<1>1. /\ s.progress = "Message1Done" /\ wire' = wire
      /\ Step("initiator", a, Done(ep, IF p = "IK" THEN "Complete" ELSE "Message2Done"))
  BY DEF ReadMessage2, ReadXkMessage2, ReadIkMessage2, EphemeralsRead
<1>2. PICK c \in Attempt, b \in Attempt : Answers(b, c) /\ m = M2(p, c, b)
  BY MessageKinds DEF HandshakeInv, MessageOK, ReadMessage2
<1>3. /\ m.e = Y(b)
      /\ p = "IK" => m.epoch = Sealed(IK4(p, c, b), 0, EpochOf("responder"))
      /\ p # "IK" => m.epoch = Sealed(XK2(p, c, b), 0, EpochOf("responder"))
  BY <1>2, MessageKinds
<1>4. s = Sent1(p, a) \/ Spoiled(s, p)
  BY <1>1, InitiatorCases DEF HandshakeInv
<1>5. CASE s = Sent1(p, a) /\ p = "IK"
  <2>1. s = State("Message1Done", IH2(p, a), IK2(p, a), 1, X(a), NoKey, Responder, "none", Good)
    BY <1>5 DEF Sent1
  <2>2. s.e = X(a) /\ s.rs = Responder
    BY <2>1, Fields
  <2>3. rd = State("Message1Done", IH3(p, a, b), IK2(p, a), 1, X(a), Y(b), Responder, "none", Good)
    BY <1>3, <2>1, EphemeralRead DEF IH3
  <2>4. ee = State("Message1Done", IH3(p, a, b), IK3(p, a, b), 0, X(a), Y(b), Responder, "none",
                   Good)
    BY <1>3, <2>2, <2>3, Mixed DEF IK3
  <2>5. se = State("Message1Done", IH3(p, a, b), IK4(p, a, b), 0, X(a), Y(b), Responder, "none",
                   Good)
    BY <2>2, <2>4, Mixed DEF IK4
  <2>6. ep = ReadEpoch(se, Sealed(IK4(p, c, b), 0, EpochOf("responder")))
    BY <1>3, <1>5
  <2> HIDE DEF p, s, rd, ee, se, ep
  <2>7. CASE c = a
    <3>1. ep = State("Message1Done", IH4(p, a, b), IK4(p, a, b), 0 + 1, X(a), Y(b), Responder,
                     "responder", Good)
      BY <2>5, <2>6, <2>7, EpochRead DEF IH4
    <3>2. hs' = [hs EXCEPT !["initiator"][a] = Had2(p, a, b)]
      BY <1>1, <1>5, <3>1, Advanced, StepTo DEF Had2
    <3> QED BY <1>1, <1>2, <2>7, <3>2 DEF s, p
  <2>8. CASE c # a
    <3>1. IK4(p, c, b) # IK4(p, a, b)
      BY <2>8, KeysDiffer
    <3>2. ep = State("Message1Done", IH3(p, a, b), IK4(p, a, b), 0 + 1, X(a), Y(b), Responder,
                     "none", Bad)
      BY <2>5, <2>6, <3>1, ReadRefused
    <3> DEFINE v == State("Message1Done", IH3(p, a, b), IK4(p, a, b), 0 + 1, X(a), Y(b),
                          Responder, "none", Good)
    <3>3. hs' = [hs EXCEPT !["initiator"][a] = v]
      BY <1>1, <3>2, Advanced, StepTo
    <3>4. Spoiled(v, p)
      <4>1. IsSequence(IK4(p, a, b)) /\ Len(IK4(p, a, b)) = 5
        BY Sequences
      <4>2. Message1Length(p) = 3
        BY <1>5 DEF Message1Length
      <4> QED BY SMTT(30), <4>1, <4>2 DEF Spoiled
    <3> HIDE DEF v
    <3> QED BY <1>1, <3>3, <3>4 DEF s, p
  <2> QED BY <2>7, <2>8
<1>6. CASE s = Sent1(p, a) /\ p # "IK"
  <2>1. s = State("Message1Done", H1(p, a), K1(p, a), 0, X(a), NoKey, Responder, "none", Good)
    BY <1>6 DEF Sent1
  <2>2. s.e = X(a)
    BY <2>1, Fields
  <2>3. rd = State("Message1Done", XH2(p, a, b), K1(p, a), 0, X(a), Y(b), Responder, "none", Good)
    BY <1>3, <2>1, EphemeralRead DEF XH2
  <2>4. ee = State("Message1Done", XH2(p, a, b), XK2(p, a, b), 0, X(a), Y(b), Responder, "none",
                   Good)
    BY <1>3, <2>2, <2>3, Mixed DEF XK2
  <2>5. ep = ReadEpoch(ee, Sealed(XK2(p, c, b), 0, EpochOf("responder")))
    BY <1>3, <1>6
  <2> HIDE DEF p, s, rd, ee, se, ep
  <2>6. CASE c = a
    <3>1. ep = State("Message1Done", XH3(p, a, b), XK2(p, a, b), 0 + 1, X(a), Y(b), Responder,
                     "responder", Good)
      BY <2>4, <2>5, <2>6, EpochRead DEF XH3
    <3>2. hs' = [hs EXCEPT !["initiator"][a] = Had2(p, a, b)]
      BY <1>1, <1>6, <3>1, Advanced, StepTo DEF Had2
    <3> QED BY <1>1, <1>2, <2>6, <3>2 DEF s, p
  <2>7. CASE c # a
    <3>1. XK2(p, c, b) # XK2(p, a, b)
      BY <2>7, KeysDiffer
    <3>2. ep = State("Message1Done", XH2(p, a, b), XK2(p, a, b), 0 + 1, X(a), Y(b), Responder,
                     "none", Bad)
      BY <2>4, <2>5, <3>1, ReadRefused
    <3> DEFINE v == State("Message1Done", XH2(p, a, b), XK2(p, a, b), 0 + 1, X(a), Y(b),
                          Responder, "none", Good)
    <3>3. hs' = [hs EXCEPT !["initiator"][a] = v]
      BY <1>1, <3>2, Advanced, StepTo
    <3>4. Spoiled(v, p)
      BY SMTT(30), <1>6, Sequences DEF Spoiled, Message1Length
    <3> HIDE DEF v
    <3> QED BY <1>1, <3>3, <3>4 DEF s, p
  <2> QED BY <2>6, <2>7
<1>7. CASE Spoiled(s, p)
  <2>1. PICK h, ck, n, e, re, rs, epoch :
          /\ s = State("Message1Done", h, ck, n, e, re, rs, epoch, Good)
          /\ IsSequence(ck) /\ Len(ck) > Message1Length(p)
    BY <1>7 DEF Spoiled
  <2> DEFINE x == Ecdh(s.e, Y(b))
             y == Ecdh(s.e, s.rs)
             k1 == Append(ck, x)
             k2 == Append(k1, y)
  <2>2. rd = State("Message1Done", Append(h, Y(b)), ck, n, e, Y(b), rs, epoch, Good)
    BY <1>3, <2>1, EphemeralRead
  <2>3. ee = State("Message1Done", Append(h, Y(b)), k1, 0, e, Y(b), rs, epoch, Good)
    BY <1>3, <2>2, Mixed
  <2>4. se = State("Message1Done", Append(h, Y(b)), k2, 0, e, Y(b), rs, epoch, Good)
    BY <2>3, Mixed
  <2>5. /\ IsSequence(k1) /\ Len(k1) = Len(ck) + 1 /\ Len(ck) \in Nat
        /\ IsSequence(k2) /\ Len(k2) = Len(k1) + 1
    <3> HIDE DEF x, y
    <3>1. IsSequence(k1) /\ Len(k1) = Len(ck) + 1 /\ Len(ck) \in Nat
      BY Zenon, <2>1, Appended
    <3> HIDE DEF k1
    <3> QED BY Zenon, <3>1, Appended
  <2> DEFINE k == IF p = "IK" THEN k2 ELSE k1
             key == IF p = "IK" THEN IK4(p, c, b) ELSE XK2(p, c, b)
  <2>6. ep = ReadEpoch(State("Message1Done", Append(h, Y(b)), k, 0, e, Y(b), rs, epoch, Good),
                       Sealed(key, 0, EpochOf("responder")))
    BY <1>3, <2>3, <2>4
  <2> HIDE DEF p, s, rd, ee, se, ep, x, y, k1, k2
  <2>7. Len(key) # Len(k) /\ IsSequence(k) /\ Len(k) > Message1Length(p)
    <3>1. Len(IK4(p, c, b)) = 5 /\ Len(XK2(p, c, b)) = 3
      BY Sequences
    <3>2. CASE p = "IK"
      <4>1. k = k2 /\ key = IK4(p, c, b) /\ Message1Length(p) = 3
        BY <3>2 DEF Message1Length
      <4>2. Len(key) = Len(IK4(p, c, b)) /\ Len(k) = Len(k2) /\ IsSequence(k)
        BY Zenon, <2>5, <4>1
      <4> HIDE DEF k, key
      <4>3. Len(ck) > 3
        BY <2>1, <4>1
      <4>4. Len(k2) \in Nat /\ Len(k2) > 5 /\ Len(k2) > Message1Length(p)
        BY <2>5, <4>1, <4>3
      <4>5. Len(k) \in Nat /\ Len(k) > 5 /\ Len(key) = 5 /\ Len(k) > Message1Length(p)
        BY Zenon, <3>1, <4>2, <4>4
      <4>6. \A i \in Nat : i > 5 => 5 # i
        OBVIOUS
      <4> QED BY Zenon, <4>2, <4>5, <4>6
    <3>3. CASE p # "IK"
      <4>1. k = k1 /\ key = XK2(p, c, b) /\ Message1Length(p) = 2
        BY <3>3 DEF Message1Length
      <4>2. Len(key) = Len(XK2(p, c, b)) /\ Len(k) = Len(k1) /\ IsSequence(k)
        BY Zenon, <2>5, <4>1
      <4> HIDE DEF k, key
      <4>3. Len(ck) > 2
        BY <2>1, <4>1
      <4>4. Len(k1) \in Nat /\ Len(k1) > 3 /\ Len(k1) > Message1Length(p)
        BY <2>5, <4>1, <4>3
      <4>5. Len(k) \in Nat /\ Len(k) > 3 /\ Len(key) = 3 /\ Len(k) > Message1Length(p)
        BY Zenon, <3>1, <4>2, <4>4
      <4>6. \A i \in Nat : i > 3 => 3 # i
        OBVIOUS
      <4> QED BY Zenon, <4>2, <4>5, <4>6
    <3> QED BY <3>2, <3>3
  <2> HIDE DEF k, key
  <2>8. key # k
    BY <2>7
  <2>9. ep = State("Message1Done", Append(h, Y(b)), k, 0 + 1, e, Y(b), rs, epoch, Bad)
    BY <2>6, <2>8, ReadRefused
  <2> DEFINE v == State("Message1Done", Append(h, Y(b)), k, 0 + 1, e, Y(b), rs, epoch, Good)
  <2>10. hs' = [hs EXCEPT !["initiator"][a] = v]
    BY <1>1, <2>9, Advanced, StepTo
  <2>11. Spoiled(v, p)
    BY <2>7 DEF Spoiled
  <2> HIDE DEF v
  <2> QED BY <1>1, <2>10, <2>11 DEF s, p
<1> QED BY <1>4, <1>5, <1>6, <1>7

LEMMA Message3Written ==
  ASSUME HandshakeInv, NEW a \in Attempt, WriteMessage3(a)
  PROVE  /\ hs["initiator"][a].progress = "Message2Done" /\ pattern = "XK"
         /\ \E b \in Attempt : /\ Answers(b, a)
                               /\ hs' = [hs EXCEPT !["initiator"][a] = Sent3(pattern, a, b)]
                               /\ wire' = wire \cup {M3(pattern, a, b)}
<1> DEFINE p == pattern
           s == hs["initiator"][a]
           st == WriteStatic(s, "initiator")
           se == MixKey(st, Ecdh(Initiator, s.re))
           ep == WriteEpoch(se, "initiator")
<1>1. s.progress = "Message2Done" /\ p = "XK"
  BY DEF WriteMessage3
<1>2. PICK b \in Attempt : Answers(b, a) /\ s = Had2(p, a, b)
  BY <1>1, InitiatorCases DEF HandshakeInv
<1>3. /\ Step("initiator", a, Done(ep, "Complete"))
      /\ wire' = wire \cup {[n |-> 3, static |-> Written(st), epoch |-> Written(ep)]}
  BY DEF WriteMessage3, Initiator
<1>4. s = State("Message2Done", XH3(p, a, b), XK2(p, a, b), 1, X(a), Y(b), Responder,
                "responder", Good)
  BY <1>1, <1>2 DEF Had2
<1>5. s.re = Y(b)
  BY <1>4, Fields
<1>6. st = State("Message2Done", XHs(p, a, b), XK2(p, a, b), 1 + 1, X(a), Y(b), Responder,
                 "responder", Good)
  BY <1>4, SealedText DEF WriteStatic, XHs, Initiator
<1>7. se = State("Message2Done", XHs(p, a, b), XK3(p, a, b), 0, X(a), Y(b), Responder,
                 "responder", Good)
  BY <1>5, <1>6, Mixed DEF XK3
<1>8. ep = State("Message2Done", XH4(p, a, b), XK3(p, a, b), 1, X(a), Y(b), Responder,
                 "responder", Good)
  BY <1>7, SealedText DEF WriteEpoch, XH4, EpochOf
<1>9. /\ Written(st) = Sealed(XK2(p, a, b), 1, Initiator)
      /\ Written(ep) = Sealed(XK3(p, a, b), 0, EpochOf("initiator"))
  BY <1>6, <1>8, LastOf, Transcripts DEF XHs, XH4
<1> HIDE DEF p, s, st, se, ep
<1>10. hs' = [hs EXCEPT !["initiator"][a] = Sent3(p, a, b)]
  BY <1>3, <1>8, Advanced, StepTo DEF Sent3
<1>11. wire' = wire \cup {M3(p, a, b)}
  BY <1>3, <1>9 DEF M3
<1> QED BY <1>1, <1>2, <1>10, <1>11 DEF s, p

LEMMA Message3Read ==
  ASSUME HandshakeInv, NEW b \in Attempt, NEW m \in wire, ReadMessage3(b, m)
  PROVE  /\ hs["responder"][b].progress = "Message2Done" /\ pattern = "XK"
         /\ wire' = wire
         /\ \E a \in Attempt : \E v :
              /\ hs["responder"][b].e = Y(b) /\ hs["responder"][b].re = X(a)
              /\ hs' = [hs EXCEPT !["responder"][b] = v]
              /\ \/ Ahead(v, pattern, a, b)
                 \/ Finished(a, b) /\ v = Had3(pattern, a, b)
<1> DEFINE p == pattern
           s == hs["responder"][b]
           st == ReadStatic(s, m.static)
           se == Then(st, MixKey(st, Ecdh(s.e, st.rs)))
           ep == Then(se, ReadEpoch(se, m.epoch))
<1>1. /\ s.progress = "Message2Done" /\ wire' = wire
      /\ Step("responder", b, Done(ep, "Complete"))
  BY DEF ReadMessage3
<1>2. PICK a \in Attempt : p = "XK" /\ (s = Sent2(p, a, b) \/ Ahead(s, p, a, b))
  BY <1>1, ResponderCases DEF HandshakeInv
<1>3. PICK c \in Attempt, d \in Attempt : Finished(c, d) /\ m = M3(p, c, d)
  BY MessageKinds DEF HandshakeInv, MessageOK, ReadMessage3
<1>4. /\ m.static = Sealed(XK2(p, c, d), 1, Initiator)
      /\ m.epoch = Sealed(XK3(p, c, d), 0, EpochOf("initiator"))
  BY <1>3, MessageKinds
<1>5. PICK n \in Nat :
        /\ s = State("Message2Done", XH3(p, a, b), XK2(p, a, b), n, Y(b), X(a), NoKey, "none", Good)
        /\ n >= 1
  BY <1>2 DEF Sent2, Ahead
<1>6. s.e = Y(b) /\ s.re = X(a)
  BY <1>5, Fields
<1>7. CASE n = 1 /\ c = a /\ d = b
  <2>1. st = State("Message2Done", XHs(p, a, b), XK2(p, a, b), 1 + 1, Y(b), X(a), Initiator,
                   "none", Good)
    BY <1>4, <1>5, <1>7, StaticRead DEF XHs
  <2>2. st.rs = Initiator
    BY <2>1, Fields
  <2>3. se = State("Message2Done", XHs(p, a, b), XK3(p, a, b), 0, Y(b), X(a), Initiator,
                   "none", Good)
    BY <1>6, <2>1, <2>2, Mixed, Products, AfterFailure DEF XK3
  <2>4. ep = ReadEpoch(se, m.epoch)
    BY <2>3, AfterFailure
  <2>5. ep = State("Message2Done", XH4(p, a, b), XK3(p, a, b), 0 + 1, Y(b), X(a), Initiator,
                   "initiator", Good)
    BY <1>4, <1>7, <2>3, <2>4, EpochRead DEF XH4
  <2> HIDE DEF p, s, st, se, ep
  <2>6. hs' = [hs EXCEPT !["responder"][b] = Had3(p, a, b)]
    BY <1>1, <2>5, Advanced, StepTo DEF Had3
  <2> QED BY <1>1, <1>2, <1>3, <1>6, <1>7, <2>6 DEF s, p
<1>8. CASE ~ (n = 1 /\ c = a /\ d = b)
  <2>1. XK2(p, c, d) # XK2(p, a, b) \/ 1 # n
    BY <1>8, KeysDiffer
  <2>2. st = State("Message2Done", XH3(p, a, b), XK2(p, a, b), n + 1, Y(b), X(a), NoKey, "none",
                   Bad)
    BY <1>4, <1>5, <2>1, ReadRefused
  <2>3. se = st
    BY <2>2, AfterFailure
  <2>4. ep = st
    BY <2>2, <2>3, AfterFailure
  <2> DEFINE v == State("Message2Done", XH3(p, a, b), XK2(p, a, b), n + 1, Y(b), X(a), NoKey,
                        "none", Good)
  <2> HIDE DEF p, s, st, se, ep
  <2>5. hs' = [hs EXCEPT !["responder"][b] = v]
    BY <1>1, <2>2, <2>4, Advanced, StepTo
  <2>6. Ahead(v, p, a, b)
    <3>1. n + 1 \in Nat /\ n + 1 > 1
      BY <1>5
    <3> QED BY <3>1 DEF Ahead
  <2> HIDE DEF v
  <2> QED BY Zenon, <1>1, <1>2, <1>6, <2>5, <2>6 DEF s, p
<1> QED BY <1>7, <1>8

-----------------------------------------------------------------------------
(* The invariant holds.                                                    *)

\* One state changes, and not what other states and messages rest on: an attempt
\* that completed, or the ephemeral keys of an attempt that answered.
LEMMA Kept ==
  ASSUME HandshakeInv, NEW end \in End, NEW c \in Attempt, NEW v,
         hs' = [hs EXCEPT ![end][c] = v],
         end = "initiator" => hs[end][c].progress # "Complete",
         end = "responder" => \/ hs[end][c].e = NoKey
                              \/ v.e = hs[end][c].e /\ v.re = hs[end][c].re
  PROVE  /\ Shape' /\ hs'[end][c] = v
         /\ \A d \in End, a \in Attempt : d # end \/ a # c => hs'[d][a] = hs[d][a]
         /\ \A a, b \in Attempt : Answers(b, a) => Answers(b, a)'
         /\ \A a, b \in Attempt : Finished(a, b) => Finished(a, b)'
<1>1. hs = [d \in End |-> [a \in Attempt |-> hs[d][a]]]
  BY DEF HandshakeInv, Shape
<1>2. /\ hs'[end][c] = v
      /\ \A d \in End, a \in Attempt : d # end \/ a # c => hs'[d][a] = hs[d][a]
  BY <1>1
<1>3. hs' = [d \in End |-> [a \in Attempt |-> hs'[d][a]]]
  BY <1>1
<1>4. ASSUME NEW a \in Attempt, NEW b \in Attempt, Answers(b, a) PROVE Answers(b, a)'
  <2>1. CASE end = "responder" /\ b = c
    <3>1. hs[end][c].e = Y(b)
      BY <1>4, <2>1 DEF Answers
    <3>2. v.e = hs[end][c].e /\ v.re = hs[end][c].re
      BY <2>1, <3>1, KeysKnown
    <3> QED BY <1>2, <1>4, <2>1, <3>2 DEF Answers
  <2>2. CASE ~ (end = "responder" /\ b = c)
    <3>1. hs'["responder"][b] = hs["responder"][b]
      BY <1>2, <2>2 DEF End
    <3> QED BY <1>4, <3>1 DEF Answers
  <2> QED BY <2>1, <2>2
<1>5. ASSUME NEW a \in Attempt, NEW b \in Attempt, Finished(a, b) PROVE Finished(a, b)'
  <2>1. ~ (end = "initiator" /\ a = c)
    BY <1>5 DEF Finished
  <2>2. hs'["initiator"][a] = hs["initiator"][a]
    BY <1>2, <2>1 DEF End
  <2> QED BY <1>5, <2>2 DEF Finished
<1> QED BY <1>2, <1>3, <1>4, <1>5 DEF Shape

LEMMA StateStep ==
  ASSUME HandshakeInv, NEW end \in End, NEW c \in Attempt, NEW v,
         hs' = [hs EXCEPT ![end][c] = v],
         end = "initiator" => hs[end][c].progress # "Complete",
         end = "responder" => \/ hs[end][c].e = NoKey
                              \/ v.e = hs[end][c].e /\ v.re = hs[end][c].re,
         UNCHANGED <<pattern, keys>>,
         end = "initiator" => InitiatorOK(c)',
         end = "responder" => ResponderOK(c)',
         \A m \in wire' : m \in wire \/ MessageOK(m)'
  PROVE  HandshakeInv'
<1>1. /\ Shape' /\ hs'[end][c] = v
      /\ \A d \in End, a \in Attempt : d # end \/ a # c => hs'[d][a] = hs[d][a]
      /\ \A a, b \in Attempt : Answers(b, a) => Answers(b, a)'
      /\ \A a, b \in Attempt : Finished(a, b) => Finished(a, b)'
  BY Zenon, Kept
<1>2. ASSUME NEW a \in Attempt PROVE InitiatorOK(a)'
  <2>1. CASE end = "initiator" /\ a = c
    BY <2>1
  <2>2. CASE ~ (end = "initiator" /\ a = c)
    <3>1. hs'["initiator"][a] = hs["initiator"][a] /\ pattern' = pattern
      BY <1>1, <2>2 DEF End
    <3>2. InitiatorOK(a)
      BY DEF HandshakeInv
    <3> QED BY <1>1, <3>1, <3>2 DEF InitiatorOK
  <2> QED BY <2>1, <2>2
<1>3. ASSUME NEW b \in Attempt PROVE ResponderOK(b)'
  <2>1. CASE end = "responder" /\ b = c
    BY <2>1
  <2>2. CASE ~ (end = "responder" /\ b = c)
    <3>1. hs'["responder"][b] = hs["responder"][b] /\ pattern' = pattern
      BY <1>1, <2>2 DEF End
    <3>2. ResponderOK(b)
      BY DEF HandshakeInv
    <3> QED BY <1>1, <3>1, <3>2 DEF ResponderOK
  <2> QED BY <2>1, <2>2
<1>4. ASSUME NEW m \in wire' PROVE MessageOK(m)'
  <2>1. CASE m \in wire
    <3>1. MessageOK(m)
      BY <2>1 DEF HandshakeInv
    <3> QED BY <1>1, <3>1 DEF MessageOK
  <2> QED BY <2>1
<1>5. KeysOK' /\ KeysShape'
  <2>1. keys.attempt \in Attempt /\ hs["initiator"][keys.attempt].progress = "Complete"
          => hs'["initiator"][keys.attempt] = hs["initiator"][keys.attempt]
    BY <1>1 DEF End
  <2>2. KeysOK /\ KeysShape /\ keys' = keys
    BY DEF HandshakeInv
  <2> QED BY <2>1, <2>2 DEF KeysOK, KeysShape, SendKey
<1>6. pattern' \in {"IK", "XK"}
  BY DEF HandshakeInv
<1> QED BY <1>1, <1>2, <1>3, <1>4, <1>5, <1>6 DEF HandshakeInv

LEMMA NewStatesOK ==
  ASSUME hs = [end \in End |-> [a \in Attempt |-> NewHandshake(end, pattern)]], wire = {},
         pattern \in {"IK", "XK"}
  PROVE  /\ Shape
         /\ \A a \in Attempt : InitiatorOK(a) /\ ResponderOK(a)
         /\ \A m \in wire : MessageOK(m)
<1>1. \A a \in Attempt : /\ hs["initiator"][a] = New("initiator", pattern)
                         /\ hs["responder"][a] = New("responder", pattern)
  BY FreshState DEF End
<1> QED BY <1>1 DEF Shape, InitiatorOK, ResponderOK

LEMMA HandshakeInvInit == ChannelInit => HandshakeInv
<1> SUFFICES ASSUME ChannelInit PROVE HandshakeInv
  OBVIOUS
<1>1. keys.send = <<>> /\ keys.receive = <<>> /\ KeysShape
  BY DEF ChannelInit, KeysShape
<1> QED BY <1>1, NewStatesOK DEF ChannelInit, HandshakeInv, KeysOK

LEMMA HandshakeInvHandshake ==
  ASSUME HandshakeInv, Handshake
  PROVE  HandshakeInv'
<1>0. UNCHANGED <<pattern, keys>>
  BY DEF Handshake
<1>1. ASSUME NEW a \in Attempt, WriteMessage1(a) PROVE HandshakeInv'
  <2>1. /\ hs["initiator"][a] = New("initiator", pattern)
        /\ hs' = [hs EXCEPT !["initiator"][a] = Sent1(pattern, a)]
        /\ wire' = wire \cup {M1(pattern, a)}
    BY <1>1, Message1Written
  <2>2. hs["initiator"][a].progress # "Complete"
    BY <2>1, Fields DEF New
  <2>3. hs'["initiator"][a] = Sent1(pattern, a)
    BY <2>1 DEF HandshakeInv, Shape, End
  <2>4. InitiatorOK(a)'
    BY <1>0, <2>3 DEF InitiatorOK
  <2>5. MessageOK(M1(pattern, a))'
    BY <1>0 DEF MessageOK
  <2> QED BY <1>0, <2>1, <2>2, <2>4, <2>5, StateStep DEF End
<1>2. ASSUME NEW b \in Attempt, NEW m \in wire, ReadMessage1(b, m) PROVE HandshakeInv'
  <2>1. PICK a \in Attempt :
          /\ hs["responder"][b] = New("responder", pattern)
          /\ hs' = [hs EXCEPT !["responder"][b] = Had1(pattern, a)]
          /\ wire' = wire
    BY <1>2, Message1Read
  <2>2. hs["responder"][b].e = NoKey
    BY <2>1, Fields DEF New
  <2>3. hs'["responder"][b] = Had1(pattern, a)
    BY ZenonT(60), <2>1, <2>2, Kept DEF End
  <2>4. ResponderOK(b)'
    BY <1>0, <2>3 DEF ResponderOK
  <2> QED BY <1>0, <2>1, <2>2, <2>4, StateStep DEF End
<1>3. ASSUME NEW b \in Attempt, WriteMessage2(b) PROVE HandshakeInv'
  <2>1. PICK a \in Attempt :
          /\ hs["responder"][b] = Had1(pattern, a)
          /\ hs' = [hs EXCEPT !["responder"][b] = Sent2(pattern, a, b)]
          /\ wire' = wire \cup {M2(pattern, a, b)}
    BY <1>3, Message2Written
  <2>2. hs["responder"][b].e = NoKey
    BY <2>1, Fields DEF Had1
  <2>3. hs'["responder"][b] = Sent2(pattern, a, b)
    BY ZenonT(60), <2>1, <2>2, Kept DEF End
  <2>4. ResponderOK(b)'
    BY <1>0, <2>3 DEF ResponderOK
  <2>5. Answers(b, a)'
    BY <2>3, Fields DEF Answers, Sent2
  <2>6. MessageOK(M2(pattern, a, b))'
    BY <1>0, <2>5 DEF MessageOK
  <2> QED BY <1>0, <2>1, <2>2, <2>4, <2>6, StateStep DEF End
<1>4. ASSUME NEW a \in Attempt, NEW m \in wire, ReadMessage2(a, m) PROVE HandshakeInv'
  <2>1. /\ hs["initiator"][a].progress # "Complete"
        /\ wire' = wire
    BY <1>4, Message2Read
  <2>2. PICK v : /\ hs' = [hs EXCEPT !["initiator"][a] = v]
                 /\ \/ Spoiled(v, pattern)
                    \/ \E b \in Attempt : Answers(b, a) /\ v = Had2(pattern, a, b)
    BY <1>4, Message2Read
  <2>3. /\ hs'["initiator"][a] = v
        /\ \A b \in Attempt : Answers(b, a) => Answers(b, a)'
    BY <2>1, <2>2, Kept DEF End
  <2>4. InitiatorOK(a)'
    BY <1>0, <2>2, <2>3 DEF InitiatorOK
  <2> QED BY <1>0, <2>1, <2>2, <2>4, StateStep DEF End
<1>5. ASSUME NEW a \in Attempt, WriteMessage3(a) PROVE HandshakeInv'
  <2>1. hs["initiator"][a].progress # "Complete" /\ pattern = "XK"
    BY <1>5, Message3Written
  <2>2. PICK b \in Attempt : /\ Answers(b, a)
                             /\ hs' = [hs EXCEPT !["initiator"][a] = Sent3(pattern, a, b)]
                             /\ wire' = wire \cup {M3(pattern, a, b)}
    BY <1>5, Message3Written
  <2>3. hs'["initiator"][a] = Sent3(pattern, a, b) /\ Answers(b, a)'
    BY <2>1, <2>2, Kept DEF End
  <2>4. InitiatorOK(a)'
    BY <1>0, <2>1, <2>3 DEF InitiatorOK
  <2>5. Finished(a, b)'
    BY <2>3, Fields DEF Finished, Sent3
  <2>6. MessageOK(M3(pattern, a, b))'
    BY <1>0, <2>1, <2>5 DEF MessageOK
  <2> QED BY <1>0, <2>1, <2>2, <2>4, <2>6, StateStep DEF End
<1>6. ASSUME NEW b \in Attempt, NEW m \in wire, ReadMessage3(b, m) PROVE HandshakeInv'
  <2>1. hs["responder"][b].progress = "Message2Done" /\ pattern = "XK" /\ wire' = wire
    BY <1>6, Message3Read
  <2>2. PICK a \in Attempt : \E v :
          /\ hs["responder"][b].e = Y(b) /\ hs["responder"][b].re = X(a)
          /\ hs' = [hs EXCEPT !["responder"][b] = v]
          /\ \/ Ahead(v, pattern, a, b)
             \/ Finished(a, b) /\ v = Had3(pattern, a, b)
    BY <1>6, Message3Read
  <2>3. PICK v :
          /\ hs["responder"][b].e = Y(b) /\ hs["responder"][b].re = X(a)
          /\ hs' = [hs EXCEPT !["responder"][b] = v]
          /\ \/ Ahead(v, pattern, a, b)
             \/ Finished(a, b) /\ v = Had3(pattern, a, b)
    BY <2>2
  <2>4. v.e = Y(b) /\ v.re = X(a)
    BY <2>3, Fields DEF Ahead, Had3
  <2>5. hs'["responder"][b] = v /\ (Finished(a, b) => Finished(a, b)')
    BY <2>3, <2>4, Kept DEF End
  <2>6. ResponderOK(b)'
    BY <1>0, <2>1, <2>3, <2>5 DEF ResponderOK
  <2> QED BY <1>0, <2>1, <2>3, <2>4, <2>6, StateStep DEF End
<1> QED BY <1>1, <1>2, <1>3, <1>4, <1>5, <1>6 DEF Handshake

\* What is complete at both ends, and leads from one to the other, is one handshake.
LEMMA OneHandshake ==
  ASSUME HandshakeInv, NEW a \in Attempt, NEW b \in Attempt,
         hs["initiator"][a].progress = "Complete", hs["responder"][b].progress = "Complete",
         Partners(a, b)
  PROVE  \/ pattern = "IK" /\ hs["initiator"][a] = Had2(pattern, a, b)
                           /\ hs["responder"][b] = Sent2(pattern, a, b)
         \/ pattern = "XK" /\ hs["initiator"][a] = Sent3(pattern, a, b)
                           /\ hs["responder"][b] = Had3(pattern, a, b)
<1> DEFINE i == hs["initiator"][a]
           r == hs["responder"][b]
<1>1. PICK d \in Attempt : \/ pattern = "IK" /\ i = Had2(pattern, a, d)
                           \/ pattern = "XK" /\ i = Sent3(pattern, a, d)
  BY InitiatorCases DEF HandshakeInv
<1>2. PICK c \in Attempt : \/ pattern = "IK" /\ r = Sent2(pattern, c, b)
                           \/ pattern = "XK" /\ r = Had3(pattern, c, b)
  BY ResponderCases DEF HandshakeInv
<1>3. i.e = X(a) /\ i.re = Y(d)
  BY <1>1, Fields DEF Had2, Sent3
<1>4. r.e = Y(b) /\ r.re = X(c)
  BY <1>2, Fields DEF Sent2, Had3
<1>5. d = b /\ c = a
  BY <1>3, <1>4, EphemeralsDiffer DEF Partners
<1> QED BY <1>1, <1>2, <1>5

LEMMA InvPartnersAgree == HandshakeInv => PartnersAgree
<1> SUFFICES ASSUME HandshakeInv, NEW a \in Attempt, NEW b \in Attempt,
                    hs["initiator"][a].progress = "Complete",
                    hs["responder"][b].progress = "Complete", Partners(a, b)
             PROVE  LET i == hs["initiator"][a]
                        r == hs["responder"][b]
                    IN  /\ i.ck = r.ck /\ i.h = r.h
                        /\ i.epochOf = "responder" /\ r.epochOf = "initiator"
                        /\ r.rs = Static("initiator")
  BY DEF PartnersAgree
<1>1. \/ pattern = "IK" /\ hs["initiator"][a] = Had2(pattern, a, b)
                        /\ hs["responder"][b] = Sent2(pattern, a, b)
      \/ pattern = "XK" /\ hs["initiator"][a] = Sent3(pattern, a, b)
                        /\ hs["responder"][b] = Had3(pattern, a, b)
  BY OneHandshake
<1> QED BY <1>1, Fields DEF Had2, Sent2, Sent3, Had3, Initiator

LEMMA InvNoMixedHandshake == HandshakeInv => NoMixedHandshake
<1> SUFFICES ASSUME HandshakeInv, NEW a \in Attempt
             PROVE  /\ hs["initiator"][a].progress \in {"Message2Done", "Complete"}
                         => \E b \in Attempt : Partners(a, b)
                    /\ pattern = "XK" /\ hs["responder"][a].progress = "Complete"
                         => \E b \in Attempt : /\ Partners(b, a)
                                               /\ hs["initiator"][b].progress = "Complete"
  BY DEF NoMixedHandshake
<1>1. ASSUME hs["initiator"][a].progress \in {"Message2Done", "Complete"}
      PROVE  \E b \in Attempt : Partners(a, b)
  <2>1. PICK b \in Attempt : /\ Answers(b, a)
                             /\ \/ hs["initiator"][a] = Had2(pattern, a, b)
                                \/ hs["initiator"][a] = Sent3(pattern, a, b)
    BY <1>1, InitiatorCases DEF HandshakeInv
  <2>2. hs["initiator"][a].e = X(a) /\ hs["initiator"][a].re = Y(b)
    BY <2>1, Fields DEF Had2, Sent3
  <2> QED BY <2>1, <2>2 DEF Partners, Answers
<1>2. ASSUME pattern = "XK", hs["responder"][a].progress = "Complete"
      PROVE  \E b \in Attempt : Partners(b, a) /\ hs["initiator"][b].progress = "Complete"
  <2>1. PICK b \in Attempt : Finished(b, a) /\ hs["responder"][a] = Had3(pattern, b, a)
    BY <1>2, ResponderCases DEF HandshakeInv
  <2>2. hs["responder"][a].e = Y(a) /\ hs["responder"][a].re = X(b)
    BY <2>1, Fields DEF Had3
  <2> QED BY <2>1, <2>2 DEF Partners, Finished
<1> QED BY <1>1, <1>2

\* The ciphertexts of a handshake: their keys are told apart by their length.
Ciphertexts(p) ==
  IF p = "IK"
  THEN {Sealed(K1(p, a), 0, Initiator) : a \in Attempt}
       \cup {Sealed(IK2(p, a), 0, EpochOf("initiator")) : a \in Attempt}
       \cup {Sealed(IK4(p, ab[1], ab[2]), 0, EpochOf("responder")) : ab \in Attempt \X Attempt}
  ELSE {Sealed(XK2(p, ab[1], ab[2]), 0, EpochOf("responder")) : ab \in Attempt \X Attempt}
       \cup {Sealed(XK2(p, ab[1], ab[2]), 1, Initiator) : ab \in Attempt \X Attempt}
       \cup {Sealed(XK3(p, ab[1], ab[2]), 0, EpochOf("initiator")) : ab \in Attempt \X Attempt}

LEMMA CiphertextsDiffer ==
  ASSUME NEW p, NEW c \in Ciphertexts(p), NEW d \in Ciphertexts(p),
         c.key = d.key, c.nonce = d.nonce
  PROVE  c.text = d.text
<1>1. ASSUME NEW k, NEW n, NEW t
      PROVE  /\ Sealed(k, n, t).key = k /\ Sealed(k, n, t).nonce = n
             /\ Sealed(k, n, t).text = t
  BY DEF Sealed
<1>2. CASE p = "IK"
  <2>1. ASSUME NEW x \in Ciphertexts(p)
        PROVE  \/ Len(x.key) = 2 /\ x.text = Initiator
               \/ Len(x.key) = 3 /\ x.text = EpochOf("initiator")
               \/ Len(x.key) = 5 /\ x.text = EpochOf("responder")
    BY <1>1, <1>2, <2>1, Sequences DEF Ciphertexts
  <2>2. Len(c.key) = Len(d.key)
    OBVIOUS
  <2> QED BY <2>1, <2>2
<1>3. CASE p # "IK"
  <2>1. ASSUME NEW x \in Ciphertexts(p)
        PROVE  \/ Len(x.key) = 3 /\ x.nonce = 0 /\ x.text = EpochOf("responder")
               \/ Len(x.key) = 3 /\ x.nonce = 1 /\ x.text = Initiator
               \/ Len(x.key) = 4 /\ x.nonce = 0 /\ x.text = EpochOf("initiator")
    BY <1>1, <1>3, <2>1, Sequences DEF Ciphertexts
  <2>2. Len(c.key) = Len(d.key)
    OBVIOUS
  <2> QED BY <2>1, <2>2
<1> QED BY <1>2, <1>3

LEMMA InvSealedOnce == HandshakeInv => SealedOnce
<1> SUFFICES ASSUME HandshakeInv PROVE SealedOnce
  OBVIOUS
<1> DEFINE sealed == {m.epoch : m \in {n \in wire : n.n # 1 \/ pattern = "IK"}}
                     \cup {m.static : m \in {n \in wire : n.n = 3 \/ (n.n = 1 /\ pattern = "IK")}}
<1>1. ASSUME NEW m \in wire, m.n # 1 \/ pattern = "IK"
      PROVE  m.epoch \in Ciphertexts(pattern)
  <2>1. MessageOK(m)
    BY DEF HandshakeInv
  <2>2. CASE \E a \in Attempt : m = M1(pattern, a)
    <3>1. PICK a \in Attempt : m = M1(pattern, a)
      BY <2>2
    <3>2. pattern = "IK"
      BY <1>1, <3>1 DEF M1
    <3>3. m.epoch = Sealed(IK2(pattern, a), 0, EpochOf("initiator"))
      BY <3>1, <3>2 DEF M1
    <3> QED BY <3>2, <3>3 DEF Ciphertexts
  <2>3. CASE \E a, b \in Attempt : m = M2(pattern, a, b)
    <3>1. PICK a \in Attempt, b \in Attempt : m = M2(pattern, a, b)
      BY <2>3
    <3>2. <<a, b>> \in Attempt \X Attempt /\ <<a, b>>[1] = a /\ <<a, b>>[2] = b
      OBVIOUS
    <3>3. m.epoch = Sealed(IF pattern = "IK" THEN IK4(pattern, a, b) ELSE XK2(pattern, a, b), 0,
                           EpochOf("responder"))
      BY <3>1 DEF M2
    <3> QED BY <3>2, <3>3 DEF Ciphertexts
  <2>4. CASE pattern = "XK" /\ \E a, b \in Attempt : m = M3(pattern, a, b)
    <3>1. PICK a \in Attempt, b \in Attempt : m = M3(pattern, a, b)
      BY <2>4
    <3>2. <<a, b>> \in Attempt \X Attempt /\ <<a, b>>[1] = a /\ <<a, b>>[2] = b
      OBVIOUS
    <3>3. m.epoch = Sealed(XK3(pattern, a, b), 0, EpochOf("initiator"))
      BY <3>1 DEF M3
    <3> QED BY <2>4, <3>2, <3>3 DEF Ciphertexts
  <2> QED BY <2>1, <2>2, <2>3, <2>4 DEF MessageOK
<1>2. ASSUME NEW m \in wire, m.n = 3 \/ (m.n = 1 /\ pattern = "IK")
      PROVE  m.static \in Ciphertexts(pattern)
  <2>1. MessageOK(m)
    BY DEF HandshakeInv
  <2>2. CASE \E a \in Attempt : m = M1(pattern, a)
    <3>1. PICK a \in Attempt : m = M1(pattern, a)
      BY <2>2
    <3>2. pattern = "IK"
      BY <1>2, <3>1 DEF M1
    <3>3. m.static = Sealed(K1(pattern, a), 0, Initiator)
      BY <3>1, <3>2 DEF M1
    <3> QED BY <3>2, <3>3 DEF Ciphertexts
  <2>3. CASE \E a, b \in Attempt : m = M2(pattern, a, b)
    BY <1>2, <2>3 DEF M2
  <2>4. CASE pattern = "XK" /\ \E a, b \in Attempt : m = M3(pattern, a, b)
    <3>1. PICK a \in Attempt, b \in Attempt : m = M3(pattern, a, b)
      BY <2>4
    <3>2. <<a, b>> \in Attempt \X Attempt /\ <<a, b>>[1] = a /\ <<a, b>>[2] = b
      OBVIOUS
    <3>3. m.static = Sealed(XK2(pattern, a, b), 1, Initiator)
      BY <3>1 DEF M3
    <3> QED BY <2>4, <3>2, <3>3 DEF Ciphertexts
  <2> QED BY <2>1, <2>2, <2>3, <2>4 DEF MessageOK
<1>3. ASSUME NEW c \in sealed PROVE c \in Ciphertexts(pattern)
  BY <1>1, <1>2, <1>3
<1> HIDE DEF sealed
<1>4. \A c, d \in sealed : c.key = d.key /\ c.nonce = d.nonce => c.text = d.text
  BY <1>3, CiphertextsDiffer
<1> QED BY <1>4 DEF SealedOnce, sealed

LEMMA HandshakeInvOpenSender ==
  ASSUME HandshakeInv, NEW a \in Attempt, OpenSender(a)
  PROVE  HandshakeInv'
<1>1. /\ hs["initiator"][a].progress = "Complete" /\ keys.send = <<>>
      /\ keys' = [keys EXCEPT !.send = SendKey(hs["initiator"][a]), !.attempt = a]
      /\ pattern' = pattern /\ hs' = hs /\ wire' = wire
  BY DEF OpenSender
<1>2. keys = [send |-> keys.send, receive |-> keys.receive, attempt |-> keys.attempt]
  BY DEF HandshakeInv, KeysShape
<1>3. keys' = [send |-> SendKey(hs["initiator"][a]), receive |-> keys.receive, attempt |-> a]
  BY <1>1, <1>2
<1>4. keys.receive = <<>>
  BY <1>1 DEF HandshakeInv, KeysOK
<1>5. /\ keys'.send = SendKey(hs["initiator"][a]) /\ keys'.receive = <<>> /\ keys'.attempt = a
      /\ keys' = [send |-> keys'.send, receive |-> keys'.receive, attempt |-> keys'.attempt]
  BY <1>3, <1>4
<1>6. KeysOK' /\ KeysShape'
  BY <1>1, <1>5 DEF KeysOK, KeysShape
<1>7. \A b \in Attempt : InitiatorOK(b)' /\ ResponderOK(b)'
  BY <1>1 DEF HandshakeInv, InitiatorOK, ResponderOK, Answers, Finished
<1>8. \A m \in wire' : MessageOK(m)'
  BY <1>1 DEF HandshakeInv, MessageOK, Answers, Finished
<1> QED BY <1>1, <1>6, <1>7, <1>8 DEF HandshakeInv, Shape

LEMMA HandshakeInvOpenReceiver ==
  ASSUME HandshakeInv, NEW b \in Attempt, OpenReceiver(b)
  PROVE  HandshakeInv'
<1>1. /\ hs["responder"][b].progress = "Complete"
      /\ keys.send # <<>> /\ keys.receive = <<>> /\ Partners(keys.attempt, b)
      /\ keys' = [keys EXCEPT !.receive = ReceiveKey(hs["responder"][b])]
      /\ hs' = [end \in End |-> [a \in Attempt |-> NewHandshake(end, pattern)]]
      /\ wire' = {} /\ pattern' = pattern
  BY DEF OpenReceiver
<1>2. /\ keys.attempt \in Attempt
      /\ hs["initiator"][keys.attempt].progress = "Complete"
      /\ keys.send = SendKey(hs["initiator"][keys.attempt])
  BY <1>1 DEF HandshakeInv, KeysOK
<1>3. hs["initiator"][keys.attempt].ck = hs["responder"][b].ck
  BY <1>1, <1>2, InvPartnersAgree DEF PartnersAgree
<1>4. ReceiveKey(hs["responder"][b]) = keys.send
  BY <1>2, <1>3 DEF SendKey, ReceiveKey
<1>5. keys = [send |-> keys.send, receive |-> keys.receive, attempt |-> keys.attempt]
  BY DEF HandshakeInv, KeysShape
<1>6. keys' = [send |-> keys.send, receive |-> keys.send, attempt |-> keys.attempt]
  BY <1>1, <1>4, <1>5
<1>10. /\ keys'.send = keys.send /\ keys'.receive = keys.send
       /\ keys' = [send |-> keys'.send, receive |-> keys'.receive, attempt |-> keys'.attempt]
  BY <1>6
<1>7. KeysOK' /\ KeysShape'
  BY <1>1, <1>10 DEF KeysOK, KeysShape
<1>8. \A a \in Attempt : /\ hs'["initiator"][a] = New("initiator", pattern)
                         /\ hs'["responder"][a] = New("responder", pattern)
  BY <1>1, FreshState DEF End
<1>9. Shape' /\ \A a \in Attempt : InitiatorOK(a)' /\ ResponderOK(a)'
  BY <1>1, <1>8 DEF Shape, InitiatorOK, ResponderOK
<1> QED BY <1>1, <1>7, <1>9 DEF HandshakeInv

LEMMA HandshakeInvUnchanged ==
  ASSUME HandshakeInv, UNCHANGED handshakeVars
  PROVE  HandshakeInv'
<1>1. pattern' = pattern /\ hs' = hs /\ wire' = wire /\ keys' = keys
  BY DEF handshakeVars
<1>2. KeysOK' /\ KeysShape' /\ Shape'
  BY <1>1 DEF HandshakeInv, KeysOK, KeysShape, Shape
<1>3. \A b \in Attempt : InitiatorOK(b)' /\ ResponderOK(b)'
  BY <1>1 DEF HandshakeInv, InitiatorOK, ResponderOK, Answers, Finished
<1>4. \A m \in wire' : MessageOK(m)'
  BY <1>1 DEF HandshakeInv, MessageOK, Answers, Finished
<1> QED BY <1>1, <1>2, <1>3, <1>4 DEF HandshakeInv

LEMMA HandshakeInvNext ==
  ASSUME HandshakeInv, [ChannelNext]_<<handshakeVars, transportVars>>
  PROVE  HandshakeInv'
<1>1. CASE Handshake
  BY <1>1, HandshakeInvHandshake
<1>2. ASSUME NEW a \in Attempt, OpenSender(a) PROVE HandshakeInv'
  BY <1>2, HandshakeInvOpenSender
<1>3. ASSUME NEW a \in Attempt, OpenReceiver(a) PROVE HandshakeInv'
  BY <1>3, HandshakeInvOpenReceiver
<1>4. CASE SendFrame
  BY <1>4, HandshakeInvUnchanged DEF SendFrame
<1>5. ASSUME NEW c \in Counter, NEW genuine \in BOOLEAN, ReceiveFrame(c, genuine)
      PROVE  HandshakeInv'
  BY <1>5, HandshakeInvUnchanged DEF ReceiveFrame
<1>6. CASE UNCHANGED <<handshakeVars, transportVars>>
  BY <1>6, HandshakeInvUnchanged
<1> QED BY <1>1, <1>2, <1>3, <1>4, <1>5, <1>6 DEF ChannelNext

\* To the transport, a step of the channel is a step of the session or none: a frame
\* is opened with the key that sealed it.
LEMMA TransportStep ==
  ASSUME HandshakeInv, [ChannelNext]_<<handshakeVars, transportVars>>
  PROVE  [Next]_vars
<1>1. CASE Handshake
  BY <1>1 DEF Handshake, transportVars, vars
<1>2. ASSUME NEW a \in Attempt, OpenSender(a) \/ OpenReceiver(a) PROVE UNCHANGED vars
  BY <1>2 DEF OpenSender, OpenReceiver, transportVars, vars
<1>3. CASE SendFrame
  BY <1>3 DEF SendFrame, Next
<1>4. ASSUME NEW c \in Counter, NEW genuine \in BOOLEAN, ReceiveFrame(c, genuine)
      PROVE  Next
  <2>1. keys.receive = keys.send
    BY <1>4 DEF ReceiveFrame, HandshakeInv, KeysOK
  <2>2. Receive(c, genuine)
    BY <1>4, <2>1 DEF ReceiveFrame
  <2> QED BY <2>2 DEF Next
<1>5. CASE UNCHANGED <<handshakeVars, transportVars>>
  BY <1>5 DEF transportVars, vars
<1> QED BY <1>1, <1>2, <1>3, <1>4, <1>5 DEF ChannelNext

-----------------------------------------------------------------------------
(* The theorems.                                                           *)

LEMMA HandshakeInvariant == ChannelSpec => []HandshakeInv
<1>1. HandshakeInv /\ [ChannelNext]_<<handshakeVars, transportVars>> => HandshakeInv'
  BY HandshakeInvNext
<1> QED BY HandshakeInvInit, <1>1, PTL DEF ChannelSpec

\* The two ends of a completed handshake have the same keys and transcript and know
\* each other, however many attempts ran beside it and whatever the parity of their
\* keys.
THEOREM CompletedEndsAgree == ChannelSpec => []PartnersAgree
BY HandshakeInvariant, InvPartnersAgree, PTL

\* No message of another attempt and no half-changed state completes a handshake.
THEOREM HandshakesAreNotMixed == ChannelSpec => []NoMixedHandshake
BY HandshakeInvariant, InvNoMixedHandshake, PTL

\* A key and a nonce seal one text, message 3 of XK included.
THEOREM NoncesAreNotReused == ChannelSpec => []SealedOnce
BY HandshakeInvariant, InvSealedOnce, PTL

\* The replay window stays exact in a session that begins with a handshake.
THEOREM ChannelWindowIsExact ==
  ASSUME Wide
  PROVE  ChannelSpec => []WindowExact
<1>1. ChannelInit => IndInv
  BY InitIndInv DEF ChannelInit
<1>2. HandshakeInv /\ IndInv /\ [ChannelNext]_<<handshakeVars, transportVars>> => IndInv'
  BY TransportStep, NextIndInv
<1>3. IndInv => WindowExact
  BY ExactIsWindowExact DEF IndInv
<1> QED BY HandshakeInvariant, <1>1, <1>2, <1>3, PTL DEF ChannelSpec

\* From the first message of the handshake on, the session keeps the promise of
\* OnceDelivery: each step is one of its steps, or none.
THEOREM ChannelImplementsOnceDelivery ==
  ASSUME Wide
  PROVE  ChannelSpec => ImplementsOnceDelivery
<1>1. ChannelInit => IndInv /\ Once!Init
  <2>1. Init => Once!Init
    BY CounterAssumption DEF Init, Once!Init, Once!NoFrame, Once!Counter, Counter
  <2> QED BY <2>1, InitIndInv DEF ChannelInit
<1>2. HandshakeInv /\ IndInv /\ [ChannelNext]_<<handshakeVars, transportVars>>
        => IndInv' /\ [Once!Next]_(Once!vars)
  BY TransportStep, NextIndInv, StepSimulation
<1> QED BY HandshakeInvariant, <1>1, <1>2, PTL DEF ChannelSpec, ImplementsOnceDelivery, Once!Spec

=============================================================================
