---------------------------- MODULE TimersProofs ----------------------------
(***************************************************************************)
(* Proofs about the timer wheel, for any number and size of its levels:    *)
(* no timer is overdue at rest, and the wheel implements TimerService.     *)
(*                                                                         *)
(* Slots are quotients and remainders by powers of two.  The arithmetic    *)
(* that this needs comes first: division, powers of two as the numbers of  *)
(* subsets, signed differences of wrapping words (Offset), and when a slot *)
(* of a level is reached.  The invariant then says that every index        *)
(* follows the tick, that every timer is in a list the wheel empties at    *)
(* its tick or moves down before it, and how far the DPC and the clock are *)
(* apart; each step keeps it.                                              *)
(***************************************************************************)
EXTENDS Timers, FiniteSetTheorems, FunctionTheorems, NaturalsInduction, WellFoundedInduction, TLAPS

-----------------------------------------------------------------------------
(* Quotients and remainders.                                               *)

\* What div and % are.
LEMMA Division ==
  ASSUME NEW a \in Int, NEW b \in Nat \ {0}
  PROVE  /\ a % b \in 0 .. (b - 1) /\ a \div b \in Int
         /\ a = (b * (a \div b)) + (a % b)
OBVIOUS

\* And nothing else is.
LEMMA DivisionUnique ==
  ASSUME NEW a \in Int, NEW b \in Nat \ {0}, NEW q \in Int, NEW r \in 0 .. (b - 1), a = (b * q) + r
  PROVE  a % b = r /\ a \div b = q
OBVIOUS

\* Multiples of the divisor do not change the remainder.
LEMMA SameRemainder ==
  ASSUME NEW c \in Int, NEW m \in Nat \ {0}, NEW k \in Int
  PROVE  (c + (m * k)) % m = c % m
<1> DEFINE q == c \div m
           r == c % m
           a == c + (m * k)
<1>1. q \in Int /\ r \in 0 .. (m - 1) /\ c = (m * q) + r BY Division
<1> HIDE DEF q, r
<1>2. a \in Int /\ a = (m * (q + k)) + r BY <1>1
<1>3. q + k \in Int /\ r \in 0 .. (m - 1) BY <1>1
<1> HIDE DEF a
<1>4. a % m = r BY <1>2, <1>3, DivisionUnique
<1> QED BY <1>4 DEF a, r

\* A multiple of b below b is 0.
LEMMA SmallMultiple ==
  ASSUME NEW b \in Nat \ {0}, NEW k \in Int, NEW a \in Int, a = b * k, 0 <= a, a < b
  PROVE  k = 0 /\ a = 0
<1>1. CASE k >= 1
  <2>1. b * k >= b * 1 BY <1>1
  <2> QED BY <2>1
<1>2. CASE k <= -1
  <2>1. b * k <= b * (-1) BY <1>2
  <2> QED BY <2>1
<1> QED BY <1>1, <1>2

\* A number in the first turn of a word, in the one before it or after it.
LEMMA OneTurn ==
  ASSUME NEW a \in Int, NEW m \in Nat \ {0}
  PROVE  /\ 0 <= a /\ a < m => a % m = a
         /\ m <= a /\ a < 2 * m => a % m = a - m
         /\ -m <= a /\ a < 0 => a % m = a + m
OBVIOUS

-----------------------------------------------------------------------------
(* Powers of two, as the numbers of subsets.                               *)

\* A power of two is a positive number.
LEMMA PowerNat ==
  ASSUME NEW n \in Nat
  PROVE  2 ^ n \in Nat \ {0}
<1>1. IsFiniteSet(1 .. n) /\ Cardinality(1 .. n) = n BY FS_Interval
<1>2. IsFiniteSet(SUBSET (1 .. n)) /\ Cardinality(SUBSET (1 .. n)) = 2 ^ n BY <1>1, FS_SUBSET
<1>3. {} \in SUBSET (1 .. n) OBVIOUS
<1> QED BY <1>2, <1>3, FS_CardinalityType, FS_EmptySet

\* A subset of 1 .. a + b is a subset of 1 .. a and one of the rest.
LEMMA PowerSum ==
  ASSUME NEW a \in Nat, NEW b \in Nat
  PROVE  2 ^ (a + b) = 2 ^ a * 2 ^ b
<1> DEFINE A == 1 .. a
           B == (a + 1) .. (a + b)
           S == 1 .. (a + b)
           P == (SUBSET A) \X (SUBSET B)
           f == [p \in P |-> p[1] \cup p[2]]
<1>1. IsFiniteSet(A) /\ Cardinality(A) = a BY FS_Interval
<1>2. IsFiniteSet(B) /\ Cardinality(B) = b
  <2>1. IsFiniteSet(B) /\ Cardinality(B) = IF a + 1 > a + b THEN 0 ELSE (a + b) - (a + 1) + 1 BY FS_Interval
  <2> QED BY <2>1
<1>3. IsFiniteSet(S) /\ Cardinality(S) = a + b
  <2>1. a + b \in Nat OBVIOUS
  <2> HIDE DEF S
  <2>2. IsFiniteSet(S) /\ Cardinality(S) = IF 1 > a + b THEN 0 ELSE (a + b) - 1 + 1 BY <2>1, FS_Interval DEF S
  <2> QED BY <2>1, <2>2
<1>4. S = A \cup B /\ A \cap B = {} OBVIOUS
<1>5. /\ IsFiniteSet(SUBSET A) /\ Cardinality(SUBSET A) = 2 ^ a
      /\ IsFiniteSet(SUBSET B) /\ Cardinality(SUBSET B) = 2 ^ b
      /\ IsFiniteSet(SUBSET S) /\ Cardinality(SUBSET S) = 2 ^ (a + b)
  BY <1>1, <1>2, <1>3, FS_SUBSET
<1> HIDE DEF A, B, S
<1>6. IsFiniteSet(P) /\ Cardinality(P) = 2 ^ a * 2 ^ b
  <2>1. IsFiniteSet(P) /\ Cardinality(P) = Cardinality(SUBSET A) * Cardinality(SUBSET B)
    BY <1>5, FS_Product, Zenon
  <2> QED BY <1>5, <2>1
<1>7. f \in [P -> SUBSET S] BY <1>4
<1>8. ASSUME NEW p \in P, NEW q \in P, f[p] = f[q] PROVE p = q
  <2>1. p[1] \cup p[2] = q[1] \cup q[2] BY <1>8
  <2>2. p[1] = q[1] /\ p[2] = q[2] BY <2>1, <1>4
  <2> QED BY <2>2
<1>9. ASSUME NEW x \in SUBSET S PROVE \E p \in P : f[p] = x
  <2>1. <<x \cap A, x \cap B>> \in P OBVIOUS
  <2>2. f[<<x \cap A, x \cap B>>] = x BY <1>4, <2>1
  <2> QED BY <2>1, <2>2
<1>10. f \in Bijection(P, SUBSET S) BY <1>7, <1>8, <1>9, Fun_IsBij
<1>11. ExistsBijection(P, SUBSET S) BY <1>10 DEF ExistsBijection
<1>12. Cardinality(SUBSET S) = Cardinality(P) BY <1>6, <1>11, FS_Bijection
<1> QED BY <1>5, <1>6, <1>12

\* The first two.
LEMMA PowerFirst == 2 ^ 0 = 1 /\ 2 ^ 1 = 2
OBVIOUS

-----------------------------------------------------------------------------
(* The levels of the wheel.                                                *)

\* Ticks that a slot of level n covers.
Unit(n) == 2 ^ Shift(n)

\* A turn of a word, and half of it.
M == 2 ^ W
Half == 2 ^ (W - 1)

\* The sizes are numbers greater than 1.
LEMMA SizeNat ==
  /\ NOOF_TVECS \in Nat /\ NOOF_TVECS >= 2
  /\ TVR_SIZE \in Nat /\ TVR_SIZE >= 2 /\ TVN_SIZE \in Nat /\ TVN_SIZE >= 2
  /\ \A n \in Levels : Size(n) \in Nat /\ Size(n) >= 2
<1>1. ASSUME NEW n \in Nat \ {0} PROVE 2 ^ n \in Nat /\ 2 ^ n >= 2
  <2>0. n - 1 \in Nat OBVIOUS
  <2>1. 2 ^ (1 + (n - 1)) = 2 ^ 1 * 2 ^ (n - 1) BY <2>0, PowerSum
  <2>2. 1 + (n - 1) = n OBVIOUS
  <2>3. 2 ^ (n - 1) \in Nat \ {0} BY <2>0, PowerNat
  <2> QED BY <2>1, <2>2, <2>3, PowerFirst
<1>2. TVR_SIZE \in Nat /\ TVR_SIZE >= 2 /\ TVN_SIZE \in Nat /\ TVN_SIZE >= 2
  BY <1>1, WheelAssumption DEF TVR_SIZE, TVN_SIZE
<1> QED BY <1>2, WheelAssumption DEF Size

\* Shifts are numbers, and ascend with the levels up to the width of a word.
LEMMA ShiftNat ==
  /\ W \in Nat /\ W >= 2
  /\ \A n \in Levels : Shift(n) \in Nat
  /\ \A m, n \in Levels : m <= n => \E k \in Nat : Shift(n) = Shift(m) + k
  /\ \A n \in Levels \ {NOOF_TVECS} :
       n + 1 \in Levels /\ Shift(n + 1) = Shift(n) + (IF n = 1 THEN TVR_BITS ELSE TVN_BITS)
  /\ W = Shift(NOOF_TVECS) + TVN_BITS
<1> DEFINE R == TVR_BITS
           V == TVN_BITS
           N == NOOF_TVECS
<1>0. R \in Nat /\ R >= 1 /\ V \in Nat /\ V >= 1 /\ N \in Nat /\ N >= 2 BY WheelAssumption
<1>1. W = R + (N - 1) * V BY DEF W
<1>2. \A n \in Levels : Shift(n) = IF n = 1 THEN 0 ELSE R + (n - 2) * V BY DEF Shift
<1>3. \A n \in Levels : n \in Nat /\ n >= 1 /\ n <= N BY <1>0 DEF Levels
<1> HIDE DEF R, V, N
<1>4. \A k \in Nat : k * V \in Nat BY <1>0
<1>5. W \in Nat /\ W >= 2
  <2>1. (N - 1) * V = V + (N - 2) * V BY <1>0
  <2>2. N - 2 \in Nat BY <1>0
  <2>3. (N - 2) * V \in Nat BY <1>4, <2>2
  <2> QED BY <1>0, <1>1, <2>1, <2>3
<1>6. ASSUME NEW n \in Levels PROVE Shift(n) \in Nat
  <2>1. CASE n = 1 BY <2>1, <1>2
  <2>2. CASE n # 1
    <3>1. n - 2 \in Nat BY <1>3, <2>2
    <3>2. (n - 2) * V \in Nat BY <1>4, <3>1
    <3> QED BY <1>0, <1>2, <2>2, <3>2
  <2> QED BY <2>1, <2>2
<1>7. ASSUME NEW m \in Levels, NEW n \in Levels, m <= n PROVE \E k \in Nat : Shift(n) = Shift(m) + k
  <2>1. CASE m = 1
    <3>1. Shift(n) = Shift(m) + Shift(n) BY <1>2, <1>6, <2>1
    <3> QED BY <1>6, <3>1
  <2>2. CASE m # 1
    <3>1. n - m \in Nat /\ n # 1 BY <1>3, <1>7, <2>2
    <3>2. (n - m) * V \in Nat BY <1>4, <3>1
    <3>3. (n - 2) * V = (m - 2) * V + (n - m) * V BY <1>0, <1>3
    <3>4. (m - 2) * V \in Int BY <1>0, <1>3
    <3>5. Shift(n) = Shift(m) + (n - m) * V BY <1>0, <1>2, <2>2, <3>1, <3>2, <3>3, <3>4
    <3> QED BY <3>2, <3>5
  <2> QED BY <2>1, <2>2
<1>8. ASSUME NEW n \in Levels \ {N}
      PROVE  n + 1 \in Levels /\ Shift(n + 1) = Shift(n) + (IF n = 1 THEN R ELSE V)
  <2>1. n + 1 \in Levels BY <1>0, <1>3 DEF Levels, N
  <2>2. CASE n = 1
    <3>1. Shift(2) = R + (2 - 2) * V BY <2>1, <2>2, <1>2
    <3> QED BY <1>0, <1>2, <2>1, <2>2, <3>1
  <2>3. CASE n # 1
    <3>1. Shift(n + 1) = R + ((n + 1) - 2) * V BY <1>2, <1>3, <2>1, <2>3
    <3>2. ((n + 1) - 2) * V = (n - 2) * V + V BY <1>0, <1>3
    <3>3. (n - 2) * V \in Int BY <1>0, <1>3
    <3> QED BY <1>0, <1>2, <2>1, <2>3, <3>1, <3>2, <3>3
  <2> QED BY <2>1, <2>2, <2>3
<1>9. W = Shift(N) + V
  <2>1. N \in Levels /\ N # 1 BY <1>0 DEF Levels, N
  <2>2. Shift(N) = R + (N - 2) * V BY <1>2, <2>1
  <2>3. (N - 1) * V = (N - 2) * V + V /\ (N - 2) * V \in Int BY <1>0
  <2> QED BY <1>0, <1>1, <2>2, <2>3
<1> QED BY <1>5, <1>6, <1>7, <1>8, <1>9 DEF R, V, N

\* A slot of the next level covers one turn of this one, the last level turns
\* with the word, and a coarser unit is a multiple of a finer one.
LEMMA Units ==
  /\ M \in Nat \ {0} /\ Half \in Nat \ {0} /\ M = 2 * Half /\ Half >= 2
  /\ Unit(1) = 1
  /\ \A n \in Levels : Unit(n) \in Nat \ {0} /\ Unit(n) <= Half
  /\ \A n \in Levels \ {NOOF_TVECS} : n + 1 \in Levels /\ Unit(n + 1) = Unit(n) * Size(n)
  /\ M = Unit(NOOF_TVECS) * Size(NOOF_TVECS)
  /\ \A m, n \in Levels : m <= n => \E k \in Nat \ {0} : Unit(n) = Unit(m) * k
<1>1. W \in Nat /\ W >= 2 /\ W - 1 \in Nat /\ W - 2 \in Nat BY ShiftNat
<1>2. M \in Nat \ {0} /\ Half \in Nat \ {0} BY <1>1, PowerNat DEF M, Half
<1>3. M = 2 * Half
  <2>1. 2 ^ (1 + (W - 1)) = 2 ^ 1 * 2 ^ (W - 1) BY <1>1, PowerSum
  <2>2. 1 + (W - 1) = W BY <1>1
  <2> QED BY <2>1, <2>2, PowerFirst DEF M, Half
<1>4. Half >= 2
  <2>1. 2 ^ (1 + (W - 2)) = 2 ^ 1 * 2 ^ (W - 2) BY <1>1, PowerSum
  <2>2. 1 + (W - 2) = W - 1 BY <1>1
  <2>3. 2 ^ (W - 2) \in Nat \ {0} BY <1>1, PowerNat
  <2> QED BY <2>1, <2>2, <2>3, PowerFirst DEF Half
<1>5. Unit(1) = 1 BY PowerFirst DEF Unit, Shift
<1>6. \A n \in Levels : Unit(n) \in Nat \ {0} BY ShiftNat, PowerNat DEF Unit
<1>7. \A n \in Levels \ {NOOF_TVECS} : n + 1 \in Levels /\ Unit(n + 1) = Unit(n) * Size(n)
  <2> TAKE n \in Levels \ {NOOF_TVECS}
  <2> DEFINE b == IF n = 1 THEN TVR_BITS ELSE TVN_BITS
  <2>1. b \in Nat /\ Shift(n) \in Nat BY ShiftNat, WheelAssumption
  <2>2. 2 ^ (Shift(n) + b) = 2 ^ Shift(n) * 2 ^ b BY <2>1, PowerSum
  <2>3. 2 ^ b = Size(n) BY DEF Size, TVR_SIZE, TVN_SIZE
  <2> HIDE DEF b
  <2>4. Shift(n + 1) = Shift(n) + b /\ n + 1 \in Levels BY ShiftNat DEF b
  <2> QED BY <2>2, <2>3, <2>4 DEF Unit
<1>8. M = Unit(NOOF_TVECS) * Size(NOOF_TVECS)
  <2>1. NOOF_TVECS \in Levels /\ NOOF_TVECS # 1 BY WheelAssumption DEF Levels
  <2>2. Shift(NOOF_TVECS) \in Nat /\ TVN_BITS \in Nat BY <2>1, ShiftNat, WheelAssumption
  <2>3. 2 ^ (Shift(NOOF_TVECS) + TVN_BITS) = 2 ^ Shift(NOOF_TVECS) * 2 ^ TVN_BITS BY <2>2, PowerSum
  <2>4. W = Shift(NOOF_TVECS) + TVN_BITS BY ShiftNat
  <2> QED BY <2>1, <2>3, <2>4 DEF M, Unit, Size, TVN_SIZE
<1>9. ASSUME NEW m \in Levels, NEW n \in Levels, m <= n
      PROVE  \E k \in Nat \ {0} : Unit(n) = Unit(m) * k
  <2>1. PICK j \in Nat : Shift(n) = Shift(m) + j BY <1>9, ShiftNat
  <2>2. Shift(m) \in Nat BY ShiftNat
  <2>3. 2 ^ (Shift(m) + j) = 2 ^ Shift(m) * 2 ^ j BY <2>2, PowerSum
  <2>4. 2 ^ j \in Nat \ {0} BY PowerNat
  <2> QED BY <2>1, <2>3, <2>4 DEF Unit
<1>10. ASSUME NEW n \in Levels PROVE Unit(n) <= Half
  <2>1. NOOF_TVECS \in Levels /\ n <= NOOF_TVECS BY WheelAssumption DEF Levels
  <2>2. PICK k \in Nat \ {0} : Unit(NOOF_TVECS) = Unit(n) * k BY <1>9, <2>1
  <2>3. Unit(NOOF_TVECS) >= Unit(n) BY <1>6, <2>1, <2>2
  <2>4. Size(NOOF_TVECS) \in Nat /\ Size(NOOF_TVECS) >= 2 BY <2>1, SizeNat
  <2>5. M >= 2 * Unit(NOOF_TVECS)
    <3> DEFINE u == Unit(NOOF_TVECS)
               s == Size(NOOF_TVECS)
    <3>1. u \in Nat BY <1>6, <2>1
    <3> HIDE DEF u, s
    <3>2. u * s >= u * 2 BY <2>4, <3>1 DEF s
    <3> QED BY <1>8, <3>1, <3>2 DEF u, s
  <2> QED BY <1>2, <1>3, <1>6, <2>1, <2>3, <2>5
<1> QED BY <1>2, <1>3, <1>4, <1>5, <1>6, <1>7, <1>8, <1>9, <1>10

-----------------------------------------------------------------------------
(* Words, and how far one is ahead of another.                             *)

\* How far x is ahead of y, as attach_timer and run_timer_list take it.
Offset(x, y) == Signed(Minus(x, y))

\* Within half a turn, an offset leads from one word to the other.
LEMMA OffsetFacts ==
  ASSUME NEW x \in Words, NEW y \in Words
  PROVE  /\ Offset(x, y) \in Int /\ -Half <= Offset(x, y) /\ Offset(x, y) < Half
         /\ \E j \in {-1, 0, 1} : x = y + Offset(x, y) + (M * j)
         /\ Minus(x, y) = IF Offset(x, y) < 0 THEN Offset(x, y) + M ELSE Offset(x, y)
<1>1. M \in Nat \ {0} /\ Half \in Nat \ {0} /\ M = 2 * Half BY Units
<1>2. x \in 0 .. (M - 1) /\ y \in 0 .. (M - 1) BY DEF Words, M
<1>3. Minus(x, y) = IF x < y THEN (x - y) + M ELSE x - y
  <2>1. Minus(x, y) = (x - y) % M BY DEF Minus, M
  <2> DEFINE a == x - y
  <2>2. a \in Int /\ -M <= a /\ a < M /\ (a < 0 <=> x < y) BY <1>1, <1>2
  <2> HIDE DEF a
  <2>3. a % M = IF a < 0 THEN a + M ELSE a
    <3>1. CASE a < 0 BY <1>1, <2>2, <3>1, OneTurn
    <3>2. CASE 0 <= a BY <1>1, <2>2, <3>2, OneTurn
    <3> QED BY <2>2, <3>1, <3>2
  <2> QED BY <2>1, <2>2, <2>3 DEF a
<1>4. Offset(x, y) = IF Minus(x, y) < Half THEN Minus(x, y) ELSE Minus(x, y) - M
  BY DEF Offset, Signed, Half, M
<1>5. CASE x < y
  <2>1. CASE (x - y) + M < Half
    <3>1. Offset(x, y) = (x - y) + M BY <1>3, <1>4, <1>5, <2>1
    <3>2. x = y + Offset(x, y) + (M * (-1)) BY <1>1, <1>2, <3>1
    <3> QED BY <1>1, <1>2, <1>3, <1>5, <2>1, <3>1, <3>2
  <2>2. CASE (x - y) + M >= Half
    <3>1. Offset(x, y) = x - y BY <1>1, <1>2, <1>3, <1>4, <1>5, <2>2
    <3>2. x = y + Offset(x, y) + (M * 0) BY <1>1, <1>2, <3>1
    <3> QED BY <1>1, <1>2, <1>3, <1>5, <2>2, <3>1, <3>2
  <2> QED BY <1>1, <1>2, <2>1, <2>2
<1>6. CASE x >= y
  <2>1. CASE x - y < Half
    <3>1. Offset(x, y) = x - y BY <1>1, <1>2, <1>3, <1>4, <1>6, <2>1
    <3>2. x = y + Offset(x, y) + (M * 0) BY <1>1, <1>2, <3>1
    <3> QED BY <1>1, <1>2, <1>3, <1>6, <2>1, <3>1, <3>2
  <2>2. CASE x - y >= Half
    <3>1. Offset(x, y) = (x - y) - M BY <1>1, <1>2, <1>3, <1>4, <1>6, <2>2
    <3>2. x = y + Offset(x, y) + (M * 1) BY <1>1, <1>2, <3>1
    <3> QED BY <1>1, <1>2, <1>3, <1>6, <2>2, <3>1, <3>2
  <2> QED BY <1>1, <1>2, <2>1, <2>2
<1> QED BY <1>2, <1>5, <1>6

\* It is the only one.
LEMMA OffsetIs ==
  ASSUME NEW x \in Words, NEW y \in Words, NEW k \in Int, -Half <= k, k < Half,
         x = y + k \/ x = y + k + M \/ x = y + k - M
  PROVE  Offset(x, y) = k
<1>1. M \in Nat \ {0} /\ Half \in Nat \ {0} /\ M = 2 * Half BY Units
<1>2. x \in 0 .. (M - 1) /\ y \in 0 .. (M - 1) BY DEF Words, M
<1> DEFINE o == Offset(x, y)
<1>3. o \in Int /\ -Half <= o /\ o < Half BY OffsetFacts
<1>4. x = y + o \/ x = y + o + M \/ x = y + o - M
  <2>1. PICK j \in {-1, 0, 1} : x = y + o + (M * j) BY OffsetFacts
  <2>2. M * (-1) = -M /\ M * 0 = 0 /\ M * 1 = M BY <1>1
  <2> HIDE DEF o
  <2>3. j = -1 \/ j = 0 \/ j = 1 OBVIOUS
  <2> QED BY <1>1, <1>2, <1>3, <2>1, <2>2, <2>3
<1> HIDE DEF o
<1>5. o = k BY <1>1, <1>2, <1>3, <1>4
<1> QED BY <1>5 DEF o

\* Counting on from a word by less than half a turn.
LEMMA Onward ==
  ASSUME NEW y \in Words, NEW k \in Int, -Half <= k, k < Half
  PROVE  (y + k) % 2 ^ W \in Words /\ Offset((y + k) % 2 ^ W, y) = k
<1>1. M \in Nat \ {0} /\ Half \in Nat \ {0} /\ M = 2 * Half BY Units
<1>2. y \in 0 .. (M - 1) BY DEF Words, M
<1> DEFINE a == y + k
           x == a % M
<1>3. a \in Int /\ -M <= a /\ a < 2 * M BY <1>1, <1>2
<1> HIDE DEF a
<1>4. x = a \/ x = a + M \/ x = a - M
  <2>1. CASE a < 0 BY <1>1, <1>3, <2>1, OneTurn
  <2>2. CASE 0 <= a /\ a < M BY <1>1, <1>3, <2>2, OneTurn
  <2>3. CASE M <= a BY <1>1, <1>3, <2>3, OneTurn
  <2> QED BY <1>1, <1>3, <2>1, <2>2, <2>3
<1>5. x \in Words
  <2>1. x \in 0 .. (M - 1) BY <1>1, <1>3, Division
  <2> QED BY <2>1 DEF Words, M
<1> HIDE DEF x
<1>6. x = y + k \/ x = y + k + M \/ x = y + k - M BY <1>1, <1>2, <1>4 DEF a
<1>7. Offset(x, y) = k BY <1>5, <1>6, OffsetIs
<1> QED BY <1>5, <1>7 DEF x, a, M

\* Offsets add up.
LEMMA OffsetsAdd ==
  ASSUME NEW x \in Words, NEW y \in Words, NEW z \in Words,
         -Half <= Offset(x, y) + Offset(y, z), Offset(x, y) + Offset(y, z) < Half
  PROVE  Offset(x, z) = Offset(x, y) + Offset(y, z)
<1>1. M \in Nat \ {0} /\ Half \in Nat \ {0} /\ M = 2 * Half BY Units
<1>2. x \in 0 .. (M - 1) /\ y \in 0 .. (M - 1) /\ z \in 0 .. (M - 1) BY DEF Words, M
<1> DEFINE a == Offset(x, y)
           b == Offset(y, z)
<1>3. a \in Int /\ b \in Int BY OffsetFacts
<1>4. (x = y + a \/ x = y + a + M \/ x = y + a - M) /\ (y = z + b \/ y = z + b + M \/ y = z + b - M)
  <2>1. PICK i \in {-1, 0, 1} : x = y + a + (M * i) BY OffsetFacts
  <2>2. PICK j \in {-1, 0, 1} : y = z + b + (M * j) BY OffsetFacts
  <2>3. M * (-1) = -M /\ M * 0 = 0 /\ M * 1 = M BY <1>1
  <2> HIDE DEF a, b
  <2>4. (i = -1 \/ i = 0 \/ i = 1) /\ (j = -1 \/ j = 0 \/ j = 1) OBVIOUS
  <2> QED BY <1>1, <1>2, <1>3, <2>1, <2>2, <2>3, <2>4
<1>5. -Half <= a + b /\ a + b < Half /\ a + b \in Int BY <1>3
<1> HIDE DEF a, b
<1>6. x = z + (a + b) \/ x = z + (a + b) + M \/ x = z + (a + b) - M
  BY <1>1, <1>2, <1>3, <1>4, <1>5
<1>7. Offset(x, z) = a + b BY <1>5, <1>6, OffsetIs
<1> QED BY <1>7 DEF a, b

\* The next tick.
LEMMA NextWord ==
  ASSUME NEW y \in Words
  PROVE  /\ (y + 1) % 2 ^ W \in Words /\ Offset((y + 1) % 2 ^ W, y) = 1 /\ Offset(y, (y + 1) % 2 ^ W) = -1
         /\ (y + 1) % 2 ^ W = IF y + 1 \in Words THEN y + 1 ELSE 0
         /\ (y + 1) % 2 ^ W \in Int
         /\ ((y + 1) % 2 ^ W = y + 1 /\ y + 1 < M) \/ ((y + 1) % 2 ^ W = 0 /\ y + 1 = M)
<1>1. M \in Nat \ {0} /\ Half \in Nat \ {0} /\ M = 2 * Half /\ Half >= 2 BY Units
<1>2. y \in 0 .. (M - 1) BY DEF Words, M
<1> DEFINE z == (y + 1) % 2 ^ W
<1>3. z \in Words /\ Offset(z, y) = 1 BY <1>1, Onward
<1>4. z = IF y + 1 < M THEN y + 1 ELSE 0
  <2>1. y + 1 \in Int /\ 0 <= y + 1 /\ y + 1 <= M BY <1>1, <1>2
  <2> QED BY <1>1, <2>1, OneTurn DEF M
<1>5. y + 1 \in Words <=> y + 1 < M BY <1>1, <1>2 DEF Words, M
<1> HIDE DEF z
<1>6. y = z + (-1) \/ y = z + (-1) + M BY <1>1, <1>2, <1>4
<1>7. Offset(y, z) = -1 BY <1>1, <1>3, <1>6, OffsetIs
<1>8. z \in Int /\ ((z = y + 1 /\ y + 1 < M) \/ (z = 0 /\ y + 1 = M))
  <2>1. CASE y + 1 < M BY <1>1, <1>2, <1>4, <2>1
  <2>2. CASE y + 1 >= M BY <1>1, <1>2, <1>4, <2>2
  <2> QED BY <1>1, <1>2, <2>1, <2>2
<1> QED BY <1>3, <1>4, <1>5, <1>7, <1>8 DEF z

-----------------------------------------------------------------------------
(* Slots and turns.                                                        *)

\* A word has a whole number of turns of each level.
LEMMA WholeTurns ==
  ASSUME NEW n \in Levels
  PROVE  \E c \in Nat \ {0} : M = (Unit(n) * Size(n)) * c
<1>1. NOOF_TVECS \in Levels BY WheelAssumption DEF Levels
<1>2. CASE n = NOOF_TVECS
  <2>1. M = (Unit(n) * Size(n)) * 1 BY <1>2, Units
  <2> QED BY <2>1
<1>3. CASE n # NOOF_TVECS
  <2>1. n + 1 \in Levels /\ Unit(n + 1) = Unit(n) * Size(n) BY <1>3, Units
  <2>2. n + 1 <= NOOF_TVECS BY <2>1, WheelAssumption DEF Levels
  <2>3. PICK k \in Nat \ {0} : Unit(NOOF_TVECS) = Unit(n + 1) * k BY <1>1, <2>1, <2>2, Units
  <2>4. Size(NOOF_TVECS) \in Nat \ {0} BY <1>1, SizeNat
  <2>5. Unit(n + 1) \in Nat BY <2>1, Units
  <2>6. M = (Unit(n + 1) * k) * Size(NOOF_TVECS) BY <2>3, Units
  <2>7. M = Unit(n + 1) * (k * Size(NOOF_TVECS)) BY <2>4, <2>5, <2>6
  <2>8. k * Size(NOOF_TVECS) \in Nat \ {0} BY <2>4
  <2> QED BY <2>1, <2>7, <2>8
<1> QED BY <1>2, <1>3

\* The numbers behind a level: unit, size and turns per word.
LEMMA Parts ==
  ASSUME NEW g \in Nat \ {0}, NEW S \in Nat \ {0}, NEW c \in Nat \ {0},
         NEW x \in Int, NEW T \in Int, NEW k \in Int, NEW j \in Int,
         x = T + k + ((g * S) * c) * j
  PROVE  k - (x % g) + T = g * ((x \div g) - S * (c * j))
<1> DEFINE q == x \div g
           r == x % g
<1>1. q \in Int /\ r \in Int /\ x = (g * q) + r BY Division
<1> HIDE DEF q, r
<1>2. ((g * S) * c) * j = g * (S * (c * j)) OBVIOUS
<1>3. S * (c * j) \in Int OBVIOUS
<1> DEFINE e == S * (c * j)
<1> HIDE DEF e
<1>4. g * (q - e) = g * q - g * e BY <1>1, <1>3 DEF e
<1>5. k - r + T = g * (q - e) BY <1>1, <1>2, <1>3, <1>4 DEF e
<1> QED BY <1>5 DEF e, q, r

\* When the wheel reaches the slot of a timer that it has not passed, it is
\* at the first tick of the timer's slot: the timer is less than a unit away.
LEMMA SlotReached ==
  ASSUME NEW n \in Levels, NEW x \in Words, NEW T \in Words, NEW k \in Int, k = Offset(x, T),
         x % Unit(n) <= k, k - (x % Unit(n)) < Unit(n) * Size(n),
         T % Unit(n) = 0, Slot(n, x) = (T \div Unit(n)) % Size(n)
  PROVE  k < Unit(n)
<1> DEFINE g == Unit(n)
           S == Size(n)
           p == x \div g
           q == T \div g
           r == x % g
<1>1. g \in Nat \ {0} /\ S \in Nat \ {0} BY Units, SizeNat
<1>2. x \in Int /\ T \in Int /\ M \in Nat BY Units DEF Words, M
<1>3. PICK c \in Nat \ {0} : M = (g * S) * c BY WholeTurns
<1>4. PICK j \in {-1, 0, 1} : x = T + k + (M * j) BY OffsetFacts
<1>5. p \in Int /\ q \in Int /\ r \in 0 .. (g - 1) /\ T = (g * q) + (T % g) BY <1>1, <1>2, Division
<1>6. p % S = q % S BY DEF Slot, Unit
<1>7. T % g = 0 /\ r <= k /\ k - r < g * S OBVIOUS
<1>8. k - r + T = g * (p - S * (c * j)) BY <1>1, <1>2, <1>3, <1>4, Parts
<1> HIDE DEF g, S, p, q, r
<1>9. PICK e \in Int : p - q = S * e
  <2> DEFINE a == p \div S
             b == q \div S
  <2>1. /\ a \in Int /\ p = (S * a) + (p % S) /\ p % S \in Int
        /\ b \in Int /\ q = (S * b) + (q % S) /\ q % S \in Int
    <3>1. p \in Int /\ q \in Int BY <1>5
    <3>2. a \in Int /\ p = (S * a) + (p % S) /\ p % S \in Int BY <1>1, <3>1, Division
    <3>3. b \in Int /\ q = (S * b) + (q % S) /\ q % S \in Int BY <1>1, <3>1, Division
    <3> QED BY <3>2, <3>3
  <2> HIDE DEF a, b
  <2>2. p - q = S * (a - b) BY <1>1, <1>5, <1>6, <2>1
  <2>3. a - b \in Int BY <2>1
  <2> QED BY <2>2, <2>3
<1>10. c * j \in Int OBVIOUS
<1> DEFINE f == c * j
<1>11. k - r = (g * S) * (e - f)
  <2> HIDE DEF f
  <2>1. T = g * q /\ f \in Int BY <1>1, <1>5, <1>7, <1>10 DEF f
  <2>2. k - r = g * (p - S * f) - g * q
    <3> DEFINE y == g * (p - S * f)
               z == g * q
    <3>1. y \in Int /\ z \in Int /\ r \in Int BY <1>1, <1>5, <2>1
    <3>2. k - r + T = y BY <1>8 DEF f
    <3>3. T = z BY <2>1
    <3> HIDE DEF y, z
    <3>4. k - r = y - z BY <3>1, <3>2, <3>3
    <3> QED BY <3>4 DEF y, z
  <2>3. g * (p - S * f) - g * q = g * ((p - S * f) - q) BY <1>1, <1>5, <2>1
  <2>4. (p - S * f) - q = S * (e - f)
    <3>1. S * (e - f) = S * e - S * f BY <1>1, <2>1
    <3> QED BY <1>1, <1>5, <1>9, <2>1, <3>1
  <2>5. g * (S * (e - f)) = (g * S) * (e - f) BY <1>1, <2>1
  <2> QED BY <2>2, <2>3, <2>4, <2>5
<1>12. g * S \in Nat \ {0} BY <1>1
<1>13. 0 <= k - r /\ k - r < g * S /\ k - r \in Int /\ e - f \in Int BY <1>5, <1>7, <1>10
<1> DEFINE u == g * S
           d == k - r
           h == e - f
<1>14. u \in Nat \ {0} /\ d \in Int /\ h \in Int /\ d = u * h /\ 0 <= d /\ d < u BY <1>11, <1>12, <1>13
<1> HIDE DEF u, d, h
<1>15. d = 0 BY <1>14, SmallMultiple
<1>16. k = r BY <1>5, <1>15 DEF d
<1>17. k < g BY <1>1, <1>5, <1>16
<1> QED BY <1>17 DEF g

\* Conversely a timer whose slot begins at this tick is in the slot that the
\* wheel has reached.
LEMMA SlotBegins ==
  ASSUME NEW n \in Levels, NEW x \in Words, NEW T \in Words, x % Unit(n) = Offset(x, T)
  PROVE  T % Unit(n) = 0 /\ Slot(n, x) = (T \div Unit(n)) % Size(n)
<1> DEFINE g == Unit(n)
           S == Size(n)
           p == x \div g
           r == x % g
           k == Offset(x, T)
<1>1. g \in Nat \ {0} /\ S \in Nat \ {0} BY Units, SizeNat
<1>2. x \in Int /\ T \in Int /\ M \in Nat /\ k \in Int BY Units, OffsetFacts DEF Words, M
<1>3. PICK c \in Nat \ {0} : M = (g * S) * c BY WholeTurns
<1>4. PICK j \in {-1, 0, 1} : x = T + k + (M * j) BY OffsetFacts
<1>5. p \in Int /\ r \in 0 .. (g - 1) BY <1>1, <1>2, Division
<1>6. k = r OBVIOUS
<1>7. Slot(n, x) = p % S BY DEF Slot, Unit
<1>8. k - r + T = g * (p - S * (c * j))
  <2> HIDE DEF g, S, k
  <2> QED BY <1>1, <1>2, <1>3, <1>4, Parts
<1>9. c * j \in Int OBVIOUS
<1> DEFINE q == p - S * (c * j)
<1> HIDE DEF g, S, p, r, k
<1>10. q \in Int BY <1>1, <1>5, <1>9
<1>11. T = g * q + 0 BY <1>1, <1>2, <1>5, <1>6, <1>8, <1>10
<1>12. p = q + (S * (c * j)) BY <1>1, <1>5, <1>9
<1> HIDE DEF q
<1>13. T % g = 0 /\ T \div g = q BY <1>1, <1>2, <1>10, <1>11, DivisionUnique
<1>14. p % S = q % S
  <2>1. (q + (S * (c * j))) % S = q % S BY <1>1, <1>9, <1>10, SameRemainder, Zenon
  <2> QED BY <1>12, <2>1, Zenon
<1> QED BY <1>7, <1>13, <1>14 DEF g, S

\* The slot of level n that is next to be cascaded at tick T, before or after
\* the cascade of that tick.
Reached(n, T, done) ==
  ((T \div Unit(n)) + (IF T % Unit(n) = 0 /\ ~done THEN 0 ELSE 1)) % Size(n)

\* It stays the same from one tick to the next, also when the word wraps.
LEMMA TurnStep ==
  ASSUME NEW n \in Levels, NEW T \in Words
  PROVE  Reached(n, (T + 1) % 2 ^ W, FALSE) = Reached(n, T, TRUE)
<1> DEFINE g == Unit(n)
           S == Size(n)
           q == T \div g
           r == T % g
           Z == (T + 1) % 2 ^ W
<1>1. g \in Nat \ {0} /\ S \in Nat \ {0} /\ M \in Nat \ {0} BY Units, SizeNat
<1>2. T \in 0 .. (M - 1) BY DEF Words, M
<1>3. PICK c \in Nat \ {0} : M = (g * S) * c BY WholeTurns
<1>4. q \in Int /\ r \in 0 .. (g - 1) /\ T = (g * q) + r
  <2>1. T \in Int BY <1>1, <1>2
  <2> QED BY <1>1, <2>1, Division
<1>5. Z \in Int /\ ((Z = T + 1 /\ T + 1 < M) \/ (Z = 0 /\ T + 1 = M))
  BY NextWord
<1>6. Reached(n, T, TRUE) = (q + 1) % S BY DEF Reached
<1>7. Reached(n, Z, FALSE) = ((Z \div g) + (IF Z % g = 0 THEN 0 ELSE 1)) % S
  <2> HIDE DEF Z
  <2> QED BY DEF Reached
<1> HIDE DEF g, S, q, r, Z
<1> SUFFICES Reached(n, Z, FALSE) = Reached(n, T, TRUE) BY DEF Z
<1>8. CASE r + 1 < g
  <2>1. T + 1 # M
    <3> SUFFICES ASSUME T + 1 = M PROVE FALSE OBVIOUS
    <3>1. (g * S) * c = g * (S * c) /\ S * c \in Int BY <1>1
    <3> DEFINE e == S * c
    <3> HIDE DEF e
    <3>2. g * e = (g * q) + r + 1 BY <1>1, <1>3, <1>4, <3>1 DEF e
    <3>3. g * (e - q) = g * e - g * q BY <1>1, <1>4, <3>1 DEF e
    <3>4. r + 1 = g * (e - q) BY <1>1, <1>4, <3>1, <3>2, <3>3 DEF e
    <3>5. e - q \in Int /\ r + 1 \in Int /\ 0 <= r + 1 /\ r + 1 # 0 BY <1>4, <3>1 DEF e
    <3> DEFINE k == e - q
               a == r + 1
    <3> HIDE DEF k, a
    <3>6. a = g * k /\ k \in Int /\ a \in Int /\ 0 <= a /\ a < g /\ a # 0 BY <1>8, <3>4, <3>5 DEF k, a
    <3> QED BY <1>1, <3>6, SmallMultiple
  <2>2. Z = (g * q) + (r + 1) /\ r + 1 \in 0 .. (g - 1) /\ r + 1 # 0
    BY <1>1, <1>4, <1>5, <1>8, <2>1
  <2>3. Z % g = r + 1 /\ Z \div g = q BY <1>1, <1>4, <1>5, <2>2, DivisionUnique
  <2> QED BY <1>6, <1>7, <2>2, <2>3
<1>9. CASE r + 1 >= g
  <2>1. r + 1 = g BY <1>1, <1>4, <1>9
  <2>2. T + 1 = g * (q + 1)
    <3>1. g * (q + 1) = (g * q) + g BY <1>1, <1>4
    <3> QED BY <1>1, <1>4, <2>1, <3>1
  <2>3. CASE Z = T + 1
    <3>1. Z = (g * (q + 1)) + 0 /\ q + 1 \in Int /\ 0 \in 0 .. (g - 1) BY <1>1, <1>4, <1>5, <2>2, <2>3
    <3>2. Z % g = 0 /\ Z \div g = q + 1 BY <1>1, <1>5, <3>1, DivisionUnique
    <3>3. (Z \div g) + (IF Z % g = 0 THEN 0 ELSE 1) = q + 1 BY <1>4, <3>2
    <3> QED BY <1>6, <1>7, <3>3
  <2>4. CASE Z = 0 /\ T + 1 = M
    <3>1. Z = (g * 0) + 0 /\ 0 \in 0 .. (g - 1) BY <1>1, <2>4
    <3>2. Z % g = 0 /\ Z \div g = 0 BY <1>1, <1>5, <3>1, DivisionUnique
    <3>3. q + 1 = S * c
      <4>1. (g * S) * c = g * (S * c) /\ S * c \in Int BY <1>1
      <4> DEFINE e == S * c
      <4> HIDE DEF e
      <4>2. g * e = g * (q + 1) BY <1>3, <2>2, <2>4, <4>1 DEF e
      <4>3. e \in Int /\ q + 1 \in Int BY <1>4, <4>1 DEF e
      <4>4. e = q + 1 BY <1>1, <4>2, <4>3
      <4> QED BY <4>4 DEF e
    <3>4. q + 1 = 0 + (S * c) /\ q + 1 \in Int BY <1>1, <1>4, <3>3
    <3>5. (q + 1) % S = 0 % S
      <4>1. 0 \in Int /\ c \in Int OBVIOUS
      <4>2. (0 + (S * c)) % S = 0 % S BY <1>1, <4>1, SameRemainder, Zenon
      <4> QED BY <3>4, <4>2, Zenon
    <3>6. (Z \div g) + (IF Z % g = 0 THEN 0 ELSE 1) = 0 BY <3>2
    <3> QED BY <1>6, <1>7, <3>5, <3>6
  <2> QED BY <1>5, <2>3, <2>4
<1>10. r + 1 < g \/ r + 1 >= g BY <1>1, <1>4
<1> QED BY <1>8, <1>9, <1>10

\* The index of the first level follows the tick.
LEMMA RootStep ==
  ASSUME NEW T \in Words
  PROVE  ((T + 1) % 2 ^ W) % TVR_SIZE = ((T % TVR_SIZE) + 1) % TVR_SIZE
<1> DEFINE R == TVR_SIZE
           q == T \div R
           r == T % R
           Z == (T + 1) % 2 ^ W
           a == T + 1
           b == r + 1
<1>1. R \in Nat \ {0} /\ M \in Nat \ {0} BY Units, SizeNat
<1>2. T \in 0 .. (M - 1) BY DEF Words, M
<1>3. PICK c \in Nat \ {0} : M = R * c
  <2>1. 1 \in Levels /\ Unit(1) = 1 /\ Size(1) = R BY Units, WheelAssumption DEF Levels, Size
  <2>2. PICK c \in Nat \ {0} : M = (1 * R) * c BY <2>1, WholeTurns
  <2> QED BY <1>1, <2>2
<1>4. q \in Int /\ r \in 0 .. (R - 1) /\ T = (R * q) + r BY <1>1, <1>2, Division
<1>5. Z \in Int /\ (Z = T + 1 \/ (Z = 0 /\ T + 1 = M))
  BY NextWord
<1> HIDE DEF R, q, r, Z
<1>6. a \in Int /\ b \in Int /\ a = b + (R * q) BY <1>1, <1>2, <1>4
<1>7. a = Z + (R * 0) \/ a = Z + (R * c) BY <1>1, <1>2, <1>3, <1>5
<1> HIDE DEF a, b
<1>8. a % R = b % R
  <2>1. (b + (R * q)) % R = b % R BY <1>1, <1>4, <1>6, SameRemainder, Zenon
  <2> QED BY <1>6, <2>1, Zenon
<1>9. a % R = Z % R
  <2>1. PICK k \in Int : a = Z + (R * k) BY <1>7
  <2>2. Z \in Int /\ a \in Int BY <1>5, <1>6
  <2>3. (Z + (R * k)) % R = Z % R BY <1>1, <2>2, SameRemainder, Zenon
  <2> QED BY <2>1, <2>3, Zenon
<1> QED BY <1>8, <1>9 DEF R, Z, a, b, r

\* A tick that begins a slot of a level, and is a whole number of its turns,
\* begins a slot of the next level.
LEMMA TurnEnds ==
  ASSUME NEW n \in Levels \ {NOOF_TVECS}, NEW T \in Words
  PROVE  /\ T % Unit(n + 1) = 0 => (T \div Unit(n)) % Size(n) = 0
         /\ T % Unit(n) = 0 /\ (T \div Unit(n)) % Size(n) = 0 => T % Unit(n + 1) = 0
<1> DEFINE g == Unit(n)
           S == Size(n)
           u == Unit(n + 1)
           q == T \div g
           e == T \div u
<1>1. g \in Nat \ {0} /\ S \in Nat \ {0} /\ u \in Nat \ {0} /\ u = g * S BY Units, SizeNat
<1>2. T \in Int BY Units DEF Words, M
<1>3. /\ q \in Int /\ T % g \in 0 .. (g - 1) /\ T = (g * q) + (T % g)
      /\ e \in Int /\ T = (u * e) + (T % u) /\ T % u \in 0 .. (u - 1)
  BY <1>1, <1>2, Division
<1> HIDE DEF g, S, u, q, e
<1>4. ASSUME T % u = 0 PROVE q % S = 0
  <2>1. T = (g * (S * e)) + 0 /\ S * e \in Int /\ 0 \in 0 .. (g - 1) BY <1>1, <1>3, <1>4
  <2> DEFINE f == S * e
  <2> HIDE DEF f
  <2>2. T \div g = f BY <1>1, <1>2, <2>1, DivisionUnique DEF f
  <2>3. q = (S * e) + 0 /\ 0 \in 0 .. (S - 1) BY <1>1, <1>3, <2>1, <2>2 DEF f, q
  <2> QED BY <1>1, <1>3, <2>3, DivisionUnique
<1>5. ASSUME T % g = 0, q % S = 0 PROVE T % u = 0
  <2> DEFINE f == q \div S
  <2>1. f \in Int /\ q = (S * f) + (q % S) BY <1>1, <1>3, Division
  <2> HIDE DEF f
  <2>2. q = S * f BY <1>1, <1>5, <2>1
  <2>3. T = g * (S * f) BY <1>1, <1>3, <1>5, <2>1, <2>2
  <2>4. T = (u * f) + 0 /\ 0 \in 0 .. (u - 1) BY <1>1, <2>1, <2>3
  <2> QED BY <1>1, <1>2, <2>1, <2>4, DivisionUnique
<1> QED BY <1>4, <1>5 DEF g, S, u, q

\* What begins a slot of a level begins one of every level below.
LEMMA CoarseFine ==
  ASSUME NEW m \in Levels, NEW n \in Levels, m <= n, NEW T \in Words, T % Unit(n) = 0
  PROVE  T % Unit(m) = 0
<1> DEFINE g == Unit(m)
           u == Unit(n)
           e == T \div u
<1>1. g \in Nat \ {0} /\ u \in Nat \ {0} BY Units
<1>2. PICK k \in Nat \ {0} : u = g * k BY Units
<1>3. T \in Int BY Units DEF Words, M
<1>4. e \in Int /\ T = (u * e) + (T % u) BY <1>1, <1>3, Division
<1>5. T % u = 0 OBVIOUS
<1> HIDE DEF g, u, e
<1>6. T = (g * (k * e)) + 0 /\ k * e \in Int /\ 0 \in 0 .. (g - 1) BY <1>1, <1>2, <1>4, <1>5
<1> DEFINE f == k * e
<1> HIDE DEF f
<1>7. T = (g * f) + 0 /\ f \in Int /\ 0 \in 0 .. (g - 1) BY <1>6 DEF f
<1> QED BY <1>1, <1>3, <1>7, DivisionUnique DEF g

\* The levels that NextTick cascades are those of which a slot begins.
LEMMA CascadeLevels ==
  ASSUME timer_ticks \in Words, timer_ticks % TVR_SIZE = 0,
         \A n \in Levels \ {1} : index[n] = Reached(n, timer_ticks, FALSE)
  PROVE  Cascading = {n \in Levels \ {1} : timer_ticks % Unit(n) = 0}
<1> DEFINE T == timer_ticks
           N == NOOF_TVECS
<1>0. N \in Nat /\ N >= 2 /\ T \in Words BY WheelAssumption
<1>1. \A n : n \in 2 .. N <=> n \in Levels \ {1} BY <1>0 DEF Levels
<1>2. ASSUME NEW m \in Levels \ {1}, T % Unit(m) = 0 PROVE index[m] = (T \div Unit(m)) % Size(m)
  <2>1. index[m] = ((T \div Unit(m)) + 0) % Size(m) BY <1>2 DEF Reached
  <2>2. T \in Int /\ Unit(m) \in Nat \ {0} BY Units DEF Words, M
  <2>3. T \div Unit(m) \in Int BY <2>2, Division
  <2> QED BY <2>1, <2>3
<1>3. ASSUME NEW n \in Levels \ {1}, T % Unit(n) = 0 PROVE n \in Cascading
  <2>1. ASSUME NEW m \in 2 .. (n - 1) PROVE index[m] = 0
    <3>1. m \in Levels \ {1, N} /\ m + 1 \in Levels /\ m <= n /\ m + 1 <= n
      BY <1>0, <2>1 DEF Levels, N
    <3>2. T % Unit(m) = 0 /\ T % Unit(m + 1) = 0 BY <1>0, <1>3, <3>1, CoarseFine
    <3>3. (T \div Unit(m)) % Size(m) = 0 BY <1>0, <3>1, <3>2, TurnEnds
    <3> QED BY <1>2, <3>1, <3>2, <3>3
  <2> QED BY <1>1, <2>1 DEF Cascading
<1> DEFINE Bad == {n \in Nat : n \in Cascading /\ T % Unit(n) # 0}
<1>4. Bad = {}
  <2> SUFFICES ASSUME Bad # {} PROVE FALSE OBVIOUS
  <2>1. Bad \in SUBSET Nat OBVIOUS
  <2>2. PICK n \in Bad : \A y \in Bad : <<y, n>> \notin OpToRel(<, Nat)
    BY <2>1, NatLessThanWellFounded, WFMin
  <2>3. \A y \in Bad : ~(y < n) BY <2>1, <2>2 DEF OpToRel
  <2>4. n \in Nat /\ n \in Cascading /\ T % Unit(n) # 0 BY <2>2
  <2>5. n \in 2 .. N /\ \A m \in 2 .. (n - 1) : index[m] = 0 BY <2>4 DEF Cascading
  <2>6. CASE n = 2
    <3>1. 1 \in Levels \ {N} /\ 1 + 1 = 2 BY <1>0 DEF Levels, N
    <3>2. Unit(2) = Unit(1) * Size(1) /\ Unit(1) = 1 BY <3>1, Units
    <3>3. Size(1) = TVR_SIZE /\ TVR_SIZE \in Nat BY SizeNat DEF Size
    <3> QED BY <2>4, <2>6, <3>2, <3>3
  <2>7. CASE n # 2
    <3> DEFINE m == n - 1
    <3>1. m \in Nat /\ m \in 2 .. N /\ m \in 2 .. (n - 1) /\ m \in Levels \ {1, N} /\ m + 1 = n /\ m < n
      BY <1>0, <2>4, <2>5, <2>7 DEF Levels, N
    <3> HIDE DEF m
    <3>2. m \in Cascading
      <4>1. \A i \in 2 .. (m - 1) : i \in 2 .. (n - 1) BY <3>1
      <4> QED BY <2>5, <3>1, <4>1 DEF Cascading
    <3>3. m \notin Bad BY <2>3, <3>1
    <3>4. T % Unit(m) = 0 BY <3>1, <3>2, <3>3
    <3>5. index[m] = 0 BY <2>5, <3>1
    <3>6. (T \div Unit(m)) % Size(m) = 0 BY <1>2, <3>1, <3>4, <3>5
    <3>7. T % Unit(m + 1) = 0 BY <1>0, <3>1, <3>4, <3>6, TurnEnds
    <3> QED BY <2>4, <3>1, <3>7
  <2> QED BY <2>6, <2>7
<1>5. ASSUME NEW n \in Cascading PROVE n \in Levels \ {1} /\ T % Unit(n) = 0
  <2>1. n \in 2 .. N BY DEF Cascading, N
  <2>2. n \in Nat BY <1>0, <2>1
  <2> QED BY <1>1, <1>4, <2>1, <2>2
<1> QED BY <1>3, <1>5

-----------------------------------------------------------------------------
(* The invariant.                                                          *)

\* The cascade of the tick at hand has been made.
Done == phase \in {"slot", "handler"}

\* How far the expiry of timer t, and the clock, are ahead of the wheel.
Ahead(t) == Offset(expires[t], timer_ticks)
Lag == Offset(ticks, timer_ticks)

\* The index of every level follows the tick.
IndexInv ==
  /\ index[1] = timer_ticks % TVR_SIZE
  /\ \A n \in Levels \ {1} : index[n] = Reached(n, timer_ticks, Done)

\* A timer that expires at x, k ticks ahead of T, may be at p: in the current list
\* if it is late, in the list of its tick if that is less than a turn away,
\* else in the slot of its expiry on a level that has not reached the slot.
Placed(p, x, T, k, done) ==
  \/ p[1] = 1 /\ k = -1 /\ p[2] = T % TVR_SIZE
  \/ p[1] = 1 /\ 0 <= k /\ k < TVR_SIZE /\ p[2] = x % TVR_SIZE
  \/ /\ p[1] \in Levels \ {1} /\ p[2] = Slot(p[1], x)
     /\ x % Unit(p[1]) <= k /\ k - (x % Unit(p[1])) < Unit(p[1]) * Size(p[1])
     /\ done => x % Unit(p[1]) < k

\* Timers are at most one tick late and less than half a turn ahead.
PlaceInv ==
  \A t \in Timers : Active(t) =>
    /\ place[t] \in Places
    /\ -1 <= Ahead(t) /\ Ahead(t) < Half - 1
    /\ Placed(place[t], expires[t], timer_ticks, Ahead(t), Done)

\* The DPC is at most one tick ahead of the clock; it works only on ticks that
\* have come, and a tick that it has not seen has queued it again.
LagInv ==
  /\ -1 <= Lag /\ Lag < MaxLag
  /\ Done => Lag >= 0
  /\ phase = "leave" => queued \/ Lag = -1
  /\ phase = "off" /\ ~queued => Lag <= 0 /\ \A t \in Timers : Active(t) => Ahead(t) >= Lag

\* The inductive invariant.
Inv == TypeOK /\ IndexInv /\ PlaceInv /\ LagInv

\* A slot is a place of its level.
LEMMA SlotPlace ==
  ASSUME NEW n \in Levels, NEW x \in Words
  PROVE  <<n, Slot(n, x)>> \in Places /\ (n = 1 => Slot(n, x) = x % TVR_SIZE)
<1>1. x \in Int /\ Unit(n) \in Nat \ {0} /\ Size(n) \in Nat \ {0} BY Units, SizeNat DEF Words, M
<1> DEFINE q == x \div Unit(n)
<1>2. q \in Int BY <1>1, Division
<1>3. Slot(n, x) = q % Size(n) BY DEF Slot, Unit
<1> HIDE DEF q
<1>4. Slot(n, x) \in 0 .. (Size(n) - 1) BY <1>1, <1>2, <1>3, Division
<1>5. Size(n) <= TVR_SIZE + TVN_SIZE BY SizeNat DEF Size
<1>6. Slot(n, x) \in 0 .. (TVR_SIZE + TVN_SIZE) /\ Slot(n, x) < Size(n) BY <1>1, <1>4, <1>5, SizeNat
<1>7. ASSUME n = 1 PROVE Slot(n, x) = x % TVR_SIZE
  <2>1. Unit(n) = 1 /\ Size(n) = TVR_SIZE BY <1>7, Units DEF Size
  <2>2. q = x BY <1>1, <2>1 DEF q
  <2> QED BY <1>3, <2>1, <2>2
<1> QED BY <1>6, <1>7 DEF Places

\* attach_timer puts a timer where it belongs, and nearer than any level whose
\* slot it is in.
LEMMA AttachPlaces ==
  ASSUME timer_ticks \in Words, index[1] = timer_ticks % TVR_SIZE,
         NEW x \in Words, NEW k \in Int, k = Offset(x, timer_ticks), -1 <= k, k < Half - 1
  PROVE  /\ attach_timer(x) \in Places
         /\ Placed(attach_timer(x), x, timer_ticks, k, TRUE)
         /\ \A n \in Levels \ {1} : k < Unit(n) => attach_timer(x)[1] < n
<1> DEFINE idx == Minus(x, timer_ticks)
           near == {n \in 1 .. (NOOF_TVECS - 1) : idx < 2 ^ Shift(n + 1)}
           low == CHOOSE m \in near : \A j \in near : m <= j
           n == IF near = {} THEN NOOF_TVECS ELSE low
<1>1. attach_timer(x) = IF near = {} /\ Signed(idx) < 0 THEN <<1, index[1]>> ELSE <<n, Slot(n, x)>>
  BY DEF attach_timer
<1>2. /\ NOOF_TVECS \in Nat /\ NOOF_TVECS >= 2 /\ 1 \in Levels /\ NOOF_TVECS \in Levels
      /\ M \in Nat /\ Half \in Nat /\ M = 2 * Half /\ Half >= 2
      /\ \A m \in Levels : Unit(m) \in Nat \ {0} /\ Unit(m) <= Half
      /\ \A m \in Levels : Size(m) \in Nat
  <2>1. NOOF_TVECS \in Nat /\ NOOF_TVECS >= 2 BY WheelAssumption
  <2>2. 1 \in Levels /\ NOOF_TVECS \in Levels BY <2>1 DEF Levels
  <2>3. \A m \in Levels : Unit(m) \in Nat \ {0} /\ Unit(m) <= Half BY Units
  <2>4. \A m \in Levels : Size(m) \in Nat BY SizeNat
  <2>5. M \in Nat /\ Half \in Nat /\ M = 2 * Half /\ Half >= 2 BY Units
  <2> QED BY <2>1, <2>2, <2>3, <2>4, <2>5
<1>3. idx = IF k < 0 THEN k + M ELSE k BY OffsetFacts
<1>4. Signed(idx) = k BY DEF Offset
<1>5. near = {m \in 1 .. (NOOF_TVECS - 1) : idx < Unit(m + 1)} BY DEF Unit
<1>6. \A m \in 1 .. (NOOF_TVECS - 1) : m \in Levels \ {NOOF_TVECS} /\ m + 1 \in Levels BY <1>2 DEF Levels
<1>7. timer_ticks \in Int /\ x \in Int BY <1>2 DEF Words, M
<1> HIDE DEF idx, near
<1>8. CASE k = -1
  <2>1. idx = M - 1 BY <1>2, <1>3, <1>8
  <2>2. near = {} BY <1>2, <1>5, <1>6, <2>1
  <2>3. attach_timer(x) = <<1, index[1]>> BY <1>1, <1>4, <1>8, <2>2
  <2>4. timer_ticks % TVR_SIZE \in 0 .. (TVR_SIZE - 1) BY <1>7, SizeNat, Division
  <2>5. <<1, index[1]>> \in Places
    <3>1. Size(1) = TVR_SIZE BY DEF Size
    <3>2. index[1] \in 0 .. (TVR_SIZE + TVN_SIZE) /\ index[1] < TVR_SIZE BY <2>4, SizeNat
    <3> QED BY <1>2, <3>1, <3>2 DEF Places
  <2>6. Placed(<<1, index[1]>>, x, timer_ticks, k, TRUE) BY <1>8 DEF Placed
  <2>7. \A m \in Levels \ {1} : 1 < m BY <1>2 DEF Levels
  <2>8. attach_timer(x)[1] = 1 BY <2>3
  <2> QED BY <2>3, <2>5, <2>6, <2>7, <2>8
<1>9. CASE k >= 0
  <2>1. idx = k BY <1>3, <1>9
  <2>2. attach_timer(x) = <<n, Slot(n, x)>>
    <3> HIDE DEF n
    <3>1. ~(Signed(idx) < 0) BY <1>4, <1>9
    <3> QED BY <1>1, <3>1
  <2>3. CASE near = {}
    <3> DEFINE N == NOOF_TVECS
    <3>1. n = N BY <2>3
    <3>2. \A m \in Levels \ {1} : k >= Unit(m)
      <4> TAKE m \in Levels \ {1}
      <4>1. m - 1 \in 1 .. (NOOF_TVECS - 1) /\ (m - 1) + 1 = m BY <1>2 DEF Levels
      <4>2. ~(idx < Unit((m - 1) + 1)) BY <1>5, <2>3, <4>1
      <4> QED BY <1>2, <2>1, <4>1, <4>2
    <3>3. k >= Unit(N) /\ N # 1 BY <1>2, <3>2
    <3>4. x % Unit(N) \in 0 .. (Unit(N) - 1) BY <1>2, <1>7, Division
    <3>5. M = Unit(N) * Size(N) BY Units
    <3>6. x % Unit(N) < k /\ k - (x % Unit(N)) < Unit(N) * Size(N)
      BY <1>2, <3>3, <3>4, <3>5
    <3>7. Placed(<<N, Slot(N, x)>>, x, timer_ticks, k, TRUE) BY <1>2, <3>3, <3>4, <3>6 DEF Placed
    <3>8. <<N, Slot(N, x)>> \in Places BY <1>2, SlotPlace
    <3>9. \A m \in Levels \ {1} : ~(k < Unit(m)) BY <1>2, <3>2
    <3> HIDE DEF n
    <3> QED BY <2>2, <3>1, <3>7, <3>8, <3>9
  <2>4. CASE near # {}
    <3>1. near \in SUBSET Nat BY <1>5
    <3>2. PICK a \in near : \A y \in near : <<y, a>> \notin OpToRel(<, Nat)
      BY <2>4, <3>1, NatLessThanWellFounded, WFMin
    <3>3. \A y \in near : a <= y
      <4> TAKE y \in near
      <4>1. ~(y < a) BY <3>1, <3>2 DEF OpToRel
      <4> QED BY <3>1, <4>1
    <3>4. low \in near /\ \A j \in near : low <= j
      <4>1. \E m \in near : \A j \in near : m <= j BY <3>3
      <4> QED BY <4>1
    <3> HIDE DEF low
    <3>5. n = low BY <2>4
    <3> HIDE DEF n
    <3>6. n \in near /\ \A j \in near : n <= j BY <3>4, <3>5
    <3>7. n \in 1 .. (NOOF_TVECS - 1) /\ k < Unit(n + 1) BY <1>5, <2>1, <3>6
    <3>8. n \in Levels \ {NOOF_TVECS} /\ n + 1 \in Levels /\ n \in Nat BY <1>2, <1>6, <3>7
    <3>9. Unit(n + 1) = Unit(n) * Size(n) BY <3>8, Units
    <3>10. <<n, Slot(n, x)>> \in Places BY <3>8, SlotPlace
    <3>11. Placed(<<n, Slot(n, x)>>, x, timer_ticks, k, TRUE)
      <4>1. CASE n = 1
        <5>1. Unit(n) = 1 /\ Size(n) = TVR_SIZE /\ TVR_SIZE \in Nat BY <4>1, Units, SizeNat DEF Size
        <5>2. k < TVR_SIZE BY <3>7, <3>9, <5>1
        <5>3. Slot(n, x) = x % TVR_SIZE BY <3>8, <4>1, SlotPlace
        <5> QED BY <1>9, <4>1, <5>2, <5>3 DEF Placed
      <4>2. CASE n # 1
        <5>1. n - 1 \in 1 .. (NOOF_TVECS - 1) /\ (n - 1) + 1 = n /\ ~(n <= n - 1)
          BY <1>2, <3>7, <3>8, <4>2
        <5>2. n - 1 \notin near BY <3>6, <5>1
        <5>3. k >= Unit(n) BY <1>2, <1>5, <2>1, <3>8, <5>1, <5>2
        <5>4. x % Unit(n) \in 0 .. (Unit(n) - 1) BY <1>2, <1>7, <3>8, Division
        <5>5. x % Unit(n) < k /\ k - (x % Unit(n)) < Unit(n) * Size(n)
          <6>1. Unit(n) \in Nat /\ Unit(n + 1) \in Nat BY <1>2, <3>8
          <6> QED BY <3>7, <3>9, <5>3, <5>4, <6>1
        <5> QED BY <1>2, <3>8, <4>2, <5>4, <5>5 DEF Placed
      <4> QED BY <4>1, <4>2
    <3>12. \A m \in Levels \ {1} : k < Unit(m) => n < m
      <4> TAKE m \in Levels \ {1}
      <4> HAVE k < Unit(m)
      <4>1. m - 1 \in 1 .. (NOOF_TVECS - 1) /\ (m - 1) + 1 = m /\ m \in Nat BY <1>2 DEF Levels
      <4>2. m - 1 \in near BY <1>5, <2>1, <4>1
      <4> QED BY <3>6, <3>8, <4>1, <4>2
    <3>13. attach_timer(x)[1] = n BY <2>2
    <3> QED BY <2>2, <3>10, <3>11, <3>12, <3>13
  <2> QED BY <2>3, <2>4
<1>10. k = -1 \/ k >= 0 OBVIOUS
<1> QED BY <1>8, <1>9, <1>10

-----------------------------------------------------------------------------
(* The steps.                                                              *)

\* Offsets of the state variables are numbers, and the bounds are.
LEMMA Numbers ==
  ASSUME TypeOK
  PROVE  /\ Lag \in Int /\ \A t \in Timers : Ahead(t) \in Int /\ expires[t] \in Words
         /\ MaxLag \in Nat /\ MaxLag < Half /\ Half \in Nat /\ Half >= 2
<1>1. ticks \in Words /\ timer_ticks \in Words /\ \A t \in Timers : expires[t] \in Words BY DEF TypeOK
<1>2. Lag \in Int /\ \A t \in Timers : Ahead(t) \in Int BY <1>1, OffsetFacts DEF Lag, Ahead
<1>3. MaxLag \in Nat /\ MaxLag < Half BY WheelAssumption DEF Half
<1> QED BY <1>1, <1>2, <1>3, Units

\* What suits a tick whose cascade is made suits it before.
LEMMA PlacedEarlier ==
  ASSUME NEW p, NEW x, NEW T, NEW k, NEW done \in BOOLEAN, Placed(p, x, T, k, TRUE)
  PROVE  Placed(p, x, T, k, done)
BY DEF Placed

\* A timer is put somewhere or taken away; the wheel stands still.
LEMMA OneTimer ==
  ASSUME TypeOK, PlaceInv, NEW t \in Timers, NEW p, NEW x \in Words,
         place' = [place EXCEPT ![t] = p], expires' = [expires EXCEPT ![t] = x],
         UNCHANGED timer_ticks, Done' = Done,
         \/ p = NoPlace
         \/ /\ p \in Places /\ -1 <= Offset(x, timer_ticks) /\ Offset(x, timer_ticks) < Half - 1
            /\ Placed(p, x, timer_ticks, Offset(x, timer_ticks), TRUE)
  PROVE  /\ PlaceInv'
         /\ place' \in [Timers -> Places \cup {NoPlace, Dropped}] /\ expires' \in [Timers -> Words]
         /\ \A u \in Timers : u # t => (Active(u)' <=> Active(u)) /\ Ahead(u)' = Ahead(u)
         /\ Ahead(t)' = Offset(x, timer_ticks) /\ (Active(t)' <=> p # NoPlace)
<1>1. /\ place \in [Timers -> Places \cup {NoPlace, Dropped}] /\ expires \in [Timers -> Words]
      /\ Done \in BOOLEAN
  BY DEF TypeOK, Done
<1>2. \A u \in Timers : u # t => place'[u] = place[u] /\ expires'[u] = expires[u] BY <1>1
<1>3. place'[t] = p /\ expires'[t] = x BY <1>1
<1>4. place' \in [Timers -> Places \cup {NoPlace, Dropped}] /\ expires' \in [Timers -> Words] BY <1>1
<1>5. \A u \in Timers : u # t => (Active(u)' <=> Active(u)) /\ Ahead(u)' = Ahead(u)
  BY <1>2 DEF Active, Ahead
<1>6. Ahead(t)' = Offset(x, timer_ticks) /\ (Active(t)' <=> p # NoPlace) BY <1>3 DEF Ahead, Active
<1>7. ASSUME NEW u \in Timers, Active(u)'
      PROVE  /\ place'[u] \in Places /\ -1 <= Ahead(u)' /\ Ahead(u)' < Half - 1
             /\ Placed(place'[u], expires'[u], timer_ticks', Ahead(u)', Done')
  <2>1. CASE u # t
    <3>1. /\ place[u] \in Places /\ -1 <= Ahead(u) /\ Ahead(u) < Half - 1
          /\ Placed(place[u], expires[u], timer_ticks, Ahead(u), Done)
      BY <1>5, <1>7, <2>1 DEF PlaceInv
    <3> QED BY <1>2, <1>5, <2>1, <3>1 DEF Placed
  <2>2. CASE u = t
    <3>1. /\ p \in Places /\ -1 <= Offset(x, timer_ticks) /\ Offset(x, timer_ticks) < Half - 1
          /\ Placed(p, x, timer_ticks, Offset(x, timer_ticks), TRUE)
      BY <1>6, <1>7, <2>2
    <3>2. Placed(p, x, timer_ticks, Offset(x, timer_ticks), Done) BY <1>1, <3>1, PlacedEarlier
    <3>3. Placed(place'[u], expires'[u], timer_ticks', Ahead(u)', Done') BY <1>3, <1>6, <2>2, <3>2
    <3> QED BY <1>3, <1>6, <2>2, <3>1, <3>3 DEF Placed
  <2> QED BY <2>1, <2>2
<1>8. PlaceInv' BY <1>7 DEF PlaceInv
<1> QED BY <1>4, <1>5, <1>6, <1>8

\* add_timer and mod_timer: the expiry lies the delay ahead of the clock.
LEMMA ArmKeeps ==
  ASSUME Inv, NEW t \in Timers, NEW d \in Delays, add_timer(t, d) \/ mod_timer(t, d)
  PROVE  Inv' /\ Active(t)' /\ expires'[t] \in Words
<1> DEFINE x == (ticks + d) % 2 ^ W
           p == attach_timer(x)
           k == Lag + d
<1>0. TypeOK /\ IndexInv /\ PlaceInv /\ LagInv BY DEF Inv
<1>1. /\ place' = [place EXCEPT ![t] = p] /\ expires' = [expires EXCEPT ![t] = x]
      /\ UNCHANGED <<ticks, timer_ticks, index, queued, phase>> /\ phase \in {"off", "handler"}
  BY DEF add_timer, mod_timer, CanUse
<1>2. ticks \in Words /\ timer_ticks \in Words BY <1>0 DEF TypeOK
<1>3. d \in Nat /\ d + MaxLag < Half BY WheelAssumption DEF Half
<1>4. /\ Lag \in Int /\ -1 <= Lag /\ Lag < MaxLag /\ MaxLag \in Nat /\ Half \in Nat /\ Half >= 2
  BY <1>0, Numbers DEF LagInv
<1>5. x \in Words /\ Offset(x, ticks) = d BY <1>2, <1>3, <1>4, Onward
<1> HIDE DEF x
<1>6. -Half <= d + Lag /\ d + Lag < Half - 1 /\ -1 <= d + Lag BY <1>3, <1>4
<1>7. Offset(x, timer_ticks) = d + Lag
  <2>1. -Half <= Offset(x, ticks) + Offset(ticks, timer_ticks) /\ Offset(x, ticks) + Offset(ticks, timer_ticks) < Half
    BY <1>3, <1>4, <1>5, <1>6 DEF Lag
  <2> QED BY <1>2, <1>5, <2>1, OffsetsAdd DEF Lag
<1>8. Offset(x, timer_ticks) \in Int /\ -1 <= Offset(x, timer_ticks) /\ Offset(x, timer_ticks) < Half - 1
  BY <1>3, <1>4, <1>6, <1>7
<1>9. p \in Places /\ Placed(p, x, timer_ticks, Offset(x, timer_ticks), TRUE)
  BY <1>0, <1>2, <1>5, <1>8, AttachPlaces DEF IndexInv
<1>10. p # NoPlace BY <1>9 DEF Places, NoPlace, Levels
<1> HIDE DEF p
<1>11. Done' = Done BY <1>1 DEF Done
<1>12. /\ PlaceInv'
       /\ place' \in [Timers -> Places \cup {NoPlace, Dropped}] /\ expires' \in [Timers -> Words]
       /\ \A u \in Timers : u # t => (Active(u)' <=> Active(u)) /\ Ahead(u)' = Ahead(u)
       /\ Ahead(t)' = Offset(x, timer_ticks) /\ (Active(t)' <=> p # NoPlace)
  BY <1>0, <1>1, <1>5, <1>8, <1>9, <1>11, OneTimer
<1>13. TypeOK' BY <1>0, <1>1, <1>12 DEF TypeOK
<1>14. IndexInv' BY <1>0, <1>1, <1>11 DEF IndexInv
<1>15. Lag' = Lag BY <1>1 DEF Lag
<1>16. LagInv'
  <2>1. ASSUME (phase = "off" /\ ~queued)', NEW u \in Timers, Active(u)' PROVE Ahead(u)' >= Lag'
    <3>1. CASE u = t BY <1>3, <1>4, <1>7, <1>12, <1>15, <3>1
    <3>2. CASE u # t BY <1>0, <1>1, <1>12, <1>15, <2>1, <3>2 DEF LagInv
    <3> QED BY <3>1, <3>2
  <2>2. phase = "off" /\ ~queued => Lag <= 0 BY <1>0 DEF LagInv
  <2> QED BY <1>0, <1>1, <1>11, <1>15, <2>1, <2>2 DEF LagInv
<1> QED BY <1>10, <1>12, <1>13, <1>14, <1>16 DEF Inv

\* del_timer, and a timer that goes off: it is on no list any more.
LEMMA TakeKeeps ==
  ASSUME Inv, NEW t \in Timers, del_timer(t) \/ Fire(t)
  PROVE  Inv' /\ ~Active(t)'
<1>0. TypeOK /\ IndexInv /\ PlaceInv /\ LagInv BY DEF Inv
<1>1. /\ place' = [place EXCEPT ![t] = NoPlace] /\ expires' = [expires EXCEPT ![t] = 0]
      /\ UNCHANGED <<ticks, timer_ticks, index, queued>>
      /\ phase' = phase \/ (phase = "slot" /\ phase' = "handler")
  BY DEF del_timer, Fire, detach_timer
<1>2. Done' = Done /\ phase' \in {"off", "loop", "slot", "handler", "leave"} BY <1>0, <1>1 DEF Done, TypeOK
<1>3. 0 \in Words BY Units DEF Words, M
<1>4. /\ PlaceInv'
      /\ place' \in [Timers -> Places \cup {NoPlace, Dropped}] /\ expires' \in [Timers -> Words]
      /\ \A u \in Timers : u # t => (Active(u)' <=> Active(u)) /\ Ahead(u)' = Ahead(u)
      /\ ~Active(t)'
  BY <1>0, <1>1, <1>2, <1>3, OneTimer
<1>5. TypeOK' BY <1>0, <1>1, <1>2, <1>4 DEF TypeOK
<1>6. IndexInv' BY <1>0, <1>1, <1>2 DEF IndexInv
<1>7. Lag' = Lag BY <1>1 DEF Lag
<1>8. LagInv'
  <2>1. ASSUME (phase = "off" /\ ~queued)', NEW u \in Timers, Active(u)' PROVE Ahead(u)' >= Lag'
    BY <1>0, <1>1, <1>4, <1>7, <2>1 DEF LagInv
  <2>2. phase' = "off" /\ ~queued' => Lag' <= 0 BY <1>0, <1>1, <1>7 DEF LagInv
  <2>3. phase' = "leave" => queued' \/ Lag' = -1 BY <1>0, <1>1, <1>7 DEF LagInv
  <2> QED BY <1>0, <1>2, <1>7, <2>1, <2>2, <2>3 DEF LagInv
<1> QED BY <1>4, <1>5, <1>6, <1>8 DEF Inv

\* Steps that leave the wheel and the timers alone.
LEMMA WheelStands ==
  ASSUME Inv, UNCHANGED <<timer_ticks, index, place, expires>>, Done' = Done
  PROVE  IndexInv' /\ PlaceInv' /\ \A t \in Timers : Active(t)' = Active(t) /\ Ahead(t)' = Ahead(t)
<1>1. \A t \in Timers : Active(t)' = Active(t) /\ Ahead(t)' = Ahead(t) BY DEF Active, Ahead
<1>2. IndexInv' BY DEF Inv, IndexInv
<1>3. PlaceInv' BY <1>1 DEF Inv, PlaceInv
<1> QED BY <1>1, <1>2, <1>3

\* The clock interrupt counts a tick and queues the DPC.
LEMMA TickKeeps ==
  ASSUME Inv, Tick
  PROVE  Inv'
<1>0. TypeOK /\ LagInv BY DEF Inv
<1>1. ticks \in Words /\ timer_ticks \in Words BY <1>0 DEF TypeOK
<1>2. ticks' \in Words /\ Offset(ticks', ticks) = 1 BY <1>1, NextWord DEF Tick
<1>3. Lag < MaxLag - 1 BY DEF Tick, Lag, Offset
<1>4. Lag \in Int /\ -1 <= Lag /\ MaxLag \in Nat /\ MaxLag < Half /\ Half \in Nat BY <1>0, Numbers DEF LagInv
<1>5. Offset(ticks', timer_ticks) = 1 + Lag
  <2>1. /\ -Half <= Offset(ticks', ticks) + Offset(ticks, timer_ticks)
        /\ Offset(ticks', ticks) + Offset(ticks, timer_ticks) < Half
    BY <1>2, <1>3, <1>4 DEF Lag
  <2> QED BY <1>1, <1>2, <2>1, OffsetsAdd DEF Lag
<1>6. Lag' = 1 + Lag BY <1>5 DEF Lag, Tick
<1>7. Done' = Done BY DEF Tick, Done
<1>8. UNCHANGED <<timer_ticks, index, place, expires, phase>> /\ queued' = TRUE BY DEF Tick
<1>9. IndexInv' /\ PlaceInv' BY <1>7, <1>8, WheelStands
<1>10. TypeOK' BY <1>0, <1>2, <1>8 DEF TypeOK
<1>11. LagInv' BY <1>0, <1>3, <1>4, <1>6, <1>7, <1>8 DEF LagInv
<1> QED BY <1>9, <1>10, <1>11 DEF Inv

\* The DPC is started, leaves its loop, and ends; a handler returns.
LEMMA PhaseKeeps ==
  ASSUME Inv, StartDpc \/ LeaveLoop \/ DpcDone \/ HandlerDone
  PROVE  Inv'
<1>0. TypeOK /\ LagInv /\ PlaceInv BY DEF Inv
<1>1. UNCHANGED <<ticks, timer_ticks, index, place, expires>> /\ Done' = Done
  BY DEF StartDpc, LeaveLoop, DpcDone, HandlerDone, Done
<1>2. IndexInv' /\ PlaceInv' /\ \A t \in Timers : Active(t)' = Active(t) /\ Ahead(t)' = Ahead(t)
  BY <1>1, WheelStands
<1>3. TypeOK' BY <1>0, <1>1 DEF StartDpc, LeaveLoop, DpcDone, HandlerDone, TypeOK
<1>4. Lag' = Lag /\ Lag \in Int BY <1>0, <1>1, Numbers DEF Lag
<1>5. CASE StartDpc \/ HandlerDone
  BY <1>0, <1>1, <1>4, <1>5, <1>2, <1>3 DEF StartDpc, HandlerDone, LagInv, Inv
<1>6. CASE LeaveLoop
  <2>1. Lag < 0 /\ phase' = "leave" BY <1>6 DEF LeaveLoop, Lag, Offset
  <2>2. Lag = -1 BY <1>0, <1>4, <2>1 DEF LagInv
  <2> QED BY <1>0, <1>1, <1>2, <1>3, <1>4, <2>1, <2>2 DEF LagInv, Inv
<1>7. CASE DpcDone
  <2>1. phase = "leave" /\ phase' = "off" /\ queued' = queued BY <1>7 DEF DpcDone
  <2>2. queued \/ Lag = -1 BY <1>0, <2>1 DEF LagInv
  <2>3. \A t \in Timers : Active(t)' => Ahead(t)' >= -1
    <3>1. \A t \in Timers : Active(t) => -1 <= Ahead(t) BY <1>0 DEF PlaceInv
    <3>2. \A t \in Timers : Ahead(t) \in Int BY <1>0, Numbers
    <3> QED BY <1>2, <3>1, <3>2
  <2>4. LagInv' BY <1>0, <1>1, <1>4, <2>1, <2>2, <2>3 DEF LagInv
  <2> QED BY <1>2, <1>3, <2>4 DEF Inv
<1> QED BY <1>5, <1>6, <1>7

\* A level above the first is due for cascading only when the first has turned.
LEMMA RootTurns ==
  ASSUME NEW n \in Levels \ {1}, NEW T \in Words, T % Unit(n) = 0
  PROVE  T % TVR_SIZE = 0
<1>1. NOOF_TVECS \in Nat /\ NOOF_TVECS >= 2 BY WheelAssumption
<1>2. 1 \in Levels \ {NOOF_TVECS} /\ 2 \in Levels /\ 2 <= n /\ 1 + 1 = 2 BY <1>1 DEF Levels
<1>3. Unit(2) = Unit(1) * Size(1) /\ Unit(1) = 1 BY <1>2, Units
<1>4. Size(1) = TVR_SIZE /\ TVR_SIZE \in Nat BY SizeNat DEF Size
<1>5. Unit(2) = TVR_SIZE BY <1>3, <1>4
<1>6. T % Unit(2) = 0 BY <1>2, CoarseFine
<1> QED BY <1>5, <1>6

\* The levels that the loop cascades at this tick, none if index[1] is not 0.
Due == {n \in Levels \ {1} : timer_ticks % Unit(n) = 0}

\* What NextTick does, in these terms.
LEMMA NextTickIs ==
  ASSUME Inv, NextTick
  PROVE  /\ phase = "loop" /\ phase' = "slot" /\ UNCHANGED <<ticks, timer_ticks, expires, queued>>
         /\ place' = [t \in Timers |->
              IF place[t][1] \in Due /\ place[t][2] = index[place[t][1]]
                THEN IF attach_timer(expires[t]) = place[t] THEN Dropped ELSE attach_timer(expires[t])
                ELSE place[t]]
         /\ index' = [n \in Levels |-> IF n \in Due THEN (index[n] + 1) % Size(n) ELSE index[n]]
<1>0. TypeOK /\ IndexInv BY DEF Inv
<1>1. /\ phase = "loop" /\ phase' = "slot" /\ UNCHANGED <<ticks, timer_ticks, expires, queued>>
      /\ IF index[1] = 0 THEN cascade_timers ELSE UNCHANGED <<place, index>>
  BY DEF NextTick
<1>2. ~Done BY <1>1 DEF Done
<1>3. timer_ticks \in Words /\ index[1] = timer_ticks % TVR_SIZE BY <1>0 DEF TypeOK, IndexInv
<1>4. \A n \in Levels \ {1} : index[n] = Reached(n, timer_ticks, FALSE) BY <1>0, <1>2 DEF IndexInv, Reached
<1>5. CASE index[1] = 0
  <2>1. Cascading = Due BY <1>3, <1>4, <1>5, CascadeLevels DEF Due
  <2> QED BY <1>1, <1>5, <2>1 DEF cascade_timers
<1>6. CASE index[1] # 0
  <2>1. Due = {} BY <1>3, <1>6, RootTurns DEF Due
  <2>2. place = [t \in Timers |-> place[t]] /\ index = [n \in Levels |-> index[n]] BY <1>0 DEF TypeOK
  <2>3. place' = place /\ index' = index BY <1>1, <1>6
  <2> QED BY <1>1, <2>1, <2>2, <2>3
<1> QED BY <1>5, <1>6

\* The levels turn with the tick.
LEMMA IndexTurns ==
  ASSUME Inv, NextTick
  PROVE  IndexInv' /\ index' \in [Levels -> Nat] /\ \A n \in Levels : index'[n] < Size(n)
<1>0. TypeOK /\ IndexInv BY DEF Inv
<1>1. /\ phase = "loop" /\ phase' = "slot" /\ timer_ticks' = timer_ticks
      /\ index' = [n \in Levels |-> IF n \in Due THEN (index[n] + 1) % Size(n) ELSE index[n]]
  BY NextTickIs
<1>2. ~Done /\ Done' BY <1>1 DEF Done
<1>3. 1 \in Levels /\ 1 \notin Due BY WheelAssumption DEF Levels, Due
<1>4. timer_ticks \in Words /\ index \in [Levels -> Nat] /\ \A n \in Levels : index[n] < Size(n)
  BY <1>0 DEF TypeOK
<1>5. index'[1] = timer_ticks' % TVR_SIZE BY <1>0, <1>1, <1>3 DEF IndexInv
<1>6. ASSUME NEW n \in Levels \ {1} PROVE index'[n] = Reached(n, timer_ticks, TRUE)
  <2> DEFINE T == timer_ticks
             q == T \div Unit(n)
             S == Size(n)
  <2>1. T \in Int /\ Unit(n) \in Nat \ {0} /\ S \in Nat \ {0} BY <1>4, Units, SizeNat DEF Words, M
  <2>2. q \in Int BY <2>1, Division
  <2>3. index[n] = Reached(n, T, FALSE) BY <1>0, <1>2 DEF IndexInv, Reached
  <2>4. Reached(n, T, TRUE) = (q + 1) % S BY DEF Reached
  <2>5. CASE n \in Due
    <3>1. T % Unit(n) = 0 BY <2>5 DEF Due
    <3>2. index[n] = (q + 0) % S BY <2>3, <3>1 DEF Reached
    <3>3. index'[n] = (index[n] + 1) % S BY <1>1, <2>5
    <3> HIDE DEF q, S
    <3>4. index[n] = q % S BY <2>2, <3>2
    <3> DEFINE e == q \div S
               r == q % S
               a == q + 1
               b == r + 1
    <3>5. e \in Int /\ r \in Int /\ q = (S * e) + r BY <2>1, <2>2, Division
    <3> HIDE DEF e, r
    <3>6. a \in Int /\ b \in Int /\ a = b + (S * e) BY <2>1, <2>2, <3>5
    <3> HIDE DEF a, b
    <3>7. a % S = b % S
      <4>1. (b + (S * e)) % S = b % S BY <2>1, <3>5, <3>6, SameRemainder, Zenon
      <4> QED BY <3>6, <4>1, Zenon
    <3> QED BY <2>4, <3>3, <3>4, <3>7 DEF a, b, r
  <2>6. CASE n \notin Due
    <3>1. T % Unit(n) # 0 BY <2>6 DEF Due
    <3>2. index[n] = (q + 1) % S BY <2>3, <3>1 DEF Reached
    <3>3. index'[n] = index[n] BY <1>1, <2>6
    <3> QED BY <2>4, <3>2, <3>3
  <2> QED BY <2>5, <2>6
<1>7. IndexInv' BY <1>1, <1>2, <1>5, <1>6 DEF IndexInv, Reached
<1>8. ASSUME NEW n \in Levels PROVE index'[n] \in Nat /\ index'[n] < Size(n)
  <2>1. CASE n \notin Due BY <1>1, <1>4, <2>1
  <2>2. CASE n \in Due
    <3> DEFINE a == index[n] + 1
    <3>1. a \in Int /\ Size(n) \in Nat \ {0} BY <1>4, SizeNat
    <3>2. index'[n] = a % Size(n) BY <1>1, <2>2
    <3> HIDE DEF a
    <3>3. a % Size(n) \in 0 .. (Size(n) - 1) BY <3>1, Division
    <3> QED BY <3>1, <3>2, <3>3
  <2> QED BY <2>1, <2>2
<1>9. index' \in [Levels -> Nat] BY <1>1, <1>8
<1> QED BY <1>7, <1>8, <1>9

\* NextTick: a timer of a list that is emptied goes to a lower level, the
\* others were not due yet.
LEMMA NextTickKeeps ==
  ASSUME Inv, NextTick
  PROVE  Inv' /\ \A t \in Timers : Active(t)' <=> Active(t)
<1>0. TypeOK /\ IndexInv /\ PlaceInv /\ LagInv BY DEF Inv
<1>1. /\ phase = "loop" /\ phase' = "slot" /\ UNCHANGED <<ticks, timer_ticks, expires, queued>>
      /\ place' = [t \in Timers |->
           IF place[t][1] \in Due /\ place[t][2] = index[place[t][1]]
             THEN IF attach_timer(expires[t]) = place[t] THEN Dropped ELSE attach_timer(expires[t])
             ELSE place[t]]
  BY NextTickIs
<1>2. ~Done /\ Done' BY <1>1 DEF Done
<1>3. timer_ticks \in Words /\ index[1] = timer_ticks % TVR_SIZE /\ place \in [Timers -> Places \cup {NoPlace, Dropped}]
  BY <1>0 DEF TypeOK, IndexInv
<1>4. IndexInv' /\ index' \in [Levels -> Nat] /\ \A n \in Levels : index'[n] < Size(n) BY IndexTurns
<1>5. ASSUME NEW t \in Timers, ~Active(t) PROVE ~Active(t)' /\ place'[t] = NoPlace
  <2>1. place[t] = NoPlace BY <1>5 DEF Active
  <2>2. place[t][1] \notin Due BY <2>1, WheelAssumption DEF NoPlace, Due, Levels
  <2>3. place'[t] = NoPlace BY <1>1, <2>1, <2>2
  <2> QED BY <2>3 DEF Active
<1>6. ASSUME NEW t \in Timers, Active(t)
      PROVE  place'[t] \in Places /\ Placed(place'[t], expires[t], timer_ticks, Ahead(t), TRUE)
  <2> DEFINE p == place[t]
             x == expires[t]
             k == Ahead(t)
             T == timer_ticks
             a == attach_timer(x)
  <2>1. p \in Places /\ -1 <= k /\ k < Half - 1 /\ Placed(p, x, T, k, FALSE)
    BY <1>0, <1>2, <1>6 DEF PlaceInv, Placed
  <2>2. x \in Words /\ k \in Int /\ k = Offset(x, T) BY <1>0, Numbers DEF Ahead
  <2>3. /\ a \in Places /\ Placed(a, x, T, k, TRUE)
        /\ \A n \in Levels \ {1} : k < Unit(n) => a[1] < n
    BY <1>3, <2>1, <2>2, AttachPlaces
  <2> HIDE DEF a
  <2>4. CASE p[1] \in Due /\ p[2] = index[p[1]]
    <3> DEFINE n == p[1]
    <3>1. n \in Levels \ {1} /\ T % Unit(n) = 0 BY <2>4 DEF Due
    <3>2. /\ p[2] = Slot(n, x) /\ x % Unit(n) <= k /\ k - (x % Unit(n)) < Unit(n) * Size(n)
      BY <2>1, <3>1 DEF Placed
    <3>3. index[n] = (T \div Unit(n)) % Size(n)
      <4>1. index[n] = Reached(n, T, FALSE) BY <1>0, <1>2, <3>1 DEF IndexInv, Reached
      <4>2. T \in Int /\ Unit(n) \in Nat \ {0} BY <1>3, <3>1, Units DEF Words, M
      <4>3. T \div Unit(n) \in Int BY <4>2, Division
      <4> QED BY <3>1, <4>1, <4>3 DEF Reached
    <3>4. Slot(n, x) = (T \div Unit(n)) % Size(n) BY <2>4, <3>2, <3>3
    <3>5. k < Unit(n) BY <1>3, <2>2, <3>1, <3>2, <3>4, SlotReached
    <3>6. a[1] < n BY <2>3, <3>1, <3>5
    <3>7. n \in Nat BY <3>1, WheelAssumption DEF Levels
    <3>8. a # p BY <3>6, <3>7
    <3>9. place'[t] = a BY <1>1, <2>4, <3>8 DEF a
    <3> QED BY <2>3, <3>9
  <2>5. CASE ~(p[1] \in Due /\ p[2] = index[p[1]])
    <3>1. place'[t] = p BY <1>1, <2>5
    <3>2. Placed(p, x, T, k, TRUE)
      <4>1. CASE p[1] = 1 BY <2>1, <4>1 DEF Placed
      <4>2. CASE p[1] # 1
        <5> DEFINE n == p[1]
        <5>1. /\ n \in Levels \ {1} /\ p[2] = Slot(n, x)
              /\ x % Unit(n) <= k /\ k - (x % Unit(n)) < Unit(n) * Size(n)
          BY <2>1, <4>2 DEF Placed
        <5>2. x % Unit(n) # k
          <6> SUFFICES ASSUME x % Unit(n) = k PROVE FALSE OBVIOUS
          <6>1. T % Unit(n) = 0 /\ Slot(n, x) = (T \div Unit(n)) % Size(n)
            BY <1>3, <2>2, <5>1, SlotBegins
          <6>2. n \in Due BY <5>1, <6>1 DEF Due
          <6>3. index[n] = (T \div Unit(n)) % Size(n)
            <7>1. index[n] = Reached(n, T, FALSE) BY <1>0, <1>2, <5>1 DEF IndexInv, Reached
            <7>2. T \in Int /\ Unit(n) \in Nat \ {0} BY <1>3, <5>1, Units DEF Words, M
            <7>3. T \div Unit(n) \in Int BY <7>2, Division
            <7> QED BY <6>1, <7>1, <7>3 DEF Reached
          <6> QED BY <2>5, <5>1, <6>1, <6>2, <6>3
        <5>3. x \in Int /\ Unit(n) \in Nat \ {0} BY <2>2, <5>1, Units DEF Words, M
        <5>4. x % Unit(n) \in Int BY <5>3, Division
        <5>5. x % Unit(n) < k BY <2>2, <5>1, <5>2, <5>4
        <5> QED BY <5>1, <5>5 DEF Placed
      <4> QED BY <4>1, <4>2
    <3> QED BY <2>1, <3>1, <3>2
  <2> QED BY <2>4, <2>5
<1>7. \A p \in Places : p # NoPlace
  BY WheelAssumption DEF Places, NoPlace, Levels
<1>8. \A t \in Timers : Active(t)' <=> Active(t) BY <1>5, <1>6, <1>7 DEF Active
<1>9. \A t \in Timers : Ahead(t)' = Ahead(t) BY <1>1 DEF Ahead
<1>10. PlaceInv'
  <2> SUFFICES ASSUME NEW t \in Timers, Active(t)'
               PROVE  /\ place'[t] \in Places /\ -1 <= Ahead(t)' /\ Ahead(t)' < Half - 1
                      /\ Placed(place'[t], expires'[t], timer_ticks', Ahead(t)', Done')
    BY DEF PlaceInv
  <2>1. Active(t) BY <1>8
  <2>2. place'[t] \in Places /\ Placed(place'[t], expires[t], timer_ticks, Ahead(t), TRUE) BY <1>6, <2>1
  <2>3. -1 <= Ahead(t) /\ Ahead(t) < Half - 1 BY <1>0, <2>1 DEF PlaceInv
  <2>4. Placed(place'[t], expires'[t], timer_ticks', Ahead(t)', Done') BY <1>1, <1>2, <1>9, <2>2 DEF Placed
  <2> QED BY <1>9, <2>2, <2>3, <2>4
<1>11. TypeOK'
  <2>1. \A t \in Timers : place'[t] \in Places \cup {NoPlace, Dropped} BY <1>5, <1>6
  <2>2. place' \in [Timers -> Places \cup {NoPlace, Dropped}] BY <1>1, <2>1
  <2> QED BY <1>0, <1>1, <1>4, <2>2 DEF TypeOK
<1>12. LagInv'
  <2>1. Lag' = Lag /\ Lag >= 0 BY <1>1 DEF Lag, Offset, NextTick
  <2> QED BY <1>0, <1>1, <2>1 DEF LagInv
<1> QED BY <1>4, <1>8, <1>10, <1>11, <1>12 DEF Inv

\* Whoever is active when the list of the tick is empty expires later.
LEMMA NoneLeft ==
  ASSUME Inv, Done, NEW t \in Timers, Active(t), ~InSlot(t)
  PROVE  Ahead(t) \in Int /\ Ahead(t) >= 1
<1> DEFINE p == place[t]
           x == expires[t]
           k == Ahead(t)
           T == timer_ticks
<1>1. TypeOK /\ IndexInv /\ PlaceInv BY DEF Inv
<1>2. p \in Places /\ Placed(p, x, T, k, TRUE) BY <1>1 DEF PlaceInv, Placed
<1>3. x \in Words /\ T \in Words /\ k \in Int /\ k = Offset(x, T) BY <1>1, Numbers DEF Ahead, TypeOK
<1>4. x \in Int /\ T \in Int BY <1>3, Units DEF Words, M
<1>5. p = <<p[1], p[2]>> BY <1>2 DEF Places
<1>6. ~(p[1] = 1 /\ p[2] = T % TVR_SIZE) BY <1>1, <1>5 DEF InSlot, IndexInv
<1>7. ASSUME k = 0 PROVE x = T
  <2>1. PICK j \in {-1, 0, 1} : x = T + k + (M * j) BY <1>3, OffsetFacts
  <2>2. M \in Nat \ {0} /\ x \in 0 .. (M - 1) /\ T \in 0 .. (M - 1) BY <1>3, Units DEF Words, M
  <2>3. M * (-1) = -M /\ M * 0 = 0 /\ M * 1 = M BY <2>2
  <2>4. j = -1 \/ j = 0 \/ j = 1 OBVIOUS
  <2> HIDE DEF k, x, T
  <2> QED BY <1>7, <2>1, <2>2, <2>3, <2>4
<1>8. CASE p[1] = 1
  <2>1. k # -1 /\ 0 <= k /\ p[2] = x % TVR_SIZE BY <1>2, <1>6, <1>8 DEF Placed
  <2>2. k # 0 BY <1>6, <1>7, <1>8, <2>1
  <2>3. k >= 1 BY <1>3, <2>1, <2>2
  <2> QED BY <1>3, <2>3
<1>9. CASE p[1] # 1
  <2>1. p[1] \in Levels /\ x % Unit(p[1]) < k BY <1>2, <1>9 DEF Placed
  <2>2. x % Unit(p[1]) \in 0 .. (Unit(p[1]) - 1) BY <1>4, <2>1, Units, Division
  <2>3. k >= 1
    <3> DEFINE r == x % Unit(p[1])
               u == Unit(p[1])
    <3>1. u \in Nat BY <2>1, Units
    <3> HIDE DEF r, u, k
    <3>2. r \in 0 .. (u - 1) /\ r < k BY <2>1, <2>2 DEF r, u
    <3> QED BY <1>3, <3>1, <3>2
  <2> QED BY <1>3, <2>3
<1> QED BY <1>8, <1>9

\* SlotDone: the wheel is at the next tick, and every timer one tick nearer.
LEMMA SlotDoneKeeps ==
  ASSUME Inv, SlotDone
  PROVE  Inv' /\ \A t \in Timers : Active(t)' => Ahead(t)' >= 0
<1>0. TypeOK /\ IndexInv /\ PlaceInv /\ LagInv BY DEF Inv
<1> DEFINE T == timer_ticks
           Z == (T + 1) % 2 ^ W
<1>1. /\ phase = "slot" /\ phase' = "loop" /\ timer_ticks' = Z
      /\ index' = [index EXCEPT ![1] = (index[1] + 1) % TVR_SIZE]
      /\ UNCHANGED <<ticks, place, expires, queued>>
      /\ \A t \in Timers : ~InSlot(t)
  BY DEF SlotDone
<1>2. Done /\ ~Done' BY <1>1 DEF Done
<1>3. T \in Words /\ ticks \in Words BY <1>0 DEF TypeOK
<1>4. Z \in Words /\ Offset(T, Z) = -1 BY <1>3, NextWord
<1>5. 1 \in Levels BY WheelAssumption DEF Levels
<1>6. index \in [Levels -> Nat] /\ \A n \in Levels : index[n] < Size(n) BY <1>0 DEF TypeOK
<1>7. index'[1] = Z % TVR_SIZE
  <2>1. index'[1] = ((T % TVR_SIZE) + 1) % TVR_SIZE BY <1>0, <1>1, <1>5, <1>6 DEF IndexInv
  <2> QED BY <1>3, <2>1, RootStep
<1>8. \A n \in Levels \ {1} : index'[n] = index[n] BY <1>1, <1>6
<1>9. IndexInv'
  <2>1. ASSUME NEW n \in Levels \ {1} PROVE index'[n] = Reached(n, Z, FALSE)
    <3>1. index[n] = Reached(n, T, TRUE) BY <1>0, <1>2 DEF IndexInv, Reached
    <3> QED BY <1>3, <1>8, <3>1, TurnStep
  <2> HIDE DEF Z
  <2> QED BY <1>1, <1>2, <1>7, <2>1 DEF IndexInv, Reached
<1>10. index' \in [Levels -> Nat] /\ \A n \in Levels : index'[n] < Size(n)
  <2>1. Z \in Int /\ TVR_SIZE \in Nat \ {0} BY <1>4, Units, SizeNat DEF Words, M
  <2> HIDE DEF Z
  <2>2. Z % TVR_SIZE \in 0 .. (TVR_SIZE - 1) BY <2>1, Division
  <2>3. index'[1] \in Nat /\ index'[1] < Size(1) BY <1>7, <2>1, <2>2 DEF Size
  <2>4. \A n \in Levels : index'[n] \in Nat /\ index'[n] < Size(n) BY <1>6, <1>8, <2>3
  <2>5. DOMAIN index' = Levels /\ index' = [n \in Levels |-> index'[n]] BY <1>1, <1>6
  <2> QED BY <2>4, <2>5
<1> HIDE DEF Z
<1>11. TypeOK' BY <1>0, <1>1, <1>4, <1>10 DEF TypeOK
<1>12. Half \in Nat /\ Half >= 2 BY Units
<1>13. ASSUME NEW t \in Timers, Active(t)'
       PROVE  /\ place'[t] \in Places /\ 0 <= Ahead(t)' /\ Ahead(t)' < Half - 1 /\ Ahead(t)' \in Int
              /\ Placed(place'[t], expires'[t], timer_ticks', Ahead(t)', Done')
  <2> DEFINE p == place[t]
             x == expires[t]
             k == Ahead(t)
  <2>1. Active(t) BY <1>1, <1>13 DEF Active
  <2>2. k \in Int /\ k >= 1 BY <1>1, <1>2, <2>1, NoneLeft
  <2>3. p \in Places /\ k < Half - 1 /\ Placed(p, x, T, k, TRUE) BY <1>0, <1>2, <2>1 DEF PlaceInv, Placed
  <2>4. x \in Words /\ Offset(x, T) = k BY <1>0, Numbers DEF Ahead
  <2>5. Offset(x, Z) = k - 1
    <3>1. -Half <= Offset(x, T) + Offset(T, Z) /\ Offset(x, T) + Offset(T, Z) < Half
      BY <1>4, <1>12, <2>2, <2>3, <2>4
    <3>2. Offset(x, Z) = Offset(x, T) + Offset(T, Z) BY <1>3, <1>4, <2>4, <3>1, OffsetsAdd
    <3> QED BY <1>4, <2>2, <2>4, <3>2
  <2>6. Ahead(t)' = k - 1 BY <1>1, <2>5 DEF Ahead
  <2>7. Placed(p, x, Z, k - 1, FALSE)
    <3>1. CASE p[1] = 1
      <4>1. TVR_SIZE \in Nat BY SizeNat
      <4>2. k < TVR_SIZE /\ p[2] = x % TVR_SIZE BY <2>2, <2>3, <3>1 DEF Placed
      <4>3. 0 <= k - 1 /\ k - 1 < TVR_SIZE BY <2>2, <4>1, <4>2
      <4> QED BY <3>1, <4>2, <4>3 DEF Placed
    <3>2. CASE p[1] # 1
      <4> DEFINE u == Unit(p[1])
                 r == x % u
                 s == u * Size(p[1])
      <4>1. p[1] \in Levels \ {1} /\ p[2] = Slot(p[1], x) /\ r < k /\ k - r < s
        BY <2>3, <3>2 DEF Placed
      <4>2. x \in Int /\ u \in Nat \ {0} /\ Size(p[1]) \in Nat BY <2>4, <4>1, Units, SizeNat DEF Words, M
      <4>3. r \in Int BY <4>2, Division
      <4>4. s \in Int BY <4>2
      <4> HIDE DEF r, s, k
      <4>5. r <= k - 1 /\ (k - 1) - r < s BY <2>2, <4>1, <4>3, <4>4
      <4> QED BY <4>1, <4>5 DEF Placed, r, s
    <3> QED BY <3>1, <3>2
  <2>8. Placed(place'[t], expires'[t], timer_ticks', Ahead(t)', Done') BY <1>1, <1>2, <2>6, <2>7 DEF Placed
  <2> QED BY <1>1, <1>12, <2>2, <2>3, <2>6, <2>8
<1>14. PlaceInv' BY <1>13 DEF PlaceInv
<1>15. LagInv'
  <2>1. Lag \in Int /\ Lag >= 0 /\ Lag < MaxLag /\ MaxLag \in Nat /\ MaxLag < Half
    BY <1>0, <1>2, Numbers DEF LagInv
  <2>2. -Half <= Offset(ticks, T) + Offset(T, Z) /\ Offset(ticks, T) + Offset(T, Z) < Half
    BY <1>4, <1>12, <2>1 DEF Lag
  <2>3. Offset(ticks, Z) = Offset(ticks, T) + Offset(T, Z) BY <1>3, <1>4, <2>2, OffsetsAdd
  <2>4. Offset(ticks, Z) = Lag - 1 BY <1>4, <2>1, <2>3 DEF Lag
  <2>5. Lag' = Lag - 1 BY <1>1, <2>4 DEF Lag
  <2> QED BY <1>1, <1>2, <2>1, <2>5 DEF LagInv
<1> QED BY <1>9, <1>11, <1>13, <1>14, <1>15 DEF Inv

-----------------------------------------------------------------------------
(* The theorems.                                                           *)

\* Everything is 0, and no timer is active.
LEMMA InitInv ==
  ASSUME Init
  PROVE  Inv
<1>0. M \in Nat \ {0} /\ Half \in Nat /\ Half >= 2 BY Units
<1>1. 0 \in Words BY <1>0 DEF Words, M
<1>2. ticks = 0 /\ timer_ticks = 0 /\ phase = "off" /\ ~Done BY DEF Init, Done
<1>3. \A t \in Timers : ~Active(t) BY DEF Init, Active
<1>4. TypeOK
  <2>1. index = [n \in Levels |-> 0] /\ \A n \in Levels : Size(n) \in Nat /\ Size(n) >= 2 BY SizeNat DEF Init
  <2>2. index \in [Levels -> Nat] /\ \A n \in Levels : index[n] < Size(n) BY <2>1
  <2> QED BY <1>1, <2>2 DEF Init, TypeOK
<1>5. \A m \in Nat \ {0} : 0 % m = 0 /\ 0 \div m = 0
  <2> TAKE m \in Nat \ {0}
  <2>1. 0 = (m * 0) + 0 /\ 0 \in 0 .. (m - 1) OBVIOUS
  <2> QED BY <2>1, DivisionUnique
<1>6. IndexInv
  <2>1. 1 \in Levels /\ TVR_SIZE \in Nat \ {0} BY SizeNat, WheelAssumption DEF Levels
  <2>2. index[1] = timer_ticks % TVR_SIZE BY <1>2, <1>5, <2>1 DEF Init
  <2>3. ASSUME NEW n \in Levels \ {1} PROVE index[n] = Reached(n, timer_ticks, Done)
    <3>1. Unit(n) \in Nat \ {0} /\ Size(n) \in Nat \ {0} BY Units, SizeNat
    <3>2. (0 \div Unit(n)) + (IF 0 % Unit(n) = 0 /\ ~Done THEN 0 ELSE 1) = 0 BY <1>2, <1>5, <3>1
    <3>3. Reached(n, 0, Done) = 0 BY <1>5, <3>1, <3>2 DEF Reached
    <3> QED BY <1>2, <3>3 DEF Init
  <2> QED BY <2>2, <2>3 DEF IndexInv
<1>7. Lag = 0
  <2>1. 0 = 0 + 0 /\ -Half <= 0 /\ 0 < Half BY <1>0
  <2> QED BY <1>1, <1>2, <2>1, OffsetIs DEF Lag
<1>8. LagInv BY <1>2, <1>3, <1>7, WheelAssumption DEF LagInv
<1> QED BY <1>3, <1>4, <1>6, <1>8 DEF Inv, PlaceInv

\* No step leaves the invariant.
LEMMA NextInv ==
  ASSUME Inv, [Next]_vars
  PROVE  Inv'
<1>1. CASE Tick BY <1>1, TickKeeps
<1>2. CASE StartDpc \/ LeaveLoop \/ DpcDone \/ HandlerDone BY <1>2, PhaseKeeps
<1>3. CASE NextTick BY <1>3, NextTickKeeps
<1>4. CASE SlotDone BY <1>4, SlotDoneKeeps
<1>5. ASSUME NEW t \in Timers, Fire(t) \/ del_timer(t) PROVE Inv' BY <1>5, TakeKeeps
<1>6. ASSUME NEW t \in Timers, NEW d \in Delays, add_timer(t, d) \/ mod_timer(t, d) PROVE Inv'
  BY <1>6, ArmKeeps
<1>7. CASE UNCHANGED vars
  <2>1. UNCHANGED <<ticks, timer_ticks, index, place, expires, queued, phase>> BY <1>7 DEF vars
  <2>2. Done' = Done /\ Lag' = Lag BY <2>1 DEF Done, Lag
  <2>3. IndexInv' /\ PlaceInv' /\ \A t \in Timers : Active(t)' = Active(t) /\ Ahead(t)' = Ahead(t)
    BY <2>1, <2>2, WheelStands
  <2>4. TypeOK' BY <2>1 DEF Inv, TypeOK
  <2>5. LagInv' BY <2>1, <2>2, <2>3 DEF Inv, LagInv
  <2> QED BY <2>3, <2>4, <2>5 DEF Inv
<1> QED BY <1>1, <1>2, <1>3, <1>4, <1>5, <1>6, <1>7 DEF Next

\* The invariant of the wheel.
LEMMA WheelInv == Spec => []Inv
<1>1. Init => Inv BY InitInv
<1>2. Inv /\ [Next]_vars => Inv' BY NextInv
<1> QED BY <1>1, <1>2, PTL DEF Spec

\* At rest no timer is overdue (NoneOverdue), for every size of the wheel: what
\* lies between the wheel and the clock then is at most a tick that has not
\* come, and no timer expires before the clock.
THEOREM AllOnTime == Spec => []NoneOverdue
<1>1. ASSUME Inv PROVE NoneOverdue
  <2>0. TypeOK /\ PlaceInv /\ LagInv BY <1>1 DEF Inv
  <2> SUFFICES ASSUME phase = "off", ~queued, NEW t \in Timers, Active(t)
               PROVE  ~Behind(expires[t], ticks)
    BY <2>0 DEF NoneOverdue
  <2>1. /\ Lag \in Int /\ -1 <= Lag /\ Lag <= 0 /\ Ahead(t) \in Int /\ Ahead(t) >= Lag
        /\ Ahead(t) < Half - 1 /\ Half \in Nat /\ Half >= 2
    BY <2>0, Numbers DEF LagInv, PlaceInv
  <2>2. ticks \in Words /\ timer_ticks \in Words /\ expires[t] \in Words BY <2>0, Numbers DEF TypeOK
  <2>3. Offset(timer_ticks, ticks) = -Lag
    <3>1. PICK j \in {-1, 0, 1} : ticks = timer_ticks + Lag + (M * j) BY <2>2, OffsetFacts DEF Lag
    <3>2. M \in Nat /\ ticks \in Int /\ timer_ticks \in Int BY <2>2, Units DEF Words, M
    <3>3. M * (-1) = -M /\ M * 0 = 0 /\ M * 1 = M BY <3>2
    <3>4. j = -1 \/ j = 0 \/ j = 1 OBVIOUS
    <3>5. \/ timer_ticks = ticks + (-Lag) \/ timer_ticks = ticks + (-Lag) + M
          \/ timer_ticks = ticks + (-Lag) - M
      BY <2>1, <3>1, <3>2, <3>3, <3>4
    <3>6. -Lag \in Int /\ -Half <= -Lag /\ -Lag < Half BY <2>1
    <3> QED BY <2>2, <3>5, <3>6, OffsetIs
  <2>4. Offset(expires[t], ticks) = Ahead(t) - Lag
    <3>1. /\ -Half <= Offset(expires[t], timer_ticks) + Offset(timer_ticks, ticks)
          /\ Offset(expires[t], timer_ticks) + Offset(timer_ticks, ticks) < Half
      BY <2>1, <2>3 DEF Ahead
    <3>2. Offset(expires[t], ticks) = Offset(expires[t], timer_ticks) + Offset(timer_ticks, ticks)
      BY <2>2, <3>1, OffsetsAdd
    <3> QED BY <2>1, <2>3, <3>2 DEF Ahead
  <2>5. ~(Offset(expires[t], ticks) < 0) BY <2>1, <2>4
  <2> QED BY <2>5 DEF Behind, Offset
<1> QED BY <1>1, WheelInv, PTL

\* When a timer goes off, as the service sees it.
DueTime(t) ==
  IF ~Active(t) THEN -1
  ELSE IF Behind(expires[t], timer_ticks) THEN timer_ticks
  ELSE expires[t]

\* An active timer is due at a tick: at that of the wheel if it is late or
\* expires now, else later.
DueInv ==
  \A t \in Timers :
    /\ ~Active(t) => DueTime(t) = -1
    /\ Active(t) => /\ DueTime(t) \in Words
                    /\ Ahead(t) < 1 => DueTime(t) = timer_ticks
                    /\ Ahead(t) >= 0 => DueTime(t) = expires[t]
                    /\ Ahead(t) >= 1 => DueTime(t) # timer_ticks

\* The invariant says so.
LEMMA DueTimeIs == Inv => DueInv
<1> SUFFICES ASSUME Inv, NEW t \in Timers
             PROVE  /\ ~Active(t) => DueTime(t) = -1
                    /\ Active(t) => /\ DueTime(t) \in Words
                                    /\ Ahead(t) < 1 => DueTime(t) = timer_ticks
                                    /\ Ahead(t) >= 0 => DueTime(t) = expires[t]
                                    /\ Ahead(t) >= 1 => DueTime(t) # timer_ticks
  BY DEF DueInv
<1>0. TypeOK /\ PlaceInv BY DEF Inv
<1>1. timer_ticks \in Words /\ expires[t] \in Words /\ Ahead(t) \in Int BY <1>0, Numbers DEF TypeOK
<1>2. Behind(expires[t], timer_ticks) <=> Ahead(t) < 0 BY DEF Behind, Ahead, Offset
<1>3. expires[t] = timer_ticks <=> Ahead(t) = 0
  <2>1. PICK j \in {-1, 0, 1} : expires[t] = timer_ticks + Ahead(t) + (M * j) BY <1>1, OffsetFacts DEF Ahead
  <2>2. M \in Nat \ {0} /\ Half \in Nat /\ Half >= 2 /\ expires[t] \in 0 .. (M - 1) /\ timer_ticks \in 0 .. (M - 1)
    BY <1>1, Units DEF Words, M
  <2>3. M * (-1) = -M /\ M * 0 = 0 /\ M * 1 = M BY <2>2
  <2>4. j = -1 \/ j = 0 \/ j = 1 OBVIOUS
  <2>5. Ahead(t) = 0 => expires[t] = timer_ticks BY <2>1, <2>2, <2>3, <2>4
  <2>6. ASSUME expires[t] = timer_ticks PROVE Ahead(t) = 0
    <3>1. expires[t] = timer_ticks + 0 /\ -Half <= 0 /\ 0 < Half BY <2>2, <2>6
    <3> QED BY <1>1, <3>1, OffsetIs DEF Ahead
  <2> QED BY <2>5, <2>6
<1>4. CASE ~Active(t) BY <1>4 DEF DueTime
<1>5. CASE Active(t) /\ Ahead(t) < 0 BY <1>1, <1>2, <1>5 DEF DueTime
<1>6. CASE Active(t) /\ Ahead(t) = 0 BY <1>1, <1>2, <1>3, <1>6 DEF DueTime
<1>7. CASE Active(t) /\ Ahead(t) > 0 BY <1>1, <1>2, <1>3, <1>7 DEF DueTime
<1> QED BY <1>1, <1>4, <1>5, <1>6, <1>7

\* And of the state after a step.
LEMMA DueTimeNext == Inv' => DueInv'
BY DueTimeIs, PTL

\* Every step of the wheel is a step of the service or none.
LEMMA ServiceStep ==
  ASSUME Inv, [Next]_vars
  PROVE  [Service!Next]_Service!vars
<1> DEFINE due == [t \in Timers |-> DueTime(t)]
<1>0. TypeOK /\ Inv' BY NextInv DEF Inv
<1>1. /\ due \in [Timers -> Words \cup {-1}] /\ due' \in [Timers -> Words \cup {-1}]
      /\ \A t \in Timers : due[t] = DueTime(t) /\ due'[t] = DueTime(t)'
  <2>1. \A t \in Timers : DueTime(t) \in Words \cup {-1} BY DueTimeIs DEF DueInv
  <2>2. \A t \in Timers : DueTime(t)' \in Words \cup {-1} BY <1>0, DueTimeNext DEF DueInv
  <2> QED BY <2>1, <2>2
<1>2. /\ Service!vars = <<timer_ticks, due>>
      /\ \A t \in Timers :
           /\ Service!Fire(t) <=> /\ due[t] = timer_ticks /\ due' = [due EXCEPT ![t] = -1]
                                  /\ UNCHANGED timer_ticks
           /\ Service!Cancel(t) <=> due' = [due EXCEPT ![t] = -1] /\ UNCHANGED timer_ticks
  BY DEF Service!vars, Service!Fire, Service!Cancel, DueTime
<1>3. \A t \in Timers :
        Service!Set(t) <=> /\ due' \in [Timers -> Words \cup {-1}] /\ due'[t] \in Words
                           /\ \A u \in Timers \ {t} : due'[u] = due[u]
                           /\ UNCHANGED timer_ticks
  BY DEF Service!Set, DueTime
<1>4. Service!Advance <=> /\ \A t \in Timers : due[t] # timer_ticks
                          /\ timer_ticks' = IF timer_ticks + 1 \in Words THEN timer_ticks + 1 ELSE 0
                          /\ UNCHANGED due
  BY DEF Service!Advance, DueTime
<1>5. Service!Next <=> \/ Service!Advance
                       \/ \E t \in Timers : Service!Fire(t) \/ Service!Cancel(t) \/ Service!Set(t)
  BY DEF Service!Next
<1>6. timer_ticks \in Words /\ -1 \notin Words BY <1>0, Units DEF TypeOK, Words, M
<1>7. DueInv /\ DueInv' BY <1>0, DueTimeIs, DueTimeNext
<1> HIDE DEF due
<1>8. ASSUME UNCHANGED timer_ticks, \A t \in Timers : DueTime(t)' = DueTime(t)
      PROVE  UNCHANGED Service!vars
  <2>1. due' = due BY <1>1, <1>8
  <2> QED BY <1>2, <1>8, <2>1 DEF DueTime, Service!vars
<1>9. ASSUME UNCHANGED <<timer_ticks, expires>>, \A t \in Timers : Active(t)' <=> Active(t)
      PROVE  UNCHANGED Service!vars
  <2>1. \A t \in Timers : DueTime(t)' = DueTime(t) BY <1>9 DEF DueTime
  <2> QED BY <1>8, <1>9, <2>1
<1>10. CASE Tick \/ StartDpc \/ LeaveLoop \/ DpcDone \/ HandlerDone \/ UNCHANGED vars
  <2>1. UNCHANGED <<timer_ticks, expires, place>>
    BY <1>10 DEF Tick, StartDpc, LeaveLoop, DpcDone, HandlerDone, vars
  <2>2. \A t \in Timers : Active(t)' <=> Active(t) BY <2>1 DEF Active
  <2> QED BY <1>9, <2>1, <2>2
<1>11. CASE NextTick
  <2>1. UNCHANGED <<timer_ticks, expires>> BY <1>11 DEF NextTick
  <2> QED BY <1>9, <1>11, <2>1, NextTickKeeps
<1>12. CASE SlotDone
  <2>1. /\ Done /\ UNCHANGED <<place, expires>> /\ \A t \in Timers : ~InSlot(t)
        /\ timer_ticks' = (timer_ticks + 1) % 2 ^ W
    BY <1>12 DEF SlotDone, Done
  <2>2. \A t \in Timers : Active(t)' <=> Active(t) BY <2>1 DEF Active
  <2>3. \A t \in Timers : Active(t) => Ahead(t) \in Int /\ Ahead(t) >= 1 BY <2>1, NoneLeft
  <2>4. \A t \in Timers : Active(t)' => Ahead(t)' >= 0 BY <1>12, SlotDoneKeeps
  <2>5. \A t \in Timers : due[t] # timer_ticks BY <1>1, <1>6, <1>7, <2>3 DEF DueInv
  <2>6. timer_ticks' = IF timer_ticks + 1 \in Words THEN timer_ticks + 1 ELSE 0 BY <1>6, <2>1, NextWord
  <2>7. ASSUME NEW t \in Timers PROVE DueTime(t)' = DueTime(t)
    <3>1. CASE Active(t)
      <4>1. DueTime(t) = expires[t] BY <1>7, <2>3, <3>1 DEF DueInv
      <4>2. DueTime(t)' = expires'[t] BY <1>7, <2>2, <2>4, <3>1 DEF DueInv
      <4> QED BY <2>1, <4>1, <4>2
    <3>2. CASE ~Active(t) BY <1>7, <2>2, <3>2 DEF DueInv
    <3> QED BY <3>1, <3>2
  <2>8. due' = due BY <1>1, <2>7
  <2> QED BY <1>4, <1>5, <2>5, <2>6, <2>8
<1>13. ASSUME NEW t \in Timers, UNCHANGED timer_ticks,
              \E p, x : place' = [place EXCEPT ![t] = p] /\ expires' = [expires EXCEPT ![t] = x]
       PROVE  \A u \in Timers \ {t} : due'[u] = due[u]
  <2> SUFFICES ASSUME NEW u \in Timers \ {t} PROVE DueTime(u)' = DueTime(u) BY <1>1
  <2>1. place \in [Timers -> Places \cup {NoPlace, Dropped}] /\ expires \in [Timers -> Words] BY <1>0 DEF TypeOK
  <2>2. place'[u] = place[u] /\ expires'[u] = expires[u] BY <1>13, <2>1
  <2> QED BY <1>13, <2>2 DEF DueTime, Active
<1>14. ASSUME NEW t \in Timers, Fire(t) \/ del_timer(t)
       PROVE  due' = [due EXCEPT ![t] = -1] /\ UNCHANGED timer_ticks
  <2>1. /\ place' = [place EXCEPT ![t] = NoPlace] /\ expires' = [expires EXCEPT ![t] = 0]
        /\ UNCHANGED timer_ticks
    BY <1>14 DEF Fire, del_timer, detach_timer
  <2>2. \A u \in Timers \ {t} : due'[u] = due[u] BY <1>13, <2>1
  <2>3. ~Active(t)' BY <1>14, TakeKeeps
  <2>4. due'[t] = -1 BY <1>1, <1>7, <2>3 DEF DueInv
  <2>5. due' = [due EXCEPT ![t] = -1] BY <1>1, <2>2, <2>4
  <2> QED BY <2>1, <2>5
<1>15. ASSUME NEW t \in Timers, del_timer(t) PROVE Service!Next BY <1>2, <1>5, <1>14, <1>15
<1>16. ASSUME NEW t \in Timers, Fire(t) PROVE Service!Next
  <2>1. place[t] = <<1, index[1]>> /\ Done BY <1>16 DEF Fire, InSlot, Done
  <2>2. Active(t) BY <2>1 DEF Active, NoPlace
  <2>3. IndexInv /\ PlaceInv BY DEF Inv
  <2>4. Ahead(t) < 1
    <3> DEFINE k == Ahead(t)
               x == expires[t]
               T == timer_ticks
    <3>1. x \in Words /\ k \in Int /\ k = Offset(x, T) BY <1>0, Numbers DEF Ahead
    <3>2. Placed(<<1, T % TVR_SIZE>>, x, T, k, TRUE) BY <2>1, <2>2, <2>3 DEF PlaceInv, IndexInv, Placed
    <3>3. k = -1 \/ (0 <= k /\ k < TVR_SIZE /\ T % TVR_SIZE = x % TVR_SIZE) BY <3>2 DEF Placed
    <3>4. CASE 0 <= k /\ k < TVR_SIZE /\ T % TVR_SIZE = x % TVR_SIZE
      <4>1. 1 \in Levels /\ Unit(1) = 1 /\ Size(1) = TVR_SIZE /\ TVR_SIZE \in Nat
        BY WheelAssumption, Units, SizeNat DEF Levels, Size
      <4>2. T \in Int /\ x \in Int BY <1>6, <3>1, Units DEF Words, M
      <4>3. x % 1 = 0 /\ T % 1 = 0 /\ T \div 1 = T BY <4>2
      <4>4. Slot(1, x) = x % TVR_SIZE BY <3>1, <4>1, SlotPlace
      <4>5. k - 0 < 1 * TVR_SIZE BY <3>1, <3>4, <4>1
      <4>6. k < Unit(1) BY <1>6, <3>1, <3>4, <4>1, <4>3, <4>4, <4>5, SlotReached
      <4> QED BY <4>1, <4>6
    <3> QED BY <3>1, <3>3, <3>4
  <2>5. due[t] = timer_ticks BY <1>1, <1>7, <2>2, <2>4 DEF DueInv
  <2> QED BY <1>2, <1>5, <1>14, <1>16, <2>5
<1>17. ASSUME NEW t \in Timers, NEW d \in Delays, add_timer(t, d) \/ mod_timer(t, d) PROVE Service!Next
  <2>1. /\ \E p, x : place' = [place EXCEPT ![t] = p] /\ expires' = [expires EXCEPT ![t] = x]
        /\ UNCHANGED timer_ticks
    BY <1>17 DEF add_timer, mod_timer
  <2>2. \A u \in Timers \ {t} : due'[u] = due[u] BY <1>13, <2>1
  <2>3. Active(t)' BY <1>17, ArmKeeps
  <2>4. due'[t] \in Words BY <1>1, <1>7, <2>3 DEF DueInv
  <2> QED BY <1>1, <1>3, <1>5, <2>1, <2>2, <2>4
<1> QED BY <1>10, <1>11, <1>12, <1>15, <1>16, <1>17 DEF Next

\* The wheel implements the service (ServiceSpec): whatever its size, the
\* distance of a timer, the wrap of the counters and the handlers, a timer goes
\* off at the tick that was asked for, or at once if that is past.
THEOREM WheelServes == Spec => ServiceSpec
<1>1. ASSUME Init PROVE Service!Init
  <2>1. \A t \in Timers : ~Active(t) BY <1>1 DEF Init, Active
  <2> QED BY <1>1, <2>1 DEF Service!Init, Init
<1>2. Inv /\ [Next]_vars => [Service!Next]_Service!vars BY ServiceStep
<1> QED BY <1>1, <1>2, WheelInv, PTL DEF Spec, ServiceSpec, Service!Spec

=============================================================================
