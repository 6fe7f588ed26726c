--------------------------- MODULE ObjectsProofs ---------------------------
(***************************************************************************)
(* Proofs about the object manager, for any set of threads, objects and    *)
(* requests.                                                               *)
(*                                                                         *)
(* The base is the invariant of the wait lists (BaseInv): an object's list *)
(* has one entry for each time a linked thread waits for it.  On it rest   *)
(* that no wake-up is lost, that waiters are served in order, and that     *)
(* what threads hold, what the objects say and what released threads have  *)
(* not been told yet agree.                                                *)
(***************************************************************************)
EXTENDS Objects, FiniteSetTheorems, TLAPS

-----------------------------------------------------------------------------
(* Positions in sequences.                                                 *)

\* Rank(I, i) grows strictly with i and stays below the size of I.
LEMMA RankGrows ==
  ASSUME NEW I \in SUBSET Nat, IsFiniteSet(I), NEW i \in I
  PROVE  /\ Rank(I, i) \in Nat /\ Rank(I, i) < Cardinality(I)
         /\ \A j \in I : i < j => Rank(I, i) < Rank(I, j)
<1> DEFINE B(j) == {k \in I : k < j}
<1>1. \A j \in I : /\ B(j) \in SUBSET I /\ B(j) # I /\ IsFiniteSet(B(j))
                   /\ Rank(I, j) = Cardinality(B(j)) /\ Rank(I, j) \in Nat
  <2> TAKE j \in I
  <2>1. B(j) \in SUBSET I /\ j \notin B(j) OBVIOUS
  <2>2. IsFiniteSet(B(j)) BY <2>1, FS_Subset
  <2>3. Cardinality(B(j)) \in Nat BY <2>2, FS_CardinalityType
  <2> QED BY <2>1, <2>2, <2>3 DEF Rank
<1>2. Cardinality(I) \in Nat BY FS_CardinalityType
<1>3. Cardinality(B(i)) < Cardinality(I)
  <2>1. Cardinality(B(i)) <= Cardinality(I) /\ Cardinality(B(i)) # Cardinality(I)
    BY <1>1, FS_Subset
  <2> QED BY <1>1, <1>2, <2>1
<1>4. ASSUME NEW j \in I, i < j PROVE Cardinality(B(i)) < Cardinality(B(j))
  <2>1. B(i) \in SUBSET B(j)
    <3>1. \A k \in I : k < i => k < j BY <1>4
    <3> QED BY <3>1
  <2>2. i \in B(j) /\ i \notin B(i) BY <1>4
  <2>3. B(i) # B(j) BY <2>2
  <2>4. IsFiniteSet(B(j)) BY <1>1
  <2>5. Cardinality(B(i)) <= Cardinality(B(j)) /\ Cardinality(B(i)) # Cardinality(B(j))
    BY <2>1, <2>3, <2>4, FS_Subset
  <2>6. Cardinality(B(i)) \in Nat /\ Cardinality(B(j)) \in Nat BY <1>1
  <2> HIDE DEF B
  <2> QED BY <2>5, <2>6
<1> HIDE DEF B
<1> QED BY <1>1, <1>3, <1>4

\* Every number below the size of I is the rank of one of its elements.
LEMMA RankOnto ==
  ASSUME NEW I \in SUBSET Nat, IsFiniteSet(I), NEW k \in 0 .. Cardinality(I) - 1
  PROVE  \E i \in I : Rank(I, i) = k
<1> DEFINE n == Cardinality(I)
           f == [i \in I |-> Rank(I, i)]
<1>1. n \in Nat BY FS_CardinalityType
<1>2. n # 0 BY <1>1
<1>3. IsFiniteSet(0 .. n - 1) /\ Cardinality(0 .. n - 1) = n
  <2> HIDE DEF n
  <2>1. 0 \in Int /\ n - 1 \in Int /\ ~(0 > n - 1) BY <1>1, <1>2
  <2>2. IsFiniteSet(0 .. n - 1) /\ Cardinality(0 .. n - 1) = n - 1 - 0 + 1 BY <2>1, FS_Interval
  <2> QED BY <1>1, <2>2
<1>4. \A i \in I : Rank(I, i) \in 0 .. n - 1 BY <1>1, RankGrows
<1>5. \A i, j \in I : Rank(I, i) = Rank(I, j) => i = j
  <2> SUFFICES ASSUME NEW i \in I, NEW j \in I, i # j PROVE Rank(I, i) # Rank(I, j) OBVIOUS
  <2>1. i < j \/ j < i OBVIOUS
  <2>2. Rank(I, i) \in Nat /\ Rank(I, j) \in Nat BY RankGrows
  <2>3. i < j => Rank(I, i) < Rank(I, j) BY RankGrows
  <2>4. j < i => Rank(I, j) < Rank(I, i) BY RankGrows
  <2> QED BY <2>1, <2>2, <2>3, <2>4
<1>6. f \in Injection(I, 0 .. n - 1)
  <2>1. f \in [I -> 0 .. n - 1] BY <1>4
  <2>2. \A i, j \in I : f[i] = f[j] => i = j BY <1>5
  <2> HIDE DEF f, n
  <2> QED BY <2>1, <2>2 DEF Injection, IsInjective
<1>7. f \in Surjection(I, 0 .. n - 1) BY <1>3, <1>6, FS_Injection
<1>8. \E i \in I : f[i] = k
  <2> HIDE DEF f, n
  <2>1. k \in 0 .. n - 1 BY DEF n
  <2> QED BY <1>7, <2>1 DEF Surjection
<1> QED BY <1>8

\* The n lowest elements of I: at most n, and all of I when there are fewer.
Lowest(I, n) == {i \in I : Rank(I, i) < n}

\* The n lowest of a finite set of numbers: n of them, or all when there are
\* fewer, with none left out below one that is in.
LEMMA LowestFacts ==
  ASSUME NEW I \in SUBSET Nat, IsFiniteSet(I), NEW n \in Nat
  PROVE  /\ IsFiniteSet(Lowest(I, n)) /\ Lowest(I, n) \subseteq I
         /\ Cardinality(Lowest(I, n)) \in Nat /\ Cardinality(Lowest(I, n)) <= n
         /\ Cardinality(Lowest(I, n)) < n => Lowest(I, n) = I
<1> DEFINE L == Lowest(I, n)
           f == [i \in L |-> Rank(I, i)]
<1>1. L \in SUBSET I BY DEF Lowest
<1>2. IsFiniteSet(L) BY <1>1, FS_Subset
<1>3. Cardinality(L) \in Nat BY <1>2, FS_CardinalityType
<1>4. IsFiniteSet(0 .. n - 1) /\ Cardinality(0 .. n - 1) = n
  <2>1. 0 \in Int /\ n - 1 \in Int OBVIOUS
  <2>2. IsFiniteSet(0 .. n - 1) /\ Cardinality(0 .. n - 1) = IF 0 > n - 1 THEN 0 ELSE n - 1 - 0 + 1
    BY <2>1, FS_Interval
  <2> QED BY <2>2
<1>5. f \in Injection(L, 0 .. n - 1)
  <2>1. \A i \in L : Rank(I, i) \in 0 .. n - 1 BY RankGrows DEF Lowest
  <2>2. \A i, j \in L : Rank(I, i) = Rank(I, j) => i = j
    <3> SUFFICES ASSUME NEW i \in L, NEW j \in L, i # j PROVE Rank(I, i) # Rank(I, j) OBVIOUS
    <3>1. i \in I /\ j \in I BY <1>1
    <3>2. i < j \/ j < i BY <3>1
    <3>3. Rank(I, i) \in Nat /\ Rank(I, j) \in Nat BY <3>1, RankGrows
    <3>4. i < j => Rank(I, i) < Rank(I, j) BY <3>1, RankGrows
    <3>5. j < i => Rank(I, j) < Rank(I, i) BY <3>1, RankGrows
    <3> QED BY <3>2, <3>3, <3>4, <3>5
  <2> QED BY <2>1, <2>2 DEF Injection, IsInjective
<1>6. Cardinality(L) <= n BY <1>4, <1>5, FS_Injection
<1>7. ASSUME Cardinality(L) < n, L # I PROVE FALSE
  <2>1. PICK j \in I : j \notin L BY <1>1, <1>7
  <2>2. Rank(I, j) \in Nat /\ ~(Rank(I, j) < n) /\ Rank(I, j) < Cardinality(I)
    BY <2>1, RankGrows DEF Lowest
  <2>3. Cardinality(I) \in Nat BY FS_CardinalityType
  <2>4. \A k \in 0 .. n - 1 : \E i \in I : Rank(I, i) = k
    <3> TAKE k \in 0 .. n - 1
    <3>1. k \in 0 .. Cardinality(I) - 1 BY <2>2, <2>3
    <3> QED BY <3>1, RankOnto
  <2>5. \A k \in 0 .. n - 1 : \E i \in L : f[i] = k BY <2>4 DEF Lowest
  <2>6. f \in [L -> 0 .. n - 1] BY <1>5 DEF Injection
  <2>7. f \in Surjection(L, 0 .. n - 1)
    <3> HIDE DEF f, L
    <3> QED BY <2>5, <2>6 DEF Surjection
  <2>8. Cardinality(L) = Cardinality(0 .. n - 1) BY <1>4, <1>5, <2>7, FS_Injection
  <2> QED BY <1>4, <1>7, <2>8, <1>3
<1> QED BY <1>1, <1>2, <1>3, <1>6, <1>7

\* With n at least one, something is chosen whenever there is a choice; with
\* n = 1 it is the first of I alone.
LEMMA LowestOne ==
  ASSUME NEW I \in SUBSET Nat, IsFiniteSet(I), I # {}
  PROVE  \E i \in I : Lowest(I, 1) = {i} /\ \A j \in I : i <= j
<1>1. Cardinality(I) \in Nat /\ Cardinality(I) # 0 BY FS_CardinalityType, FS_EmptySet
<1>2. PICK i \in I : Rank(I, i) = 0
  <2>1. 0 \in 0 .. Cardinality(I) - 1 BY <1>1
  <2> QED BY <2>1, RankOnto
<1>3. ASSUME NEW j \in I, j # i PROVE i < j /\ Rank(I, j) # 0 /\ Rank(I, j) \in Nat
  <2>1. i < j \/ j < i BY <1>3
  <2>2. Rank(I, j) \in Nat BY RankGrows
  <2>3. ~(j < i) BY <1>2, <2>2, RankGrows
  <2>4. Rank(I, i) < Rank(I, j) BY <2>1, <2>3, RankGrows
  <2> QED BY <1>2, <2>1, <2>2, <2>3, <2>4
<1>4. Lowest(I, 1) = {i}
  <2>1. \A j \in I : Rank(I, j) < 1 => j = i BY <1>3
  <2>2. Rank(I, i) < 1 BY <1>2
  <2> QED BY <2>1, <2>2 DEF Lowest
<1>5. \A j \in I : i <= j BY <1>3
<1> QED BY <1>4, <1>5

\* The domain of a sequence and its parts are finite sets of numbers.
LEMMA SeqDomain ==
  ASSUME NEW S, NEW q \in Seq(S)
  PROVE  /\ DOMAIN q = 1 .. Len(q) /\ Len(q) \in Nat
         /\ \A I \in SUBSET DOMAIN q : /\ I \in SUBSET Nat /\ IsFiniteSet(I)
                                       /\ Cardinality(I) \in Nat
         /\ \A x : Positions(q, x) \in SUBSET DOMAIN q
         /\ \A T : Kept(q, T) \in SUBSET DOMAIN q
<1>1. DOMAIN q = 1 .. Len(q) /\ Len(q) \in Nat OBVIOUS
<1>2. IsFiniteSet(1 .. Len(q)) BY <1>1, FS_Interval
<1>3. ASSUME NEW I \in SUBSET DOMAIN q
      PROVE  I \in SUBSET Nat /\ IsFiniteSet(I) /\ Cardinality(I) \in Nat
  <2>1. IsFiniteSet(I) BY <1>1, <1>2, FS_Subset
  <2> QED BY <1>1, <2>1, FS_CardinalityType
<1> QED BY <1>1, <1>3 DEF Positions, Kept

\* Where the k-th element of Unlink(q, T) comes from.
From(q, T, k) == CHOOSE i \in Kept(q, T) : Rank(Kept(q, T), i) = k - 1

\* How many entries of q are left when those of T are unlinked.
Left(q, T) == Cardinality(Kept(q, T))

\* From enumerates the positions that are kept, in ascending order.
LEMMA FromFacts ==
  ASSUME NEW S, NEW q \in Seq(S), NEW T
  PROVE  /\ Left(q, T) \in Nat
         /\ \A k \in 1 .. Left(q, T) : /\ From(q, T, k) \in Kept(q, T)
                                       /\ Rank(Kept(q, T), From(q, T, k)) = k - 1
         /\ \A i \in Kept(q, T) : \E k \in 1 .. Left(q, T) : From(q, T, k) = i
         /\ \A k, l \in 1 .. Left(q, T) : From(q, T, k) = From(q, T, l) => k = l
<1> DEFINE I == Kept(q, T)
<1>1. I \in SUBSET Nat /\ IsFiniteSet(I) /\ Cardinality(I) \in Nat BY SeqDomain
<1>2. ASSUME NEW k \in 1 .. Left(q, T)
      PROVE  From(q, T, k) \in I /\ Rank(I, From(q, T, k)) = k - 1
  <2>1. k - 1 \in 0 .. Cardinality(I) - 1 BY <1>1 DEF Left
  <2>2. \E i \in I : Rank(I, i) = k - 1
    <3> HIDE DEF I
    <3> QED BY <1>1, <2>1, RankOnto
  <2> QED BY <2>2 DEF From
<1>3. ASSUME NEW i \in I PROVE \E k \in 1 .. Left(q, T) : From(q, T, k) = i
  <2> DEFINE k == Rank(I, i) + 1
  <2>1. Rank(I, i) \in Nat /\ Rank(I, i) < Cardinality(I)
    <3> HIDE DEF I
    <3> QED BY <1>1, RankGrows
  <2>2. k \in 1 .. Left(q, T) BY <1>1, <2>1 DEF Left
  <2>3. From(q, T, k) \in I /\ Rank(I, From(q, T, k)) = Rank(I, i) BY <1>2, <2>1, <2>2
  <2>4. From(q, T, k) = i
    <3> DEFINE j == From(q, T, k)
    <3>1. j \in I /\ Rank(I, j) = Rank(I, i) BY <2>3
    <3> HIDE DEF j, I
    <3>2. ~(i < j) BY <1>1, <2>1, <3>1, RankGrows
    <3>3. ~(j < i) BY <1>1, <2>1, <3>1, RankGrows
    <3>4. i = j BY <1>1, <3>1, <3>2, <3>3
    <3> QED BY <3>4 DEF j
  <2> QED BY <2>2, <2>4
<1>4. ASSUME NEW k \in 1 .. Left(q, T), NEW l \in 1 .. Left(q, T), From(q, T, k) = From(q, T, l)
      PROVE  k = l
  <2>1. k - 1 = l - 1 BY <1>2, <1>4
  <2> QED BY <2>1
<1> QED BY <1>1, <1>2, <1>3, <1>4 DEF Left

\* Unlink leaves a sequence, of the elements that are not in T, each as often
\* as before.
LEMMA UnlinkFacts ==
  ASSUME NEW S, NEW q \in Seq(S), NEW T
  PROVE  /\ Unlink(q, T) \in Seq(S)
         /\ Len(Unlink(q, T)) = Left(q, T)
         /\ \A k \in 1 .. Left(q, T) : Unlink(q, T)[k] = q[From(q, T, k)]
         /\ DOMAIN Unlink(q, T) = 1 .. Left(q, T)
<1>1. Unlink(q, T) = [k \in 1 .. Left(q, T) |-> q[From(q, T, k)]]
  BY DEF Unlink, Left, From
<1>2. Left(q, T) \in Nat BY FromFacts
<1>3. \A k \in 1 .. Left(q, T) : q[From(q, T, k)] \in S
  <2> TAKE k \in 1 .. Left(q, T)
  <2>1. From(q, T, k) \in DOMAIN q BY FromFacts DEF Kept
  <2> QED BY <2>1
<1> QED BY <1>1, <1>2, <1>3

\* Unlinking removes the threads of T from a list and no other thread.
LEMMA UnlinkRange ==
  ASSUME NEW S, NEW q \in Seq(S), NEW T
  PROVE  Range(Unlink(q, T)) = Range(q) \ T
<1>1. ASSUME NEW x \in Range(Unlink(q, T)) PROVE x \in Range(q) \ T
  <2>1. PICK k \in 1 .. Left(q, T) : x = q[From(q, T, k)] BY <1>1, UnlinkFacts DEF Range
  <2>2. From(q, T, k) \in Kept(q, T) BY FromFacts
  <2> QED BY <2>1, <2>2 DEF Kept, Range
<1>2. ASSUME NEW x \in Range(q) \ T PROVE x \in Range(Unlink(q, T))
  <2>1. PICK i \in Kept(q, T) : x = q[i] BY <1>2 DEF Kept, Range
  <2>2. PICK k \in 1 .. Left(q, T) : From(q, T, k) = i BY <2>1, FromFacts
  <2>3. Unlink(q, T)[k] = x /\ k \in DOMAIN Unlink(q, T) BY <2>1, <2>2, UnlinkFacts
  <2> QED BY <2>3 DEF Range
<1> QED BY <1>1, <1>2

\* Unlinking keeps every entry of a thread that is not in T.
LEMMA UnlinkPositions ==
  ASSUME NEW S, NEW q \in Seq(S), NEW T, NEW x
  PROVE  Cardinality(Positions(Unlink(q, T), x))
           = IF x \in T THEN 0 ELSE Cardinality(Positions(q, x))
<1> DEFINE r == Unlink(q, T)
           P == Positions(r, x)
           Q == Positions(q, x)
           f == [k \in P |-> From(q, T, k)]
<1>1. \A k : k \in P <=> k \in 1 .. Left(q, T) /\ q[From(q, T, k)] = x
  BY UnlinkFacts DEF Positions
<1>2. CASE x \in T
  <2>1. \A k \in 1 .. Left(q, T) : q[From(q, T, k)] \notin T BY FromFacts DEF Kept
  <2>2. P = {} BY <1>1, <1>2, <2>1
  <2> QED BY <1>2, <2>2, FS_EmptySet
<1>3. CASE x \notin T
  <2>1. \A k \in P : From(q, T, k) \in Q
    <3> TAKE k \in P
    <3>1. From(q, T, k) \in Kept(q, T) /\ q[From(q, T, k)] = x BY <1>1, FromFacts
    <3> QED BY <3>1 DEF Kept, Positions
  <2>2. \A j, k \in P : From(q, T, j) = From(q, T, k) => j = k BY <1>1, FromFacts
  <2>3. \A i \in Q : \E k \in P : From(q, T, k) = i
    <3> TAKE i \in Q
    <3>1. i \in Kept(q, T) /\ q[i] = x BY <1>3 DEF Kept, Positions
    <3>2. PICK k \in 1 .. Left(q, T) : From(q, T, k) = i BY <3>1, FromFacts
    <3> QED BY <1>1, <3>1, <3>2
  <2> HIDE DEF P, Q
  <2>4. f \in Bijection(P, Q)
    <3>1. f \in [P -> Q] BY <2>1
    <3>2. \A j, k \in P : f[j] = f[k] => j = k BY <2>2
    <3>3. \A i \in Q : \E k \in P : f[k] = i BY <2>3
    <3> HIDE DEF f
    <3> QED BY <3>1, <3>2, <3>3 DEF Bijection, Injection, Surjection, IsInjective
  <2>5. IsFiniteSet(P)
    <3>1. r \in Seq(S) BY UnlinkFacts
    <3> HIDE DEF r
    <3>2. P \in SUBSET DOMAIN r BY DEF P, Positions
    <3> QED BY <3>1, <3>2, SeqDomain
  <2>6. ExistsBijection(P, Q) BY <2>4 DEF ExistsBijection
  <2>7. Cardinality(Q) = Cardinality(P) BY <2>5, <2>6, FS_Bijection
  <2> QED BY <1>3, <2>7 DEF P, Q
<1> QED BY <1>2, <1>3


\* Unlink changes nothing when nothing is to go.
LEMMA UnlinkNone ==
  ASSUME NEW S, NEW q \in Seq(S), NEW T, Kept(q, T) = DOMAIN q
  PROVE  Unlink(q, T) = q
<1> DEFINE n == Len(q)
<1>1. DOMAIN q = 1 .. n /\ n \in Nat OBVIOUS
<1>2. Left(q, T) = n
  <2>1. Cardinality(1 .. n) = IF 1 > n THEN 0 ELSE n - 1 + 1 BY <1>1, FS_Interval
  <2> QED BY <1>1, <2>1 DEF Left
<1>3. ASSUME NEW i \in 1 .. n PROVE Rank(1 .. n, i) = i - 1
  <2>1. {j \in 1 .. n : j < i} = 1 .. i - 1 BY <1>1
  <2>2. Cardinality(1 .. i - 1) = IF 1 > i - 1 THEN 0 ELSE i - 1 - 1 + 1
    <3>1. 1 \in Int /\ i - 1 \in Int OBVIOUS
    <3> QED BY <3>1, FS_Interval
  <2>3. Rank(1 .. n, i) = Cardinality(1 .. i - 1) BY <2>1 DEF Rank
  <2>4. (IF 1 > i - 1 THEN 0 ELSE i - 1 - 1 + 1) = i - 1 OBVIOUS
  <2> QED BY <2>2, <2>3, <2>4
<1>4. ASSUME NEW k \in 1 .. n PROVE From(q, T, k) = k
  <2>1. From(q, T, k) \in 1 .. n /\ Rank(1 .. n, From(q, T, k)) = k - 1 BY <1>1, <1>2, FromFacts
  <2>2. Rank(1 .. n, From(q, T, k)) = From(q, T, k) - 1 BY <1>3, <2>1
  <2> DEFINE j == From(q, T, k)
  <2>3. j \in 1 .. n /\ j - 1 = k - 1 BY <2>1, <2>2
  <2> HIDE DEF j
  <2>4. j = k BY <2>3
  <2> QED BY <2>4 DEF j
<1>5. Unlink(q, T) \in Seq(S) /\ Len(Unlink(q, T)) = n /\ \A k \in 1 .. n : Unlink(q, T)[k] = q[k]
  BY <1>2, <1>4, UnlinkFacts
<1> DEFINE r == Unlink(q, T)
<1> HIDE DEF r
<1>6. r \in Seq(S) /\ Len(r) = Len(q) /\ \A k \in 1 .. Len(q) : r[k] = q[k] BY <1>5 DEF r
<1>7. r = q BY <1>6
<1> QED BY <1>7 DEF r

\* Copies of t behind q: t stands where it stood and n times more, any other
\* thread where it stood.
LEMMA AppendPositions ==
  ASSUME NEW S, NEW q \in Seq(S), NEW t \in S, NEW n \in Nat
  PROVE  LET r == q \o [i \in 1 .. n |-> t] IN
         /\ r \in Seq(S)
         /\ \A x : x # t => Positions(r, x) = Positions(q, x)
         /\ Positions(q, t) = {} => Cardinality(Positions(r, t)) = n
<1> DEFINE c == [i \in 1 .. n |-> t]
           r == q \o c
<1>1. c \in Seq(S) /\ Len(c) = n /\ \A i \in 1 .. n : c[i] = t OBVIOUS
<1> HIDE DEF c
<1>2. r \in Seq(S) /\ Len(r) = Len(q) + n /\ Len(q) \in Nat BY <1>1
<1>3. \A i \in 1 .. Len(q) : r[i] = q[i] BY <1>1
<1>4. \A i \in Len(q) + 1 .. Len(q) + n : r[i] = t BY <1>1
<1> HIDE DEF r
<1>5. \A i \in 1 .. Len(r) : i \in 1 .. Len(q) \/ i \in Len(q) + 1 .. Len(q) + n BY <1>2
<1>6. \A i \in 1 .. Len(q) : i \in 1 .. Len(r) BY <1>2
<1>7. DOMAIN r = 1 .. Len(r) /\ DOMAIN q = 1 .. Len(q) BY <1>2
<1>8. ASSUME NEW x, x # t PROVE Positions(r, x) = Positions(q, x)
  BY <1>3, <1>4, <1>5, <1>6, <1>7, <1>8 DEF Positions
<1>9. ASSUME Positions(q, t) = {} PROVE Cardinality(Positions(r, t)) = n
  <2>1. \A i \in Len(q) + 1 .. Len(q) + n : i \in 1 .. Len(r) BY <1>2
  <2>2. \A i \in 1 .. Len(q) : q[i] # t BY <1>7, <1>9 DEF Positions
  <2>3. Positions(r, t) = Len(q) + 1 .. Len(q) + n
    BY <1>3, <1>4, <1>5, <1>7, <2>1, <2>2 DEF Positions
  <2>4. Len(q) + 1 \in Int /\ Len(q) + n \in Int BY <1>2
  <2>5. Cardinality(Len(q) + 1 .. Len(q) + n)
          = IF Len(q) + 1 > Len(q) + n THEN 0 ELSE (Len(q) + n) - (Len(q) + 1) + 1
    BY <2>4, FS_Interval
  <2> QED BY <1>2, <2>3, <2>5
<1> QED BY <1>2, <1>8, <1>9 DEF r, c

\* A position exists exactly when the count is not zero.
LEMMA PositionsEmpty ==
  ASSUME NEW S, NEW q \in Seq(S), NEW x
  PROVE  /\ Cardinality(Positions(q, x)) \in Nat
         /\ Cardinality(Positions(q, x)) = 0 <=> x \notin Range(q)
<1>1. IsFiniteSet(Positions(q, x)) /\ Cardinality(Positions(q, x)) \in Nat BY SeqDomain
<1>2. Cardinality(Positions(q, x)) = 0 <=> Positions(q, x) = {} BY <1>1, FS_EmptySet
<1>3. Positions(q, x) = {} <=> x \notin Range(q) BY DEF Positions, Range
<1> QED BY <1>1, <1>2, <1>3


\* A finite set of numbers that is not empty has a largest element.
LEMMA LargestExists ==
  ASSUME NEW I \in SUBSET Nat, IsFiniteSet(I), I # {}
  PROVE  \E i \in I : \A j \in I : j <= i
<1>1. Cardinality(I) \in Nat /\ Cardinality(I) # 0 BY FS_CardinalityType, FS_EmptySet
<1>2. PICK i \in I : Rank(I, i) = Cardinality(I) - 1
  <2>1. Cardinality(I) - 1 \in 0 .. Cardinality(I) - 1 BY <1>1
  <2> QED BY <2>1, RankOnto
<1>3. ASSUME NEW j \in I PROVE ~(i < j)
  <2>1. Rank(I, j) \in Nat /\ Rank(I, j) < Cardinality(I) BY RankGrows
  <2>2. i < j => Rank(I, i) < Rank(I, j) BY RankGrows
  <2> QED BY <1>1, <1>2, <2>1, <2>2
<1>4. \A j \in I : j <= i BY <1>3
<1> QED BY <1>4

-----------------------------------------------------------------------------
(* The wait part of the state.                                             *)

\* The states of a thread.
States == {"run", "wait", "woken", "alert", "dead"}

\* Types of the variables that make up a wait.
WType ==
  /\ waitlist \in [Objs -> Seq(Threads)]
  /\ wait \in [Threads -> Requests \cup {NULL}]
  /\ blocks \in [Threads -> BOOLEAN]
  /\ timer \in [Threads -> {"off", "armed", "expired"}]
  /\ waitkey \in [Threads -> Int]
  /\ state \in [Threads -> States]
  /\ panicked \in BOOLEAN

\* Types of the variables that make up the objects.
OType ==
  /\ signaled \in [Objs -> BOOLEAN]
  /\ count \in [Sems -> 0 .. (CountMod - 1)]
  /\ owner \in [Mutexes -> Threads \cup {NULL}]
  /\ recursion \in [Mutexes -> 0 .. MaxCount]
  /\ closed \in SUBSET Objs
  /\ hung \in BOOLEAN
  /\ held \in [Threads -> [Lockables -> Int]]
  /\ tokens \in [Sems -> Int]

\* A thread stands in an object's wait list once for each of its wait blocks.
CountIs(o, t) ==
  Cardinality(Positions(waitlist[o], t)) = IF blocks[t] THEN Cardinality(Positions(wait[t].objs, o)) ELSE 0

\* Every wait list holds the wait blocks of the threads that are linked.
Linked == \A o \in Objs, t \in Threads : CountIs(o, t)

\* A thread's state, its wait, its wait blocks and its timer go together.
ThreadOK(t) ==
  /\ state[t] = "wait" => blocks[t]
  /\ blocks[t] => state[t] \in {"wait", "alert"}
  /\ state[t] \in {"wait", "woken", "alert"} <=> wait[t] # NULL
  /\ state[t] \in {"run", "dead"} => timer[t] = "off"
  /\ state[t] = "alert" => wait[t].alertable
  /\ timer[t] # "off" => wait[t].timed

\* That, for all threads.
ThreadsOK == \A t \in Threads : ThreadOK(t)

\* The inductive invariant of the wait lists.
WaitInv == WType /\ Linked /\ ThreadsOK

\* The type invariant has a part about waits and one about objects.
LEMMA TypeSplit == TypeOK <=> WType /\ OType
BY DEF TypeOK, WType, OType, States

\* What a request is.
LEMMA RequestFacts ==
  ASSUME NEW r \in Requests
  PROVE  /\ r \in Request /\ r # NULL /\ r.objs \in Seq(Objs) /\ r.objs # <<>>
         /\ r.all \in BOOLEAN /\ r.timed \in BOOLEAN /\ r.alertable \in BOOLEAN
BY ObjectsAssumption DEF Request

\* A thread in a wait list is linked and waits for that object.
LEMMA ListedWaits ==
  ASSUME WaitInv, NEW o \in Objs, NEW t \in Range(waitlist[o])
  PROVE  /\ t \in Threads /\ blocks[t] /\ wait[t] \in Requests /\ wait[t] # NULL
         /\ state[t] \in {"wait", "alert"}
         /\ \E i \in DOMAIN wait[t].objs : wait[t].objs[i] = o
<1>1. waitlist[o] \in Seq(Threads) BY DEF WaitInv, WType
<1>2. t \in Threads
  <2>1. PICK i \in DOMAIN waitlist[o] : t = waitlist[o][i] BY DEF Range
  <2> QED BY <1>1, <2>1
<1>3. Cardinality(Positions(waitlist[o], t)) \in Nat /\ Cardinality(Positions(waitlist[o], t)) # 0
  BY <1>1, PositionsEmpty
<1>4. CountIs(o, t) BY <1>2 DEF WaitInv, Linked
<1>5. blocks[t] /\ Cardinality(Positions(wait[t].objs, o)) # 0
  <2>1. CASE blocks[t] BY <1>3, <1>4, <2>1 DEF CountIs
  <2>2. CASE ~blocks[t] BY <1>3, <1>4, <2>2 DEF CountIs
  <2> QED BY <2>1, <2>2
<1>6. state[t] \in {"wait", "alert"} /\ wait[t] # NULL BY <1>2, <1>5 DEF WaitInv, ThreadsOK, ThreadOK
<1>7. wait[t] \in Requests BY <1>2, <1>6 DEF WaitInv, WType
<1>8. wait[t].objs \in Seq(Objs) BY <1>7, RequestFacts
<1>9. o \in Range(wait[t].objs) BY <1>5, <1>8, PositionsEmpty
<1> QED BY <1>2, <1>5, <1>6, <1>7, <1>9 DEF Range

\* A linked thread is in the list of every object it waits for.
LEMMA WaiterListed ==
  ASSUME WaitInv, NEW t \in Threads, blocks[t], NEW i \in DOMAIN wait[t].objs
  PROVE  /\ wait[t] \in Requests /\ wait[t].objs[i] \in Objs
         /\ t \in Range(waitlist[wait[t].objs[i]])
<1>1. wait[t] \in Requests BY DEF WaitInv, ThreadsOK, ThreadOK, WType
<1>2. wait[t].objs \in Seq(Objs) BY <1>1, RequestFacts
<1> DEFINE o == wait[t].objs[i]
<1>3. o \in Objs /\ o \in Range(wait[t].objs) BY <1>2 DEF Range
<1> HIDE DEF o
<1>4. Cardinality(Positions(wait[t].objs, o)) # 0 BY <1>2, <1>3, PositionsEmpty
<1>5. CountIs(o, t) BY <1>3 DEF WaitInv, Linked
<1>6. Cardinality(Positions(waitlist[o], t)) # 0 BY <1>4, <1>5 DEF CountIs
<1>7. waitlist[o] \in Seq(Threads) BY <1>3 DEF WaitInv, WType
<1>8. t \in Range(waitlist[o]) BY <1>6, <1>7, PositionsEmpty
<1> QED BY <1>1, <1>3, <1>8 DEF o

\* The thread states release_thread starts from: those of the threads, but a
\* running thread may have died.
StartsFrom(S) ==
  /\ S \in [Threads -> States]
  /\ \A t \in Threads : S[t] = state[t] \/ (state[t] = "run" /\ S[t] = "dead")
\* The timers are left alone, or one goes off.
TimersKept ==
  /\ timer' \in [Threads -> {"off", "armed", "expired"}]
  /\ \A t \in Threads : timer'[t] = "off" <=> timer[t] = "off"

\* The threads of T have their wait blocks linked.
LinkedSet(T) == \A t \in T : t \in Threads /\ blocks[t]

\* release_thread keeps the wait part in order.
LEMMA ReleaseKeeps ==
  ASSUME WaitInv, NEW T, LinkedSet(T), NEW S, StartsFrom(S), NEW key \in [Threads -> Int],
         NEW twice \in BOOLEAN, release_thread(T, S, key, twice), TimersKept
  PROVE  WaitInv'
<1>1. WType'
  <2>1. waitlist' \in [Objs -> Seq(Threads)]
    <3>1. \A o \in Objs : Unlink(waitlist[o], T) \in Seq(Threads)
      <4> TAKE o \in Objs
      <4>1. waitlist[o] \in Seq(Threads) BY DEF WaitInv, WType
      <4> QED BY <4>1, UnlinkFacts
    <3> QED BY <3>1 DEF release_thread
  <2>2. wait' \in [Threads -> Requests \cup {NULL}] BY DEF WaitInv, WType, release_thread
  <2>3. blocks' \in [Threads -> BOOLEAN] BY DEF WaitInv, WType, release_thread
  <2>4. timer' \in [Threads -> {"off", "armed", "expired"}] BY DEF TimersKept
  <2>5. waitkey' \in [Threads -> Int] BY DEF WaitInv, WType, release_thread
  <2>6. state' \in [Threads -> States] BY DEF release_thread, StartsFrom, States
  <2>7. panicked' \in BOOLEAN BY DEF release_thread
  <2> QED BY <2>1, <2>2, <2>3, <2>4, <2>5, <2>6, <2>7 DEF WType
<1>2. Linked'
  <2> SUFFICES ASSUME NEW o \in Objs, NEW t \in Threads PROVE CountIs(o, t)' BY DEF Linked
  <2>1. waitlist'[o] = Unlink(waitlist[o], T) /\ waitlist[o] \in Seq(Threads)
    BY DEF release_thread, WaitInv, WType
  <2>2. Cardinality(Positions(waitlist'[o], t))
          = IF t \in T THEN 0 ELSE Cardinality(Positions(waitlist[o], t))
    BY <2>1, UnlinkPositions
  <2>3. blocks'[t] = (blocks[t] /\ t \notin T) /\ wait'[t] = wait[t] BY DEF release_thread
  <2>4. CountIs(o, t) BY DEF WaitInv, Linked
  <2>5. CASE t \in T BY <2>2, <2>3, <2>5 DEF CountIs
  <2>6. CASE t \notin T BY <2>2, <2>3, <2>4, <2>6 DEF CountIs
  <2> QED BY <2>5, <2>6
<1>3. ThreadsOK'
  <2> SUFFICES ASSUME NEW t \in Threads PROVE ThreadOK(t)' BY DEF ThreadsOK
  <2>1. ThreadOK(t) BY DEF WaitInv, ThreadsOK
  <2>2. /\ blocks'[t] = (blocks[t] /\ t \notin T) /\ wait'[t] = wait[t]
        /\ state'[t] = IF t \in T /\ S[t] = "wait" THEN "woken" ELSE S[t]
    BY DEF release_thread
  <2>3. timer'[t] = "off" <=> timer[t] = "off" BY DEF TimersKept
  <2>4. S[t] = state[t] \/ (state[t] = "run" /\ S[t] = "dead") BY DEF StartsFrom
  <2>5. t \in T => blocks[t] BY DEF LinkedSet
  <2>6. state[t] \in States BY DEF WaitInv, WType
  <2>7. (state'[t] = "wait" => blocks'[t]) /\ (blocks'[t] => state'[t] \in {"wait", "alert"})
    BY <2>1, <2>2, <2>4, <2>5, <2>6 DEF ThreadOK, States
  <2>8. state'[t] \in {"wait", "woken", "alert"} <=> wait'[t] # NULL
    BY <2>1, <2>2, <2>4, <2>5, <2>6 DEF ThreadOK, States
  <2>9. (state'[t] \in {"run", "dead"} => timer'[t] = "off")
    BY <2>1, <2>2, <2>3, <2>4, <2>5, <2>6 DEF ThreadOK, States
  <2>10. (state'[t] = "alert" => wait'[t].alertable) /\ (timer'[t] # "off" => wait'[t].timed)
    BY <2>1, <2>2, <2>3, <2>4, <2>5, <2>6 DEF ThreadOK, States
  <2> QED BY <2>7, <2>8, <2>9, <2>10 DEF ThreadOK
<1> QED BY <1>1, <1>2, <1>3 DEF WaitInv

\* The key of a waiting thread, when something it waits for is signaled, is
\* that of a signaled object; in any case it is a number.
LEMMA KeyForFacts ==
  ASSUME WaitInv, NEW t \in Threads, wait[t] \in Requests, NEW sig
  PROVE  /\ KeyFor(sig, t) \in Int
         /\ SomeOf(sig, t) => /\ KeyFor(sig, t) + 1 \in DOMAIN wait[t].objs /\ KeyFor(sig, t) >= 0
                              /\ sig[wait[t].objs[KeyFor(sig, t) + 1]]
<1> DEFINE q == wait[t].objs
           I == {i \in DOMAIN q : sig[q[i]]}
           k == CHOOSE i \in I : \A j \in I : j <= i
<1>1. q \in Seq(Objs) BY RequestFacts
<1>2. I \in SUBSET DOMAIN q OBVIOUS
<1>3. I \in SUBSET Nat /\ IsFiniteSet(I)
  <2> HIDE DEF I, q
  <2> QED BY <1>1, <1>2, SeqDomain
<1>4. waitkey[t] \in Int BY DEF WaitInv, WType
<1>5. KeyFor(sig, t) = IF I = {} THEN waitkey[t] ELSE k - 1 BY DEF KeyFor
<1>6. ASSUME I # {} PROVE k \in I
  <2> HIDE DEF I
  <2>1. \E i \in I : \A j \in I : j <= i BY <1>3, <1>6, LargestExists
  <2> QED BY <2>1
<1>7. SomeOf(sig, t) <=> I # {} BY DEF SomeOf
<1>8. CASE I = {} BY <1>4, <1>5, <1>7, <1>8
<1>9. CASE I # {}
  <2>1. k \in I /\ k \in Nat /\ k \in DOMAIN q /\ sig[q[k]] BY <1>3, <1>6, <1>9
  <2>2. k >= 1
    <3>1. \A i \in DOMAIN q : i >= 1
      <4> HIDE DEF q, I, k
      <4> QED BY <1>1
    <3> HIDE DEF q, I, k
    <3> QED BY <2>1, <3>1
  <2> HIDE DEF k, I
  <2>3. KeyFor(sig, t) = k - 1 BY <1>5, <1>9
  <2>4. KeyFor(sig, t) + 1 = k BY <2>1, <2>3
  <2> QED BY <2>1, <2>2, <2>3, <2>4
<1> QED BY <1>8, <1>9

\* The keys that release_waiters would deliver are numbers.
LEMMA KeysType ==
  ASSUME WaitInv, NEW sig
  PROVE  Keys(sig) \in [Threads -> Int]
<1> SUFFICES ASSUME NEW t \in Threads
             PROVE  (IF wait[t] = NULL THEN waitkey[t] ELSE KeyFor(sig, t)) \in Int
  BY DEF Keys
<1>1. CASE wait[t] = NULL BY <1>1 DEF WaitInv, WType
<1>2. CASE wait[t] # NULL
  <2>1. wait[t] \in Requests BY <1>2 DEF WaitInv, WType
  <2> QED BY <1>2, <2>1, KeyForFacts
<1> QED BY <1>1, <1>2

\* The threads at some positions of a wait list are linked.
LEMMA ThreadsAtLinked ==
  ASSUME WaitInv, NEW o \in Objs, NEW I \in SUBSET DOMAIN waitlist[o]
  PROVE  LinkedSet(ThreadsAt(o, I)) /\ ThreadsAt(o, I) \subseteq Range(waitlist[o])
<1>1. ThreadsAt(o, I) \subseteq Range(waitlist[o]) BY DEF ThreadsAt, Range
<1> QED BY <1>1, ListedWaits DEF LinkedSet

\* Threads are released from positions of the wait list.
LEMMA FirstReadyDomain ==
  ASSUME NEW o, NEW sig, NEW n
  PROVE  /\ ReadyAt(o, sig) \in SUBSET DOMAIN waitlist[o]
         /\ FirstReady(o, sig, n) \in SUBSET DOMAIN waitlist[o]
         /\ FirstReady(o, sig, n) = Lowest(ReadyAt(o, sig), n)
BY DEF ReadyAt, FirstReady, Lowest

\* Releasing threads without touching any other state.
LEMMA SameStates ==
  ASSUME WaitInv
  PROVE  StartsFrom(state) /\ (UNCHANGED timer => TimersKept)
BY DEF WaitInv, WType, StartsFrom, TimersKept

\* release_thread by a signaling operation.
LEMMA SignalKeeps ==
  ASSUME WaitInv, NEW o \in Objs, NEW I \in SUBSET DOMAIN waitlist[o], NEW sig,
         NEW twice \in BOOLEAN, release_thread(ThreadsAt(o, I), state, Keys(sig), twice),
         UNCHANGED timer
  PROVE  WaitInv'
BY ThreadsAtLinked, SameStates, KeysType, ReleaseKeeps

\* A step that touches no wait keeps the wait part.
LEMMA Unmoved ==
  ASSUME WaitInv, UNCHANGED <<waitlist, wait, blocks, timer, waitkey, state, panicked>>
  PROVE  WaitInv'
BY DEF WaitInv, WType, Linked, ThreadsOK, CountIs, ThreadOK

\* wait_for_one_object and its kin: a block per object is linked when a
\* thread goes to sleep.
LEMMA BlockKeeps ==
  ASSUME WaitInv, NEW t \in Threads, NEW r \in Requests, Block(t, r)
  PROVE  WaitInv'
<1>1. state[t] = "run" /\ ~blocks[t]
  BY DEF Block, Runs, WaitInv, ThreadsOK, ThreadOK
<1>2. ASSUME NEW o \in Objs
      PROVE  /\ waitlist'[o] \in Seq(Threads)
             /\ \A u \in Threads : CountIs(o, u)'
  <2> DEFINE q == waitlist[o]
             n == Cardinality(Positions(r.objs, o))
             s == q \o [i \in 1 .. n |-> t]
  <2>1. q \in Seq(Threads) BY DEF WaitInv, WType
  <2>2. n \in Nat
    <3>1. r.objs \in Seq(Objs) BY RequestFacts
    <3> QED BY <3>1, PositionsEmpty
  <2>3. waitlist'[o] = s BY DEF Block, insert_in_waitlist, Copies
  <2>4. Cardinality(Positions(q, t)) = 0
    <3>1. CountIs(o, t) BY DEF WaitInv, Linked
    <3> QED BY <1>1, <3>1 DEF CountIs
  <2>5. Positions(q, t) = {}
    <3>1. IsFiniteSet(Positions(q, t))
      <4> HIDE DEF q
      <4> QED BY <2>1, SeqDomain
    <3> QED BY <2>4, <3>1, FS_EmptySet
  <2>6. /\ s \in Seq(Threads)
        /\ \A x : x # t => Positions(s, x) = Positions(q, x)
        /\ Cardinality(Positions(s, t)) = n
    <3> HIDE DEF q, n
    <3> QED BY <2>1, <2>2, <2>5, AppendPositions
  <2>7. CountIs(o, t)'
    <3>1. blocks'[t] /\ wait'[t] = r BY DEF Block, WaitInv, WType
    <3> QED BY <2>3, <2>6, <3>1 DEF CountIs
  <2>8. ASSUME NEW u \in Threads, u # t PROVE CountIs(o, u)'
    <3>1. blocks'[u] = blocks[u] /\ wait'[u] = wait[u] BY <2>8 DEF Block, WaitInv, WType
    <3>2. Positions(waitlist'[o], u) = Positions(waitlist[o], u) BY <2>3, <2>6, <2>8
    <3>3. CountIs(o, u) BY DEF WaitInv, Linked
    <3> QED BY <3>1, <3>2, <3>3 DEF CountIs
  <2> QED BY <2>3, <2>6, <2>7, <2>8
<1>3. Linked' BY <1>2 DEF Linked
<1>4. WType'
  <2>1. waitlist' \in [Objs -> Seq(Threads)]
    <3>1. waitlist' = [o \in Objs |-> waitlist'[o]] BY DEF Block, insert_in_waitlist
    <3> QED BY <1>2, <3>1
  <2>2. wait' \in [Threads -> Requests \cup {NULL}] BY DEF Block, WaitInv, WType
  <2>3. blocks' \in [Threads -> BOOLEAN] BY DEF Block, WaitInv, WType
  <2>4. timer' \in [Threads -> {"off", "armed", "expired"}] BY DEF Block, WaitInv, WType
  <2>5. state' \in [Threads -> States] BY DEF Block, WaitInv, WType, States
  <2>6. waitkey' \in [Threads -> Int] /\ panicked' \in BOOLEAN BY DEF Block, WaitInv, WType
  <2> QED BY <2>1, <2>2, <2>3, <2>4, <2>5, <2>6 DEF WType
<1>5. ASSUME NEW u \in Threads PROVE ThreadOK(u)'
  <2>1. CASE u = t
    <3>1. /\ state'[u] = "wait" /\ blocks'[u] /\ wait'[u] = r
          /\ timer'[u] = IF r.timed THEN "armed" ELSE "off"
      BY <2>1 DEF Block, WaitInv, WType
    <3>2. r # NULL BY RequestFacts
    <3> QED BY <3>1, <3>2 DEF ThreadOK
  <2>2. CASE u # t
    <3>1. ThreadOK(u) BY DEF WaitInv, ThreadsOK
    <3>2. /\ state'[u] = state[u] /\ blocks'[u] = blocks[u] /\ wait'[u] = wait[u]
          /\ timer'[u] = timer[u]
      BY <2>2 DEF Block, WaitInv, WType
    <3> QED BY <3>1, <3>2 DEF ThreadOK
  <2> QED BY <2>1, <2>2
<1> QED BY <1>3, <1>4, <1>5 DEF WaitInv, ThreadsOK

\* A thread that has been released takes its remaining blocks and its timer
\* out before it returns.
LEMMA ReturnKeeps ==
  ASSUME WaitInv, NEW t \in Threads, Return(t)
  PROVE  WaitInv'
<1>1. WType'
  <2>1. waitlist' \in [Objs -> Seq(Threads)]
    <3>1. \A o \in Objs : Unlink(waitlist[o], {t}) \in Seq(Threads)
      <4> TAKE o \in Objs
      <4>1. waitlist[o] \in Seq(Threads) BY DEF WaitInv, WType
      <4> QED BY <4>1, UnlinkFacts
    <3> QED BY <3>1 DEF Return
  <2>2. wait' \in [Threads -> Requests \cup {NULL}] BY DEF Return, WaitInv, WType
  <2>3. blocks' \in [Threads -> BOOLEAN] BY DEF Return, WaitInv, WType
  <2>4. timer' \in [Threads -> {"off", "armed", "expired"}] BY DEF Return, WaitInv, WType
  <2>5. state' \in [Threads -> States] BY DEF Return, WaitInv, WType, States
  <2>6. waitkey' \in [Threads -> Int] /\ panicked' \in BOOLEAN BY DEF Return, WaitInv, WType
  <2> QED BY <2>1, <2>2, <2>3, <2>4, <2>5, <2>6 DEF WType
<1>2. ASSUME NEW o \in Objs, NEW u \in Threads PROVE CountIs(o, u)'
  <2>1. waitlist'[o] = Unlink(waitlist[o], {t}) /\ waitlist[o] \in Seq(Threads)
    BY DEF Return, WaitInv, WType
  <2>2. Cardinality(Positions(waitlist'[o], u))
          = IF u \in {t} THEN 0 ELSE Cardinality(Positions(waitlist[o], u))
    BY <2>1, UnlinkPositions
  <2>3. CASE u = t
    <3>1. ~blocks'[u] BY <2>3 DEF Return, WaitInv, WType
    <3> QED BY <2>2, <2>3, <3>1 DEF CountIs
  <2>4. CASE u # t
    <3>1. blocks'[u] = blocks[u] /\ wait'[u] = wait[u] BY <2>4 DEF Return, WaitInv, WType
    <3>2. CountIs(o, u) BY DEF WaitInv, Linked
    <3> QED BY <2>2, <2>4, <3>1, <3>2 DEF CountIs
  <2> QED BY <2>3, <2>4
<1>3. ASSUME NEW u \in Threads PROVE ThreadOK(u)'
  <2>1. CASE u = t
    <3>1. state'[u] = "run" /\ ~blocks'[u] /\ wait'[u] = NULL /\ timer'[u] = "off"
      BY <2>1 DEF Return, WaitInv, WType
    <3> QED BY <3>1 DEF ThreadOK
  <2>2. CASE u # t
    <3>1. ThreadOK(u) BY DEF WaitInv, ThreadsOK
    <3>2. /\ state'[u] = state[u] /\ blocks'[u] = blocks[u] /\ wait'[u] = wait[u]
          /\ timer'[u] = timer[u]
      BY <2>2 DEF Return, WaitInv, WType
    <3> QED BY <3>1, <3>2 DEF ThreadOK
  <2> QED BY <2>1, <2>2
<1> QED BY <1>1, <1>2, <1>3 DEF WaitInv, Linked, ThreadsOK

\* A signal interrupts a wait, and leaves its blocks linked until it returns.
LEMMA InterruptKeeps ==
  ASSUME WaitInv, NEW t \in Threads, Interrupt(t)
  PROVE  WaitInv'
<1>1. WType' BY DEF Interrupt, WaitInv, WType, States
<1>2. Linked' BY DEF Interrupt, WaitInv, Linked, CountIs
<1>3. ASSUME NEW u \in Threads PROVE ThreadOK(u)'
  <2>1. ThreadOK(u) BY DEF WaitInv, ThreadsOK
  <2>2. blocks'[u] = blocks[u] /\ wait'[u] = wait[u] /\ timer'[u] = timer[u] BY DEF Interrupt
  <2>3. CASE u = t
    <3>1. state[u] = "wait" /\ state'[u] = "alert" /\ wait[u].alertable
      BY <2>3 DEF Interrupt, WaitInv, WType
    <3> QED BY <2>1, <2>2, <3>1 DEF ThreadOK
  <2>4. CASE u # t
    <3>1. state'[u] = state[u] BY <2>4 DEF Interrupt, WaitInv, WType
    <3> QED BY <2>1, <2>2, <3>1 DEF ThreadOK
  <2> QED BY <2>3, <2>4
<1> QED BY <1>1, <1>2, <1>3 DEF WaitInv, ThreadsOK

\* The timer of a wait expires: the thread is released.
LEMMA ExpireKeeps ==
  ASSUME WaitInv, NEW t \in Threads, ExpireTimer(t)
  PROVE  WaitInv'
<1>1. timer' \in [Threads -> {"off", "armed", "expired"}] BY DEF ExpireTimer, WaitInv, WType
<1>2. \A u \in Threads : timer'[u] = "off" <=> timer[u] = "off"
  BY DEF ExpireTimer, WaitInv, WType
<1>3. TimersKept BY <1>1, <1>2 DEF TimersKept
<1>4. CASE blocks[t]
  <2>1. release_thread({t}, state, [u \in Threads |-> ExpiryKey], FALSE) BY <1>4 DEF ExpireTimer
  <2>2. [u \in Threads |-> ExpiryKey] \in [Threads -> Int] BY DEF ExpiryKey
  <2>3. LinkedSet({t}) BY <1>4 DEF LinkedSet
  <2> QED BY <1>3, <2>1, <2>2, <2>3, SameStates, ReleaseKeeps
<1>5. CASE ~blocks[t]
  <2>1. UNCHANGED <<waitlist, wait, blocks, waitkey, state, panicked>> BY <1>5 DEF ExpireTimer
  <2>2. WType' BY <1>1, <2>1 DEF WaitInv, WType
  <2>3. Linked' BY <2>1 DEF WaitInv, Linked, CountIs
  <2>4. ASSUME NEW u \in Threads PROVE ThreadOK(u)'
    <3>1. ThreadOK(u) BY DEF WaitInv, ThreadsOK
    <3> QED BY <1>2, <2>1, <3>1 DEF ThreadOK
  <2> QED BY <2>2, <2>3, <2>4 DEF WaitInv, ThreadsOK
<1> QED BY <1>4, <1>5

-----------------------------------------------------------------------------
(* What the signaling operations have in common.                           *)

\* Object o is set.
Raised(o) == [signaled EXCEPT ![o] = TRUE]

\* Object o is signaled and the ready threads at the positions I of its wait
\* list are released; it stays signaled only when no ready thread is left, or
\* the kernel hangs.
Signal(o, I) ==
  /\ I \subseteq ReadyAt(o, Raised(o))
  /\ \E twice \in BOOLEAN : release_thread(ThreadsAt(o, I), state, Keys(Raised(o)), twice)
  /\ UNCHANGED timer
  /\ signaled' \in [Objs -> BOOLEAN]
  /\ \A p \in Objs : p # o => signaled'[p] = signaled[p]
  /\ signaled'[o] => hung' \/ I = ReadyAt(o, Raised(o))

\* All objects, by kind.
Kinds == AutoEvents \cup ManualEvents \cup Sems \cup Lockables \cup Threads

\* An object has one kind, and the constants are numbers.
LEMMA KindsFacts ==
  /\ Kinds = Objs
  /\ MaxCount \in Nat /\ MaxCount >= 1 /\ ExitCode \in Int
  /\ \A o : o \in Sems => o \notin AutoEvents \cup ManualEvents \cup Lockables \cup Threads
  /\ \A o : o \in Mutexes => o \notin AutoEvents \cup ManualEvents \cup Sems \cup Filemaps \cup Threads
  /\ \A o : o \in Filemaps => o \notin AutoEvents \cup ManualEvents \cup Sems \cup Mutexes \cup Threads
  /\ \A o : o \in Threads => o \notin AutoEvents \cup ManualEvents \cup Sems \cup Lockables
  /\ \A o : o \in AutoEvents => o \notin ManualEvents
BY ObjectsAssumption DEF Kinds, Objs, Lockables

\* The ready positions of a wait list, and the first n of them.
LEMMA ReadyFacts ==
  ASSUME WaitInv, NEW o \in Objs, NEW sig, NEW n \in Nat
  PROVE  /\ ReadyAt(o, sig) \in SUBSET Nat /\ IsFiniteSet(ReadyAt(o, sig))
         /\ FirstReady(o, sig, n) \subseteq ReadyAt(o, sig)
         /\ IsFiniteSet(FirstReady(o, sig, n))
         /\ Cardinality(FirstReady(o, sig, n)) \in Nat
         /\ Cardinality(FirstReady(o, sig, n)) <= n
         /\ Cardinality(FirstReady(o, sig, n)) < n => FirstReady(o, sig, n) = ReadyAt(o, sig)
<1>1. waitlist[o] \in Seq(Threads) BY DEF WaitInv, WType
<1>2. ReadyAt(o, sig) \in SUBSET Nat /\ IsFiniteSet(ReadyAt(o, sig))
  <2>1. ReadyAt(o, sig) \in SUBSET DOMAIN waitlist[o] BY DEF ReadyAt
  <2> QED BY <1>1, <2>1, SeqDomain
<1> QED BY <1>2, FirstReadyDomain, LowestFacts

\* The first ready thread of a list is ready and every position before it is
\* not; there is none only if no thread is ready.
LEMMA FirstReadyOne ==
  ASSUME WaitInv, NEW o \in Objs, NEW sig
  PROVE  /\ FirstReady(o, sig, 1) = {} => ReadyAt(o, sig) = {}
         /\ FirstReady(o, sig, 1) # {} =>
              \E i \in ReadyAt(o, sig) : /\ FirstReady(o, sig, 1) = {i}
                                         /\ \A j \in ReadyAt(o, sig) : i <= j
<1>1. ReadyAt(o, sig) \in SUBSET Nat /\ IsFiniteSet(ReadyAt(o, sig)) BY ReadyFacts
<1>2. FirstReady(o, sig, 1) \subseteq ReadyAt(o, sig) BY DEF FirstReady
<1>3. FirstReady(o, sig, 1) = Lowest(ReadyAt(o, sig), 1) BY FirstReadyDomain
<1>4. CASE ReadyAt(o, sig) = {} BY <1>2, <1>4
<1>5. CASE ReadyAt(o, sig) # {} BY <1>1, <1>3, <1>5, LowestOne
<1> QED BY <1>4, <1>5

\* Signaling an object keeps the wait part.
LEMMA SignalWait ==
  ASSUME WaitInv, NEW o \in Objs, NEW I, Signal(o, I)
  PROVE  WaitInv'
<1>1. I \in SUBSET DOMAIN waitlist[o] BY DEF Signal, ReadyAt
<1>2. PICK twice \in BOOLEAN : release_thread(ThreadsAt(o, I), state, Keys(Raised(o)), twice)
  BY DEF Signal
<1> QED BY <1>1, <1>2, SignalKeeps DEF Signal

\* set_event is a Signal step.
LEMMA SetEventSignals ==
  ASSUME WaitInv, OType, NEW c, NEW e \in AutoEvents \cup ManualEvents, set_event(c, e)
  PROVE  \E I : Signal(e, I)
<1> DEFINE I == IF e \in AutoEvents THEN FirstReady(e, Raised(e), 1) ELSE ReadyAt(e, Raised(e))
<1>0. e \in Objs BY DEF Objs
<1>1. /\ release_thread(ThreadsAt(e, I), state, Keys(Raised(e)), Twice(e, I))
      /\ signaled' = [signaled EXCEPT ![e] = e \in ManualEvents \/ I = {}]
      /\ UNCHANGED timer
  BY DEF set_event, Raised
<1>2. I \subseteq ReadyAt(e, Raised(e)) BY DEF FirstReady
<1>3. Twice(e, I) \in BOOLEAN BY DEF Twice
<1>4. signaled' \in [Objs -> BOOLEAN] /\ \A p \in Objs : p # e => signaled'[p] = signaled[p]
  BY <1>1 DEF OType
<1>5. signaled'[e] => I = ReadyAt(e, Raised(e))
  <2>1. CASE e \in ManualEvents BY <2>1, KindsFacts
  <2>2. CASE e \notin ManualEvents
    <3>1. e \in AutoEvents BY <2>2
    <3>2. signaled'[e] => I = {} BY <1>0, <1>1, <2>2 DEF OType
    <3>3. I = {} => ReadyAt(e, Raised(e)) = {} BY <1>0, <3>1, FirstReadyOne
    <3> QED BY <3>2, <3>3
  <2> QED BY <2>1, <2>2
<1> HIDE DEF I
<1>6. Signal(e, I) BY <1>1, <1>2, <1>3, <1>4, <1>5 DEF Signal
<1> QED BY <1>6

\* pulse_event is a Signal step.
LEMMA PulseEventSignals ==
  ASSUME WaitInv, OType, NEW c, NEW e \in AutoEvents \cup ManualEvents, pulse_event(c, e)
  PROVE  \E I : Signal(e, I)
<1> DEFINE stuck == DOMAIN waitlist[e] \ ReadyAt(e, Raised(e))
           I == {i \in IF e \in AutoEvents THEN FirstReady(e, Raised(e), 1) ELSE ReadyAt(e, Raised(e)) :
                   \A j \in stuck : i < j}
<1>0. e \in Objs BY DEF Objs
<1>1. /\ release_thread(ThreadsAt(e, I), state, Keys(Raised(e)), Twice(e, I))
      /\ signaled' = [signaled EXCEPT ![e] = hung'] /\ hung' \in BOOLEAN
      /\ UNCHANGED timer
  BY DEF pulse_event, Raised
<1>2. I \subseteq ReadyAt(e, Raised(e)) BY DEF FirstReady
<1>3. Twice(e, I) \in BOOLEAN BY DEF Twice
<1>4. signaled' \in [Objs -> BOOLEAN] /\ \A p \in Objs : p # e => signaled'[p] = signaled[p]
  BY <1>1 DEF OType
<1>5. signaled'[e] => hung' BY <1>0, <1>1 DEF OType
<1> HIDE DEF I
<1>6. Signal(e, I) BY <1>1, <1>2, <1>3, <1>4, <1>5 DEF Signal
<1> QED BY <1>6

\* release_sem and set_sem signal the semaphore, with the tokens as the bound.
LEMMA HandOutSignals ==
  ASSUME WaitInv, OType, NEW s \in Sems, NEW n \in Nat, n # 0, HandOut(s, n), UNCHANGED timer
  PROVE  Signal(s, FirstReady(s, Raised(s), n))
<1> DEFINE I == FirstReady(s, Raised(s), n)
<1>0. s \in Objs BY DEF Objs
<1>1. /\ release_thread(ThreadsAt(s, I), state, Keys(Raised(s)), Twice(s, I))
      /\ signaled' = [signaled EXCEPT ![s] = n > Cardinality(I)]
  BY DEF HandOut, Raised
<1>2. I \subseteq ReadyAt(s, Raised(s)) BY DEF FirstReady
<1>3. Twice(s, I) \in BOOLEAN BY DEF Twice
<1>4. signaled' \in [Objs -> BOOLEAN] /\ \A p \in Objs : p # s => signaled'[p] = signaled[p]
  <2>1. Cardinality(I) \in Nat BY <1>0, ReadyFacts
  <2>2. (n > Cardinality(I)) \in BOOLEAN BY <2>1
  <2> HIDE DEF I
  <2> QED BY <1>1, <2>2 DEF OType
<1>5. signaled'[s] => I = ReadyAt(s, Raised(s))
  <2>1. signaled'[s] => Cardinality(I) < n
    <3>1. Cardinality(I) \in Nat BY <1>0, ReadyFacts
    <3> HIDE DEF I
    <3> QED BY <1>0, <1>1, <3>1 DEF OType
  <2> QED BY <1>0, <2>1, ReadyFacts
<1> HIDE DEF I
<1>6. Signal(s, I) BY <1>1, <1>2, <1>3, <1>4, <1>5 DEF Signal
<1> QED BY <1>6 DEF I

\* hand_over and unlock_filemap release the first ready thread alone.
LEMMA PassOnSignals ==
  ASSUME WaitInv, OType, NEW m \in Objs, UNCHANGED timer,
         release_thread(ThreadsAt(m, FirstReady(m, Raised(m), 1)), state, Keys(Raised(m)), FALSE),
         signaled' = [signaled EXCEPT ![m] = FirstReady(m, Raised(m), 1) = {}]
  PROVE  Signal(m, FirstReady(m, Raised(m), 1))
<1> DEFINE I == FirstReady(m, Raised(m), 1)
<1>1. I \subseteq ReadyAt(m, Raised(m)) BY DEF FirstReady
<1>2. signaled' \in [Objs -> BOOLEAN] /\ \A p \in Objs : p # m => signaled'[p] = signaled[p]
  BY DEF OType
<1>3. signaled'[m] => I = ReadyAt(m, Raised(m))
  <2>1. signaled'[m] => I = {} BY DEF OType
  <2> QED BY <2>1, FirstReadyOne
<1> HIDE DEF I
<1>4. release_thread(ThreadsAt(m, I), state, Keys(Raised(m)), FALSE) BY DEF I
<1>5. Signal(m, I) BY <1>1, <1>2, <1>3, <1>4 DEF Signal
<1> QED BY <1>5 DEF I

\* release_mutex signals the mutex for one thread.
LEMMA HandOverSignals ==
  ASSUME WaitInv, OType, NEW m \in Mutexes, hand_over(m, Raised(m)), UNCHANGED timer
  PROVE  Signal(m, FirstReady(m, Raised(m), 1))
<1>1. m \in Objs BY DEF Objs
<1> QED BY <1>1, PassOnSignals DEF hand_over

\* unlock_filemap signals the file mapping for one thread.
LEMMA UnlockSignals ==
  ASSUME WaitInv, OType, NEW t, NEW f \in Filemaps, unlock_filemap(t, f)
  PROVE  Signal(f, FirstReady(f, Raised(f), 1))
<1>1. f \in Objs BY DEF Objs
<1> QED BY <1>1, PassOnSignals DEF unlock_filemap, Raised

\* exit_thread as a release.
LEMMA ExitForm ==
  ASSUME WaitInv, OType, NEW t \in Threads, exit_thread(t)
  PROVE  /\ StartsFrom([state EXCEPT ![t] = "dead"])
         /\ Twice(t, ReadyAt(t, Raised(t))) \in BOOLEAN
         /\ release_thread(ThreadsAt(t, ReadyAt(t, Raised(t))), [state EXCEPT ![t] = "dead"],
                           [u \in Threads |-> ExitCode], Twice(t, ReadyAt(t, Raised(t))))
         /\ signaled' = Raised(t) /\ TimersKept /\ LinkedSet(ThreadsAt(t, ReadyAt(t, Raised(t))))
         /\ [u \in Threads |-> ExitCode] \in [Threads -> Int]
<1>1. StartsFrom([state EXCEPT ![t] = "dead"])
  BY DEF StartsFrom, exit_thread, Runs, WaitInv, WType, States
<1>2. TimersKept BY SameStates DEF exit_thread
<1>3. t \in Objs BY DEF Objs
<1>4. LinkedSet(ThreadsAt(t, ReadyAt(t, Raised(t)))) BY <1>3, FirstReadyDomain, ThreadsAtLinked
<1>5. [u \in Threads |-> ExitCode] \in [Threads -> Int] BY KindsFacts
<1>6. /\ release_thread(ThreadsAt(t, ReadyAt(t, Raised(t))), [state EXCEPT ![t] = "dead"],
                           [u \in Threads |-> ExitCode], Twice(t, ReadyAt(t, Raised(t))))
      /\ signaled' = Raised(t)
  BY DEF exit_thread, Raised
<1>7. Twice(t, ReadyAt(t, Raised(t))) \in BOOLEAN BY DEF Twice
<1> QED BY <1>1, <1>2, <1>4, <1>5, <1>6, <1>7

\* The end of a thread keeps the wait part.
LEMMA ExitKeeps ==
  ASSUME WaitInv, OType, NEW t \in Threads, exit_thread(t)
  PROVE  WaitInv'
BY ExitForm, ReleaseKeeps

\* close_object releases all waiters and keeps the wait part.
LEMMA CloseKeeps ==
  ASSUME WaitInv, NEW c, NEW o \in Objs, close_object(c, o)
  PROVE  WaitInv'
<1>1. release_thread(Range(waitlist[o]), state, [t \in Threads |-> EINTR], FALSE) /\ UNCHANGED timer
  BY DEF close_object
<1>2. LinkedSet(Range(waitlist[o])) BY ListedWaits DEF LinkedSet
<1>3. [t \in Threads |-> EINTR] \in [Threads -> Int] BY DEF EINTR
<1> QED BY <1>1, <1>2, <1>3, SameStates, ReleaseKeeps

-----------------------------------------------------------------------------
(* Types of the object part, and the invariant of the wait lists.          *)

\* enter_object keeps the types.
LEMMA EnterType ==
  ASSUME OType, NEW t \in Threads, NEW S, enter_object(t, S)
  PROVE  /\ signaled' \in [Objs -> BOOLEAN] /\ count' \in [Sems -> 0 .. (CountMod - 1)]
         /\ owner' \in [Mutexes -> Threads \cup {NULL}] /\ recursion' \in [Mutexes -> 0 .. MaxCount]
<1>1. signaled' \in [Objs -> BOOLEAN] BY DEF enter_object, Entered, OType
<1>2. owner' \in [Mutexes -> Threads \cup {NULL}] BY DEF enter_object, OType
<1>3. recursion' \in [Mutexes -> 0 .. MaxCount] BY KindsFacts DEF enter_object, OType
<1>4. \A s \in Sems : (count[s] - 1) % CountMod \in 0 .. (CountMod - 1)
  <2> TAKE s \in Sems
  <2>1. CountMod \in Nat /\ CountMod >= 1 BY KindsFacts DEF CountMod
  <2>2. count[s] - 1 \in Int BY DEF OType
  <2> QED BY <2>1, <2>2
<1>5. count' \in [Sems -> 0 .. (CountMod - 1)] BY <1>4 DEF enter_object, OType
<1> QED BY <1>1, <1>2, <1>3, <1>5

\* So does what the caller is told.
LEMMA ToldType ==
  ASSUME OType, NEW t \in Threads, NEW S, Told(t, S)
  PROVE  held' \in [Threads -> [Lockables -> Int]] /\ tokens' \in [Sems -> Int]
<1>1. \A m \in Lockables : held[t][m] \in Int /\ held[t][m] + 1 \in Int BY DEF OType
<1>2. [m \in Lockables |-> IF m \in S THEN held[t][m] + 1 ELSE held[t][m]] \in [Lockables -> Int]
  BY <1>1
<1> QED BY <1>2 DEF Told, OType

\* A wait for one or any of several objects that need not sleep.
LEMMA WaitAnyType ==
  ASSUME OType, NEW t \in Threads, NEW r \in Requests, WaitAnyNow(t, r)
  PROVE  OType'
<1> DEFINE Key(i) == IF r.objs[i] \in Threads /\ ExitCode # 0 THEN ExitCode ELSE i - 1
<1>1. PICK i \in DOMAIN r.objs :
        /\ Enterable(t, r.objs[i])
        /\ \/ signaled[r.objs[i]] /\ enter_object(t, {r.objs[i]})
           \/ /\ ~signaled[r.objs[i]] /\ recursion[r.objs[i]] < MaxCount
              /\ recursion' = [recursion EXCEPT ![r.objs[i]] = @ + 1]
              /\ UNCHANGED <<signaled, count, owner>>
        /\ Told(t, TakenFor(r, Key(i)))
  BY DEF WaitAnyNow
<1>2. UNCHANGED <<closed, hung>> BY DEF WaitAnyNow
<1>3. held' \in [Threads -> [Lockables -> Int]] /\ tokens' \in [Sems -> Int]
  BY <1>1, ToldType
<1>4. /\ signaled' \in [Objs -> BOOLEAN] /\ count' \in [Sems -> 0 .. (CountMod - 1)]
      /\ owner' \in [Mutexes -> Threads \cup {NULL}] /\ recursion' \in [Mutexes -> 0 .. MaxCount]
  <2>1. CASE enter_object(t, {r.objs[i]}) BY <2>1, EnterType
  <2>2. CASE /\ ~signaled[r.objs[i]] /\ recursion[r.objs[i]] < MaxCount
             /\ recursion' = [recursion EXCEPT ![r.objs[i]] = @ + 1]
             /\ UNCHANGED <<signaled, count, owner>>
    <3>1. r.objs[i] \in Mutexes BY <1>1, <2>2 DEF Enterable
    <3>2. recursion[r.objs[i]] + 1 \in 0 .. MaxCount BY <2>2, <3>1, KindsFacts DEF OType
    <3> QED BY <2>2, <3>2 DEF OType
  <2> QED BY <1>1, <2>1, <2>2
<1> QED BY <1>2, <1>3, <1>4 DEF OType

\* Tokens are handed out: types and waits are kept.
LEMMA HandOutType ==
  ASSUME WaitInv, OType, NEW s \in Sems, NEW n \in 0 .. MaxCount, HandOut(s, n), UNCHANGED timer
  PROVE  /\ WaitInv'
         /\ signaled' \in [Objs -> BOOLEAN] /\ count' \in [Sems -> 0 .. (CountMod - 1)]
<1>1. s \in Objs BY DEF Objs
<1>2. MaxCount \in Nat /\ CountMod = MaxCount + 3 BY KindsFacts DEF CountMod
<1>3. CASE n = 0
  <2>1. /\ count' = [count EXCEPT ![s] = 0]
        /\ UNCHANGED <<signaled, waitlist, wait, blocks, waitkey, state, panicked>>
    BY <1>3 DEF HandOut
  <2>2. 0 \in 0 .. (CountMod - 1) BY <1>2
  <2>3. WaitInv' BY <2>1, Unmoved
  <2> QED BY <2>1, <2>2, <2>3 DEF OType
<1>4. CASE n # 0
  <2> DEFINE I == FirstReady(s, Raised(s), n)
  <2>1. Signal(s, I) BY <1>4, HandOutSignals
  <2>2. WaitInv' BY <1>1, <2>1, SignalWait
  <2>3. Cardinality(I) \in Nat /\ Cardinality(I) <= n BY <1>1, ReadyFacts
  <2>4. count' = [count EXCEPT ![s] = n - Cardinality(I)] BY <1>4 DEF HandOut, Raised
  <2> HIDE DEF I
  <2>5. n - Cardinality(I) \in 0 .. (CountMod - 1) BY <1>2, <2>3
  <2> QED BY <2>1, <2>2, <2>4, <2>5 DEF OType, Signal
<1> QED BY <1>3, <1>4

\* release_mutex keeps types and waits.
LEMMA ReleaseMutexType ==
  ASSUME WaitInv, OType, NEW t \in Threads, NEW m \in Mutexes, release_mutex(t, m)
  PROVE  WaitInv' /\ OType'
<1>1. m \in Objs /\ m \in Lockables BY DEF Objs, Lockables
<1>2. UNCHANGED <<count, timer, closed, hung, tokens>> BY DEF release_mutex
<1>3. held' \in [Threads -> [Lockables -> Int]]
  <2>1. held[t][m] - 1 \in Int BY <1>1 DEF OType
  <2>2. held' = [held EXCEPT ![t][m] = @ - 1] BY DEF release_mutex
  <2> QED BY <1>1, <2>1, <2>2 DEF OType
<1>4. CASE recursion[m] > 1 /\ recursion' = [recursion EXCEPT ![m] = @ - 1]
           /\ UNCHANGED <<signaled, owner, waitlist, wait, blocks, waitkey, state, panicked>>
  <2>1. recursion[m] - 1 \in 0 .. MaxCount BY <1>4, KindsFacts DEF OType
  <2>2. recursion' \in [Mutexes -> 0 .. MaxCount] BY <1>4, <2>1 DEF OType
  <2>3. WaitInv' BY <1>2, <1>4, Unmoved
  <2> QED BY <1>2, <1>3, <1>4, <2>2, <2>3 DEF OType
<1>5. CASE hand_over(m, Raised(m))
  <2> DEFINE I == FirstReady(m, Raised(m), 1)
  <2>1. Signal(m, I) BY <1>2, <1>5, HandOverSignals
  <2>2. WaitInv' BY <1>1, <2>1, SignalWait
  <2>3. recursion' \in [Mutexes -> 0 .. MaxCount] BY <1>5, KindsFacts DEF hand_over, OType
  <2>4. owner' \in [Mutexes -> Threads \cup {NULL}]
    <3>1. I \in SUBSET DOMAIN waitlist[m] BY FirstReadyDomain
    <3>2. ASSUME I # {} PROVE (CHOOSE u \in ThreadsAt(m, I) : TRUE) \in Threads
      <4>1. ThreadsAt(m, I) # {} BY <3>2 DEF ThreadsAt
      <4>2. ThreadsAt(m, I) \subseteq Threads
        <5> HIDE DEF I
        <5> QED BY <1>1, <3>1, ThreadsAtLinked DEF LinkedSet
      <4> QED BY <4>1, <4>2
    <3>3. owner' = [owner EXCEPT ![m] = IF I = {} THEN NULL ELSE CHOOSE u \in ThreadsAt(m, I) : TRUE]
      BY <1>5 DEF hand_over
    <3> HIDE DEF I
    <3> QED BY <3>2, <3>3 DEF OType
  <2>5. signaled' \in [Objs -> BOOLEAN] BY <2>1 DEF Signal
  <2> QED BY <1>2, <1>3, <2>2, <2>3, <2>4, <2>5 DEF OType
<1> QED BY <1>4, <1>5 DEF release_mutex, Raised

\* unlock_filemap keeps types and waits.
LEMMA UnlockType ==
  ASSUME WaitInv, OType, NEW t \in Threads, NEW f \in Filemaps, unlock_filemap(t, f)
  PROVE  WaitInv' /\ OType'
<1>1. f \in Objs /\ f \in Lockables BY DEF Objs, Lockables
<1>2. UNCHANGED <<count, owner, recursion, timer, closed, hung, tokens>> BY DEF unlock_filemap
<1>3. held' \in [Threads -> [Lockables -> Int]]
  <2>1. held[t][f] - 1 \in Int BY <1>1 DEF OType
  <2>2. held' = [held EXCEPT ![t][f] = @ - 1] BY DEF unlock_filemap
  <2> QED BY <1>1, <2>1, <2>2 DEF OType
<1>4. Signal(f, FirstReady(f, Raised(f), 1)) BY UnlockSignals
<1>5. WaitInv' BY <1>1, <1>4, SignalWait
<1>6. signaled' \in [Objs -> BOOLEAN] BY <1>4 DEF Signal
<1> QED BY <1>2, <1>3, <1>5, <1>6 DEF OType

\* Every step keeps the types and the wait lists in order.
BaseInv == WaitInv /\ OType

\* The base invariant holds at the start.
LEMMA BaseInit == Init => BaseInv
<1> SUFFICES ASSUME Init PROVE BaseInv OBVIOUS
<1>1. WType
  <2>1. waitlist \in [Objs -> Seq(Threads)]
    <3>1. <<>> \in Seq(Threads) OBVIOUS
    <3> QED BY <3>1 DEF Init
  <2>2. wait \in [Threads -> Requests \cup {NULL}] /\ blocks \in [Threads -> BOOLEAN] BY DEF Init
  <2>3. timer \in [Threads -> {"off", "armed", "expired"}] /\ waitkey \in [Threads -> Int] BY DEF Init
  <2>4. state \in [Threads -> States] /\ panicked \in BOOLEAN BY DEF Init, States
  <2> QED BY <2>1, <2>2, <2>3, <2>4 DEF WType
<1>2. OType
  <2>1. signaled \in [Objs -> BOOLEAN] BY DEF Init
  <2>2. 0 \in 0 .. (CountMod - 1) /\ 0 \in 0 .. MaxCount BY KindsFacts DEF CountMod
  <2>3. count \in [Sems -> 0 .. (CountMod - 1)] /\ recursion \in [Mutexes -> 0 .. MaxCount]
    BY <2>2 DEF Init
  <2>4. owner \in [Mutexes -> Threads \cup {NULL}] /\ closed \in SUBSET Objs /\ hung \in BOOLEAN
    BY DEF Init
  <2>5. held \in [Threads -> [Lockables -> Int]] /\ tokens \in [Sems -> Int] BY DEF Init
  <2> QED BY <2>1, <2>3, <2>4, <2>5 DEF OType
<1>3. ASSUME NEW o \in Objs, NEW t \in Threads PROVE CountIs(o, t)
  <2>1. waitlist[o] = <<>> /\ ~blocks[t] BY DEF Init
  <2>2. Positions(waitlist[o], t) = {} BY <2>1 DEF Positions
  <2> QED BY <2>1, <2>2, FS_EmptySet DEF CountIs
<1>4. ThreadsOK BY DEF Init, ThreadsOK, ThreadOK
<1> QED BY <1>1, <1>2, <1>3, <1>4 DEF BaseInv, WaitInv, Linked

\* Every step keeps the base invariant, action by action.
LEMMA BaseNext ==
  ASSUME BaseInv, [Next]_vars
  PROVE  BaseInv'
<1> USE DEF BaseInv
<1>1. ASSUME NEW t \in Threads, NEW r \in Requests, WaitAnyNow(t, r) PROVE BaseInv'
  <2>1. WaitInv' BY <1>1, Unmoved DEF WaitAnyNow, wstate
  <2> QED BY <1>1, <2>1, WaitAnyType
<1>2. ASSUME NEW t \in Threads, NEW r \in Requests, WaitAllNow(t, r) PROVE BaseInv'
  <2>1. WaitInv' BY <1>2, Unmoved DEF WaitAllNow, wstate
  <2>2. /\ signaled' \in [Objs -> BOOLEAN] /\ count' \in [Sems -> 0 .. (CountMod - 1)]
        /\ owner' \in [Mutexes -> Threads \cup {NULL}] /\ recursion' \in [Mutexes -> 0 .. MaxCount]
    BY <1>2, EnterType DEF WaitAllNow
  <2>3. held' \in [Threads -> [Lockables -> Int]] /\ tokens' \in [Sems -> Int]
    BY <1>2, ToldType DEF WaitAllNow
  <2> QED BY <1>2, <2>1, <2>2, <2>3 DEF WaitAllNow, OType
<1>3. ASSUME NEW t \in Threads, NEW r \in Requests, Block(t, r) PROVE BaseInv'
  <2>1. OType' BY <1>3 DEF Block, OType, ghosts
  <2> QED BY <1>3, <2>1, BlockKeeps
<1>4. ASSUME NEW t \in Threads, Return(t) PROVE BaseInv'
  <2>1. held' \in [Threads -> [Lockables -> Int]] /\ tokens' \in [Sems -> Int]
    BY <1>4, ToldType DEF Return
  <2>2. OType' BY <1>4, <2>1 DEF Return, OType
  <2> QED BY <1>4, <2>2, ReturnKeeps
<1>5. ASSUME NEW t \in Threads, Interrupt(t) PROVE BaseInv'
  <2>1. OType' BY <1>5 DEF Interrupt, OType, ghosts
  <2> QED BY <1>5, <2>1, InterruptKeeps
<1>6. ASSUME NEW t \in Threads, ExpireTimer(t) PROVE BaseInv'
  <2>1. OType' BY <1>6 DEF ExpireTimer, OType, ghosts
  <2> QED BY <1>6, <2>1, ExpireKeeps
<1>7. ASSUME NEW t \in Threads, exit_thread(t) PROVE BaseInv'
  <2>1. signaled' \in [Objs -> BOOLEAN] BY <1>7, ExitForm DEF Raised, OType
  <2>2. OType' BY <1>7, <2>1 DEF exit_thread, OType, ghosts
  <2> QED BY <1>7, <2>2, ExitKeeps
<1>8. ASSUME NEW t \in Threads, NEW e \in AutoEvents \cup ManualEvents, set_event(t, e) PROVE BaseInv'
  <2>1. PICK I : Signal(e, I) BY <1>8, SetEventSignals
  <2>2. WaitInv' BY <2>1, SignalWait DEF Objs
  <2>3. OType' BY <1>8, <2>1 DEF set_event, Signal, OType, ghosts
  <2> QED BY <2>2, <2>3
<1>9. ASSUME NEW t \in Threads, NEW e \in AutoEvents \cup ManualEvents, reset_event(t, e) PROVE BaseInv'
  <2>1. WaitInv' BY <1>9, Unmoved DEF reset_event, wstate
  <2>2. OType' BY <1>9 DEF reset_event, OType, ghosts
  <2> QED BY <2>1, <2>2
<1>10. ASSUME NEW t \in Threads, NEW e \in AutoEvents \cup ManualEvents, pulse_event(t, e) PROVE BaseInv'
  <2>1. PICK I : Signal(e, I) BY <1>10, PulseEventSignals
  <2>2. WaitInv' BY <2>1, SignalWait DEF Objs
  <2>3. hung' \in BOOLEAN BY <1>10 DEF pulse_event
  <2>4. OType' BY <1>10, <2>1, <2>3 DEF pulse_event, Signal, OType, ghosts
  <2> QED BY <2>2, <2>4
<1>11. ASSUME NEW t \in Threads, NEW s \in Sems, release_sem(t, s) PROVE BaseInv'
  <2>1. count[s] + 1 \in 0 .. MaxCount BY <1>11, KindsFacts DEF release_sem, OType
  <2>2. WaitInv' /\ signaled' \in [Objs -> BOOLEAN] /\ count' \in [Sems -> 0 .. (CountMod - 1)]
    BY <1>11, <2>1, HandOutType DEF release_sem
  <2>3. tokens' \in [Sems -> Int] BY <1>11 DEF release_sem, OType
  <2> QED BY <1>11, <2>2, <2>3 DEF release_sem, OType
<1>12. ASSUME NEW t \in Threads, NEW s \in Sems, NEW n \in SetCounts, set_sem(t, s, n) PROVE BaseInv'
  <2>1. n \in 0 .. MaxCount BY ObjectsAssumption
  <2>2. WaitInv' /\ signaled' \in [Objs -> BOOLEAN] /\ count' \in [Sems -> 0 .. (CountMod - 1)]
    BY <1>12, <2>1, HandOutType DEF set_sem
  <2>3. tokens' \in [Sems -> Int]
    <3>1. tokens[s] - count[s] + n \in Int BY <2>1, KindsFacts DEF OType
    <3> QED BY <1>12, <3>1 DEF set_sem, OType
  <2> QED BY <1>12, <2>2, <2>3 DEF set_sem, OType
<1>13. ASSUME NEW t \in Threads, NEW m \in Mutexes, release_mutex(t, m) PROVE BaseInv'
  BY <1>13, ReleaseMutexType
<1>14. ASSUME NEW t \in Threads, NEW f \in Filemaps, unlock_filemap(t, f) PROVE BaseInv'
  BY <1>14, UnlockType
<1>15. ASSUME NEW t \in Threads, NEW o \in Objs, close_object(t, o) PROVE BaseInv'
  <2>1. OType' BY <1>15 DEF close_object, OType, ghosts
  <2> QED BY <1>15, <2>1, CloseKeeps
<1>16. CASE UNCHANGED vars
  <2>1. WaitInv' BY <1>16, Unmoved DEF vars
  <2>2. OType' BY <1>16 DEF vars, OType
  <2> QED BY <2>1, <2>2
<1>17. CASE Next
  BY <1>17, <1>1, <1>2, <1>3, <1>4, <1>5, <1>6, <1>7, <1>8, <1>9, <1>10, <1>11, <1>12, <1>13,
     <1>14, <1>15 DEF Next
<1> QED BY <1>16, <1>17

\* Wait blocks and timers never outlive the wait they belong to.
THEOREM WaitsStayLinked == Spec => []NothingDangling
<1>1. BaseInv => NothingDangling
  <2> SUFFICES ASSUME BaseInv PROVE NothingDangling OBVIOUS
  <2>1. TypeOK BY TypeSplit DEF BaseInv, WaitInv
  <2>2. \A o \in Objs, t \in Threads :
          Cardinality(Positions(waitlist[o], t))
            = IF blocks[t] THEN Cardinality(Positions(wait[t].objs, o)) ELSE 0
    BY DEF BaseInv, WaitInv, Linked, CountIs
  <2>3. \A t \in Threads : /\ state[t] = "wait" => blocks[t]
                           /\ state[t] \in {"run", "dead"} => ~blocks[t] /\ timer[t] = "off"
    BY DEF BaseInv, WaitInv, ThreadsOK, ThreadOK
  <2> QED BY <2>1, <2>2, <2>3 DEF NothingDangling
<1>2. QED BY <1>1, BaseInit, BaseNext, PTL DEF Spec

-----------------------------------------------------------------------------
(* No lost wake-up.                                                        *)

\* No wait for all of several objects is for a mutex: wait_for_all_objects
\* waits for a mutex that is free and not the caller's although it could have it.
NoMutexInAll == \A r \in Requests : r.all => \A i \in DOMAIN r.objs : r.objs[i] \notin Mutexes

\* What t waits for has not come.
Asleep(t) ==
  state[t] = "wait" => IF wait[t].all THEN ~AllOf(signaled, t) ELSE ~SomeOf(signaled, t)

\* No thread sleeps that should run.
AllAsleep == \A t \in Threads : Asleep(t)

\* NoMissedWakeup, unless the kernel hangs.
LEMMA AsleepSplit == NoMissedWakeup <=> (~hung => AllAsleep)
BY DEF NoMissedWakeup, AllAsleep, Asleep

\* A thread that still waits, waits as before.
WaitersKept == \A t \in Threads : state'[t] = "wait" => state[t] = "wait" /\ wait'[t] = wait[t]

\* No object becomes signaled.
Lowers == \A p \in Objs : signaled'[p] => signaled[p]

\* While nothing becomes signaled nobody has to be woken.
LEMMA LoweringKeeps ==
  ASSUME BaseInv, AllAsleep, WaitersKept, Lowers
  PROVE  AllAsleep'
<1> SUFFICES ASSUME NEW t \in Threads, state'[t] = "wait"
             PROVE  IF wait'[t].all THEN ~AllOf(signaled, t)' ELSE ~SomeOf(signaled, t)'
  BY DEF AllAsleep, Asleep
<1>1. state[t] = "wait" /\ wait'[t] = wait[t] BY DEF WaitersKept
<1>2. IF wait[t].all THEN ~AllOf(signaled, t) ELSE ~SomeOf(signaled, t) BY <1>1 DEF AllAsleep, Asleep
<1>3. wait[t] \in Requests BY <1>1 DEF BaseInv, WaitInv, WType, ThreadsOK, ThreadOK
<1>4. \A i \in DOMAIN wait[t].objs : wait[t].objs[i] \in Objs BY <1>3, RequestFacts
<1>5. \A i \in DOMAIN wait[t].objs : signaled'[wait[t].objs[i]] => signaled[wait[t].objs[i]]
  BY <1>4 DEF Lowers
<1>6. AllOf(signaled, t)' => AllOf(signaled, t) BY <1>1, <1>5 DEF AllOf
<1>7. SomeOf(signaled, t)' => SomeOf(signaled, t) BY <1>1, <1>5 DEF SomeOf
<1> QED BY <1>1, <1>2, <1>6, <1>7

\* The ready waiters of o at I are woken, and o stays signaled only when they
\* are all there are.
Wakes(o, I) ==
  /\ \A t \in Threads : state'[t] = "wait" => /\ state[t] = "wait" /\ wait'[t] = wait[t]
                                              /\ t \notin ThreadsAt(o, I)
  /\ \A p \in Objs : p # o => signaled'[p] = signaled[p]
  /\ signaled'[o] => I = ReadyAt(o, Raised(o))

\* An object may become signaled if whoever it satisfies is released.
LEMMA WakingKeeps ==
  ASSUME BaseInv, AllAsleep, NEW o \in Objs, NEW I, Wakes(o, I)
  PROVE  AllAsleep'
<1> SUFFICES ASSUME NEW t \in Threads, state'[t] = "wait"
             PROVE  IF wait'[t].all THEN ~AllOf(signaled, t)' ELSE ~SomeOf(signaled, t)'
  BY DEF AllAsleep, Asleep
<1> DEFINE q == wait[t].objs
<1>1. state[t] = "wait" /\ wait'[t] = wait[t] /\ t \notin ThreadsAt(o, I) BY DEF Wakes
<1>2. IF wait[t].all THEN ~AllOf(signaled, t) ELSE ~SomeOf(signaled, t) BY <1>1 DEF AllAsleep, Asleep
<1>3. wait[t] \in Requests /\ blocks[t] BY <1>1 DEF BaseInv, WaitInv, WType, ThreadsOK, ThreadOK
<1>4. \A i \in DOMAIN q : q[i] \in Objs BY <1>3, RequestFacts
<1>5. AllOf(signaled, t)' <=> \A i \in DOMAIN q : signaled'[q[i]] BY <1>1 DEF AllOf
<1>6. SomeOf(signaled, t)' <=> \E i \in DOMAIN q : signaled'[q[i]] BY <1>1 DEF SomeOf
<1>7. AllOf(signaled, t) <=> \A i \in DOMAIN q : signaled[q[i]] BY DEF AllOf
<1>8. SomeOf(signaled, t) <=> \E i \in DOMAIN q : signaled[q[i]] BY DEF SomeOf
<1>9. \A i \in DOMAIN q : q[i] # o => signaled'[q[i]] = signaled[q[i]] BY <1>4 DEF Wakes
<1>10. CASE signaled'[o] /\ \E i \in DOMAIN q : q[i] = o
  <2>1. PICK i \in DOMAIN q : q[i] = o BY <1>10
  <2>2. t \in Range(waitlist[o]) BY <1>3, <2>1, WaiterListed DEF BaseInv
  <2>3. PICK k \in DOMAIN waitlist[o] : waitlist[o][k] = t BY <2>2 DEF Range
  <2>4. k \notin I BY <1>1, <2>3 DEF ThreadsAt
  <2>5. k \notin ReadyAt(o, Raised(o)) BY <1>10, <2>4 DEF Wakes
  <2>6. ~thread_ready_to_run(Raised(o), t) BY <2>3, <2>5 DEF ReadyAt
  <2>7. wait[t].all /\ ~AllOf(Raised(o), t) BY <2>6 DEF thread_ready_to_run
  <2>8. PICK j \in DOMAIN q : ~Raised(o)[q[j]] BY <2>7 DEF AllOf
  <2>9. q[j] # o /\ ~signaled[q[j]]
    <3>1. q[j] \in Objs BY <1>4
    <3>2. q[j] # o BY <2>8, <3>1 DEF Raised, BaseInv, OType
    <3> QED BY <2>8, <3>1, <3>2 DEF Raised, BaseInv, OType
  <2>10. ~signaled'[q[j]] BY <1>9, <2>9
  <2> QED BY <1>1, <1>5, <2>7, <2>10
<1>11. CASE ~(signaled'[o] /\ \E i \in DOMAIN q : q[i] = o)
  <2>1. \A i \in DOMAIN q : signaled'[q[i]] => signaled[q[i]] BY <1>9, <1>11
  <2>2. AllOf(signaled, t)' => AllOf(signaled, t) BY <2>1, <1>5, <1>7
  <2>3. SomeOf(signaled, t)' => SomeOf(signaled, t) BY <2>1, <1>6, <1>8
  <2> QED BY <1>1, <1>2, <2>2, <2>3
<1> QED BY <1>10, <1>11

\* Signal steps release whom they must.
LEMMA SignalAsleep ==
  ASSUME BaseInv, AllAsleep, NEW o \in Objs, NEW I, Signal(o, I), ~hung'
  PROVE  AllAsleep'
<1>1. PICK twice \in BOOLEAN : release_thread(ThreadsAt(o, I), state, Keys(Raised(o)), twice)
  BY DEF Signal
<1>2. ASSUME NEW t \in Threads, state'[t] = "wait"
      PROVE  state[t] = "wait" /\ wait'[t] = wait[t] /\ t \notin ThreadsAt(o, I)
  BY <1>1, <1>2 DEF release_thread
<1>3. Wakes(o, I) BY <1>2 DEF Wakes, Signal
<1> QED BY <1>3, WakingKeeps

\* enter_object only lowers signals.
LEMMA EnterLowers ==
  ASSUME BaseInv, NEW t, NEW S, enter_object(t, S)
  PROVE  Lowers
BY DEF enter_object, Entered, Lowers, BaseInv, OType

\* Acquiring an object signals none.
LEMMA WaitAnyLowers ==
  ASSUME BaseInv, NEW t \in Threads, NEW r \in Requests, WaitAnyNow(t, r)
  PROVE  Lowers
<1>1. PICK i \in DOMAIN r.objs : enter_object(t, {r.objs[i]}) \/ UNCHANGED signaled
  BY DEF WaitAnyNow
<1>2. UNCHANGED signaled => Lowers BY DEF Lowers
<1> QED BY <1>1, <1>2, EnterLowers

\* A thread goes to sleep only when what it waits for has not come.
LEMMA BlockAsleep ==
  ASSUME BaseInv, AllAsleep, NoMutexInAll, NEW t \in Threads, NEW r \in Requests, Block(t, r)
  PROVE  AllAsleep'
<1>1. UNCHANGED signaled BY DEF Block
<1>2. ASSUME NEW u \in Threads, u # t PROVE Asleep(u)'
  <2>1. state'[u] = state[u] /\ wait'[u] = wait[u] BY <1>2 DEF Block, BaseInv, WaitInv, WType
  <2>2. Asleep(u) BY DEF AllAsleep
  <2> QED BY <1>1, <2>1, <2>2 DEF Asleep, AllOf, SomeOf
<1>3. Asleep(t)'
  <2>1. state'[t] = "wait" /\ wait'[t] = r BY DEF Block, BaseInv, WaitInv, WType
  <2>2. CASE r.all
    <3>1. ~AllEnterable(t, r) BY <2>2 DEF Block
    <3>2. \A i \in DOMAIN r.objs : r.objs[i] \notin Mutexes BY <2>2 DEF NoMutexInAll
    <3>3. \E i \in DOMAIN r.objs : ~signaled[r.objs[i]] BY <3>1, <3>2 DEF AllEnterable
    <3> QED BY <1>1, <2>1, <2>2, <3>3 DEF Asleep, AllOf
  <2>3. CASE ~r.all
    <3>1. \A i \in DOMAIN r.objs : ~Enterable(t, r.objs[i]) BY <2>3 DEF Block
    <3>2. \A i \in DOMAIN r.objs : ~signaled[r.objs[i]] BY <3>1 DEF Enterable
    <3> QED BY <1>1, <2>1, <2>3, <3>2 DEF Asleep, SomeOf
  <2> QED BY <2>2, <2>3
<1> QED BY <1>2, <1>3 DEF AllAsleep

\* The end of a thread wakes all who wait for it.
LEMMA ExitAsleep ==
  ASSUME BaseInv, AllAsleep, NEW t \in Threads, exit_thread(t)
  PROVE  AllAsleep'
<1> DEFINE I == ReadyAt(t, Raised(t))
<1>1. t \in Objs BY DEF Objs
<1>2. /\ release_thread(ThreadsAt(t, I), [state EXCEPT ![t] = "dead"],
                        [u \in Threads |-> ExitCode], Twice(t, I))
      /\ signaled' = Raised(t) /\ StartsFrom([state EXCEPT ![t] = "dead"])
  BY ExitForm DEF BaseInv
<1>3. ASSUME NEW u \in Threads, state'[u] = "wait"
      PROVE  state[u] = "wait" /\ wait'[u] = wait[u] /\ u \notin ThreadsAt(t, I)
  BY <1>2, <1>3 DEF release_thread, StartsFrom
<1>4. \A p \in Objs : p # t => signaled'[p] = signaled[p] BY <1>2 DEF Raised, BaseInv, OType
<1>5. Wakes(t, I) BY <1>3, <1>4 DEF Wakes
<1> QED BY <1>1, <1>5, WakingKeeps

\* release_thread leaves the threads it does not release waiting as before.
LEMMA ReleaseWaiters ==
  ASSUME NEW T, NEW key, NEW twice, release_thread(T, state, key, twice)
  PROVE  WaitersKept
BY DEF release_thread, WaitersKept

\* A step that signals nothing.
LEMMA StillLowers ==
  ASSUME UNCHANGED signaled
  PROVE  Lowers
BY DEF Lowers

\* No step misses a wake-up, action by action.
LEMMA AsleepNext ==
  ASSUME BaseInv, NoMissedWakeup, NoMutexInAll, [Next]_vars
  PROVE  NoMissedWakeup'
<1> SUFFICES ASSUME ~hung' PROVE AllAsleep' BY DEF NoMissedWakeup, AllAsleep, Asleep
<1>0. ASSUME NEW t, Runs(t) PROVE AllAsleep BY <1>0, AsleepSplit DEF Runs
<1>1. ASSUME NEW t \in Threads, NEW r \in Requests, WaitAnyNow(t, r) PROVE AllAsleep'
  <2>1. AllAsleep BY <1>0, <1>1 DEF WaitAnyNow
  <2>2. WaitersKept BY <1>1 DEF WaitAnyNow, wstate, WaitersKept
  <2> QED BY <1>1, <2>1, <2>2, WaitAnyLowers, LoweringKeeps
<1>2. ASSUME NEW t \in Threads, NEW r \in Requests, WaitAllNow(t, r) PROVE AllAsleep'
  <2>1. AllAsleep BY <1>0, <1>2 DEF WaitAllNow
  <2>2. WaitersKept BY <1>2 DEF WaitAllNow, wstate, WaitersKept
  <2>3. Lowers BY <1>2, EnterLowers DEF WaitAllNow
  <2> QED BY <2>1, <2>2, <2>3, LoweringKeeps
<1>3. ASSUME NEW t \in Threads, NEW r \in Requests, Block(t, r) PROVE AllAsleep'
  <2>1. AllAsleep BY <1>0, <1>3 DEF Block
  <2> QED BY <1>3, <2>1, BlockAsleep
<1>4. ASSUME NEW t \in Threads, Return(t) PROVE AllAsleep'
  <2>1. AllAsleep BY <1>4, AsleepSplit DEF Return
  <2>2. WaitersKept BY <1>4 DEF Return, WaitersKept, BaseInv, WaitInv, WType
  <2>3. Lowers BY <1>4, StillLowers DEF Return
  <2> QED BY <2>1, <2>2, <2>3, LoweringKeeps
<1>5. ASSUME NEW t \in Threads, Interrupt(t) PROVE AllAsleep'
  <2>1. AllAsleep BY <1>5, AsleepSplit DEF Interrupt
  <2>2. WaitersKept BY <1>5 DEF Interrupt, WaitersKept, BaseInv, WaitInv, WType
  <2>3. Lowers BY <1>5, StillLowers DEF Interrupt
  <2> QED BY <2>1, <2>2, <2>3, LoweringKeeps
<1>6. ASSUME NEW t \in Threads, ExpireTimer(t) PROVE AllAsleep'
  <2>1. AllAsleep BY <1>6, AsleepSplit DEF ExpireTimer
  <2>2. WaitersKept
    <3>1. CASE blocks[t] BY <1>6, <3>1, ReleaseWaiters DEF ExpireTimer
    <3>2. CASE ~blocks[t] BY <1>6, <3>2 DEF ExpireTimer, WaitersKept
    <3> QED BY <3>1, <3>2
  <2>3. Lowers BY <1>6, StillLowers DEF ExpireTimer
  <2> QED BY <2>1, <2>2, <2>3, LoweringKeeps
<1>7. ASSUME NEW t \in Threads, exit_thread(t) PROVE AllAsleep'
  <2>1. AllAsleep BY <1>0, <1>7 DEF exit_thread
  <2> QED BY <1>7, <2>1, ExitAsleep
<1>8. ASSUME NEW t \in Threads, NEW e \in AutoEvents \cup ManualEvents, set_event(t, e) PROVE AllAsleep'
  <2>1. PICK I : Signal(e, I) BY <1>8, SetEventSignals DEF BaseInv
  <2>2. AllAsleep BY <1>0, <1>8 DEF set_event
  <2>3. e \in Objs BY DEF Objs
  <2> QED BY <2>1, <2>2, <2>3, SignalAsleep
<1>9. ASSUME NEW t \in Threads, NEW e \in AutoEvents \cup ManualEvents, reset_event(t, e) PROVE AllAsleep'
  <2>1. AllAsleep BY <1>0, <1>9 DEF reset_event
  <2>2. WaitersKept BY <1>9 DEF reset_event, wstate, WaitersKept
  <2>3. Lowers BY <1>9 DEF reset_event, Lowers, BaseInv, OType
  <2> QED BY <2>1, <2>2, <2>3, LoweringKeeps
<1>10. ASSUME NEW t \in Threads, NEW e \in AutoEvents \cup ManualEvents, pulse_event(t, e) PROVE AllAsleep'
  <2>1. PICK I : Signal(e, I) BY <1>10, PulseEventSignals DEF BaseInv
  <2>2. AllAsleep BY <1>0, <1>10 DEF pulse_event
  <2>3. e \in Objs BY DEF Objs
  <2> QED BY <2>1, <2>2, <2>3, SignalAsleep
<1>11. ASSUME NEW s \in Sems, NEW n \in Nat, HandOut(s, n), UNCHANGED timer, AllAsleep PROVE AllAsleep'
  <2>1. s \in Objs BY DEF Objs
  <2>2. CASE n # 0
    <3>1. Signal(s, FirstReady(s, Raised(s), n)) BY <1>11, <2>2, HandOutSignals DEF BaseInv
    <3> QED BY <1>11, <2>1, <3>1, SignalAsleep
  <2>3. CASE n = 0
    <3>1. UNCHANGED <<signaled, wait, state>> BY <1>11, <2>3 DEF HandOut
    <3> QED BY <1>11, <3>1, StillLowers, LoweringKeeps DEF WaitersKept
  <2> QED BY <2>2, <2>3
<1>12. ASSUME NEW t \in Threads, NEW s \in Sems, release_sem(t, s) PROVE AllAsleep'
  <2>1. AllAsleep BY <1>0, <1>12 DEF release_sem
  <2>2. count[s] + 1 \in Nat BY DEF BaseInv, OType
  <2>3. HandOut(s, count[s] + 1) /\ UNCHANGED timer BY <1>12 DEF release_sem
  <2> QED BY <1>11, <2>1, <2>2, <2>3
<1>13. ASSUME NEW t \in Threads, NEW s \in Sems, NEW n \in SetCounts, set_sem(t, s, n) PROVE AllAsleep'
  <2>1. AllAsleep BY <1>0, <1>13 DEF set_sem
  <2>2. n \in Nat BY ObjectsAssumption
  <2>3. HandOut(s, n) /\ UNCHANGED timer BY <1>13 DEF set_sem
  <2> QED BY <1>11, <2>1, <2>2, <2>3
<1>14. ASSUME NEW t \in Threads, NEW m \in Mutexes, release_mutex(t, m) PROVE AllAsleep'
  <2>1. AllAsleep BY <1>0, <1>14 DEF release_mutex
  <2>2. m \in Objs /\ UNCHANGED timer BY <1>14 DEF Objs, release_mutex
  <2>3. CASE hand_over(m, Raised(m))
    <3>1. Signal(m, FirstReady(m, Raised(m), 1)) BY <2>2, <2>3, HandOverSignals DEF BaseInv
    <3> QED BY <2>1, <2>2, <3>1, SignalAsleep
  <2>4. CASE UNCHANGED <<signaled, wait, state>>
    BY <2>1, <2>4, StillLowers, LoweringKeeps DEF WaitersKept
  <2> QED BY <1>14, <2>3, <2>4 DEF release_mutex, Raised
<1>15. ASSUME NEW t \in Threads, NEW f \in Filemaps, unlock_filemap(t, f) PROVE AllAsleep'
  <2>1. AllAsleep BY <1>0, <1>15 DEF unlock_filemap
  <2>2. f \in Objs BY DEF Objs
  <2>3. Signal(f, FirstReady(f, Raised(f), 1)) BY <1>15, UnlockSignals DEF BaseInv
  <2> QED BY <2>1, <2>2, <2>3, SignalAsleep
<1>16. ASSUME NEW t \in Threads, NEW o \in Objs, close_object(t, o) PROVE AllAsleep'
  <2>1. AllAsleep BY <1>0, <1>16 DEF close_object
  <2>2. WaitersKept BY <1>16, ReleaseWaiters DEF close_object
  <2>3. Lowers BY <1>16, StillLowers DEF close_object
  <2> QED BY <2>1, <2>2, <2>3, LoweringKeeps
<1>17. CASE UNCHANGED vars
  <2>1. UNCHANGED <<signaled, wait, state, hung>> BY <1>17 DEF vars
  <2>2. AllAsleep BY <2>1, AsleepSplit
  <2> QED BY <2>1, <2>2, StillLowers, LoweringKeeps DEF WaitersKept
<1>18. CASE Next
  BY <1>18, <1>1, <1>2, <1>3, <1>4, <1>5, <1>6, <1>7, <1>8, <1>9, <1>10, <1>12, <1>13,
     <1>14, <1>15, <1>16 DEF Next
<1> QED BY <1>17, <1>18

\* No thread sleeps although what it waits for has come.
THEOREM NoLostWakeup ==
  ASSUME NoMutexInAll
  PROVE  Spec => []NoMissedWakeup
<1>1. Init => NoMissedWakeup BY DEF Init, NoMissedWakeup
<1>2. BaseInv /\ NoMissedWakeup /\ [Next]_vars => NoMissedWakeup' BY AsleepNext
<1>3. BaseInv /\ [Next]_vars => BaseInv' BY BaseNext
<1> QED BY <1>1, <1>2, <1>3, BaseInit, PTL DEF Spec

-----------------------------------------------------------------------------
(* First come, first served.                                               *)

\* A sequence is a prefix of itself and of what it is continued to.
LEMMA PrefixOfSelf ==
  ASSUME NEW S, NEW q \in Seq(S), NEW c \in Seq(S)
  PROVE  IsPrefix(q, q) /\ IsPrefix(q, q \o c)
<1>1. Len(q) <= Len(q \o c) OBVIOUS
<1>2. SubSeq(q, 1, Len(q)) = SubSeq(q \o c, 1, Len(q)) OBVIOUS
<1> QED BY <1>1, <1>2 DEF IsPrefix

\* Unlink depends on what is kept only.
LEMMA SameKept ==
  ASSUME NEW q, NEW T, NEW U, Kept(q, T) = Kept(q, U)
  PROVE  Unlink(q, T) = Unlink(q, U)
BY DEF Unlink

\* Unlinking threads leaves the others in their order.
LEMMA UnlinkedInOrder ==
  ASSUME NEW q \in Seq(Threads), NEW T
  PROVE  InOrder(q, Unlink(q, T))
<1> DEFINE r == Unlink(q, T)
<1>1. r \in Seq(Threads) BY UnlinkFacts
<1>2. Range(r) = Range(q) \ T BY UnlinkRange
<1>3. \A i \in DOMAIN q : q[i] \in Threads /\ q[i] \in Range(q) BY DEF Range
<1>4. Kept(q, Threads \ Range(r)) = Kept(q, T) BY <1>2, <1>3 DEF Kept
<1>5. Unlink(q, Threads \ Range(r)) = r BY <1>4, SameKept
<1>6. IsPrefix(r, r) BY <1>1, PrefixOfSelf
<1> QED BY <1>5, <1>6 DEF InOrder

\* New waiters go to the end.
LEMMA AppendedInOrder ==
  ASSUME NEW q \in Seq(Threads), NEW c \in Seq(Threads)
  PROVE  InOrder(q, q) /\ InOrder(q, q \o c)
<1>1. ASSUME NEW r, Range(q) \subseteq Range(r) PROVE Unlink(q, Threads \ Range(r)) = q
  <2>1. Kept(q, Threads \ Range(r)) = DOMAIN q BY <1>1 DEF Kept, Range
  <2> QED BY <2>1, UnlinkNone
<1>2. Range(q) \subseteq Range(q \o c)
  <2>1. \A i \in DOMAIN q : i \in DOMAIN (q \o c) /\ (q \o c)[i] = q[i] OBVIOUS
  <2> QED BY <2>1 DEF Range
<1>3. IsPrefix(q, q) /\ IsPrefix(q, q \o c) BY PrefixOfSelf
<1>4. Unlink(q, Threads \ Range(q)) = q BY <1>1
<1>5. Unlink(q, Threads \ Range(q \o c)) = q BY <1>1, <1>2
<1> QED BY <1>3, <1>4, <1>5 DEF InOrder

\* A step keeps the order of every wait list.
KeepsOrder == \A o \in Objs : InOrder(waitlist[o], waitlist'[o])

\* release_thread leaves the other waiters in their order.
LEMMA ReleaseInOrder ==
  ASSUME BaseInv, NEW T, NEW S, NEW key, NEW twice, release_thread(T, S, key, twice)
  PROVE  KeepsOrder
<1> SUFFICES ASSUME NEW o \in Objs PROVE InOrder(waitlist[o], waitlist'[o]) BY DEF KeepsOrder
<1>1. waitlist[o] \in Seq(Threads) /\ waitlist'[o] = Unlink(waitlist[o], T)
  BY DEF release_thread, BaseInv, WaitInv, WType
<1> QED BY <1>1, UnlinkedInOrder

\* A step that leaves the wait lists alone.
LEMMA StillInOrder ==
  ASSUME BaseInv, UNCHANGED waitlist
  PROVE  KeepsOrder
<1> SUFFICES ASSUME NEW o \in Objs PROVE InOrder(waitlist[o], waitlist'[o]) BY DEF KeepsOrder
<1>1. waitlist[o] \in Seq(Threads) /\ waitlist'[o] = waitlist[o] BY DEF BaseInv, WaitInv, WType
<1> QED BY <1>1, AppendedInOrder

\* Signaling an object leaves the remaining waiters in their order.
LEMMA SignalInOrder ==
  ASSUME BaseInv, NEW o, NEW I, Signal(o, I)
  PROVE  KeepsOrder
BY ReleaseInOrder DEF Signal

\* So does handing out the tokens of a semaphore.
LEMMA HandOutInOrder ==
  ASSUME BaseInv, NEW s, NEW n, HandOut(s, n)
  PROVE  KeepsOrder
<1>1. CASE n = 0 BY <1>1, StillInOrder DEF HandOut
<1>2. CASE n # 0 BY <1>2, ReleaseInOrder DEF HandOut
<1> QED BY <1>1, <1>2

\* Every step leaves the remaining waiters in their order.
LEMMA OrderNext ==
  ASSUME BaseInv, Next
  PROVE  KeepsOrder
<1>1. ASSUME NEW t \in Threads, NEW r \in Requests, WaitAnyNow(t, r) \/ WaitAllNow(t, r) PROVE KeepsOrder
  BY <1>1, StillInOrder DEF WaitAnyNow, WaitAllNow, wstate
<1>2. ASSUME NEW t \in Threads, NEW r \in Requests, Block(t, r) PROVE KeepsOrder
  <2> SUFFICES ASSUME NEW o \in Objs PROVE InOrder(waitlist[o], waitlist'[o]) BY DEF KeepsOrder
  <2>1. waitlist[o] \in Seq(Threads) /\ waitlist'[o] = waitlist[o] \o Copies(r, o, t)
    BY <1>2 DEF Block, insert_in_waitlist, BaseInv, WaitInv, WType
  <2>2. Copies(r, o, t) \in Seq(Threads)
    <3>1. r.objs \in Seq(Objs) BY RequestFacts
    <3>2. Cardinality(Positions(r.objs, o)) \in Nat BY <3>1, PositionsEmpty
    <3> QED BY <3>2 DEF Copies
  <2> QED BY <2>1, <2>2, AppendedInOrder
<1>3. ASSUME NEW t \in Threads, Return(t) PROVE KeepsOrder
  <2> SUFFICES ASSUME NEW o \in Objs PROVE InOrder(waitlist[o], waitlist'[o]) BY DEF KeepsOrder
  <2>1. waitlist[o] \in Seq(Threads) /\ waitlist'[o] = Unlink(waitlist[o], {t})
    BY <1>3 DEF Return, BaseInv, WaitInv, WType
  <2> QED BY <2>1, UnlinkedInOrder
<1>4. ASSUME NEW t \in Threads, Interrupt(t) PROVE KeepsOrder BY <1>4, StillInOrder DEF Interrupt
<1>5. ASSUME NEW t \in Threads, ExpireTimer(t) PROVE KeepsOrder
  <2>1. CASE blocks[t] BY <1>5, <2>1, ReleaseInOrder DEF ExpireTimer
  <2>2. CASE ~blocks[t] BY <1>5, <2>2, StillInOrder DEF ExpireTimer
  <2> QED BY <2>1, <2>2
<1>6. ASSUME NEW t \in Threads, exit_thread(t) PROVE KeepsOrder BY <1>6, ReleaseInOrder DEF exit_thread
<1>7. ASSUME NEW t \in Threads, NEW e \in AutoEvents \cup ManualEvents,
             set_event(t, e) \/ reset_event(t, e) \/ pulse_event(t, e)
      PROVE  KeepsOrder
  <2>1. CASE set_event(t, e) BY <2>1, SetEventSignals, SignalInOrder DEF BaseInv
  <2>2. CASE reset_event(t, e) BY <2>2, StillInOrder DEF reset_event, wstate
  <2>3. CASE pulse_event(t, e) BY <2>3, PulseEventSignals, SignalInOrder DEF BaseInv
  <2> QED BY <1>7, <2>1, <2>2, <2>3
<1>8. ASSUME NEW t \in Threads, NEW s \in Sems, release_sem(t, s) PROVE KeepsOrder
  BY <1>8, HandOutInOrder DEF release_sem
<1>9. ASSUME NEW t \in Threads, NEW s \in Sems, NEW n \in SetCounts, set_sem(t, s, n) PROVE KeepsOrder
  BY <1>9, HandOutInOrder DEF set_sem
<1>10. ASSUME NEW t \in Threads, NEW m \in Mutexes, release_mutex(t, m) PROVE KeepsOrder
  <2>1. CASE UNCHANGED waitlist BY <2>1, StillInOrder
  <2>2. CASE hand_over(m, [signaled EXCEPT ![m] = TRUE]) BY <2>2, ReleaseInOrder DEF hand_over
  <2> QED BY <1>10, <2>1, <2>2 DEF release_mutex
<1>11. ASSUME NEW t \in Threads, NEW f \in Filemaps, unlock_filemap(t, f) PROVE KeepsOrder
  BY <1>11, ReleaseInOrder DEF unlock_filemap
<1>12. ASSUME NEW t \in Threads, NEW o \in Objs, close_object(t, o) PROVE KeepsOrder
  BY <1>12, ReleaseInOrder DEF close_object
<1> QED BY <1>1, <1>2, <1>3, <1>4, <1>5, <1>6, <1>7, <1>8, <1>9, <1>10, <1>11, <1>12 DEF Next

\* A mutex is signaled exactly when it has no owner.
FreeInv == \A m \in Mutexes : signaled[m] <=> owner[m] = NULL

\* hand_over gives the mutex to the first waiter that can take it.
LEMMA HandOverFirst ==
  ASSUME BaseInv, NEW m \in Mutexes, hand_over(m, Raised(m))
  PROVE  /\ signaled'[m] <=> owner'[m] = NULL
         /\ \E i \in 1 .. Len(waitlist[m]) + 1 :
              /\ \A j \in 1 .. i - 1 : wait[waitlist[m][j]].all
              /\ owner'[m] = IF i > Len(waitlist[m]) THEN NULL ELSE waitlist[m][i]
         /\ FirstReady(m, Raised(m), 1) # {} =>
              /\ owner'[m] \in Threads /\ ThreadsAt(m, FirstReady(m, Raised(m), 1)) = {owner'[m]}
<1> DEFINE q == waitlist[m]
           R == ReadyAt(m, Raised(m))
           I == FirstReady(m, Raised(m), 1)
<1>1. m \in Objs BY DEF Objs
<1>2. q \in Seq(Threads) /\ DOMAIN q = 1 .. Len(q) /\ Len(q) \in Nat
  BY <1>1 DEF BaseInv, WaitInv, WType
<1>3. \A j \in 1 .. Len(q) : j \notin R => wait[q[j]].all
  BY <1>2 DEF ReadyAt, thread_ready_to_run
<1>4. R \in SUBSET 1 .. Len(q) BY <1>2 DEF ReadyAt
<1>5. /\ signaled'[m] <=> I = {}
      /\ owner'[m] = IF I = {} THEN NULL ELSE CHOOSE t \in ThreadsAt(m, I) : TRUE
  BY <1>1 DEF hand_over, BaseInv, OType
<1>6. /\ I = {} => R = {}
      /\ I # {} => \E i \in R : I = {i} /\ \A j \in R : i <= j
  BY <1>1, FirstReadyOne DEF BaseInv
<1> HIDE DEF I, R
<1>7. CASE I = {}
  <2>1. owner'[m] = NULL /\ R = {} BY <1>5, <1>6, <1>7
  <2>2. \A j \in 1 .. (Len(q) + 1) - 1 : wait[q[j]].all BY <1>2, <1>3, <2>1
  <2>3. Len(q) + 1 \in 1 .. Len(q) + 1 /\ Len(q) + 1 > Len(q) BY <1>2
  <2>4. \E i \in 1 .. Len(q) + 1 : /\ \A j \in 1 .. i - 1 : wait[q[j]].all
                                   /\ owner'[m] = IF i > Len(q) THEN NULL ELSE q[i]
    BY <2>1, <2>2, <2>3
  <2> QED BY <1>5, <1>7, <2>1, <2>4 DEF I
<1>8. CASE I # {}
  <2>1. PICK i \in R : I = {i} /\ \A j \in R : i <= j BY <1>6, <1>8
  <2>2. ThreadsAt(m, I) = {q[i]} BY <2>1 DEF ThreadsAt
  <2>3. owner'[m] = q[i] BY <1>5, <1>8, <2>2
  <2>4. i \in 1 .. Len(q) BY <1>4
  <2>5. q[i] \in Threads /\ q[i] # NULL BY <1>2, <2>4, ObjectsAssumption
  <2>6. \A j \in 1 .. i - 1 : j \in 1 .. Len(q) /\ j \notin R
    <3> TAKE j \in 1 .. i - 1
    <3>1. ~(i <= j) /\ j \in 1 .. Len(q) BY <1>2, <2>4
    <3> QED BY <2>1, <3>1
  <2>7. \A j \in 1 .. i - 1 : wait[q[j]].all BY <1>3, <2>6
  <2>8. i \in 1 .. Len(q) + 1 /\ ~(i > Len(q)) BY <1>2, <2>4
  <2>9. \E k \in 1 .. Len(q) + 1 : /\ \A j \in 1 .. k - 1 : wait[q[j]].all
                                   /\ owner'[m] = IF k > Len(q) THEN NULL ELSE q[k]
    BY <2>3, <2>7, <2>8
  <2> QED BY <1>5, <1>8, <2>2, <2>3, <2>5, <2>9 DEF I
<1> QED BY <1>7, <1>8

\* enter_object gives an object only when it is signaled.
LEMMA EnterFree ==
  ASSUME BaseInv, FreeInv, NEW t \in Threads, NEW S, \A o \in S : signaled[o], enter_object(t, S)
  PROVE  /\ FreeInv'
         /\ \A m \in Mutexes : owner[m] # NULL => owner'[m] = owner[m] /\ m \notin S
<1> SUFFICES ASSUME NEW m \in Mutexes
             PROVE  /\ signaled'[m] <=> owner'[m] = NULL
                    /\ owner[m] # NULL => owner'[m] = owner[m] /\ m \notin S
  BY DEF FreeInv
<1>1. m \in Objs /\ t # NULL BY ObjectsAssumption DEF Objs
<1>2. CASE m \in S
  <2>1. owner'[m] = t BY <1>2 DEF enter_object
  <2>2. ~signaled'[m] BY <1>1, <1>2 DEF enter_object, Entered
  <2>3. owner[m] = NULL BY <1>2 DEF FreeInv
  <2> QED BY <1>1, <2>1, <2>2, <2>3
<1>3. CASE m \notin S
  BY <1>1, <1>3 DEF enter_object, FreeInv
<1> QED BY <1>2, <1>3

\* What a step may do with the owner of a mutex.
PassedOn(m) ==
  owner[m] # NULL /\ owner'[m] # owner[m] =>
    \E i \in 1 .. Len(waitlist[m]) + 1 :
      /\ \A j \in 1 .. i - 1 : wait[waitlist[m][j]].all
      /\ owner'[m] = IF i > Len(waitlist[m]) THEN NULL ELSE waitlist[m][i]

\* A step frees or passes on mutexes as it should.
OwnersOK == FreeInv' /\ \A m \in Mutexes : PassedOn(m)

\* A step that leaves owners and mutexes alone.
LEMMA OwnersStill ==
  ASSUME FreeInv, UNCHANGED owner, \A m \in Mutexes : signaled'[m] = signaled[m]
  PROVE  OwnersOK
BY DEF FreeInv, OwnersOK, PassedOn

\* Signaling another object leaves owners alone.
LEMMA SignalOwners ==
  ASSUME FreeInv, UNCHANGED owner, NEW o, o \notin Mutexes, NEW I, Signal(o, I)
  PROVE  OwnersOK
<1>1. \A m \in Mutexes : signaled'[m] = signaled[m] BY DEF Signal, Objs
<1> QED BY <1>1, OwnersStill

\* So does handing out the tokens of a semaphore.
LEMMA HandOutOwners ==
  ASSUME BaseInv, FreeInv, UNCHANGED <<owner, timer>>, NEW s \in Sems, NEW n \in Nat, HandOut(s, n)
  PROVE  OwnersOK
<1>1. s \notin Mutexes BY KindsFacts
<1>2. CASE n = 0 BY <1>2, OwnersStill DEF HandOut
<1>3. CASE n # 0
  <2>1. Signal(s, FirstReady(s, Raised(s), n)) BY <1>3, HandOutSignals DEF BaseInv
  <2> QED BY <1>1, <2>1, SignalOwners
<1> QED BY <1>2, <1>3

\* Every step passes mutexes on in order, action by action.
LEMMA OwnersNext ==
  ASSUME BaseInv, FreeInv, Next
  PROVE  OwnersOK
<1>1. ASSUME NEW t \in Threads, NEW r \in Requests, WaitAnyNow(t, r) PROVE OwnersOK
  <2>1. PICK i \in DOMAIN r.objs : \/ signaled[r.objs[i]] /\ enter_object(t, {r.objs[i]})
                                   \/ UNCHANGED <<signaled, owner>>
    BY <1>1 DEF WaitAnyNow
  <2>2. CASE UNCHANGED <<signaled, owner>> BY <2>2, OwnersStill
  <2>3. CASE signaled[r.objs[i]] /\ enter_object(t, {r.objs[i]})
    <3>1. FreeInv' /\ \A m \in Mutexes : owner[m] # NULL => owner'[m] = owner[m] BY <2>3, EnterFree
    <3> QED BY <3>1 DEF OwnersOK, PassedOn
  <2> QED BY <2>1, <2>2, <2>3
<1>2. ASSUME NEW t \in Threads, NEW r \in Requests, WaitAllNow(t, r) PROVE OwnersOK
  <2>1. enter_object(t, Range(r.objs)) BY <1>2 DEF WaitAllNow
  <2>2. \A o \in Range(r.objs) : signaled[o] BY <1>2 DEF WaitAllNow, AllEnterable, Range
  <2>3. FreeInv' /\ \A m \in Mutexes : owner[m] # NULL => owner'[m] = owner[m] BY <2>1, <2>2, EnterFree
  <2> QED BY <2>3 DEF OwnersOK, PassedOn
<1>3. ASSUME NEW t \in Threads, NEW r \in Requests, Block(t, r) PROVE OwnersOK
  BY <1>3, OwnersStill DEF Block
<1>4. ASSUME NEW t \in Threads, Return(t) \/ Interrupt(t) \/ ExpireTimer(t) PROVE OwnersOK
  BY <1>4, OwnersStill DEF Return, Interrupt, ExpireTimer
<1>5. ASSUME NEW t \in Threads, exit_thread(t) PROVE OwnersOK
  <2>1. signaled' = Raised(t) /\ UNCHANGED owner BY <1>5 DEF exit_thread, Raised
  <2>2. \A m \in Mutexes : signaled'[m] = signaled[m] BY <2>1, KindsFacts DEF Raised, BaseInv, OType, Objs
  <2> QED BY <2>1, <2>2, OwnersStill
<1>6. ASSUME NEW t \in Threads, NEW e \in AutoEvents \cup ManualEvents,
             set_event(t, e) \/ reset_event(t, e) \/ pulse_event(t, e)
      PROVE  OwnersOK
  <2>1. e \notin Mutexes BY KindsFacts
  <2>2. CASE set_event(t, e) BY <2>1, <2>2, SetEventSignals, SignalOwners DEF BaseInv, set_event
  <2>3. CASE pulse_event(t, e) BY <2>1, <2>3, PulseEventSignals, SignalOwners DEF BaseInv, pulse_event
  <2>4. CASE reset_event(t, e)
    <3>1. \A m \in Mutexes : signaled'[m] = signaled[m]
      BY <2>1, <2>4 DEF reset_event, BaseInv, OType, Objs
    <3> QED BY <2>4, <3>1, OwnersStill DEF reset_event
  <2> QED BY <1>6, <2>2, <2>3, <2>4
<1>7. ASSUME NEW t \in Threads, NEW s \in Sems, release_sem(t, s) PROVE OwnersOK
  <2>1. count[s] + 1 \in Nat BY DEF BaseInv, OType
  <2> QED BY <1>7, <2>1, HandOutOwners DEF release_sem
<1>8. ASSUME NEW t \in Threads, NEW s \in Sems, NEW n \in SetCounts, set_sem(t, s, n) PROVE OwnersOK
  <2>1. n \in Nat BY ObjectsAssumption
  <2> QED BY <1>8, <2>1, HandOutOwners DEF set_sem
<1>9. ASSUME NEW t \in Threads, NEW m \in Mutexes, release_mutex(t, m) PROVE OwnersOK
  <2>1. CASE UNCHANGED <<signaled, owner>> BY <2>1, OwnersStill
  <2>2. CASE hand_over(m, Raised(m))
    <3>1. signaled'[m] <=> owner'[m] = NULL BY <2>2, HandOverFirst
    <3>2. PassedOn(m) BY <2>2, HandOverFirst DEF PassedOn
    <3>3. \A n \in Mutexes : n # m => signaled'[n] = signaled[n] /\ owner'[n] = owner[n]
      BY <2>2 DEF hand_over, BaseInv, OType, Objs
    <3>4. FreeInv' BY <3>1, <3>3 DEF FreeInv
    <3>5. \A n \in Mutexes : n # m => PassedOn(n) BY <3>3 DEF PassedOn
    <3> QED BY <3>2, <3>4, <3>5 DEF OwnersOK
  <2> QED BY <1>9, <2>1, <2>2 DEF release_mutex, Raised
<1>10. ASSUME NEW t \in Threads, NEW f \in Filemaps, unlock_filemap(t, f) PROVE OwnersOK
  <2>1. f \notin Mutexes BY KindsFacts
  <2> QED BY <1>10, <2>1, UnlockSignals, SignalOwners DEF BaseInv, unlock_filemap
<1>11. ASSUME NEW t \in Threads, NEW o \in Objs, close_object(t, o) PROVE OwnersOK
  BY <1>11, OwnersStill DEF close_object
<1> QED BY <1>1, <1>2, <1>3, <1>4, <1>5, <1>6, <1>7, <1>8, <1>9, <1>10, <1>11 DEF Next

\* Mutexes are free at the start.
LEMMA FreeInit == Init => FreeInv
<1> SUFFICES ASSUME Init, NEW m \in Mutexes PROVE signaled[m] /\ owner[m] = NULL BY DEF FreeInv
<1>1. m \in Objs BY DEF Objs
<1> QED BY <1>1 DEF Init

\* Threads keep their order in every wait list, and a mutex goes from its owner
\* to the first waiter that can take it.
THEOREM Served == Spec => ServedInOrder
<1> DEFINE Step ==
     /\ \A o \in Objs : InOrder(waitlist[o], waitlist'[o])
     /\ \A m \in Mutexes : owner[m] # NULL /\ owner'[m] # owner[m] =>
          \E i \in 1 .. Len(waitlist[m]) + 1 :
            /\ \A j \in 1 .. i - 1 : wait[waitlist[m][j]].all
            /\ owner'[m] = IF i > Len(waitlist[m]) THEN NULL ELSE waitlist[m][i]
<1>1. BaseInv /\ [Next]_vars => BaseInv' BY BaseNext
<1>2. BaseInv /\ FreeInv /\ [Next]_vars => FreeInv'
  <2>1. CASE UNCHANGED vars BY <2>1 DEF vars, FreeInv
  <2> QED BY <2>1, OwnersNext DEF OwnersOK
<1>3. BaseInv /\ FreeInv /\ [Next]_vars => [Step]_vars
  <2> SUFFICES ASSUME BaseInv, FreeInv, Next PROVE Step OBVIOUS
  <2>1. KeepsOrder BY OrderNext
  <2>2. OwnersOK BY OwnersNext
  <2> QED BY <2>1, <2>2 DEF KeepsOrder, OwnersOK, PassedOn
<1> QED BY <1>1, <1>2, <1>3, BaseInit, FreeInit, PTL DEF Spec, ServedInOrder

-----------------------------------------------------------------------------
(* Acquisitions.                                                           *)

\* What a wait acquires for the thread that waits.
Acquirable == Lockables \cup Sems

\* A wait that may acquire something is for one or any of several objects,
\* none of them a thread, and ends neither by a timeout nor by a signal.
PlainAcquisition ==
  \A r \in Requests : (\E i \in DOMAIN r.objs : r.objs[i] \in Acquirable) =>
    /\ ~r.all /\ ~r.timed /\ ~r.alertable
    /\ \A i \in DOMAIN r.objs : r.objs[i] \notin Threads

\* What is known before a step of the proofs about acquisition.
Awake == BaseInv /\ FreeInv /\ AllAsleep /\ PlainAcquisition

\* Plain acquisition has no mutex in a WAIT_ALL.
LEMMA PlainNoMutexInAll == PlainAcquisition => NoMutexInAll
BY DEF PlainAcquisition, NoMutexInAll, Acquirable, Lockables

\* A caller takes for acquired only what it waited for.
LEMMA TakenRequested ==
  ASSUME NEW r, NEW key
  PROVE  TakenFor(r, key) \subseteq Range(r.objs)
BY DEF TakenFor, Range

\* A wait for nothing that can be acquired acquires nothing.
LEMMA TakenNothing ==
  ASSUME NEW r, NEW key, \A i \in DOMAIN r.objs : r.objs[i] \notin Acquirable
  PROVE  \A a \in Acquirable : a \notin TakenFor(r, key)
BY TakenRequested DEF Range

\* The threads of T are released with keys that stand for no acquisition.
LEMMA ReleasePending ==
  ASSUME BaseInv, NEW T, LinkedSet(T), NEW S, StartsFrom(S), NEW key, NEW twice,
         release_thread(T, S, key, twice),
         \A u \in T, a \in Acquirable : a \notin TakenFor(wait[u], key[u])
  PROVE  \A u \in Threads, a \in Acquirable : a \in Pending(u)' <=> a \in Pending(u)
<1> TAKE u \in Threads, a \in Acquirable
<1>1. /\ state'[u] = IF u \in T /\ S[u] = "wait" THEN "woken" ELSE S[u]
      /\ wait'[u] = wait[u] /\ waitkey'[u] = IF u \in T THEN key[u] ELSE waitkey[u]
  BY DEF release_thread
<1>2. S[u] = state[u] \/ (state[u] = "run" /\ S[u] = "dead") BY DEF StartsFrom
<1>3. CASE u \in T
  <2>1. state[u] \in {"wait", "alert"} BY <1>3 DEF LinkedSet, BaseInv, WaitInv, ThreadsOK, ThreadOK
  <2>2. a \notin Pending(u) BY <2>1 DEF Pending
  <2>3. a \notin TakenFor(wait'[u], waitkey'[u]) BY <1>1, <1>3
  <2> QED BY <2>2, <2>3 DEF Pending
<1>4. CASE u \notin T
  <2>1. state'[u] = "woken" <=> state[u] = "woken" BY <1>1, <1>2, <1>4
  <2>2. wait'[u] = wait[u] /\ waitkey'[u] = waitkey[u] BY <1>1, <1>4
  <2> QED BY <2>1, <2>2 DEF Pending
<1> QED BY <1>3, <1>4

\* The released waiters of o are going to be told that they have o.
LEMMA SignalPending ==
  ASSUME Awake, NEW o \in Objs, NEW I, Signal(o, I), NEW u \in Threads, NEW a \in Acquirable
  PROVE  /\ a \in Pending(u)' <=> a \in Pending(u) \/ (u \in ThreadsAt(o, I) /\ a = o)
         /\ u \in ThreadsAt(o, I) => a \notin Pending(u)
<1>0. WaitInv BY DEF Awake, BaseInv
<1>1. PICK twice \in BOOLEAN : release_thread(ThreadsAt(o, I), state, Keys(Raised(o)), twice)
  BY DEF Signal
<1>2. /\ state'[u] = IF u \in ThreadsAt(o, I) /\ state[u] = "wait" THEN "woken" ELSE state[u]
      /\ wait'[u] = wait[u]
      /\ waitkey'[u] = IF u \in ThreadsAt(o, I) THEN Keys(Raised(o))[u] ELSE waitkey[u]
  BY <1>1 DEF release_thread
<1>3. CASE u \notin ThreadsAt(o, I) BY <1>2, <1>3 DEF Pending
<1>4. CASE u \in ThreadsAt(o, I)
  <2>1. I \in SUBSET DOMAIN waitlist[o] BY DEF Signal, ReadyAt
  <2>2. u \in Range(waitlist[o]) BY <1>0, <1>4, <2>1, ThreadsAtLinked
  <2>3. /\ wait[u] \in Requests /\ wait[u] # NULL /\ state[u] \in {"wait", "alert"}
        /\ \E i \in DOMAIN wait[u].objs : wait[u].objs[i] = o
    BY <1>0, <2>2, ListedWaits
  <2>4. a \notin Pending(u) BY <2>3 DEF Pending
  <2>5. CASE \A i \in DOMAIN wait[u].objs : wait[u].objs[i] \notin Acquirable
    <3>1. a # o BY <2>3, <2>5
    <3>2. a \notin TakenFor(wait'[u], waitkey'[u]) BY <1>2, <2>5, TakenNothing
    <3> QED BY <2>4, <3>1, <3>2 DEF Pending
  <2>6. CASE ~\A i \in DOMAIN wait[u].objs : wait[u].objs[i] \notin Acquirable
    <3>1. ~wait[u].all /\ ~wait[u].alertable BY <2>3, <2>6 DEF Awake, PlainAcquisition
    <3>2. state[u] = "wait" BY <2>3, <3>1 DEF Awake, BaseInv, WaitInv, ThreadsOK, ThreadOK
    <3>3. ~SomeOf(signaled, u) BY <3>1, <3>2 DEF Awake, AllAsleep, Asleep
    <3>4. Raised(o)[o] BY DEF Raised, Awake, BaseInv, OType
    <3>5. SomeOf(Raised(o), u) BY <2>3, <3>4 DEF SomeOf
    <3> DEFINE k == KeyFor(Raised(o), u)
    <3>6. k \in Int /\ k >= 0 /\ k + 1 \in DOMAIN wait[u].objs /\ Raised(o)[wait[u].objs[k + 1]]
      BY <1>0, <2>3, <3>5, KeyForFacts
    <3>7. waitkey'[u] = k BY <1>2, <1>4, <2>3 DEF Keys
    <3> HIDE DEF k
    <3>8. ~signaled[wait[u].objs[k + 1]] BY <3>3, <3>6 DEF SomeOf
    <3>9. wait[u].objs[k + 1] = o
      <4>1. wait[u].objs[k + 1] \in Objs BY <2>3, <3>6, RequestFacts
      <4> QED BY <3>6, <3>8, <4>1 DEF Raised, Awake, BaseInv, OType
    <3>10. TakenFor(wait[u], k) = {o} BY <3>1, <3>6, <3>9 DEF TakenFor
    <3>11. state'[u] = "woken" BY <1>2, <1>4, <3>2
    <3>12. Pending(u)' = {o} BY <1>2, <3>7, <3>10, <3>11 DEF Pending
    <3> QED BY <1>4, <2>4, <3>12
  <2> QED BY <1>4, <2>4, <2>5, <2>6
<1> QED BY <1>3, <1>4

\* A step leaves a and the threads that have it, or are about to, alone.
Undisturbed(a) ==
  /\ \A u \in Threads : a \in Pending(u)' <=> a \in Pending(u)
  /\ signaled'[a] = signaled[a]
  /\ a \in Lockables => \A u \in Threads : held'[u][a] = held[u][a]
  /\ a \in Mutexes => owner'[a] = owner[a] /\ recursion'[a] = recursion[a]
  /\ a \in Sems => count'[a] = count[a] /\ tokens'[a] = tokens[a]

\* Of what can be acquired only o may change hands.
OthersKept(o) == \A a \in Acquirable : a # o => Undisturbed(a)

\* Nothing changes hands.
Quiet == \A a \in Acquirable : Undisturbed(a)

\* Mutexes, file mappings and semaphores are objects of their own kinds.
LEMMA AcquirableObjs ==
  /\ Acquirable \subseteq Objs
  /\ \A a \in Acquirable : a \notin AutoEvents \cup ManualEvents \cup Threads
BY KindsFacts DEF Acquirable, Lockables, Objs

\* A signaling step disturbs only the object it signals.
LEMMA SignalOthers ==
  ASSUME Awake, NEW o \in Objs, NEW I, Signal(o, I),
         \A m \in Mutexes : m # o => owner'[m] = owner[m] /\ recursion'[m] = recursion[m],
         \A u \in Threads, a \in Lockables : a # o => held'[u][a] = held[u][a],
         \A s \in Sems : s # o => count'[s] = count[s] /\ tokens'[s] = tokens[s]
  PROVE  OthersKept(o)
<1> SUFFICES ASSUME NEW a \in Acquirable, a # o PROVE Undisturbed(a) BY DEF OthersKept
<1>1. \A u \in Threads : a \in Pending(u)' <=> a \in Pending(u) BY SignalPending
<1>2. signaled'[a] = signaled[a] BY AcquirableObjs DEF Signal
<1> QED BY <1>1, <1>2 DEF Undisturbed

\* The steps that acquire, release and deliver nothing.
QuietStep(t) ==
  \/ \E r \in Requests : WaitAllNow(t, r) \/ Block(t, r)
  \/ Interrupt(t) \/ ExpireTimer(t) \/ exit_thread(t)
  \/ \E e \in AutoEvents \cup ManualEvents : set_event(t, e) \/ reset_event(t, e) \/ pulse_event(t, e)
  \/ \E o \in Objs : close_object(t, o)

\* Steps that neither take, pass on nor deliver anything.
LEMMA QuietSteps ==
  ASSUME Awake, NEW t \in Threads, QuietStep(t)
  PROVE  Quiet
<1>0. BaseInv /\ WaitInv /\ OType BY DEF Awake, BaseInv
<1>1. ASSUME NEW r \in Requests, WaitAllNow(t, r) PROVE Quiet
  <2>1. \A i \in DOMAIN r.objs : r.objs[i] \notin Acquirable
    BY <1>1 DEF WaitAllNow, Awake, PlainAcquisition
  <2>2. \A a \in Acquirable : a \notin Range(r.objs) BY <2>1 DEF Range
  <2> SUFFICES ASSUME NEW a \in Acquirable PROVE Undisturbed(a) BY DEF Quiet
  <2>3. a \notin Range(r.objs) /\ a \in Objs BY <2>2, AcquirableObjs
  <2>4. \A u \in Threads : a \in Pending(u)' <=> a \in Pending(u) BY <1>1 DEF WaitAllNow, wstate, Pending
  <2>5. signaled'[a] = signaled[a] BY <1>1, <2>3 DEF WaitAllNow, enter_object
  <2>6. a \in Mutexes => owner'[a] = owner[a] /\ recursion'[a] = recursion[a]
    BY <1>1, <2>3 DEF WaitAllNow, enter_object
  <2>7. a \in Sems => count'[a] = count[a] /\ tokens'[a] = tokens[a]
    BY <1>1, <2>3 DEF WaitAllNow, enter_object, Told
  <2>8. a \in Lockables => \A u \in Threads : held'[u][a] = held[u][a]
    BY <1>0, <1>1, <2>3 DEF WaitAllNow, Told, OType
  <2> QED BY <2>4, <2>5, <2>6, <2>7, <2>8 DEF Undisturbed
<1>2. ASSUME \A u \in Threads, a \in Acquirable : a \in Pending(u)' <=> a \in Pending(u),
             \A a \in Acquirable : signaled'[a] = signaled[a],
             UNCHANGED <<count, owner, recursion, held, tokens>>
      PROVE  Quiet
  BY <1>2 DEF Quiet, Undisturbed
<1>3. ASSUME NEW r \in Requests, Block(t, r) PROVE Quiet
  <2>1. \A u \in Threads, a \in Acquirable : a \in Pending(u)' <=> a \in Pending(u)
    <3> TAKE u \in Threads, a \in Acquirable
    <3>1. CASE u = t
      <4>1. state[u] = "run" /\ state'[u] = "wait" BY <1>0, <1>3, <3>1 DEF Block, Runs, WaitInv, WType
      <4> QED BY <4>1 DEF Pending
    <3>2. CASE u # t
      <4>1. state[u] = state'[u] /\ wait'[u] = wait[u] /\ waitkey'[u] = waitkey[u]
        BY <1>0, <1>3, <3>2 DEF Block, WaitInv, WType
      <4> QED BY <4>1 DEF Pending
    <3> QED BY <3>1, <3>2
  <2>2. UNCHANGED <<signaled, count, owner, recursion, held, tokens>> BY <1>3 DEF Block, ghosts
  <2> QED BY <1>2, <2>1, <2>2
<1>4. ASSUME Interrupt(t) PROVE Quiet
  <2>1. \A u \in Threads, a \in Acquirable : a \in Pending(u)' <=> a \in Pending(u)
    <3> TAKE u \in Threads, a \in Acquirable
    <3>1. state[u] = state'[u] \/ (state[u] = "wait" /\ state'[u] = "alert")
      BY <1>0, <1>4 DEF Interrupt, WaitInv, WType
    <3>2. wait'[u] = wait[u] /\ waitkey'[u] = waitkey[u] BY <1>4 DEF Interrupt
    <3> QED BY <3>1, <3>2 DEF Pending
  <2>2. UNCHANGED <<signaled, count, owner, recursion, held, tokens>> BY <1>4 DEF Interrupt, ghosts
  <2> QED BY <1>2, <2>1, <2>2
<1>5. ASSUME ExpireTimer(t) PROVE Quiet
  <2>1. UNCHANGED <<signaled, count, owner, recursion, held, tokens>> BY <1>5 DEF ExpireTimer, ghosts
  <2>2. CASE ~blocks[t]
    <3>1. UNCHANGED <<wait, waitkey, state>> BY <1>5, <2>2 DEF ExpireTimer
    <3>2. \A u \in Threads, a \in Acquirable : a \in Pending(u)' <=> a \in Pending(u)
      BY <3>1 DEF Pending
    <3> QED BY <1>2, <2>1, <3>2
  <2>3. CASE blocks[t]
    <3>1. release_thread({t}, state, [u \in Threads |-> ExpiryKey], FALSE) BY <1>5, <2>3 DEF ExpireTimer
    <3>2. LinkedSet({t}) /\ StartsFrom(state) BY <1>0, <2>3, SameStates DEF LinkedSet
    <3>3. timer[t] # "off" BY <1>5 DEF ExpireTimer
    <3>4. wait[t].timed /\ wait[t] \in Requests
      BY <1>0, <2>3, <3>3 DEF WaitInv, WType, ThreadsOK, ThreadOK
    <3>5. \A i \in DOMAIN wait[t].objs : wait[t].objs[i] \notin Acquirable
      BY <3>4 DEF Awake, PlainAcquisition
    <3>6. \A u \in {t}, a \in Acquirable : a \notin TakenFor(wait[u], [v \in Threads |-> ExpiryKey][u])
      BY <3>5, TakenNothing
    <3>7. \A u \in Threads, a \in Acquirable : a \in Pending(u)' <=> a \in Pending(u)
      <4> DEFINE key == [v \in Threads |-> ExpiryKey]
      <4> HIDE DEF key
      <4>1. release_thread({t}, state, key, FALSE) BY <3>1 DEF key
      <4>2. \A u \in {t}, a \in Acquirable : a \notin TakenFor(wait[u], key[u]) BY <3>6 DEF key
      <4> QED BY <1>0, <3>2, <4>1, <4>2, ReleasePending
    <3> QED BY <1>2, <2>1, <3>7
  <2> QED BY <2>2, <2>3
<1>6. ASSUME exit_thread(t) PROVE Quiet
  <2> DEFINE T == ThreadsAt(t, ReadyAt(t, Raised(t)))
             S == [state EXCEPT ![t] = "dead"]
             key == [u \in Threads |-> ExitCode]
             twice == Twice(t, ReadyAt(t, Raised(t)))
  <2>1. /\ release_thread(T, S, key, twice) /\ StartsFrom(S) /\ LinkedSet(T) /\ signaled' = Raised(t)
    BY <1>0, <1>6, ExitForm
  <2>2. t \in Objs BY DEF Objs
  <2>3. T \subseteq Range(waitlist[t]) BY <1>0, <2>2, FirstReadyDomain, ThreadsAtLinked
  <2> HIDE DEF T, S, key, twice
  <2>4. ASSUME NEW u \in T PROVE \A i \in DOMAIN wait[u].objs : wait[u].objs[i] \notin Acquirable
    <3>1. wait[u] \in Requests /\ \E i \in DOMAIN wait[u].objs : wait[u].objs[i] = t
      BY <1>0, <2>2, <2>3, ListedWaits
    <3> QED BY <3>1 DEF Awake, PlainAcquisition
  <2>5. \A u \in T, a \in Acquirable : a \notin TakenFor(wait[u], key[u]) BY <2>4, TakenNothing
  <2>6. \A u \in Threads, a \in Acquirable : a \in Pending(u)' <=> a \in Pending(u)
    BY <1>0, <2>1, <2>5, ReleasePending
  <2>7. \A a \in Acquirable : signaled'[a] = signaled[a]
    BY <1>0, <2>1, AcquirableObjs DEF Raised, OType
  <2>8. UNCHANGED <<count, owner, recursion, held, tokens>> BY <1>6 DEF exit_thread, ghosts
  <2> QED BY <1>2, <2>6, <2>7, <2>8
<1>7. ASSUME NEW e \in AutoEvents \cup ManualEvents, NEW I, Signal(e, I),
             UNCHANGED <<count, owner, recursion, held, tokens>>
      PROVE  Quiet
  <2>1. e \in Objs /\ e \notin Acquirable BY AcquirableObjs DEF Objs
  <2>2. OthersKept(e) BY <1>7, <2>1, SignalOthers
  <2> QED BY <2>1, <2>2 DEF OthersKept, Quiet
<1>8. ASSUME NEW e \in AutoEvents \cup ManualEvents, set_event(t, e) PROVE Quiet
  BY <1>0, <1>7, <1>8, SetEventSignals DEF set_event, ghosts
<1>9. ASSUME NEW e \in AutoEvents \cup ManualEvents, pulse_event(t, e) PROVE Quiet
  BY <1>0, <1>7, <1>9, PulseEventSignals DEF pulse_event, ghosts
<1>10. ASSUME NEW e \in AutoEvents \cup ManualEvents, reset_event(t, e) PROVE Quiet
  <2>1. UNCHANGED <<wait, waitkey, state, count, owner, recursion, held, tokens>>
    BY <1>10 DEF reset_event, wstate, ghosts
  <2>2. \A u \in Threads, a \in Acquirable : a \in Pending(u)' <=> a \in Pending(u) BY <2>1 DEF Pending
  <2>3. \A a \in Acquirable : signaled'[a] = signaled[a]
    BY <1>0, <1>10, AcquirableObjs DEF reset_event, OType
  <2> QED BY <1>2, <2>1, <2>2, <2>3
<1>11. ASSUME NEW o \in Objs, close_object(t, o) PROVE Quiet
  <2> DEFINE key == [u \in Threads |-> EINTR]
  <2>1. release_thread(Range(waitlist[o]), state, key, FALSE) BY <1>11 DEF close_object
  <2>2. LinkedSet(Range(waitlist[o])) /\ StartsFrom(state) BY <1>0, ListedWaits, SameStates DEF LinkedSet
  <2>3. \A u \in Range(waitlist[o]), a \in Acquirable : a \notin TakenFor(wait[u], key[u])
    <3>1. \A u \in Range(waitlist[o]) : u \in Threads /\ key[u] < 0 BY <2>2 DEF LinkedSet, EINTR
    <3> QED BY <3>1 DEF TakenFor
  <2> HIDE DEF key
  <2>4. \A u \in Threads, a \in Acquirable : a \in Pending(u)' <=> a \in Pending(u)
    BY <1>0, <2>1, <2>2, <2>3, ReleasePending
  <2>5. UNCHANGED <<signaled, count, owner, recursion, held, tokens>> BY <1>11 DEF close_object, ghosts
  <2> QED BY <1>2, <2>4, <2>5
<1> QED BY <1>1, <1>3, <1>4, <1>5, <1>6, <1>8, <1>9, <1>10, <1>11 DEF QuietStep

\* What the caller is told it acquired is added to what it holds.
LEMMA ToldFacts ==
  ASSUME OType, NEW t \in Threads, NEW S, Told(t, S)
  PROVE  /\ \A a \in Lockables : held'[t][a] = IF a \in S THEN held[t][a] + 1 ELSE held[t][a]
         /\ \A u \in Threads, a \in Lockables : u # t => held'[u][a] = held[u][a]
         /\ \A s \in Sems : tokens'[s] = IF s \in S THEN tokens[s] - 1 ELSE tokens[s]
BY DEF OType, Told

\* A wait that ends at once: the caller is told of the one object it enters.
TakesNow(t, o) ==
  /\ state[t] = "run" /\ OthersKept(o)
  /\ \A u \in Threads, a \in Acquirable : a \in Pending(u)' <=> a \in Pending(u)
  /\ o \in Lockables => /\ held'[t][o] = held[t][o] + 1
                        /\ \A u \in Threads : u # t => held'[u][o] = held[u][o]
  /\ o \in Sems => tokens'[o] = tokens[o] - 1
  /\ \/ signaled[o] /\ enter_object(t, {o})
     \/ /\ ~signaled[o] /\ o \in Mutexes /\ owner[o] = t
        /\ recursion' = [recursion EXCEPT ![o] = @ + 1]
        /\ UNCHANGED <<signaled, count, owner>>

\* A wait that need not sleep takes one object for its caller, or none.
LEMMA WaitAnyForm ==
  ASSUME Awake, NEW t \in Threads, NEW r \in Requests, WaitAnyNow(t, r)
  PROVE  \E o \in Objs : TakesNow(t, o)
<1>0. OType BY DEF Awake, BaseInv
<1> DEFINE Key(i) == IF r.objs[i] \in Threads /\ ExitCode # 0 THEN ExitCode ELSE i - 1
<1>1. PICK i \in DOMAIN r.objs :
        /\ Enterable(t, r.objs[i])
        /\ \/ signaled[r.objs[i]] /\ enter_object(t, {r.objs[i]})
           \/ /\ ~signaled[r.objs[i]] /\ recursion[r.objs[i]] < MaxCount
              /\ recursion' = [recursion EXCEPT ![r.objs[i]] = @ + 1]
              /\ UNCHANGED <<signaled, count, owner>>
        /\ Told(t, TakenFor(r, Key(i)))
  BY DEF WaitAnyNow
<1> DEFINE o == r.objs[i]
           S == TakenFor(r, Key(i))
<1>2. state[t] = "run" /\ ~r.all /\ UNCHANGED <<wait, waitkey, state>>
  BY DEF WaitAnyNow, Runs, wstate
<1>3. r.objs \in Seq(Objs) /\ o \in Objs BY RequestFacts
<1>4. \A a \in Acquirable : a \in S <=> a = o
  <2>1. CASE \E j \in DOMAIN r.objs : r.objs[j] \in Acquirable
    <3>1. o \notin Threads BY <2>1 DEF Awake, PlainAcquisition
    <3>2. Key(i) = i - 1 /\ i \in Nat /\ i >= 1 BY <1>3, <3>1
    <3>3. ~(Key(i) < 0) /\ Key(i) + 1 = i BY <3>2
    <3>4. S = {o} BY <1>2, <3>3 DEF TakenFor
    <3> QED BY <3>4
  <2>2. CASE ~\E j \in DOMAIN r.objs : r.objs[j] \in Acquirable
    <3>1. \A a \in Acquirable : a \notin S BY <2>2, TakenNothing
    <3> QED BY <2>2, <3>1
  <2> QED BY <2>1, <2>2
<1>5. Told(t, S) BY <1>1
<1>6. \A u \in Threads, a \in Acquirable : a \in Pending(u)' <=> a \in Pending(u) BY <1>2 DEF Pending
<1>7. \/ signaled[o] /\ enter_object(t, {o})
      \/ /\ ~signaled[o] /\ o \in Mutexes /\ owner[o] = t
         /\ recursion' = [recursion EXCEPT ![o] = @ + 1]
         /\ UNCHANGED <<signaled, count, owner>>
  BY <1>1 DEF Enterable
<1> HIDE DEF S, o, Key
<1>8. /\ \A a \in Lockables : held'[t][a] = IF a \in S THEN held[t][a] + 1 ELSE held[t][a]
      /\ \A u \in Threads, a \in Lockables : u # t => held'[u][a] = held[u][a]
      /\ \A s \in Sems : tokens'[s] = IF s \in S THEN tokens[s] - 1 ELSE tokens[s]
  BY <1>0, <1>5, ToldFacts
<1>9. /\ o \in Lockables => /\ held'[t][o] = held[t][o] + 1
                            /\ \A u \in Threads : u # t => held'[u][o] = held[u][o]
      /\ o \in Sems => tokens'[o] = tokens[o] - 1
  BY <1>4, <1>8 DEF Acquirable
<1>10. ASSUME NEW a \in Acquirable, a # o PROVE Undisturbed(a)
  <2>1. a \notin S /\ a \in Objs BY <1>4, <1>10, AcquirableObjs
  <2>2. a \in Lockables => \A u \in Threads : held'[u][a] = held[u][a] BY <1>8, <2>1
  <2>3. a \in Sems => tokens'[a] = tokens[a] BY <1>8, <2>1
  <2>4. /\ signaled'[a] = signaled[a]
        /\ a \in Mutexes => owner'[a] = owner[a] /\ recursion'[a] = recursion[a]
        /\ a \in Sems => count'[a] = count[a]
    <3>1. CASE enter_object(t, {o}) BY <1>10, <2>1, <3>1 DEF enter_object
    <3>2. CASE recursion' = [recursion EXCEPT ![o] = @ + 1] /\ UNCHANGED <<signaled, count, owner>>
      BY <1>0, <1>10, <3>2 DEF OType
    <3> QED BY <1>7, <3>1, <3>2
  <2> QED BY <1>6, <2>2, <2>3, <2>4 DEF Undisturbed
<1>11. TakesNow(t, o) BY <1>2, <1>6, <1>7, <1>9, <1>10 DEF TakesNow, OthersKept
<1> QED BY <1>3, <1>11

\* A wait that returns: the thread is told what was pending.
Delivers(t) ==
  /\ \A u \in Threads : u # t => \A a \in Acquirable : a \in Pending(u)' <=> a \in Pending(u)
  /\ \A a \in Acquirable : a \notin Pending(t)'
  /\ \A a \in Lockables : held'[t][a] = IF a \in Pending(t) THEN held[t][a] + 1 ELSE held[t][a]
  /\ \A u \in Threads, a \in Lockables : u # t => held'[u][a] = held[u][a]
  /\ \A s \in Sems : tokens'[s] = IF s \in Pending(t) THEN tokens[s] - 1 ELSE tokens[s]
  /\ UNCHANGED <<signaled, count, owner, recursion>>

\* A wait that returns delivers what it was released with.
LEMMA ReturnForm ==
  ASSUME Awake, NEW t \in Threads, Return(t)
  PROVE  Delivers(t)
<1>0. OType /\ WType BY DEF Awake, BaseInv, WaitInv
<1> DEFINE key == IF state[t] = "alert" THEN EINTR ELSE waitkey[t]
<1>1. state[t] \in {"woken", "alert"} /\ Told(t, TakenFor(wait[t], key)) BY DEF Return
<1>2. TakenFor(wait[t], key) = Pending(t)
  <2>1. CASE state[t] = "alert"
    <3>1. key < 0 BY <2>1 DEF EINTR
    <3> QED BY <2>1, <3>1 DEF TakenFor, Pending
  <2>2. CASE state[t] # "alert" BY <1>1, <2>2 DEF Pending
  <2> QED BY <2>1, <2>2
<1>3. Told(t, Pending(t)) BY <1>1, <1>2
<1>4. \A u \in Threads : u # t => \A a \in Acquirable : a \in Pending(u)' <=> a \in Pending(u)
  <2> SUFFICES ASSUME NEW u \in Threads, u # t PROVE Pending(u)' = Pending(u) OBVIOUS
  <2>1. state'[u] = state[u] /\ wait'[u] = wait[u] /\ waitkey'[u] = waitkey[u] BY <1>0 DEF Return, WType
  <2> QED BY <2>1 DEF Pending
<1>5. \A a \in Acquirable : a \notin Pending(t)'
  <2>1. state'[t] = "run" BY <1>0 DEF Return, WType
  <2> QED BY <2>1 DEF Pending
<1>6. UNCHANGED <<signaled, count, owner, recursion>> BY DEF Return
<1>7. /\ \A a \in Lockables : held'[t][a] = IF a \in Pending(t) THEN held[t][a] + 1 ELSE held[t][a]
      /\ \A u \in Threads, a \in Lockables : u # t => held'[u][a] = held[u][a]
      /\ \A s \in Sems : tokens'[s] = IF s \in Pending(t) THEN tokens[s] - 1 ELSE tokens[s]
  BY <1>0, <1>3, ToldFacts
<1> QED BY <1>4, <1>5, <1>6, <1>7 DEF Delivers

\* The count n of s is handed out.
LEMMA HandOutOthers ==
  ASSUME Awake, NEW s \in Sems, NEW n \in Nat, HandOut(s, n), UNCHANGED <<owner, recursion, timer, held>>,
         \A p \in Sems : p # s => tokens'[p] = tokens[p]
  PROVE  OthersKept(s)
<1>0. BaseInv /\ WaitInv /\ OType BY DEF Awake, BaseInv
<1>1. \A p \in Sems : p # s => count'[p] = count[p]
  <2>1. CASE n = 0 BY <1>0, <2>1 DEF HandOut, OType
  <2>2. CASE n # 0 BY <1>0, <2>2 DEF HandOut, OType
  <2> QED BY <2>1, <2>2
<1>2. s \in Objs BY DEF Objs
<1>3. CASE n # 0
  <2>1. Signal(s, FirstReady(s, Raised(s), n)) BY <1>0, <1>3, HandOutSignals
  <2>2. \A m \in Mutexes : m # s => owner'[m] = owner[m] /\ recursion'[m] = recursion[m] OBVIOUS
  <2>3. \A u \in Threads, a \in Lockables : a # s => held'[u][a] = held[u][a] OBVIOUS
  <2>4. \A p \in Sems : p # s => count'[p] = count[p] /\ tokens'[p] = tokens[p] BY <1>1
  <2> QED BY <1>2, <2>1, <2>2, <2>3, <2>4, SignalOthers
<1>4. CASE n = 0
  <2>1. UNCHANGED <<signaled, wait, waitkey, state>> BY <1>4 DEF HandOut
  <2> QED BY <1>1, <2>1 DEF OthersKept, Undisturbed, Pending
<1> QED BY <1>3, <1>4

\* release_mutex disturbs only its mutex, and what it does to it.
Reenters(t, m) ==
  /\ recursion'[m] = recursion[m] - 1
  /\ UNCHANGED <<signaled, owner>>
  /\ \A u \in Threads : Pending(u)' = Pending(u)

\* The last release of mutex m by thread t passes it on.
Passes(t, m) ==
  /\ recursion[m] = 1 /\ Signal(m, FirstReady(m, Raised(m), 1)) /\ hand_over(m, Raised(m))

\* release_mutex by thread t: one level less, or the mutex is passed on.
MutexReleased(t, m) ==
  /\ state[t] = "run" /\ owner[m] = t /\ OthersKept(m)
  /\ held'[t][m] = held[t][m] - 1
  /\ \A u \in Threads : u # t => held'[u][m] = held[u][m]
  /\ Reenters(t, m) \/ Passes(t, m)

\* That is what release_mutex does.
LEMMA ReleaseMutexForm ==
  ASSUME Awake, NEW t \in Threads, NEW m \in Mutexes, release_mutex(t, m)
  PROVE  MutexReleased(t, m)
<1>0. BaseInv /\ WaitInv /\ OType BY DEF Awake, BaseInv
<1>1. m \in Objs /\ m \in Lockables BY DEF Objs, Lockables
<1>2. /\ state[t] = "run" /\ owner[m] = t /\ UNCHANGED <<count, timer, closed, hung, tokens>>
      /\ held' = [held EXCEPT ![t][m] = @ - 1]
  BY DEF release_mutex, Runs
<1>3. /\ held'[t][m] = held[t][m] - 1
      /\ \A u \in Threads : u # t => held'[u][m] = held[u][m]
      /\ \A u \in Threads, a \in Lockables : a # m => held'[u][a] = held[u][a]
  BY <1>0, <1>1, <1>2 DEF OType
<1>4. CASE recursion[m] > 1 /\ recursion' = [recursion EXCEPT ![m] = @ - 1]
           /\ UNCHANGED <<signaled, owner, waitlist, wait, blocks, waitkey, state, panicked>>
  <2>1. \A u \in Threads : Pending(u)' = Pending(u) BY <1>4 DEF Pending
  <2>2. Reenters(t, m) BY <1>0, <1>4, <2>1 DEF Reenters, OType
  <2>3. \A n \in Mutexes : n # m => recursion'[n] = recursion[n] BY <1>0, <1>4 DEF OType
  <2>4. OthersKept(m) BY <1>2, <1>3, <1>4, <2>1, <2>3 DEF OthersKept, Undisturbed
  <2> QED BY <1>2, <1>3, <2>2, <2>4 DEF MutexReleased
<1>5. CASE recursion[m] = 1 /\ hand_over(m, Raised(m))
  <2>1. Signal(m, FirstReady(m, Raised(m), 1)) BY <1>0, <1>2, <1>5, HandOverSignals
  <2>2. \A n \in Mutexes : n # m => owner'[n] = owner[n] /\ recursion'[n] = recursion[n]
    BY <1>0, <1>5 DEF hand_over, OType
  <2>3. \A s \in Sems : s # m => count'[s] = count[s] /\ tokens'[s] = tokens[s] BY <1>2
  <2>4. OthersKept(m) BY <1>1, <1>3, <2>1, <2>2, <2>3, SignalOthers
  <2>5. Passes(t, m) BY <1>5, <2>1 DEF Passes
  <2> QED BY <1>2, <1>3, <2>4, <2>5 DEF MutexReleased
<1> QED BY <1>4, <1>5 DEF release_mutex, Raised

\* unlock_filemap by thread t: the lock goes to the first waiter.
FilemapReleased(t, f) ==
  /\ state[t] = "run" /\ held[t][f] > 0 /\ OthersKept(f)
  /\ held'[t][f] = held[t][f] - 1
  /\ \A u \in Threads : u # t => held'[u][f] = held[u][f]
  /\ Signal(f, FirstReady(f, Raised(f), 1))
  /\ signaled'[f] <=> FirstReady(f, Raised(f), 1) = {}

\* That is what unlock_filemap does.
LEMMA UnlockForm ==
  ASSUME Awake, NEW t \in Threads, NEW f \in Filemaps, unlock_filemap(t, f)
  PROVE  FilemapReleased(t, f)
<1>0. BaseInv /\ WaitInv /\ OType BY DEF Awake, BaseInv
<1>1. f \in Objs /\ f \in Lockables BY DEF Objs, Lockables
<1>2. /\ state[t] = "run" /\ held[t][f] > 0
      /\ UNCHANGED <<count, owner, recursion, timer, closed, hung, tokens>>
      /\ held' = [held EXCEPT ![t][f] = @ - 1]
  BY DEF unlock_filemap, Runs
<1>3. /\ held'[t][f] = held[t][f] - 1
      /\ \A u \in Threads : u # t => held'[u][f] = held[u][f]
      /\ \A u \in Threads, a \in Lockables : a # f => held'[u][a] = held[u][a]
  BY <1>0, <1>1, <1>2 DEF OType
<1>4. Signal(f, FirstReady(f, Raised(f), 1)) BY <1>0, UnlockSignals
<1>5. OthersKept(f)
  <2>1. \A n \in Mutexes : n # f => owner'[n] = owner[n] /\ recursion'[n] = recursion[n] BY <1>2
  <2>2. \A s \in Sems : s # f => count'[s] = count[s] /\ tokens'[s] = tokens[s] BY <1>2
  <2> QED BY <1>1, <1>3, <1>4, <2>1, <2>2, SignalOthers
<1>6. signaled'[f] <=> FirstReady(f, Raised(f), 1) = {}
  BY <1>0, <1>1 DEF unlock_filemap, Raised, OType
<1> QED BY <1>2, <1>3, <1>4, <1>5, <1>6 DEF FilemapReleased

\* Every step is one of these.
Handed(s) ==
  \E t \in Threads : release_sem(t, s) \/ \E n \in SetCounts : set_sem(t, s, n)

\* Every step is one of five, as far as acquisition goes.
LEMMA AcquisitionSteps ==
  ASSUME Awake, [Next]_vars
  PROVE  \/ Quiet
         \/ \E t \in Threads, o \in Objs : TakesNow(t, o)
         \/ \E t \in Threads : Delivers(t)
         \/ \E s \in Sems : OthersKept(s) /\ Handed(s)
         \/ \E t \in Threads, m \in Mutexes : MutexReleased(t, m)
         \/ \E t \in Threads, f \in Filemaps : FilemapReleased(t, f)
<1>0. BaseInv /\ OType BY DEF Awake, BaseInv
<1>1. CASE UNCHANGED vars BY <1>1 DEF vars, Quiet, Undisturbed, Pending
<1>2. ASSUME NEW t \in Threads, NEW s \in Sems, release_sem(t, s) PROVE OthersKept(s) /\ Handed(s)
  <2>1. count[s] + 1 \in Nat BY <1>0 DEF OType
  <2>2. \A p \in Sems : p # s => tokens'[p] = tokens[p] BY <1>0, <1>2 DEF release_sem, OType
  <2>3. OthersKept(s) BY <1>2, <2>1, <2>2, HandOutOthers DEF release_sem
  <2> QED BY <1>2, <2>3 DEF Handed
<1>3. ASSUME NEW t \in Threads, NEW s \in Sems, NEW n \in SetCounts, set_sem(t, s, n)
      PROVE  OthersKept(s) /\ Handed(s)
  <2>1. n \in Nat BY ObjectsAssumption
  <2>2. \A p \in Sems : p # s => tokens'[p] = tokens[p] BY <1>0, <1>3 DEF set_sem, OType
  <2>3. OthersKept(s) BY <1>3, <2>1, <2>2, HandOutOthers DEF set_sem
  <2> QED BY <1>3, <2>3 DEF Handed
<1>4. CASE Next
  <2>1. PICK t \in Threads :
          \/ \E r \in Requests : WaitAnyNow(t, r)
          \/ Return(t) \/ QuietStep(t)
          \/ \E s \in Sems : release_sem(t, s) \/ \E n \in SetCounts : set_sem(t, s, n)
          \/ \E m \in Mutexes : release_mutex(t, m)
          \/ \E f \in Filemaps : unlock_filemap(t, f)
    BY <1>4 DEF Next, QuietStep
  <2> QED BY <2>1, <1>2, <1>3, QuietSteps, WaitAnyForm, ReturnForm, ReleaseMutexForm, UnlockForm
<1> QED BY <1>1, <1>4

-----------------------------------------------------------------------------
(* Mutexes.                                                                *)

\* What thread t holds of mutex m is what the mutex says, less what t has not
\* been told yet.
HoldsRight(t, m) ==
  /\ m \in Pending(t) => owner[m] = t
  /\ held[t][m] = (IF owner[m] = t THEN recursion[m] ELSE 0) - (IF m \in Pending(t) THEN 1 ELSE 0)

\* That, for all mutexes and threads.
MutexInv == \A m \in Mutexes, t \in Threads : HoldsRight(t, m)

\* A mutex that does not change hands stays right.
LEMMA UndisturbedMutex ==
  ASSUME MutexInv, NEW m \in Mutexes, Undisturbed(m), NEW t \in Threads
  PROVE  HoldsRight(t, m)'
<1>1. HoldsRight(t, m) /\ m \in Lockables BY DEF MutexInv, Lockables
<1>2. /\ m \in Pending(t)' <=> m \in Pending(t)
      /\ held'[t][m] = held[t][m] /\ owner'[m] = owner[m] /\ recursion'[m] = recursion[m]
  BY <1>1 DEF Undisturbed
<1> QED BY <1>1, <1>2 DEF HoldsRight

\* It is enough to look at the mutex that changes hands.
LEMMA OthersMutexes ==
  ASSUME MutexInv, NEW o, OthersKept(o),
         o \in Mutexes => \A t \in Threads : HoldsRight(t, o)'
  PROVE  MutexInv'
<1> SUFFICES ASSUME NEW m \in Mutexes, NEW t \in Threads PROVE HoldsRight(t, m)' BY DEF MutexInv
<1>1. CASE m = o BY <1>1
<1>2. CASE m # o
  <2>1. Undisturbed(m) BY <1>2 DEF OthersKept, Acquirable, Lockables
  <2> QED BY <2>1, UndisturbedMutex
<1> QED BY <1>1, <1>2

\* A mutex taken without sleeping.
LEMMA MutexTaken ==
  ASSUME Awake, MutexInv, NEW t \in Threads, NEW o \in Mutexes, TakesNow(t, o)
  PROVE  \A u \in Threads : HoldsRight(u, o)'
<1>0. OType /\ t # NULL BY ObjectsAssumption DEF Awake, BaseInv
<1>1. o \in Lockables /\ o \in Acquirable BY DEF Lockables, Acquirable
<1>2. \A u \in Threads : o \in Pending(u)' <=> o \in Pending(u) BY <1>1 DEF TakesNow
<1>3. o \notin Pending(t) /\ held'[t][o] = held[t][o] + 1 BY <1>1 DEF TakesNow, Pending
<1>4. \A u \in Threads : u # t => held'[u][o] = held[u][o] BY <1>1 DEF TakesNow
<1>5. \A u \in Threads : HoldsRight(u, o) BY DEF MutexInv
<1>6. CASE signaled[o] /\ enter_object(t, {o})
  <2>1. owner[o] = NULL BY <1>6 DEF Awake, FreeInv
  <2>2. owner'[o] = t /\ recursion'[o] = 1 BY <1>6 DEF enter_object
  <2>3. \A u \in Threads : o \notin Pending(u) /\ held[u][o] = 0
    <3> TAKE u \in Threads
    <3>1. owner[o] # u BY <2>1, ObjectsAssumption
    <3> QED BY <1>5, <3>1 DEF HoldsRight
  <2>4. held'[t][o] = 1 BY <1>3, <2>3
  <2>5. \A u \in Threads : u # t => held'[u][o] = 0 BY <1>4, <2>3
  <2> QED BY <1>2, <2>2, <2>3, <2>4, <2>5 DEF HoldsRight
<1>7. CASE /\ owner[o] = t /\ recursion' = [recursion EXCEPT ![o] = @ + 1]
           /\ UNCHANGED <<signaled, count, owner>>
  <2>1. recursion'[o] = recursion[o] + 1 /\ recursion[o] \in Nat BY <1>0, <1>7 DEF OType
  <2>2. HoldsRight(t, o)'
    <3>1. held[t][o] = recursion[o] BY <1>3, <1>5, <1>7, <2>1 DEF HoldsRight
    <3>2. held'[t][o] = recursion'[o] - 0 BY <1>3, <2>1, <3>1
    <3> QED BY <1>2, <1>3, <1>7, <3>2 DEF HoldsRight
  <2>3. ASSUME NEW u \in Threads, u # t PROVE HoldsRight(u, o)'
    <3>1. owner'[o] = owner[o] /\ owner[o] # u BY <1>7, <2>3
    <3>2. HoldsRight(u, o) BY <1>5
    <3>3. (o \in Pending(u)' <=> o \in Pending(u)) /\ held'[u][o] = held[u][o] BY <1>2, <1>4, <2>3
    <3> QED BY <3>1, <3>2, <3>3 DEF HoldsRight
  <2> QED BY <2>2, <2>3
<1> QED BY <1>6, <1>7 DEF TakesNow

\* A mutex released or passed on.
LEMMA MutexPassed ==
  ASSUME Awake, MutexInv, NEW t \in Threads, NEW m \in Mutexes, MutexReleased(t, m)
  PROVE  \A u \in Threads : HoldsRight(u, m)'
<1>0. BaseInv /\ OType /\ WaitInv BY DEF Awake, BaseInv
<1>1. m \in Objs /\ m \in Acquirable BY DEF Objs, Acquirable, Lockables
<1>2. /\ owner[m] = t /\ m \notin Pending(t) /\ held'[t][m] = held[t][m] - 1
      /\ \A u \in Threads : u # t => held'[u][m] = held[u][m]
  BY DEF MutexReleased, Pending
<1>3. \A u \in Threads : HoldsRight(u, m) BY DEF MutexInv
<1>4. held[t][m] = recursion[m] /\ recursion[m] \in Nat
  <2>1. recursion[m] \in Nat BY <1>0 DEF OType
  <2> QED BY <1>2, <1>3, <2>1 DEF HoldsRight
<1>5. \A u \in Threads : u # t => m \notin Pending(u) /\ held[u][m] = 0 BY <1>2, <1>3 DEF HoldsRight
<1>6. CASE Reenters(t, m)
  <2>1. recursion'[m] = recursion[m] - 1 /\ owner'[m] = t /\ \A u \in Threads : Pending(u)' = Pending(u)
    BY <1>2, <1>6 DEF Reenters
  <2>2. HoldsRight(t, m)'
    <3>1. held'[t][m] = recursion'[m] - 0 BY <1>2, <1>4, <2>1
    <3> QED BY <1>2, <2>1, <3>1 DEF HoldsRight
  <2>3. \A u \in Threads : u # t => HoldsRight(u, m)' BY <1>2, <1>5, <2>1 DEF HoldsRight
  <2> QED BY <2>2, <2>3
<1>7. CASE Passes(t, m)
  <2> DEFINE I == FirstReady(m, Raised(m), 1)
             T == ThreadsAt(m, I)
  <2>1. recursion[m] = 1 /\ Signal(m, I) /\ hand_over(m, Raised(m)) BY <1>7 DEF Passes
  <2>2. \A u \in Threads : m \in Pending(u)' <=> m \in Pending(u) \/ u \in T
    BY <1>1, <2>1, SignalPending
  <2>3. \A u \in Threads : m \notin Pending(u) BY <1>2, <1>5
  <2>4. \A u \in Threads : held'[u][m] = 0 BY <1>2, <1>4, <1>5, <2>1
  <2>5. CASE I = {}
    <3>1. owner'[m] = NULL BY <2>1, <2>5 DEF hand_over, OType, BaseInv, Awake
    <3>2. \A u \in Threads : owner'[m] # u BY <3>1, ObjectsAssumption
    <3>3. T = {} BY <2>5 DEF ThreadsAt
    <3> HIDE DEF I, T
    <3> QED BY <2>2, <2>3, <2>4, <3>2, <3>3 DEF HoldsRight
  <2>6. CASE I # {}
    <3>1. T = {owner'[m]} BY <1>0, <2>1, <2>6, HandOverFirst
    <3>2. recursion'[m] = 1 BY <1>0, <2>1, <2>6 DEF hand_over, OType
    <3> HIDE DEF I, T
    <3> QED BY <2>2, <2>3, <2>4, <3>1, <3>2 DEF HoldsRight
  <2> QED BY <2>5, <2>6
<1> QED BY <1>6, <1>7 DEF MutexReleased

\* A mutex that its new owner is told of.
LEMMA MutexDelivered ==
  ASSUME Awake, MutexInv, NEW t \in Threads, Delivers(t)
  PROVE  MutexInv'
<1> SUFFICES ASSUME NEW m \in Mutexes, NEW u \in Threads PROVE HoldsRight(u, m)' BY DEF MutexInv
<1>0. OType BY DEF Awake, BaseInv
<1>1. m \in Lockables /\ m \in Acquirable BY DEF Lockables, Acquirable
<1>2. HoldsRight(u, m) BY DEF MutexInv
<1>3. owner'[m] = owner[m] /\ recursion'[m] = recursion[m] BY DEF Delivers
<1>4. CASE u # t
  <2>1. (m \in Pending(u)' <=> m \in Pending(u)) /\ held'[u][m] = held[u][m] BY <1>1, <1>4 DEF Delivers
  <2> QED BY <1>2, <1>3, <2>1 DEF HoldsRight
<1>5. CASE u = t
  <2>1. m \notin Pending(u)' /\ held'[u][m] = IF m \in Pending(u) THEN held[u][m] + 1 ELSE held[u][m]
    BY <1>1, <1>5 DEF Delivers
  <2>2. recursion[m] \in Nat BY <1>0 DEF OType
  <2>3. CASE m \in Pending(u)
    <3>1. owner[m] = u /\ held[u][m] = recursion[m] - 1 BY <1>2, <2>3 DEF HoldsRight
    <3>2. held'[u][m] = recursion'[m] - 0 BY <1>3, <2>1, <2>2, <2>3, <3>1
    <3> QED BY <1>3, <2>1, <3>1, <3>2 DEF HoldsRight
  <2>4. CASE m \notin Pending(u)
    <3>1. held'[u][m] = held[u][m] BY <2>1, <2>4
    <3> QED BY <1>2, <1>3, <2>1, <2>4, <3>1 DEF HoldsRight
  <2> QED BY <2>3, <2>4
<1> QED BY <1>4, <1>5

\* Every step keeps the mutexes right.
LEMMA MutexNext ==
  ASSUME Awake, MutexInv, [Next]_vars
  PROVE  MutexInv'
<1>1. CASE Quiet
  BY <1>1, UndisturbedMutex DEF Quiet, MutexInv, Acquirable, Lockables
<1>2. ASSUME NEW t \in Threads, NEW o \in Objs, TakesNow(t, o) PROVE MutexInv'
  <2>1. OthersKept(o) BY <1>2 DEF TakesNow
  <2> QED BY <1>2, <2>1, MutexTaken, OthersMutexes
<1>3. ASSUME NEW t \in Threads, Delivers(t) PROVE MutexInv' BY <1>3, MutexDelivered
<1>4. ASSUME NEW s \in Sems, OthersKept(s) PROVE MutexInv'
  <2>1. s \notin Mutexes BY KindsFacts
  <2> QED BY <1>4, <2>1, OthersMutexes
<1>5. ASSUME NEW t \in Threads, NEW m \in Mutexes, MutexReleased(t, m) PROVE MutexInv'
  <2>1. OthersKept(m) BY <1>5 DEF MutexReleased
  <2> QED BY <1>5, <2>1, MutexPassed, OthersMutexes
<1>6. ASSUME NEW t \in Threads, NEW f \in Filemaps, FilemapReleased(t, f) PROVE MutexInv'
  <2>1. f \notin Mutexes /\ OthersKept(f) BY <1>6, KindsFacts DEF FilemapReleased
  <2> QED BY <2>1, OthersMutexes
<1> QED BY <1>1, <1>2, <1>3, <1>4, <1>5, <1>6, AcquisitionSteps

-----------------------------------------------------------------------------
(* File mappings.                                                          *)

\* Thread t has locked file mapping f, whether it knows already or not.
Has(t, f) == held[t][f] > 0 \/ f \in Pending(t)

\* One thread has f at most, once, and f is signaled while none has.
OneHas(f) ==
  /\ \A t \in Threads : held[t][f] \in {0, 1} /\ ~(held[t][f] = 1 /\ f \in Pending(t))
  /\ \A t, u \in Threads : Has(t, f) /\ Has(u, f) => t = u
  /\ signaled[f] <=> \A t \in Threads : ~Has(t, f)

\* That, for all file mappings.
FilemapInv == \A f \in Filemaps : OneHas(f)

\* A file mapping that does not change hands stays right.
LEMMA UndisturbedFilemap ==
  ASSUME FilemapInv, NEW f \in Filemaps, Undisturbed(f)
  PROVE  OneHas(f)'
<1>1. OneHas(f) /\ f \in Lockables BY DEF FilemapInv, Lockables
<1>2. /\ \A t \in Threads : (f \in Pending(t)' <=> f \in Pending(t)) /\ held'[t][f] = held[t][f]
      /\ signaled'[f] = signaled[f]
  BY <1>1 DEF Undisturbed
<1>3. \A t \in Threads : Has(t, f)' <=> Has(t, f) BY <1>2 DEF Has
<1> QED BY <1>1, <1>2, <1>3 DEF OneHas

\* It is enough to look at the file mapping that changes hands.
LEMMA OthersFilemaps ==
  ASSUME FilemapInv, NEW o, OthersKept(o), o \in Filemaps => OneHas(o)'
  PROVE  FilemapInv'
<1> SUFFICES ASSUME NEW f \in Filemaps PROVE OneHas(f)' BY DEF FilemapInv
<1>1. CASE f = o BY <1>1
<1>2. CASE f # o
  <2>1. Undisturbed(f) BY <1>2 DEF OthersKept, Acquirable, Lockables
  <2> QED BY <2>1, UndisturbedFilemap
<1> QED BY <1>1, <1>2

\* A file mapping locked without sleeping.
LEMMA FilemapTaken ==
  ASSUME Awake, FilemapInv, NEW t \in Threads, NEW f \in Filemaps, TakesNow(t, f)
  PROVE  OneHas(f)'
<1>1. f \in Lockables /\ f \in Acquirable /\ f \in Objs /\ f \notin Mutexes
  BY KindsFacts DEF Lockables, Acquirable, Objs
<1>2. signaled[f] /\ enter_object(t, {f}) BY <1>1 DEF TakesNow
<1>3. ~signaled'[f] BY <1>1, <1>2 DEF enter_object, Entered
<1>4. OneHas(f) BY DEF FilemapInv
<1>5. \A u \in Threads : ~Has(u, f) /\ held[u][f] = 0 BY <1>2, <1>4 DEF OneHas, Has
<1>6. \A u \in Threads : f \notin Pending(u)' BY <1>1, <1>5 DEF TakesNow, Has
<1>7. held'[t][f] = 1 /\ \A u \in Threads : u # t => held'[u][f] = 0 BY <1>1, <1>5 DEF TakesNow
<1>8. Has(t, f)' /\ \A u \in Threads : u # t => ~Has(u, f)' BY <1>6, <1>7 DEF Has
<1> QED BY <1>3, <1>6, <1>7, <1>8 DEF OneHas

\* A file mapping that the thread is told of.
LEMMA FilemapDelivered ==
  ASSUME Awake, FilemapInv, NEW t \in Threads, Delivers(t)
  PROVE  FilemapInv'
<1> SUFFICES ASSUME NEW f \in Filemaps PROVE OneHas(f)' BY DEF FilemapInv
<1>1. f \in Lockables /\ f \in Acquirable BY DEF Lockables, Acquirable
<1>2. OneHas(f) BY DEF FilemapInv
<1>3. signaled'[f] = signaled[f] BY DEF Delivers
<1>4. \A u \in Threads : u # t => (f \in Pending(u)' <=> f \in Pending(u)) /\ held'[u][f] = held[u][f]
  BY <1>1 DEF Delivers
<1>5. f \notin Pending(t)' /\ held'[t][f] = IF f \in Pending(t) THEN held[t][f] + 1 ELSE held[t][f]
  BY <1>1 DEF Delivers
<1>6. held'[t][f] \in {0, 1} /\ (held'[t][f] > 0 <=> Has(t, f)) BY <1>2, <1>5 DEF OneHas, Has
<1>7. \A u \in Threads : Has(u, f)' <=> Has(u, f) BY <1>4, <1>5, <1>6 DEF Has
<1>8. \A u \in Threads : held'[u][f] \in {0, 1} /\ ~(held'[u][f] = 1 /\ f \in Pending(u)')
  BY <1>2, <1>4, <1>5, <1>6 DEF OneHas
<1> QED BY <1>2, <1>3, <1>7, <1>8 DEF OneHas

\* A file mapping unlocked or passed on.
LEMMA FilemapPassed ==
  ASSUME Awake, FilemapInv, NEW t \in Threads, NEW f \in Filemaps, FilemapReleased(t, f)
  PROVE  OneHas(f)'
<1>0. WaitInv BY DEF Awake, BaseInv
<1>1. f \in Acquirable /\ f \in Objs BY DEF Lockables, Acquirable, Objs
<1>2. OneHas(f) BY DEF FilemapInv
<1> DEFINE I == FirstReady(f, Raised(f), 1)
           T == ThreadsAt(f, I)
<1>3. Signal(f, I) /\ held[t][f] > 0 /\ (signaled'[f] <=> I = {}) BY DEF FilemapReleased
<1>4. held[t][f] = 1 /\ held'[t][f] = 0 BY <1>2, <1>3 DEF OneHas, FilemapReleased
<1>5. Has(t, f) BY <1>3 DEF Has
<1>6. \A u \in Threads : u # t => held[u][f] = 0 /\ f \notin Pending(u) BY <1>2, <1>5 DEF OneHas, Has
<1>7. \A u \in Threads : held'[u][f] = 0 BY <1>4, <1>6 DEF FilemapReleased
<1>8. \A u \in Threads : f \notin Pending(u) BY <1>2, <1>4, <1>6 DEF OneHas
<1>9. \A u \in Threads : f \in Pending(u)' <=> f \in Pending(u) \/ u \in T BY <1>1, <1>3, SignalPending
<1>10. \A u \in Threads : Has(u, f)' <=> u \in T BY <1>7, <1>8, <1>9 DEF Has
<1>11. T \subseteq Threads
  <2>1. I \in SUBSET DOMAIN waitlist[f] BY FirstReadyDomain
  <2> QED BY <1>0, <1>1, <2>1, ThreadsAtLinked DEF LinkedSet
<1>12. CASE I = {}
  <2>1. T = {} BY <1>12 DEF ThreadsAt
  <2> HIDE DEF I, T
  <2> QED BY <1>3, <1>7, <1>10, <1>12, <2>1 DEF OneHas
<1>13. CASE I # {}
  <2>1. PICK i : I = {i} BY <1>0, <1>1, <1>13, FirstReadyOne
  <2>2. T = {waitlist[f][i]} BY <2>1 DEF ThreadsAt
  <2> HIDE DEF I, T
  <2> QED BY <1>3, <1>7, <1>10, <1>11, <1>13, <2>2 DEF OneHas
<1> QED BY <1>12, <1>13

\* Every step keeps the file mappings right.
LEMMA FilemapNext ==
  ASSUME Awake, FilemapInv, [Next]_vars
  PROVE  FilemapInv'
<1>1. CASE Quiet
  BY <1>1, UndisturbedFilemap DEF Quiet, FilemapInv, Acquirable, Lockables
<1>2. ASSUME NEW t \in Threads, NEW o \in Objs, TakesNow(t, o) PROVE FilemapInv'
  <2>1. OthersKept(o) BY <1>2 DEF TakesNow
  <2> QED BY <1>2, <2>1, FilemapTaken, OthersFilemaps
<1>3. ASSUME NEW t \in Threads, Delivers(t) PROVE FilemapInv' BY <1>3, FilemapDelivered
<1>4. ASSUME NEW s \in Sems, OthersKept(s) PROVE FilemapInv'
  <2>1. s \notin Filemaps BY KindsFacts
  <2> QED BY <1>4, <2>1, OthersFilemaps
<1>5. ASSUME NEW t \in Threads, NEW m \in Mutexes, MutexReleased(t, m) PROVE FilemapInv'
  <2>1. m \notin Filemaps /\ OthersKept(m) BY <1>5, KindsFacts DEF MutexReleased
  <2> QED BY <2>1, OthersFilemaps
<1>6. ASSUME NEW t \in Threads, NEW f \in Filemaps, FilemapReleased(t, f) PROVE FilemapInv'
  <2>1. OthersKept(f) BY <1>6 DEF FilemapReleased
  <2> QED BY <1>6, <2>1, FilemapPassed, OthersFilemaps
<1> QED BY <1>1, <1>2, <1>3, <1>4, <1>5, <1>6, AcquisitionSteps

\* A hung kernel does nothing.
LEMMA NextRuns ==
  ASSUME Next
  PROVE  ~hung
<1>1. ASSUME NEW t \in Threads, NEW r \in Requests, WaitAnyNow(t, r) PROVE ~hung BY <1>1 DEF WaitAnyNow, Runs
<1>2. ASSUME NEW t \in Threads, NEW r \in Requests, WaitAllNow(t, r) PROVE ~hung BY <1>2 DEF WaitAllNow, Runs
<1>3. ASSUME NEW t \in Threads, NEW r \in Requests, Block(t, r) PROVE ~hung BY <1>3 DEF Block, Runs
<1>4. ASSUME NEW t \in Threads, Return(t) PROVE ~hung BY <1>4 DEF Return, Runs
<1>5. ASSUME NEW t \in Threads, Interrupt(t) PROVE ~hung BY <1>5 DEF Interrupt, Runs
<1>6. ASSUME NEW t \in Threads, ExpireTimer(t) PROVE ~hung BY <1>6 DEF ExpireTimer, Runs
<1>7. ASSUME NEW t \in Threads, exit_thread(t) PROVE ~hung BY <1>7 DEF exit_thread, Runs
<1>8. ASSUME NEW t \in Threads, NEW e \in AutoEvents \cup ManualEvents, set_event(t, e) PROVE ~hung BY <1>8 DEF set_event, Runs
<1>9. ASSUME NEW t \in Threads, NEW e \in AutoEvents \cup ManualEvents, reset_event(t, e) PROVE ~hung BY <1>9 DEF reset_event, Runs
<1>10. ASSUME NEW t \in Threads, NEW e \in AutoEvents \cup ManualEvents, pulse_event(t, e) PROVE ~hung BY <1>10 DEF pulse_event, Runs
<1>11. ASSUME NEW t \in Threads, NEW s \in Sems, release_sem(t, s) PROVE ~hung BY <1>11 DEF release_sem, Runs
<1>12. ASSUME NEW t \in Threads, NEW s \in Sems, NEW n \in SetCounts, set_sem(t, s, n) PROVE ~hung BY <1>12 DEF set_sem, Runs
<1>13. ASSUME NEW t \in Threads, NEW m \in Mutexes, release_mutex(t, m) PROVE ~hung BY <1>13 DEF release_mutex, Runs
<1>14. ASSUME NEW t \in Threads, NEW f \in Filemaps, unlock_filemap(t, f) PROVE ~hung BY <1>14 DEF unlock_filemap, Runs
<1>15. ASSUME NEW t \in Threads, NEW o \in Objs, close_object(t, o) PROVE ~hung BY <1>15 DEF close_object, Runs
<1> QED BY <1>1, <1>2, <1>3, <1>4, <1>5, <1>6, <1>7, <1>8, <1>9, <1>10, <1>11, <1>12, <1>13, <1>14, <1>15 DEF Next

\* Nobody holds anything at the start.
LEMMA AcquisitionInit == Init => MutexInv /\ FilemapInv
<1> SUFFICES ASSUME Init PROVE MutexInv /\ FilemapInv OBVIOUS
<1>1. \A t \in Threads : Pending(t) = {} BY DEF Init, Pending
<1>2. \A t \in Threads, a \in Lockables : held[t][a] = 0 BY DEF Init
<1>3. ASSUME NEW m \in Mutexes, NEW t \in Threads PROVE HoldsRight(t, m)
  <2>1. owner[m] # t BY ObjectsAssumption DEF Init
  <2>2. held[t][m] = 0 BY <1>2 DEF Lockables
  <2> QED BY <1>1, <2>1, <2>2 DEF HoldsRight
<1>4. ASSUME NEW f \in Filemaps PROVE OneHas(f)
  <2>1. signaled[f] BY DEF Init, Objs
  <2>2. \A t \in Threads : held[t][f] = 0 BY <1>2 DEF Lockables
  <2>3. \A t \in Threads : ~Has(t, f) BY <1>1, <2>2 DEF Has
  <2> QED BY <1>1, <2>1, <2>2, <2>3 DEF OneHas
<1> QED BY <1>3, <1>4 DEF MutexInv, FilemapInv

\* At most one thread has the mapping, so the two sets have one element together.
LEMMA FilemapCount ==
  ASSUME NEW f, OneHas(f)
  PROVE  Cardinality({t \in Threads : f \in Pending(t)}) + Cardinality({t \in Threads : held[t][f] > 0})
           = IF signaled[f] THEN 0 ELSE 1
<1> DEFINE P == {t \in Threads : f \in Pending(t)}
           H == {t \in Threads : held[t][f] > 0}
<1>1. CASE signaled[f]
  <2>1. P = {} /\ H = {} BY <1>1 DEF OneHas, Has
  <2> HIDE DEF P, H
  <2>2. Cardinality(P) + Cardinality(H) = 0 BY <2>1, FS_EmptySet
  <2> QED BY <1>1, <2>2 DEF P, H
<1>2. CASE ~signaled[f]
  <2>1. PICK t \in Threads : Has(t, f) BY <1>2 DEF OneHas
  <2>2. \A u \in Threads : Has(u, f) => u = t BY <2>1 DEF OneHas
  <2>3. (P = {t} /\ H = {}) \/ (P = {} /\ H = {t})
    <3>1. CASE f \in Pending(t)
      <4>1. ~(held[t][f] > 0) BY <3>1 DEF OneHas
      <4>2. P = {t} /\ H = {} BY <2>2, <3>1, <4>1 DEF Has
      <4> QED BY <4>2
    <3>2. CASE f \notin Pending(t)
      <4>1. held[t][f] > 0 BY <2>1, <3>2 DEF Has
      <4>2. P = {} /\ H = {t} BY <2>2, <3>2, <4>1 DEF Has
      <4> QED BY <4>2
    <3> QED BY <3>1, <3>2
  <2>4. Cardinality({t}) = 1 /\ Cardinality({}) = 0 BY FS_Singleton, FS_EmptySet
  <2> HIDE DEF P, H
  <2>5. Cardinality(P) + Cardinality(H) = 1 BY <2>3, <2>4
  <2> QED BY <1>2, <2>5 DEF P, H
<1> QED BY <1>1, <1>2

\* The invariants together say what MutexAgrees says.
LEMMA AgreesFrom ==
  ASSUME FreeInv, MutexInv, FilemapInv
  PROVE  MutexAgrees
<1>1. \A m \in Mutexes : /\ signaled[m] <=> owner[m] = NULL
                         /\ \A t \in Threads : HoldsRight(t, m)
  BY DEF FreeInv, MutexInv
<1>2. \A f \in Filemaps :
        Cardinality({t \in Threads : f \in Pending(t)}) + Cardinality({t \in Threads : held[t][f] > 0})
          = IF signaled[f] THEN 0 ELSE 1
  BY FilemapCount DEF FilemapInv
<1> QED BY <1>1, <1>2 DEF MutexAgrees, HoldsRight

\* The inductive invariant of the acquisitions.
HoldInv == BaseInv /\ FreeInv /\ NoMissedWakeup /\ MutexInv /\ FilemapInv

\* The facts a step may use, from the invariants.
LEMMA AwakeNow ==
  ASSUME BaseInv, FreeInv, NoMissedWakeup, PlainAcquisition, Next
  PROVE  Awake
BY NextRuns, AsleepSplit DEF Awake

\* Every step keeps the invariant of acquisition.
LEMMA HoldNext ==
  ASSUME PlainAcquisition, HoldInv, [Next]_vars
  PROVE  HoldInv'
<1>1. CASE UNCHANGED vars
  <2>1. BaseInv' BY BaseNext DEF HoldInv
  <2>2. NoMissedWakeup' BY AsleepNext, PlainNoMutexInAll DEF HoldInv
  <2>3. FreeInv' BY <1>1 DEF vars, HoldInv, FreeInv
  <2>4. MutexInv' BY <1>1 DEF vars, HoldInv, MutexInv, HoldsRight, Pending
  <2>5. FilemapInv' BY <1>1 DEF vars, HoldInv, FilemapInv, OneHas, Has, Pending
  <2> QED BY <2>1, <2>2, <2>3, <2>4, <2>5 DEF HoldInv
<1>2. CASE Next
  <2>1. BaseInv' BY BaseNext DEF HoldInv
  <2>2. NoMissedWakeup' BY AsleepNext, PlainNoMutexInAll DEF HoldInv
  <2>3. FreeInv' BY <1>2, OwnersNext DEF OwnersOK, HoldInv
  <2>4. Awake BY <1>2, AwakeNow DEF HoldInv
  <2>5. MutexInv' BY <2>4, MutexNext DEF HoldInv
  <2>6. FilemapInv' BY <2>4, FilemapNext DEF HoldInv
  <2> QED BY <2>1, <2>2, <2>3, <2>5, <2>6 DEF HoldInv
<1> QED BY <1>1, <1>2

\* A mutex is owned by exactly the thread that was told so, as deeply as it was
\* told, and a file mapping is locked by one thread unless it is free.
THEOREM MutualExclusion ==
  ASSUME PlainAcquisition
  PROVE  Spec => []MutexAgrees
<1>1. Init => HoldInv
  <2>1. Init => NoMissedWakeup BY DEF Init, NoMissedWakeup
  <2> QED BY <2>1, BaseInit, FreeInit, AcquisitionInit DEF HoldInv
<1>2. HoldInv /\ [Next]_vars => HoldInv' BY HoldNext
<1>3. HoldInv => MutexAgrees BY AgreesFrom DEF HoldInv
<1> QED BY <1>1, <1>2, <1>3, PTL DEF Spec

-----------------------------------------------------------------------------
(* Semaphores.                                                             *)

\* A semaphore is in a request once at most: a thread that waited for it twice
\* could be given two tokens for one wait.
SemOnce ==
  \A r \in Requests : \A i, j \in DOMAIN r.objs :
    r.objs[i] = r.objs[j] /\ r.objs[i] \in Sems => i = j

\* The threads that will be told that they have s.
Given(s) == {t \in Threads : s \in Pending(t)}

\* Tokens there are of s: the count, and one for each thread that has not
\* been told yet that it took one; and s is signaled while the count is not 0.
TokensRight(s) ==
  /\ tokens[s] = count[s] + Cardinality(Given(s))
  /\ signaled[s] <=> count[s] > 0

\* That, for all semaphores.
SemInv == \A s \in Sems : TokensRight(s)

\* Sets of threads are finite.
LEMMA GivenFinite ==
  ASSUME NEW s
  PROVE  /\ IsFiniteSet(Given(s)) /\ Cardinality(Given(s)) \in Nat
         /\ \A T \in SUBSET Threads : IsFiniteSet(T) /\ Cardinality(T) \in Nat
<1>1. IsFiniteSet(Threads) BY ObjectsAssumption
<1>2. ASSUME NEW T \in SUBSET Threads PROVE IsFiniteSet(T) /\ Cardinality(T) \in Nat
  <2>1. IsFiniteSet(T) BY <1>1, FS_Subset
  <2> QED BY <2>1, FS_CardinalityType
<1>3. Given(s) \in SUBSET Threads BY DEF Given
<1> QED BY <1>2, <1>3

\* A semaphore that nobody touches stays right.
LEMMA UndisturbedSem ==
  ASSUME SemInv, NEW s \in Sems, Undisturbed(s)
  PROVE  TokensRight(s)'
<1>1. TokensRight(s) BY DEF SemInv
<1>2. Given(s)' = Given(s) BY DEF Given, Undisturbed
<1>3. signaled'[s] = signaled[s] /\ count'[s] = count[s] /\ tokens'[s] = tokens[s] BY DEF Undisturbed
<1> QED BY <1>1, <1>2, <1>3 DEF TokensRight

\* It is enough to look at the semaphore that changes.
LEMMA OthersSems ==
  ASSUME SemInv, NEW o, OthersKept(o), o \in Sems => TokensRight(o)'
  PROVE  SemInv'
<1> SUFFICES ASSUME NEW s \in Sems PROVE TokensRight(s)' BY DEF SemInv
<1>1. CASE s = o BY <1>1
<1>2. CASE s # o
  <2>1. Undisturbed(s) BY <1>2 DEF OthersKept, Acquirable
  <2> QED BY <2>1, UndisturbedSem
<1> QED BY <1>1, <1>2

\* A token taken without sleeping.
LEMMA SemTaken ==
  ASSUME Awake, SemInv, NEW t \in Threads, NEW s \in Sems, TakesNow(t, s)
  PROVE  TokensRight(s)'
<1>0. OType BY DEF Awake, BaseInv
<1>1. s \in Acquirable /\ s \in Objs /\ s \notin Mutexes /\ s \notin AutoEvents \cup Filemaps
  BY KindsFacts DEF Acquirable, Objs, Lockables
<1>2. signaled[s] /\ enter_object(t, {s}) /\ tokens'[s] = tokens[s] - 1 BY <1>1 DEF TakesNow
<1>3. TokensRight(s) BY DEF SemInv
<1>4. CountMod \in Nat /\ count[s] \in 0 .. CountMod - 1 /\ count[s] > 0
  BY <1>0, <1>2, <1>3, KindsFacts DEF OType, CountMod, TokensRight
<1>5. (count[s] - 1) % CountMod = count[s] - 1
  <2>1. count[s] - 1 \in 0 .. CountMod - 1 BY <1>4
  <2> QED BY <1>4, <2>1
<1>6. count'[s] = count[s] - 1 BY <1>2, <1>5 DEF enter_object
<1>7. signaled'[s] <=> count[s] # 1 BY <1>1, <1>2 DEF enter_object, Entered
<1>8. Given(s)' = Given(s) BY <1>1 DEF Given, TakesNow
<1>9. Cardinality(Given(s)) \in Nat BY GivenFinite
<1>10. tokens'[s] = count'[s] + Cardinality(Given(s)') BY <1>2, <1>3, <1>4, <1>6, <1>8, <1>9 DEF TokensRight
<1>11. signaled'[s] <=> count'[s] > 0 BY <1>4, <1>6, <1>7
<1> QED BY <1>10, <1>11 DEF TokensRight

\* A token that the thread is told of.
LEMMA SemDelivered ==
  ASSUME Awake, SemInv, NEW t \in Threads, Delivers(t)
  PROVE  SemInv'
<1> SUFFICES ASSUME NEW s \in Sems PROVE TokensRight(s)' BY DEF SemInv
<1>0. OType BY DEF Awake, BaseInv
<1>1. s \in Acquirable BY DEF Acquirable
<1>2. TokensRight(s) BY DEF SemInv
<1>3. signaled'[s] = signaled[s] /\ count'[s] = count[s] BY DEF Delivers
<1>4. Given(s)' = Given(s) \ {t} BY <1>1 DEF Given, Delivers
<1>5. tokens'[s] = IF s \in Pending(t) THEN tokens[s] - 1 ELSE tokens[s] BY DEF Delivers
<1>6. t \in Given(s) <=> s \in Pending(t) BY DEF Given
<1>7. /\ IsFiniteSet(Given(s)) /\ Cardinality(Given(s)) \in Nat
      /\ Cardinality(Given(s) \ {t}) = IF t \in Given(s) THEN Cardinality(Given(s)) - 1
                                       ELSE Cardinality(Given(s))
  BY GivenFinite, FS_RemoveElement
<1>8. count[s] \in Int BY <1>0 DEF OType
<1>9. tokens'[s] = count'[s] + Cardinality(Given(s)')
  <2>1. CASE s \in Pending(t) BY <1>2, <1>3, <1>4, <1>5, <1>6, <1>7, <1>8, <2>1 DEF TokensRight
  <2>2. CASE s \notin Pending(t) BY <1>2, <1>3, <1>4, <1>5, <1>6, <1>7, <1>8, <2>2 DEF TokensRight
  <2> QED BY <2>1, <2>2
<1> QED BY <1>2, <1>3, <1>9 DEF TokensRight

\* A thread stands in the wait list of a semaphore once at most.
LEMMA SemListInjective ==
  ASSUME WaitInv, SemOnce, NEW s \in Sems, NEW i \in DOMAIN waitlist[s], NEW j \in DOMAIN waitlist[s],
         waitlist[s][i] = waitlist[s][j]
  PROVE  i = j
<1> DEFINE t == waitlist[s][i]
           P == Positions(waitlist[s], t)
           Q == Positions(wait[t].objs, s)
<1>1. s \in Objs BY DEF Objs
<1>2. waitlist[s] \in Seq(Threads) /\ t \in Range(waitlist[s]) BY <1>1 DEF WaitInv, WType, Range
<1>3. t \in Threads /\ blocks[t] /\ wait[t] \in Requests BY <1>1, <1>2, ListedWaits
<1>4. Cardinality(P) = Cardinality(Q) BY <1>1, <1>3 DEF WaitInv, Linked, CountIs
<1>5. i \in P /\ j \in P BY DEF Positions
<1>6. \A k, l \in Q : k = l BY <1>3 DEF Positions, SemOnce
<1>7. wait[t].objs \in Seq(Objs) BY <1>3, RequestFacts
<1> HIDE DEF t
<1>8. IsFiniteSet(P) /\ IsFiniteSet(Q) BY <1>2, <1>7, SeqDomain
<1> HIDE DEF P, Q
<1>9. P # {} BY <1>5
<1>10. Cardinality(P) # 0 BY <1>8, <1>9, FS_EmptySet
<1>11. Q # {} BY <1>4, <1>8, <1>10, FS_EmptySet
<1>12. \E k : Q = {k} BY <1>6, <1>11
<1>13. Cardinality(Q) = 1 BY <1>12, FS_Singleton
<1>14. \E k : P = {k} BY <1>4, <1>8, <1>13, FS_Singleton
<1> QED BY <1>5, <1>14

\* As many threads are given s as positions are released.
LEMMA GivenGrows ==
  ASSUME Awake, SemOnce, NEW s \in Sems, NEW I, Signal(s, I), IsFiniteSet(I)
  PROVE  Cardinality(Given(s)') = Cardinality(Given(s)) + Cardinality(I)
<1>0. WaitInv BY DEF Awake, BaseInv
<1>1. s \in Acquirable /\ s \in Objs BY DEF Acquirable, Objs
<1>2. I \in SUBSET DOMAIN waitlist[s] BY DEF Signal, ReadyAt
<1> DEFINE T == ThreadsAt(s, I)
           f == [i \in I |-> waitlist[s][i]]
<1>3. T \subseteq Threads BY <1>0, <1>1, <1>2, ThreadsAtLinked DEF LinkedSet
<1>4. f \in Bijection(I, T)
  <2>1. f \in [I -> T] BY DEF ThreadsAt
  <2>2. \A i, j \in I : f[i] = f[j] => i = j BY <1>0, <1>2, SemListInjective
  <2>3. \A x \in T : \E i \in I : f[i] = x BY DEF ThreadsAt
  <2> HIDE DEF f, T
  <2> QED BY <2>1, <2>2, <2>3 DEF Bijection, Injection, Surjection, IsInjective
<1>5. Cardinality(T) = Cardinality(I)
  <2> HIDE DEF f, T
  <2>1. ExistsBijection(I, T) BY <1>4 DEF ExistsBijection
  <2> QED BY <2>1, FS_Bijection
<1>6. Given(s)' = Given(s) \cup T BY <1>1, <1>3, SignalPending DEF Given
<1>7. Given(s) \cap T = {} BY <1>1, <1>3, SignalPending DEF Given
<1> HIDE DEF T
<1>8. IsFiniteSet(Given(s)) /\ IsFiniteSet(T) /\ Cardinality(Given(s)) \in Nat /\ Cardinality(T) \in Nat
  BY <1>3, GivenFinite
<1>9. Cardinality(Given(s) \cup T) = Cardinality(Given(s)) + Cardinality(T) - Cardinality({})
  BY <1>7, <1>8, FS_Union
<1>10. Cardinality(Given(s) \cup T) = Cardinality(Given(s)) + Cardinality(T) BY <1>8, <1>9, FS_EmptySet
<1> QED BY <1>5, <1>6, <1>10

\* Tokens handed out to waiters: each of them gets one.
LEMMA HandOutTokens ==
  ASSUME Awake, SemOnce, NEW s \in Sems, NEW n \in 1 .. MaxCount, HandOut(s, n), UNCHANGED timer,
         TokensRight(s), tokens'[s] = tokens[s] - count[s] + n
  PROVE  TokensRight(s)'
<1>0. WaitInv /\ OType BY DEF Awake, BaseInv
<1>1. s \in Objs /\ n \in Nat /\ n # 0 BY KindsFacts DEF Objs
<1> DEFINE I == FirstReady(s, Raised(s), n)
           c == Cardinality(I)
           g == Cardinality(Given(s))
<1>2. Signal(s, I) BY <1>0, <1>1, HandOutSignals
<1>3. IsFiniteSet(I) /\ c \in Nat /\ c <= n BY <1>0, <1>1, ReadyFacts
<1>4. count'[s] = n - c /\ (signaled'[s] <=> n > c) BY <1>0, <1>1 DEF HandOut, Raised, OType
<1> HIDE DEF I
<1>5. Cardinality(Given(s)') = g + c BY <1>2, <1>3, GivenGrows
<1>6. g \in Nat BY GivenFinite
<1>7. tokens[s] = count[s] + g /\ count[s] \in Int BY <1>0 DEF TokensRight, OType
<1> HIDE DEF c, g
<1>8. tokens'[s] = count'[s] + Cardinality(Given(s)') BY <1>1, <1>3, <1>4, <1>5, <1>6, <1>7
<1>9. signaled'[s] <=> count'[s] > 0 BY <1>1, <1>3, <1>4
<1> QED BY <1>8, <1>9 DEF TokensRight

\* Every step conserves tokens.
LEMMA SemNext ==
  ASSUME Awake, SemOnce, 0 \notin SetCounts, SemInv, [Next]_vars
  PROVE  SemInv'
<1>0. OType BY DEF Awake, BaseInv
<1>1. CASE Quiet BY <1>1, UndisturbedSem DEF Quiet, SemInv, Acquirable
<1>2. ASSUME NEW t \in Threads, NEW o \in Objs, TakesNow(t, o) PROVE SemInv'
  <2>1. OthersKept(o) BY <1>2 DEF TakesNow
  <2> QED BY <1>2, <2>1, SemTaken, OthersSems
<1>3. ASSUME NEW t \in Threads, Delivers(t) PROVE SemInv' BY <1>3, SemDelivered
<1>4. ASSUME NEW s \in Sems, OthersKept(s), Handed(s) PROVE SemInv'
  <2>1. TokensRight(s) /\ count[s] \in Nat /\ MaxCount \in Nat BY <1>0, KindsFacts DEF SemInv, OType
  <2>2. ASSUME NEW t \in Threads, release_sem(t, s) PROVE TokensRight(s)'
    <3>1. HandOut(s, count[s] + 1) /\ UNCHANGED timer /\ count[s] < MaxCount BY <2>2 DEF release_sem
    <3>2. count[s] + 1 \in 1 .. MaxCount BY <2>1, <3>1
    <3>3. tokens[s] \in Int /\ tokens'[s] = tokens[s] + 1 BY <1>0, <2>2 DEF release_sem, OType
    <3>4. tokens'[s] = tokens[s] - count[s] + (count[s] + 1) BY <2>1, <3>3
    <3> QED BY <2>1, <3>1, <3>2, <3>4, HandOutTokens
  <2>3. ASSUME NEW t \in Threads, NEW n \in SetCounts, set_sem(t, s, n) PROVE TokensRight(s)'
    <3>1. HandOut(s, n) /\ UNCHANGED timer BY <2>3 DEF set_sem
    <3>2. n \in 1 .. MaxCount
      <4>1. n \in 0 .. MaxCount /\ n # 0 BY ObjectsAssumption
      <4> QED BY <4>1
    <3>3. tokens'[s] = tokens[s] - count[s] + n BY <1>0, <2>3 DEF set_sem, OType
    <3> QED BY <2>1, <3>1, <3>2, <3>3, HandOutTokens
  <2>4. TokensRight(s)' BY <1>4, <2>2, <2>3 DEF Handed
  <2> QED BY <1>4, <2>4, OthersSems
<1>5. ASSUME NEW t \in Threads, NEW m \in Mutexes, MutexReleased(t, m) PROVE SemInv'
  <2>1. m \notin Sems /\ OthersKept(m) BY <1>5, KindsFacts DEF MutexReleased
  <2> QED BY <2>1, OthersSems
<1>6. ASSUME NEW t \in Threads, NEW f \in Filemaps, FilemapReleased(t, f) PROVE SemInv'
  <2>1. f \notin Sems /\ OthersKept(f) BY <1>6, KindsFacts DEF FilemapReleased
  <2> QED BY <2>1, OthersSems
<1> QED BY <1>1, <1>2, <1>3, <1>4, <1>5, <1>6, AcquisitionSteps

\* Tokens are right at the start.
LEMMA SemInit == Init => SemInv
<1> SUFFICES ASSUME Init, NEW s \in Sems PROVE TokensRight(s) BY DEF SemInv
<1>1. s \in Objs /\ s \notin Mutexes \cup Filemaps BY KindsFacts DEF Objs, Lockables
<1>2. count[s] = 0 /\ tokens[s] = 0 /\ ~signaled[s] BY <1>1 DEF Init
<1>3. Given(s) = {} BY DEF Given, Pending, Init
<1> QED BY <1>2, <1>3, FS_EmptySet DEF TokensRight

\* Tokens of a semaphore are neither lost nor handed out twice, and the
\* semaphore is signaled exactly when its count is positive.
THEOREM TokensConserved ==
  ASSUME PlainAcquisition, SemOnce, 0 \notin SetCounts
  PROVE  Spec => []SemConserved
<1> DEFINE IInv == BaseInv /\ FreeInv /\ NoMissedWakeup /\ SemInv
<1>1. Init => IInv
  <2>1. Init => NoMissedWakeup BY DEF Init, NoMissedWakeup
  <2> QED BY <2>1, BaseInit, FreeInit, SemInit
<1>2. IInv /\ [Next]_vars => IInv'
  <2> SUFFICES ASSUME IInv, [Next]_vars PROVE IInv' OBVIOUS
  <2>1. BaseInv' BY BaseNext
  <2>2. NoMissedWakeup' BY AsleepNext, PlainNoMutexInAll
  <2>3. CASE UNCHANGED vars
    <3>1. FreeInv' BY <2>3 DEF vars, FreeInv
    <3>2. SemInv' BY <2>3 DEF vars, SemInv, TokensRight, Given, Pending
    <3> QED BY <2>1, <2>2, <3>1, <3>2
  <2>4. CASE Next
    <3>1. FreeInv' BY <2>4, OwnersNext DEF OwnersOK
    <3>2. Awake BY <2>4, AwakeNow
    <3>3. SemInv' BY <3>2, SemNext
    <3> QED BY <2>1, <2>2, <3>1, <3>3
  <2> QED BY <2>3, <2>4
<1>3. IInv => SemConserved BY DEF SemInv, TokensRight, Given, SemConserved
<1> QED BY <1>1, <1>2, <1>3, PTL DEF Spec

=============================================================================
