---------------------------- MODULE HandleProofs ----------------------------
(***************************************************************************)
(* Theorems about HandleTable, for any table size, objects and callers.    *)
(* The free list is followed by a chain that enumerates the free entries;  *)
(* the counts are the cardinalities of the sets they count.                *)
(***************************************************************************)
EXTENDS HandleTable, FiniteSetTheorems, NaturalsInduction, WellFoundedInduction, TLAPS

\* One thread uses files: close_object of a file waits, and nothing keeps a
\* second caller from the object or from the handle meanwhile.
OneFileUser == \A c, d \in FileUsers : c = d

\* A count is an unsigned short.  Locks are held by threads, which are fewer;
\* the table has room for more handles than a count can count, so that the
\* exactness of the counts is conditional.
FewHandles == MaxHandles < CountMod
FewCalls == IsFiniteSet(Calls) /\ Cardinality(Calls) < CountMod

\* No close of a file fails.
ClosesSucceed == CloseResults = {"ok"}

LEMMA ConstantFacts ==
  /\ FileObjs \subseteq Objects /\ ThreadObjs \subseteq Objects
  /\ FileObjs \cap ThreadObjs = {} /\ FileUsers \subseteq Calls
  /\ PerPage \in Nat /\ PerPage > 0 /\ MaxPages \in Nat /\ MaxPages > 0
  /\ MaxHandles = PerPage * MaxPages /\ MaxHandles \in Nat
  /\ CloseResults \subseteq {"ok", "error"}
  /\ NULL \notin Objects
  /\ HEND = -1 /\ CountMod = 65536
  BY HandleAssumption DEF HandleAssumption, MaxHandles, HEND, CountMod

-----------------------------------------------------------------------------
(* Arithmetic of pages, and induction over sets of numbers.                *)

LEMMA Division ==
  ASSUME NEW a \in Int
  PROVE  /\ a % PerPage \in 0 .. (PerPage - 1) /\ a \div PerPage \in Int
         /\ a = (PerPage * (a \div PerPage)) + (a % PerPage)
  BY ConstantFacts

LEMMA DivisionUnique ==
  ASSUME NEW q \in Int, NEW r \in 0 .. (PerPage - 1)
  PROVE  ((PerPage * q) + r) % PerPage = r
<1>. DEFINE a == (PerPage * q) + r
            d == a \div PerPage
<1>1. a \in Int /\ PerPage \in Nat /\ PerPage > 0
  BY ConstantFacts
<1>2. a = (PerPage * d) + (a % PerPage) /\ a % PerPage \in 0 .. (PerPage - 1) /\ d \in Int
  BY Division, <1>1
<1>. HIDE DEF d
<1>3. CASE d = q
  BY <1>1, <1>2, <1>3
<1>4. CASE d >= q + 1
  <2>1. PerPage * d >= PerPage * (q + 1)
    BY <1>1, <1>2, <1>4
  <2>. QED BY <2>1, <1>1, <1>2
<1>5. CASE d <= q - 1
  <2>1. PerPage * d <= PerPage * (q - 1)
    BY <1>1, <1>2, <1>5
  <2>. QED BY <2>1, <1>1, <1>2
<1>. QED BY <1>2, <1>3, <1>4, <1>5

\* A set that holds m and with every number the next one holds all from m on.
LEMMA Upwards ==
  ASSUME NEW m \in Nat, NEW S, m \in S, \A n \in Nat : n >= m /\ n \in S => n + 1 \in S
  PROVE  \A n \in Nat : n >= m => n \in S
<1>. DEFINE T == {n \in Nat : n >= m /\ n \notin S}
<1>. SUFFICES ASSUME T # {} PROVE FALSE
  OBVIOUS
<1>1. PICK x \in T : \A y \in T : <<y, x>> \notin OpToRel(<, Nat)
  BY NatLessThanWellFounded, WFMin
<1>2. \A y \in T : ~(y < x)
  BY <1>1 DEF OpToRel
<1>3. x # m /\ x - 1 \in Nat /\ x - 1 >= m /\ (x - 1) + 1 = x
  OBVIOUS
<1>4. x - 1 \in S
  BY <1>2, <1>3
<1>. QED BY <1>3, <1>4

-----------------------------------------------------------------------------
(* The free list: e enumerates the k free entries in the order of the      *)
(* links and ends with HEND.                                               *)

IsChain(tab, size, free, k, e) ==
  /\ e[0] = free /\ e[k] = HEND
  /\ \A i \in 0 .. (k - 1) :
       /\ e[i] \in Handles /\ e[i] < size
       /\ tab[e[i]].obj = NULL /\ tab[e[i]].next = e[i + 1]
  /\ \A i, j \in 0 .. (k - 1) : e[i] = e[j] => i = j
  /\ \A h \in Handles : h < size /\ tab[h].obj = NULL => \E i \in 0 .. (k - 1) : e[i] = h

Chain(tab, size, free) ==
  \E k \in Nat : \E e \in [0 .. k -> Handles \cup {HEND}] : IsChain(tab, size, free, k, e)

\* Taking the first entry.
LEMMA ChainTake ==
  ASSUME NEW tab \in [Handles -> Entry], NEW size, NEW free, Chain(tab, size, free),
         free # HEND, NEW new, new[free].obj # NULL,
         \A g \in Handles \ {free} : new[g] = tab[g]
  PROVE  /\ free \in Handles /\ free < size /\ tab[free].obj = NULL
         /\ Chain(new, size, tab[free].next)
<1>0. PICK k \in Nat : \E e \in [0 .. k -> Handles \cup {HEND}] : IsChain(tab, size, free, k, e)
  BY DEF Chain
<1>1. PICK e \in [0 .. k -> Handles \cup {HEND}] : IsChain(tab, size, free, k, e)
  BY <1>0
<1>2. k # 0 /\ 0 \in 0 .. (k - 1) /\ k - 1 \in Nat
  BY <1>1 DEF IsChain
<1>3. free \in Handles /\ free < size /\ tab[free].obj = NULL /\ tab[free].next = e[1]
  BY <1>1, <1>2 DEF IsChain
<1>. DEFINE d == [i \in 0 .. (k - 1) |-> e[i + 1]]
<1>4. d \in [0 .. (k - 1) -> Handles \cup {HEND}]
  BY <1>2
<1>5. \A i \in 0 .. ((k - 1) - 1) : d[i] = e[i + 1] /\ d[i + 1] = e[(i + 1) + 1]
                                    /\ i + 1 \in 0 .. (k - 1) /\ e[i + 1] # free
  BY <1>1, <1>2 DEF IsChain
<1>6. IsChain(new, size, tab[free].next, k - 1, d)
  <2>1. d[0] = tab[free].next /\ d[k - 1] = HEND
    BY <1>1, <1>2, <1>3 DEF IsChain
  <2>2. ASSUME NEW i \in 0 .. ((k - 1) - 1)
        PROVE  /\ d[i] \in Handles /\ d[i] < size
               /\ new[d[i]].obj = NULL /\ new[d[i]].next = d[i + 1]
    BY <1>1, <1>5 DEF IsChain
  <2>3. \A i, j \in 0 .. ((k - 1) - 1) : d[i] = d[j] => i = j
    BY <1>1, <1>5 DEF IsChain
  <2>4. ASSUME NEW h \in Handles, h < size, new[h].obj = NULL
        PROVE  \E i \in 0 .. ((k - 1) - 1) : d[i] = h
    <3>1. h # free /\ tab[h].obj = NULL
      BY <1>3, <2>4
    <3>2. PICK i \in 0 .. (k - 1) : e[i] = h
      BY <1>1, <2>4, <3>1 DEF IsChain
    <3>3. i # 0 /\ i - 1 \in 0 .. ((k - 1) - 1) /\ (i - 1) + 1 = i
      BY <1>1, <3>1, <3>2 DEF IsChain
    <3>. QED BY <3>2, <3>3, <1>5
  <2>. QED BY <2>1, <2>2, <2>3, <2>4 DEF IsChain
<1>. QED BY <1>2, <1>3, <1>4, <1>6 DEF Chain

\* Taking the second entry.
LEMMA ChainTakeSecond ==
  ASSUME NEW tab \in [Handles -> Entry], NEW size, NEW free, Chain(tab, size, free),
         free # HEND, NEW h2 \in Handles, tab[free].next = h2,
         NEW new, new[h2].obj # NULL,
         free # h2 => new[free].obj = tab[free].obj /\ new[free].next = tab[h2].next,
         \A g \in Handles \ {free, h2} : new[g] = tab[g]
  PROVE  /\ free \in Handles /\ free < size /\ free # h2 /\ h2 < size
         /\ tab[free].obj = NULL /\ tab[h2].obj = NULL
         /\ Chain(new, size, free)
<1>0. PICK k \in Nat : \E e \in [0 .. k -> Handles \cup {HEND}] : IsChain(tab, size, free, k, e)
  BY DEF Chain
<1>1. PICK e \in [0 .. k -> Handles \cup {HEND}] : IsChain(tab, size, free, k, e)
  BY <1>0
<1>2. k # 0 /\ 0 \in 0 .. (k - 1)
  BY <1>1 DEF IsChain
<1>3. free \in Handles /\ free < size /\ tab[free].obj = NULL /\ tab[free].next = e[1]
      /\ e[0] = free
  BY <1>1, <1>2 DEF IsChain
<1>4. h2 # HEND
  BY DEF Handles, HEND
<1>5. k # 1 /\ 1 \in 0 .. (k - 1) /\ k - 1 \in Nat /\ e[1] = h2
  BY <1>1, <1>2, <1>3, <1>4 DEF IsChain
<1>6. h2 < size /\ tab[h2].obj = NULL /\ tab[h2].next = e[2] /\ free # h2
  BY <1>1, <1>2, <1>3, <1>5 DEF IsChain
<1>. DEFINE d == [i \in 0 .. (k - 1) |-> IF i = 0 THEN free ELSE e[i + 1]]
<1>7. d \in [0 .. (k - 1) -> Handles \cup {HEND}] /\ d[0] = free
  BY <1>3, <1>5
<1>8. \A i \in 1 .. ((k - 1) - 1) : d[i] = e[i + 1] /\ d[i + 1] = e[(i + 1) + 1]
                         /\ i + 1 \in 0 .. (k - 1) /\ e[i + 1] # free /\ e[i + 1] # h2
  BY <1>1, <1>2, <1>5 DEF IsChain
<1>9. new[free].obj = NULL /\ new[free].next = e[2] /\ new[h2].obj # NULL
      /\ \A h \in Handles \ {free, h2} : new[h] = tab[h]
  BY <1>3, <1>6
<1>10. d[k - 1] = HEND /\ d[1] = e[2]
  BY <1>1, <1>5 DEF IsChain
<1>11. IsChain(new, size, free, k - 1, d)
  <2>. HIDE DEF d
  <2>2. ASSUME NEW i \in 0 .. ((k - 1) - 1)
        PROVE  /\ d[i] \in Handles /\ d[i] < size
               /\ new[d[i]].obj = NULL /\ new[d[i]].next = d[i + 1]
    <3>1. CASE i = 0
      BY <3>1, <1>3, <1>7, <1>9, <1>10
    <3>2. CASE i # 0
      <4>1. i \in 1 .. ((k - 1) - 1)
        BY <3>2
      <4>. QED BY <4>1, <1>1, <1>8, <1>9 DEF IsChain
    <3>. QED BY <3>1, <3>2
  <2>3. ASSUME NEW i \in 0 .. ((k - 1) - 1), NEW j \in 0 .. ((k - 1) - 1), d[i] = d[j]
        PROVE  i = j
    <3>1. i # 0 => i \in 1 .. ((k - 1) - 1)
      OBVIOUS
    <3>2. j # 0 => j \in 1 .. ((k - 1) - 1)
      OBVIOUS
    <3>3. CASE i = 0 \/ j = 0
      BY <3>1, <3>2, <3>3, <2>3, <1>7, <1>8
    <3>4. CASE i # 0 /\ j # 0
      <4>1. e[i + 1] = e[j + 1] /\ i + 1 \in 0 .. (k - 1) /\ j + 1 \in 0 .. (k - 1)
        BY <3>1, <3>2, <3>4, <2>3, <1>8
      <4>. QED BY <4>1, <1>1 DEF IsChain
    <3>. QED BY <3>3, <3>4
  <2>4. ASSUME NEW h \in Handles, h < size, new[h].obj = NULL
        PROVE  \E i \in 0 .. ((k - 1) - 1) : d[i] = h
    <3>1. CASE h = free
      BY <3>1, <1>5, <1>7
    <3>2. CASE h # free
      <4>1. h # h2 /\ tab[h].obj = NULL
        BY <3>2, <1>9, <2>4
      <4>2. PICK i \in 0 .. (k - 1) : e[i] = h
        BY <1>1, <2>4, <4>1 DEF IsChain
      <4>3. i # 0 /\ i # 1
        BY <1>3, <1>5, <3>2, <4>1, <4>2
      <4>4. i - 1 \in 1 .. ((k - 1) - 1) /\ (i - 1) + 1 = i
        BY <4>3
      <4>. QED BY <4>2, <4>4, <1>8
    <3>. QED BY <3>1, <3>2
  <2>. QED BY <1>7, <1>10, <2>2, <2>3, <2>4 DEF IsChain
<1>. QED BY <1>3, <1>5, <1>6, <1>7, <1>11 DEF Chain

\* Overwriting an entry in use.
LEMMA ChainReplace ==
  ASSUME NEW tab \in [Handles -> Entry], NEW size, NEW free, Chain(tab, size, free),
         NEW h \in Handles, tab[h].obj # NULL, NEW u \in Entry, u.obj # NULL
  PROVE  Chain([tab EXCEPT ![h] = u], size, free)
<1>0. PICK k \in Nat : \E e \in [0 .. k -> Handles \cup {HEND}] : IsChain(tab, size, free, k, e)
  BY DEF Chain
<1>1. PICK e \in [0 .. k -> Handles \cup {HEND}] : IsChain(tab, size, free, k, e)
  BY <1>0
<1>. DEFINE new == [tab EXCEPT ![h] = u]
<1>2. \A i \in 0 .. (k - 1) : e[i] # h
  BY <1>1 DEF IsChain
<1>3. new[h].obj # NULL /\ \A g \in Handles \ {h} : new[g] = tab[g]
  OBVIOUS
<1>. HIDE DEF new
<1>4. IsChain(new, size, free, k, e)
  BY <1>1, <1>2, <1>3 DEF IsChain
<1>. QED BY <1>4 DEF Chain, new

\* Putting an entry in use at the front.
LEMMA ChainPut ==
  ASSUME NEW tab \in [Handles -> Entry], NEW size, NEW free, Chain(tab, size, free),
         NEW h \in Handles, h < size, tab[h].obj # NULL
  PROVE  Chain([tab EXCEPT ![h] = FreeEntry(free)], size, h)
<1>0. PICK k \in Nat : \E e \in [0 .. k -> Handles \cup {HEND}] : IsChain(tab, size, free, k, e)
  BY DEF Chain
<1>1. PICK e \in [0 .. k -> Handles \cup {HEND}] : IsChain(tab, size, free, k, e)
  BY <1>0
<1>. DEFINE new == [tab EXCEPT ![h] = FreeEntry(free)]
            d == [i \in 0 .. (k + 1) |-> IF i = 0 THEN h ELSE e[i - 1]]
<1>2. \A i \in 0 .. (k - 1) : e[i] # h
  BY <1>1 DEF IsChain
<1>3. new[h].obj = NULL /\ new[h].next = free /\ \A g \in Handles \ {h} : new[g] = tab[g]
  BY DEF FreeEntry
<1>4. d \in [0 .. (k + 1) -> Handles \cup {HEND}] /\ d[0] = h
  OBVIOUS
<1>5. \A i \in 1 .. (k + 1) : d[i] = e[i - 1]
  OBVIOUS
<1>. HIDE DEF new, d
<1>6. IsChain(new, size, h, k + 1, d)
  <2>1. d[k + 1] = HEND
    BY <1>1, <1>5 DEF IsChain
  <2>2. ASSUME NEW i \in 0 .. ((k + 1) - 1)
        PROVE  /\ d[i] \in Handles /\ d[i] < size
               /\ new[d[i]].obj = NULL /\ new[d[i]].next = d[i + 1]
    <3>1. CASE i = 0
      BY <3>1, <1>1, <1>3, <1>4, <1>5 DEF IsChain
    <3>2. CASE i # 0
      <4>1. i - 1 \in 0 .. (k - 1) /\ i \in 1 .. (k + 1) /\ i + 1 \in 1 .. (k + 1)
        BY <3>2
      <4>2. d[i] = e[i - 1] /\ d[i + 1] = e[(i - 1) + 1]
        BY <4>1, <1>5
      <4>. QED BY <4>1, <4>2, <1>1, <1>2, <1>3 DEF IsChain
    <3>. QED BY <3>1, <3>2
  <2>3. ASSUME NEW i \in 0 .. ((k + 1) - 1), NEW j \in 0 .. ((k + 1) - 1), d[i] = d[j]
        PROVE  i = j
    <3>1. i # 0 => i - 1 \in 0 .. (k - 1) /\ d[i] = e[i - 1]
      BY <1>5
    <3>2. j # 0 => j - 1 \in 0 .. (k - 1) /\ d[j] = e[j - 1]
      BY <1>5
    <3>3. CASE i = 0 \/ j = 0
      BY <3>1, <3>2, <3>3, <2>3, <1>2, <1>4
    <3>4. CASE i # 0 /\ j # 0
      <4>1. i - 1 = j - 1
        BY <3>1, <3>2, <3>4, <2>3, <1>1 DEF IsChain
      <4>. QED BY <4>1
    <3>. QED BY <3>3, <3>4
  <2>4. ASSUME NEW g \in Handles, g < size, new[g].obj = NULL
        PROVE  \E i \in 0 .. ((k + 1) - 1) : d[i] = g
    <3>1. CASE g = h
      BY <3>1, <1>4
    <3>2. CASE g # h
      <4>1. PICK i \in 0 .. (k - 1) : e[i] = g
        BY <3>2, <1>1, <1>3, <2>4 DEF IsChain
      <4>2. i + 1 \in 0 .. ((k + 1) - 1) /\ i + 1 \in 1 .. (k + 1) /\ (i + 1) - 1 = i
        OBVIOUS
      <4>. QED BY <4>1, <4>2, <1>5
    <3>. QED BY <3>1, <3>2
  <2>. QED BY <1>4, <2>1, <2>2, <2>3, <2>4 DEF IsChain
<1>. QED BY <1>4, <1>6 DEF Chain, new

\* A new page, in ascending order before the old list.
LEMMA ChainPage ==
  ASSUME NEW tab \in [Handles -> Entry], NEW size \in Nat, NEW free, Chain(tab, size, free),
         size + PerPage <= MaxHandles, NEW new \in [Handles -> Entry],
         \A h \in Handles : h < size => new[h] = tab[h],
         \A h \in size .. (size + PerPage - 1) :
           new[h] = FreeEntry(IF h = size + PerPage - 1 THEN free ELSE h + 1)
  PROVE  Chain(new, size + PerPage, size)
<1>0. PICK k \in Nat : \E e \in [0 .. k -> Handles \cup {HEND}] : IsChain(tab, size, free, k, e)
  BY DEF Chain
<1>1. PICK e \in [0 .. k -> Handles \cup {HEND}] : IsChain(tab, size, free, k, e)
  BY <1>0
<1>. DEFINE P == PerPage
            d == [i \in 0 .. (k + P) |-> IF i < P THEN size + i ELSE e[i - P]]
<1>2. P \in Nat /\ P > 0 /\ Handles = 0 .. (MaxHandles - 1) /\ MaxHandles \in Nat
  BY ConstantFacts DEF Handles
<1>. HIDE DEF P
<1>3. \A i \in 0 .. (P - 1) : size + i \in Handles
  BY <1>2 DEF P
<1>4. d \in [0 .. (k + P) -> Handles \cup {HEND}]
  <2>. SUFFICES ASSUME NEW i \in 0 .. (k + P)
                PROVE  (IF i < P THEN size + i ELSE e[i - P]) \in Handles \cup {HEND}
    OBVIOUS
  <2>1. CASE i < P
    <3>1. i \in 0 .. (P - 1)
      BY <2>1, <1>2
    <3>. QED BY <3>1, <2>1, <1>3
  <2>2. CASE i >= P
    <3>1. i - P \in 0 .. k
      BY <2>2, <1>2
    <3>. QED BY <3>1, <2>2, <1>2
  <2>. QED BY <2>1, <2>2, <1>2
<1>5. /\ \A i \in 0 .. (P - 1) : d[i] = size + i
      /\ \A i \in P .. (k + P) : d[i] = e[i - P] /\ i - P \in 0 .. k
  BY <1>2
<1>. HIDE DEF d
<1>6. \A i \in 0 .. (P - 1) : /\ new[size + i].obj = NULL
                              /\ new[size + i].next = IF i = P - 1 THEN free ELSE (size + i) + 1
  <2>. SUFFICES ASSUME NEW i \in 0 .. (P - 1)
                PROVE  /\ new[size + i].obj = NULL
                       /\ new[size + i].next = IF i = P - 1 THEN free ELSE (size + i) + 1
    OBVIOUS
  <2>1. size + i \in size .. (size + P - 1) /\ (size + i = size + P - 1 <=> i = P - 1)
    BY <1>2
  <2>2. new[size + i] = FreeEntry(IF size + i = size + P - 1 THEN free ELSE (size + i) + 1)
    BY <2>1 DEF P
  <2>. QED BY <2>1, <2>2 DEF FreeEntry
<1>7. \A i \in 0 .. (k - 1) : e[i] \in Handles /\ e[i] < size /\ new[e[i]] = tab[e[i]]
  BY <1>1 DEF IsChain
<1>8. IsChain(new, size + P, size, k + P, d)
  <2>1. d[0] = size /\ d[k + P] = HEND
    BY <1>1, <1>2, <1>5 DEF IsChain
  <2>2. ASSUME NEW i \in 0 .. ((k + P) - 1)
        PROVE  /\ d[i] \in Handles /\ d[i] < size + P
               /\ new[d[i]].obj = NULL /\ new[d[i]].next = d[i + 1]
    <3>1. CASE i < P - 1
      <4>1. i \in 0 .. (P - 1) /\ i + 1 \in 0 .. (P - 1) /\ i # P - 1
        BY <3>1, <1>2
      <4>2. d[i] = size + i /\ d[i + 1] = (size + i) + 1 /\ d[i] < size + P
        BY <4>1, <1>2, <1>5
      <4>. QED BY <4>1, <4>2, <1>3, <1>6
    <3>2. CASE i = P - 1
      <4>1. i \in 0 .. (P - 1) /\ i + 1 \in P .. (k + P) /\ (i + 1) - P = 0
        BY <3>2, <1>2
      <4>2. d[i] = size + i /\ d[i + 1] = free
        BY <4>1, <1>1, <1>5 DEF IsChain
      <4>3. d[i] < size + P
        BY <4>2, <3>2, <1>2
      <4>. QED BY <4>1, <4>2, <4>3, <3>2, <1>3, <1>6
    <3>3. CASE i >= P
      <4>1. i - P \in 0 .. (k - 1) /\ (i - P) + 1 = (i + 1) - P
            /\ i \in P .. (k + P) /\ i + 1 \in P .. (k + P)
        BY <3>3, <1>2
      <4>2. d[i] = e[i - P] /\ d[i + 1] = e[(i - P) + 1]
        BY <4>1, <1>5
      <4>3. d[i] \in Handles /\ d[i] < size /\ new[d[i]] = tab[d[i]]
            /\ tab[d[i]].obj = NULL /\ tab[d[i]].next = d[i + 1]
        BY <4>1, <4>2, <1>1, <1>7 DEF IsChain
      <4>. QED BY <4>3, <1>2
    <3>. QED BY <3>1, <3>2, <3>3, <1>2
  <2>3. ASSUME NEW i \in 0 .. ((k + P) - 1), NEW j \in 0 .. ((k + P) - 1), d[i] = d[j]
        PROVE  i = j
    <3>1. \A x \in 0 .. ((k + P) - 1) :
             \/ x < P /\ x \in 0 .. (P - 1) /\ d[x] = size + x
             \/ /\ x >= P /\ x - P \in 0 .. (k - 1) /\ d[x] = e[x - P]
                /\ d[x] \in Int /\ d[x] < size
      <4>. SUFFICES ASSUME NEW x \in 0 .. ((k + P) - 1)
                    PROVE  \/ x < P /\ x \in 0 .. (P - 1) /\ d[x] = size + x
                           \/ /\ x >= P /\ x - P \in 0 .. (k - 1) /\ d[x] = e[x - P]
                              /\ d[x] \in Int /\ d[x] < size
        OBVIOUS
      <4>1. CASE x < P
        BY <4>1, <1>2, <1>5
      <4>2. CASE x >= P
        <5>1. x - P \in 0 .. (k - 1) /\ x \in P .. (k + P)
          BY <4>2, <1>2
        <5>. QED BY <5>1, <4>2, <1>2, <1>5, <1>7
      <4>. QED BY <4>1, <4>2, <1>2
    <3>2. CASE i < P /\ j < P
      BY <3>1, <3>2, <2>3, <1>2
    <3>3. CASE i >= P /\ j >= P
      <4>1. i - P = j - P
        BY <3>1, <3>3, <2>3, <1>1, <1>2 DEF IsChain
      <4>. QED BY <4>1, <1>2
    <3>4. CASE (i < P /\ j >= P) \/ (i >= P /\ j < P)
      BY <3>1, <3>4, <2>3, <1>2
    <3>. QED BY <3>2, <3>3, <3>4, <1>2
  <2>4. ASSUME NEW g \in Handles, g < size + P, new[g].obj = NULL
        PROVE  \E i \in 0 .. ((k + P) - 1) : d[i] = g
    <3>1. CASE g >= size
      <4>1. g - size \in 0 .. (P - 1) /\ g - size \in 0 .. ((k + P) - 1) /\ size + (g - size) = g
        BY <3>1, <2>4, <1>2
      <4>. QED BY <4>1, <1>5
    <3>2. CASE g < size
      <4>1. PICK i \in 0 .. (k - 1) : e[i] = g
        BY <3>2, <1>1, <2>4 DEF IsChain
      <4>2. i + P \in P .. (k + P) /\ i + P \in 0 .. ((k + P) - 1) /\ (i + P) - P = i
        BY <1>2
      <4>. QED BY <4>1, <4>2, <1>5
    <3>. QED BY <3>1, <3>2, <1>2
  <2>. QED BY <2>1, <2>2, <2>3, <2>4 DEF IsChain
<1>. QED BY <1>2, <1>4, <1>8 DEF Chain, P

-----------------------------------------------------------------------------
(* The table: it grows by pages, unmapped entries are unused, and the free *)
(* list enumerates the unused entries.                                     *)

TableInv ==
  /\ \E p \in 0 .. MaxPages : htabsize = PerPage * p
  /\ \A h \in Handles : h >= htabsize => htab[h].obj = NULL
  /\ Chain(htab, htabsize, hfreelist)

LEMMA HandlesFacts ==
  /\ HEND \notin Handles /\ Handles \subseteq Nat
  /\ \A h \in Nat : h \in Handles <=> h < MaxHandles
  BY ConstantFacts DEF Handles

\* expand_htab, any number of times, keeps the list and the used entries.
LEMMA Expanded ==
  ASSUME TypeOK, TableInv, NEW q \in 0 .. MaxPages, PerPage * q >= htabsize
  PROVE  LET n == PerPage * q IN
         /\ n \in Nat /\ n <= MaxHandles
         /\ ExpandedTab(n) \in [Handles -> Entry]
         /\ Chain(ExpandedTab(n), n, ExpandedFree(n))
         /\ \A h \in Handles : ExpandedTab(n)[h].obj = htab[h].obj
         /\ \A h \in Handles : htab[h].obj # NULL => ExpandedTab(n)[h] = htab[h] /\ h < htabsize
<1>. DEFINE P == PerPage
            Tab(m) == ExpandedTab(P * m)
            Free(m) == ExpandedFree(P * m)
            Grown(m) == Tab(m) \in [Handles -> Entry] /\ Chain(Tab(m), P * m, Free(m))
            S == {m \in Nat : m <= MaxPages => Grown(m)}
<1>1. P \in Nat /\ P > 0 /\ MaxPages \in Nat /\ MaxHandles = P * MaxPages /\ MaxHandles \in Nat
  BY ConstantFacts
<1>2. PICK p \in 0 .. MaxPages : htabsize = P * p
  BY DEF TableInv
<1>3. htab \in [Handles -> Entry] /\ htabsize \in Nat /\ hfreelist \in Handles \cup {HEND}
  BY <1>1 DEF TypeOK
<1>4. \A m \in 0 .. MaxPages : P * m \in Nat /\ P * m <= MaxHandles
  BY <1>1
<1>5. \A m \in Nat : m >= p => P * m >= htabsize
  BY <1>1, <1>2
<1>6. \A m \in Nat : P * (m + 1) = P * m + P
  BY <1>1
<1>7. p \in S
  <2>1. Tab(p) = htab
    BY <1>2, <1>3 DEF ExpandedTab
  <2>2. Free(p) = hfreelist
    BY <1>2, <1>3 DEF ExpandedFree
  <2>. QED BY <2>1, <2>2, <1>2, <1>3 DEF TableInv
<1>8. ASSUME NEW m \in Nat, m >= p, m \in S
      PROVE  m + 1 \in S
  <2>. SUFFICES ASSUME m + 1 <= MaxPages PROVE Grown(m + 1)
    OBVIOUS
  <2>. DEFINE n == P * m
  <2>1. n \in Nat /\ n >= htabsize /\ P * (m + 1) = n + P /\ n + P <= MaxHandles
    <3>1. m \in 0 .. MaxPages /\ m + 1 \in 0 .. MaxPages
      BY <1>1
    <3>2. P * m \in Nat /\ P * (m + 1) <= MaxHandles
      BY <3>1, <1>4
    <3>. QED BY <3>2, <1>5, <1>6, <1>8
  <2>2. Tab(m) \in [Handles -> Entry] /\ Chain(Tab(m), n, Free(m))
    BY <1>8, <1>1
  <2>3. n = htabsize \/ n >= htabsize + P
    <3>1. CASE m = p
      BY <3>1, <1>2
    <3>2. CASE m >= p + 1
      <4>1. P * m >= P * (p + 1)
        BY <3>2, <1>1
      <4>. QED BY <4>1, <1>2, <1>6
    <3>. QED BY <3>1, <3>2, <1>8
  <2>4. ASSUME NEW h \in Handles, h < n
        PROVE  Tab(m + 1)[h] = Tab(m)[h]
    <3>1. h \in htabsize .. (P * (m + 1) - 1) <=> h \in htabsize .. (P * m - 1)
      BY <2>1, <2>4, <1>1, <1>3, HandlesFacts
    <3>. QED BY <3>1 DEF ExpandedTab
  <2>5. ASSUME NEW h \in n .. (n + P - 1)
        PROVE  /\ h \in Handles
               /\ Tab(m + 1)[h] = FreeEntry(IF h = n + P - 1 THEN Free(m) ELSE h + 1)
    <3>1. h \in Nat /\ h < MaxHandles /\ h \in Handles /\ h \in htabsize .. (P * (m + 1) - 1)
      BY <2>1, <2>5, <1>1, <1>3, HandlesFacts
    <3>2. h % P = h - n
      <4>1. h - n \in 0 .. (P - 1) /\ h = (P * m) + (h - n)
        BY <2>1, <2>5, <1>1
      <4>. QED BY <4>1, DivisionUnique
    <3>3. h % P # P - 1 <=> h # n + P - 1
      BY <3>1, <3>2, <2>1, <1>1
    <3>4. Tab(m + 1)[h] = IF h % P # P - 1 THEN FreeEntry(h + 1)
                          ELSE IF h - P < htabsize THEN FreeEntry(hfreelist)
                          ELSE FreeEntry(h - 2 * P + 1)
      BY <3>1 DEF ExpandedTab
    <3>5. CASE h # n + P - 1
      <4>1. (IF h = n + P - 1 THEN Free(m) ELSE h + 1) = h + 1
        BY <3>5
      <4>. QED BY <4>1, <3>1, <3>3, <3>4, <3>5
    <3>6. CASE h = n + P - 1 /\ n = htabsize
      <4>1. h - P < htabsize /\ ~(P * m > htabsize)
        BY <3>6, <1>1, <1>3
      <4>. QED BY <4>1, <3>1, <3>3, <3>4, <3>6 DEF ExpandedFree
    <3>7. CASE h = n + P - 1 /\ n >= htabsize + P
      <4>1. ~(h - P < htabsize) /\ P * m > htabsize /\ h - 2 * P + 1 = P * m - P
        BY <3>7, <2>1, <1>1, <1>3
      <4>. QED BY <4>1, <3>1, <3>3, <3>4, <3>7 DEF ExpandedFree
    <3>. QED BY <3>5, <3>6, <3>7, <2>3
  <2>6. Free(m + 1) = n
    <3>1. P * (m + 1) > htabsize /\ P * (m + 1) - P = n
      BY <2>1, <1>1, <1>3
    <3>. QED BY <3>1 DEF ExpandedFree
  <2>7. Free(m) \in Handles \cup {HEND}
    <3>1. CASE n = htabsize
      BY <3>1, <1>3 DEF ExpandedFree
    <3>2. CASE n >= htabsize + P
      <4>1. n - P \in Nat /\ n - P < MaxHandles /\ Free(m) = n - P
        <5>1. n > htabsize /\ n - P \in Nat /\ n - P < MaxHandles
          BY <3>2, <2>1, <1>1, <1>3
        <5>. QED BY <5>1 DEF ExpandedFree
      <4>. QED BY <4>1, HandlesFacts
    <3>. QED BY <3>1, <3>2, <2>3
  <2>8. Tab(m + 1) \in [Handles -> Entry]
    <3>1. ASSUME NEW h \in Handles
          PROVE  Tab(m + 1)[h] \in Entry
      <4>1. CASE h < n
        BY <4>1, <2>2, <2>4
      <4>2. CASE h \in n .. (n + P - 1)
        <5>1. h # n + P - 1 => h + 1 \in Handles
          BY <4>2, <2>1, <1>1, HandlesFacts
        <5>2. (IF h = n + P - 1 THEN Free(m) ELSE h + 1) \in Handles \cup {HEND}
          BY <5>1, <2>7
        <5>3. \A x \in Handles \cup {HEND} : FreeEntry(x) \in Entry
          BY DEF FreeEntry, Entry
        <5>. QED BY <4>2, <5>2, <5>3, <2>5
      <4>3. CASE h >= n + P
        <5>1. h \notin htabsize .. (P * (m + 1) - 1)
          BY <4>3, <2>1, <1>1, <1>3, HandlesFacts
        <5>. QED BY <5>1, <1>3 DEF ExpandedTab
      <4>. QED BY <4>1, <4>2, <4>3, <2>1, <1>1, HandlesFacts
    <3>. QED BY <3>1 DEF ExpandedTab
  <2>9. Chain(Tab(m + 1), n + P, n)
    BY <2>1, <2>2, <2>4, <2>5, <2>8, ChainPage, SMT
  <2>. QED BY <2>1, <2>6, <2>8, <2>9
<1>. HIDE DEF S
<1>9. q >= p
  <2>1. q < p => P * p >= P * (q + 1)
    BY <1>1
  <2>. QED BY <2>1, <1>1, <1>2, <1>6
<1>10. q \in S
  BY <1>1, <1>7, <1>8, <1>9, Upwards
<1>11. Tab(q) \in [Handles -> Entry] /\ Chain(Tab(q), P * q, Free(q))
  BY <1>1, <1>10 DEF S
<1>12. ASSUME NEW h \in Handles
       PROVE  /\ Tab(q)[h].obj = htab[h].obj
              /\ htab[h].obj # NULL => Tab(q)[h] = htab[h] /\ h < htabsize
  <2>1. htab[h].obj # NULL => h < htabsize /\ h \notin htabsize .. (P * q - 1)
    BY <1>1, <1>3, HandlesFacts DEF TableInv
  <2>2. h \in htabsize .. (P * q - 1) => htab[h].obj = NULL
    BY <2>1
  <2>. QED BY <2>1, <2>2 DEF ExpandedTab, FreeEntry
<1>. QED BY <1>4, <1>11, <1>12

-----------------------------------------------------------------------------
(* Who uses what.  An object that a handle or a call leads to was created; *)
(* a thread's own handle is protected; only the file user closes files,    *)
(* and the handle it is about to reassign stays as it was.                 *)

HandleUse(h) == HUSED(h) => life[htab[h].obj] # "unborn"
ThreadUse(o) == hndl[o] # HEND =>
  o \in ThreadObjs /\ htab[hndl[o]].obj = o /\ htab[hndl[o]].prot
CallUse(c) ==
  /\ call[c].at = "call" => Uses(c, call[c].obj) /\ life[call[c].obj] # "unborn"
  /\ call[c].at = "hfree" =>
       c \in FileUsers /\ call[c].obj \in FileObjs /\ life[call[c].obj] # "unborn"
  /\ call[c].at = "hassign" =>
       /\ c \in FileUsers /\ call[c].obj \in FileObjs /\ life[call[c].new] # "unborn"
       /\ htab[call[c].h].obj = call[c].obj /\ ~htab[call[c].h].prot

UseInv ==
  /\ \A h \in Handles : HandleUse(h)
  /\ \A o \in Objects : ThreadUse(o)
  /\ \A c \in Calls : CallUse(c)

\* The handles that count: those hassign is about to overwrite do not.
Counted(o) == HandlesOf(o) \ Reassigned

\* A count is exact modulo its width; for files, when no close fails.
CountInv ==
  \A o \in Objects : (o \in FileObjs => ClosesSucceed) =>
    handle_count[o] = Cardinality(Counted(o)) % CountMod

\* The thread whose own handle is open has not been closed.
ThreadLive == \A o \in ThreadObjs : hndl[o] # HEND => life[o] = "live"

\* The calls that hold a lock on o.  A call that spins in remove_from_freelist
\* took one too, and nothing runs after it.
Lockers(o) == {c \in Calls : \/ call[c].at = "call" /\ call[c].obj = o
                             \/ call[c].at = "hassign" /\ call[c].new = o}
Spins == \E c \in Calls : call[c] = Hung
LockInv == Spins \/ \A o \in Objects : lock_count[o] = Cardinality(Lockers(o))

\* The calls that still refer to o.
Users(o) == {c \in Calls : o \in {call[c].obj, call[c].new}}

\* What a call closes has no other handle.  An object is destroyed once, when
\* nothing leads to it, and not before its last handle and user are gone.
CallLife(c) ==
  /\ call[c].at = "hfree" => life[call[c].obj] = "closed" /\ HandlesOf(call[c].obj) = {}
  /\ call[c].at = "hassign" =>
       life[call[c].obj] = "closed" /\ HandlesOf(call[c].obj) = {call[c].h}
ObjLife(o) ==
  /\ destroys[o] = IF life[o] = "destroyed" THEN 1 ELSE 0
  /\ life[o] = "destroyed" => HandlesOf(o) = {} /\ Users(o) = {}
  /\ life[o] = "closed" /\ HandlesOf(o) = {} => Users(o) # {}
LifeInv ==
  /\ \A c \in Calls : CallLife(c)
  /\ \A o \in Objects : ObjLife(o)

Base == TypeOK /\ TableInv /\ UseInv

-----------------------------------------------------------------------------
(* What a step does to the table.                                          *)

TableType ==
  /\ htab \in [Handles -> Entry]
  /\ htabsize \in 0 .. MaxHandles
  /\ hfreelist \in Handles \cup {HEND}

\* Entry g leads where it led, and is protected if it was.
Kept(g) == htab'[g].obj = htab[g].obj /\ (HUSED(g) => htab'[g].prot = htab[g].prot)

\* Only entry h may change, and leads to o now.
Moved(h, o) ==
  /\ htab'[h].obj = o
  /\ \A g \in Handles \ {h} : Kept(g)

LEMMA SizeType == TypeOK => htabsize \in Nat /\ htabsize <= MaxHandles
<1>1. MaxHandles \in Nat
  BY ConstantFacts
<1>. QED BY <1>1 DEF TypeOK

LEMMA EntryFacts ==
  /\ \A x \in Handles \cup {HEND} : FreeEntry(x) \in Entry /\ FreeEntry(x).obj = NULL
  /\ \A o \in Objects, p \in BOOLEAN :
       LET u == [UsedEntry(o) EXCEPT !.prot = p] IN
       u \in Entry /\ u.obj = o /\ u.prot = p /\ u.obj # NULL
  /\ \A o \in Objects : /\ UsedEntry(o) \in Entry /\ UsedEntry(o).obj = o
                        /\ ~UsedEntry(o).prot /\ UsedEntry(o).obj # NULL
  BY ConstantFacts DEF FreeEntry, UsedEntry, Entry

\* The free list leads to an entry of the table or ends.
LEMMA ChainFirst ==
  ASSUME NEW tab, NEW size, NEW free, Chain(tab, size, free)
  PROVE  free \in Handles \cup {HEND}
<1>1. PICK k \in Nat : \E e \in [0 .. k -> Handles \cup {HEND}] : IsChain(tab, size, free, k, e)
  BY DEF Chain
<1>2. PICK e \in [0 .. k -> Handles \cup {HEND}] : IsChain(tab, size, free, k, e)
  BY <1>1
<1>. QED BY <1>2 DEF IsChain

\* The sizes the table grows to are whole pages.
LEMMA Sizes ==
  ASSUME TypeOK, TableInv
  PROVE  /\ CanAlloc => \E q \in 0 .. MaxPages : AllocSize = PerPage * q /\ AllocSize >= htabsize
         /\ \A h \in Handles : \E q \in 0 .. MaxPages :
              /\ PagesFor(h) = PerPage * q /\ h < PagesFor(h)
              /\ h >= htabsize => PagesFor(h) >= htabsize
<1>1. PerPage \in Nat /\ PerPage > 0 /\ MaxPages \in Nat /\ MaxHandles = PerPage * MaxPages
  BY ConstantFacts
<1>2. PICK p \in 0 .. MaxPages : htabsize = PerPage * p
  BY DEF TableInv
<1>3. ASSUME CanAlloc
      PROVE  \E q \in 0 .. MaxPages : AllocSize = PerPage * q /\ AllocSize >= htabsize
  <2>1. CASE hfreelist # HEND
    BY <2>1, <1>1, <1>2 DEF AllocSize, TypeOK
  <2>2. CASE hfreelist = HEND
    <3>1. htabsize < MaxHandles
      BY <2>2, <1>3 DEF CanAlloc
    <3>2. p # MaxPages
      BY <3>1, <1>1, <1>2
    <3>3. p + 1 \in 0 .. MaxPages /\ PerPage * (p + 1) = PerPage * p + PerPage
      BY <3>2, <1>1
    <3>4. htabsize \in Int /\ AllocSize = htabsize + PerPage
      BY <2>2, <1>1, <1>2 DEF AllocSize
    <3>. QED BY <3>3, <3>4, <1>1, <1>2
  <2>. QED BY <2>1, <2>2
<1>4. ASSUME NEW h \in Handles
      PROVE  \E q \in 0 .. MaxPages :
               /\ PagesFor(h) = PerPage * q /\ h < PagesFor(h)
               /\ h >= htabsize => PagesFor(h) >= htabsize
  <2>. DEFINE d == h \div PerPage
  <2>1. h \in Nat /\ h < MaxHandles
    BY HandlesFacts
  <2>2. d \in Int /\ h = (PerPage * d) + (h % PerPage) /\ h % PerPage \in 0 .. (PerPage - 1)
    BY <2>1, Division
  <2>. HIDE DEF d
  <2>3. PerPage * (d + 1) = PerPage * d + PerPage
    BY <2>2, <1>1
  <2>4. h < PerPage * (d + 1) /\ PerPage * d <= h
    BY <2>1, <2>2, <2>3, <1>1
  <2>5. d >= 0
    <3>1. d <= -1 => PerPage * (d + 1) <= PerPage * 0
      BY <2>2, <1>1
    <3>. QED BY <3>1, <2>1, <2>2, <2>4, <1>1
  <2>6. d < MaxPages
    <3>1. d >= MaxPages => PerPage * d >= PerPage * MaxPages
      BY <2>2, <1>1
    <3>. QED BY <3>1, <2>1, <2>2, <2>4, <1>1
  <2>7. PagesFor(h) = PerPage * (d + 1)
    BY <2>2, <1>1 DEF PagesFor, d
  <2>8. d + 1 \in 0 .. MaxPages
    BY <2>2, <2>5, <2>6, <1>1
  <2>. QED BY <2>1, <2>4, <2>7, <2>8, <2>3, <2>2, <1>1 DEF TypeOK
<1>. QED BY <1>3, <1>4

\* Mapping pages alone.
LEMMA GrowStep ==
  ASSUME TypeOK, TableInv, NEW q \in 0 .. MaxPages, NEW n, n = PerPage * q, n >= htabsize,
         htab' = ExpandedTab(n), hfreelist' = ExpandedFree(n), htabsize' = n
  PROVE  TableType' /\ TableInv' /\ \A g \in Handles : Kept(g)
<1>1. /\ n \in Nat /\ n <= MaxHandles
      /\ ExpandedTab(n) \in [Handles -> Entry]
      /\ Chain(ExpandedTab(n), n, ExpandedFree(n))
      /\ \A h \in Handles : ExpandedTab(n)[h].obj = htab[h].obj
      /\ \A h \in Handles : htab[h].obj # NULL => ExpandedTab(n)[h] = htab[h] /\ h < htabsize
  BY Expanded
<1>2. TableType'
  BY <1>1, ChainFirst DEF TableType
<1>3. TableInv'
  <2>1. \A h \in Handles : h >= htabsize' => htab'[h].obj = NULL
    BY <1>1, HandlesFacts DEF TypeOK
  <2>. QED BY <2>1, <1>1 DEF TableInv
<1>. QED BY <1>1, <1>2, <1>3 DEF Kept, HUSED

\* Mapping pages and then taking the first or the second free entry for o.
LEMMA TakeStep ==
  ASSUME TypeOK, TableInv, NEW q \in 0 .. MaxPages, NEW n, n = PerPage * q, n >= htabsize,
         NEW h \in Handles, NEW o \in Objects, htab' \in [Handles -> Entry], htab'[h].obj = o,
         \/ /\ h = ExpandedFree(n) /\ hfreelist' = ExpandedTab(n)[h].next
            /\ \A g \in Handles \ {h} : htab'[g] = ExpandedTab(n)[g]
         \/ LET free == ExpandedFree(n) IN
            /\ free # HEND /\ ExpandedTab(n)[free].next = h /\ hfreelist' = free
            /\ free # h => /\ htab'[free].obj = ExpandedTab(n)[free].obj
                           /\ htab'[free].next = ExpandedTab(n)[h].next
            /\ \A g \in Handles \ {free, h} : htab'[g] = ExpandedTab(n)[g],
         htabsize' = n
  PROVE  TableType' /\ TableInv' /\ htab[h].obj = NULL /\ h < n /\ Moved(h, o)
<1>. DEFINE tab == ExpandedTab(n)
            free == ExpandedFree(n)
<1>1. /\ n \in Nat /\ n <= MaxHandles
      /\ tab \in [Handles -> Entry]
      /\ Chain(tab, n, free)
      /\ \A g \in Handles : tab[g].obj = htab[g].obj
      /\ \A g \in Handles : htab[g].obj # NULL => tab[g] = htab[g] /\ g < htabsize
  BY Expanded
<1>2. h # HEND /\ htab'[h].obj # NULL
  BY HandlesFacts, ConstantFacts
<1>. HIDE DEF tab, free
<1>3. /\ h < n /\ tab[h].obj = NULL /\ Chain(htab', n, hfreelist')
      /\ \A g \in Handles \ {h} : htab'[g] = tab[g] \/ (tab[g].obj = NULL /\ htab'[g].obj = NULL)
  <2>1. CASE /\ h = free /\ hfreelist' = tab[h].next
             /\ \A g \in Handles \ {h} : htab'[g] = tab[g]
    BY <1>1, <1>2, <2>1, ChainTake
  <2>2. CASE /\ free # HEND /\ tab[free].next = h /\ hfreelist' = free
             /\ free # h => htab'[free].obj = tab[free].obj /\ htab'[free].next = tab[h].next
             /\ \A g \in Handles \ {free, h} : htab'[g] = tab[g]
    <3>1. /\ free # h /\ h < n /\ tab[free].obj = NULL /\ tab[h].obj = NULL
          /\ Chain(htab', n, free)
      BY <1>1, <1>2, <2>2, ChainTakeSecond
    <3>. QED BY <3>1, <2>2
  <2>. QED BY <2>1, <2>2 DEF tab, free
<1>4. hfreelist' \in Handles \cup {HEND}
  BY <1>3, ChainFirst
<1>5. \A g \in Handles : g >= n => htab'[g].obj = NULL
  BY <1>1, <1>3, HandlesFacts, SizeType
<1>. QED BY <1>1, <1>3, <1>4, <1>5 DEF TableType, TableInv, Moved, Kept, HUSED

\* halloc.
LEMMA AllocStep ==
  ASSUME TypeOK, TableInv, CanAlloc, NEW o \in Objects, NEW prot \in BOOLEAN, halloc(o, prot)
  PROVE  /\ TableType' /\ TableInv' /\ AllocHandle \in Handles
         /\ htab[AllocHandle].obj = NULL /\ htab'[AllocHandle].prot = prot
         /\ Moved(AllocHandle, o)
         /\ handle_count' = [handle_count EXCEPT ![o] = (@ + 1) % CountMod]
<1>1. PICK q \in 0 .. MaxPages : AllocSize = PerPage * q /\ AllocSize >= htabsize
  BY Sizes
<1>2. AllocHandle \in Handles
  <2>1. Chain(AllocTab, AllocSize, AllocHandle)
    BY <1>1, Expanded DEF AllocTab, AllocHandle
  <2>2. AllocHandle # HEND
    <3>1. CASE hfreelist # HEND
      BY <3>1, HandlesFacts DEF AllocHandle, ExpandedFree, AllocSize, TypeOK
    <3>2. CASE hfreelist = HEND
      <4>1. htabsize \in Nat /\ PerPage \in Nat /\ PerPage > 0 /\ HEND = -1
        BY ConstantFacts, SizeType
      <4>2. AllocSize = htabsize + PerPage
        BY <3>2 DEF AllocSize
      <4>3. AllocHandle = htabsize
        BY <4>1, <4>2 DEF AllocHandle, ExpandedFree
      <4>. QED BY <4>1, <4>3
    <3>. QED BY <3>1, <3>2
  <2>. QED BY <2>1, <2>2, ChainFirst
<1>. DEFINE u == [UsedEntry(o) EXCEPT !.prot = prot]
<1>3. u \in Entry /\ u.obj = o /\ u.prot = prot
  BY EntryFacts
<1>. HIDE DEF u
<1>4. htabsize' = AllocSize /\ htab' = [AllocTab EXCEPT ![AllocHandle] = u]
      /\ hfreelist' = AllocTab[AllocHandle].next
  BY DEF halloc, u
<1>5. AllocTab \in [Handles -> Entry]
  BY <1>1, Expanded DEF AllocTab
<1>6. /\ htab' \in [Handles -> Entry] /\ htab'[AllocHandle] = u
      /\ \A g \in Handles \ {AllocHandle} : htab'[g] = AllocTab[g]
  BY <1>2, <1>3, <1>4, <1>5
<1>7. TableType' /\ TableInv' /\ htab[AllocHandle].obj = NULL /\ Moved(AllocHandle, o)
  BY <1>1, <1>2, <1>3, <1>4, <1>6, TakeStep DEF AllocTab, AllocHandle
<1>. QED BY <1>2, <1>3, <1>6, <1>7 DEF halloc

\* hfree: h goes to the front of the list.
LEMMA FreeStep ==
  ASSUME TypeOK, TableInv, NEW h \in Handles, HUSED(h), htabsize' = htabsize,
         htab' = [htab EXCEPT ![h] = FreeEntry(hfreelist)], hfreelist' = h
  PROVE  TableType' /\ TableInv' /\ Moved(h, NULL)
<1>1. htab \in [Handles -> Entry] /\ FreeEntry(hfreelist) \in Entry /\ FreeEntry(hfreelist).obj = NULL
  BY EntryFacts DEF TypeOK
<1>2. h < htabsize /\ htabsize \in Nat
  <2>1. htabsize \in Nat /\ h \in Nat
    BY HandlesFacts, SizeType
  <2>2. ~(h >= htabsize)
    BY DEF HUSED, TableInv
  <2>. QED BY <2>1, <2>2
<1>3. Chain(htab', htabsize, h)
  BY <1>1, <1>2, ChainPut DEF HUSED, TableInv
<1>4. htab' \in [Handles -> Entry] /\ htab'[h].obj = NULL /\ \A g \in Handles \ {h} : htab'[g] = htab[g]
  BY <1>1
<1>. QED BY <1>2, <1>3, <1>4 DEF TypeOK, TableType, TableInv, Moved, Kept

\* hassign: h, in use, leads to o.
LEMMA ReplaceStep ==
  ASSUME TypeOK, TableInv, NEW h \in Handles, HUSED(h), NEW o \in Objects,
         htab' = [htab EXCEPT ![h] = UsedEntry(o)], htabsize' = htabsize, hfreelist' = hfreelist
  PROVE  TableType' /\ TableInv' /\ Moved(h, o) /\ ~htab'[h].prot
<1>1. /\ htab \in [Handles -> Entry] /\ UsedEntry(o) \in Entry /\ UsedEntry(o).obj = o
      /\ ~UsedEntry(o).prot /\ UsedEntry(o).obj # NULL
  BY EntryFacts DEF TypeOK
<1>2. Chain(htab', htabsize, hfreelist)
  BY <1>1, ChainReplace DEF HUSED, TableInv
<1>3. htab' \in [Handles -> Entry] /\ htab'[h] = UsedEntry(o) /\ \A g \in Handles \ {h} : htab'[g] = htab[g]
  BY <1>1
<1>. QED BY <1>1, <1>2, <1>3 DEF TypeOK, TableType, TableInv, Moved, Kept, HUSED

LEMMA SameTable ==
  ASSUME TypeOK, TableInv, UNCHANGED table
  PROVE  TableType' /\ TableInv' /\ \A g \in Handles : Kept(g)
  BY DEF TypeOK, TableType, TableInv, Kept, table

-----------------------------------------------------------------------------
(* What a call in the kernel remembers.                                    *)

LEMMA CallStates ==
  /\ User \in CallState /\ Hung \in CallState
  /\ \A o \in Objects : InCall(o) \in CallState /\ InFree(o) \in CallState
  /\ \A o, n \in Objects : \A h \in Handles : InAssign(o, n, h) \in CallState
  BY DEF CallState

LEMMA CallFields ==
  /\ User.at = "user" /\ User.obj = NULL /\ User.new = NULL
  /\ Hung.at = "hung" /\ Hung.obj = NULL /\ Hung.new = NULL
  /\ \A o : InCall(o).at = "call" /\ InCall(o).obj = o /\ InCall(o).new = NULL
  /\ \A o : InFree(o).at = "hfree" /\ InFree(o).obj = o /\ InFree(o).new = NULL
  /\ \A o, n, h : /\ InAssign(o, n, h).at = "hassign" /\ InAssign(o, n, h).obj = o
                  /\ InAssign(o, n, h).new = n /\ InAssign(o, n, h).h = h
  BY DEF User, Hung, InCall, InFree, InAssign

LEMMA CallShape ==
  ASSUME TypeOK, NEW c \in Calls
  PROVE  /\ call[c].at \in {"user", "hung", "call", "hfree", "hassign"}
         /\ call[c].at = "user" => call[c].obj = NULL /\ call[c].new = NULL
         /\ call[c].at = "hung" <=> call[c] = Hung
         /\ call[c].at = "hung" => call[c].obj = NULL /\ call[c].new = NULL
         /\ call[c].at = "call" => call[c].obj \in Objects /\ call[c].new = NULL
         /\ call[c].at = "hfree" => call[c].obj \in Objects /\ call[c].new = NULL
         /\ call[c].at = "hassign" =>
              call[c].obj \in Objects /\ call[c].new \in Objects /\ call[c].h \in Handles
<1>1. call[c] \in CallState
  BY DEF TypeOK
<1>2. CASE call[c] = User
  BY <1>2, CallFields DEF User, Hung
<1>3. CASE call[c] = Hung
  BY <1>3, CallFields
<1>4. CASE \E o \in Objects : call[c] = InCall(o)
  BY <1>4, CallFields DEF InCall, Hung
<1>5. CASE \E o \in Objects : call[c] = InFree(o)
  BY <1>5, CallFields DEF InFree, Hung
<1>6. CASE \E o \in Objects, n \in Objects, h \in Handles : call[c] = InAssign(o, n, h)
  BY <1>6, CallFields DEF InAssign, Hung
<1>. QED BY <1>1, <1>2, <1>3, <1>4, <1>5, <1>6 DEF CallState

\* Counts wrap within their type.
LEMMA CountType ==
  \A n \in 0 .. (CountMod - 1) :
    (n + 1) % CountMod \in 0 .. (CountMod - 1) /\ Dec(n) \in 0 .. (CountMod - 1)
<1>. DEFINE M == CountMod
<1>1. \A a \in Int : a % M \in Int /\ 0 <= a % M /\ a % M < M
  BY DEF CountMod
<1>2. M \in Int
  BY DEF CountMod
<1>. HIDE DEF M
<1>3. \A n \in 0 .. (M - 1) : (n + 1) % M \in 0 .. (M - 1) /\ (n - 1) % M \in 0 .. (M - 1)
  <2>. SUFFICES ASSUME NEW n \in 0 .. (M - 1)
                PROVE  (n + 1) % M \in 0 .. (M - 1) /\ (n - 1) % M \in 0 .. (M - 1)
    OBVIOUS
  <2>1. n + 1 \in Int /\ n - 1 \in Int
    BY <1>2
  <2>. DEFINE a == (n + 1) % M
              b == (n - 1) % M
  <2>2. a \in Int /\ 0 <= a /\ a < M /\ b \in Int /\ 0 <= b /\ b < M
    BY <1>1, <2>1
  <2>. HIDE DEF a, b
  <2>3. a \in 0 .. (M - 1) /\ b \in 0 .. (M - 1)
    BY <1>2, <2>2
  <2>. QED BY <2>3, Zenon DEF a, b
<1>. QED BY <1>3, Zenon DEF M, Dec

LEMMA TypeFromTable ==
  ASSUME TableType', handle_count' \in [Objects -> 0 .. (CountMod - 1)],
         lock_count' \in [Objects -> 0 .. (CountMod - 1)],
         life' \in [Objects -> {"unborn", "live", "closed", "destroyed"}],
         destroys' \in [Objects -> 0 .. 2],
         hndl' \in [Objects -> Handles \cup {HEND}],
         call' \in [Calls -> CallState]
  PROVE  TypeOK'
  BY DEF TypeOK, TableType

\* A caller in user mode may use what the file user is busy with only if it is the file user.
LEMMA NotReassigned ==
  ASSUME Base, OneFileUser, NEW c \in Calls, call[c].at # "hassign",
         NEW h \in Handles, HUSED(h), Uses(c, htab[h].obj)
  PROVE  h \notin Reassigned
<1>. SUFFICES ASSUME NEW d \in Calls, call[d].at = "hassign", call[d].h = h
              PROVE  FALSE
  BY DEF Reassigned
<1>1. d \in FileUsers /\ htab[h].obj \in FileObjs
  BY DEF Base, UseInv, CallUse, ThreadUse
<1>2. c \in FileUsers
  BY <1>1 DEF Uses
<1>. QED BY <1>1, <1>2 DEF OneFileUser

\* A thread's own handle and a handle about to be reassigned are in use.
LEMMA FreeIsNobodys ==
  ASSUME Base, NEW h \in Handles, htab[h].obj = NULL
  PROVE  h \notin Reassigned /\ \A o \in Objects : hndl[o] # h
<1>1. h \notin Reassigned
  <2>. SUFFICES ASSUME NEW d \in Calls, call[d].at = "hassign", call[d].h = h
                PROVE  FALSE
    BY DEF Reassigned
  <2>1. htab[h].obj \in Objects
    BY CallShape DEF Base, UseInv, CallUse, ThreadUse
  <2>. QED BY <2>1, ConstantFacts
<1>2. \A o \in Objects : hndl[o] # h
  BY ConstantFacts, HandlesFacts DEF Base, UseInv, CallUse, ThreadUse
<1>. QED BY <1>1, <1>2

-----------------------------------------------------------------------------
(* Each action keeps the types, the table and its users.                   *)

\* A step that moves only entries of H, makes no object unborn, and accounts
\* for every thread handle and call that changes or meets an entry of H.
LEMMA UseKept ==
  ASSUME Base, NEW H \in SUBSET Handles,
         \A g \in Handles \ H : Kept(g),
         \A h \in H : HandleUse(h)',
         \A x \in Objects : life[x] # "unborn" => life'[x] # "unborn",
         \A x \in Objects : ThreadUse(x)' \/ (hndl'[x] = hndl[x] /\ hndl[x] \notin H),
         \A d \in Calls : \/ CallUse(d)'
                          \/ call'[d] = call[d] /\ (call[d].at = "hassign" => call[d].h \notin H)
  PROVE  UseInv'
<1>1. ASSUME NEW h \in Handles PROVE HandleUse(h)'
  <2>1. CASE h \notin H
    <3>1. HUSED(h)' => htab'[h].obj = htab[h].obj /\ htab[h].obj \in Objects /\ HUSED(h)
      BY <2>1 DEF Kept, HUSED, Base, TypeOK, Entry
    <3>. QED BY <3>1 DEF HandleUse, Base, UseInv
  <2>. QED BY <2>1
<1>2. ASSUME NEW x \in Objects PROVE ThreadUse(x)'
  <2>1. CASE hndl'[x] = hndl[x] /\ hndl[x] \notin H /\ hndl[x] # HEND
    <3>1. hndl[x] \in Handles /\ Kept(hndl[x]) /\ htab[hndl[x]].obj = x /\ htab[hndl[x]].prot
          /\ x \in ThreadObjs
      BY <2>1 DEF Base, TypeOK, UseInv, ThreadUse
    <3>2. HUSED(hndl[x])
      BY <3>1, ConstantFacts DEF HUSED
    <3>. QED BY <2>1, <3>1, <3>2 DEF Kept, ThreadUse
  <2>2. CASE hndl'[x] = HEND
    BY <2>2 DEF ThreadUse
  <2>. QED BY <2>1, <2>2
<1>3. ASSUME NEW d \in Calls PROVE CallUse(d)'
  <2>. SUFFICES ASSUME call'[d] = call[d], call[d].at = "hassign" => call[d].h \notin H
                PROVE  CallUse(d)'
    OBVIOUS
  <2>1. CASE call[d].at = "hassign"
    <3>1. /\ call[d].h \in Handles /\ Kept(call[d].h) /\ htab[call[d].h].obj = call[d].obj
          /\ call[d].obj \in Objects /\ call[d].new \in Objects /\ ~htab[call[d].h].prot
          /\ d \in FileUsers /\ call[d].obj \in FileObjs /\ life[call[d].new] # "unborn"
      BY <2>1, CallShape DEF Base, UseInv, CallUse
    <3>2. HUSED(call[d].h)
      BY <3>1, ConstantFacts DEF HUSED
    <3>. QED BY <2>1, <3>1, <3>2 DEF Kept, CallUse
  <2>2. CASE call[d].at # "hassign"
    BY <2>2, CallShape DEF Base, UseInv, CallUse, Uses
  <2>. QED BY <2>1, <2>2
<1>. QED BY <1>1, <1>2, <1>3 DEF UseInv

LEMMA UseMoved ==
  ASSUME Base, NEW h \in Handles, NEW o, Moved(h, o), HandleUse(h)',
         \A x \in Objects : life[x] # "unborn" => life'[x] # "unborn",
         \A x \in Objects : ThreadUse(x)' \/ (hndl'[x] = hndl[x] /\ hndl[x] # h),
         \A d \in Calls : \/ CallUse(d)'
                          \/ call'[d] = call[d] /\ (call[d].at = "hassign" => call[d].h # h)
  PROVE  UseInv'
<1>. DEFINE H == {h}
<1>1. /\ H \in SUBSET Handles
      /\ \A g \in Handles \ H : Kept(g)
      /\ \A g \in H : HandleUse(g)'
      /\ \A x \in Objects : ThreadUse(x)' \/ (hndl'[x] = hndl[x] /\ hndl[x] \notin H)
      /\ \A d \in Calls : \/ CallUse(d)'
                          \/ call'[d] = call[d] /\ (call[d].at = "hassign" => call[d].h \notin H)
  BY DEF Moved
<1>. HIDE DEF H
<1>. QED BY <1>1, UseKept

LEMMA UseSame ==
  ASSUME Base, \A g \in Handles : Kept(g),
         \A x \in Objects : life[x] # "unborn" => life'[x] # "unborn",
         \A x \in Objects : ThreadUse(x)' \/ hndl'[x] = hndl[x],
         \A d \in Calls : CallUse(d)' \/ call'[d] = call[d]
  PROVE  UseInv'
<1>. DEFINE H == {}
<1>1. /\ H \in SUBSET Handles
      /\ \A g \in Handles \ H : Kept(g)
      /\ \A g \in H : HandleUse(g)'
      /\ \A x \in Objects : ThreadUse(x)' \/ (hndl'[x] = hndl[x] /\ hndl[x] \notin H)
      /\ \A d \in Calls : \/ CallUse(d)'
                          \/ call'[d] = call[d] /\ (call[d].at = "hassign" => call[d].h \notin H)
  OBVIOUS
<1>. HIDE DEF H
<1>. QED BY <1>1, UseKept

LEMMA CreateBase ==
  ASSUME Base, NEW c \in Calls, NEW o \in Objects, Create(c, o)
  PROVE  Base'
<1>1. PICK h \in Handles :
      /\ TableType' /\ TableInv' /\ htab[h].obj = NULL /\ Moved(h, o)
      /\ handle_count' = [handle_count EXCEPT ![o] = (@ + 1) % CountMod]
  BY AllocStep DEF Create, Base
<1>2. TypeOK'
  BY <1>1, CountType, TypeFromTable DEF Create, Base, TypeOK
<1>3. /\ \A x \in Objects \ {o} : life'[x] = life[x]
      /\ life'[o] # "unborn" /\ hndl' = hndl /\ call' = call
  BY DEF Create, Base, TypeOK
<1>4. /\ \A x \in Objects : hndl[x] # h
      /\ \A d \in Calls : call[d].at = "hassign" => call[d].h # h
  BY <1>1, FreeIsNobodys DEF Reassigned
<1>5. HandleUse(h)'
  BY <1>1, <1>3 DEF Moved, HandleUse
<1>6. UseInv'
  BY <1>1, <1>3, <1>4, <1>5, UseMoved
<1>. QED BY <1>1, <1>2, <1>6 DEF Base

LEMMA CreateThreadBase ==
  ASSUME Base, NEW c \in Calls, NEW o \in Objects, CreateThread(c, o)
  PROVE  Base'
<1>1. PICK h \in Handles :
      /\ TableType' /\ TableInv' /\ htab[h].obj = NULL /\ Moved(h, o) /\ htab'[h].prot
      /\ handle_count' = [handle_count EXCEPT ![o] = (@ + 1) % CountMod]
      /\ hndl' = [hndl EXCEPT ![o] = h]
  BY AllocStep DEF CreateThread, Base
<1>2. TypeOK'
  BY <1>1, CountType, TypeFromTable DEF CreateThread, Base, TypeOK
<1>3. /\ \A x \in Objects \ {o} : life'[x] = life[x] /\ hndl'[x] = hndl[x]
      /\ life'[o] # "unborn" /\ hndl'[o] = h /\ o \in ThreadObjs /\ call' = call
  BY <1>1 DEF CreateThread, Base, TypeOK
<1>4. /\ \A x \in Objects : hndl[x] # h
      /\ \A d \in Calls : call[d].at = "hassign" => call[d].h # h
  BY <1>1, FreeIsNobodys DEF Reassigned
<1>5. HandleUse(h)' /\ ThreadUse(o)'
  BY <1>1, <1>3 DEF Moved, HandleUse, ThreadUse
<1>6. UseInv'
  BY <1>1, <1>3, <1>4, <1>5, UseMoved
<1>. QED BY <1>1, <1>2, <1>6 DEF Base

\* The object that a handle leads to.
LEMMA Looked ==
  ASSUME Base, NEW h \in Handles, hlookup(h) # NULL
  PROVE  /\ hlookup(h) = htab[h].obj /\ hlookup(h) \in Objects /\ HUSED(h)
         /\ life[hlookup(h)] # "unborn"
<1>1. hlookup(h) = htab[h].obj
  BY DEF hlookup
<1>. QED BY <1>1 DEF Base, TypeOK, Entry, UseInv, HandleUse, HUSED

LEMMA DupBase ==
  ASSUME Base, NEW c \in Calls, NEW h1 \in Handles, Dup(c, h1)
  PROVE  Base'
<1>1. PICK o \in Objects : o = hlookup(h1) /\ life[o] # "unborn"
  BY Looked DEF Dup, Lockable
<1>2. PICK h \in Handles :
      /\ TableType' /\ TableInv' /\ htab[h].obj = NULL /\ Moved(h, o)
      /\ handle_count' = [handle_count EXCEPT ![o] = (@ + 1) % CountMod]
  BY <1>1, AllocStep DEF Dup, Base
<1>3. TypeOK'
  BY <1>2, CountType, TypeFromTable DEF Dup, Base, TypeOK
<1>4. life' = life /\ hndl' = hndl /\ call' = call
  BY DEF Dup
<1>5. /\ \A x \in Objects : hndl[x] # h
      /\ \A d \in Calls : call[d].at = "hassign" => call[d].h # h
  BY <1>2, FreeIsNobodys DEF Reassigned
<1>6. HandleUse(h)'
  BY <1>1, <1>2, <1>4 DEF Moved, HandleUse
<1>7. UseInv'
  BY <1>2, <1>4, <1>5, <1>6, UseMoved
<1>. QED BY <1>2, <1>3, <1>7 DEF Base

LEMMA LockBase ==
  ASSUME Base, NEW c \in Calls, NEW h1 \in Handles, Lock(c, h1)
  PROVE  Base'
<1>1. PICK o \in Objects : o = hlookup(h1) /\ life[o] # "unborn"
  BY Looked DEF Lock, Lockable
<1>2. /\ call' = [call EXCEPT ![c] = InCall(o)] /\ Uses(c, o)
      /\ lock_count' = [lock_count EXCEPT ![o] = (@ + 1) % CountMod]
      /\ life' = life /\ hndl' = hndl /\ UNCHANGED <<table, handle_count, destroys>>
  BY <1>1 DEF Lock
<1>3. TableType' /\ TableInv' /\ \A g \in Handles : Kept(g)
  BY <1>2, SameTable DEF Base
<1>4. TypeOK'
  BY <1>2, <1>3, CountType, CallStates, TypeFromTable DEF Base, TypeOK
<1>5. call'[c] = InCall(o) /\ \A d \in Calls \ {c} : call'[d] = call[d]
  BY <1>2 DEF Base, TypeOK
<1>6. CallUse(c)'
  BY <1>1, <1>2, <1>5, CallFields DEF CallUse, Uses
<1>7. UseInv'
  BY <1>2, <1>3, <1>5, <1>6, UseSame
<1>. QED BY <1>3, <1>4, <1>7 DEF Base

\* A call ends in user mode.
LEMMA UserUse ==
  ASSUME NEW c, call'[c] = User
  PROVE  CallUse(c)'
  BY CallFields DEF CallUse

\* What orel and the closes make of the objects' state.
LEMMA OrelType ==
  ASSUME TypeOK, NEW o \in Objects, Orel(o)
  PROVE  /\ lock_count' = [lock_count EXCEPT ![o] = Dec(@)]
         /\ lock_count' \in [Objects -> 0 .. (CountMod - 1)]
         /\ life' \in [Objects -> {"unborn", "live", "closed", "destroyed"}]
         /\ destroys' \in [Objects -> 0 .. 2]
         /\ \A x \in Objects : life[x] # "unborn" => life'[x] # "unborn"
  BY CountType DEF Orel, Destroyed, CountDestroy, TypeOK

LEMMA UnlockBase ==
  ASSUME Base, NEW c \in Calls, Unlock(c)
  PROVE  Base'
<1>1. call[c].obj \in Objects
  BY CallShape DEF Unlock, Base
<1>2. TableType' /\ TableInv' /\ \A g \in Handles : Kept(g)
  BY SameTable DEF Unlock, Base
<1>3. /\ lock_count' \in [Objects -> 0 .. (CountMod - 1)]
      /\ life' \in [Objects -> {"unborn", "live", "closed", "destroyed"}]
      /\ destroys' \in [Objects -> 0 .. 2]
      /\ \A x \in Objects : life[x] # "unborn" => life'[x] # "unborn"
  BY <1>1, OrelType DEF Unlock, Base
<1>4. TypeOK'
  BY <1>2, <1>3, CallStates, TypeFromTable DEF Unlock, Base, TypeOK
<1>5. call'[c] = User /\ (\A d \in Calls \ {c} : call'[d] = call[d]) /\ hndl' = hndl
  BY DEF Unlock, Base, TypeOK
<1>6. UseInv'
  BY <1>2, <1>3, <1>5, UserUse, UseSame
<1>. QED BY <1>2, <1>4, <1>6 DEF Base

\* An unprotected handle is no thread's own.
LEMMA Unprotected ==
  ASSUME Base, NEW h \in Handles, ~htab[h].prot
  PROVE  \A x \in Objects : hndl[x] # h
  BY HandlesFacts DEF Base, UseInv, ThreadUse

LEMMA CloseBase ==
  ASSUME Base, OneFileUser, NEW c \in Calls, NEW h \in Handles, Close(c, h)
  PROVE  Base'
<1>1. PICK o \in Objects :
        o = htab[h].obj /\ life[o] # "unborn" /\ HUSED(h) /\ Uses(c, o) /\ o # NULL
  BY Looked, ConstantFacts DEF Close
<1>2. call[c].at # "hassign" /\ ~htab[h].prot
  BY CallFields DEF Close, Running
<1>3. TableType' /\ TableInv' /\ Moved(h, NULL)
  BY <1>1, FreeStep DEF Close, hfree, Base
<1>4. /\ handle_count' = [handle_count EXCEPT ![o] = Dec(@)] /\ lock_count' = lock_count
      /\ hndl' = hndl
      /\ life' \in [Objects -> {"unborn", "live", "closed", "destroyed"}]
      /\ destroys' \in [Objects -> 0 .. 2]
      /\ \A x \in Objects : life[x] # "unborn" => life'[x] # "unborn"
      /\ \/ call' = call
         \/ call' = [call EXCEPT ![c] = InFree(o)] /\ o \in FileObjs /\ life'[o] # "unborn"
  BY <1>1 DEF Close, hfree, Destroyed, CountDestroy, Base, TypeOK
<1>5. TypeOK'
  BY <1>3, <1>4, CountType, CallStates, TypeFromTable DEF Base, TypeOK
<1>6. HandleUse(h)'
  BY <1>3 DEF Moved, HandleUse, HUSED
<1>7. \A x \in Objects : hndl[x] # h
  BY <1>2, Unprotected
<1>8. \A d \in Calls : call[d].at = "hassign" => call[d].h # h
  BY <1>1, <1>2, NotReassigned DEF Reassigned
<1>9. \A d \in Calls : call'[d] = call[d] \/ CallUse(d)'
  BY <1>1, <1>4, CallFields DEF CallUse, Uses, Base, TypeOK
<1>10. UseInv'
  BY <1>3, <1>4, <1>6, <1>7, <1>8, <1>9, UseMoved
<1>. QED BY <1>3, <1>5, <1>10 DEF Base

LEMMA ExitThreadBase ==
  ASSUME Base, OneFileUser, NEW c \in Calls, NEW o \in Objects, ExitThread(c, o)
  PROVE  Base'
<1>1. PICK h \in Handles : h = hndl[o] /\ htab[h].obj = o /\ htab[h].prot /\ HUSED(h)
  <2>1. hndl[o] # HEND
    BY DEF ExitThread
  <2>2. hndl[o] \in Handles /\ htab[hndl[o]].obj = o /\ htab[hndl[o]].prot
    BY <2>1 DEF Base, TypeOK, UseInv, ThreadUse
  <2>. QED BY <2>2, ConstantFacts DEF HUSED
<1>2. TableType' /\ TableInv' /\ Moved(h, NULL)
  BY <1>1, FreeStep DEF ExitThread, Base
<1>3. /\ handle_count' = [handle_count EXCEPT ![o] = Dec(@)] /\ lock_count' = lock_count
      /\ hndl' = [hndl EXCEPT ![o] = HEND]
      /\ life' \in [Objects -> {"unborn", "live", "closed", "destroyed"}]
      /\ destroys' \in [Objects -> 0 .. 2]
      /\ \A x \in Objects : life[x] # "unborn" => life'[x] # "unborn"
      /\ call' = call
  BY DEF ExitThread, Destroyed, CountDestroy, Base, TypeOK
<1>4. TypeOK'
  BY <1>2, <1>3, CountType, TypeFromTable DEF Base, TypeOK
<1>5. HandleUse(h)'
  BY <1>2 DEF Moved, HandleUse, HUSED
<1>6. \A x \in Objects : ThreadUse(x)' \/ (hndl'[x] = hndl[x] /\ hndl[x] # h)
  BY <1>1, <1>3, HandlesFacts DEF Base, TypeOK, UseInv, ThreadUse
<1>7. \A d \in Calls : call[d].at = "hassign" => call[d].h # h
  BY <1>1 DEF Base, UseInv, CallUse
<1>8. UseInv'
  BY <1>2, <1>3, <1>5, <1>6, <1>7, UseMoved
<1>. QED BY <1>2, <1>4, <1>8 DEF Base

LEMMA CloseDoneBase ==
  ASSUME Base, NEW c \in Calls, CloseDone(c)
  PROVE  Base'
<1>1. TableType' /\ TableInv' /\ \A g \in Handles : Kept(g)
  BY SameTable DEF CloseDone, Base
<1>2. /\ call'[c] = User /\ (\A d \in Calls \ {c} : call'[d] = call[d]) /\ hndl' = hndl
      /\ life' \in [Objects -> {"unborn", "live", "closed", "destroyed"}]
      /\ destroys' \in [Objects -> 0 .. 2]
      /\ \A x \in Objects : life[x] # "unborn" => life'[x] # "unborn"
  BY DEF CloseDone, Destroyed, CountDestroy, Base, TypeOK
<1>3. TypeOK'
  BY <1>1, <1>2, CallStates, TypeFromTable DEF CloseDone, Base, TypeOK
<1>4. UseInv'
  BY <1>1, <1>2, UserUse, UseSame
<1>. QED BY <1>1, <1>3, <1>4 DEF Base

LEMMA Dup2FullBase ==
  ASSUME Base, NEW c \in Calls, NEW h1 \in Handles, NEW h2 \in 0 .. MaxHandles,
         Dup2Full(c, h1, h2)
  PROVE  Base'
<1>1. MaxPages \in 0 .. MaxPages /\ MaxHandles = PerPage * MaxPages
  BY ConstantFacts
<1>2. MaxHandles >= htabsize
  BY SizeType DEF Base
<1>3. TableType' /\ TableInv' /\ \A g \in Handles : Kept(g)
  BY <1>1, <1>2, GrowStep DEF Dup2Full, Base
<1>4. TypeOK'
  BY <1>3, TypeFromTable DEF Dup2Full, objs, Base, TypeOK
<1>5. life' = life /\ hndl' = hndl /\ call' = call
  BY DEF Dup2Full, objs
<1>6. UseInv'
  BY <1>3, <1>5, UseSame
<1>. QED BY <1>3, <1>4, <1>6 DEF Base

\* dup2 to a free handle takes it for o, or spins for ever.
LEMMA Dup2FreeTable ==
  ASSUME Base, NEW c \in Calls, NEW h1 \in Handles, NEW h2 \in 0 .. MaxHandles,
         Dup2Free(c, h1, h2)
  PROVE  \E o \in Objects :
         /\ o = htab[h1].obj /\ o = hlookup(h1) /\ life[o] # "unborn" /\ Uses(c, o)
         /\ TableType' /\ TableInv'
         /\ \/ /\ h2 \in Handles /\ htab[h2].obj = NULL /\ Moved(h2, o)
               /\ handle_count' = [handle_count EXCEPT ![o] = (@ + 1) % CountMod]
               /\ UNCHANGED <<lock_count, call>>
            \/ /\ \A g \in Handles : Kept(g)
               /\ lock_count' = [lock_count EXCEPT ![o] = (@ + 1) % CountMod]
               /\ call' = [call EXCEPT ![c] = Hung]
               /\ UNCHANGED handle_count
<1>1. PICK o \in Objects :
         o = htab[h1].obj /\ o = hlookup(h1) /\ life[o] # "unborn" /\ Uses(c, o)
  BY Looked DEF Dup2Free, Lockable
<1>2. h2 \in Handles
  BY DEF Dup2Free
<1>. DEFINE n == IF h2 < htabsize THEN htabsize ELSE PagesFor(h2)
            tab == ExpandedTab(n)
            free == ExpandedFree(n)
<1>3. PICK q \in 0 .. MaxPages : n = PerPage * q /\ n >= htabsize
  <2>1. CASE h2 < htabsize
    BY <2>1, SizeType DEF Base, TableInv
  <2>2. CASE ~(h2 < htabsize)
    BY <2>2, <1>2, Sizes, SizeType, HandlesFacts DEF Base
  <2>. QED BY <2>1, <2>2
<1>4. tab \in [Handles -> Entry] /\ Chain(tab, n, free)
  BY <1>3, Expanded DEF Base
<1>5. /\ htabsize' = n
      /\ \/ /\ h2 = free
            /\ hfreelist' = tab[h2].next
            /\ htab' = [tab EXCEPT ![h2] = UsedEntry(o)]
            /\ handle_count' = [handle_count EXCEPT ![o] = (@ + 1) % CountMod]
            /\ UNCHANGED <<lock_count, call>>
         \/ /\ h2 # free /\ free # HEND /\ tab[free].next = h2
            /\ hfreelist' = free
            /\ htab' = [tab EXCEPT ![free].next = tab[h2].next, ![h2] = UsedEntry(o)]
            /\ handle_count' = [handle_count EXCEPT ![o] = (@ + 1) % CountMod]
            /\ UNCHANGED <<lock_count, call>>
         \/ /\ h2 # free /\ free # HEND /\ tab[free].next # h2
            /\ hfreelist' = free
            /\ htab' = tab
            /\ lock_count' = [lock_count EXCEPT ![o] = (@ + 1) % CountMod]
            /\ call' = [call EXCEPT ![c] = Hung]
            /\ UNCHANGED handle_count
  BY <1>1, Zenon DEF Dup2Free
<1>6. UsedEntry(o) \in Entry /\ UsedEntry(o).obj = o
  BY EntryFacts
<1>. HIDE DEF n, tab, free
<1>7. CASE /\ h2 = free
           /\ hfreelist' = tab[h2].next
           /\ htab' = [tab EXCEPT ![h2] = UsedEntry(o)]
           /\ handle_count' = [handle_count EXCEPT ![o] = (@ + 1) % CountMod]
           /\ UNCHANGED <<lock_count, call>>
  <2>1. /\ htab' \in [Handles -> Entry] /\ htab'[h2].obj = o
        /\ \A g \in Handles \ {h2} : htab'[g] = tab[g]
    BY <1>2, <1>4, <1>6, <1>7
  <2>2. TableType' /\ TableInv' /\ htab[h2].obj = NULL /\ Moved(h2, o)
    BY <1>2, <1>3, <1>5, <1>7, <2>1, TakeStep DEF Base, tab, free
  <2>. QED BY <1>1, <1>2, <1>7, <2>2
<1>8. CASE /\ h2 # free /\ free # HEND /\ tab[free].next = h2
           /\ hfreelist' = free
           /\ htab' = [tab EXCEPT ![free].next = tab[h2].next, ![h2] = UsedEntry(o)]
           /\ handle_count' = [handle_count EXCEPT ![o] = (@ + 1) % CountMod]
           /\ UNCHANGED <<lock_count, call>>
  <2>1. free \in Handles
    BY <1>4, <1>8, ChainFirst
  <2>2. /\ htab' \in [Handles -> Entry] /\ htab'[h2].obj = o
        /\ htab'[free].obj = tab[free].obj /\ htab'[free].next = tab[h2].next
        /\ \A g \in Handles \ {free, h2} : htab'[g] = tab[g]
    BY <1>2, <1>4, <1>6, <1>8, <2>1 DEF Entry
  <2>3. TableType' /\ TableInv' /\ htab[h2].obj = NULL /\ Moved(h2, o)
    BY <1>2, <1>3, <1>5, <1>8, <2>2, TakeStep, SMTT(30) DEF Base, tab, free
  <2>. QED BY <1>1, <1>2, <1>8, <2>3
<1>9. CASE /\ hfreelist' = free
           /\ htab' = tab
           /\ lock_count' = [lock_count EXCEPT ![o] = (@ + 1) % CountMod]
           /\ call' = [call EXCEPT ![c] = Hung]
           /\ UNCHANGED handle_count
  <2>1. TableType' /\ TableInv' /\ \A g \in Handles : Kept(g)
    BY <1>3, <1>5, <1>9, GrowStep DEF Base, tab, free
  <2>. QED BY <1>1, <1>9, <2>1
<1>. QED BY <1>5, <1>7, <1>8, <1>9

LEMMA Dup2FreeBase ==
  ASSUME Base, NEW c \in Calls, NEW h1 \in Handles, NEW h2 \in 0 .. MaxHandles,
         Dup2Free(c, h1, h2)
  PROVE  Base'
<1>1. PICK o \in Objects :
         /\ life[o] # "unborn" /\ TableType' /\ TableInv'
         /\ \/ /\ h2 \in Handles /\ htab[h2].obj = NULL /\ Moved(h2, o)
               /\ handle_count' = [handle_count EXCEPT ![o] = (@ + 1) % CountMod]
               /\ UNCHANGED <<lock_count, call>>
            \/ /\ \A g \in Handles : Kept(g)
               /\ lock_count' = [lock_count EXCEPT ![o] = (@ + 1) % CountMod]
               /\ call' = [call EXCEPT ![c] = Hung]
               /\ UNCHANGED handle_count
  BY Dup2FreeTable
<1>2. life' = life /\ destroys' = destroys /\ hndl' = hndl
  BY DEF Dup2Free
<1>3. CASE /\ h2 \in Handles /\ htab[h2].obj = NULL /\ Moved(h2, o)
           /\ handle_count' = [handle_count EXCEPT ![o] = (@ + 1) % CountMod]
           /\ UNCHANGED <<lock_count, call>>
  <2>1. TypeOK'
    BY <1>1, <1>2, <1>3, CountType, TypeFromTable DEF Base, TypeOK
  <2>2. /\ \A x \in Objects : hndl[x] # h2
        /\ \A d \in Calls : call[d].at = "hassign" => call[d].h # h2
    BY <1>3, FreeIsNobodys DEF Reassigned
  <2>3. HandleUse(h2)'
    BY <1>1, <1>2, <1>3 DEF Moved, HandleUse
  <2>4. UseInv'
    BY <1>2, <1>3, <2>2, <2>3, UseMoved
  <2>. QED BY <1>1, <2>1, <2>4 DEF Base
<1>4. CASE /\ \A g \in Handles : Kept(g)
           /\ lock_count' = [lock_count EXCEPT ![o] = (@ + 1) % CountMod]
           /\ call' = [call EXCEPT ![c] = Hung]
           /\ UNCHANGED handle_count
  <2>1. TypeOK'
    BY <1>1, <1>2, <1>4, CountType, CallStates, TypeFromTable DEF Base, TypeOK
  <2>2. CallUse(c)' /\ \A d \in Calls \ {c} : call'[d] = call[d]
    BY <1>4, CallFields DEF CallUse, Base, TypeOK
  <2>3. UseInv'
    BY <1>2, <1>4, <2>2, UseSame
  <2>. QED BY <1>1, <2>1, <2>3 DEF Base
<1>. QED BY <1>1, <1>3, <1>4

\* dup2 to a handle in use: what it finds, and what it does before it waits.
LEMMA Dup2UsedTable ==
  ASSUME Base, OneFileUser, NEW c \in Calls, NEW h1 \in Handles, NEW h2 \in 0 .. MaxHandles,
         Dup2Used(c, h1, h2)
  PROVE  \E o, oo \in Objects :
         /\ o = htab[h1].obj /\ oo = htab[h2].obj /\ h2 \in Handles /\ HUSED(h2) /\ ~htab[h2].prot
         /\ life[o] # "unborn" /\ life[oo] # "unborn" /\ Uses(c, o) /\ Uses(c, oo)
         /\ handle_count[o] > 0 /\ call[c] = User /\ h2 \notin Reassigned
         /\ TableType' /\ TableInv' /\ hndl' = hndl
         /\ \/ /\ Dec(handle_count[oo]) > 0 \/ oo \notin FileObjs
               /\ Moved(h2, o) /\ UNCHANGED <<lock_count, call>>
               /\ handle_count' = [[handle_count EXCEPT ![oo] = Dec(@)] EXCEPT ![o] = (@ + 1) % CountMod]
               /\ IF Dec(handle_count[oo]) > 0 THEN UNCHANGED <<life, destroys>>
                  ELSE IF Unlocked(oo) /\ oo # o
                  THEN life' = Destroyed(life, oo) /\ destroys' = CountDestroy(oo)
                  ELSE life' = [life EXCEPT ![oo] = "closed"] /\ UNCHANGED destroys
            \/ /\ Dec(handle_count[oo]) = 0 /\ oo \in FileObjs
               /\ htab' = htab /\ destroys' = destroys
               /\ handle_count' = [handle_count EXCEPT ![oo] = Dec(@)]
               /\ life' = [life EXCEPT ![oo] = "closed"]
               /\ lock_count' = [lock_count EXCEPT ![o] = (@ + 1) % CountMod]
               /\ call' = [call EXCEPT ![c] = InAssign(oo, o, h2)]
<1>1. PICK o \in Objects :
         o = htab[h1].obj /\ o = hlookup(h1) /\ life[o] # "unborn" /\ Uses(c, o) /\ handle_count[o] > 0
  BY Looked DEF Dup2Used, Lockable
<1>2. h2 \in Handles /\ HUSED(h2) /\ ~htab[h2].prot /\ call[c] = User
  BY DEF Dup2Used, Running
<1>3. PICK oo \in Objects : oo = htab[h2].obj /\ life[oo] # "unborn" /\ Uses(c, oo)
  BY <1>2 DEF Dup2Used, Base, TypeOK, Entry, UseInv, HandleUse, HUSED
<1>4. h2 \notin Reassigned
  BY <1>2, <1>3, NotReassigned, CallFields
<1>5. UNCHANGED <<htabsize, hfreelist, hndl>>
  BY DEF Dup2Used
<1>6. \/ /\ Dec(handle_count[oo]) > 0 \/ oo \notin FileObjs
         /\ htab' = [htab EXCEPT ![h2] = UsedEntry(o)]
         /\ handle_count' = [[handle_count EXCEPT ![oo] = Dec(handle_count[oo])]
                               EXCEPT ![o] = (@ + 1) % CountMod]
         /\ IF Dec(handle_count[oo]) > 0 THEN UNCHANGED <<life, destroys>>
            ELSE IF Unlocked(oo) /\ oo # o
            THEN life' = Destroyed(life, oo) /\ destroys' = CountDestroy(oo)
            ELSE life' = [life EXCEPT ![oo] = "closed"] /\ UNCHANGED destroys
         /\ UNCHANGED <<lock_count, call>>
      \/ /\ Dec(handle_count[oo]) = 0 /\ oo \in FileObjs
         /\ handle_count' = [handle_count EXCEPT ![oo] = Dec(handle_count[oo])]
         /\ life' = [life EXCEPT ![oo] = "closed"]
         /\ lock_count' = [lock_count EXCEPT ![o] = (@ + 1) % CountMod]
         /\ call' = [call EXCEPT ![c] = InAssign(oo, o, h2)]
         /\ UNCHANGED <<htab, destroys>>
  BY <1>1, <1>3, Zenon DEF Dup2Used
<1>7. CASE htab' = [htab EXCEPT ![h2] = UsedEntry(o)]
  <2>1. TableType' /\ TableInv' /\ Moved(h2, o)
    BY <1>2, <1>5, <1>7, ReplaceStep DEF Base
  <2>2. CASE htab' = htab
    <3>1. oo = o
      BY <2>1, <2>2, <1>3 DEF Moved
    <3>. QED BY <1>1, <1>2, <1>3, <1>4, <1>5, <1>6, <2>1, <2>2, <3>1
  <2>3. CASE htab' # htab
    BY <1>1, <1>2, <1>3, <1>4, <1>5, <1>6, <2>1, <2>3
  <2>. QED BY <2>2, <2>3
<1>8. CASE htab' = htab /\ htab' # [htab EXCEPT ![h2] = UsedEntry(o)]
  <2>1. TableType' /\ TableInv'
    BY <1>5, <1>8, SameTable DEF Base, table
  <2>. QED BY <1>1, <1>2, <1>3, <1>4, <1>5, <1>6, <1>8, <2>1
<1>. QED BY <1>6, <1>7, <1>8

LEMMA Dup2UsedBase ==
  ASSUME Base, OneFileUser, NEW c \in Calls, NEW h1 \in Handles, NEW h2 \in 0 .. MaxHandles,
         Dup2Used(c, h1, h2)
  PROVE  Base'
<1>1. PICK o \in Objects, oo \in Objects :
         /\ oo = htab[h2].obj /\ h2 \in Handles /\ HUSED(h2) /\ ~htab[h2].prot
         /\ life[o] # "unborn" /\ life[oo] # "unborn" /\ Uses(c, oo) /\ h2 \notin Reassigned
         /\ TableType' /\ TableInv' /\ hndl' = hndl
         /\ \/ /\ Moved(h2, o) /\ UNCHANGED <<lock_count, call>>
               /\ handle_count' = [[handle_count EXCEPT ![oo] = Dec(@)] EXCEPT ![o] = (@ + 1) % CountMod]
               /\ IF Dec(handle_count[oo]) > 0 THEN UNCHANGED <<life, destroys>>
                  ELSE IF Unlocked(oo) /\ oo # o
                  THEN life' = Destroyed(life, oo) /\ destroys' = CountDestroy(oo)
                  ELSE life' = [life EXCEPT ![oo] = "closed"] /\ UNCHANGED destroys
            \/ /\ oo \in FileObjs
               /\ htab' = htab /\ destroys' = destroys
               /\ handle_count' = [handle_count EXCEPT ![oo] = Dec(@)]
               /\ life' = [life EXCEPT ![oo] = "closed"]
               /\ lock_count' = [lock_count EXCEPT ![o] = (@ + 1) % CountMod]
               /\ call' = [call EXCEPT ![c] = InAssign(oo, o, h2)]
  BY Dup2UsedTable
<1>2. CASE /\ Moved(h2, o) /\ UNCHANGED <<lock_count, call>>
           /\ handle_count' = [[handle_count EXCEPT ![oo] = Dec(@)] EXCEPT ![o] = (@ + 1) % CountMod]
           /\ IF Dec(handle_count[oo]) > 0 THEN UNCHANGED <<life, destroys>>
              ELSE IF Unlocked(oo) /\ oo # o
              THEN life' = Destroyed(life, oo) /\ destroys' = CountDestroy(oo)
              ELSE life' = [life EXCEPT ![oo] = "closed"] /\ UNCHANGED destroys
  <2>1. /\ life' \in [Objects -> {"unborn", "live", "closed", "destroyed"}]
        /\ destroys' \in [Objects -> 0 .. 2]
        /\ \A x \in Objects : life[x] # "unborn" => life'[x] # "unborn"
    BY <1>2 DEF Destroyed, CountDestroy, Base, TypeOK
  <2>2. TypeOK'
    <3>1. \A f \in [Objects -> 0 .. (CountMod - 1)] :
            [[f EXCEPT ![oo] = Dec(@)] EXCEPT ![o] = (@ + 1) % CountMod] \in [Objects -> 0 .. (CountMod - 1)]
      <4>1. \A f \in [Objects -> 0 .. (CountMod - 1)] :
              /\ [f EXCEPT ![oo] = Dec(@)] \in [Objects -> 0 .. (CountMod - 1)]
              /\ [f EXCEPT ![o] = (@ + 1) % CountMod] \in [Objects -> 0 .. (CountMod - 1)]
        BY CountType
      <4>. QED BY <4>1
    <3>2. handle_count' \in [Objects -> 0 .. (CountMod - 1)] /\ lock_count' \in [Objects -> 0 .. (CountMod - 1)]
      BY <1>2, <3>1 DEF Base, TypeOK
    <3>3. hndl' \in [Objects -> Handles \cup {HEND}] /\ call' \in [Calls -> CallState] /\ TableType'
      BY <1>1, <1>2 DEF Base, TypeOK
    <3>. QED BY <2>1, <3>2, <3>3, TypeFromTable
  <2>3. HandleUse(h2)'
    BY <1>1, <1>2, <2>1 DEF Moved, HandleUse
  <2>4. /\ \A x \in Objects : hndl[x] # h2
        /\ \A d \in Calls : call[d].at = "hassign" => call[d].h # h2
    BY <1>1, Unprotected DEF Reassigned
  <2>5. UseInv'
    BY <1>1, <1>2, <2>1, <2>3, <2>4, UseMoved
  <2>. QED BY <1>1, <2>2, <2>5 DEF Base
<1>3. CASE /\ oo \in FileObjs
           /\ htab' = htab /\ destroys' = destroys
           /\ handle_count' = [handle_count EXCEPT ![oo] = Dec(@)]
           /\ life' = [life EXCEPT ![oo] = "closed"]
           /\ lock_count' = [lock_count EXCEPT ![o] = (@ + 1) % CountMod]
           /\ call' = [call EXCEPT ![c] = InAssign(oo, o, h2)]
  <2>1. TypeOK'
    BY <1>1, <1>3, CountType, CallStates, TypeFromTable DEF Base, TypeOK
  <2>2. /\ \A x \in Objects : life[x] # "unborn" => life'[x] # "unborn"
        /\ call'[c] = InAssign(oo, o, h2) /\ \A d \in Calls \ {c} : call'[d] = call[d]
    BY <1>3 DEF Base, TypeOK
  <2>3. CallUse(c)'
    BY <1>1, <1>3, <2>2, CallFields DEF CallUse, Uses
  <2>4. UseInv'
    BY <1>1, <1>3, <2>2, <2>3, UseSame DEF Kept
  <2>. QED BY <1>1, <2>1, <2>4 DEF Base
<1>. QED BY <1>1, <1>2, <1>3

LEMMA AssignDoneBase ==
  ASSUME Base, OneFileUser, NEW c \in Calls, NEW rc \in CloseResults, AssignDone(c, rc)
  PROVE  Base'
<1>1. PICK o \in Objects, oo \in Objects, h \in Handles :
         /\ call[c].at = "hassign" /\ call[c].new = o /\ call[c].obj = oo /\ call[c].h = h
         /\ c \in FileUsers /\ oo \in FileObjs /\ htab[h].obj = oo /\ ~htab[h].prot
         /\ HUSED(h) /\ life[o] # "unborn"
  BY CallShape, ConstantFacts DEF AssignDone, Base, UseInv, CallUse, HUSED
<1>2. /\ \/ htab' = [htab EXCEPT ![h] = UsedEntry(o)]
            /\ handle_count' = [handle_count EXCEPT ![o] = (@ + 1) % CountMod]
         \/ UNCHANGED <<htab, handle_count>>
      /\ lock_count' = [lock_count EXCEPT ![o] = Dec(@)]
      /\ call' = [call EXCEPT ![c] = User]
      /\ UNCHANGED <<htabsize, hfreelist, hndl>>
  BY <1>1 DEF AssignDone
<1>3. /\ life' \in [Objects -> {"unborn", "live", "closed", "destroyed"}]
      /\ destroys' \in [Objects -> 0 .. 2]
      /\ \A x \in Objects : life[x] # "unborn" => life'[x] # "unborn"
  BY DEF AssignDone, Base, TypeOK
<1>4. call'[c] = User /\ CallUse(c)' /\ \A d \in Calls \ {c} : call'[d] = call[d]
  BY <1>2, UserUse DEF Base, TypeOK
<1>5. CASE /\ htab' = [htab EXCEPT ![h] = UsedEntry(o)]
           /\ handle_count' = [handle_count EXCEPT ![o] = (@ + 1) % CountMod]
  <2>1. TableType' /\ TableInv' /\ Moved(h, o)
    BY <1>1, <1>2, <1>5, ReplaceStep DEF Base
  <2>2. TypeOK'
    BY <1>2, <1>3, <1>5, <2>1, CountType, CallStates, TypeFromTable DEF Base, TypeOK
  <2>3. HandleUse(h)' /\ \A x \in Objects : hndl[x] # h
    BY <1>1, <1>3, <2>1, Unprotected DEF Moved, HandleUse
  <2>4. \A d \in Calls \ {c} : call[d].at # "hassign"
    BY <1>1 DEF Base, UseInv, CallUse, OneFileUser
  <2>5. UseInv'
    BY <1>2, <1>3, <1>4, <2>1, <2>3, <2>4, UseMoved
  <2>. QED BY <2>1, <2>2, <2>5 DEF Base
<1>6. CASE UNCHANGED <<htab, handle_count>>
  <2>1. TableType' /\ TableInv' /\ \A g \in Handles : Kept(g)
    BY <1>2, <1>6, SameTable DEF Base, table
  <2>2. TypeOK'
    BY <1>2, <1>3, <1>6, <2>1, CountType, CallStates, TypeFromTable DEF Base, TypeOK
  <2>3. UseInv'
    BY <1>2, <1>3, <1>4, <2>1, UseSame
  <2>. QED BY <2>1, <2>2, <2>3 DEF Base
<1>. QED BY <1>2, <1>5, <1>6

LEMMA StutterBase ==
  ASSUME Base, UNCHANGED vars
  PROVE  Base'
<1>1. TypeOK' /\ UNCHANGED table
  BY DEF vars, table, Base, TypeOK
<1>2. TableInv' /\ \A g \in Handles : Kept(g)
  BY <1>1, SameTable DEF Base
<1>3. UseInv'
  BY <1>2, UseSame DEF vars
<1>. QED BY <1>1, <1>2, <1>3 DEF Base

LEMMA InitBase == Init => Base
<1>. SUFFICES ASSUME Init PROVE Base
  OBVIOUS
<1>1. TypeOK
  BY ConstantFacts, EntryFacts, CallStates DEF Init, TypeOK, CountMod
<1>2. TableInv
  <2>1. 0 \in 0 .. MaxPages /\ htabsize = PerPage * 0
    BY ConstantFacts DEF Init
  <2>2. \A h \in Handles : htab[h].obj = NULL
    BY DEF Init, FreeEntry
  <2>. DEFINE e == [i \in 0 .. 0 |-> HEND]
  <2>3. e \in [0 .. 0 -> Handles \cup {HEND}] /\ IsChain(htab, htabsize, hfreelist, 0, e)
    BY HandlesFacts DEF IsChain, Init
  <2>4. Chain(htab, htabsize, hfreelist)
    BY <2>3 DEF Chain
  <2>. QED BY <2>1, <2>2, <2>4 DEF TableInv
<1>3. UseInv
  BY CallFields DEF Init, UseInv, HandleUse, ThreadUse, CallUse, FreeEntry, HUSED
<1>. QED BY <1>1, <1>2, <1>3 DEF Base

LEMMA BaseStep ==
  ASSUME Base, OneFileUser, [Next]_vars
  PROVE  Base'
  BY CreateBase, CreateThreadBase, ExitThreadBase, DupBase, LockBase, CloseBase, UnlockBase,
     CloseDoneBase, Dup2FullBase, Dup2FreeBase, Dup2UsedBase, AssignDoneBase, StutterBase
  DEF Next

-----------------------------------------------------------------------------
(* Following the links from hfreelist enumerates the chain.                *)

LEMMA ChainFollowed ==
  ASSUME TypeOK, TableInv
  PROVE  FreeListSound
<1>. DEFINE N == MaxHandles
            f[n \in 0 .. N] == IF n = 0 THEN hfreelist
                               ELSE IF f[n - 1] = HEND THEN HEND ELSE htab[f[n - 1]].next
            free == {h \in 0 .. (htabsize - 1) : htab[h].obj = NULL}
<1>1. N \in Nat /\ htabsize \in Nat /\ htabsize <= N
  BY ConstantFacts, SizeType
<1>2. PICK k \in Nat : \E e \in [0 .. k -> Handles \cup {HEND}] :
                         IsChain(htab, htabsize, hfreelist, k, e)
  BY DEF TableInv, Chain
<1>3. PICK e \in [0 .. k -> Handles \cup {HEND}] : IsChain(htab, htabsize, hfreelist, k, e)
  BY <1>2
<1>4. \A h : h \in free <=> h \in Handles /\ h < htabsize /\ htab[h].obj = NULL
  BY <1>1 DEF Handles
<1>5. IsFiniteSet(free) /\ Cardinality(free) = k /\ k <= N
  <2>. DEFINE b == [i \in 1 .. k |-> e[i - 1]]
  <2>1. b \in Bijection(1 .. k, free)
    <3>1. \A i \in 1 .. k : i - 1 \in 0 .. (k - 1) /\ b[i] = e[i - 1]
      OBVIOUS
    <3>2. \A i \in 1 .. k : b[i] \in free
      BY <3>1, <1>3, <1>4 DEF IsChain
    <3>3. \A i, j \in 1 .. k : b[i] = b[j] => i = j
      <4>. SUFFICES ASSUME NEW i \in 1 .. k, NEW j \in 1 .. k, b[i] = b[j] PROVE i = j
        OBVIOUS
      <4>1. i - 1 = j - 1
        BY <3>1, <1>3 DEF IsChain
      <4>. QED BY <4>1
    <3>4. \A h \in free : \E i \in 1 .. k : b[i] = h
      <4>. SUFFICES ASSUME NEW h \in free PROVE \E i \in 1 .. k : b[i] = h
        OBVIOUS
      <4>1. PICK i \in 0 .. (k - 1) : e[i] = h
        BY <1>3, <1>4 DEF IsChain
      <4>2. i + 1 \in 1 .. k /\ (i + 1) - 1 = i
        OBVIOUS
      <4>3. b[i + 1] = h
        BY <4>1, <4>2
      <4>. QED BY <4>2, <4>3
    <3>. HIDE DEF b
    <3>5. b \in [1 .. k -> free]
      BY <3>2 DEF b
    <3>. QED BY <3>3, <3>4, <3>5 DEF Bijection, Injection, Surjection, IsInjective
  <2>2. IsFiniteSet(1 .. k) /\ Cardinality(1 .. k) = k
    BY FS_Interval
  <2>. HIDE DEF b
  <2>3. IsFiniteSet(free) /\ Cardinality(free) = k
    BY <2>1, <2>2, FS_Bijection DEF ExistsBijection
  <2>4. free \subseteq 0 .. (N - 1) /\ IsFiniteSet(0 .. (N - 1)) /\ Cardinality(0 .. (N - 1)) = N
    <3>1. 0 \in Int /\ N - 1 \in Int /\ (N - 1) - 0 + 1 = N /\ (0 > N - 1 => N = 0)
      BY <1>1
    <3>2. free \subseteq 0 .. (N - 1)
      BY <1>1
    <3>. HIDE DEF free
    <3>3. IsFiniteSet(0 .. (N - 1)) /\ Cardinality(0 .. (N - 1)) = N
      BY <3>1, FS_Interval
    <3>. QED BY <3>2, <3>3
  <2>. HIDE DEF free
  <2>5. free \in SUBSET (0 .. (N - 1))
    BY <2>4
  <2>6. Cardinality(free) <= Cardinality(0 .. (N - 1))
    BY <2>4, <2>5, FS_Subset
  <2>. QED BY <2>3, <2>4, <2>6
<1>. DEFINE g == [n \in 0 .. N |-> IF n < k THEN e[n] ELSE HEND]
<1>6. \A n \in 0 .. N : n - 1 \in 0 .. N \/ n = 0
  BY <1>1
<1>7. ASSUME NEW n \in 0 .. N
      PROVE  g[n] = IF n = 0 THEN hfreelist
                    ELSE IF g[n - 1] = HEND THEN HEND ELSE htab[g[n - 1]].next
  <2>1. CASE n = 0
    BY <2>1, <1>1, <1>3 DEF IsChain
  <2>2. CASE n # 0 /\ n - 1 < k
    <3>1. n - 1 \in 0 .. (k - 1) /\ n - 1 \in 0 .. N /\ (n - 1) + 1 = n /\ n <= k
      BY <2>2, <1>1
    <3>2. g[n - 1] = e[n - 1] /\ e[n - 1] # HEND /\ htab[e[n - 1]].next = e[n]
      BY <3>1, <2>2, <1>3, HandlesFacts DEF IsChain
    <3>3. g[n] = e[n]
      BY <3>1, <1>3 DEF IsChain
    <3>. QED BY <3>2, <3>3, <2>2
  <2>3. CASE n # 0 /\ ~(n - 1 < k)
    <3>1. n - 1 \in 0 .. N /\ ~(n < k)
      BY <2>3, <1>1
    <3>. QED BY <3>1, <2>3
  <2>. QED BY <2>1, <2>2, <2>3
<1>8. g = [n \in 0 .. N |-> IF n = 0 THEN hfreelist
                            ELSE IF g[n - 1] = HEND THEN HEND ELSE htab[g[n - 1]].next]
  BY <1>7
<1>9. f = [n \in 0 .. N |-> IF n = 0 THEN hfreelist
                            ELSE IF f[n - 1] = HEND THEN HEND ELSE htab[f[n - 1]].next]
  <2>. HIDE DEF g
  <2>. SUFFICES \E ff : ff = [n \in 0 .. N |->
                   IF n = 0 THEN hfreelist
                   ELSE IF ff[n - 1] = HEND THEN HEND ELSE htab[ff[n - 1]].next]
    BY Zenon
  <2>. QED BY <1>8, Zenon
<1>10. \A n \in 0 .. N : f[n] = IF n = 0 THEN hfreelist
                                ELSE IF f[n - 1] = HEND THEN HEND ELSE htab[f[n - 1]].next
  <2>. HIDE DEF f
  <2>. QED BY <1>9, Zenon
<1>. HIDE DEF f
<1>11. \A n \in 0 .. N : f[n] = g[n]
  <2>. DEFINE S == {n \in Nat : n <= N => f[n] = g[n]}
  <2>1. 0 \in S
    <3>1. 0 \in 0 .. N
      BY <1>1
    <3>. QED BY <3>1, <1>7, <1>10
  <2>2. ASSUME NEW n \in Nat, n \in S PROVE n + 1 \in S
    <3>. SUFFICES ASSUME n + 1 <= N PROVE f[n + 1] = g[n + 1]
      OBVIOUS
    <3>1. n + 1 \in 0 .. N /\ n + 1 # 0 /\ (n + 1) - 1 = n /\ f[n] = g[n]
      BY <2>2, <1>1
    <3>. HIDE DEF g
    <3>. QED BY <3>1, <1>7, <1>10
  <2>. HIDE DEF S
  <2>3. \A n \in Nat : n >= 0 => n \in S
    BY <2>1, <2>2, Upwards
  <2>. SUFFICES ASSUME NEW n \in 0 .. N PROVE f[n] = g[n]
    OBVIOUS
  <2>4. n \in Nat /\ n >= 0 /\ n <= N
    BY <1>1
  <2>5. n \in S
    BY <2>3, <2>4
  <2>. HIDE DEF g
  <2>. QED BY <2>4, <2>5 DEF S
<1>12. {f[n] : n \in 0 .. N} \ {HEND} = free
  <2>1. ASSUME NEW n \in 0 .. N, f[n] # HEND PROVE f[n] \in free
    <3>1. n < k /\ f[n] = e[n]
      BY <2>1, <1>11
    <3>. QED BY <3>1, <1>3, <1>4 DEF IsChain
  <2>2. ASSUME NEW h \in free PROVE h # HEND /\ \E n \in 0 .. N : f[n] = h
    <3>1. PICK i \in 0 .. (k - 1) : e[i] = h
      BY <1>3, <1>4 DEF IsChain
    <3>2. i \in 0 .. N /\ i < k
      BY <1>1, <1>5
    <3>3. f[i] = h
      BY <3>1, <3>2, <1>11
    <3>. QED BY <3>2, <3>3, <1>4, HandlesFacts
  <2>. QED BY <2>1, <2>2
<1>13. f[Cardinality(free)] = HEND
  BY <1>1, <1>5, <1>11
<1>. QED BY <1>12, <1>13, Zenon DEF FreeListSound, f

-----------------------------------------------------------------------------
(* The handle counts.                                                      *)

LEMMA HandleSets ==
  ASSUME NEW S, S \subseteq Handles
  PROVE  IsFiniteSet(S) /\ Cardinality(S) \in Nat /\ Cardinality(S) <= MaxHandles
<1>1. 0 \in Int /\ MaxHandles - 1 \in Int /\ (MaxHandles - 1) - 0 + 1 = MaxHandles
      /\ (0 > MaxHandles - 1 => MaxHandles = 0)
  BY ConstantFacts
<1>2. IsFiniteSet(Handles) /\ Cardinality(Handles) = MaxHandles
  BY <1>1, FS_Interval DEF Handles
<1>3. S \in SUBSET Handles
  OBVIOUS
<1>4. IsFiniteSet(S) /\ Cardinality(S) <= Cardinality(Handles)
  BY <1>2, <1>3, FS_Subset
<1>. QED BY <1>2, <1>4, FS_CardinalityType

LEMMA CountAdds ==
  ASSUME NEW S, S \subseteq Handles, NEW h \in Handles, h \notin S
  PROVE  ((Cardinality(S) % CountMod) + 1) % CountMod = Cardinality(S \cup {h}) % CountMod
<1>1. IsFiniteSet(S) /\ Cardinality(S) \in Nat
  BY HandleSets
<1>2. Cardinality(S \cup {h}) = Cardinality(S) + 1
  BY <1>1, FS_AddElement
<1>3. \A n \in Nat : ((n % CountMod) + 1) % CountMod = (n + 1) % CountMod
  BY DEF CountMod
<1>. QED BY <1>1, <1>2, <1>3

LEMMA CountDrops ==
  ASSUME NEW S, S \subseteq Handles, NEW h \in S
  PROVE  Dec(Cardinality(S) % CountMod) = Cardinality(S \ {h}) % CountMod
<1>1. IsFiniteSet(S) /\ Cardinality(S) \in Nat
  BY HandleSets
<1>2. Cardinality(S \ {h}) = Cardinality(S) - 1
  BY <1>1, FS_RemoveElement
<1>3. \A n \in Nat : Dec(n % CountMod) = (n - 1) % CountMod
  BY DEF CountMod, Dec
<1>. QED BY <1>1, <1>2, <1>3

Exact(o) == o \in FileObjs => ClosesSucceed
CountOK(o) == handle_count[o] = Cardinality(Counted(o)) % CountMod

LEMMA ReassignedSame ==
  ASSUME \A d \in Calls : call'[d] = call[d] \/ (call'[d].at # "hassign" /\ call[d].at # "hassign")
  PROVE  Reassigned' = Reassigned
  BY DEF Reassigned

LEMMA KeepCount ==
  ASSUME CountInv, \A g \in Handles : Kept(g), handle_count' = handle_count, Reassigned' = Reassigned
  PROVE  CountInv'
<1>1. \A o \in Objects : Counted(o)' = Counted(o)
  BY DEF Counted, HandlesOf, Kept
<1>. QED BY <1>1 DEF CountInv

LEMMA AddCount ==
  ASSUME Base, CountInv, NEW h \in Handles, NEW o \in Objects, htab[h].obj = NULL, Moved(h, o),
         handle_count' = [handle_count EXCEPT ![o] = (@ + 1) % CountMod],
         Reassigned' = Reassigned
  PROVE  CountInv'
<1>1. h \notin Reassigned /\ NULL \notin Objects
  BY FreeIsNobodys, ConstantFacts
<1>2. Counted(o)' = Counted(o) \cup {h} /\ h \notin Counted(o)
  BY <1>1 DEF Counted, HandlesOf, Moved, Kept
<1>3. \A x \in Objects \ {o} : Counted(x)' = Counted(x) /\ handle_count'[x] = handle_count[x]
  BY <1>1 DEF Counted, HandlesOf, Moved, Kept, Base, TypeOK
<1>4. handle_count'[o] = (handle_count[o] + 1) % CountMod
  BY DEF Base, TypeOK
<1>5. Counted(o) \subseteq Handles
  BY DEF Counted, HandlesOf
<1>6. ((Cardinality(Counted(o)) % CountMod) + 1) % CountMod = Cardinality(Counted(o)') % CountMod
  BY <1>2, <1>5, CountAdds
<1>. QED BY <1>3, <1>4, <1>6 DEF CountInv

LEMMA DropCount ==
  ASSUME Base, CountInv, NEW h \in Handles, NEW o \in Objects, htab[h].obj = o, Moved(h, NULL),
         h \notin Reassigned, handle_count' = [handle_count EXCEPT ![o] = Dec(@)],
         Reassigned' = Reassigned
  PROVE  CountInv'
<1>1. NULL \notin Objects
  BY ConstantFacts
<1>2. Counted(o)' = Counted(o) \ {h} /\ h \in Counted(o)
  BY <1>1 DEF Counted, HandlesOf, Moved, Kept
<1>3. \A x \in Objects \ {o} : Counted(x)' = Counted(x) /\ handle_count'[x] = handle_count[x]
  BY <1>1 DEF Counted, HandlesOf, Moved, Kept, Base, TypeOK
<1>4. handle_count'[o] = Dec(handle_count[o])
  BY DEF Base, TypeOK
<1>5. Counted(o) \subseteq Handles
  BY DEF Counted, HandlesOf
<1>6. Dec(Cardinality(Counted(o)) % CountMod) = Cardinality(Counted(o)') % CountMod
  BY <1>2, <1>5, CountDrops
<1>. QED BY <1>3, <1>4, <1>6 DEF CountInv

\* hassign without a wait: oo loses h and o gets it.
LEMMA MoveCount ==
  ASSUME Base, CountInv, NEW h \in Handles, NEW o \in Objects, NEW oo \in Objects,
         htab[h].obj = oo, Moved(h, o), h \notin Reassigned, Reassigned' = Reassigned,
         handle_count' = [[handle_count EXCEPT ![oo] = Dec(@)] EXCEPT ![o] = (@ + 1) % CountMod]
  PROVE  CountInv'
<1>1. \A x \in Objects : Counted(x) \subseteq Handles
  BY DEF Counted, HandlesOf
<1>2. h \in Counted(oo) /\ Counted(o)' = (Counted(o) \ {h}) \cup {h}
      /\ \A x \in Objects \ {o} : Counted(x)' = Counted(x) \ {h}
  BY DEF Counted, HandlesOf, Moved, Kept
<1>3. \A x \in Objects \ {oo} : Counted(x) \ {h} = Counted(x)
  BY DEF Counted, HandlesOf
<1>4. \A x \in Objects : handle_count'[x] =
         LET n == IF x = oo THEN Dec(handle_count[x]) ELSE handle_count[x]
         IN IF x = o THEN (n + 1) % CountMod ELSE n
  BY DEF Base, TypeOK
<1>5. ASSUME NEW x \in Objects, Exact(x)
      PROVE  CountOK(x)'
  <2>1. handle_count[x] = Cardinality(Counted(x)) % CountMod
    BY <1>5 DEF CountInv, Exact
  <2>. DEFINE n == IF x = oo THEN Dec(handle_count[x]) ELSE handle_count[x]
  <2>2. n = Cardinality(Counted(x) \ {h}) % CountMod
    BY <1>1, <1>2, <1>3, <2>1, CountDrops
  <2>3. handle_count'[x] = IF x = o THEN (n + 1) % CountMod ELSE n
    BY <1>4
  <2>. HIDE DEF n
  <2>4. CASE x = o
    <3>1. h \notin Counted(x) \ {h} /\ Counted(x) \ {h} \subseteq Handles
      BY <1>1
    <3>2. ((Cardinality(Counted(x) \ {h}) % CountMod) + 1) % CountMod
             = Cardinality((Counted(x) \ {h}) \cup {h}) % CountMod
      BY <3>1, CountAdds
    <3>. QED BY <3>2, <2>2, <2>3, <2>4, <1>2 DEF CountOK
  <2>5. CASE x # o
    BY <2>2, <2>3, <2>5, <1>2 DEF CountOK
  <2>. QED BY <2>4, <2>5
<1>. QED BY <1>5 DEF CountInv, CountOK, Exact

LEMMA Dup2UsedCount ==
  ASSUME Base, CountInv, OneFileUser, NEW c \in Calls, NEW h1 \in Handles,
         NEW h2 \in 0 .. MaxHandles, Dup2Used(c, h1, h2)
  PROVE  CountInv'
<1>1. PICK o \in Objects, oo \in Objects :
         /\ oo = htab[h2].obj /\ h2 \in Handles /\ h2 \notin Reassigned /\ call[c] = User
         /\ \/ /\ Moved(h2, o) /\ UNCHANGED <<lock_count, call>>
               /\ handle_count' = [[handle_count EXCEPT ![oo] = Dec(@)] EXCEPT ![o] = (@ + 1) % CountMod]
            \/ /\ htab' = htab
               /\ handle_count' = [handle_count EXCEPT ![oo] = Dec(@)]
               /\ call' = [call EXCEPT ![c] = InAssign(oo, o, h2)]
  BY Dup2UsedTable
<1>2. CASE /\ Moved(h2, o) /\ UNCHANGED <<lock_count, call>>
           /\ handle_count' = [[handle_count EXCEPT ![oo] = Dec(@)] EXCEPT ![o] = (@ + 1) % CountMod]
  BY <1>1, <1>2, ReassignedSame, MoveCount
<1>3. CASE /\ htab' = htab
           /\ handle_count' = [handle_count EXCEPT ![oo] = Dec(@)]
           /\ call' = [call EXCEPT ![c] = InAssign(oo, o, h2)]
  <2>1. call'[c].at = "hassign" /\ call'[c].h = h2 /\ call[c].at # "hassign"
        /\ \A d \in Calls \ {c} : call'[d] = call[d]
    BY <1>1, <1>3, CallFields DEF Base, TypeOK
  <2>2. Reassigned' = Reassigned \cup {h2}
    BY <2>1 DEF Reassigned
  <2>3. /\ Counted(oo)' = Counted(oo) \ {h2} /\ h2 \in Counted(oo)
        /\ \A x \in Objects \ {oo} : Counted(x)' = Counted(x)
    BY <1>1, <1>3, <2>2 DEF Counted, HandlesOf
  <2>4. Counted(oo) \subseteq Handles
    BY DEF Counted, HandlesOf
  <2>5. Dec(Cardinality(Counted(oo)) % CountMod) = Cardinality(Counted(oo)') % CountMod
    BY <2>3, <2>4, CountDrops
  <2>6. handle_count'[oo] = Dec(handle_count[oo])
        /\ \A x \in Objects \ {oo} : handle_count'[x] = handle_count[x]
    BY <1>3 DEF Base, TypeOK
  <2>. QED BY <2>3, <2>5, <2>6 DEF CountInv
<1>. QED BY <1>1, <1>2, <1>3

\* The end of a reassignment, as the later layers use it.
LEMMA AssignDoneTable ==
  ASSUME Base, OneFileUser, NEW c \in Calls, NEW rc \in CloseResults, AssignDone(c, rc)
  PROVE  \E o, oo \in Objects : \E h \in Handles :
         /\ call[c].at = "hassign" /\ call[c].new = o /\ call[c].obj = oo /\ call[c].h = h
         /\ c \in FileUsers /\ oo \in FileObjs /\ htab[h].obj = oo /\ ~htab[h].prot
         /\ \A d \in Calls \ {c} : call[d].at # "hassign" /\ call'[d] = call[d]
         /\ Reassigned = {h} /\ Reassigned' = {} /\ call'[c] = User
         /\ lock_count' = [lock_count EXCEPT ![o] = Dec(@)]
         /\ \/ /\ rc = "ok" /\ Moved(h, o)
               /\ handle_count' = [handle_count EXCEPT ![o] = (@ + 1) % CountMod]
            \/ rc = "error" /\ htab' = htab /\ handle_count' = handle_count
         /\ hndl' = hndl
         /\ LET gone == {x \in {oo} : Unlocked(x)}
                        \cup {x \in {o} : Dec(lock_count[o]) = 0 /\ handle_count'[x] = 0} IN
            /\ life' = [x \in Objects |-> IF x \in gone THEN "destroyed" ELSE life[x]]
            /\ destroys' = [x \in Objects |-> IF x \in gone /\ destroys[x] < 2
                                              THEN destroys[x] + 1 ELSE destroys[x]]
<1>1. PICK o \in Objects, oo \in Objects, h \in Handles :
         /\ call[c].at = "hassign" /\ call[c].new = o /\ call[c].obj = oo /\ call[c].h = h
         /\ c \in FileUsers /\ oo \in FileObjs /\ htab[h].obj = oo /\ ~htab[h].prot
         /\ HUSED(h)
  BY CallShape, ConstantFacts DEF AssignDone, Base, UseInv, CallUse, HUSED
<1>2. call'[c] = User /\ \A d \in Calls \ {c} : call[d].at # "hassign" /\ call'[d] = call[d]
  BY <1>1 DEF AssignDone, Base, TypeOK, UseInv, CallUse, OneFileUser
<1>3. Reassigned = {h} /\ Reassigned' = {}
  BY <1>1, <1>2, CallFields DEF Reassigned
<1>4. lock_count' = [lock_count EXCEPT ![o] = Dec(@)] /\ hndl' = hndl
  BY <1>1 DEF AssignDone
<1>5. \/ /\ rc = "ok" /\ Moved(h, o)
         /\ handle_count' = [handle_count EXCEPT ![o] = (@ + 1) % CountMod]
      \/ rc = "error" /\ htab' = htab /\ handle_count' = handle_count
  <2>1. CASE rc = "ok"
    <3>1. /\ htab' = [htab EXCEPT ![h] = UsedEntry(o)]
          /\ handle_count' = [handle_count EXCEPT ![o] = (@ + 1) % CountMod]
          /\ UNCHANGED <<htabsize, hfreelist>>
      BY <1>1, <2>1 DEF AssignDone
    <3>2. Moved(h, o)
      BY <1>1, <3>1, ReplaceStep DEF Base
    <3>. QED BY <2>1, <3>1, <3>2
  <2>2. CASE rc # "ok"
    BY <2>2, ConstantFacts DEF AssignDone
  <2>. QED BY <2>1, <2>2
<1>6. LET gone == {x \in {oo} : Unlocked(x)}
                  \cup {x \in {o} : Dec(lock_count[o]) = 0 /\ handle_count'[x] = 0} IN
      /\ life' = [x \in Objects |-> IF x \in gone THEN "destroyed" ELSE life[x]]
      /\ destroys' = [x \in Objects |-> IF x \in gone /\ destroys[x] < 2
                                        THEN destroys[x] + 1 ELSE destroys[x]]
  BY <1>1 DEF AssignDone
<1>. QED BY <1>1, <1>2, <1>3, <1>4, <1>5, <1>6

LEMMA AssignDoneCount ==
  ASSUME Base, CountInv, OneFileUser, NEW c \in Calls, NEW rc \in CloseResults, AssignDone(c, rc)
  PROVE  CountInv'
<1>1. PICK o \in Objects, oo \in Objects, h \in Handles :
         /\ oo \in FileObjs /\ htab[h].obj = oo /\ Reassigned = {h} /\ Reassigned' = {}
         /\ \/ /\ rc = "ok" /\ Moved(h, o)
               /\ handle_count' = [handle_count EXCEPT ![o] = (@ + 1) % CountMod]
            \/ rc = "error" /\ htab' = htab /\ handle_count' = handle_count
  BY AssignDoneTable
<1>2. CASE /\ rc = "ok" /\ Moved(h, o)
           /\ handle_count' = [handle_count EXCEPT ![o] = (@ + 1) % CountMod]
  <2>1. Counted(o)' = Counted(o) \cup {h} /\ h \notin Counted(o)
        /\ \A x \in Objects \ {o} : Counted(x)' = Counted(x)
    BY <1>1, <1>2 DEF Counted, HandlesOf, Moved, Kept
  <2>2. Counted(o) \subseteq Handles
    BY DEF Counted, HandlesOf
  <2>3. ((Cardinality(Counted(o)) % CountMod) + 1) % CountMod = Cardinality(Counted(o)') % CountMod
    BY <2>1, <2>2, CountAdds
  <2>4. handle_count'[o] = (handle_count[o] + 1) % CountMod
        /\ \A x \in Objects \ {o} : handle_count'[x] = handle_count[x]
    BY <1>2 DEF Base, TypeOK
  <2>. QED BY <2>1, <2>3, <2>4 DEF CountInv
<1>3. CASE rc = "error" /\ htab' = htab /\ handle_count' = handle_count
  <2>1. \A x \in Objects : x \notin FileObjs => Counted(x)' = Counted(x)
    BY <1>1, <1>3 DEF Counted, HandlesOf
  <2>2. ~ClosesSucceed
    BY <1>3 DEF ClosesSucceed
  <2>. QED BY <1>3, <2>1, <2>2 DEF CountInv
<1>. QED BY <1>1, <1>2, <1>3

\* halloc for an object, in Create, CreateThread and Dup.
LEMMA AllocCount ==
  ASSUME Base, CountInv, CanAlloc, NEW o \in Objects, NEW prot \in BOOLEAN, halloc(o, prot),
         call' = call
  PROVE  CountInv'
<1>1. PICK h \in Handles : /\ htab[h].obj = NULL /\ Moved(h, o)
                           /\ handle_count' = [handle_count EXCEPT ![o] = (@ + 1) % CountMod]
  BY AllocStep DEF Base
<1>2. Reassigned' = Reassigned
  BY ReassignedSame
<1>. QED BY <1>1, <1>2, AddCount

LEMMA CountStep ==
  ASSUME Base, CountInv, OneFileUser, [Next]_vars
  PROVE  CountInv'
<1>1. ASSUME NEW c \in Calls, NEW o \in Objects, Create(c, o)
      PROVE  CountInv'
  BY <1>1, AllocCount DEF Create
<1>2. ASSUME NEW c \in Calls, NEW o \in Objects, CreateThread(c, o)
      PROVE  CountInv'
  BY <1>2, AllocCount DEF CreateThread
<1>3. ASSUME NEW c \in Calls, NEW h \in Handles, Dup(c, h)
      PROVE  CountInv'
  <2>1. PICK o \in Objects : o = hlookup(h)
    BY <1>3, Looked DEF Dup, Lockable
  <2>. QED BY <1>3, <2>1, AllocCount DEF Dup
<1>4. ASSUME NEW c \in Calls, NEW h \in Handles, Lock(c, h)
      PROVE  CountInv'
  <2>1. \A d \in Calls : call'[d] = call[d] \/ (call'[d].at # "hassign" /\ call[d].at # "hassign")
    BY <1>4, CallFields DEF Lock, Running, Base, TypeOK
  <2>2. Reassigned' = Reassigned
    BY <2>1, ReassignedSame
  <2>. QED BY <1>4, <2>2, SameTable, KeepCount DEF Lock, Base
<1>5. ASSUME NEW c \in Calls, Unlock(c)
      PROVE  CountInv'
  <2>1. \A d \in Calls : call'[d] = call[d] \/ (call'[d].at # "hassign" /\ call[d].at # "hassign")
    BY <1>5, CallFields DEF Unlock, Base, TypeOK
  <2>2. Reassigned' = Reassigned
    BY <2>1, ReassignedSame
  <2>. QED BY <1>5, <2>2, SameTable, KeepCount DEF Unlock, Base
<1>6. ASSUME NEW c \in Calls, CloseDone(c)
      PROVE  CountInv'
  <2>1. \A d \in Calls : call'[d] = call[d] \/ (call'[d].at # "hassign" /\ call[d].at # "hassign")
    BY <1>6, CallFields DEF CloseDone, Base, TypeOK
  <2>2. Reassigned' = Reassigned
    BY <2>1, ReassignedSame
  <2>. QED BY <1>6, <2>2, SameTable, KeepCount DEF CloseDone, Base
<1>7. ASSUME NEW c \in Calls, NEW h \in Handles, Close(c, h)
      PROVE  CountInv'
  <2>1. PICK o \in Objects : o = htab[h].obj /\ HUSED(h) /\ Uses(c, o)
    BY <1>7, Looked DEF Close
  <2>2. call[c].at = "user"
    BY <1>7, CallFields DEF Close, Running
  <2>3. h \notin Reassigned
    BY <2>1, <2>2, NotReassigned
  <2>4. Moved(h, NULL)
    BY <1>7, <2>1, FreeStep DEF Close, hfree, Base
  <2>5. handle_count' = [handle_count EXCEPT ![o] = Dec(@)]
    BY <1>7, <2>1 DEF Close, hfree
  <2>6. call' = call \/ call' = [call EXCEPT ![c] = InFree(o)]
    BY <1>7, <2>1 DEF Close, hfree
  <2>7. \A d \in Calls : call'[d] = call[d] \/ (call'[d].at # "hassign" /\ call[d].at # "hassign")
    BY <2>2, <2>6, CallFields DEF Base, TypeOK
  <2>8. Reassigned' = Reassigned
    BY <2>7, ReassignedSame
  <2>. QED BY <2>1, <2>3, <2>4, <2>5, <2>8, DropCount
<1>8. ASSUME NEW c \in Calls, NEW o \in Objects, ExitThread(c, o)
      PROVE  CountInv'
  <2>1. hndl[o] # HEND
    BY <1>8 DEF ExitThread
  <2>2. PICK h \in Handles : h = hndl[o] /\ htab[h].obj = o /\ htab[h].prot
    BY <2>1 DEF Base, TypeOK, UseInv, ThreadUse
  <2>3. HUSED(h) /\ h \notin Reassigned
    BY <2>2, ConstantFacts DEF HUSED, Reassigned, Base, UseInv, CallUse
  <2>4. Moved(h, NULL)
    BY <1>8, <2>2, <2>3, FreeStep DEF ExitThread, Base
  <2>5. handle_count' = [handle_count EXCEPT ![o] = Dec(@)] /\ call' = call
    BY <1>8 DEF ExitThread
  <2>6. Reassigned' = Reassigned
    BY <2>5, ReassignedSame
  <2>. QED BY <2>2, <2>3, <2>4, <2>5, <2>6, DropCount
<1>9. ASSUME NEW c \in Calls, NEW h1 \in Handles, NEW h2 \in 0 .. MaxHandles, Dup2Full(c, h1, h2)
      PROVE  CountInv'
  <2>1. MaxPages \in 0 .. MaxPages /\ MaxHandles = PerPage * MaxPages
    BY ConstantFacts
  <2>2. MaxHandles >= htabsize
    BY SizeType DEF Base
  <2>3. \A g \in Handles : Kept(g)
    BY <1>9, <2>1, <2>2, GrowStep DEF Dup2Full, Base
  <2>4. handle_count' = handle_count /\ call' = call
    BY <1>9 DEF Dup2Full, objs
  <2>5. Reassigned' = Reassigned
    BY <2>4, ReassignedSame
  <2>. QED BY <2>3, <2>4, <2>5, KeepCount
<1>10. ASSUME NEW c \in Calls, NEW h1 \in Handles, NEW h2 \in 0 .. MaxHandles, Dup2Free(c, h1, h2)
       PROVE  CountInv'
  <2>1. PICK o \in Objects :
            \/ /\ h2 \in Handles /\ htab[h2].obj = NULL /\ Moved(h2, o)
               /\ handle_count' = [handle_count EXCEPT ![o] = (@ + 1) % CountMod]
               /\ UNCHANGED <<lock_count, call>>
            \/ /\ \A g \in Handles : Kept(g)
               /\ call' = [call EXCEPT ![c] = Hung]
               /\ UNCHANGED handle_count
    BY <1>10, Dup2FreeTable
  <2>2. \A d \in Calls : call'[d] = call[d] \/ (call'[d].at # "hassign" /\ call[d].at # "hassign")
    BY <1>10, <2>1, CallFields DEF Dup2Free, Running, Base, TypeOK
  <2>3. Reassigned' = Reassigned
    BY <2>2, ReassignedSame
  <2>. QED BY <2>1, <2>3, AddCount, KeepCount
<1>11. CASE UNCHANGED vars
  <2>1. Reassigned' = Reassigned
    BY <1>11, ReassignedSame DEF vars
  <2>. QED BY <1>11, <2>1, KeepCount DEF vars, Kept
<1>. QED BY <1>1, <1>2, <1>3, <1>4, <1>5, <1>6, <1>7, <1>8, <1>9, <1>10, <1>11,
            Dup2UsedCount, AssignDoneCount DEF Next

\* With fewer handles than a count can hold, the count is the number.
LEMMA SmallCount ==
  ASSUME FewHandles, NEW S, S \subseteq Handles
  PROVE  Cardinality(S) % CountMod = Cardinality(S)
<1>1. Cardinality(S) \in Nat /\ Cardinality(S) < CountMod
  BY HandleSets, ConstantFacts DEF FewHandles
<1>2. \A n \in Nat : n < CountMod => n % CountMod = n
  BY DEF CountMod
<1>. QED BY <1>1, <1>2

LEMMA ExactCount ==
  ASSUME CountInv, FewHandles, NEW o \in Objects, Exact(o)
  PROVE  handle_count[o] = Cardinality(Counted(o))
<1>1. Counted(o) \subseteq Handles
  BY DEF Counted, HandlesOf
<1>. QED BY <1>1, SmallCount DEF CountInv, Exact

\* What a count of one handle more or less says of the handles.
LEMMA LastHandle ==
  ASSUME CountInv, FewHandles, NEW o \in Objects, Exact(o), NEW h \in Counted(o)
  PROVE  /\ Dec(handle_count[o]) \in Nat
         /\ Dec(handle_count[o]) = 0 <=> Counted(o) = {h}
<1>1. handle_count[o] = Cardinality(Counted(o))
  BY ExactCount
<1>2. Counted(o) \subseteq Handles
  BY DEF Counted, HandlesOf
<1>3. IsFiniteSet(Counted(o)) /\ Cardinality(Counted(o)) \in Nat /\ Cardinality(Counted(o)) < CountMod
  BY <1>2, HandleSets, ConstantFacts DEF FewHandles
<1>4. IsFiniteSet(Counted(o) \ {h}) /\ Cardinality(Counted(o) \ {h}) = Cardinality(Counted(o)) - 1
  BY <1>3, FS_RemoveElement
<1>5. Cardinality(Counted(o) \ {h}) \in Nat
  BY <1>4, FS_CardinalityType
<1>6. \A n \in Nat : n > 0 /\ n < CountMod => Dec(n) = n - 1
  BY DEF CountMod, Dec
<1>7. Dec(handle_count[o]) = Cardinality(Counted(o) \ {h})
  BY <1>1, <1>3, <1>4, <1>5, <1>6
<1>8. Cardinality(Counted(o) \ {h}) = 0 <=> Counted(o) \ {h} = {}
  BY <1>4, FS_EmptySet
<1>. QED BY <1>5, <1>7, <1>8

-----------------------------------------------------------------------------
(* The thread's own handle keeps it alive.                                 *)

\* The last handle is not a handle next to the thread's own.
LEMMA NotTheLast ==
  ASSUME Base, CountInv, FewHandles, NEW o \in ThreadObjs, hndl[o] # HEND,
         NEW h \in Handles, htab[h].obj = o, ~htab[h].prot
  PROVE  Dec(handle_count[o]) # 0
<1>1. o \in Objects /\ o \notin FileObjs /\ Exact(o)
  BY ConstantFacts DEF Exact
<1>2. h \in Counted(o) /\ hndl[o] \in Counted(o) /\ hndl[o] # h
  BY <1>1 DEF Counted, HandlesOf, Reassigned, Base, TypeOK, UseInv, ThreadUse, CallUse
<1>. QED BY <1>1, <1>2, LastHandle

LEMMA ThreadLiveStep ==
  ASSUME Base, CountInv, ThreadLive, OneFileUser, FewHandles, [Next]_vars
  PROVE  ThreadLive'
<1>. SUFFICES ASSUME NEW t \in ThreadObjs, hndl'[t] # HEND PROVE life'[t] = "live"
  BY DEF ThreadLive
<1>0. t \in Objects /\ t \notin FileObjs
  BY ConstantFacts
<1>1. ASSUME hndl[t] # HEND, life'[t] = life[t] PROVE life'[t] = "live"
  BY <1>1 DEF ThreadLive
<1>2. ASSUME NEW c \in Calls, NEW o \in Objects, Create(c, o) \/ CreateThread(c, o)
      PROVE  life'[t] = "live"
  <2>1. CASE o = t
    BY <1>2, <2>1 DEF Create, CreateThread, Base, TypeOK
  <2>2. CASE o # t
    BY <1>0, <1>1, <1>2, <2>2 DEF Create, CreateThread, Base, TypeOK
  <2>. QED BY <2>1, <2>2
<1>3. ASSUME NEW c \in Calls, NEW o \in Objects, ExitThread(c, o)
      PROVE  life'[t] = "live"
  <2>1. hndl' = [hndl EXCEPT ![o] = HEND] /\ \A x \in Objects \ {o} : life'[x] = life[x]
    BY <1>3 DEF ExitThread, Destroyed, Base, TypeOK
  <2>2. o # t /\ hndl[t] # HEND
    BY <2>1, <1>0 DEF Base, TypeOK
  <2>. QED BY <2>1, <2>2, <1>0, <1>1
<1>4. ASSUME NEW c \in Calls, NEW h \in Handles, Dup(c, h) \/ Lock(c, h)
      PROVE  life'[t] = "live"
  BY <1>1, <1>4 DEF Dup, Lock
<1>5. ASSUME NEW c \in Calls, NEW h \in Handles, Close(c, h)
      PROVE  life'[t] = "live"
  <2>1. hndl' = hndl /\ ~htab[h].prot
    BY <1>5 DEF Close, hfree
  <2>2. CASE htab[h].obj = t
    <3>1. Dec(handle_count[t]) # 0
      BY <2>1, <2>2, NotTheLast
    <3>. QED BY <3>1, <2>1, <2>2, <1>1, <1>5 DEF Close, hfree
  <2>3. CASE htab[h].obj # t
    <3>1. life'[t] = life[t]
      BY <2>3, <1>0, <1>5 DEF Close, hfree, Destroyed, Base, TypeOK
    <3>. QED BY <3>1, <2>1, <1>1
  <2>. QED BY <2>2, <2>3
<1>6. ASSUME NEW c \in Calls, Unlock(c) PROVE life'[t] = "live"
  <2>1. hndl' = hndl /\ handle_count' = handle_count
    BY <1>6 DEF Unlock
  <2>2. handle_count[t] # 0
    <3>1. Exact(t) /\ hndl[t] \in Counted(t)
      BY <1>0, <2>1 DEF Exact, Counted, HandlesOf, Reassigned, Base, TypeOK, UseInv, ThreadUse, CallUse
    <3>2. Dec(handle_count[t]) \in Nat /\ handle_count[t] = Cardinality(Counted(t))
          /\ Counted(t) \subseteq Handles
      BY <3>1, <1>0, LastHandle, ExactCount DEF Counted, HandlesOf
    <3>3. Cardinality(Counted(t)) # 0
      BY <3>1, <3>2, HandleSets, FS_EmptySet
    <3>. QED BY <3>2, <3>3
  <2>3. life'[t] = life[t]
    <3>1. call[c].obj = t => UNCHANGED life
      BY <1>6, <2>1, <2>2 DEF Unlock, Orel, OrelDestroys
    <3>2. call[c].obj # t => life'[t] = life[t]
      BY <1>0, <1>6 DEF Unlock, Orel, Destroyed, Base, TypeOK
    <3>. QED BY <3>1, <3>2
  <2>. QED BY <2>1, <2>3, <1>1
<1>7. ASSUME NEW c \in Calls, CloseDone(c) PROVE life'[t] = "live"
  <2>1. call[c].obj \in FileObjs
    BY <1>7 DEF CloseDone, Base, UseInv, CallUse
  <2>. QED BY <2>1, <1>0, <1>1, <1>7 DEF CloseDone, Destroyed, Base, TypeOK
<1>8. ASSUME NEW c \in Calls, NEW h1 \in Handles, NEW h2 \in 0 .. MaxHandles,
             Dup2Full(c, h1, h2) \/ Dup2Free(c, h1, h2)
      PROVE  life'[t] = "live"
  BY <1>1, <1>8 DEF Dup2Full, Dup2Free, objs
<1>9. ASSUME NEW c \in Calls, NEW h1 \in Handles, NEW h2 \in 0 .. MaxHandles, Dup2Used(c, h1, h2)
      PROVE  life'[t] = "live"
  <2>1. PICK o \in Objects, oo \in Objects :
         /\ oo = htab[h2].obj /\ h2 \in Handles /\ ~htab[h2].prot /\ hndl' = hndl
         /\ \/ /\ IF Dec(handle_count[oo]) > 0 THEN UNCHANGED <<life, destroys>>
                  ELSE IF Unlocked(oo) /\ oo # o
                  THEN life' = Destroyed(life, oo) /\ destroys' = CountDestroy(oo)
                  ELSE life' = [life EXCEPT ![oo] = "closed"] /\ UNCHANGED destroys
            \/ oo \in FileObjs /\ life' = [life EXCEPT ![oo] = "closed"]
    BY <1>9, Dup2UsedTable
  <2>2. CASE oo = t
    <3>1. Dec(handle_count[t]) # 0
      BY <2>1, <2>2, NotTheLast
    <3>2. Dec(handle_count[t]) \in Nat
      <4>1. handle_count[t] \in 0 .. (CountMod - 1)
        BY <1>0 DEF Base, TypeOK
      <4>2. Dec(handle_count[t]) \in 0 .. (CountMod - 1)
        BY <4>1, CountType
      <4>3. CountMod \in Int
        BY DEF CountMod
      <4>. QED BY <4>2, <4>3
    <3>. QED BY <3>1, <3>2, <2>1, <2>2, <1>0, <1>1
  <2>3. CASE oo # t
    <3>1. life'[t] = life[t]
      BY <2>1, <2>3, <1>0 DEF Destroyed, Base, TypeOK
    <3>. QED BY <3>1, <2>1, <1>1
  <2>. QED BY <2>2, <2>3
<1>10. ASSUME NEW c \in Calls, NEW rc \in CloseResults, AssignDone(c, rc)
       PROVE  life'[t] = "live"
  <2>1. PICK o \in Objects, oo \in Objects, h \in Handles :
         /\ oo \in FileObjs /\ hndl' = hndl
         /\ \/ /\ handle_count' = [handle_count EXCEPT ![o] = (@ + 1) % CountMod]
            \/ handle_count' = handle_count
         /\ LET gone == {x \in {oo} : Unlocked(x)}
                        \cup {x \in {o} : Dec(lock_count[o]) = 0 /\ handle_count'[x] = 0} IN
            /\ life' = [x \in Objects |-> IF x \in gone THEN "destroyed" ELSE life[x]]
    BY <1>10, AssignDoneTable
  <2>2. CountInv' /\ Base'
    BY <1>10, AssignDoneCount, AssignDoneBase
  <2>3. handle_count'[t] # 0
    <3>1. Exact(t) /\ hndl'[t] \in Counted(t)'
      BY <1>0, <2>1, <2>2 DEF Exact, Counted, HandlesOf, Reassigned, Base, TypeOK, UseInv, ThreadUse, CallUse
    <3>2. handle_count'[t] = Cardinality(Counted(t)') /\ Counted(t)' \subseteq Handles
      <4>1. Counted(t)' \subseteq Handles
        BY DEF Counted, HandlesOf
      <4>2. handle_count'[t] = Cardinality(Counted(t)') % CountMod
        BY <3>1, <1>0, <2>2 DEF CountInv, Exact
      <4>. QED BY <4>1, <4>2, SmallCount
    <3>3. Cardinality(Counted(t)') # 0
      BY <3>1, <3>2, HandleSets, FS_EmptySet
    <3>. QED BY <3>2, <3>3
  <2>4. life'[t] = life[t]
    BY <2>1, <2>3, <1>0
  <2>. QED BY <2>1, <2>4, <1>1
<1>11. CASE UNCHANGED vars
  BY <1>1, <1>11 DEF vars
<1>. QED BY <1>2, <1>3, <1>4, <1>5, <1>6, <1>7, <1>8, <1>9, <1>10, <1>11 DEF Next

-----------------------------------------------------------------------------
(* The lock counts.                                                        *)

LEMMA LockerSets ==
  ASSUME FewCalls, NEW S, S \subseteq Calls
  PROVE  IsFiniteSet(S) /\ Cardinality(S) \in Nat /\ Cardinality(S) < CountMod
<1>1. S \in SUBSET Calls
  OBVIOUS
<1>2. IsFiniteSet(S) /\ Cardinality(S) <= Cardinality(Calls)
  BY <1>1, FS_Subset DEF FewCalls
<1>3. Cardinality(S) \in Nat /\ Cardinality(Calls) \in Nat /\ CountMod \in Nat
  BY <1>2, FS_CardinalityType DEF FewCalls, CountMod
<1>. QED BY <1>2, <1>3 DEF FewCalls

LEMMA LockerAdds ==
  ASSUME FewCalls, NEW S, S \subseteq Calls, NEW c \in Calls, c \notin S
  PROVE  (Cardinality(S) + 1) % CountMod = Cardinality(S \cup {c})
<1>1. IsFiniteSet(S) /\ Cardinality(S) \in Nat /\ S \cup {c} \subseteq Calls
  BY LockerSets
<1>2. Cardinality(S \cup {c}) = Cardinality(S) + 1
  BY <1>1, FS_AddElement
<1>3. Cardinality(S \cup {c}) < CountMod
  BY <1>1, LockerSets
<1>4. \A n \in Nat : n < CountMod => n % CountMod = n
  BY DEF CountMod
<1>5. Cardinality(S) + 1 \in Nat
  BY <1>1
<1>. QED BY <1>2, <1>3, <1>4, <1>5

LEMMA LockerDrops ==
  ASSUME FewCalls, NEW S, S \subseteq Calls, NEW c \in S
  PROVE  Dec(Cardinality(S)) = Cardinality(S \ {c})
<1>1. IsFiniteSet(S) /\ Cardinality(S) \in Nat /\ Cardinality(S) < CountMod
  BY LockerSets
<1>2. Cardinality(S \ {c}) = Cardinality(S) - 1 /\ IsFiniteSet(S \ {c})
  BY <1>1, FS_RemoveElement
<1>3. Cardinality(S \ {c}) \in Nat
  BY <1>2, FS_CardinalityType
<1>4. \A n \in Nat : n > 0 /\ n < CountMod => Dec(n) = n - 1
  BY DEF CountMod, Dec
<1>. QED BY <1>1, <1>2, <1>3, <1>4

LEMMA LockersAreCalls == \A o : Lockers(o) \subseteq Calls /\ (Lockers(o) \subseteq Calls)'
  BY DEF Lockers

LEMMA LockKept ==
  ASSUME LockInv, ~Spins, lock_count' = lock_count,
         \A d \in Calls : \/ call'[d] = call[d]
                          \/ /\ call'[d].at \notin {"call", "hassign"}
                             /\ call[d].at \notin {"call", "hassign"}
  PROVE  LockInv'
<1>1. \A o \in Objects : Lockers(o)' = Lockers(o)
  BY DEF Lockers
<1>. QED BY <1>1 DEF LockInv

LEMMA LockAdded ==
  ASSUME Base, LockInv, ~Spins, FewCalls, NEW c \in Calls, call[c] = User, NEW o \in Objects,
         lock_count' = [lock_count EXCEPT ![o] = (@ + 1) % CountMod],
         \A d \in Calls \ {c} : call'[d] = call[d],
         \/ call'[c].at = "call" /\ call'[c].obj = o
         \/ call'[c].at = "hassign" /\ call'[c].new = o
  PROVE  LockInv'
<1>1. c \notin Lockers(o) /\ Lockers(o)' = Lockers(o) \cup {c}
      /\ \A x \in Objects \ {o} : Lockers(x)' = Lockers(x)
  BY CallFields DEF Lockers
<1>2. (Cardinality(Lockers(o)) + 1) % CountMod = Cardinality(Lockers(o)')
  BY <1>1, LockerAdds, LockersAreCalls
<1>3. lock_count'[o] = (lock_count[o] + 1) % CountMod
      /\ \A x \in Objects \ {o} : lock_count'[x] = lock_count[x]
  BY DEF Base, TypeOK
<1>. QED BY <1>1, <1>2, <1>3 DEF LockInv

LEMMA LockDropped ==
  ASSUME Base, LockInv, ~Spins, FewCalls, NEW c \in Calls, call'[c] = User, NEW o \in Objects,
         lock_count' = [lock_count EXCEPT ![o] = Dec(@)],
         \A d \in Calls \ {c} : call'[d] = call[d],
         \/ call[c].at = "call" /\ call[c].obj = o
         \/ call[c].at = "hassign" /\ call[c].new = o
  PROVE  LockInv'
<1>1. c \in Lockers(o) /\ Lockers(o)' = Lockers(o) \ {c}
      /\ \A x \in Objects \ {o} : Lockers(x)' = Lockers(x)
  BY CallFields DEF Lockers
<1>2. Dec(Cardinality(Lockers(o))) = Cardinality(Lockers(o)')
  BY <1>1, LockerDrops, LockersAreCalls
<1>3. lock_count'[o] = Dec(lock_count[o])
      /\ \A x \in Objects \ {o} : lock_count'[x] = lock_count[x]
  BY DEF Base, TypeOK
<1>. QED BY <1>1, <1>2, <1>3 DEF LockInv

\* No step is taken while a call spins.
LEMMA NextNotSpinning ==
  ASSUME Next
  PROVE  ~Spins
<1>. SUFFICES ASSUME NEW c \in Calls,
                     \A d \in Calls : call[d] # Hung
              PROVE  ~Spins
  <2>1. ASSUME NEW c \in Calls, NEW o \in Objects, Create(c, o) \/ CreateThread(c, o) \/ ExitThread(c, o)
        PROVE  \A d \in Calls : call[d] # Hung
    BY <2>1 DEF Create, CreateThread, ExitThread, Running
  <2>2. ASSUME NEW c \in Calls, NEW h \in Handles, Dup(c, h) \/ Lock(c, h) \/ Close(c, h)
        PROVE  \A d \in Calls : call[d] # Hung
    BY <2>2 DEF Dup, Lock, Close, Running
  <2>3. ASSUME NEW c \in Calls, Unlock(c) \/ CloseDone(c)
        PROVE  \A d \in Calls : call[d] # Hung
    BY <2>3 DEF Unlock, CloseDone
  <2>4. ASSUME NEW c \in Calls, NEW h1 \in Handles, NEW h2 \in 0 .. MaxHandles,
               Dup2Full(c, h1, h2) \/ Dup2Free(c, h1, h2) \/ Dup2Used(c, h1, h2)
        PROVE  \A d \in Calls : call[d] # Hung
    BY <2>4 DEF Dup2Full, Dup2Free, Dup2Used, Running
  <2>5. ASSUME NEW c \in Calls, NEW rc \in CloseResults, AssignDone(c, rc)
        PROVE  \A d \in Calls : call[d] # Hung
    BY <2>5 DEF AssignDone
  <2>. QED BY <2>1, <2>2, <2>3, <2>4, <2>5 DEF Next
<1>. QED BY DEF Spins

LEMMA LockStep ==
  ASSUME Base, LockInv, OneFileUser, FewCalls, [Next]_vars
  PROVE  LockInv'
<1>0. CASE UNCHANGED vars
  BY <1>0 DEF vars, LockInv, Spins, Lockers
<1>. SUFFICES ASSUME Next PROVE LockInv'
  BY <1>0
<1>1. ~Spins
  BY NextNotSpinning
<1>2. ASSUME NEW c \in Calls, NEW o \in Objects, Create(c, o) \/ CreateThread(c, o) \/ ExitThread(c, o)
      PROVE  LockInv'
  <2>1. lock_count' = lock_count /\ call' = call
    BY <1>2 DEF Create, CreateThread, ExitThread
  <2>. QED BY <2>1, <1>1, LockKept
<1>3. ASSUME NEW c \in Calls, NEW h \in Handles, Dup(c, h)
      PROVE  LockInv'
  <2>1. lock_count' = lock_count /\ call' = call
    BY <1>3 DEF Dup
  <2>. QED BY <2>1, <1>1, LockKept
<1>4. ASSUME NEW c \in Calls, NEW h \in Handles, Lock(c, h)
      PROVE  LockInv'
  <2>1. PICK o \in Objects : o = hlookup(h)
    BY <1>4, Looked DEF Lock, Lockable
  <2>2. /\ call[c] = User /\ call'[c] = InCall(o) /\ \A d \in Calls \ {c} : call'[d] = call[d]
        /\ lock_count' = [lock_count EXCEPT ![o] = (@ + 1) % CountMod]
    BY <1>4, <2>1 DEF Lock, Running, Base, TypeOK
  <2>3. call'[c].at = "call" /\ call'[c].obj = o
    BY <2>2, CallFields
  <2>. QED BY <2>2, <2>3, <1>1, LockAdded
<1>5. ASSUME NEW c \in Calls, NEW h \in Handles, Close(c, h)
      PROVE  LockInv'
  <2>1. /\ lock_count' = lock_count /\ call[c] = User
        /\ call' = call \/ call' = [call EXCEPT ![c] = InFree(htab[h].obj)]
    BY <1>5 DEF Close, hfree, Running
  <2>2. \A d \in Calls : \/ call'[d] = call[d]
                         \/ /\ call'[d].at \notin {"call", "hassign"}
                            /\ call[d].at \notin {"call", "hassign"}
    BY <2>1, CallFields DEF Base, TypeOK
  <2>. QED BY <2>1, <2>2, <1>1, LockKept
<1>6. ASSUME NEW c \in Calls, Unlock(c)
      PROVE  LockInv'
  <2>1. PICK o \in Objects : o = call[c].obj /\ call[c].at = "call"
    BY <1>6, CallShape DEF Unlock, Base
  <2>2. /\ call'[c] = User /\ \A d \in Calls \ {c} : call'[d] = call[d]
        /\ lock_count' = [lock_count EXCEPT ![o] = Dec(@)]
    BY <1>6, <2>1 DEF Unlock, Orel, Base, TypeOK
  <2>. QED BY <2>1, <2>2, <1>1, LockDropped
<1>7. ASSUME NEW c \in Calls, CloseDone(c)
      PROVE  LockInv'
  <2>1. /\ lock_count' = lock_count /\ call[c].at = "hfree"
        /\ call' = [call EXCEPT ![c] = User]
    BY <1>7 DEF CloseDone
  <2>2. \A d \in Calls : \/ call'[d] = call[d]
                         \/ /\ call'[d].at \notin {"call", "hassign"}
                            /\ call[d].at \notin {"call", "hassign"}
    BY <2>1, CallFields DEF Base, TypeOK
  <2>. QED BY <2>1, <2>2, <1>1, LockKept
<1>8. ASSUME NEW c \in Calls, NEW h1 \in Handles, NEW h2 \in 0 .. MaxHandles, Dup2Full(c, h1, h2)
      PROVE  LockInv'
  <2>1. lock_count' = lock_count /\ call' = call
    BY <1>8 DEF Dup2Full, objs
  <2>. QED BY <2>1, <1>1, LockKept
<1>9. ASSUME NEW c \in Calls, NEW h1 \in Handles, NEW h2 \in 0 .. MaxHandles, Dup2Free(c, h1, h2)
      PROVE  LockInv'
  <2>1. UNCHANGED <<lock_count, call>> \/ call' = [call EXCEPT ![c] = Hung]
    BY <1>9, Dup2FreeTable
  <2>2. CASE UNCHANGED <<lock_count, call>>
    BY <2>2, <1>1, LockKept
  <2>3. CASE call' = [call EXCEPT ![c] = Hung]
    BY <2>3 DEF LockInv, Spins, Base, TypeOK
  <2>. QED BY <2>1, <2>2, <2>3
<1>10. ASSUME NEW c \in Calls, NEW h1 \in Handles, NEW h2 \in 0 .. MaxHandles, Dup2Used(c, h1, h2)
       PROVE  LockInv'
  <2>1. PICK o \in Objects, oo \in Objects :
          /\ call[c] = User
          /\ \/ UNCHANGED <<lock_count, call>>
             \/ /\ lock_count' = [lock_count EXCEPT ![o] = (@ + 1) % CountMod]
                /\ call' = [call EXCEPT ![c] = InAssign(oo, o, h2)]
    BY <1>10, Dup2UsedTable
  <2>2. CASE UNCHANGED <<lock_count, call>>
    BY <2>2, <1>1, LockKept
  <2>3. CASE /\ lock_count' = [lock_count EXCEPT ![o] = (@ + 1) % CountMod]
             /\ call' = [call EXCEPT ![c] = InAssign(oo, o, h2)]
    <3>1. call'[c] = InAssign(oo, o, h2) /\ \A d \in Calls \ {c} : call'[d] = call[d]
      BY <2>3 DEF Base, TypeOK
    <3>2. call'[c].at = "hassign" /\ call'[c].new = o
      BY <3>1, CallFields
    <3>. QED BY <2>1, <2>3, <3>1, <3>2, <1>1, LockAdded
  <2>. QED BY <2>1, <2>2, <2>3
<1>11. ASSUME NEW c \in Calls, NEW rc \in CloseResults, AssignDone(c, rc)
       PROVE  LockInv'
  <2>1. PICK o \in Objects :
          /\ call[c].at = "hassign" /\ call[c].new = o
          /\ (\A d \in Calls \ {c} : call'[d] = call[d]) /\ call'[c] = User
          /\ lock_count' = [lock_count EXCEPT ![o] = Dec(@)]
    BY <1>11, AssignDoneTable
  <2>. QED BY <2>1, <1>1, LockDropped
<1>. QED BY <1>2, <1>3, <1>4, <1>5, <1>6, <1>7, <1>8, <1>9, <1>10, <1>11 DEF Next

\* An object is unlocked when nobody holds a lock on it.
LEMMA UnlockedMeans ==
  ASSUME LockInv, ~Spins, FewCalls, NEW o \in Objects
  PROVE  Unlocked(o) <=> Lockers(o) = {}
<1>1. lock_count[o] = Cardinality(Lockers(o))
  BY DEF LockInv
<1>2. IsFiniteSet(Lockers(o))
  BY LockerSets, LockersAreCalls
<1>. QED BY <1>1, <1>2, FS_EmptySet DEF Unlocked

-----------------------------------------------------------------------------
(* The life of an object.                                                  *)

\* A step that touches only the objects of X and accounts for the calls that
\* change or that close one of them.
LEMMA LifeKept ==
  ASSUME LifeInv, NEW X \in SUBSET Objects,
         \A x \in Objects \ X : /\ HandlesOf(x)' = HandlesOf(x) /\ Users(x)' = Users(x)
                                /\ life'[x] = life[x] /\ destroys'[x] = destroys[x],
         \A d \in Calls : \/ CallLife(d)'
                          \/ /\ call'[d] = call[d]
                             /\ call[d].at \in {"hfree", "hassign"} => call[d].obj \in Objects \ X,
         \A x \in X : ObjLife(x)'
  PROVE  LifeInv'
<1>1. ASSUME NEW d \in Calls PROVE CallLife(d)'
  <2>. SUFFICES ASSUME call'[d] = call[d],
                       call[d].at \in {"hfree", "hassign"} => call[d].obj \in Objects \ X
                PROVE  CallLife(d)'
    OBVIOUS
  <2>. QED BY DEF CallLife, LifeInv
<1>2. ASSUME NEW x \in Objects PROVE ObjLife(x)'
  <2>1. CASE x \in Objects \ X
    BY <2>1 DEF ObjLife, LifeInv
  <2>. QED BY <2>1
<1>. QED BY <1>1, <1>2 DEF LifeInv

\* Nobody is closing what a call that closes nothing uses.
LEMMA NoCloser ==
  ASSUME Base, OneFileUser, NEW c \in Calls, call[c].at \notin {"hfree", "hassign"},
         NEW o \in Objects, Uses(c, o)
  PROVE  /\ \A d \in Calls : call[d].at \in {"hfree", "hassign"} => call[d].obj # o
         /\ Counted(o) = HandlesOf(o)
         /\ Users(o) = Lockers(o)
<1>1. ASSUME NEW d \in Calls, call[d].at \in {"hfree", "hassign"}, call[d].obj = o PROVE FALSE
  <2>1. d \in FileUsers /\ o \in FileObjs
    BY <1>1 DEF Base, UseInv, CallUse
  <2>2. c \in FileUsers
    BY <2>1 DEF Uses
  <2>. QED BY <2>1, <2>2, <1>1 DEF OneFileUser
<1>2. Counted(o) = HandlesOf(o)
  <2>. SUFFICES ASSUME NEW h \in HandlesOf(o), NEW d \in Calls,
                       call[d].at = "hassign", call[d].h = h
                PROVE  FALSE
    BY DEF Counted, Reassigned
  <2>1. htab[h].obj = call[d].obj /\ htab[h].obj = o
    BY DEF Base, UseInv, CallUse, HandlesOf
  <2>. QED BY <2>1, <1>1
<1>3. ASSUME NEW d \in Calls PROVE d \in Users(o) <=> d \in Lockers(o)
  <2>1. o # NULL
    BY ConstantFacts
  <2>. QED BY <1>1, <2>1, CallShape DEF Users, Lockers, Base
<1>. QED BY <1>1, <1>2, <1>3 DEF Users, Lockers

\* The file user is the only call that closes, and the others hold locks.
LEMMA OnlyCloser ==
  ASSUME Base, OneFileUser, NEW c \in Calls, call[c].at \in {"hfree", "hassign"}
  PROVE  /\ \A d \in Calls \ {c} : call[d].at \notin {"hfree", "hassign"}
         /\ \A o \in Objects : Users(o) \ {c} = Lockers(o) \ {c}
<1>1. \A d \in Calls : call[d].at \in {"hfree", "hassign"} => d \in FileUsers
  BY DEF Base, UseInv, CallUse
<1>2. \A d \in Calls \ {c} : call[d].at \notin {"hfree", "hassign"}
  BY <1>1 DEF OneFileUser
<1>3. ASSUME NEW o \in Objects, NEW d \in Calls \ {c} PROVE d \in Users(o) <=> d \in Lockers(o)
  <2>1. o # NULL
    BY ConstantFacts
  <2>. QED BY <1>2, <2>1, CallShape DEF Users, Lockers, Base
<1>. QED BY <1>2, <1>3 DEF Users, Lockers

\* An object with a handle or a user has not been destroyed.
LEMMA InUse ==
  ASSUME LifeInv, NEW o \in Objects, HandlesOf(o) # {} \/ Users(o) # {}
  PROVE  life[o] # "destroyed" /\ destroys[o] = 0
  BY DEF LifeInv, ObjLife

\* Who refers to an object, when only call c changes.
LEMMA UsersChange ==
  ASSUME NEW c \in Calls, \A d \in Calls \ {c} : call'[d] = call[d], NEW o
  PROVE  /\ Users(o)' \ {c} = Users(o) \ {c}
         /\ c \in Users(o)' <=> o \in {call'[c].obj, call'[c].new}
         /\ c \in Users(o) <=> o \in {call[c].obj, call[c].new}
<1>1. \A d \in Calls \ {c} : d \in Users(o)' <=> d \in Users(o)
  BY DEF Users
<1>2. /\ c \in Users(o)' <=> o \in {call'[c].obj, call'[c].new}
      /\ c \in Users(o) <=> o \in {call[c].obj, call[c].new}
  BY DEF Users
<1>3. Users(o) \subseteq Calls /\ Users(o)' \subseteq Calls
  BY DEF Users
<1>. QED BY <1>1, <1>2, <1>3

LEMMA SameUsers ==
  ASSUME call' = call
  PROVE  \A o : Users(o)' = Users(o)
  BY DEF Users

\* A step that leaves the objects and who uses them alone.
LEMMA LifeSame ==
  ASSUME LifeInv, \A g \in Handles : Kept(g), life' = life, destroys' = destroys,
         \A x \in Objects : Users(x)' = Users(x),
         \A d \in Calls : call'[d] = call[d] \/ call'[d].at \notin {"hfree", "hassign"},
         \A d \in Calls : call[d].at \in {"hfree", "hassign"} => call[d].obj \in Objects
  PROVE  LifeInv'
<1>. DEFINE X == {}
<1>1. \A x \in Objects : HandlesOf(x)' = HandlesOf(x)
  BY DEF HandlesOf, Kept
<1>2. \A d \in Calls : \/ CallLife(d)'
                       \/ /\ call'[d] = call[d]
                          /\ call[d].at \in {"hfree", "hassign"} => call[d].obj \in Objects \ X
  BY DEF CallLife
<1>3. X \in SUBSET Objects /\ \A x \in X : ObjLife(x)'
  OBVIOUS
<1>. HIDE DEF X
<1>. QED BY <1>1, <1>2, <1>3, LifeKept

\* An object gets a handle.
LEMMA LifeAdded ==
  ASSUME Base, LifeInv, NEW h \in Handles, NEW o \in Objects, htab[h].obj = NULL, Moved(h, o),
         call' = call, destroys' = destroys, life[o] # "destroyed", life'[o] # "destroyed",
         \A x \in Objects \ {o} : life'[x] = life[x],
         \A d \in Calls : call[d].at \in {"hfree", "hassign"} => call[d].obj # o
  PROVE  LifeInv'
<1>. DEFINE X == {o}
<1>1. h \in HandlesOf(o)' /\ \A x \in Objects \ X : HandlesOf(x)' = HandlesOf(x)
  BY ConstantFacts DEF HandlesOf, Moved, Kept
<1>2. ObjLife(o)'
  BY <1>1 DEF ObjLife, LifeInv
<1>3. \A d \in Calls : call[d].at \in {"hfree", "hassign"} => call[d].obj \in Objects
  BY CallShape DEF Base
<1>4. X \in SUBSET Objects /\ (\A x \in X : ObjLife(x)')
      /\ \A d \in Calls : call[d].at \in {"hfree", "hassign"} => call[d].obj \in Objects \ X
  BY <1>2, <1>3
<1>5. \A x \in Objects \ X : life'[x] = life[x]
  OBVIOUS
<1>. HIDE DEF X
<1>. QED BY <1>1, <1>4, <1>5, SameUsers, LifeKept

\* What hfree and hassign know of a handle the caller may use.
LEMMA UserSees ==
  ASSUME Base, LifeInv, OneFileUser, NEW c \in Calls, call[c] = User,
         NEW o \in Objects, Uses(c, o), NEW h \in Handles, htab[h].obj = o
  PROVE  /\ \A d \in Calls : call[d].at \in {"hfree", "hassign"} => call[d].obj \in Objects \ {o}
         /\ Counted(o) = HandlesOf(o) /\ h \in HandlesOf(o)
         /\ Users(o) = Lockers(o)
         /\ life[o] # "destroyed" /\ destroys[o] = 0
<1>1. call[c].at \notin {"hfree", "hassign"}
  BY CallFields
<1>2. \A d \in Calls : call[d].at \in {"hfree", "hassign"} => call[d].obj \in Objects
  BY CallShape DEF Base
<1>3. h \in HandlesOf(o)
  BY DEF HandlesOf
<1>. QED BY <1>1, <1>2, <1>3, NoCloser, InUse

\* An object loses a handle: with the last one it is closed, by c if it is a
\* file, and it is destroyed when nobody has locked it.
LEMMA LosesHandle ==
  ASSUME Base, CountInv, LockInv, LifeInv, ~Spins, OneFileUser, FewHandles, FewCalls, ClosesSucceed,
         NEW c \in Calls, call[c] = User, NEW o \in Objects, Uses(c, o),
         NEW h \in Handles, htab[h].obj = o, HandlesOf(o)' = HandlesOf(o) \ {h},
         \/ /\ Dec(handle_count[o]) > 0 /\ call' = call
            /\ life'[o] = life[o] /\ destroys'[o] = destroys[o]
         \/ /\ Dec(handle_count[o]) = 0 /\ c \in Users(o)'
            /\ life'[o] = "closed" /\ destroys'[o] = destroys[o]
         \/ /\ Dec(handle_count[o]) = 0 /\ Unlocked(o) /\ call' = call
            /\ life'[o] = "destroyed" /\ destroys'[o] = IF destroys[o] < 2 THEN destroys[o] + 1 ELSE destroys[o]
         \/ /\ Dec(handle_count[o]) = 0 /\ ~Unlocked(o) /\ call' = call
            /\ life'[o] = "closed" /\ destroys'[o] = destroys[o]
  PROVE  ObjLife(o)' /\ (Dec(handle_count[o]) = 0 => HandlesOf(o)' = {})
<1>1. /\ Counted(o) = HandlesOf(o) /\ h \in HandlesOf(o) /\ Users(o) = Lockers(o)
      /\ life[o] # "destroyed" /\ destroys[o] = 0
  BY UserSees
<1>2. Dec(handle_count[o]) \in Nat /\ (Dec(handle_count[o]) = 0 <=> HandlesOf(o) = {h})
  BY <1>1, LastHandle DEF Exact
<1>3. Unlocked(o) <=> Users(o) = {}
  BY <1>1, UnlockedMeans
<1>4. CASE Dec(handle_count[o]) > 0
  <2>1. HandlesOf(o)' # {}
    BY <1>1, <1>2, <1>4
  <2>. QED BY <1>1, <1>2, <1>4, <2>1 DEF ObjLife
<1>5. CASE Dec(handle_count[o]) = 0
  <2>1. HandlesOf(o)' = {}
    BY <1>2, <1>5
  <2>2. call' = call => Users(o)' = Users(o)
    BY SameUsers
  <2>3. \/ c \in Users(o)' /\ life'[o] = "closed" /\ destroys'[o] = 0
        \/ Users(o)' = {} /\ life'[o] = "destroyed" /\ destroys'[o] = 1
        \/ Users(o)' # {} /\ life'[o] = "closed" /\ destroys'[o] = 0
    BY <1>1, <1>3, <1>5, <2>2
  <2>. QED BY <1>5, <2>1, <2>3 DEF ObjLife
<1>. QED BY <1>2, <1>4, <1>5

LEMMA CreateLife ==
  ASSUME Base, LifeInv, NEW c \in Calls, NEW o \in Objects, Create(c, o) \/ CreateThread(c, o)
  PROVE  LifeInv'
<1>1. PICK h \in Handles : htab[h].obj = NULL /\ Moved(h, o)
  BY AllocStep DEF Create, CreateThread, Base
<1>2. /\ call' = call /\ destroys' = destroys /\ life[o] = "unborn" /\ life'[o] = "live"
      /\ \A x \in Objects \ {o} : life'[x] = life[x]
  BY DEF Create, CreateThread, Base, TypeOK
<1>3. \A d \in Calls : call[d].at \in {"hfree", "hassign"} => call[d].obj # o
  BY <1>2 DEF LifeInv, CallLife
<1>. QED BY <1>1, <1>2, <1>3, LifeAdded

LEMMA DupLife ==
  ASSUME Base, LifeInv, OneFileUser, NEW c \in Calls, NEW h1 \in Handles, Dup(c, h1)
  PROVE  LifeInv'
<1>1. PICK o \in Objects : o = hlookup(h1) /\ o = htab[h1].obj /\ Uses(c, o)
  BY Looked DEF Dup, Lockable
<1>2. PICK h \in Handles : htab[h].obj = NULL /\ Moved(h, o)
  BY <1>1, AllocStep DEF Dup, Base
<1>3. call' = call /\ destroys' = destroys /\ life' = life /\ call[c] = User
  BY DEF Dup, Running
<1>4. /\ \A d \in Calls : call[d].at \in {"hfree", "hassign"} => call[d].obj # o
      /\ life[o] # "destroyed"
  BY <1>1, <1>3, UserSees
<1>. QED BY <1>2, <1>3, <1>4, LifeAdded

LEMMA Dup2FreeLife ==
  ASSUME Base, LifeInv, OneFileUser, NEW c \in Calls, NEW h1 \in Handles,
         NEW h2 \in 0 .. MaxHandles, Dup2Free(c, h1, h2)
  PROVE  LifeInv'
<1>1. PICK o \in Objects :
         /\ o = htab[h1].obj /\ Uses(c, o)
         /\ \/ h2 \in Handles /\ htab[h2].obj = NULL /\ Moved(h2, o) /\ call' = call
            \/ (\A g \in Handles : Kept(g)) /\ call' = [call EXCEPT ![c] = Hung]
  BY Dup2FreeTable
<1>2. destroys' = destroys /\ life' = life /\ call[c] = User
  BY DEF Dup2Free, Running
<1>3. /\ \A d \in Calls : call[d].at \in {"hfree", "hassign"} => call[d].obj \in Objects \ {o}
      /\ life[o] # "destroyed"
  BY <1>1, <1>2, UserSees
<1>4. CASE h2 \in Handles /\ htab[h2].obj = NULL /\ Moved(h2, o) /\ call' = call
  BY <1>2, <1>3, <1>4, LifeAdded
<1>5. CASE (\A g \in Handles : Kept(g)) /\ call' = [call EXCEPT ![c] = Hung]
  <2>1. call'[c] = Hung /\ \A d \in Calls \ {c} : call'[d] = call[d]
    BY <1>5 DEF Base, TypeOK
  <2>2. \A d \in Calls : call'[d] = call[d] \/ call'[d].at \notin {"hfree", "hassign"}
    BY <2>1, CallFields
  <2>3. \A x \in Objects : Users(x)' = Users(x)
    BY <1>2, <2>1, CallFields, ConstantFacts DEF Users
  <2>. QED BY <1>2, <1>3, <1>5, <2>2, <2>3, LifeSame
<1>. QED BY <1>1, <1>4, <1>5

LEMMA LockLife ==
  ASSUME Base, LifeInv, OneFileUser, NEW c \in Calls, NEW h \in Handles, Lock(c, h)
  PROVE  LifeInv'
<1>1. PICK o \in Objects : o = hlookup(h) /\ o = htab[h].obj /\ Uses(c, o)
  BY Looked DEF Lock, Lockable
<1>2. /\ life' = life /\ destroys' = destroys /\ htab' = htab /\ call[c] = User
      /\ call'[c] = InCall(o) /\ \A d \in Calls \ {c} : call'[d] = call[d]
  BY <1>1 DEF Lock, Running, table, Base, TypeOK
<1>3. /\ \A d \in Calls : call[d].at \in {"hfree", "hassign"} => call[d].obj \in Objects \ {o}
      /\ h \in HandlesOf(o) /\ life[o] # "destroyed" /\ destroys[o] = 0
  BY <1>1, <1>2, UserSees
<1>4. \A x \in Objects : HandlesOf(x)' = HandlesOf(x)
  BY <1>2 DEF HandlesOf
<1>5. \A x \in Objects \ {o} : Users(x)' = Users(x)
  BY <1>2, CallFields, ConstantFacts DEF Users
<1>6. CallLife(c)' /\ ObjLife(o)'
  BY <1>2, <1>3, <1>4, CallFields DEF CallLife, ObjLife
<1>. DEFINE X == {o}
<1>7. X \in SUBSET Objects /\ (\A x \in X : ObjLife(x)') /\ Objects \ X = Objects \ {o}
  BY <1>6
<1>. HIDE DEF X
<1>. QED BY <1>2, <1>3, <1>4, <1>5, <1>6, <1>7, LifeKept

\* The last lock of an object without handles is the last that refers to it.
LEMMA UnlockLife ==
  ASSUME Base, CountInv, LockInv, LifeInv, ~Spins, OneFileUser, FewHandles, FewCalls, ClosesSucceed,
         NEW c \in Calls, Unlock(c)
  PROVE  LifeInv'
<1>1. PICK o \in Objects : call[c].obj = o /\ call[c].new = NULL /\ call[c].at = "call"
  BY CallShape DEF Unlock, Base
<1>2. Uses(c, o) /\ c \in Lockers(o) /\ call[c].at \notin {"hfree", "hassign"}
  BY <1>1 DEF Base, UseInv, CallUse, Lockers
<1>3. /\ \A d \in Calls : call[d].at \in {"hfree", "hassign"} => call[d].obj # o
      /\ Counted(o) = HandlesOf(o) /\ Users(o) = Lockers(o)
  BY <1>2, NoCloser
<1>4. \A d \in Calls : call[d].at \in {"hfree", "hassign"} => call[d].obj \in Objects \ {o}
  BY <1>3, CallShape DEF Base
<1>5. life[o] # "destroyed" /\ destroys[o] = 0
  BY <1>2, <1>3, InUse
<1>6. /\ htab' = htab /\ handle_count' = handle_count
      /\ call'[c] = User /\ \A d \in Calls \ {c} : call'[d] = call[d]
  BY DEF Unlock, table, Base, TypeOK
<1>7. \A x \in Objects : HandlesOf(x)' = HandlesOf(x)
  BY <1>6 DEF HandlesOf
<1>8. ASSUME NEW x \in Objects \ {o} PROVE Users(x)' = Users(x)
  BY <1>1, <1>6, CallFields, ConstantFacts DEF Users
<1>9. Users(o)' = Lockers(o) \ {c}
  <2>1. c \notin Users(o)'
    BY <1>6, CallFields, ConstantFacts DEF Users
  <2>2. Users(o)' \ {c} = Users(o) \ {c}
    BY <1>6, UsersChange
  <2>. QED BY <1>3, <2>1, <2>2
<1>10. Dec(lock_count[o]) = 0 <=> Lockers(o) \ {c} = {}
  <2>1. Dec(lock_count[o]) = Cardinality(Lockers(o) \ {c})
    BY <1>2, LockerDrops, LockersAreCalls DEF LockInv
  <2>2. Lockers(o) \ {c} \subseteq Calls
    BY LockersAreCalls
  <2>3. IsFiniteSet(Lockers(o) \ {c})
    BY <2>2, LockerSets
  <2>. QED BY <2>1, <2>3, FS_EmptySet
<1>11. handle_count[o] = 0 <=> HandlesOf(o) = {}
  <2>1. handle_count[o] = Cardinality(HandlesOf(o)) /\ HandlesOf(o) \subseteq Handles
    BY <1>3, ExactCount DEF Exact, HandlesOf
  <2>. QED BY <2>1, HandleSets, FS_EmptySet
<1>12. /\ \A x \in Objects \ {o} : life'[x] = life[x] /\ destroys'[x] = destroys[x]
       /\ IF Dec(lock_count[o]) = 0 /\ handle_count[o] = 0
          THEN life'[o] = "destroyed" /\ destroys'[o] = 1
          ELSE life'[o] = life[o] /\ destroys'[o] = destroys[o]
  BY <1>1, <1>5, <1>6 DEF Unlock, Orel, OrelDestroys, Destroyed, CountDestroy, Base, TypeOK
<1>13. ObjLife(o)'
  BY <1>5, <1>7, <1>9, <1>10, <1>11, <1>12 DEF ObjLife
<1>14. CallLife(c)'
  BY <1>6, CallFields DEF CallLife
<1>. DEFINE X == {o}
<1>15. X \in SUBSET Objects /\ (\A x \in X : ObjLife(x)') /\ Objects \ X = Objects \ {o}
  BY <1>13
<1>. HIDE DEF X
<1>. QED BY <1>4, <1>6, <1>7, <1>8, <1>12, <1>14, <1>15, LifeKept

LEMMA CloseLife ==
  ASSUME Base, CountInv, LockInv, LifeInv, ~Spins, OneFileUser, FewHandles, FewCalls, ClosesSucceed,
         NEW c \in Calls, NEW h \in Handles, Close(c, h)
  PROVE  LifeInv'
<1>1. PICK o \in Objects : o = htab[h].obj /\ HUSED(h) /\ Uses(c, o) /\ call[c] = User
  BY Looked DEF Close, Running
<1>2. \A d \in Calls : call[d].at \in {"hfree", "hassign"} => call[d].obj \in Objects \ {o}
  BY <1>1, UserSees
<1>3. Moved(h, NULL)
  BY <1>1, FreeStep DEF Close, hfree, Base
<1>4. /\ HandlesOf(o)' = HandlesOf(o) \ {h}
      /\ \A x \in Objects \ {o} : HandlesOf(x)' = HandlesOf(x)
  BY <1>1, <1>3, ConstantFacts DEF HandlesOf, Moved, Kept
<1>5. /\ \/ /\ Dec(handle_count[o]) > 0 /\ call' = call
            /\ life'[o] = life[o] /\ destroys'[o] = destroys[o]
         \/ /\ Dec(handle_count[o]) = 0 /\ call' = [call EXCEPT ![c] = InFree(o)]
            /\ life'[o] = "closed" /\ destroys'[o] = destroys[o]
         \/ /\ Dec(handle_count[o]) = 0 /\ Unlocked(o) /\ call' = call
            /\ life'[o] = "destroyed" /\ destroys'[o] = IF destroys[o] < 2 THEN destroys[o] + 1 ELSE destroys[o]
         \/ /\ Dec(handle_count[o]) = 0 /\ ~Unlocked(o) /\ call' = call
            /\ life'[o] = "closed" /\ destroys'[o] = destroys[o]
      /\ \A x \in Objects \ {o} : life'[x] = life[x] /\ destroys'[x] = destroys[x]
  BY <1>1 DEF Close, hfree, Destroyed, CountDestroy, Base, TypeOK
<1>6. \A d \in Calls \ {c} : call'[d] = call[d]
  BY <1>5 DEF Base, TypeOK
<1>7. call' = [call EXCEPT ![c] = InFree(o)] =>
        call'[c] = InFree(o) /\ c \in Users(o)'
  BY CallFields DEF Users, Base, TypeOK
<1>8. ObjLife(o)' /\ (Dec(handle_count[o]) = 0 => HandlesOf(o)' = {})
  BY <1>1, <1>4, <1>5, <1>7, LosesHandle
<1>9. call'[c] = call[c] \/ CallLife(c)'
  BY <1>5, <1>7, <1>8, CallFields DEF CallLife
<1>10. ASSUME NEW x \in Objects \ {o} PROVE Users(x)' = Users(x)
  <2>1. Users(x)' \ {c} = Users(x) \ {c}
    BY <1>6, UsersChange
  <2>2. c \notin Users(x) /\ c \notin Users(x)'
    BY <1>1, <1>5, <1>7, CallFields, ConstantFacts DEF Users
  <2>. QED BY <2>1, <2>2
<1>. DEFINE X == {o}
<1>11. X \in SUBSET Objects /\ (\A x \in X : ObjLife(x)') /\ Objects \ X = Objects \ {o}
  BY <1>8
<1>. HIDE DEF X
<1>. QED BY <1>2, <1>4, <1>5, <1>6, <1>9, <1>10, <1>11, LifeKept

LEMMA ExitThreadLife ==
  ASSUME Base, CountInv, LockInv, LifeInv, ~Spins, OneFileUser, FewHandles, FewCalls, ClosesSucceed,
         NEW c \in Calls, NEW o \in Objects, ExitThread(c, o)
  PROVE  LifeInv'
<1>1. PICK h \in Handles : h = hndl[o] /\ htab[h].obj = o /\ HUSED(h)
  <2>1. hndl[o] # HEND
    BY DEF ExitThread
  <2>2. hndl[o] \in Handles /\ htab[hndl[o]].obj = o
    BY <2>1 DEF Base, TypeOK, UseInv, ThreadUse
  <2>. QED BY <2>2, ConstantFacts DEF HUSED
<1>2. call[c] = User /\ call' = call /\ Uses(c, o)
  BY ConstantFacts DEF ExitThread, Running, Uses
<1>3. \A d \in Calls : call[d].at \in {"hfree", "hassign"} => call[d].obj \in Objects \ {o}
  BY <1>1, <1>2, UserSees
<1>4. Moved(h, NULL)
  BY <1>1, FreeStep DEF ExitThread, Base
<1>5. /\ HandlesOf(o)' = HandlesOf(o) \ {h}
      /\ \A x \in Objects \ {o} : HandlesOf(x)' = HandlesOf(x)
  BY <1>1, <1>4, ConstantFacts DEF HandlesOf, Moved, Kept
<1>6. /\ \/ /\ Dec(handle_count[o]) > 0
            /\ life'[o] = life[o] /\ destroys'[o] = destroys[o]
         \/ /\ Dec(handle_count[o]) = 0 /\ Unlocked(o)
            /\ life'[o] = "destroyed" /\ destroys'[o] = IF destroys[o] < 2 THEN destroys[o] + 1 ELSE destroys[o]
         \/ /\ Dec(handle_count[o]) = 0 /\ ~Unlocked(o)
            /\ life'[o] = "closed" /\ destroys'[o] = destroys[o]
      /\ \A x \in Objects \ {o} : life'[x] = life[x] /\ destroys'[x] = destroys[x]
  BY DEF ExitThread, Destroyed, CountDestroy, Base, TypeOK
<1>7. ObjLife(o)'
  BY <1>1, <1>2, <1>5, <1>6, LosesHandle
<1>. DEFINE X == {o}
<1>8. X \in SUBSET Objects /\ (\A x \in X : ObjLife(x)') /\ Objects \ X = Objects \ {o}
  BY <1>7
<1>. HIDE DEF X
<1>. QED BY <1>2, <1>3, <1>5, <1>6, <1>8, SameUsers, LifeKept

\* The close of a file has ended: nobody else can be closing it.
LEMMA CloseDoneLife ==
  ASSUME Base, LockInv, LifeInv, ~Spins, OneFileUser, FewCalls,
         NEW c \in Calls, CloseDone(c)
  PROVE  LifeInv'
<1>1. PICK o \in Objects : call[c].obj = o /\ call[c].new = NULL /\ call[c].at = "hfree"
  BY CallShape DEF CloseDone, Base
<1>2. /\ \A d \in Calls \ {c} : call[d].at \notin {"hfree", "hassign"}
      /\ Users(o) \ {c} = Lockers(o) \ {c}
  BY <1>1, OnlyCloser
<1>3. life[o] = "closed" /\ HandlesOf(o) = {} /\ destroys[o] = 0
  BY <1>1 DEF LifeInv, CallLife, ObjLife
<1>4. htab' = htab /\ call'[c] = User /\ \A d \in Calls \ {c} : call'[d] = call[d]
  BY DEF CloseDone, table, Base, TypeOK
<1>5. \A x \in Objects : HandlesOf(x)' = HandlesOf(x)
  BY <1>4 DEF HandlesOf
<1>6. ASSUME NEW x \in Objects \ {o} PROVE Users(x)' = Users(x)
  BY <1>1, <1>4, CallFields, ConstantFacts DEF Users
<1>7. Users(o)' = Lockers(o)
  <2>1. c \notin Users(o)' /\ c \notin Lockers(o)
    BY <1>1, <1>4, CallFields, ConstantFacts DEF Users, Lockers
  <2>2. Users(o)' \ {c} = Users(o) \ {c}
    BY <1>4, UsersChange
  <2>. QED BY <1>2, <2>1, <2>2
<1>8. Unlocked(o) <=> Lockers(o) = {}
  BY UnlockedMeans
<1>9. /\ \A x \in Objects \ {o} : life'[x] = life[x] /\ destroys'[x] = destroys[x]
      /\ IF Unlocked(o)
         THEN life'[o] = "destroyed" /\ destroys'[o] = 1
         ELSE life'[o] = life[o] /\ destroys'[o] = destroys[o]
  BY <1>1, <1>3 DEF CloseDone, Destroyed, CountDestroy, Base, TypeOK
<1>10. ObjLife(o)'
  BY <1>3, <1>5, <1>7, <1>8, <1>9 DEF ObjLife
<1>11. CallLife(c)'
  BY <1>4, CallFields DEF CallLife
<1>. DEFINE X == {o}
<1>12. X \in SUBSET Objects /\ (\A x \in X : ObjLife(x)') /\ Objects \ X = Objects \ {o}
  BY <1>10
<1>. HIDE DEF X
<1>. QED BY <1>2, <1>4, <1>5, <1>6, <1>9, <1>11, <1>12, LifeKept

\* dup2 to a handle in use: the old object loses the handle, at once or when
\* its close has ended.
LEMMA Dup2UsedLife ==
  ASSUME Base, CountInv, LockInv, LifeInv, ~Spins, OneFileUser, FewHandles, FewCalls, ClosesSucceed,
         NEW c \in Calls, NEW h1 \in Handles, NEW h2 \in 0 .. MaxHandles, Dup2Used(c, h1, h2)
  PROVE  LifeInv'
<1>1. PICK o \in Objects, oo \in Objects :
         /\ o = htab[h1].obj /\ oo = htab[h2].obj /\ h2 \in Handles /\ Uses(c, o) /\ Uses(c, oo)
         /\ call[c] = User
         /\ \/ /\ Moved(h2, o) /\ call' = call
               /\ IF Dec(handle_count[oo]) > 0 THEN UNCHANGED <<life, destroys>>
                  ELSE IF Unlocked(oo) /\ oo # o
                  THEN life' = Destroyed(life, oo) /\ destroys' = CountDestroy(oo)
                  ELSE life' = [life EXCEPT ![oo] = "closed"] /\ UNCHANGED destroys
            \/ /\ Dec(handle_count[oo]) = 0 /\ htab' = htab /\ destroys' = destroys
               /\ life' = [life EXCEPT ![oo] = "closed"]
               /\ call' = [call EXCEPT ![c] = InAssign(oo, o, h2)]
  BY Dup2UsedTable
<1>2. /\ \A d \in Calls : call[d].at \in {"hfree", "hassign"} => call[d].obj \in Objects \ {o}
      /\ h1 \in HandlesOf(o) /\ life[o] # "destroyed" /\ destroys[o] = 0
  BY <1>1, UserSees
<1>3. /\ \A d \in Calls : call[d].at \in {"hfree", "hassign"} => call[d].obj \in Objects \ {oo}
      /\ h2 \in HandlesOf(oo) /\ Counted(oo) = HandlesOf(oo)
      /\ life[oo] # "destroyed" /\ destroys[oo] = 0
  BY <1>1, UserSees
<1>4. Dec(handle_count[oo]) \in Nat /\ (Dec(handle_count[oo]) = 0 <=> HandlesOf(oo) = {h2})
  BY <1>3, LastHandle DEF Exact
<1>. DEFINE X == {o, oo}
<1>5. /\ X \in SUBSET Objects /\ o \in X /\ oo \in X /\ \A x \in X : x = o \/ x = oo
      /\ \A d \in Calls : call[d].at \in {"hfree", "hassign"} => call[d].obj \in Objects \ X
  BY <1>2, <1>3
<1>. HIDE DEF X
<1>6. CASE /\ Moved(h2, o) /\ call' = call
           /\ IF Dec(handle_count[oo]) > 0 THEN UNCHANGED <<life, destroys>>
              ELSE IF Unlocked(oo) /\ oo # o
              THEN life' = Destroyed(life, oo) /\ destroys' = CountDestroy(oo)
              ELSE life' = [life EXCEPT ![oo] = "closed"] /\ UNCHANGED destroys
  <2>1. /\ h2 \in HandlesOf(o)'
        /\ oo # o => HandlesOf(oo)' = HandlesOf(oo) \ {h2}
        /\ \A x \in Objects \ X : HandlesOf(x)' = HandlesOf(x)
    <3>1. htab'[h2].obj = o /\ \A g \in Handles \ {h2} : htab'[g].obj = htab[g].obj
      BY <1>6 DEF Moved, Kept
    <3>2. h2 \in HandlesOf(o)' /\ (oo # o => HandlesOf(oo)' = HandlesOf(oo) \ {h2})
      BY <1>1, <3>1 DEF HandlesOf
    <3>3. ASSUME NEW x \in Objects \ X PROVE HandlesOf(x)' = HandlesOf(x)
      <4>1. x # o /\ x # oo
        BY <1>5
      <4>. QED BY <4>1, <1>1, <3>1 DEF HandlesOf
    <3>. QED BY <3>2, <3>3
  <2>2. /\ \A x \in Objects \ {oo} : life'[x] = life[x] /\ destroys'[x] = destroys[x]
        /\ \/ /\ Dec(handle_count[oo]) > 0
              /\ life'[oo] = life[oo] /\ destroys'[oo] = destroys[oo]
           \/ /\ Dec(handle_count[oo]) = 0 /\ Unlocked(oo) /\ oo # o
              /\ life'[oo] = "destroyed"
              /\ destroys'[oo] = IF destroys[oo] < 2 THEN destroys[oo] + 1 ELSE destroys[oo]
           \/ /\ Dec(handle_count[oo]) = 0 /\ (~Unlocked(oo) \/ oo = o)
              /\ life'[oo] = "closed" /\ destroys'[oo] = destroys[oo]
    BY <1>4, <1>6 DEF Destroyed, CountDestroy, Base, TypeOK
  <2>3. ObjLife(o)'
    BY <1>2, <2>1, <2>2 DEF ObjLife
  <2>4. oo # o => ObjLife(oo)'
    BY <1>1, <1>6, <2>1, <2>2, LosesHandle
  <2>5. \A x \in X : ObjLife(x)'
    BY <1>5, <2>3, <2>4
  <2>. QED BY <1>5, <1>6, <2>1, <2>2, <2>5, SameUsers, LifeKept
<1>7. CASE /\ Dec(handle_count[oo]) = 0 /\ htab' = htab /\ destroys' = destroys
           /\ life' = [life EXCEPT ![oo] = "closed"]
           /\ call' = [call EXCEPT ![c] = InAssign(oo, o, h2)]
  <2>1. /\ life'[oo] = "closed" /\ \A x \in Objects \ {oo} : life'[x] = life[x]
        /\ call'[c] = InAssign(oo, o, h2) /\ \A d \in Calls \ {c} : call'[d] = call[d]
    BY <1>7 DEF Base, TypeOK
  <2>2. \A x \in Objects : HandlesOf(x)' = HandlesOf(x)
    BY <1>7 DEF HandlesOf
  <2>3. ASSUME NEW x \in Objects \ X PROVE Users(x)' = Users(x)
    BY <1>1, <1>5, <2>1, CallFields, ConstantFacts DEF Users
  <2>4. ObjLife(o)' /\ ObjLife(oo)'
    BY <1>2, <1>3, <1>7, <2>1, <2>2 DEF ObjLife
  <2>5. CallLife(c)'
    BY <1>4, <1>7, <2>1, <2>2, CallFields DEF CallLife
  <2>6. \A x \in X : ObjLife(x)'
    BY <1>5, <2>4
  <2>. QED BY <1>5, <1>7, <2>1, <2>2, <2>3, <2>5, <2>6, LifeKept
<1>. QED BY <1>1, <1>6, <1>7

\* The end of a reassignment: the new object has a handle now, the old one none.
LEMMA AssignDoneLife ==
  ASSUME Base, CountInv, LockInv, LifeInv, ~Spins, OneFileUser, FewHandles, FewCalls, ClosesSucceed,
         NEW c \in Calls, NEW rc \in CloseResults, AssignDone(c, rc)
  PROVE  LifeInv'
<1>1. PICK o \in Objects, oo \in Objects, h \in Handles :
         /\ call[c].at = "hassign" /\ call[c].new = o /\ call[c].obj = oo /\ call[c].h = h
         /\ htab[h].obj = oo
         /\ \A d \in Calls \ {c} : call'[d] = call[d]
         /\ call'[c] = User /\ Reassigned' = {}
         /\ \/ rc = "ok" /\ Moved(h, o)
            \/ rc = "error"
         /\ LET gone == {x \in {oo} : Unlocked(x)}
                        \cup {x \in {o} : Dec(lock_count[o]) = 0 /\ handle_count'[x] = 0} IN
            /\ life' = [x \in Objects |-> IF x \in gone THEN "destroyed" ELSE life[x]]
            /\ destroys' = [x \in Objects |-> IF x \in gone /\ destroys[x] < 2
                                              THEN destroys[x] + 1 ELSE destroys[x]]
  BY AssignDoneTable
<1>2. Moved(h, o)
  BY <1>1 DEF ClosesSucceed
<1>3. /\ HandlesOf(o)' = HandlesOf(o) \cup {h} /\ h \in HandlesOf(o)'
      /\ oo # o => HandlesOf(oo)' = HandlesOf(oo) \ {h}
      /\ \A x \in Objects \ {o, oo} : HandlesOf(x)' = HandlesOf(x)
  BY <1>1, <1>2 DEF HandlesOf, Moved, Kept
<1>4. HandlesOf(oo) = {h} /\ life[oo] = "closed" /\ destroys[oo] = 0
  BY <1>1 DEF LifeInv, CallLife, ObjLife
<1>5. /\ \A d \in Calls \ {c} : call[d].at \notin {"hfree", "hassign"}
      /\ Users(oo) \ {c} = Lockers(oo) \ {c}
  BY <1>1, OnlyCloser
<1>6. c \in Users(o) /\ c \in Lockers(o) /\ (oo # o => c \notin Lockers(oo))
  BY <1>1 DEF Users, Lockers
<1>7. life[o] # "destroyed" /\ destroys[o] = 0
  BY <1>6, InUse
<1>8. handle_count'[o] # 0
  <2>1. CountInv'
    BY AssignDoneCount
  <2>2. Counted(o)' = HandlesOf(o)' /\ HandlesOf(o)' \subseteq Handles
    BY <1>1 DEF Counted, HandlesOf
  <2>3. handle_count'[o] = Cardinality(HandlesOf(o)') % CountMod
    BY <2>1, <2>2 DEF CountInv
  <2>4. handle_count'[o] = Cardinality(HandlesOf(o)')
    BY <2>2, <2>3, SmallCount
  <2>. QED BY <1>3, <2>2, <2>4, HandleSets, FS_EmptySet
<1>9. Unlocked(oo) <=> Lockers(oo) = {}
  BY UnlockedMeans
<1>10. /\ \A x \in Objects \ {oo} : life'[x] = life[x] /\ destroys'[x] = destroys[x]
       /\ IF Unlocked(oo) THEN life'[oo] = "destroyed" /\ destroys'[oo] = 1
          ELSE life'[oo] = life[oo] /\ destroys'[oo] = destroys[oo]
  BY <1>1, <1>4, <1>8
<1>11. ObjLife(o)'
  BY <1>3, <1>6, <1>7, <1>9, <1>10 DEF ObjLife
<1>12. oo # o => ObjLife(oo)'
  <2>. SUFFICES ASSUME oo # o PROVE ObjLife(oo)'
    OBVIOUS
  <2>1. HandlesOf(oo)' = {}
    BY <1>3, <1>4
  <2>2. Users(oo)' = Lockers(oo)
    <3>1. c \notin Users(oo)'
      BY <1>1, CallFields, ConstantFacts DEF Users
    <3>2. Users(oo)' \ {c} = Users(oo) \ {c}
      BY <1>1, UsersChange
    <3>. QED BY <1>5, <1>6, <3>1, <3>2
  <2>. QED BY <1>4, <1>9, <1>10, <2>1, <2>2 DEF ObjLife
<1>13. ASSUME NEW x \in Objects \ {o, oo} PROVE Users(x)' = Users(x)
  BY <1>1, CallFields, ConstantFacts DEF Users
<1>14. CallLife(c)'
  BY <1>1, CallFields DEF CallLife
<1>. DEFINE X == {o, oo}
<1>15. X \in SUBSET Objects /\ (\A x \in X : ObjLife(x)') /\ Objects \ X = Objects \ {o, oo}
       /\ \A x \in Objects \ X : x \in Objects \ {oo}
  BY <1>11, <1>12
<1>. HIDE DEF X
<1>. QED BY <1>1, <1>3, <1>5, <1>10, <1>13, <1>14, <1>15, LifeKept

LEMMA LifeStep ==
  ASSUME Base, CountInv, LockInv, LifeInv, OneFileUser, FewHandles, FewCalls, ClosesSucceed,
         [Next]_vars
  PROVE  LifeInv'
<1>0. CASE UNCHANGED vars
  BY <1>0 DEF vars, LifeInv, CallLife, ObjLife, HandlesOf, Users
<1>. SUFFICES ASSUME Next PROVE LifeInv'
  BY <1>0
<1>1. ~Spins
  BY NextNotSpinning
<1>2. ASSUME NEW c \in Calls, NEW h1 \in Handles, NEW h2 \in 0 .. MaxHandles, Dup2Full(c, h1, h2)
      PROVE  LifeInv'
  <2>1. MaxPages \in 0 .. MaxPages /\ MaxHandles = PerPage * MaxPages
    BY ConstantFacts
  <2>2. MaxHandles >= htabsize
    BY SizeType DEF Base
  <2>3. \A g \in Handles : Kept(g)
    BY <1>2, <2>1, <2>2, GrowStep DEF Dup2Full, Base
  <2>4. life' = life /\ destroys' = destroys /\ call' = call
    BY <1>2 DEF Dup2Full, objs
  <2>5. \A d \in Calls : call[d].at \in {"hfree", "hassign"} => call[d].obj \in Objects
    BY CallShape DEF Base
  <2>. QED BY <2>3, <2>4, <2>5, SameUsers, LifeSame
<1>3. ASSUME NEW c \in Calls, NEW o \in Objects, Create(c, o) \/ CreateThread(c, o) \/ ExitThread(c, o)
      PROVE  LifeInv'
  BY <1>1, <1>3, CreateLife, ExitThreadLife
<1>4. ASSUME NEW c \in Calls, NEW h \in Handles, Dup(c, h) \/ Lock(c, h) \/ Close(c, h)
      PROVE  LifeInv'
  BY <1>1, <1>4, DupLife, LockLife, CloseLife
<1>5. ASSUME NEW c \in Calls, Unlock(c) \/ CloseDone(c)
      PROVE  LifeInv'
  BY <1>1, <1>5, UnlockLife, CloseDoneLife
<1>6. ASSUME NEW c \in Calls, NEW h1 \in Handles, NEW h2 \in 0 .. MaxHandles,
             Dup2Free(c, h1, h2) \/ Dup2Used(c, h1, h2)
      PROVE  LifeInv'
  BY <1>1, <1>6, Dup2FreeLife, Dup2UsedLife
<1>7. ASSUME NEW c \in Calls, NEW rc \in CloseResults, AssignDone(c, rc)
      PROVE  LifeInv'
  BY <1>1, <1>7, AssignDoneLife
<1>. QED BY <1>2, <1>3, <1>4, <1>5, <1>6, <1>7 DEF Next

-----------------------------------------------------------------------------
(* The theorems.                                                           *)

LEMMA InitAll == Init => CountInv /\ ThreadLive /\ LockInv /\ LifeInv
<1>. SUFFICES ASSUME Init PROVE CountInv /\ ThreadLive /\ LockInv /\ LifeInv
  OBVIOUS
<1>1. \A o \in Objects : HandlesOf(o) = {} /\ Counted(o) = {}
  BY ConstantFacts DEF Init, HandlesOf, Counted, FreeEntry
<1>2. \A c \in Calls : call[c] = User
  BY DEF Init
<1>3. \A o \in Objects : Lockers(o) = {}
  BY <1>2, CallFields DEF Lockers
<1>4. Cardinality({}) = 0 /\ 0 % CountMod = 0
  BY FS_EmptySet DEF CountMod
<1>5. CountInv /\ LockInv
  BY <1>1, <1>3, <1>4 DEF Init, CountInv, LockInv
<1>6. ThreadLive
  BY ConstantFacts DEF Init, ThreadLive
<1>7. LifeInv
  BY <1>1, <1>2, CallFields DEF Init, LifeInv, CallLife, ObjLife
<1>. QED BY <1>5, <1>6, <1>7

\* The types, the table and its users hold throughout.
LEMMA BaseAlways ==
  ASSUME OneFileUser
  PROVE  Spec => []Base
<1>1. Base /\ [Next]_vars => Base'
  BY BaseStep
<1>. QED BY <1>1, InitBase, PTL DEF Spec

\* The free list, from hfreelist through the links in the table, runs through
\* every unused entry of the mapped pages once and through no used one
\* (hndl.c: expand_htab, halloc, hfree, hassign, remove_from_freelist).
THEOREM FreeListCorrect ==
  ASSUME OneFileUser
  PROVE  Spec => []FreeListSound
<1>1. Base => FreeListSound
  BY ChainFollowed DEF Base
<1>. QED BY <1>1, BaseAlways, PTL

\* handle_count counts, modulo its width of 16 bits, the table entries that
\* lead to an object that is not a file, whatever closes return and however
\* many handles there are.
THEOREM CountsModulo ==
  ASSUME OneFileUser
  PROVE  Spec => []CountInv
<1>1. Base /\ CountInv /\ [Next]_vars => CountInv'
  BY CountStep
<1>. QED BY <1>1, BaseAlways, InitAll, PTL DEF Spec

\* When the table has fewer entries than handle_count can count and closing a
\* file does not fail, handle_count is the number of entries.
THEOREM CountsExact ==
  ASSUME OneFileUser, FewHandles, ClosesSucceed
  PROVE  Spec => []HandleCountExact
<1>1. Base /\ CountInv => HandleCountExact
  BY ExactCount DEF HandleCountExact, Base, Exact, Counted
<1>. QED BY <1>1, BaseAlways, CountsModulo, PTL

\* A thread's own handle keeps the thread object from being closed: sys_close
\* and sys_dup2 refuse it, and another handle is never the last.
THEOREM ThreadsOutlive ==
  ASSUME OneFileUser, FewHandles
  PROVE  Spec => []ThreadOutlivesItself
<1>1. Base /\ CountInv /\ ThreadLive /\ [Next]_vars => ThreadLive'
  BY ThreadLiveStep
<1>2. Base /\ ThreadLive => ThreadOutlivesItself
  BY ConstantFacts DEF ThreadLive, ThreadOutlivesItself, Base, UseInv, ThreadUse
<1>. QED BY <1>1, <1>2, BaseAlways, CountsModulo, InitAll, PTL DEF Spec

\* What the life of an object rests on, together.
LEMMA LifeAlways ==
  ASSUME OneFileUser, FewHandles, FewCalls, ClosesSucceed
  PROVE  Spec => []LifeInv
<1>1. Base /\ LockInv /\ [Next]_vars => LockInv'
  BY LockStep
<1>2. Base /\ CountInv /\ LockInv /\ LifeInv /\ [Next]_vars => LifeInv'
  BY LifeStep
<1>. QED BY <1>1, <1>2, BaseAlways, CountsModulo, InitAll, PTL DEF Spec

\* destroy_object runs at most once on an object.
THEOREM DestroyedAtMostOnce ==
  ASSUME OneFileUser, FewHandles, FewCalls, ClosesSucceed
  PROVE  Spec => []DestroyedOnce
<1>1. LifeInv => DestroyedOnce
  BY DEF LifeInv, ObjLife, DestroyedOnce
<1>. QED BY <1>1, LifeAlways, PTL

\* A destroyed object has no handle and no user, and an object without handles
\* and without users has been destroyed, whether hfree, hassign or orel saw
\* the last of them go.
THEOREM DestroyedInTime ==
  ASSUME OneFileUser, FewHandles, FewCalls, ClosesSucceed
  PROVE  Spec => []DestroyedWhenUnused
<1>1. LifeInv => DestroyedWhenUnused
  <2>. SUFFICES ASSUME LifeInv, NEW o \in Objects
                PROVE  LET used == \E c \in Calls : o \in {call[c].obj, call[c].new}
                       IN /\ destroys[o] > 0 => HandlesOf(o) = {} /\ ~used
                          /\ life[o] = "closed" /\ HandlesOf(o) = {} => used
    BY DEF DestroyedWhenUnused
  <2>1. (\E c \in Calls : o \in {call[c].obj, call[c].new}) <=> Users(o) # {}
    BY DEF Users
  <2>. QED BY <2>1 DEF LifeInv, ObjLife
<1>. QED BY <1>1, LifeAlways, PTL
=============================================================================
