---------------------------- MODULE BufferProofs ----------------------------
(***************************************************************************)
(* Theorems about BufferCache, for any number of users, buffers and        *)
(* blocks.                                                                 *)
(*                                                                         *)
(* An action composes operations on the pool with changes of the calling   *)
(* thread, and between two of them a buffer may be on no list or in no     *)
(* hash chain.  So the invariant is a predicate of values: of a pool P,    *)
(* the threads' records T, the users' locks H and the leaked locks L, but  *)
(* for a buffer x that is on no list and has no user, and a buffer y (x or *)
(* NULL) that is in no hash chain.  Each operation preserves it.           *)
(***************************************************************************)
EXTENDS BufferCache, SequenceTheorems, FiniteSetTheorems, TLAPS

Locked == {"lock", "upd", "inv"}
Transfers == {"read", "write", "flush"}   \* places that own the buffer's state

\* The record of thread t fits its place.
FitsUser(r) ==
  /\ r.at \in {"user", "wait", "write", "yield", "read", "flush", "sync"}
  /\ r.at \in {"flush", "sync"} => r.op = "fsync"
FitsLazy(r) ==
  /\ r.at \in {"idle", "quiet", "nap", "flush", "sync"}
  /\ r.at = "flush" => r.op \in {"lazy", "nap", "late"}
  /\ r.at = "sync" => r.op \in {"nap", "late"}
Fits(t, r) ==
  /\ r \in Thread
  /\ IF t = Lazy THEN FitsLazy(r) ELSE FitsUser(r)
  /\ r.at = "wait" => r.op \in {"get", "alloc", "inval"}
  /\ r.at \in {"write", "yield"} => r.op \in {"get", "alloc"}
  /\ r.at \in {"wait", "write", "yield", "read"} => r.blk \in Blocks
  /\ r.at \in {"wait", "write", "read", "flush", "sync"} => r.buf \in Bufs

Types(P, T, H, L) ==
  /\ P \in Pool /\ T \in [Threads -> Thread]
  /\ H \in [Users -> [Bufs -> Nat]] /\ L \in [Bufs -> Nat]
  /\ \A t \in Threads : Fits(t, T[t])
  /\ ~P.panic

\* A list holds exactly the buffers of set S, each once.
Lists(s, S) == IsInjective(s) /\ ToSet(s) = S

ListInv(P, x) ==
  /\ Lists(P.freelist, {b \in Bufs \ {x} : P.state[b] = "free"})
  /\ Lists(P.clean, {b \in Bufs \ {x} : P.state[b] = "clean"})
  /\ Lists(P.dirty, {b \in Bufs \ {x} : P.state[b] = "dirty"})

\* The cached copies of block k.
Copies(P, k, y) == {b \in Bufs \ {y} : P.blkno[b] = k /\ P.state[b] # "free"}

HashInv(P, y) ==
  /\ \A k \in Blocks : Lists(P.hashtable[k], Copies(P, k, y))
  /\ \A b \in Bufs : P.state[b] # "free" => P.blkno[b] \in Blocks

\* A block that is not excused is cached once, and the copy has every update.
ContentInv(P, y) ==
  \A k \in Blocks \ P.excused :
    /\ \A b, c \in Copies(P, k, y) : b = c
    /\ \A b \in Copies(P, k, y) : P.state[b] # "read" => P.current[b]
    /\ P.disk[k] \/ \E b \in Copies(P, k, y) : P.state[b] \in {"upd", "dirty", "write"}

\* What a thread's place says of the buffer it refers to.
BufFits(P, t, r) ==
  /\ r.at \in {"write", "flush"} => P.state[r.buf] = "write"
  /\ r.at = "read" => P.state[r.buf] = "read" /\ P.blkno[r.buf] = r.blk
  /\ r.at = "sync" => P.state[r.buf] \in Locked
  /\ r.at = "wait" => P.blkno[r.buf] = r.blk
  /\ r.at = "wait" /\ t \in P.waiters[r.buf] => P.state[r.buf] \in {"read", "write"}
  /\ r.at = "wait" /\ t \notin P.waiters[r.buf] => P.state[r.buf] \in Locked \cup {"err"}

PlaceInv(P, T) ==
  /\ \A t \in Threads : BufFits(P, t, T[t])
  /\ \A s, t \in Threads :
       (T[s].at \in Transfers /\ T[t].at \in Transfers /\ T[s].buf = T[t].buf) => s = t
  /\ \A b \in Bufs : \A t \in P.waiters[b] : T[t].at = "wait" /\ T[t].buf = b

\* A buffer that users hold, or whose lock has leaked, is locked.
HeldInv(P, H, L) ==
  \A b \in Bufs : (L[b] > 0 \/ \E u \in Users : H[u][b] > 0) => P.state[b] \in Locked

\* buf->locks counts the locks.
GivenTo(H, b) == UNION {{u} \X (1 .. H[u][b]) : u \in Users}
Uses(t, r, W, b) == r.buf = b /\ (r.at \in {"read", "sync"} \/ (r.at = "wait" /\ t \notin W))
UsersOf(T, W, b) == {t \in Threads : Uses(t, T[t], W, b)}

CountInv(P, T, H, L) ==
  \A b \in Bufs : P.locks[b] = Cardinality(GivenTo(H, b)) + Cardinality(UsersOf(T, P.waiters[b], b)) + L[b]

LockInv(P, x) ==
  \A b \in Bufs \ {x} :
    /\ P.state[b] \in {"free", "clean", "dirty", "write"} => P.locks[b] = 0
    /\ P.state[b] \in Locked \cup {"read"} => P.locks[b] > 0

\* The buffer that is being moved.
Loose(P, x, y) ==
  /\ y \in {x, NULL}
  /\ x # NULL => /\ x \in Bufs /\ P.locks[x] = 0 /\ P.waiters[x] = {}
                 /\ P.state[x] \in {"free", "clean", "lock"}

Inv(P, T, H, L, x, y) ==
  /\ Types(P, T, H, L)
  /\ ListInv(P, x)
  /\ HashInv(P, y)
  /\ ContentInv(P, y)
  /\ PlaceInv(P, T)
  /\ HeldInv(P, H, L)
  /\ CountInv(P, T, H, L)
  /\ LockInv(P, x)
  /\ Loose(P, x, y)

Good == Inv(pool, thr, held, leaked, NULL, NULL)

-----------------------------------------------------------------------------
(* Sequences without repetition.                                           *)

\* What the assumption on the constants gives.
LEMMA ConstantFacts ==
  /\ IsFiniteSet(Users) /\ IsFiniteSet(Threads) /\ Lazy \notin Users /\ NoBlock \notin Blocks
  /\ poolsize \in Nat /\ NULL \notin Bufs /\ Users \subseteq Threads /\ Lazy \in Threads
  /\ \A b \in Bufs : b \in Nat
<1>1. IsFiniteSet(Users \cup {Lazy})
  BY CacheAssumption, FS_AddElement DEF CacheAssumption
<1>. QED BY <1>1, CacheAssumption DEF CacheAssumption, Threads, Bufs, NULL

\* The entries of a list of the buffers of S, by index.
LEMMA ListsFacts ==
  ASSUME NEW S, NEW s \in Seq(Bufs), Lists(s, S)
  PROVE  /\ DOMAIN s = 1 .. Len(s) /\ Len(s) \in Nat
         /\ \A i \in 1 .. Len(s) : s[i] \in S
         /\ \A c \in S : \E i \in 1 .. Len(s) : s[i] = c
         /\ \A i, j \in 1 .. Len(s) : s[i] = s[j] => i = j
         /\ s = <<>> <=> S = {}
<1>1. DOMAIN s = 1 .. Len(s) /\ Len(s) \in Nat
  OBVIOUS
<1>2. /\ \A i \in 1 .. Len(s) : s[i] \in S
      /\ \A c \in S : \E i \in 1 .. Len(s) : s[i] = c
      /\ \A i, j \in 1 .. Len(s) : s[i] = s[j] => i = j
  BY <1>1 DEF Lists, ToSet, IsInjective
<1>3. s = <<>> <=> Len(s) = 0
  BY EmptySeq
<1>4. Len(s) = 0 => S = {}
  BY <1>1, <1>2
<1>5. Len(s) # 0 => S # {}
  <2>1. Len(s) # 0 => 1 \in 1 .. Len(s)
    BY <1>1
  <2>. QED BY <1>2, <2>1
<1>. QED BY <1>1, <1>2, <1>3, <1>4, <1>5

\* A sequence that has each buffer of S at one index lists S.
LEMMA ListsFrom ==
  ASSUME NEW S, NEW s \in Seq(Bufs),
         \A i \in 1 .. Len(s) : s[i] \in S,
         \A c \in S : \E i \in 1 .. Len(s) : s[i] = c,
         \A i, j \in 1 .. Len(s) : s[i] = s[j] => i = j
  PROVE  Lists(s, S)
<1>1. DOMAIN s = 1 .. Len(s) /\ Len(s) \in Nat
  OBVIOUS
<1>. QED BY <1>1 DEF Lists, ToSet, IsInjective

\* RemoveAt takes out one position.
LEMMA RemoveAtPart ==
  ASSUME NEW T, NEW q \in Seq(T), NEW n \in 1 .. Len(q)
  PROVE  /\ RemoveAt(q, n) \in Seq(T) /\ Len(RemoveAt(q, n)) = Len(q) - 1
         /\ \A i \in 1 .. (Len(q) - 1) : RemoveAt(q, n)[i] = q[IF i < n THEN i ELSE i + 1]
<1>. DEFINE x == SubSeq(q, 1, n - 1)
            y == SubSeq(q, n + 1, Len(q))
<1>0. Len(q) \in Nat /\ n \in Nat /\ n - 1 \in Nat /\ n + 1 \in Nat
  OBVIOUS
<1>1. x \in Seq(T) /\ Len(x) = n - 1 /\ \A i \in 1 .. (n - 1) : x[i] = q[i]
  <2>1. x \in Seq(T) 
    OBVIOUS
  <2>2. Len(x) = n - 1
    OBVIOUS
  <2>3. \A i \in 1 .. (n - 1) : x[i] = q[i]
    OBVIOUS
  <2>. QED BY <2>1, <2>2, <2>3
<1>2. y \in Seq(T) /\ Len(y) = Len(q) - n /\ \A i \in 1 .. (Len(q) - n) : y[i] = q[n + i]
  <2>1. y \in Seq(T) 
    OBVIOUS
  <2>2. Len(y) = Len(q) - n
    OBVIOUS
  <2>3. \A i \in 1 .. (Len(q) - n) : y[i] = q[n + i]
    OBVIOUS
  <2>. QED BY <2>1, <2>2, <2>3
<1>. HIDE DEF x, y
<1>3. x \o y \in Seq(T)
  BY <1>1, <1>2
<1>4. Len(x \o y) = Len(q) - 1
  <2>1. Len(x \o y) = Len(x) + Len(y)
    BY <1>1, <1>2, ConcatProperties
  <2>. QED BY <1>0, <1>1, <1>2, <2>1
<1>5. ASSUME NEW i \in 1 .. (Len(q) - 1) PROVE (x \o y)[i] = q[IF i < n THEN i ELSE i + 1]
  <2>1. CASE i < n
    <3>1. i \in 1 .. Len(x) /\ i \in 1 .. (n - 1)
      BY <1>0, <1>1, <2>1
    <3>. QED BY <1>1, <1>2, <2>1, <3>1
  <2>2. CASE ~(i < n)
    <3>1. /\ i - Len(x) = i - n + 1 /\ i - n + 1 \in 1 .. (Len(q) - n) /\ n + (i - n + 1) = i + 1
          /\ i \in (Len(x) + 1) .. (Len(x) + Len(y))
      BY <1>0, <1>1, <1>2, <2>2
    <3>2. (x \o y)[i] = y[i - Len(x)]
      BY <1>1, <1>2, <3>1
    <3>. QED BY <1>2, <2>2, <3>1, <3>2
  <2>. QED BY <2>1, <2>2
<1>. QED BY <1>3, <1>4, <1>5 DEF RemoveAt, x, y

\* Unlinking a buffer from its list.
LEMMA WithoutLists ==
  ASSUME NEW S, NEW s \in Seq(Bufs), Lists(s, S), NEW b
  PROVE  Without(s, b) \in Seq(Bufs) /\ Lists(Without(s, b), S \ {b})
<1>1. /\ DOMAIN s = 1 .. Len(s) /\ Len(s) \in Nat
      /\ \A i \in 1 .. Len(s) : s[i] \in S
      /\ \A c \in S : \E i \in 1 .. Len(s) : s[i] = c
      /\ \A i, j \in 1 .. Len(s) : s[i] = s[j] => i = j
  BY ListsFacts
<1>2. CASE b \notin ToSet(s)
  <2>1. S \ {b} = S
    BY <1>2 DEF Lists
  <2>. QED BY <1>2, <2>1 DEF Without
<1>3. CASE b \in ToSet(s)
  <2>. DEFINE n == CHOOSE i \in DOMAIN s : s[i] = b
              w == RemoveAt(s, n)
  <2>1. n \in 1 .. Len(s) /\ s[n] = b
    <3>1. \E i \in DOMAIN s : s[i] = b
      BY <1>3 DEF ToSet
    <3>. QED BY <1>1, <3>1
  <2>2. Without(s, b) = w
    BY <1>3 DEF Without
  <2>. HIDE DEF n
  <2>3. /\ w \in Seq(Bufs) /\ Len(w) = Len(s) - 1
        /\ \A i \in 1 .. (Len(s) - 1) : w[i] = s[IF i < n THEN i ELSE i + 1]
    BY <2>1, RemoveAtPart
  <2>. HIDE DEF w
  <2>4. \A i \in 1 .. Len(w) : w[i] \in S \ {b}
    BY <1>1, <2>1, <2>3
  <2>5. ASSUME NEW c \in S \ {b} PROVE \E i \in 1 .. Len(w) : w[i] = c
    <3>1. PICK j \in 1 .. Len(s) : s[j] = c
      BY <1>1
    <3>2. j # n
      BY <2>1, <3>1
    <3>. DEFINE i == IF j < n THEN j ELSE j - 1
    <3>3. i \in 1 .. Len(w) /\ w[i] = c
      BY <1>1, <2>1, <2>3, <3>1, <3>2
    <3>. QED BY <3>3
  <2>6. \A i, j \in 1 .. Len(w) : w[i] = w[j] => i = j
    BY <1>1, <2>1, <2>3
  <2>. QED BY <2>2, <2>3, <2>4, <2>5, <2>6, ListsFrom
<1>. QED BY <1>2, <1>3

\* Appending a buffer to the tail of a list.
LEMMA AppendLists ==
  ASSUME NEW S, NEW s \in Seq(Bufs), Lists(s, S), NEW b \in Bufs, b \notin S
  PROVE  Append(s, b) \in Seq(Bufs) /\ Lists(Append(s, b), S \cup {b})
<1>. DEFINE w == Append(s, b)
<1>1. /\ Len(s) \in Nat
      /\ \A i \in 1 .. Len(s) : s[i] \in S
      /\ \A c \in S : \E i \in 1 .. Len(s) : s[i] = c
      /\ \A i, j \in 1 .. Len(s) : s[i] = s[j] => i = j
  BY ListsFacts
<1>2. w \in Seq(Bufs) /\ Len(w) = Len(s) + 1 /\ w[Len(s) + 1] = b /\ \A i \in 1 .. Len(s) : w[i] = s[i]
  OBVIOUS
<1>. HIDE DEF w
<1>3. \A i \in 1 .. Len(w) : i \in 1 .. Len(s) \/ i = Len(s) + 1
  BY <1>1, <1>2
<1>4. \A i \in 1 .. Len(w) : w[i] \in S \cup {b}
  BY <1>1, <1>2, <1>3
<1>5. \A c \in S \cup {b} : \E i \in 1 .. Len(w) : w[i] = c
  BY <1>1, <1>2
<1>6. \A i, j \in 1 .. Len(w) : w[i] = w[j] => i = j
  BY <1>1, <1>2, <1>3
<1>7. Lists(w, S \cup {b})
  BY <1>2, <1>4, <1>5, <1>6, ListsFrom
<1>. QED BY <1>2, <1>7 DEF w

\* Putting a buffer at the head of a list or hash chain.
LEMMA PrependLists ==
  ASSUME NEW S, NEW s \in Seq(Bufs), Lists(s, S), NEW b \in Bufs, b \notin S
  PROVE  <<b>> \o s \in Seq(Bufs) /\ Lists(<<b>> \o s, S \cup {b})
<1>. DEFINE w == <<b>> \o s
<1>1. /\ Len(s) \in Nat
      /\ \A i \in 1 .. Len(s) : s[i] \in S
      /\ \A c \in S : \E i \in 1 .. Len(s) : s[i] = c
      /\ \A i, j \in 1 .. Len(s) : s[i] = s[j] => i = j
  BY ListsFacts
<1>2. w \in Seq(Bufs) /\ Len(w) = Len(s) + 1
  OBVIOUS
<1>3. w[1] = b
  BY <1>1
<1>4. \A i \in 1 .. Len(s) : w[i + 1] = s[i]
  BY <1>1
<1>. HIDE DEF w
<1>5. \A i \in 1 .. Len(w) : i = 1 \/ (i - 1 \in 1 .. Len(s) /\ w[i] = s[i - 1])
  <2>. SUFFICES ASSUME NEW i \in 1 .. Len(w), i # 1
                PROVE  i - 1 \in 1 .. Len(s) /\ w[i] = s[i - 1]
    OBVIOUS
  <2>1. i - 1 \in 1 .. Len(s) /\ (i - 1) + 1 = i
    BY <1>1, <1>2
  <2>. QED BY <1>4, <2>1
<1>6. \A i \in 1 .. Len(w) : w[i] \in S \cup {b}
  BY <1>1, <1>3, <1>5
<1>7. ASSUME NEW c \in S \cup {b} PROVE \E i \in 1 .. Len(w) : w[i] = c
  <2>1. CASE c = b
    <3>1. 1 \in 1 .. Len(w)
      BY <1>1, <1>2
    <3>. QED BY <1>3, <2>1, <3>1
  <2>2. CASE c \in S
    <3>1. PICK i \in 1 .. Len(s) : s[i] = c
      BY <1>1, <2>2
    <3>2. i + 1 \in 1 .. Len(w) /\ w[i + 1] = c
      BY <1>1, <1>2, <1>4, <3>1
    <3>. QED BY <3>2
  <2>. QED BY <2>1, <2>2
<1>8. ASSUME NEW i \in 1 .. Len(w), NEW j \in 1 .. Len(w), w[i] = w[j] PROVE i = j
  <2>1. w[i] = b <=> i = 1
    BY <1>1, <1>3, <1>5
  <2>2. w[j] = b <=> j = 1
    BY <1>1, <1>3, <1>5
  <2>3. CASE i # 1 /\ j # 1
    <3>0. i - 1 \in 1 .. Len(s) /\ j - 1 \in 1 .. Len(s) /\ s[i - 1] = s[j - 1]
      BY <1>5, <1>8, <2>3
    <3>1. i - 1 = j - 1
      BY <1>1, <3>0
    <3>. QED BY <3>1, <1>2, <1>1
  <2>. QED BY <1>8, <2>1, <2>2, <2>3
<1>9. Lists(w, S \cup {b})
  BY <1>2, <1>6, <1>7, <1>8, ListsFrom
<1>. QED BY <1>2, <1>9 DEF w

\* Taking the first buffer of a list.
LEMMA TailLists ==
  ASSUME NEW S, NEW s \in Seq(Bufs), Lists(s, S), s # <<>>
  PROVE  /\ Head(s) \in S /\ Head(s) \in Bufs
         /\ Tail(s) \in Seq(Bufs) /\ Lists(Tail(s), S \ {Head(s)})
<1>. DEFINE w == Tail(s)
            b == Head(s)
<1>1. /\ Len(s) \in Nat
      /\ \A i \in 1 .. Len(s) : s[i] \in S
      /\ \A c \in S : \E i \in 1 .. Len(s) : s[i] = c
      /\ \A i, j \in 1 .. Len(s) : s[i] = s[j] => i = j
  BY ListsFacts
<1>2. Len(s) > 0 /\ b = s[1] /\ b \in Bufs /\ w \in Seq(Bufs) /\ Len(w) = Len(s) - 1
  <2>1. Len(s) # 0
    BY EmptySeq
  <2>. QED BY <1>1, <2>1
<1>3. \A i \in 1 .. Len(w) : w[i] = s[i + 1]
  BY <1>1, <1>2
<1>. HIDE DEF w, b
<1>4. b \in S
  BY <1>1, <1>2
<1>5. \A i \in 1 .. Len(w) : w[i] \in S \ {b}
  BY <1>1, <1>2, <1>3
<1>6. ASSUME NEW c \in S \ {b} PROVE \E i \in 1 .. Len(w) : w[i] = c
  <2>1. PICK i \in 1 .. Len(s) : s[i] = c
    BY <1>1
  <2>2. i # 1
    BY <1>2, <2>1
  <2>3. i - 1 \in 1 .. Len(w) /\ (i - 1) + 1 = i
    BY <1>1, <1>2, <2>2
  <2>4. w[i - 1] = c
    BY <1>3, <2>1, <2>3
  <2>. QED BY <2>3, <2>4
<1>7. \A i, j \in 1 .. Len(w) : w[i] = w[j] => i = j
  BY <1>1, <1>2, <1>3
<1>8. Lists(w, S \ {b})
  <2>1. \A c \in S \ {b} : \E i \in 1 .. Len(w) : w[i] = c
    BY <1>6
  <2>. DEFINE R == S \ {b}
  <2>2. /\ w \in Seq(Bufs) /\ \A i \in 1 .. Len(w) : w[i] \in R
        /\ \A c \in R : \E i \in 1 .. Len(w) : w[i] = c
        /\ \A i, j \in 1 .. Len(w) : w[i] = w[j] => i = j
    BY <1>2, <1>5, <2>1, <1>7
  <2>. HIDE DEF R
  <2>3. Lists(w, R)
    BY <2>2, ListsFrom
  <2>. QED BY <2>3 DEF R
<1>. QED BY <1>2, <1>4, <1>8 DEF w, b

\* The list of one buffer.
LEMMA SingleList ==
  ASSUME NEW s \in Seq(Bufs), NEW b \in Bufs, Lists(s, {b})
  PROVE  s = <<b>>
<1>1. /\ Len(s) \in Nat
      /\ \A i \in 1 .. Len(s) : s[i] \in {b}
      /\ \E i \in 1 .. Len(s) : s[i] = b
      /\ \A i, j \in 1 .. Len(s) : s[i] = s[j] => i = j
  BY ListsFacts
<1>2. 1 \in 1 .. Len(s)
  BY <1>1
<1>3. Len(s) = 1
  <2>1. Len(s) > 1 => 2 \in 1 .. Len(s)
    BY <1>1
  <2>2. Len(s) > 1 => 1 = 2
    BY <1>1, <1>2, <2>1
  <2>3. Len(s) >= 1 /\ ~(Len(s) > 1)
    BY <1>1, <1>2, <2>2
  <2>4. \A n \in Nat : n >= 1 /\ ~(n > 1) => n = 1
    OBVIOUS
  <2>. QED BY <1>1, <2>3, <2>4
<1>4. s[1] = b
  BY <1>1, <1>2
<1>. QED BY <1>3, <1>4

-----------------------------------------------------------------------------
(* Counting locks.                                                         *)

\* The locks given on a buffer are finitely many.
LEMMA GivenFacts ==
  ASSUME NEW H \in [Users -> [Bufs -> Nat]], NEW b \in Bufs
  PROVE  /\ IsFiniteSet(GivenTo(H, b)) /\ Cardinality(GivenTo(H, b)) \in Nat
         /\ \A u \in Users : H[u][b] > 0 => Cardinality(GivenTo(H, b)) > 0
<1>. DEFINE F(u) == {u} \X (1 .. H[u][b])
            FF == {F(u) : u \in Users}
<1>1. ASSUME NEW u \in Users PROVE IsFiniteSet(F(u))
  <2>. DEFINE n == H[u][b]
  <2>1. n \in Int /\ 1 \in Int
    OBVIOUS
  <2>. HIDE DEF n
  <2>2. IsFiniteSet(1 .. n) /\ IsFiniteSet({u})
    BY <2>1, FS_Interval, FS_Singleton
  <2>. USE DEF n
  <2>. QED BY <2>2, FS_Product
<1>2. IsFiniteSet(FF)
  <2>1. IsFiniteSet(Users)
    BY ConstantFacts
  <2>. DEFINE g == [u \in Users |-> F(u)]
  <2>2. g \in Surjection(Users, FF)
    BY DEF Surjection
  <2>. HIDE DEF g, FF
  <2>. QED BY <2>1, <2>2, FS_Surjection
<1>3. IsFiniteSet(GivenTo(H, b))
  <2>1. \A X \in FF : IsFiniteSet(X)
    BY <1>1
  <2>2. IsFiniteSet(UNION FF)
    <3>. HIDE DEF FF
    <3>. QED BY <1>2, <2>1, FS_UNION
  <2>. QED BY <2>2 DEF GivenTo
<1>4. Cardinality(GivenTo(H, b)) \in Nat
  BY <1>3, FS_CardinalityType
<1>5. ASSUME NEW u \in Users, H[u][b] > 0 PROVE Cardinality(GivenTo(H, b)) > 0
  <2>1. <<u, 1>> \in GivenTo(H, b)
    <3>1. 1 \in 1 .. H[u][b]
      BY <1>5
    <3>. QED BY <3>1 DEF GivenTo
  <2>2. Cardinality(GivenTo(H, b)) # 0
    BY <1>3, <2>1, FS_EmptySet
  <2>. QED BY <1>4, <2>2
<1>. QED BY <1>3, <1>4, <1>5

\* User u has one lock on b more in K than in H.
OneMore(H, K, u, b) ==
  /\ K[u][b] = H[u][b] + 1
  /\ \A v \in Users : \A c \in Bufs : (v # u \/ c # b) => K[v][c] = H[v][c]

\* A lock more for one user is a lock more in all.
LEMMA GivenMore ==
  ASSUME NEW H \in [Users -> [Bufs -> Nat]], NEW K \in [Users -> [Bufs -> Nat]],
         NEW u \in Users, NEW b \in Bufs, OneMore(H, K, u, b)
  PROVE  /\ Cardinality(GivenTo(K, b)) = Cardinality(GivenTo(H, b)) + 1
         /\ \A c \in Bufs \ {b} : GivenTo(K, c) = GivenTo(H, c)
<1>. DEFINE n == K[u][b]
<1>0. n \in Nat /\ H[u][b] = n - 1 /\ n > 0
  BY DEF OneMore
<1>1. \A c \in Bufs \ {b} : GivenTo(K, c) = GivenTo(H, c)
  BY DEF GivenTo, OneMore
<1>2. \A v \in Users, i \in Int : <<v, i>> \in GivenTo(K, b) <=> i \in 1 .. K[v][b]
  BY DEF GivenTo
<1>3. \A v \in Users, i \in Int : <<v, i>> \in GivenTo(H, b) <=> i \in 1 .. H[v][b]
  BY DEF GivenTo
<1>4. \A e \in GivenTo(K, b) \cup GivenTo(H, b) : \E v \in Users, i \in Int : e = <<v, i>>
  BY DEF GivenTo
<1>5. <<u, n>> \notin GivenTo(H, b)
  BY <1>0, <1>3
<1>6. ASSUME NEW e PROVE e \in GivenTo(K, b) <=> e \in GivenTo(H, b) \cup {<<u, n>>}
  <2>1. CASE \E v \in Users, i \in Int : e = <<v, i>>
    <3>1. PICK v \in Users, i \in Int : e = <<v, i>>
      BY <2>1
    <3>2. e = <<u, n>> <=> v = u /\ i = n
      BY <3>1
    <3>3. i \in 1 .. K[v][b] <=> i \in 1 .. H[v][b] \/ (v = u /\ i = n)
      <4>1. CASE v = u
        <5>1. K[v][b] = n /\ H[v][b] = n - 1
          BY <1>0, <4>1
        <5>. HIDE DEF n
        <5>2. i \in 1 .. n <=> i \in 1 .. (n - 1) \/ i = n
          BY <1>0
        <5>. QED BY <4>1, <5>1, <5>2
      <4>2. CASE v # u
        BY <4>2 DEF OneMore
      <4>. QED BY <4>1, <4>2
    <3>. QED BY <1>2, <1>3, <3>1, <3>2, <3>3
  <2>2. CASE ~\E v \in Users, i \in Int : e = <<v, i>>
    BY <1>0, <1>4, <2>2
  <2>. QED BY <2>1, <2>2
<1>7. GivenTo(K, b) = GivenTo(H, b) \cup {<<u, n>>}
  BY <1>6
<1>8. IsFiniteSet(GivenTo(H, b))
  BY GivenFacts
<1>. QED BY <1>1, <1>5, <1>7, <1>8, FS_AddElement

One(B) == IF B THEN 1 ELSE 0

\* The threads that use a buffer are finitely many.
LEMMA UsersFacts ==
  ASSUME NEW T, NEW W, NEW b
  PROVE  /\ IsFiniteSet(UsersOf(T, W, b)) /\ Cardinality(UsersOf(T, W, b)) \in Nat
         /\ \A t \in Threads : Uses(t, T[t], W, b) => Cardinality(UsersOf(T, W, b)) > 0
<1>. DEFINE S == UsersOf(T, W, b)
<1>1. S \subseteq Threads
  BY DEF UsersOf
<1>. HIDE DEF S
<1>2. IsFiniteSet(S)
  BY <1>1, ConstantFacts, FS_Subset
<1>3. Cardinality(S) \in Nat
  BY <1>2, FS_CardinalityType
<1>4. ASSUME NEW t \in Threads, Uses(t, T[t], W, b) PROVE Cardinality(S) > 0
  <2>1. t \in S
    BY <1>4 DEF S, UsersOf
  <2>2. Cardinality(S) # 0
    BY <1>2, <2>1, FS_EmptySet
  <2>. QED BY <1>3, <2>2
<1>. QED BY <1>2, <1>3, <1>4 DEF S

\* The number of users when thread t changes its record.
LEMMA UsersChange ==
  ASSUME NEW T, NEW V, NEW W, NEW b, NEW t \in Threads, \A s \in Threads \ {t} : V[s] = T[s]
  PROVE  Cardinality(UsersOf(V, W, b)) + One(Uses(t, T[t], W, b))
           = Cardinality(UsersOf(T, W, b)) + One(Uses(t, V[t], W, b))
<1>. DEFINE S == UsersOf(T, W, b)
            R == UsersOf(V, W, b)
            A == Uses(t, T[t], W, b)
            B == Uses(t, V[t], W, b)
<1>1. /\ S \subseteq Threads /\ R \subseteq Threads /\ (t \in S <=> A) /\ (t \in R <=> B)
      /\ \A s \in Threads \ {t} : s \in S <=> s \in R
  BY DEF UsersOf
<1>2. IsFiniteSet(S) /\ IsFiniteSet(R) /\ Cardinality(S) \in Nat /\ Cardinality(R) \in Nat
  BY UsersFacts
<1>. HIDE DEF S, R
<1>3. CASE A /\ B
  <2>1. S = R
    BY <1>1, <1>3
  <2>. QED BY <1>3, <2>1 DEF One, S, R
<1>4. CASE ~A /\ ~B
  <2>1. S = R
    BY <1>1, <1>4
  <2>. QED BY <1>4, <2>1 DEF One, S, R
<1>5. CASE A /\ ~B
  <2>1. S = R \cup {t} /\ t \notin R
    BY <1>1, <1>5
  <2>2. Cardinality(S) = Cardinality(R) + 1
    BY <1>2, <2>1, FS_AddElement
  <2>. QED BY <1>2, <1>5, <2>2 DEF One, S, R
<1>6. CASE ~A /\ B
  <2>1. R = S \cup {t} /\ t \notin S
    BY <1>1, <1>6
  <2>2. Cardinality(R) = Cardinality(S) + 1
    BY <1>2, <2>1, FS_AddElement
  <2>. QED BY <1>2, <1>6, <2>2 DEF One, S, R
<1>. QED BY <1>3, <1>4, <1>5, <1>6

AllWait(T, W, b) == \A s \in W : T[s].at = "wait" /\ T[s].buf = b

\* The waiters of a transfer become users.
LEMMA UsersWoken ==
  ASSUME NEW T \in [Threads -> Thread], NEW W \in SUBSET Users, NEW b, AllWait(T, W, b)
  PROVE  /\ Cardinality(UsersOf(T, {}, b)) = Cardinality(UsersOf(T, W, b)) + Cardinality(W)
         /\ IsFiniteSet(W) /\ Cardinality(W) \in Nat /\ (Cardinality(W) = 0 <=> W = {})
<1>. DEFINE S == UsersOf(T, W, b)
            R == UsersOf(T, {}, b)
<1>1. R = S \cup W /\ S \cap W = {}
  BY ConstantFacts DEF UsersOf, Uses, AllWait
<1>2. IsFiniteSet(S)
  BY UsersFacts
<1>3. IsFiniteSet(W)
  BY ConstantFacts, FS_Subset
<1>. HIDE DEF S, R
<1>4. Cardinality(R) = Cardinality(S) + Cardinality(W)
  <2>1. Cardinality(S \cup W) = Cardinality(S) + Cardinality(W) - Cardinality(S \cap W)
    BY <1>2, <1>3, FS_Union
  <2>2. Cardinality(S \cap W) = 0
    BY <1>1, FS_EmptySet
  <2>3. Cardinality(S) \in Nat /\ Cardinality(W) \in Nat
    BY <1>2, <1>3, FS_CardinalityType
  <2>. QED BY <1>1, <2>1, <2>2, <2>3
<1>. QED BY <1>3, <1>4, FS_CardinalityType, FS_EmptySet DEF S, R

-----------------------------------------------------------------------------
(* What the operations on the pool do to its fields.                       *)

\* The block numbers, hash chains, contents and flags stay.
SameCache(P, Q) ==
  /\ Q.blkno = P.blkno /\ Q.hashtable = P.hashtable /\ Q.current = P.current
  /\ Q.disk = P.disk /\ Q.excused = P.excused /\ Q.panic = P.panic
SameLists(P, Q) == Q.freelist = P.freelist /\ Q.clean = P.clean /\ Q.dirty = P.dirty

\* What change_state changes.
LEMMA ChangeState ==
  ASSUME NEW P \in Pool, NEW b \in Bufs, NEW s \in States
  PROVE  LET Q == change_state(P, b, s)
         IN /\ Q \in Pool /\ SameCache(P, Q) /\ SameLists(P, Q)
            /\ Q.state = [P.state EXCEPT ![b] = s] /\ Q.locks = P.locks /\ Q.waiters = P.waiters
  BY DEF Pool, change_state, SameCache, SameLists

\* What add_lock changes.
LEMMA AddLock ==
  ASSUME NEW P \in Pool, NEW b \in Bufs
  PROVE  LET Q == add_lock(P, b)
         IN /\ Q \in Pool /\ SameCache(P, Q) /\ SameLists(P, Q)
            /\ Q.state = P.state /\ Q.locks = [P.locks EXCEPT ![b] = P.locks[b] + 1] /\ Q.waiters = P.waiters
<1>. DEFINE l == [P.locks EXCEPT ![b] = P.locks[b] + 1]
            Q == [P EXCEPT !.locks = l]
<1>1. l \in [Bufs -> Nat]
  BY DEF Pool
<1>2. add_lock(P, b) = Q
  BY DEF add_lock, Pool
<1>. HIDE DEF l
<1>3. Q \in Pool /\ Q.locks = l /\ SameCache(P, Q) /\ SameLists(P, Q) /\ Q.state = P.state /\ Q.waiters = P.waiters
  BY <1>1 DEF Pool, SameCache, SameLists
<1>. QED BY <1>2, <1>3 DEF l

\* What Forget changes.
LEMMA ForgetFields ==
  ASSUME NEW P \in Pool, NEW k \in Blocks
  PROVE  LET Q == Forget(P, k)
         IN /\ Q \in Pool /\ SameLists(P, Q) /\ Q.state = P.state /\ Q.locks = P.locks /\ Q.waiters = P.waiters
            /\ Q.blkno = P.blkno /\ Q.hashtable = P.hashtable /\ Q.panic = P.panic /\ Q.excused = P.excused
            /\ \A b \in Bufs : Q.current[b] = (P.current[b] \/ P.blkno[b] = k)
            /\ Q.disk = [P.disk EXCEPT ![k] = TRUE]
<1>. DEFINE c == [b \in Bufs |-> P.current[b] \/ P.blkno[b] = k]
            d == [P.disk EXCEPT ![k] = TRUE]
            Q == [P EXCEPT !.current = c, !.disk = d]
<1>1. Forget(P, k) = Q
  BY DEF Forget, Pool
<1>2. c \in [Bufs -> BOOLEAN] /\ d \in [Blocks -> BOOLEAN]
  BY DEF Pool
<1>3. \A b \in Bufs : c[b] = (P.current[b] \/ P.blkno[b] = k)
  OBVIOUS
<1>. HIDE DEF c, d
<1>4. Q \in Pool /\ Q.current = c /\ Q.disk = d
  BY <1>2 DEF Pool
<1>. QED BY <1>1, <1>3, <1>4 DEF SameLists, d, Pool

\* What Excuse changes.
LEMMA ExcuseFields ==
  ASSUME NEW P \in Pool, NEW k \in Blocks
  PROVE  LET Q == Excuse(P, k)
         IN /\ Q \in Pool /\ SameLists(P, Q) /\ Q.state = P.state /\ Q.locks = P.locks /\ Q.waiters = P.waiters
            /\ Q.blkno = P.blkno /\ Q.hashtable = P.hashtable /\ Q.panic = P.panic /\ Q.excused = P.excused \cup {k}
            /\ \A b \in Bufs : Q.current[b] = (P.current[b] \/ P.blkno[b] = k)
            /\ Q.disk = [P.disk EXCEPT ![k] = TRUE]
<1>. DEFINE F == Forget(P, k)
<1>1. /\ F \in Pool /\ SameLists(P, F) /\ F.state = P.state /\ F.locks = P.locks /\ F.waiters = P.waiters
      /\ F.blkno = P.blkno /\ F.hashtable = P.hashtable /\ F.panic = P.panic /\ F.excused = P.excused
      /\ \A b \in Bufs : F.current[b] = (P.current[b] \/ P.blkno[b] = k)
      /\ F.disk = [P.disk EXCEPT ![k] = TRUE]
  BY ForgetFields
<1>2. Excuse(P, k) = [F EXCEPT !.excused = F.excused \cup {k}]
  BY <1>1 DEF Excuse, Pool
<1>. HIDE DEF F
<1>3. LET Q == [F EXCEPT !.excused = F.excused \cup {k}]
      IN /\ Q \in Pool /\ SameLists(F, Q) /\ Q.state = F.state /\ Q.locks = F.locks /\ Q.waiters = F.waiters
         /\ Q.blkno = F.blkno /\ Q.hashtable = F.hashtable /\ Q.panic = F.panic /\ Q.excused = F.excused \cup {k}
         /\ Q.current = F.current /\ Q.disk = F.disk
  BY <1>1 DEF Pool, SameLists
<1>. QED BY <1>1, <1>2, <1>3 DEF SameLists

\* What release_buffer_waiters changes.
LEMMA WakeFields ==
  ASSUME NEW P \in Pool, NEW b \in Bufs
  PROVE  LET Q == release_buffer_waiters(P, b)
         IN /\ Q \in Pool /\ SameCache(P, Q) /\ SameLists(P, Q) /\ Q.state = P.state
            /\ Q.locks = [P.locks EXCEPT ![b] = P.locks[b] + Cardinality(P.waiters[b])]
            /\ Q.waiters = [P.waiters EXCEPT ![b] = {}]
<1>1. Cardinality(P.waiters[b]) \in Nat
  <2>1. P.waiters[b] \in SUBSET Users
    BY DEF Pool
  <2>2. IsFiniteSet(P.waiters[b])
    BY <2>1, ConstantFacts, FS_Subset
  <2>. QED BY <2>2, FS_CardinalityType
<1>. DEFINE n == Cardinality(P.waiters[b])
            l == [P.locks EXCEPT ![b] = P.locks[b] + n]
            w == [P.waiters EXCEPT ![b] = {}]
            Q == [P EXCEPT !.locks = l, !.waiters = w]
<1>2. release_buffer_waiters(P, b) = Q
  BY DEF release_buffer_waiters, Pool
<1>3. l \in [Bufs -> Nat] /\ w \in [Bufs -> SUBSET Users]
  <2>. HIDE DEF n
  <2>. QED BY <1>1 DEF Pool, n
<1>. HIDE DEF l, w
<1>4. /\ Q \in Pool /\ Q.locks = l /\ Q.waiters = w /\ SameCache(P, Q) /\ SameLists(P, Q) /\ Q.state = P.state
  BY <1>3 DEF Pool, SameCache, SameLists
<1>. QED BY <1>2, <1>4 DEF l, w

\* What the end of a transfer changes.
LEMMA EndTransferFields ==
  ASSUME NEW P \in Pool, NEW b \in Bufs, NEW ok \in BOOLEAN
  PROVE  LET Q == EndTransfer(P, b, ok)
         IN /\ Q \in Pool /\ SameCache(P, Q) /\ SameLists(P, Q)
            /\ Q.state = [P.state EXCEPT ![b] = IF ok THEN "lock" ELSE "err"]
            /\ Q.locks = [P.locks EXCEPT ![b] = P.locks[b] + Cardinality(P.waiters[b])]
            /\ Q.waiters = [P.waiters EXCEPT ![b] = {}]
<1>. DEFINE s == IF ok THEN "lock" ELSE "err"
            C == change_state(P, b, s)
<1>1. s \in States
  BY DEF States
<1>. HIDE DEF s
<1>2. /\ C \in Pool /\ SameCache(P, C) /\ SameLists(P, C)
      /\ C.state = [P.state EXCEPT ![b] = s] /\ C.locks = P.locks /\ C.waiters = P.waiters
  BY <1>1, ChangeState
<1>. HIDE DEF C
<1>3. LET Q == release_buffer_waiters(C, b)
      IN /\ Q \in Pool /\ SameCache(C, Q) /\ SameLists(C, Q) /\ Q.state = C.state
         /\ Q.locks = [C.locks EXCEPT ![b] = C.locks[b] + Cardinality(C.waiters[b])]
         /\ Q.waiters = [C.waiters EXCEPT ![b] = {}]
  BY <1>2, WakeFields
<1>4. EndTransfer(P, b, ok) = release_buffer_waiters(C, b)
  BY DEF EndTransfer, C, s
<1>. QED BY <1>2, <1>3, <1>4 DEF SameCache, SameLists, s

ReadEnded(P, Q, b, s) ==
  /\ Q \in Pool /\ SameLists(P, Q)
  /\ Q.blkno = P.blkno /\ Q.hashtable = P.hashtable /\ Q.disk = P.disk
  /\ Q.excused = P.excused /\ Q.panic = P.panic
  /\ Q.current = [P.current EXCEPT ![b] = P.disk[P.blkno[b]]]
  /\ Q.state = [P.state EXCEPT ![b] = s]
  /\ Q.locks = [P.locks EXCEPT ![b] = P.locks[b] + Cardinality(P.waiters[b])]
  /\ Q.waiters = [P.waiters EXCEPT ![b] = {}]

\* What the end of a read changes.
LEMMA EndReadFields ==
  ASSUME NEW P \in Pool, NEW b \in Bufs, P.blkno[b] \in Blocks, NEW ok \in BOOLEAN
  PROVE  ReadEnded(P, EndRead(P, b, ok), b, IF ok THEN "lock" ELSE "err")
<1>. DEFINE c == [P.current EXCEPT ![b] = P.disk[P.blkno[b]]]
            F == [P EXCEPT !.current = c]
<1>1. EndRead(P, b, ok) = EndTransfer(F, b, ok)
  BY DEF EndRead, Pool
<1>2. c \in [Bufs -> BOOLEAN]
  BY DEF Pool
<1>. HIDE DEF c
<1>3. /\ F \in Pool /\ SameLists(P, F) /\ F.blkno = P.blkno /\ F.hashtable = P.hashtable /\ F.disk = P.disk
      /\ F.excused = P.excused /\ F.panic = P.panic /\ F.current = c /\ F.state = P.state
      /\ F.locks = P.locks /\ F.waiters = P.waiters
  BY <1>2 DEF Pool, SameLists
<1>. HIDE DEF F
<1>4. LET Q == EndTransfer(F, b, ok)
      IN /\ Q \in Pool /\ SameCache(F, Q) /\ SameLists(F, Q)
         /\ Q.state = [F.state EXCEPT ![b] = IF ok THEN "lock" ELSE "err"]
         /\ Q.locks = [F.locks EXCEPT ![b] = F.locks[b] + Cardinality(F.waiters[b])]
         /\ Q.waiters = [F.waiters EXCEPT ![b] = {}]
  BY <1>3, EndTransferFields
<1>. QED BY <1>1, <1>3, <1>4 DEF SameCache, SameLists, c, ReadEnded

\* What the end of a write changes.
LEMMA EndWriteFields ==
  ASSUME NEW P \in Pool, NEW b \in Bufs, P.blkno[b] \in Blocks
  PROVE  LET Q == EndWrite(P, b, TRUE)
         IN /\ Q \in Pool /\ SameLists(P, Q)
            /\ Q.blkno = P.blkno /\ Q.hashtable = P.hashtable /\ Q.current = P.current
            /\ Q.excused = P.excused /\ Q.panic = P.panic
            /\ Q.disk = [P.disk EXCEPT ![P.blkno[b]] = P.current[b]]
            /\ Q.state = [P.state EXCEPT ![b] = "lock"]
            /\ Q.locks = [P.locks EXCEPT ![b] = P.locks[b] + Cardinality(P.waiters[b])]
            /\ Q.waiters = [P.waiters EXCEPT ![b] = {}]
<1>. DEFINE d == [P.disk EXCEPT ![P.blkno[b]] = P.current[b]]
            F == [P EXCEPT !.disk = d]
<1>1. EndWrite(P, b, TRUE) = EndTransfer(F, b, TRUE)
  BY DEF EndWrite, Pool
<1>2. d \in [Blocks -> BOOLEAN]
  BY DEF Pool
<1>. HIDE DEF d
<1>3. /\ F \in Pool /\ SameLists(P, F) /\ F.blkno = P.blkno /\ F.hashtable = P.hashtable /\ F.disk = d
      /\ F.excused = P.excused /\ F.panic = P.panic /\ F.current = P.current /\ F.state = P.state
      /\ F.locks = P.locks /\ F.waiters = P.waiters
  BY <1>2 DEF Pool, SameLists
<1>. HIDE DEF F
<1>4. LET Q == EndTransfer(F, b, TRUE)
      IN /\ Q \in Pool /\ SameCache(F, Q) /\ SameLists(F, Q)
         /\ Q.state = [F.state EXCEPT ![b] = "lock"]
         /\ Q.locks = [F.locks EXCEPT ![b] = F.locks[b] + Cardinality(F.waiters[b])]
         /\ Q.waiters = [F.waiters EXCEPT ![b] = {}]
  BY <1>3, EndTransferFields, ZenonT(40)
<1>. QED BY <1>1, <1>3, <1>4 DEF SameCache, SameLists, d

WriteFailed(P, Q, b) ==
  LET k == P.blkno[b]
  IN /\ Q \in Pool /\ SameLists(P, Q)
     /\ Q.blkno = P.blkno /\ Q.hashtable = P.hashtable /\ Q.panic = P.panic
     /\ Q.excused = P.excused \cup {k} /\ Q.disk = [P.disk EXCEPT ![k] = TRUE]
     /\ \A c \in Bufs : Q.current[c] = (P.current[c] \/ P.blkno[c] = k)
     /\ Q.state = [P.state EXCEPT ![b] = "err"]
     /\ Q.locks = [P.locks EXCEPT ![b] = P.locks[b] + Cardinality(P.waiters[b])]
     /\ Q.waiters = [P.waiters EXCEPT ![b] = {}]

\* What the end of a failed write changes.
LEMMA FailedWriteFields ==
  ASSUME NEW P \in Pool, NEW b \in Bufs, P.blkno[b] \in Blocks
  PROVE  WriteFailed(P, EndWrite(P, b, FALSE), b)
<1>. DEFINE k == P.blkno[b]
            F == Excuse(P, k)
<1>1. EndWrite(P, b, FALSE) = EndTransfer(F, b, FALSE)
  BY DEF EndWrite
<1>2. /\ F \in Pool /\ SameLists(P, F) /\ F.state = P.state /\ F.locks = P.locks /\ F.waiters = P.waiters
      /\ F.blkno = P.blkno /\ F.hashtable = P.hashtable /\ F.panic = P.panic /\ F.excused = P.excused \cup {k}
      /\ \A c \in Bufs : F.current[c] = (P.current[c] \/ P.blkno[c] = k)
      /\ F.disk = [P.disk EXCEPT ![k] = TRUE]
  BY ExcuseFields
<1>. HIDE DEF F
<1>4. LET Q == EndTransfer(F, b, FALSE)
      IN /\ Q \in Pool /\ SameCache(F, Q) /\ SameLists(F, Q)
         /\ Q.state = [F.state EXCEPT ![b] = "err"]
         /\ Q.locks = [F.locks EXCEPT ![b] = F.locks[b] + Cardinality(F.waiters[b])]
         /\ Q.waiters = [F.waiters EXCEPT ![b] = {}]
  BY <1>2, EndTransferFields, ZenonT(40)
<1>. DEFINE Q == EndTransfer(F, b, FALSE)
<1>. HIDE DEF Q
<1>5. /\ Q \in Pool /\ SameLists(P, Q)
      /\ Q.blkno = P.blkno /\ Q.hashtable = P.hashtable /\ Q.panic = P.panic
      /\ Q.excused = P.excused \cup {k} /\ Q.disk = [P.disk EXCEPT ![k] = TRUE]
      /\ Q.current = F.current
      /\ Q.state = [P.state EXCEPT ![b] = "err"]
      /\ Q.locks = [P.locks EXCEPT ![b] = P.locks[b] + Cardinality(P.waiters[b])]
      /\ Q.waiters = [P.waiters EXCEPT ![b] = {}]
  BY <1>2, <1>4 DEF SameCache, SameLists, Q
<1>6. \A c \in Bufs : Q.current[c] = (P.current[c] \/ P.blkno[c] = k)
  BY <1>2, <1>5
<1>7. EndWrite(P, b, FALSE) = Q
  BY <1>1 DEF Q
<1>. QED BY <1>5, <1>6, <1>7 DEF WriteFailed

\* What lookup_buffer makes of a state.
LockState(s) == CASE s \in {"clean", "inv"} -> "lock" [] s = "dirty" -> "upd" [] OTHER -> s

\* What lookup_buffer changes when it locks a cached buffer.
LEMMA LockFields ==
  ASSUME NEW P \in Pool, NEW b \in Bufs, Without(P.clean, b) \in Seq(Bufs), Without(P.dirty, b) \in Seq(Bufs),
         P.state[b] # "free"
  PROVE  LET Q == lock_buffer(P, b)
         IN /\ Q \in Pool /\ SameCache(P, Q) /\ Q.waiters = P.waiters /\ Q.freelist = P.freelist
            /\ Q.clean = Without(P.clean, b) /\ Q.dirty = Without(P.dirty, b)
            /\ Q.state = [P.state EXCEPT ![b] = LockState(P.state[b])]
            /\ Q.locks = [P.locks EXCEPT ![b] = P.locks[b] + 1]
<1>. DEFINE F == add_lock(P, b)
            s == [P.state EXCEPT ![b] = LockState(P.state[b])]
            c == Without(P.clean, b)
            d == Without(P.dirty, b)
            Q == [F EXCEPT !.clean = c, !.dirty = d, !.state = s]
<1>1. /\ F \in Pool /\ SameCache(P, F) /\ SameLists(P, F)
      /\ F.state = P.state /\ F.locks = [P.locks EXCEPT ![b] = P.locks[b] + 1] /\ F.waiters = P.waiters
  BY AddLock
<1>2. s \in [Bufs -> States]
  BY DEF Pool, LockState, States
<1>3. lock_buffer(P, b) = Q
  <2>1. lock_buffer(P, b) = [F EXCEPT !.clean = Without(F.clean, b), !.dirty = Without(F.dirty, b),
                                      !.state = [F.state EXCEPT ![b] = LockState(F.state[b])],
                                      !.panic = F.panic \/ P.state[b] = "free"]
    BY <1>1 DEF lock_buffer, LockState, Pool
  <2>2. F.clean = P.clean /\ F.dirty = P.dirty /\ F.state = P.state /\ (F.panic \/ P.state[b] = "free") = F.panic
    BY <1>1 DEF SameLists, Pool
  <2>. HIDE DEF F, s, c, d
  <2>3. Q = [F EXCEPT !.clean = c, !.dirty = d, !.state = s, !.panic = F.panic]
    BY <1>1 DEF Pool
  <2>. QED BY <2>1, <2>2, <2>3 DEF s, c, d
<1>. HIDE DEF F, s, c, d
<1>4. /\ Q \in Pool /\ SameCache(F, Q) /\ Q.waiters = F.waiters /\ Q.freelist = F.freelist
      /\ Q.clean = c /\ Q.dirty = d /\ Q.state = s /\ Q.locks = F.locks
  BY <1>1, <1>2 DEF Pool, SameCache, c, d
<1>. QED BY <1>1, <1>3, <1>4 DEF SameCache, SameLists, s, c, d

\* What release_buffer changes when locks remain.
LEMMA ReleaseLockedFields ==
  ASSUME NEW P \in Pool, NEW b \in Bufs, P.locks[b] > 1
  PROVE  LET Q == release_buffer(P, b)
         IN /\ Q \in Pool /\ SameCache(P, Q) /\ SameLists(P, Q) /\ Q.waiters = P.waiters /\ Q.state = P.state
            /\ Q.locks = [P.locks EXCEPT ![b] = P.locks[b] - 1]
<1>. DEFINE l == [P.locks EXCEPT ![b] = P.locks[b] - 1]
            Q == [P EXCEPT !.locks = l]
<1>1. l \in [Bufs -> Nat] /\ l[b] > 0
  BY DEF Pool
<1>2. [P EXCEPT !.locks[b] = @ - 1] = Q
  BY DEF Pool
<1>. HIDE DEF l
<1>3. Q \in Pool /\ SameCache(P, Q) /\ SameLists(P, Q) /\ Q.waiters = P.waiters /\ Q.state = P.state /\ Q.locks = l
  BY <1>1 DEF Pool, SameCache, SameLists
<1>4. release_buffer(P, b) = Q
  <2>. HIDE DEF Q
  <2>. QED BY <1>1, <1>2, <1>3 DEF release_buffer
<1>. QED BY <1>3, <1>4 DEF l

\* The pool with one lock of b less, and none left.
LEMMA LastLock ==
  ASSUME NEW P \in Pool, NEW b \in Bufs, P.locks[b] = 1
  PROVE  LET Q == [P EXCEPT !.locks[b] = @ - 1]
         IN /\ Q \in Pool /\ SameCache(P, Q) /\ SameLists(P, Q) /\ Q.waiters = P.waiters /\ Q.state = P.state
            /\ Q.locks = [P.locks EXCEPT ![b] = 0] /\ Q.locks[b] = 0
<1>. DEFINE l == [P.locks EXCEPT ![b] = 0]
            Q == [P EXCEPT !.locks = l]
<1>1. l \in [Bufs -> Nat] /\ l[b] = 0
  BY DEF Pool
<1>2. [P EXCEPT !.locks[b] = @ - 1] = Q
  BY DEF Pool
<1>. HIDE DEF l
<1>3. Q \in Pool /\ SameCache(P, Q) /\ SameLists(P, Q) /\ Q.waiters = P.waiters /\ Q.state = P.state /\ Q.locks = l
  BY <1>1 DEF Pool, SameCache, SameLists
<1>. QED BY <1>1, <1>2, <1>3 DEF l

\* What the last release of a buffer that was not updated changes.
LEMMA ReleaseCleanFields ==
  ASSUME NEW P \in Pool, NEW b \in Bufs, P.locks[b] = 1, P.state[b] = "lock"
  PROVE  LET Q == release_buffer(P, b)
         IN /\ Q \in Pool /\ SameCache(P, Q) /\ Q.waiters = P.waiters
            /\ Q.freelist = P.freelist /\ Q.clean = Append(P.clean, b) /\ Q.dirty = P.dirty
            /\ Q.state = [P.state EXCEPT ![b] = "clean"] /\ Q.locks = [P.locks EXCEPT ![b] = 0]
<1>. DEFINE F == [P EXCEPT !.locks[b] = @ - 1]
            s == [P.state EXCEPT ![b] = "clean"]
            a == Append(P.clean, b)
            Q == [F EXCEPT !.state = s, !.clean = a]
<1>1. /\ F \in Pool /\ SameCache(P, F) /\ SameLists(P, F) /\ F.waiters = P.waiters /\ F.state = P.state
      /\ F.locks = [P.locks EXCEPT ![b] = 0] /\ F.locks[b] = 0
  BY LastLock
<1>2. release_buffer(P, b) = Q
  <2>1. release_buffer(P, b) = [F EXCEPT !.state[b] = "clean", !.clean = Append(@, b)]
    BY <1>1 DEF release_buffer
  <2>. HIDE DEF F
  <2>. QED BY <1>1, <2>1 DEF SameLists, s, a
<1>3. s \in [Bufs -> States] /\ a \in Seq(Bufs)
  BY DEF Pool, States
<1>. HIDE DEF F, s, a
<1>4. /\ Q \in Pool /\ SameCache(F, Q) /\ Q.waiters = F.waiters
      /\ Q.freelist = F.freelist /\ Q.clean = a /\ Q.dirty = F.dirty
      /\ Q.state = s /\ Q.locks = F.locks
  BY <1>1, <1>3 DEF Pool, SameCache
<1>. HIDE DEF Q
<1>. QED BY <1>1, <1>2, <1>4 DEF SameCache, SameLists, s, a

\* What the last release of an updated buffer changes.
LEMMA ReleaseDirtyFields ==
  ASSUME NEW P \in Pool, NEW b \in Bufs, P.locks[b] = 1, P.state[b] = "upd"
  PROVE  LET Q == release_buffer(P, b)
         IN /\ Q \in Pool /\ SameCache(P, Q) /\ Q.waiters = P.waiters
            /\ Q.freelist = P.freelist /\ Q.clean = P.clean /\ Q.dirty = Append(P.dirty, b)
            /\ Q.state = [P.state EXCEPT ![b] = "dirty"] /\ Q.locks = [P.locks EXCEPT ![b] = 0]
<1>. DEFINE F == [P EXCEPT !.locks[b] = @ - 1]
            s == [P.state EXCEPT ![b] = "dirty"]
            a == Append(P.dirty, b)
            Q == [F EXCEPT !.state = s, !.dirty = a, !.event = TRUE]
<1>1. /\ F \in Pool /\ SameCache(P, F) /\ SameLists(P, F) /\ F.waiters = P.waiters /\ F.state = P.state
      /\ F.locks = [P.locks EXCEPT ![b] = 0] /\ F.locks[b] = 0
  BY LastLock
<1>2. release_buffer(P, b) = Q
  <2>1. release_buffer(P, b) = [F EXCEPT !.state[b] = "dirty", !.dirty = Append(@, b), !.event = TRUE]
    BY <1>1 DEF release_buffer
  <2>. HIDE DEF F
  <2>. QED BY <1>1, <2>1 DEF SameLists, s, a
<1>3. s \in [Bufs -> States] /\ a \in Seq(Bufs)
  BY DEF Pool, States
<1>. HIDE DEF F, s, a
<1>4. /\ Q \in Pool /\ SameCache(F, Q) /\ Q.waiters = F.waiters
      /\ Q.freelist = F.freelist /\ Q.clean = F.clean /\ Q.dirty = a
      /\ Q.state = s /\ Q.locks = F.locks
  BY <1>1, <1>3 DEF Pool, SameCache
<1>. HIDE DEF Q
<1>. QED BY <1>1, <1>2, <1>4 DEF SameCache, SameLists, s, a

\* What the last release of an invalid buffer changes.
LEMMA ReleaseFreeFields ==
  ASSUME NEW P \in Pool, NEW b \in Bufs, P.locks[b] = 1, P.state[b] \in {"inv", "err"},
         P.blkno[b] \in Blocks, Without(P.hashtable[P.blkno[b]], b) \in Seq(Bufs), <<b>> \o P.freelist \in Seq(Bufs)
  PROVE  LET Q == release_buffer(P, b)
             k == P.blkno[b]
         IN /\ Q \in Pool /\ Q.waiters = P.waiters
            /\ Q.freelist = <<b>> \o P.freelist /\ Q.clean = P.clean /\ Q.dirty = P.dirty
            /\ Q.state = [P.state EXCEPT ![b] = "free"] /\ Q.locks = [P.locks EXCEPT ![b] = 0]
            /\ Q.blkno = [P.blkno EXCEPT ![b] = NoBlock]
            /\ Q.hashtable = [P.hashtable EXCEPT ![k] = Without(P.hashtable[k], b)]
            /\ Q.current = P.current /\ Q.disk = P.disk /\ Q.excused = P.excused /\ Q.panic = P.panic
<1>. DEFINE F == [P EXCEPT !.locks[b] = @ - 1]
            k == P.blkno[b]
            h == [P.hashtable EXCEPT ![k] = Without(P.hashtable[k], b)]
            f == <<b>> \o P.freelist
            s == [P.state EXCEPT ![b] = "free"]
            n == [P.blkno EXCEPT ![b] = NoBlock]
            Q == [F EXCEPT !.hashtable = h, !.state = s, !.freelist = f, !.blkno = n]
<1>1. /\ F \in Pool /\ SameCache(P, F) /\ SameLists(P, F) /\ F.waiters = P.waiters /\ F.state = P.state
      /\ F.locks = [P.locks EXCEPT ![b] = 0] /\ F.locks[b] = 0
  BY LastLock
<1>2. release_buffer(P, b) = Q
  <2>1. release_buffer(P, b) = [remove_from_hashtable(F, b) EXCEPT !.state[b] = "free", !.freelist = <<b>> \o @,
                                                     !.blkno[b] = NoBlock]
    BY <1>1 DEF release_buffer
  <2>. DEFINE G == [F EXCEPT !.hashtable = h]
  <2>2. remove_from_hashtable(F, b) = G
    BY <1>1 DEF remove_from_hashtable, SameCache, Pool
  <2>3. G.state = P.state /\ G.freelist = P.freelist /\ G.blkno = P.blkno
    BY <1>1 DEF Pool, SameCache, SameLists
  <2>. HIDE DEF F, h, f, s, n
  <2>4. [G EXCEPT !.state[b] = "free", !.freelist = <<b>> \o @, !.blkno[b] = NoBlock]
         = [G EXCEPT !.state = s, !.freelist = f, !.blkno = n]
    <3>. HIDE DEF G
    <3>. QED BY <2>3 DEF s, f, n
  <2>5. [G EXCEPT !.state = s, !.freelist = f, !.blkno = n] = Q
    BY <1>1 DEF Pool
  <2>. QED BY <2>1, <2>2, <2>4, <2>5
<1>3. /\ h \in [Blocks -> Seq(Bufs)] /\ f \in Seq(Bufs) /\ s \in [Bufs -> States]
      /\ n \in [Bufs -> Blocks \cup {NoBlock}]
  BY DEF Pool, States
<1>. HIDE DEF F, h, f, s, n
<1>4. /\ Q \in Pool /\ Q.waiters = F.waiters /\ Q.freelist = f /\ Q.clean = F.clean /\ Q.dirty = F.dirty
      /\ Q.state = s /\ Q.locks = F.locks /\ Q.blkno = n /\ Q.hashtable = h
      /\ Q.current = F.current /\ Q.disk = F.disk /\ Q.excused = F.excused /\ Q.panic = F.panic
  BY <1>1, <1>3 DEF Pool
<1>. HIDE DEF Q
<1>. QED BY <1>1, <1>2, <1>4 DEF SameCache, SameLists, h, f, s, n

-----------------------------------------------------------------------------
(* What keeps the parts of the invariant.                                  *)

\* A thread that refers to no buffer.
Idle(r) == r.at \in {"user", "yield", "idle", "quiet", "nap"}

\* Buffer c is the same in both pools, apart from its locks and content.
SameBuf(P, Q, c) == Q.state[c] = P.state[c] /\ Q.blkno[c] = P.blkno[c] /\ Q.waiters[c] = P.waiters[c]

\* Setting the record of one thread.
LEMMA ThreadSet ==
  ASSUME NEW T \in [Threads -> Thread], NEW t \in Threads, NEW r, Fits(t, r), \A s \in Threads : Fits(s, T[s])
  PROVE  LET V == [T EXCEPT ![t] = r]
         IN /\ V \in [Threads -> Thread] /\ V[t] = r /\ \A s \in Threads \ {t} : V[s] = T[s]
            /\ \A s \in Threads : Fits(s, V[s])
<1>1. r \in Thread
  BY DEF Fits
<1>. QED BY <1>1

\* The lists stay right when lists and states stay.
LEMMA ListKeep ==
  ASSUME NEW P, NEW Q, NEW x, ListInv(P, x), SameLists(P, Q),
         \A b \in Bufs \ {x} : \A s \in {"free", "clean", "dirty"} : Q.state[b] = s <=> P.state[b] = s
  PROVE  ListInv(Q, x)
<1>1. \A s \in {"free", "clean", "dirty"} :
        {b \in Bufs \ {x} : Q.state[b] = s} = {b \in Bufs \ {x} : P.state[b] = s}
  OBVIOUS
<1>. QED BY <1>1 DEF ListInv, SameLists

\* The hash chains stay right when chains, states and block numbers stay.
LEMMA HashKeep ==
  ASSUME NEW P, NEW Q, NEW y, HashInv(P, y), Q.hashtable = P.hashtable, Q.blkno = P.blkno,
         \A b \in Bufs : Q.state[b] = "free" <=> P.state[b] = "free"
  PROVE  HashInv(Q, y) /\ \A k \in Blocks : Copies(Q, k, y) = Copies(P, k, y)
<1>1. \A k \in Blocks : Copies(Q, k, y) = Copies(P, k, y)
  BY DEF Copies
<1>. QED BY <1>1 DEF HashInv

\* The block numbers, hash chains, contents and flags stay, and no state
\* changes that says more of the content than the new one.
LEMMA ContentKeep ==
  ASSUME NEW P, NEW Q, NEW y, ContentInv(P, y), SameCache(P, Q),
         \A b \in Bufs : /\ Q.state[b] = "free" <=> P.state[b] = "free"
                         /\ Q.state[b] # P.state[b] =>
                              /\ P.state[b] # "read"
                              /\ P.state[b] \in {"upd", "dirty", "write"} => Q.state[b] \in {"upd", "dirty", "write"}
  PROVE  ContentInv(Q, y)
<1>1. \A k \in Blocks : Copies(Q, k, y) = Copies(P, k, y)
  BY DEF Copies, SameCache
<1>2. ASSUME NEW k \in Blocks \ Q.excused
      PROVE  /\ \A b, c \in Copies(Q, k, y) : b = c
             /\ \A b \in Copies(Q, k, y) : Q.state[b] # "read" => Q.current[b]
             /\ Q.disk[k] \/ \E b \in Copies(Q, k, y) : Q.state[b] \in {"upd", "dirty", "write"}
  <2>1. k \in Blocks \ P.excused /\ Copies(Q, k, y) \subseteq Bufs
    BY DEF SameCache, Copies
  <2>2. /\ \A b, c \in Copies(P, k, y) : b = c
        /\ \A b \in Copies(P, k, y) : P.state[b] # "read" => P.current[b]
        /\ P.disk[k] \/ \E b \in Copies(P, k, y) : P.state[b] \in {"upd", "dirty", "write"}
    BY <2>1 DEF ContentInv
  <2>3. Q.disk[k] \/ \E b \in Copies(Q, k, y) : Q.state[b] \in {"upd", "dirty", "write"}
    BY <1>1, <2>1, <2>2 DEF SameCache
  <2>. QED BY <1>1, <2>1, <2>2, <2>3 DEF SameCache
<1>. QED BY <1>2 DEF ContentInv

\* The counts of locks change by what thread t, its record r becoming v, and
\* the users' and leaked locks give and take.
Balanced(P, Q, t, r, v, H, K, L, M) ==
  \A b \in Bufs : Q.locks[b] + One(Uses(t, r, P.waiters[b], b)) + Cardinality(GivenTo(H, b)) + L[b]
                    = P.locks[b] + One(Uses(t, v, P.waiters[b], b)) + Cardinality(GivenTo(K, b)) + M[b]

\* The lock counts stay right when each count changes with its users.
LEMMA CountStep ==
  ASSUME NEW P \in Pool, NEW Q \in Pool, NEW T, NEW V, NEW t \in Threads, \A s \in Threads \ {t} : V[s] = T[s],
         NEW H \in [Users -> [Bufs -> Nat]], NEW K \in [Users -> [Bufs -> Nat]],
         NEW L \in [Bufs -> Nat], NEW M \in [Bufs -> Nat],
         CountInv(P, T, H, L), Q.waiters = P.waiters,
         Balanced(P, Q, t, T[t], V[t], H, K, L, M)
  PROVE  CountInv(Q, V, K, M)
<1>. SUFFICES ASSUME NEW b \in Bufs
              PROVE  Q.locks[b] = Cardinality(GivenTo(K, b)) + Cardinality(UsersOf(V, Q.waiters[b], b)) + M[b]
  BY DEF CountInv
<1>. DEFINE w == P.waiters[b]
            n == Cardinality(UsersOf(T, w, b))
            m == Cardinality(UsersOf(V, w, b))
            g == Cardinality(GivenTo(H, b))
            h == Cardinality(GivenTo(K, b))
            a == One(Uses(t, T[t], w, b))
            c == One(Uses(t, V[t], w, b))
<1>1. m + a = n + c
  BY UsersChange
<1>2. P.locks[b] = g + n + L[b]
  BY DEF CountInv
<1>3. Q.locks[b] + a + g + L[b] = P.locks[b] + c + h + M[b]
  BY DEF Balanced
<1>4. n \in Nat /\ m \in Nat /\ g \in Nat /\ h \in Nat
  BY UsersFacts, GivenFacts
<1>5. a \in Nat /\ c \in Nat /\ L[b] \in Nat /\ M[b] \in Nat /\ Q.locks[b] \in Nat /\ P.locks[b] \in Nat
  BY DEF One, Pool
<1>. HIDE DEF n, m, g, h, a, c
<1>6. Q.locks[b] = h + m + M[b]
  <2>1. \A p, q, l, k \in Nat : (m + a = n + c /\ p = g + n + l /\ q + a + g + l = p + c + h + k) => q = h + m + k
    BY <1>4, <1>5
  <2>. QED BY <1>1, <1>2, <1>3, <1>5, <2>1
<1>. QED BY <1>6 DEF h, m

\* A buffer without locks has no holder and no user.
LEMMA NoUsers ==
  ASSUME NEW P \in Pool, NEW T, NEW H \in [Users -> [Bufs -> Nat]], NEW L \in [Bufs -> Nat],
         CountInv(P, T, H, L), NEW b \in Bufs
  PROVE  P.locks[b] = 0 => /\ \A u \in Users : H[u][b] = 0
                           /\ L[b] = 0
                           /\ \A t \in Threads : ~Uses(t, T[t], P.waiters[b], b)
<1>. DEFINE n == Cardinality(UsersOf(T, P.waiters[b], b))
            g == Cardinality(GivenTo(H, b))
<1>1. P.locks[b] = g + n + L[b]
  BY DEF CountInv
<1>2. n \in Nat /\ \A t \in Threads : Uses(t, T[t], P.waiters[b], b) => n > 0
  BY UsersFacts
<1>3. g \in Nat /\ \A u \in Users : H[u][b] > 0 => g > 0
  BY GivenFacts
<1>4. L[b] \in Nat /\ \A u \in Users : H[u][b] \in Nat
  OBVIOUS
<1>. HIDE DEF n, g
<1>. QED BY <1>1, <1>2, <1>3, <1>4

\* The pool after a step that leaves every buffer but b alone, for the
\* threads that refer to another buffer.
LEMMA OthersFit ==
  ASSUME NEW P, NEW Q, NEW t, NEW r, BufFits(P, t, r), SameBuf(P, Q, r.buf)
  PROVE  BufFits(Q, t, r)
  BY DEF BufFits, SameBuf

\* A thread that refers to no buffer uses none.
LEMMA IdleFits ==
  ASSUME NEW P, NEW t, NEW r, Idle(r)
  PROVE  BufFits(P, t, r) /\ r.at \notin Transfers /\ r.at # "wait" /\ \A W, b : ~Uses(t, r, W, b)
  BY DEF BufFits, Idle, Transfers, Uses

\* Threads that refer to a buffer.
LEMMA RefersOrIdle ==
  ASSUME NEW t, NEW r, Fits(t, r)
  PROVE  Idle(r) \/ r.buf \in Bufs
  BY DEF Fits, FitsUser, FitsLazy, Idle

\* lookup_buffer gives thread t a lock on b, which is not in transfer.
LEMMA LockStep ==
  ASSUME NEW P, NEW T, NEW H, NEW L, Inv(P, T, H, L, NULL, NULL), NEW t \in Users, Idle(T[t]),
         NEW b \in Bufs, P.state[b] \notin {"free", "read", "write"},
         NEW r, Fits(t, r), r.at = "wait", r.buf = b, r.blk = P.blkno[b]
  PROVE  LET Q == lock_buffer(P, b)
         IN Inv(Q, [T EXCEPT ![t] = r], H, L, NULL, NULL) /\ t \notin Q.waiters[b]
<1>. DEFINE Q == lock_buffer(P, b)
            V == [T EXCEPT ![t] = r]
<1>0. NULL \notin Bufs /\ t \in Threads /\ t # Lazy
  BY ConstantFacts
<1>1. /\ P \in Pool /\ T \in [Threads -> Thread] /\ H \in [Users -> [Bufs -> Nat]] /\ L \in [Bufs -> Nat]
      /\ \A s \in Threads : Fits(s, T[s])
      /\ ~P.panic
  BY DEF Inv, Types
<1>2. /\ ListInv(P, NULL) /\ HashInv(P, NULL) /\ ContentInv(P, NULL) /\ PlaceInv(P, T)
      /\ HeldInv(P, H, L) /\ CountInv(P, T, H, L) /\ LockInv(P, NULL)
  BY DEF Inv
<1>3. /\ Without(P.clean, b) \in Seq(Bufs) /\ Without(P.dirty, b) \in Seq(Bufs)
      /\ Lists(Without(P.clean, b), {c \in Bufs \ {NULL} : P.state[c] = "clean"} \ {b})
      /\ Lists(Without(P.dirty, b), {c \in Bufs \ {NULL} : P.state[c] = "dirty"} \ {b})
  <2>1. P.clean \in Seq(Bufs) /\ P.dirty \in Seq(Bufs)
    BY <1>1 DEF Pool
  <2>. QED BY <1>2, <2>1, WithoutLists DEF ListInv
<1>4. /\ Q \in Pool /\ SameCache(P, Q) /\ Q.waiters = P.waiters /\ Q.freelist = P.freelist
      /\ Q.clean = Without(P.clean, b) /\ Q.dirty = Without(P.dirty, b)
      /\ Q.state = [P.state EXCEPT ![b] = LockState(P.state[b])]
      /\ Q.locks = [P.locks EXCEPT ![b] = P.locks[b] + 1]
  <2>1. P \in Pool /\ Without(P.clean, b) \in Seq(Bufs) /\ Without(P.dirty, b) \in Seq(Bufs)
    BY <1>1, <1>3
  <2>. QED BY <2>1, LockFields
<1>5. /\ V \in [Threads -> Thread] /\ V[t] = r /\ \A s \in Threads \ {t} : V[s] = T[s]
      /\ \A s \in Threads : Fits(s, V[s])
  BY <1>0, <1>1, ThreadSet
<1>. HIDE DEF Q, V
<1>6. /\ P.state \in [Bufs -> States] /\ P.locks \in [Bufs -> Nat] /\ P.waiters \in [Bufs -> SUBSET Users]
      /\ Q.state[b] = LockState(P.state[b]) /\ Q.locks[b] = P.locks[b] + 1
      /\ \A c \in Bufs \ {b} : Q.state[c] = P.state[c] /\ Q.locks[c] = P.locks[c]
  <2>1. P.state \in [Bufs -> States] /\ P.locks \in [Bufs -> Nat] /\ P.waiters \in [Bufs -> SUBSET Users]
    BY <1>1 DEF Pool
  <2>2. /\ Q.state = [P.state EXCEPT ![b] = LockState(P.state[b])]
        /\ Q.locks = [P.locks EXCEPT ![b] = P.locks[b] + 1]
    BY <1>4
  <2>. QED BY <2>1, <2>2
<1>7. /\ P.state[b] \in {"clean", "dirty"} \cup Locked \cup {"err"}
      /\ Q.state[b] \in Locked \cup {"err"}
      /\ P.state[b] \in Locked \cup {"err"} => (Q.state[b] = "err" <=> P.state[b] = "err")
      /\ Q.state[b] = "upd" <=> P.state[b] \in {"upd", "dirty"}
  BY <1>6 DEF States, Locked, LockState
<1>8. ~Uses(t, T[t], P.waiters[b], b) /\ P.waiters[b] = {} /\ T[t].at # "wait"
  <2>1. \A s \in P.waiters[b] : T[s].at = "wait" /\ T[s].buf = b /\ s \in Threads /\ BufFits(P, s, T[s])
    BY <1>2, <1>6, ConstantFacts DEF PlaceInv
  <2>2. P.waiters[b] = {}
    BY <1>7, <2>1 DEF BufFits, Locked
  <2>. QED BY <2>2, IdleFits
<1>9. Types(Q, V, H, L)
  BY <1>1, <1>4, <1>5 DEF Types, SameCache
<1>10. ListInv(Q, NULL)
  <2>1. {c \in Bufs \ {NULL} : Q.state[c] = "clean"} = {c \in Bufs \ {NULL} : P.state[c] = "clean"} \ {b}
    BY <1>6, <1>7 DEF Locked
  <2>2. {c \in Bufs \ {NULL} : Q.state[c] = "dirty"} = {c \in Bufs \ {NULL} : P.state[c] = "dirty"} \ {b}
    BY <1>6, <1>7 DEF Locked
  <2>3. {c \in Bufs \ {NULL} : Q.state[c] = "free"} = {c \in Bufs \ {NULL} : P.state[c] = "free"}
    BY <1>6, <1>7 DEF Locked
  <2>. QED BY <1>2, <1>3, <1>4, <2>1, <2>2, <2>3 DEF ListInv
<1>11. HashInv(Q, NULL)
  BY <1>2, <1>4, <1>6, <1>7, HashKeep DEF SameCache, Locked
<1>12. ContentInv(Q, NULL)
  BY <1>2, <1>4, <1>6, <1>7, ContentKeep DEF Locked
<1>13. PlaceInv(Q, V)
  <2>1. ASSUME NEW s \in Threads PROVE BufFits(Q, s, V[s])
    <3>1. CASE s = t
      BY <1>4, <1>5, <1>7, <1>8, <3>1 DEF BufFits, SameCache
    <3>2. CASE s # t
      <4>1. V[s] = T[s] /\ BufFits(P, s, T[s]) /\ Fits(s, T[s])
        BY <1>1, <1>2, <1>5, <3>2 DEF PlaceInv
      <4>2. CASE Idle(T[s])
        BY <4>1, <4>2, IdleFits
      <4>3. CASE T[s].buf \in Bufs \ {b}
        <5>1. SameBuf(P, Q, T[s].buf)
          BY <1>4, <1>6, <4>3 DEF SameBuf, SameCache
        <5>. QED BY <4>1, <5>1, OthersFit
      <4>4. CASE T[s].buf = b
        BY <1>4, <1>6, <1>7, <4>1, <4>4 DEF BufFits, SameCache, Locked
      <4>. QED BY <4>1, <4>2, <4>3, <4>4, RefersOrIdle
    <3>. QED BY <3>1, <3>2
  <2>2. \A s, q \in Threads :
       (V[s].at \in Transfers /\ V[q].at \in Transfers /\ V[s].buf = V[q].buf) => s = q
    BY <1>2, <1>5 DEF PlaceInv, Transfers
  <2>3. \A c \in Bufs : \A s \in Q.waiters[c] : V[s].at = "wait" /\ V[s].buf = c
    <3>1. \A c \in Bufs : \A s \in P.waiters[c] : s \in Threads /\ s # t
      BY <1>2, <1>6, <1>8, ConstantFacts DEF PlaceInv
    <3>. QED BY <1>2, <1>4, <1>5, <3>1 DEF PlaceInv
  <2>. QED BY <2>1, <2>2, <2>3 DEF PlaceInv
<1>14. HeldInv(Q, H, L)
  BY <1>2, <1>6, <1>7 DEF HeldInv, Locked
<1>15. CountInv(Q, V, H, L)
  <2>1. \A c \in Bufs : One(Uses(t, T[t], P.waiters[c], c)) = 0
    BY IdleFits DEF One
  <2>2. One(Uses(t, V[t], P.waiters[b], b)) = 1 /\ \A c \in Bufs \ {b} : One(Uses(t, V[t], P.waiters[c], c)) = 0
    BY <1>5, <1>8 DEF One, Uses
  <2>3. \A c \in Bufs : Cardinality(GivenTo(H, c)) \in Nat /\ L[c] \in Nat /\ P.locks[c] \in Nat
    BY <1>1, <1>6, GivenFacts
  <2>4. Balanced(P, Q, t, T[t], V[t], H, H, L, L)
    BY <1>6, <2>1, <2>2, <2>3 DEF Balanced
  <2>. QED BY <1>0, <1>1, <1>2, <1>4, <1>5, <2>4, CountStep
<1>16. LockInv(Q, NULL)
  BY <1>2, <1>6, <1>7 DEF LockInv, Locked
<1>17. Inv(Q, V, H, L, NULL, NULL)
  BY <1>9, <1>10, <1>11, <1>12, <1>13, <1>14, <1>15, <1>16 DEF Inv, Loose
<1>18. t \notin Q.waiters[b]
  BY <1>4, <1>8
<1>. QED BY <1>17, <1>18 DEF Q, V

\* Thread t changes its record and the pool changes at buffer b.
LEMMA PlaceStep ==
  ASSUME NEW P \in Pool, NEW Q, NEW T, NEW V, NEW t \in Threads, NEW b,
         \A s \in Threads : Fits(s, T[s]), \A s \in Threads \ {t} : V[s] = T[s], PlaceInv(P, T),
         Q.waiters = P.waiters, \A c \in Bufs \ {b} : SameBuf(P, Q, c),
         \A c \in Bufs : t \notin P.waiters[c],
         \A s \in Threads \ {t} : BufFits(P, s, T[s]) /\ T[s].buf = b => BufFits(Q, s, T[s]),
         BufFits(Q, t, V[t]),
         V[t].at \in Transfers => \A s \in Threads \ {t} : T[s].at \in Transfers => T[s].buf # V[t].buf
  PROVE  PlaceInv(Q, V)
<1>1. ASSUME NEW s \in Threads PROVE BufFits(Q, s, V[s])
  <2>1. CASE s = t
    BY <2>1
  <2>2. CASE s # t
    <3>1. V[s] = T[s] /\ BufFits(P, s, T[s]) /\ Fits(s, T[s])
      BY <2>2 DEF PlaceInv
    <3>2. CASE Idle(T[s])
      BY <3>1, <3>2, IdleFits
    <3>3. CASE T[s].buf \in Bufs \ {b}
      BY <3>1, <3>3, OthersFit
    <3>4. CASE T[s].buf = b
      BY <2>2, <3>1, <3>4
    <3>. QED BY <3>1, <3>2, <3>3, <3>4, RefersOrIdle
  <2>. QED BY <2>1, <2>2
<1>2. \A s, q \in Threads :
     (V[s].at \in Transfers /\ V[q].at \in Transfers /\ V[s].buf = V[q].buf) => s = q
  BY DEF PlaceInv
<1>3. \A c \in Bufs : \A s \in Q.waiters[c] : V[s].at = "wait" /\ V[s].buf = c
  <2>1. \A c \in Bufs : \A s \in P.waiters[c] : s \in Threads /\ s # t
    BY ConstantFacts DEF Pool
  <2>. QED BY <2>1 DEF PlaceInv
<1>. QED BY <1>1, <1>2, <1>3 DEF PlaceInv

\* Only the locks of b change, by the use thread t makes of it.
SameUse(P, Q, T, V, t, b) ==
  /\ \A s \in Threads \ {t} : V[s] = T[s]
  /\ \A c \in Bufs \ {b} : /\ Q.locks[c] = P.locks[c]
                           /\ Uses(t, T[t], P.waiters[c], c) <=> Uses(t, V[t], P.waiters[c], c)
  /\ Q.locks[b] + One(Uses(t, T[t], P.waiters[b], b)) = P.locks[b] + One(Uses(t, V[t], P.waiters[b], b))

\* Then the locks still count the users.
LEMMA UseCount ==
  ASSUME NEW P \in Pool, NEW Q \in Pool, NEW T, NEW V, NEW t \in Threads,
         NEW H \in [Users -> [Bufs -> Nat]], NEW L \in [Bufs -> Nat],
         CountInv(P, T, H, L), Q.waiters = P.waiters, NEW b \in Bufs, SameUse(P, Q, T, V, t, b)
  PROVE  CountInv(Q, V, H, L)
<1>. USE DEF SameUse
<1>1. ASSUME NEW c \in Bufs
      PROVE  Q.locks[c] + One(Uses(t, T[t], P.waiters[c], c)) + Cardinality(GivenTo(H, c)) + L[c]
               = P.locks[c] + One(Uses(t, V[t], P.waiters[c], c)) + Cardinality(GivenTo(H, c)) + L[c]
  <2>1. Cardinality(GivenTo(H, c)) \in Nat /\ L[c] \in Nat /\ P.locks[c] \in Nat /\ Q.locks[c] \in Nat
    BY GivenFacts DEF Pool
  <2>2. Q.locks[c] + One(Uses(t, T[t], P.waiters[c], c)) = P.locks[c] + One(Uses(t, V[t], P.waiters[c], c))
    BY DEF One
  <2>3. One(Uses(t, T[t], P.waiters[c], c)) \in Nat /\ One(Uses(t, V[t], P.waiters[c], c)) \in Nat
    BY DEF One
  <2>. QED BY <2>1, <2>2, <2>3
<1>2. Balanced(P, Q, t, T[t], V[t], H, H, L, L)
  BY <1>1 DEF Balanced
<1>. QED BY <1>2, CountStep

\* What Inv says, part by part.
LEMMA Parts ==
  ASSUME NEW P, NEW T, NEW H, NEW L, NEW x, NEW y, Inv(P, T, H, L, x, y)
  PROVE  /\ P \in Pool /\ T \in [Threads -> Thread] /\ H \in [Users -> [Bufs -> Nat]] /\ L \in [Bufs -> Nat]
         /\ \A s \in Threads : Fits(s, T[s])
         /\ ~P.panic
         /\ ListInv(P, x) /\ HashInv(P, y) /\ ContentInv(P, y) /\ PlaceInv(P, T)
         /\ HeldInv(P, H, L) /\ CountInv(P, T, H, L) /\ LockInv(P, x) /\ Loose(P, x, y)
         /\ P.state \in [Bufs -> States] /\ P.locks \in [Bufs -> Nat] /\ P.waiters \in [Bufs -> SUBSET Users]
         /\ P.blkno \in [Bufs -> Blocks \cup {NoBlock}] /\ P.current \in [Bufs -> BOOLEAN]
         /\ P.disk \in [Blocks -> BOOLEAN] /\ P.hashtable \in [Blocks -> Seq(Bufs)] /\ P.excused \in SUBSET Blocks
         /\ P.freelist \in Seq(Bufs) /\ P.clean \in Seq(Bufs) /\ P.dirty \in Seq(Bufs)
<1>1. P \in Pool
  BY DEF Inv, Types
<1>2. /\ P.state \in [Bufs -> States] /\ P.locks \in [Bufs -> Nat] /\ P.waiters \in [Bufs -> SUBSET Users]
      /\ P.blkno \in [Bufs -> Blocks \cup {NoBlock}] /\ P.current \in [Bufs -> BOOLEAN]
      /\ P.disk \in [Blocks -> BOOLEAN] /\ P.hashtable \in [Blocks -> Seq(Bufs)] /\ P.excused \in SUBSET Blocks
      /\ P.freelist \in Seq(Bufs) /\ P.clean \in Seq(Bufs) /\ P.dirty \in Seq(Bufs)
  BY <1>1 DEF Pool
<1>. QED BY <1>1, <1>2 DEF Inv, Types

\* A thread that waits is in the list of its buffer only, and one that does
\* not wait is in none; a buffer that is not in transfer has no waiters.
LEMMA WaitersFacts ==
  ASSUME NEW P \in Pool, NEW T, PlaceInv(P, T)
  PROVE  /\ \A t \in Threads : \A c \in Bufs : t \in P.waiters[c] => T[t].at = "wait" /\ T[t].buf = c
         /\ \A b \in Bufs : P.state[b] \notin {"read", "write"} => P.waiters[b] = {}
<1>1. \A c \in Bufs : \A s \in P.waiters[c] : T[s].at = "wait" /\ T[s].buf = c /\ s \in Threads
  BY ConstantFacts DEF PlaceInv, Pool
<1>2. \A s \in Threads : BufFits(P, s, T[s])
  BY DEF PlaceInv
<1>. QED BY <1>1, <1>2 DEF BufFits

\* Only contents and flags change.
LEMMA ContentOnly ==
  ASSUME NEW P, NEW T, NEW H, NEW L, NEW x, NEW y, Inv(P, T, H, L, x, y), NEW Q \in Pool,
         SameLists(P, Q), Q.state = P.state, Q.locks = P.locks, Q.waiters = P.waiters,
         Q.blkno = P.blkno, Q.hashtable = P.hashtable, Q.panic = P.panic, ContentInv(Q, y)
  PROVE  Inv(Q, T, H, L, x, y)
<1>1. /\ Types(P, T, H, L) /\ ListInv(P, x) /\ HashInv(P, y) /\ PlaceInv(P, T)
      /\ HeldInv(P, H, L) /\ CountInv(P, T, H, L) /\ LockInv(P, x) /\ Loose(P, x, y)
  BY DEF Inv
<1>2. Types(Q, T, H, L)
  BY <1>1 DEF Types
<1>3. ListInv(Q, x)
  BY <1>1 DEF ListInv, SameLists
<1>4. HashInv(Q, y)
  BY <1>1 DEF HashInv, Copies
<1>5. PlaceInv(Q, T)
  BY <1>1 DEF PlaceInv, BufFits
<1>6. HeldInv(Q, H, L)
  BY <1>1 DEF HeldInv
<1>7. CountInv(Q, T, H, L)
  BY <1>1 DEF CountInv
<1>8. LockInv(Q, x) /\ Loose(Q, x, y)
  BY <1>1 DEF LockInv, Loose
<1>. QED BY <1>2, <1>3, <1>4, <1>5, <1>6, <1>7, <1>8 DEF Inv

\* Forget and Excuse.
LEMMA ForgetStep ==
  ASSUME NEW P, NEW T, NEW H, NEW L, NEW x, NEW y, Inv(P, T, H, L, x, y), NEW k \in Blocks
  PROVE  Inv(Forget(P, k), T, H, L, x, y) /\ Inv(Excuse(P, k), T, H, L, x, y)
<1>1. P \in Pool /\ ContentInv(P, y) /\ P.disk \in [Blocks -> BOOLEAN]
  BY Parts
<1>2. ASSUME NEW Q \in Pool, Q.state = P.state, Q.blkno = P.blkno, P.excused \subseteq Q.excused,
             \A b \in Bufs : Q.current[b] = (P.current[b] \/ P.blkno[b] = k),
             Q.disk = [P.disk EXCEPT ![k] = TRUE]
      PROVE  ContentInv(Q, y)
  <2>. SUFFICES ASSUME NEW j \in Blocks \ Q.excused
                PROVE  /\ \A b, c \in Copies(Q, j, y) : b = c
                       /\ \A b \in Copies(Q, j, y) : Q.state[b] # "read" => Q.current[b]
                       /\ Q.disk[j] \/ \E b \in Copies(Q, j, y) : Q.state[b] \in {"upd", "dirty", "write"}
    BY DEF ContentInv
  <2>1. j \in Blocks \ P.excused /\ Copies(Q, j, y) = Copies(P, j, y) /\ Copies(P, j, y) \subseteq Bufs
    BY <1>2 DEF Copies
  <2>2. /\ \A b, c \in Copies(P, j, y) : b = c
        /\ \A b \in Copies(P, j, y) : P.state[b] # "read" => P.current[b]
        /\ P.disk[j] \/ \E b \in Copies(P, j, y) : P.state[b] \in {"upd", "dirty", "write"}
    BY <1>1, <2>1 DEF ContentInv
  <2>3. P.disk[j] => Q.disk[j]
    BY <1>1, <1>2
  <2>4. \A b \in Copies(Q, j, y) : Q.state[b] # "read" => Q.current[b]
    BY <1>2, <2>1, <2>2
  <2>. QED BY <1>2, <2>1, <2>2, <2>3, <2>4
<1>3. Inv(Forget(P, k), T, H, L, x, y)
  <2>. DEFINE Q == Forget(P, k)
  <2>1. /\ Q \in Pool /\ SameLists(P, Q) /\ Q.state = P.state /\ Q.locks = P.locks /\ Q.waiters = P.waiters
        /\ Q.blkno = P.blkno /\ Q.hashtable = P.hashtable /\ Q.panic = P.panic /\ Q.excused = P.excused
        /\ \A b \in Bufs : Q.current[b] = (P.current[b] \/ P.blkno[b] = k)
        /\ Q.disk = [P.disk EXCEPT ![k] = TRUE]
    BY <1>1, ForgetFields
  <2>. HIDE DEF Q
  <2>2. ContentInv(Q, y)
    BY <1>2, <2>1
  <2>3. Inv(Q, T, H, L, x, y)
    BY <2>1, <2>2, ContentOnly
  <2>. QED BY <2>3 DEF Q
<1>4. Inv(Excuse(P, k), T, H, L, x, y)
  <2>. DEFINE Q == Excuse(P, k)
  <2>1. /\ Q \in Pool /\ SameLists(P, Q) /\ Q.state = P.state /\ Q.locks = P.locks /\ Q.waiters = P.waiters
        /\ Q.blkno = P.blkno /\ Q.hashtable = P.hashtable /\ Q.panic = P.panic /\ Q.excused = P.excused \cup {k}
        /\ \A b \in Bufs : Q.current[b] = (P.current[b] \/ P.blkno[b] = k)
        /\ Q.disk = [P.disk EXCEPT ![k] = TRUE]
    BY <1>1, ExcuseFields
  <2>. HIDE DEF Q
  <2>2. ContentInv(Q, y)
    BY <1>2, <2>1
  <2>3. Inv(Q, T, H, L, x, y)
    BY <2>1, <2>2, ContentOnly
  <2>. QED BY <2>3 DEF Q
<1>. QED BY <1>3, <1>4

\* The flags of the lazy writer.
LEMMA FlagStep ==
  ASSUME NEW P, NEW T, NEW H, NEW L, NEW x, NEW y, Inv(P, T, H, L, x, y), NEW v \in BOOLEAN
  PROVE  Inv([P EXCEPT !.ioactive = v], T, H, L, x, y) /\ Inv([P EXCEPT !.event = v], T, H, L, x, y)
<1>1. P \in Pool /\ ContentInv(P, y)
  BY Parts
<1>2. ASSUME NEW Q \in Pool, SameCache(P, Q), Q.state = P.state, Q.locks = P.locks, Q.waiters = P.waiters,
             SameLists(P, Q)
      PROVE  Inv(Q, T, H, L, x, y)
  <2>1. ContentInv(Q, y)
    BY <1>1, <1>2, ContentKeep
  <2>. QED BY <1>2, <2>1, ContentOnly DEF SameCache
<1>3. LET Q == [P EXCEPT !.ioactive = v]
      IN /\ Q \in Pool /\ SameCache(P, Q) /\ Q.state = P.state /\ Q.locks = P.locks /\ Q.waiters = P.waiters
         /\ SameLists(P, Q)
  BY <1>1 DEF Pool, SameCache, SameLists
<1>4. LET Q == [P EXCEPT !.event = v]
      IN /\ Q \in Pool /\ SameCache(P, Q) /\ Q.state = P.state /\ Q.locks = P.locks /\ Q.waiters = P.waiters
         /\ SameLists(P, Q)
  BY <1>1 DEF Pool, SameCache, SameLists
<1>. QED BY <1>2, <1>3, <1>4

-----------------------------------------------------------------------------
(* The steps that the actions are made of.                                 *)

\* A thread goes from a place without a buffer to another.
LEMMA IdleStep ==
  ASSUME NEW P, NEW T, NEW H, NEW L, NEW x, NEW y, Inv(P, T, H, L, x, y), NEW t \in Threads, Idle(T[t]),
         NEW v, Fits(t, v), Idle(v)
  PROVE  Inv(P, [T EXCEPT ![t] = v], H, L, x, y)
<1>. DEFINE V == [T EXCEPT ![t] = v]
<1>1. /\ P \in Pool /\ T \in [Threads -> Thread] /\ H \in [Users -> [Bufs -> Nat]] /\ L \in [Bufs -> Nat]
      /\ \A s \in Threads : Fits(s, T[s]) /\ PlaceInv(P, T) /\ CountInv(P, T, H, L)
  BY Parts
<1>2. /\ V \in [Threads -> Thread] /\ V[t] = v /\ \A s \in Threads \ {t} : V[s] = T[s]
      /\ \A s \in Threads : Fits(s, V[s])
  BY <1>1, ThreadSet
<1>. HIDE DEF V
<1>3. /\ BufFits(P, t, v) /\ v.at \notin Transfers /\ v.at # "wait" /\ T[t].at # "wait"
      /\ \A W, b : ~Uses(t, v, W, b) /\ ~Uses(t, T[t], W, b)
  BY IdleFits
<1>4. \A c \in Bufs : t \notin P.waiters[c]
  BY <1>1, <1>3, WaitersFacts
<1>5. PlaceInv(P, V)
  BY <1>1, <1>2, <1>3, <1>4, PlaceStep DEF SameBuf
<1>6. CountInv(P, V, H, L)
  <2>1. Balanced(P, P, t, T[t], V[t], H, H, L, L)
    BY <1>2, <1>3 DEF Balanced, One
  <2>. QED BY <1>1, <1>2, <2>1, CountStep
<1>7. Types(P, V, H, L)
  BY <1>2 DEF Inv, Types
<1>8. Inv(P, V, H, L, x, y)
  BY <1>5, <1>6, <1>7 DEF Inv
<1>. QED BY <1>8 DEF V

\* A thread waits for a buffer in transfer.
LEMMA WaitStep ==
  ASSUME NEW P, NEW T, NEW H, NEW L, Inv(P, T, H, L, NULL, NULL), NEW t \in Users, Idle(T[t]),
         NEW b \in Bufs, P.state[b] \in {"read", "write"},
         NEW r, Fits(t, r), r.at = "wait", r.buf = b, r.blk = P.blkno[b]
  PROVE  Inv([P EXCEPT !.waiters[b] = @ \cup {t}], [T EXCEPT ![t] = r], H, L, NULL, NULL)
<1>. DEFINE V == [T EXCEPT ![t] = r]
            w == [P.waiters EXCEPT ![b] = P.waiters[b] \cup {t}]
            Q == [P EXCEPT !.waiters = w]
<1>0. t \in Threads
  BY ConstantFacts
<1>1. /\ P \in Pool /\ T \in [Threads -> Thread] /\ H \in [Users -> [Bufs -> Nat]] /\ L \in [Bufs -> Nat]
      /\ \A s \in Threads : Fits(s, T[s])
      /\ ~P.panic
      /\ ListInv(P, NULL) /\ HashInv(P, NULL) /\ ContentInv(P, NULL) /\ PlaceInv(P, T)
      /\ HeldInv(P, H, L) /\ CountInv(P, T, H, L) /\ LockInv(P, NULL) /\ P.waiters \in [Bufs -> SUBSET Users]
  BY Parts
<1>2. [P EXCEPT !.waiters[b] = @ \cup {t}] = Q
  BY <1>1 DEF Pool
<1>3. /\ w \in [Bufs -> SUBSET Users] /\ w[b] = P.waiters[b] \cup {t} /\ \A c \in Bufs \ {b} : w[c] = P.waiters[c]
  BY <1>1
<1>4. /\ V \in [Threads -> Thread] /\ V[t] = r /\ \A s \in Threads \ {t} : V[s] = T[s]
      /\ \A s \in Threads : Fits(s, V[s])
  BY <1>0, <1>1, ThreadSet
<1>. HIDE DEF V, w
<1>5. /\ Q \in Pool /\ Q.waiters = w /\ Q.state = P.state /\ Q.locks = P.locks /\ SameCache(P, Q) /\ SameLists(P, Q)
  BY <1>1, <1>3 DEF Pool, SameCache, SameLists
<1>. HIDE DEF Q
<1>6. \A c \in Bufs : t \notin P.waiters[c]
  <2>1. T[t].at # "wait"
    BY IdleFits
  <2>. QED BY <1>0, <1>1, <2>1, WaitersFacts
<1>7. Types(Q, V, H, L) /\ ListInv(Q, NULL) /\ HashInv(Q, NULL) /\ ContentInv(Q, NULL)
  <2>1. ListInv(Q, NULL)
    BY <1>1, <1>5, ListKeep
  <2>2. HashInv(Q, NULL)
    BY <1>1, <1>5, HashKeep DEF SameCache
  <2>3. ContentInv(Q, NULL)
    BY <1>1, <1>5, ContentKeep
  <2>. QED BY <1>1, <1>4, <1>5, <2>1, <2>2, <2>3 DEF Types, SameCache
<1>8. PlaceInv(Q, V)
  <2>1. ASSUME NEW s \in Threads PROVE BufFits(Q, s, V[s])
    <3>1. CASE s = t
      BY <1>3, <1>4, <1>5, <3>1 DEF BufFits, SameCache
    <3>2. CASE s # t
      <4>1. V[s] = T[s] /\ BufFits(P, s, T[s]) /\ Fits(s, T[s])
        BY <1>1, <1>4, <3>2 DEF PlaceInv
      <4>2. \A c \in Bufs : s \in w[c] <=> s \in P.waiters[c]
        BY <1>3, <3>2
      <4>3. CASE Idle(T[s])
        BY <4>1, <4>3, IdleFits
      <4>4. CASE T[s].buf \in Bufs
        BY <1>5, <4>1, <4>2, <4>4 DEF BufFits, SameCache
      <4>. QED BY <4>1, <4>3, <4>4, RefersOrIdle
    <3>. QED BY <3>1, <3>2
  <2>2. \A s, q \in Threads :
       (V[s].at \in Transfers /\ V[q].at \in Transfers /\ V[s].buf = V[q].buf) => s = q
    BY <1>1, <1>4 DEF PlaceInv, Transfers
  <2>3. ASSUME NEW c \in Bufs, NEW s \in Q.waiters[c] PROVE V[s].at = "wait" /\ V[s].buf = c
    <3>1. CASE s = t
      BY <1>3, <1>4, <1>5, <1>6, <2>3, <3>1
    <3>2. CASE s # t
      <4>1. s \in P.waiters[c] /\ s \in Threads
        BY <1>1, <1>3, <1>5, <2>3, <3>2, ConstantFacts
      <4>. QED BY <1>1, <1>4, <3>2, <4>1 DEF PlaceInv
    <3>. QED BY <3>1, <3>2
  <2>. QED BY <2>1, <2>2, <2>3 DEF PlaceInv
<1>9. CountInv(Q, V, H, L)
  <2>1. \A c \in Bufs : UsersOf(V, Q.waiters[c], c) = UsersOf(T, P.waiters[c], c)
    <3>. SUFFICES ASSUME NEW c \in Bufs, NEW s \in Threads
                  PROVE  Uses(s, V[s], Q.waiters[c], c) <=> Uses(s, T[s], P.waiters[c], c)
      BY DEF UsersOf
    <3>1. CASE s = t
      <4>1. ~Uses(t, T[t], P.waiters[c], c)
        BY IdleFits
      <4>2. ~Uses(t, V[t], Q.waiters[c], c)
        BY <1>3, <1>4, <1>5 DEF Uses
      <4>. QED BY <3>1, <4>1, <4>2
    <3>2. CASE s # t
      BY <1>3, <1>4, <1>5, <3>2 DEF Uses
    <3>. QED BY <3>1, <3>2
  <2>. QED BY <1>1, <1>5, <2>1 DEF CountInv
<1>10. HeldInv(Q, H, L) /\ LockInv(Q, NULL)
  BY <1>1, <1>5 DEF HeldInv, LockInv
<1>11. Inv(Q, V, H, L, NULL, NULL)
  BY <1>7, <1>8, <1>9, <1>10 DEF Inv, Loose
<1>. QED BY <1>2, <1>11 DEF V

\* A thread that was given a lock keeps it for its caller.
LEMMA HoldStep ==
  ASSUME NEW P, NEW T, NEW H, NEW L, Inv(P, T, H, L, NULL, NULL), NEW t \in Users,
         NEW b \in Bufs, P.state[b] \in Locked, T[t].at = "wait", T[t].buf = b, t \notin P.waiters[b],
         NEW v, Fits(t, v), Idle(v)
  PROVE  Inv(P, [T EXCEPT ![t] = v], [H EXCEPT ![t][b] = @ + 1], L, NULL, NULL)
<1>. DEFINE V == [T EXCEPT ![t] = v]
            K == [H EXCEPT ![t][b] = @ + 1]
<1>0. t \in Threads
  BY ConstantFacts
<1>1. /\ P \in Pool /\ T \in [Threads -> Thread] /\ H \in [Users -> [Bufs -> Nat]] /\ L \in [Bufs -> Nat]
      /\ \A s \in Threads : Fits(s, T[s])
      /\ PlaceInv(P, T) /\ HeldInv(P, H, L) /\ CountInv(P, T, H, L)
  BY Parts
<1>2. /\ V \in [Threads -> Thread] /\ V[t] = v /\ \A s \in Threads \ {t} : V[s] = T[s]
      /\ \A s \in Threads : Fits(s, V[s])
  BY <1>0, <1>1, ThreadSet
<1>3. K \in [Users -> [Bufs -> Nat]] /\ OneMore(H, K, t, b)
  BY <1>1 DEF OneMore
<1>. HIDE DEF V, K
<1>4. \A c \in Bufs : t \notin P.waiters[c]
  BY <1>0, <1>1, WaitersFacts
<1>5. BufFits(P, t, v) /\ v.at \notin Transfers /\ \A W, c : ~Uses(t, v, W, c)
  BY IdleFits
<1>6. PlaceInv(P, V)
  BY <1>0, <1>1, <1>2, <1>4, <1>5, PlaceStep DEF SameBuf
<1>7. HeldInv(P, K, L)
  <2>1. \A c \in Bufs \ {b} : \A u \in Users : K[u][c] = H[u][c]
    BY <1>3 DEF OneMore
  <2>. QED BY <1>1, <2>1 DEF HeldInv
<1>8. CountInv(P, V, K, L)
  <2>1. /\ Cardinality(GivenTo(K, b)) = Cardinality(GivenTo(H, b)) + 1
        /\ \A c \in Bufs \ {b} : GivenTo(K, c) = GivenTo(H, c)
    BY <1>1, <1>3, GivenMore, SMTT(20)
  <2>2. \A c \in Bufs : /\ One(Uses(t, V[t], P.waiters[c], c)) = 0
                        /\ One(Uses(t, T[t], P.waiters[c], c)) = One(c = b)
    BY <1>2, <1>5 DEF One, Uses
  <2>3. \A c \in Bufs : Cardinality(GivenTo(H, c)) \in Nat /\ L[c] \in Nat /\ P.locks[c] \in Nat
    BY <1>1, GivenFacts DEF Pool
  <2>4. Balanced(P, P, t, T[t], V[t], H, K, L, L)
    BY <2>1, <2>2, <2>3 DEF Balanced, One
  <2>. QED BY <1>0, <1>1, <1>2, <1>3, <2>4, CountStep
<1>9. Types(P, V, K, L)
  BY <1>2, <1>3 DEF Inv, Types
<1>10. Inv(P, V, K, L, NULL, NULL)
  BY <1>6, <1>7, <1>8, <1>9 DEF Inv
<1>. QED BY <1>10 DEF V, K

\* sync_buffers fails and keeps its lock.
LEMMA LeakStep ==
  ASSUME NEW P, NEW T, NEW H, NEW L, Inv(P, T, H, L, NULL, NULL), NEW t \in Threads,
         NEW b \in Bufs, T[t].at = "sync", T[t].buf = b, NEW v, Fits(t, v), Idle(v)
  PROVE  Inv(P, [T EXCEPT ![t] = v], H, [L EXCEPT ![b] = @ + 1], NULL, NULL)
<1>. DEFINE V == [T EXCEPT ![t] = v]
            M == [L EXCEPT ![b] = @ + 1]
<1>1. /\ P \in Pool /\ T \in [Threads -> Thread] /\ H \in [Users -> [Bufs -> Nat]] /\ L \in [Bufs -> Nat]
      /\ \A s \in Threads : Fits(s, T[s])
      /\ PlaceInv(P, T) /\ HeldInv(P, H, L) /\ CountInv(P, T, H, L)
  BY Parts
<1>2. /\ V \in [Threads -> Thread] /\ V[t] = v /\ \A s \in Threads \ {t} : V[s] = T[s]
      /\ \A s \in Threads : Fits(s, V[s])
  BY <1>1, ThreadSet
<1>3. /\ M \in [Bufs -> Nat] /\ M[b] = L[b] + 1 /\ \A c \in Bufs \ {b} : M[c] = L[c]
  BY <1>1
<1>. HIDE DEF V, M
<1>4. \A c \in Bufs : t \notin P.waiters[c]
  BY <1>1, WaitersFacts
<1>5. BufFits(P, t, v) /\ v.at \notin Transfers /\ \A W, c : ~Uses(t, v, W, c)
  BY IdleFits
<1>6. PlaceInv(P, V)
  BY <1>1, <1>2, <1>4, <1>5, PlaceStep DEF SameBuf
<1>7. HeldInv(P, H, M)
  <2>1. P.state[b] \in Locked
    BY <1>1 DEF PlaceInv, BufFits
  <2>. QED BY <1>1, <1>3, <2>1 DEF HeldInv
<1>8. CountInv(P, V, H, M)
  <2>2. \A c \in Bufs : /\ One(Uses(t, V[t], P.waiters[c], c)) = 0
                        /\ One(Uses(t, T[t], P.waiters[c], c)) = One(c = b)
    BY <1>2, <1>5 DEF One, Uses
  <2>3. \A c \in Bufs : Cardinality(GivenTo(H, c)) \in Nat /\ L[c] \in Nat /\ P.locks[c] \in Nat
    BY <1>1, GivenFacts DEF Pool
  <2>4. Balanced(P, P, t, T[t], V[t], H, H, L, M)
    BY <1>3, <2>2, <2>3 DEF Balanced, One
  <2>. QED BY <1>1, <1>2, <1>3, <2>4, CountStep
<1>9. Types(P, V, H, M)
  BY <1>2, <1>3 DEF Inv, Types
<1>10. Inv(P, V, H, M, NULL, NULL)
  BY <1>6, <1>7, <1>8, <1>9 DEF Inv
<1>. QED BY <1>10 DEF V, M

\* A locked buffer stays locked: only its state and contents change.
LEMMA RestateStep ==
  ASSUME NEW P, NEW T, NEW H, NEW L, Inv(P, T, H, L, NULL, NULL), NEW b \in Bufs, P.state[b] \in Locked,
         NEW s \in Locked, NEW Q \in Pool, SameLists(P, Q), Q.state = [P.state EXCEPT ![b] = s],
         Q.locks = P.locks, Q.waiters = P.waiters,
         Q.blkno = P.blkno, Q.hashtable = P.hashtable, Q.panic = P.panic, ContentInv(Q, NULL)
  PROVE  Inv(Q, T, H, L, NULL, NULL)
<1>1. /\ P \in Pool /\ T \in [Threads -> Thread] /\ P.state \in [Bufs -> States]
      /\ Types(P, T, H, L) /\ ListInv(P, NULL) /\ HashInv(P, NULL) /\ PlaceInv(P, T)
      /\ HeldInv(P, H, L) /\ CountInv(P, T, H, L) /\ LockInv(P, NULL)
  BY Parts DEF Inv
<1>2. Q.state[b] = s /\ \A c \in Bufs \ {b} : Q.state[c] = P.state[c]
  BY <1>1
<1>3. Types(Q, T, H, L)
  BY <1>1 DEF Types
<1>4. ListInv(Q, NULL)
  BY <1>1, <1>2, ListKeep DEF Locked
<1>5. HashInv(Q, NULL)
  BY <1>1, <1>2, HashKeep DEF Locked
<1>6. PlaceInv(Q, T)
  <2>1. ASSUME NEW q \in Threads PROVE BufFits(Q, q, T[q])
    <3>1. BufFits(P, q, T[q]) /\ Fits(q, T[q])
      BY <1>1 DEF PlaceInv, Types
    <3>2. CASE Idle(T[q])
      BY <3>2, IdleFits
    <3>3. CASE T[q].buf \in Bufs \ {b}
      <4>1. SameBuf(P, Q, T[q].buf)
        BY <1>2, <3>3 DEF SameBuf
      <4>. QED BY <3>1, <4>1, OthersFit
    <3>4. CASE T[q].buf = b
      BY <1>2, <3>1, <3>4 DEF BufFits, Locked
    <3>. QED BY <3>1, <3>2, <3>3, <3>4, RefersOrIdle
  <2>. QED BY <1>1, <2>1 DEF PlaceInv
<1>7. HeldInv(Q, H, L)
  BY <1>1, <1>2 DEF HeldInv
<1>8. CountInv(Q, T, H, L)
  BY <1>1 DEF CountInv
<1>9. LockInv(Q, NULL)
  BY <1>1, <1>2 DEF LockInv, Locked
<1>. QED BY <1>3, <1>4, <1>5, <1>6, <1>7, <1>8, <1>9 DEF Inv, Loose

\* A copy that is not being read or written has no update that the disk lacks
\* unless it is marked so.
LEMMA ContentAt ==
  ASSUME NEW P, NEW y, ContentInv(P, y), NEW k \in Blocks \ P.excused
  PROVE  /\ \A b, c \in Copies(P, k, y) : b = c
         /\ \A b \in Copies(P, k, y) : P.state[b] # "read" => P.current[b]
         /\ P.disk[k] \/ \E b \in Copies(P, k, y) : P.state[b] \in {"upd", "dirty", "write"}
  BY DEF ContentInv

\* mark_buffer_invalid, for a block that is no longer in use.
LEMMA InvalidStep ==
  ASSUME NEW P, NEW T, NEW H, NEW L, Inv(P, T, H, L, NULL, NULL), NEW b \in Bufs, P.state[b] \in Locked \cup {"err"}
  PROVE  LET Q == Forget(mark_buffer_invalid(P, b), P.blkno[b])
         IN /\ Inv(Q, T, H, L, NULL, NULL)
            /\ Q.state[b] \in {"inv", "err"} /\ Q.blkno = P.blkno /\ Q.waiters = P.waiters /\ Q.locks = P.locks
<1>. DEFINE k == P.blkno[b]
            s == IF P.state[b] \in {"lock", "upd"} THEN "inv" ELSE P.state[b]
            F == mark_buffer_invalid(P, b)
            Q == Forget(F, k)
<1>1. /\ P \in Pool /\ ContentInv(P, NULL) /\ HashInv(P, NULL) /\ P.state \in [Bufs -> States]
      /\ P.disk \in [Blocks -> BOOLEAN] /\ NULL \notin Bufs
  BY Parts, ConstantFacts
<1>2. s \in States /\ s \in {"inv", "err"} /\ k \in Blocks
  BY <1>1 DEF States, Locked, HashInv
<1>3. F = change_state(P, b, s)
  BY <1>1 DEF mark_buffer_invalid, change_state, Pool
<1>4. /\ F \in Pool /\ SameCache(P, F) /\ SameLists(P, F)
      /\ F.state = [P.state EXCEPT ![b] = s] /\ F.locks = P.locks /\ F.waiters = P.waiters
  <2>. HIDE DEF s
  <2>. QED BY <1>1, <1>2, <1>3, ChangeState
<1>. HIDE DEF F
<1>5. /\ Q \in Pool /\ SameLists(F, Q) /\ Q.state = F.state /\ Q.locks = F.locks /\ Q.waiters = F.waiters
      /\ Q.blkno = F.blkno /\ Q.hashtable = F.hashtable /\ Q.panic = F.panic /\ Q.excused = F.excused
      /\ \A c \in Bufs : Q.current[c] = (F.current[c] \/ F.blkno[c] = k)
      /\ Q.disk = [F.disk EXCEPT ![k] = TRUE]
  <2>. HIDE DEF k
  <2>. QED BY <1>2, <1>4, ForgetFields
<1>. HIDE DEF Q
<1>6. /\ SameLists(P, Q) /\ Q.state = [P.state EXCEPT ![b] = s] /\ Q.locks = P.locks /\ Q.waiters = P.waiters
      /\ Q.blkno = P.blkno /\ Q.hashtable = P.hashtable /\ Q.panic = P.panic /\ Q.excused = P.excused
      /\ \A c \in Bufs : Q.current[c] = (P.current[c] \/ P.blkno[c] = k)
      /\ Q.disk = [P.disk EXCEPT ![k] = TRUE]
  BY <1>4, <1>5 DEF SameLists, SameCache
<1>7. Q.state[b] = s /\ \A c \in Bufs \ {b} : Q.state[c] = P.state[c]
  BY <1>1, <1>6
<1>. HIDE DEF s
<1>8. ContentInv(Q, NULL)
  <2>. SUFFICES ASSUME NEW j \in Blocks \ Q.excused
                PROVE  /\ \A a, c \in Copies(Q, j, NULL) : a = c
                       /\ \A a \in Copies(Q, j, NULL) : Q.state[a] # "read" => Q.current[a]
                       /\ Q.disk[j] \/ \E a \in Copies(Q, j, NULL) : Q.state[a] \in {"upd", "dirty", "write"}
    BY DEF ContentInv
  <2>1. j \in Blocks \ P.excused /\ Copies(P, j, NULL) \subseteq Bufs
    BY <1>6 DEF Copies
  <2>2. Copies(Q, j, NULL) = Copies(P, j, NULL)
    BY <1>2, <1>6, <1>7 DEF Copies, Locked
  <2>3. /\ \A a, c \in Copies(P, j, NULL) : a = c
        /\ \A a \in Copies(P, j, NULL) : P.state[a] # "read" => P.current[a]
        /\ P.disk[j] \/ \E a \in Copies(P, j, NULL) : P.state[a] \in {"upd", "dirty", "write"}
    BY <1>1, <2>1, ContentAt
  <2>4. \A a \in Copies(P, j, NULL) : Q.state[a] # "read" => Q.current[a]
    BY <1>2, <1>6, <1>7, <2>1, <2>3 DEF Locked
  <2>5. CASE j = k
    BY <1>1, <1>6, <2>2, <2>3, <2>4, <2>5
  <2>6. CASE j # k
    <3>1. b \notin Copies(P, j, NULL) /\ Q.disk[j] = P.disk[j]
      BY <1>1, <1>6, <2>6 DEF Copies
    <3>2. Q.disk[j] \/ \E a \in Copies(Q, j, NULL) : Q.state[a] \in {"upd", "dirty", "write"}
      BY <1>7, <2>1, <2>2, <2>3, <3>1
    <3>. QED BY <2>2, <2>3, <2>4, <3>2
  <2>. QED BY <2>5, <2>6
<1>9. Inv(Q, T, H, L, NULL, NULL)
  <2>1. CASE P.state[b] = "err"
    <3>1. Q.state = P.state
      BY <1>1, <1>6, <2>1 DEF s
    <3>. QED BY <1>5, <1>6, <1>8, <3>1, ContentOnly
  <2>2. CASE P.state[b] \in Locked
    <3>1. s \in Locked
      BY <2>2 DEF s, Locked
    <3>. QED BY <1>5, <1>6, <1>8, <2>2, <3>1, RestateStep
  <2>. QED BY <2>1, <2>2
<1>. QED BY <1>2, <1>6, <1>7, <1>9 DEF Q, F

\* The pool after a holder of b has changed its content.
Updated(P, b) ==
  [mark_buffer_updated(P, b) EXCEPT
     !.disk[P.blkno[b]] = P.blkno[b] \in P.excused,
     !.current = [c \in Bufs |-> @[c] /\ (c = b \/ P.blkno[c] # P.blkno[b] \/ P.blkno[b] \in P.excused)]]

\* The holder of a buffer changes its content and marks it.
LEMMA UpdateStep ==
  ASSUME NEW P, NEW T, NEW H, NEW L, Inv(P, T, H, L, NULL, NULL), NEW b \in Bufs, P.state[b] \in Locked
  PROVE  Inv(Updated(P, b), T, H, L, NULL, NULL)
<1>. DEFINE k == P.blkno[b]
            e == k \in P.excused
            F == mark_buffer_updated(P, b)
            d == [P.disk EXCEPT ![k] = e]
            n == [c \in Bufs |-> P.current[c] /\ (c = b \/ P.blkno[c] # k \/ e)]
            Q == [F EXCEPT !.disk = d, !.current = n]
<1>1. /\ P \in Pool /\ ContentInv(P, NULL) /\ HashInv(P, NULL) /\ P.state \in [Bufs -> States]
      /\ P.disk \in [Blocks -> BOOLEAN] /\ P.current \in [Bufs -> BOOLEAN] /\ NULL \notin Bufs
  BY Parts, ConstantFacts
<1>2. k \in Blocks /\ "upd" \in States /\ e \in BOOLEAN
  BY <1>1 DEF States, Locked, HashInv
<1>3. F = change_state(P, b, "upd")
  BY <1>1 DEF mark_buffer_updated, change_state, Pool, Locked
<1>4. /\ F \in Pool /\ SameCache(P, F) /\ SameLists(P, F)
      /\ F.state = [P.state EXCEPT ![b] = "upd"] /\ F.locks = P.locks /\ F.waiters = P.waiters
  BY <1>1, <1>2, <1>3, ChangeState
<1>5. /\ d \in [Blocks -> BOOLEAN] /\ d[k] = e /\ \A j \in Blocks \ {k} : d[j] = P.disk[j]
      /\ n \in [Bufs -> BOOLEAN] /\ \A c \in Bufs : n[c] = (P.current[c] /\ (c = b \/ P.blkno[c] # k \/ e))
  <2>. HIDE DEF e
  <2>. QED BY <1>1, <1>2
<1>6. Updated(P, b) = Q
  BY <1>4 DEF SameCache, Updated
<1>. HIDE DEF F, d, n
<1>7. /\ Q \in Pool /\ SameLists(F, Q) /\ Q.state = F.state /\ Q.locks = F.locks /\ Q.waiters = F.waiters
      /\ Q.blkno = F.blkno /\ Q.hashtable = F.hashtable /\ Q.panic = F.panic /\ Q.excused = F.excused
      /\ Q.current = n /\ Q.disk = d
  BY <1>4, <1>5 DEF Pool, SameLists
<1>. HIDE DEF Q
<1>8. /\ SameLists(P, Q) /\ Q.state = [P.state EXCEPT ![b] = "upd"] /\ Q.locks = P.locks /\ Q.waiters = P.waiters
      /\ Q.blkno = P.blkno /\ Q.hashtable = P.hashtable /\ Q.panic = P.panic /\ Q.excused = P.excused
  BY <1>4, <1>7 DEF SameLists, SameCache
<1>9. Q.state[b] = "upd" /\ \A c \in Bufs \ {b} : Q.state[c] = P.state[c]
  BY <1>1, <1>8
<1>10. ContentInv(Q, NULL)
  <2>. SUFFICES ASSUME NEW j \in Blocks \ Q.excused
                PROVE  /\ \A a, c \in Copies(Q, j, NULL) : a = c
                       /\ \A a \in Copies(Q, j, NULL) : Q.state[a] # "read" => Q.current[a]
                       /\ Q.disk[j] \/ \E a \in Copies(Q, j, NULL) : Q.state[a] \in {"upd", "dirty", "write"}
    BY DEF ContentInv
  <2>1. j \in Blocks \ P.excused /\ Copies(P, j, NULL) \subseteq Bufs
    BY <1>8 DEF Copies
  <2>2. Copies(Q, j, NULL) = Copies(P, j, NULL)
    BY <1>8, <1>9 DEF Copies, Locked
  <2>3. /\ \A a, c \in Copies(P, j, NULL) : a = c
        /\ \A a \in Copies(P, j, NULL) : P.state[a] # "read" => P.current[a]
        /\ P.disk[j] \/ \E a \in Copies(P, j, NULL) : P.state[a] \in {"upd", "dirty", "write"}
    BY <1>1, <2>1, ContentAt
  <2>4. b \in Copies(P, j, NULL) <=> j = k
    BY <1>1 DEF Copies, Locked
  <2>5. \A a \in Copies(P, j, NULL) : P.blkno[a] = j
    BY DEF Copies
  <2>6. CASE j = k
    <3>1. Copies(Q, j, NULL) = {b} /\ Q.current[b] /\ Q.state[b] = "upd"
      BY <1>5, <1>7, <1>9, <2>2, <2>3, <2>4, <2>6 DEF Locked
    <3>. QED BY <3>1
  <2>7. CASE j # k
    <3>1. Q.disk[j] = P.disk[j] /\ \A a \in Copies(P, j, NULL) : Q.state[a] = P.state[a]
      BY <1>5, <1>7, <1>9, <2>1, <2>4, <2>7
    <3>2. \A a \in Copies(P, j, NULL) : P.current[a] => Q.current[a]
      BY <1>5, <1>7, <2>1, <2>5, <2>7
    <3>. QED BY <2>2, <2>3, <3>1, <3>2
  <2>. QED BY <2>6, <2>7
<1>11. Inv(Q, T, H, L, NULL, NULL)
  BY <1>7, <1>8, <1>10, RestateStep DEF Locked
<1>. QED BY <1>6, <1>11 DEF F, Q

\* sync_buffers has written b.
LEMMA SyncedStep ==
  ASSUME NEW P, NEW T, NEW H, NEW L, Inv(P, T, H, L, NULL, NULL), NEW b \in Bufs, P.state[b] \in Locked
  PROVE  LET Q == change_state([P EXCEPT !.disk[P.blkno[b]] = P.current[b]], b, "lock")
         IN Inv(Q, T, H, L, NULL, NULL) /\ Q.state[b] = "lock" /\ Q.waiters = P.waiters
<1>. DEFINE k == P.blkno[b]
            d == [P.disk EXCEPT ![k] = P.current[b]]
            F == [P EXCEPT !.disk = d]
            Q == change_state(F, b, "lock")
<1>1. /\ P \in Pool /\ ContentInv(P, NULL) /\ HashInv(P, NULL) /\ P.state \in [Bufs -> States]
      /\ P.disk \in [Blocks -> BOOLEAN] /\ P.current \in [Bufs -> BOOLEAN] /\ NULL \notin Bufs
  BY Parts, ConstantFacts
<1>2. k \in Blocks /\ "lock" \in States
  BY <1>1 DEF States, Locked, HashInv
<1>3. [P EXCEPT !.disk[P.blkno[b]] = P.current[b]] = F
  BY <1>1 DEF Pool
<1>4. d \in [Blocks -> BOOLEAN] /\ d[k] = P.current[b] /\ \A j \in Blocks \ {k} : d[j] = P.disk[j]
  BY <1>1, <1>2
<1>. HIDE DEF d
<1>5. /\ F \in Pool /\ SameLists(P, F) /\ F.state = P.state /\ F.locks = P.locks /\ F.waiters = P.waiters
      /\ F.blkno = P.blkno /\ F.hashtable = P.hashtable /\ F.panic = P.panic /\ F.excused = P.excused
      /\ F.current = P.current /\ F.disk = d
  BY <1>1, <1>4 DEF Pool, SameLists
<1>. HIDE DEF F
<1>6. /\ Q \in Pool /\ SameCache(F, Q) /\ SameLists(F, Q)
      /\ Q.state = [F.state EXCEPT ![b] = "lock"] /\ Q.locks = F.locks /\ Q.waiters = F.waiters
  BY <1>2, <1>5, ChangeState
<1>. HIDE DEF Q
<1>7. /\ SameLists(P, Q) /\ Q.state = [P.state EXCEPT ![b] = "lock"] /\ Q.locks = P.locks /\ Q.waiters = P.waiters
      /\ Q.blkno = P.blkno /\ Q.hashtable = P.hashtable /\ Q.panic = P.panic /\ Q.excused = P.excused
      /\ Q.current = P.current /\ Q.disk = d
  BY <1>5, <1>6 DEF SameLists, SameCache
<1>8. Q.state[b] = "lock" /\ \A c \in Bufs \ {b} : Q.state[c] = P.state[c]
  BY <1>1, <1>7
<1>9. ContentInv(Q, NULL)
  <2>. SUFFICES ASSUME NEW j \in Blocks \ Q.excused
                PROVE  /\ \A a, c \in Copies(Q, j, NULL) : a = c
                       /\ \A a \in Copies(Q, j, NULL) : Q.state[a] # "read" => Q.current[a]
                       /\ Q.disk[j] \/ \E a \in Copies(Q, j, NULL) : Q.state[a] \in {"upd", "dirty", "write"}
    BY DEF ContentInv
  <2>1. j \in Blocks \ P.excused /\ Copies(P, j, NULL) \subseteq Bufs
    BY <1>7 DEF Copies
  <2>2. Copies(Q, j, NULL) = Copies(P, j, NULL)
    BY <1>7, <1>8 DEF Copies, Locked
  <2>3. /\ \A a, c \in Copies(P, j, NULL) : a = c
        /\ \A a \in Copies(P, j, NULL) : P.state[a] # "read" => P.current[a]
        /\ P.disk[j] \/ \E a \in Copies(P, j, NULL) : P.state[a] \in {"upd", "dirty", "write"}
    BY <1>1, <2>1, ContentAt
  <2>4. b \in Copies(P, j, NULL) <=> j = k
    BY <1>1 DEF Copies, Locked
  <2>5. CASE j = k
    <3>1. Copies(Q, j, NULL) = {b} /\ Q.current[b] /\ Q.disk[j]
      BY <1>4, <1>7, <2>2, <2>3, <2>4, <2>5 DEF Locked
    <3>. QED BY <3>1
  <2>6. CASE j # k
    <3>1. Q.disk[j] = P.disk[j] /\ \A a \in Copies(P, j, NULL) : Q.current[a] = P.current[a] /\ Q.state[a] = P.state[a]
      BY <1>4, <1>7, <1>8, <2>1, <2>4, <2>6
    <3>. QED BY <2>2, <2>3, <3>1
  <2>. QED BY <2>5, <2>6
<1>10. Inv(Q, T, H, L, NULL, NULL)
  BY <1>6, <1>7, <1>9, RestateStep DEF Locked
<1>. QED BY <1>3, <1>7, <1>8, <1>10 DEF Q

\* No buffer becomes free or stops being free, and no state changes that says
\* more of the content than the new one.
KeepsStates(P, Q) ==
  \A b \in Bufs : /\ Q.state[b] = "free" <=> P.state[b] = "free"
                  /\ Q.state[b] # P.state[b] =>
                       /\ P.state[b] # "read"
                       /\ P.state[b] \in {"upd", "dirty", "write"} => Q.state[b] \in {"upd", "dirty", "write"}

\* Chains and contents stay right when no state changes in a way they tell apart.
LEMMA CacheKept ==
  ASSUME NEW P, NEW Q, NEW y, SameCache(P, Q), KeepsStates(P, Q)
  PROVE  /\ HashInv(P, y) => HashInv(Q, y)
         /\ ContentInv(P, y) => ContentInv(Q, y)
<1>1. HashInv(P, y) => HashInv(Q, y)
  BY HashKeep DEF SameCache, KeepsStates
<1>2. ContentInv(P, y) => ContentInv(Q, y)
  BY ContentKeep DEF KeepsStates
<1>. QED BY <1>1, <1>2

-----------------------------------------------------------------------------
(* A step in which one thread and one buffer change.                       *)

\* Thread t goes on, the others stay.
ThreadStep(T, V, t) ==
  /\ V \in [Threads -> Thread]
  /\ \A s \in Threads : Fits(s, V[s])
  /\ \A s \in Threads \ {t} : V[s] = T[s]

NotWaiting(P, t) == \A c \in Bufs : t \notin P.waiters[c]

\* Buffer b changes, the others stay.
RestSame(P, Q, b) ==
  /\ Q.waiters = P.waiters /\ Q.panic = P.panic
  /\ \A c \in Bufs \ {b} : /\ Q.state[c] = P.state[c]
                           /\ Q.blkno[c] = P.blkno[c]
                           /\ Q.locks[c] = P.locks[c]

\* The threads other than t that refer to b.
Kept(P, Q, T, t, b) == \A s \in Threads \ {t} : (BufFits(P, s, T[s]) /\ T[s].buf = b) => BufFits(Q, s, T[s])

\* No other thread transfers the buffer that t transfers.
Sole(T, t, v) == v.at \in Transfers => \A s \in Threads \ {t} : T[s].at \in Transfers => T[s].buf # v.buf

\* Nobody gains a lock on a buffer other than b.
NoGain(H, K, b) == \A u \in Users : \A c \in Bufs \ {b} : K[u][c] > 0 => H[u][c] > 0
HeldAt(Q, K, L, b) == (L[b] > 0 \/ \E u \in Users : K[u][b] > 0) => Q.state[b] \in Locked

LockAt(Q, b) ==
  /\ Q.state[b] \in {"free", "clean", "dirty", "write"} => Q.locks[b] = 0
  /\ Q.state[b] \in Locked \cup {"read"} => Q.locks[b] > 0

\* x is b or no buffer; the locks of b are known unless it is z.
Spot(x, b) == x \in {NULL, b}
LockUnless(Q, z, b) == z = b \/ LockAt(Q, b)

\* A step of one thread on one buffer preserves the invariant.
LEMMA BufferStep ==
  ASSUME NEW P, NEW T, NEW H, NEW L, NEW b \in Bufs, NEW x, Spot(x, b), NEW y, Inv(P, T, H, L, x, y),
         NEW t \in Threads, NotWaiting(P, t),
         NEW Q \in Pool, NEW V, NEW K \in [Users -> [Bufs -> Nat]], NEW z, Spot(z, b), NEW w,
         ThreadStep(T, V, t), RestSame(P, Q, b), Kept(P, Q, T, t, b), BufFits(Q, t, V[t]), Sole(T, t, V[t]),
         NoGain(H, K, b), HeldAt(Q, K, L, b), LockUnless(Q, z, b),
         ListInv(Q, z), HashInv(Q, w), ContentInv(Q, w), CountInv(Q, V, K, L), Loose(Q, z, w)
  PROVE  Inv(Q, V, K, L, z, w)
<1>1. /\ P \in Pool /\ H \in [Users -> [Bufs -> Nat]] /\ L \in [Bufs -> Nat]
      /\ \A s \in Threads : Fits(s, T[s])
      /\ ~P.panic /\ PlaceInv(P, T) /\ HeldInv(P, H, L) /\ LockInv(P, x)
  BY Parts
<1>0. \A c \in Bufs \ {b} : SameBuf(P, Q, c)
  BY DEF SameBuf, RestSame
<1>2. PlaceInv(Q, V)
  <2>1. ASSUME NEW s \in Threads PROVE BufFits(Q, s, V[s])
    <3>1. CASE s = t
      BY <3>1
    <3>2. CASE s # t
      <4>1. V[s] = T[s] /\ BufFits(P, s, T[s]) /\ Fits(s, T[s])
        BY <1>1, <3>2 DEF PlaceInv, ThreadStep
      <4>2. CASE Idle(T[s])
        BY <4>1, <4>2, IdleFits
      <4>3. CASE T[s].buf \in Bufs \ {b}
        BY <1>0, <4>1, <4>3, OthersFit
      <4>4. CASE T[s].buf = b
        BY <3>2, <4>1, <4>4 DEF Kept
      <4>. QED BY <4>1, <4>2, <4>3, <4>4, RefersOrIdle
    <3>. QED BY <3>1, <3>2
  <2>2. \A s, q \in Threads :
       (V[s].at \in Transfers /\ V[q].at \in Transfers /\ V[s].buf = V[q].buf) => s = q
    BY <1>1 DEF PlaceInv, ThreadStep, Sole
  <2>3. \A c \in Bufs : \A s \in Q.waiters[c] : V[s].at = "wait" /\ V[s].buf = c
    <3>1. \A c \in Bufs : \A s \in P.waiters[c] : s \in Threads /\ s # t
      BY <1>1, ConstantFacts DEF Pool, NotWaiting
    <3>. QED BY <1>1, <3>1 DEF PlaceInv, ThreadStep, RestSame
  <2>. QED BY <2>1, <2>2, <2>3 DEF PlaceInv
<1>3. HeldInv(Q, K, L)
  <2>1. ASSUME NEW c \in Bufs, L[c] > 0 \/ \E u \in Users : K[u][c] > 0 PROVE Q.state[c] \in Locked
    <3>1. CASE c = b
      BY <2>1, <3>1 DEF HeldAt
    <3>2. CASE c # b
      <4>1. L[c] > 0 \/ \E u \in Users : H[u][c] > 0
        BY <2>1, <3>2 DEF NoGain
      <4>. QED BY <1>1, <3>2, <4>1 DEF HeldInv, RestSame
    <3>. QED BY <3>1, <3>2
  <2>. QED BY <2>1 DEF HeldInv
<1>4. LockInv(Q, z)
  <2>1. ASSUME NEW c \in Bufs \ {z} PROVE LockAt(Q, c)
    <3>1. CASE c = b
      BY <3>1 DEF LockUnless
    <3>2. CASE c # b
      <4>1. c \in Bufs \ {x}
        BY <3>2, ConstantFacts DEF Spot
      <4>. QED BY <1>1, <3>2, <4>1 DEF LockInv, LockAt, RestSame
    <3>. QED BY <3>1, <3>2
  <2>. QED BY <2>1 DEF LockInv, LockAt
<1>5. Types(Q, V, K, L)
  BY <1>1 DEF Types, ThreadStep, RestSame
<1>. QED BY <1>2, <1>3, <1>4, <1>5 DEF Inv

\* The thread's own record.
LEMMA GoStep ==
  ASSUME NEW P, NEW T, NEW H, NEW L, NEW x, NEW y, Inv(P, T, H, L, x, y), NEW t \in Threads, NEW r, Fits(t, r)
  PROVE  LET V == [T EXCEPT ![t] = r]
         IN ThreadStep(T, V, t) /\ V[t] = r
<1>1. /\ T \in [Threads -> Thread]
      /\ \A s \in Threads : Fits(s, T[s])
  BY Parts
<1>. QED BY <1>1, ThreadSet DEF ThreadStep

\* A thread that does not wait, or was given its lock, is in no list.
LEMMA GoesOn ==
  ASSUME NEW P, NEW T, NEW H, NEW L, NEW x, NEW y, Inv(P, T, H, L, x, y), NEW t \in Threads,
         T[t].at # "wait" \/ t \notin P.waiters[T[t].buf]
  PROVE  NotWaiting(P, t)
<1>1. P \in Pool /\ PlaceInv(P, T)
  BY Parts
<1>2. \A c \in Bufs : t \in P.waiters[c] => T[t].at = "wait" /\ T[t].buf = c
  BY <1>1, WaitersFacts
<1>. QED BY <1>2 DEF NotWaiting

\* A buffer without locks has no users, so nobody refers to it but those
\* who wait for its transfer or make it.
LEMMA NobodyRefers ==
  ASSUME NEW P, NEW T, NEW H, NEW L, NEW x, NEW y, Inv(P, T, H, L, x, y), NEW b \in Bufs, P.locks[b] = 0,
         P.waiters[b] = {}, P.state[b] \notin {"read", "write"}
  PROVE  \A s \in Threads : T[s].buf = b => T[s].at \notin {"wait", "read", "write", "flush", "sync"}
<1>1. /\ P \in Pool /\ H \in [Users -> [Bufs -> Nat]] /\ L \in [Bufs -> Nat]
      /\ PlaceInv(P, T) /\ CountInv(P, T, H, L)
  BY Parts
<1>2. \A s \in Threads : ~Uses(s, T[s], P.waiters[b], b)
  BY <1>1, NoUsers
<1>. QED BY <1>1, <1>2 DEF PlaceInv, BufFits, Uses

\* A buffer without locks has no holder.
LEMMA Unheld ==
  ASSUME NEW P, NEW T, NEW H, NEW L, NEW x, NEW y, Inv(P, T, H, L, x, y), NEW b \in Bufs, P.locks[b] = 0
  PROVE  \A Q : HeldAt(Q, H, L, b)
<1>1. /\ P \in Pool /\ H \in [Users -> [Bufs -> Nat]] /\ L \in [Bufs -> Nat] /\ CountInv(P, T, H, L)
  BY Parts
<1>2. (\A u \in Users : H[u][b] = 0) /\ L[b] = 0
  BY <1>1, NoUsers
<1>. QED BY <1>2 DEF HeldAt

\* The hash chain of a block is empty when it has no copy.
LEMMA NoCopies ==
  ASSUME NEW P \in Pool, NEW y, HashInv(P, y), NEW k \in Blocks
  PROVE  /\ P.hashtable[k] = <<>> <=> Copies(P, k, y) = {}
         /\ P.hashtable[k] # <<>> => Head(P.hashtable[k]) \in Copies(P, k, y)
<1>. DEFINE S == Copies(P, k, y)
<1>1. Lists(P.hashtable[k], S) /\ P.hashtable[k] \in Seq(Bufs)
  BY DEF HashInv, Pool
<1>. HIDE DEF S
<1>2. P.hashtable[k] = <<>> <=> S = {}
  BY <1>1, ListsFacts
<1>3. P.hashtable[k] # <<>> => Head(P.hashtable[k]) \in S
  BY <1>1, TailLists
<1>. QED BY <1>2, <1>3 DEF S

-----------------------------------------------------------------------------
(* release_buffer.                                                         *)

\* The locks are exact when b has one less.
OneLess(P, V, K, L, b) ==
  \A Q \in Pool : (Q.waiters = P.waiters /\ Q.locks = [P.locks EXCEPT ![b] = P.locks[b] - 1]) => CountInv(Q, V, K, L)

AtMost(K, H) == \A u \in Users : \A c \in Bufs : K[u][c] <= H[u][c]

\* The last lock of b is given back: b has no users any more.
LEMMA LastRelease ==
  ASSUME NEW P, NEW T, NEW H, NEW L, Inv(P, T, H, L, NULL, NULL), NEW b \in Bufs, P.state[b] \in Locked \cup {"err"},
         NEW t \in Threads, NotWaiting(P, t), NEW V, ThreadStep(T, V, t), Idle(V[t]),
         NEW K \in [Users -> [Bufs -> Nat]], AtMost(K, H),
         NEW Q \in Pool, CountInv(Q, V, K, L), RestSame(P, Q, b),
         Q.locks[b] = 0, Q.state[b] \in {"clean", "dirty", "free"},
         ListInv(Q, NULL), HashInv(Q, NULL), ContentInv(Q, NULL)
  PROVE  Inv(Q, V, K, L, NULL, NULL)
<1>1. /\ P \in Pool /\ H \in [Users -> [Bufs -> Nat]] /\ L \in [Bufs -> Nat] /\ PlaceInv(P, T)
  BY Parts
<1>2. /\ \A u \in Users : K[u][b] = 0
      /\ L[b] = 0
      /\ \A s \in Threads : ~Uses(s, V[s], Q.waiters[b], b)
  BY <1>1, NoUsers
<1>3. Q.waiters[b] = {}
  BY <1>1, WaitersFacts DEF Locked, RestSame
<1>4. Kept(P, Q, T, t, b)
  <2>1. ASSUME NEW s \in Threads \ {t}, BufFits(P, s, T[s]), T[s].buf = b PROVE BufFits(Q, s, T[s])
    <3>1. ~Uses(s, T[s], {}, b)
      BY <1>2, <1>3 DEF ThreadStep
    <3>2. P.waiters[b] = {}
      BY <1>3 DEF RestSame
    <3>. QED BY <1>3, <2>1, <3>1, <3>2 DEF BufFits, Uses, Locked
  <2>. QED BY <2>1 DEF Kept
<1>5. BufFits(Q, t, V[t]) /\ Sole(T, t, V[t])
  BY IdleFits DEF Sole
<1>6. NoGain(H, K, b)
  BY <1>1 DEF AtMost, NoGain
<1>7. HeldAt(Q, K, L, b)
  BY <1>2 DEF HeldAt
<1>8. LockUnless(Q, NULL, b)
  BY DEF LockUnless, LockAt, Locked
<1>9. Loose(Q, NULL, NULL) /\ Spot(NULL, b)
  BY DEF Loose, Spot
<1>. QED BY <1>4, <1>5, <1>6, <1>7, <1>8, <1>9, BufferStep

\* release_buffer, with the lock of thread t or of a user taken off the books.
LEMMA ReleaseStep ==
  ASSUME NEW P, NEW T, NEW H, NEW L, Inv(P, T, H, L, NULL, NULL), NEW b \in Bufs, P.state[b] \in Locked \cup {"err"},
         P.locks[b] > 0, NEW t \in Threads, NotWaiting(P, t), NEW V, ThreadStep(T, V, t), Idle(V[t]),
         NEW K \in [Users -> [Bufs -> Nat]], AtMost(K, H), OneLess(P, V, K, L, b)
  PROVE  Inv(release_buffer(P, b), V, K, L, NULL, NULL)
<1>. DEFINE Q == release_buffer(P, b)
            k == P.blkno[b]
            Listed(R, s) == {c \in Bufs \ {NULL} : R.state[c] = s}
<1>1. /\ P \in Pool /\ H \in [Users -> [Bufs -> Nat]] /\ L \in [Bufs -> Nat]
      /\ ~P.panic /\ HashInv(P, NULL) /\ ContentInv(P, NULL) /\ PlaceInv(P, T) /\ ListInv(P, NULL)
      /\ HeldInv(P, H, L) /\ LockInv(P, NULL)
      /\ P.state \in [Bufs -> States] /\ P.locks \in [Bufs -> Nat]
      /\ P.blkno \in [Bufs -> Blocks \cup {NoBlock}] /\ P.hashtable \in [Blocks -> Seq(Bufs)]
      /\ P.freelist \in Seq(Bufs) /\ P.clean \in Seq(Bufs) /\ P.dirty \in Seq(Bufs)
  BY Parts
<1>2. NULL \notin Bufs /\ k \in Blocks
  BY <1>1, ConstantFacts DEF HashInv, Locked
<1>3. /\ Lists(P.freelist, Listed(P, "free")) /\ Lists(P.clean, Listed(P, "clean"))
      /\ Lists(P.dirty, Listed(P, "dirty"))
  BY <1>1 DEF ListInv
<1>4. ASSUME NEW R, Lists(R.freelist, Listed(R, "free")), Lists(R.clean, Listed(R, "clean")),
             Lists(R.dirty, Listed(R, "dirty"))
      PROVE  ListInv(R, NULL)
  BY <1>4 DEF ListInv
<1>5. CASE P.locks[b] > 1
  <2>1. /\ Q \in Pool /\ SameCache(P, Q) /\ SameLists(P, Q) /\ Q.waiters = P.waiters /\ Q.state = P.state
        /\ Q.locks = [P.locks EXCEPT ![b] = P.locks[b] - 1]
    BY <1>1, <1>5, ReleaseLockedFields
  <2>. HIDE DEF Q
  <2>2. CountInv(Q, V, K, L)
    BY <2>1 DEF OneLess
  <2>3. Q.locks[b] > 0 /\ RestSame(P, Q, b)
    BY <1>1, <1>5, <2>1 DEF RestSame, SameCache
  <2>4. ListInv(Q, NULL)
    BY <1>1, <2>1, ListKeep
  <2>5. KeepsStates(P, Q)
    BY <2>1 DEF KeepsStates
  <2>6. HashInv(Q, NULL) /\ ContentInv(Q, NULL)
    BY <1>1, <2>1, <2>5, CacheKept
  <2>7. Kept(P, Q, T, t, b)
    BY <2>1 DEF Kept, BufFits, SameCache
  <2>8. BufFits(Q, t, V[t]) /\ Sole(T, t, V[t])
    BY IdleFits DEF Sole
  <2>9. NoGain(H, K, b)
    BY <1>1 DEF AtMost, NoGain
  <2>10. HeldAt(Q, K, L, b)
    <3>1. (\E u \in Users : K[u][b] > 0) => (\E u \in Users : H[u][b] > 0)
      BY <1>1 DEF AtMost
    <3>. QED BY <1>1, <2>1, <3>1 DEF HeldInv, HeldAt
  <2>11. LockUnless(Q, NULL, b)
    BY <2>1, <2>3 DEF LockUnless, LockAt, Locked
  <2>12. Loose(Q, NULL, NULL) /\ Spot(NULL, b)
    BY DEF Loose, Spot
  <2>13. Inv(Q, V, K, L, NULL, NULL)
    BY <2>1, <2>2, <2>3, <2>4, <2>6, <2>7, <2>8, <2>9, <2>10, <2>11, <2>12, BufferStep
  <2>. QED BY <2>13 DEF Q
<1>6. CASE P.locks[b] = 1 /\ P.state[b] = "lock"
  <2>1. /\ Q \in Pool /\ SameCache(P, Q) /\ Q.waiters = P.waiters
        /\ Q.freelist = P.freelist /\ Q.clean = Append(P.clean, b) /\ Q.dirty = P.dirty
        /\ Q.state = [P.state EXCEPT ![b] = "clean"] /\ Q.locks = [P.locks EXCEPT ![b] = 0]
    BY <1>1, <1>6, ReleaseCleanFields
  <2>. HIDE DEF Q
  <2>2. CountInv(Q, V, K, L)
    <3>1. P.locks[b] - 1 = 0
      BY <1>6
    <3>. QED BY <2>1, <3>1 DEF OneLess
  <2>3. /\ Q.locks[b] = 0 /\ Q.state[b] = "clean"
        /\ \A c \in Bufs \ {b} : Q.state[c] = P.state[c]
    BY <1>1, <2>1
  <2>4. RestSame(P, Q, b)
    BY <1>1, <2>1 DEF RestSame, SameCache
  <2>5. ListInv(Q, NULL)
    <3>1. /\ Listed(Q, "free") = Listed(P, "free") /\ Listed(Q, "dirty") = Listed(P, "dirty")
          /\ Listed(Q, "clean") = Listed(P, "clean") \cup {b} /\ b \notin Listed(P, "clean")
      BY <1>2, <1>6, <2>3
    <3>. HIDE DEF Listed
    <3>2. Lists(Append(P.clean, b), Listed(P, "clean") \cup {b})
      BY <1>1, <1>3, <3>1, AppendLists
    <3>. QED BY <1>3, <1>4, <2>1, <3>1, <3>2
  <2>6. KeepsStates(P, Q)
    BY <1>6, <2>3 DEF KeepsStates
  <2>7. HashInv(Q, NULL) /\ ContentInv(Q, NULL)
    BY <1>1, <2>1, <2>6, CacheKept
  <2>9. Inv(Q, V, K, L, NULL, NULL)
    BY <2>1, <2>2, <2>3, <2>4, <2>5, <2>7, LastRelease
  <2>. QED BY <2>9 DEF Q
<1>7. CASE P.locks[b] = 1 /\ P.state[b] = "upd"
  <2>1. /\ Q \in Pool /\ SameCache(P, Q) /\ Q.waiters = P.waiters
        /\ Q.freelist = P.freelist /\ Q.clean = P.clean /\ Q.dirty = Append(P.dirty, b)
        /\ Q.state = [P.state EXCEPT ![b] = "dirty"] /\ Q.locks = [P.locks EXCEPT ![b] = 0]
    BY <1>1, <1>7, ReleaseDirtyFields
  <2>. HIDE DEF Q
  <2>2. CountInv(Q, V, K, L)
    <3>1. P.locks[b] - 1 = 0
      BY <1>7
    <3>. QED BY <2>1, <3>1 DEF OneLess
  <2>3. /\ Q.locks[b] = 0 /\ Q.state[b] = "dirty"
        /\ \A c \in Bufs \ {b} : Q.state[c] = P.state[c]
    BY <1>1, <2>1
  <2>4. RestSame(P, Q, b)
    BY <1>1, <2>1 DEF RestSame, SameCache
  <2>5. ListInv(Q, NULL)
    <3>1. /\ Listed(Q, "free") = Listed(P, "free") /\ Listed(Q, "clean") = Listed(P, "clean")
          /\ Listed(Q, "dirty") = Listed(P, "dirty") \cup {b} /\ b \notin Listed(P, "dirty")
      BY <1>2, <1>7, <2>3
    <3>. HIDE DEF Listed
    <3>2. Lists(Append(P.dirty, b), Listed(P, "dirty") \cup {b})
      BY <1>1, <1>3, <3>1, AppendLists
    <3>. QED BY <1>3, <1>4, <2>1, <3>1, <3>2
  <2>6. KeepsStates(P, Q)
    BY <1>7, <2>3 DEF KeepsStates
  <2>7. HashInv(Q, NULL) /\ ContentInv(Q, NULL)
    BY <1>1, <2>1, <2>6, CacheKept
  <2>9. Inv(Q, V, K, L, NULL, NULL)
    BY <2>1, <2>2, <2>3, <2>4, <2>5, <2>7, LastRelease
  <2>. QED BY <2>9 DEF Q
<1>8. CASE P.locks[b] = 1 /\ P.state[b] \in {"inv", "err"}
  <2>. DEFINE w == Without(P.hashtable[k], b)
              f == <<b>> \o P.freelist
  <2>1. w \in Seq(Bufs) /\ Lists(w, Copies(P, k, NULL) \ {b})
    BY <1>1, <1>2, WithoutLists DEF HashInv
  <2>2. b \notin Listed(P, "free")
    BY <1>8
  <2>. HIDE DEF Listed
  <2>3. f \in Seq(Bufs) /\ Lists(f, Listed(P, "free") \cup {b})
    BY <1>1, <1>3, <2>2, PrependLists
  <2>4. /\ Q \in Pool /\ Q.waiters = P.waiters
        /\ Q.freelist = f /\ Q.clean = P.clean /\ Q.dirty = P.dirty
        /\ Q.state = [P.state EXCEPT ![b] = "free"] /\ Q.locks = [P.locks EXCEPT ![b] = 0]
        /\ Q.blkno = [P.blkno EXCEPT ![b] = NoBlock]
        /\ Q.hashtable = [P.hashtable EXCEPT ![k] = w]
        /\ Q.current = P.current /\ Q.disk = P.disk /\ Q.excused = P.excused /\ Q.panic = P.panic
    BY <1>1, <1>2, <1>8, <2>1, <2>3, ReleaseFreeFields
  <2>. HIDE DEF Q, w, f
  <2>5. CountInv(Q, V, K, L)
    <3>1. P.locks[b] - 1 = 0
      BY <1>8
    <3>. QED BY <2>4, <3>1 DEF OneLess
  <2>6. /\ Q.locks[b] = 0 /\ Q.state[b] = "free" /\ Q.blkno[b] = NoBlock
        /\ \A c \in Bufs \ {b} : Q.state[c] = P.state[c] /\ Q.blkno[c] = P.blkno[c]
    BY <1>1, <2>4
  <2>7. RestSame(P, Q, b)
    BY <1>1, <2>4 DEF RestSame
  <2>8. ListInv(Q, NULL)
    <3>1. /\ Listed(Q, "free") = Listed(P, "free") \cup {b}
          /\ Listed(Q, "clean") = Listed(P, "clean") /\ Listed(Q, "dirty") = Listed(P, "dirty")
      BY <1>2, <1>8, <2>6 DEF Listed
    <3>. QED BY <1>3, <1>4, <2>3, <2>4, <3>1
  <2>9. \A j \in Blocks : Copies(Q, j, NULL) = Copies(P, j, NULL) \ {b}
    BY <2>6 DEF Copies
  <2>10. \A j \in Blocks \ {k} : b \notin Copies(P, j, NULL)
    BY DEF Copies
  <2>11. HashInv(Q, NULL)
    <3>1. ASSUME NEW j \in Blocks PROVE Lists(Q.hashtable[j], Copies(Q, j, NULL))
      <4>1. CASE j = k
        BY <1>1, <1>2, <2>1, <2>4, <2>9, <4>1
      <4>2. CASE j # k
        <5>1. Q.hashtable[j] = P.hashtable[j] /\ Copies(Q, j, NULL) = Copies(P, j, NULL)
          <6>1. Q.hashtable[j] = P.hashtable[j]
            BY <1>1, <2>4, <4>2
          <6>. QED BY <2>9, <2>10, <4>2, <6>1
        <5>. QED BY <1>1, <5>1 DEF HashInv
      <4>. QED BY <4>1, <4>2
    <3>2. \A c \in Bufs : Q.state[c] # "free" => Q.blkno[c] \in Blocks
      BY <1>1, <2>6 DEF HashInv
    <3>. QED BY <3>1, <3>2 DEF HashInv
  <2>12. ContentInv(Q, NULL)
    <3>. SUFFICES ASSUME NEW j \in Blocks \ Q.excused
                  PROVE  /\ \A a, c \in Copies(Q, j, NULL) : a = c
                         /\ \A a \in Copies(Q, j, NULL) : Q.state[a] # "read" => Q.current[a]
                         /\ Q.disk[j] \/ \E a \in Copies(Q, j, NULL) : Q.state[a] \in {"upd", "dirty", "write"}
      BY DEF ContentInv
    <3>1. j \in Blocks \ P.excused /\ Copies(P, j, NULL) \subseteq Bufs
      BY <2>4 DEF Copies
    <3>2. /\ \A a, c \in Copies(P, j, NULL) : a = c
          /\ \A a \in Copies(P, j, NULL) : P.state[a] # "read" => P.current[a]
          /\ P.disk[j] \/ \E a \in Copies(P, j, NULL) : P.state[a] \in {"upd", "dirty", "write"}
      BY <1>1, <3>1, ContentAt
    <3>3. Copies(Q, j, NULL) = Copies(P, j, NULL) \ {b}
      BY <2>9, <3>1
    <3>4. \A a \in Copies(P, j, NULL) : P.state[a] \in {"upd", "dirty", "write"} => a # b
      BY <1>8
    <3>. QED BY <2>4, <2>6, <3>1, <3>2, <3>3, <3>4
  <2>13. Inv(Q, V, K, L, NULL, NULL)
    BY <2>4, <2>5, <2>6, <2>7, <2>8, <2>11, <2>12, LastRelease
  <2>. QED BY <2>13 DEF Q
<1>. QED BY <1>1, <1>5, <1>6, <1>7, <1>8 DEF Locked

\* A thread gives back the lock with which it woke up or wrote.
LEMMA UnuseStep ==
  ASSUME NEW P, NEW T, NEW H, NEW L, Inv(P, T, H, L, NULL, NULL), NEW b \in Bufs, NEW t \in Threads,
         T[t].buf = b, T[t].at = "sync" \/ (T[t].at = "wait" /\ t \notin P.waiters[b]),
         NEW v, Fits(t, v), Idle(v)
  PROVE  Inv(release_buffer(P, b), [T EXCEPT ![t] = v], H, L, NULL, NULL)
<1>. DEFINE V == [T EXCEPT ![t] = v]
<1>1. /\ P \in Pool /\ T \in [Threads -> Thread] /\ H \in [Users -> [Bufs -> Nat]] /\ L \in [Bufs -> Nat]
      /\ PlaceInv(P, T) /\ CountInv(P, T, H, L) /\ P.locks \in [Bufs -> Nat]
  BY Parts
<1>2. ThreadStep(T, V, t) /\ V[t] = v
  BY GoStep
<1>. HIDE DEF V
<1>3. Uses(t, T[t], P.waiters[b], b) /\ \A c \in Bufs \ {b} : ~Uses(t, T[t], P.waiters[c], c)
  BY DEF Uses
<1>4. P.state[b] \in Locked \cup {"err"}
  BY <1>1 DEF PlaceInv, BufFits
<1>5. P.locks[b] > 0
  <2>1. P.locks[b] # 0
    BY <1>1, <1>3, NoUsers
  <2>. QED BY <1>1, <2>1
<1>6. \A W, c : ~Uses(t, v, W, c)
  BY IdleFits
<1>7. ASSUME NEW Q \in Pool, Q.waiters = P.waiters, Q.locks = [P.locks EXCEPT ![b] = P.locks[b] - 1]
      PROVE  CountInv(Q, V, H, L)
  <2>1. Q.locks[b] = P.locks[b] - 1 /\ \A c \in Bufs \ {b} : Q.locks[c] = P.locks[c]
    BY <1>1, <1>7
  <2>2. Q.locks[b] + One(Uses(t, T[t], P.waiters[b], b)) = P.locks[b] + One(Uses(t, V[t], P.waiters[b], b))
    BY <1>1, <1>2, <1>3, <1>6, <2>1 DEF One
  <2>3. \A c \in Bufs \ {b} : /\ Q.locks[c] = P.locks[c]
                              /\ Uses(t, T[t], P.waiters[c], c) <=> Uses(t, V[t], P.waiters[c], c)
    BY <1>2, <1>3, <1>6, <2>1
  <2>4. \A s \in Threads \ {t} : V[s] = T[s]
    BY <1>2 DEF ThreadStep
  <2>5. P \in Pool /\ H \in [Users -> [Bufs -> Nat]] /\ L \in [Bufs -> Nat] /\ CountInv(P, T, H, L)
    BY <1>1
  <2>6. Q \in Pool /\ Q.waiters = P.waiters
    BY <1>7
  <2>7. SameUse(P, Q, T, V, t, b)
    BY <2>2, <2>3, <2>4 DEF SameUse
  <2>. QED BY <2>5, <2>6, <2>7, UseCount
<1>8. OneLess(P, V, H, L, b)
  BY <1>7 DEF OneLess
<1>9. NotWaiting(P, t)
  BY GoesOn
<1>10. AtMost(H, H)
  BY <1>1 DEF AtMost
<1>11. Inv(release_buffer(P, b), V, H, L, NULL, NULL)
  BY <1>1, <1>2, <1>4, <1>5, <1>8, <1>9, <1>10, ReleaseStep
<1>. QED BY <1>11 DEF V

\* A user gives back a lock.
LEMMA GiveBackStep ==
  ASSUME NEW P, NEW T, NEW H, NEW L, Inv(P, T, H, L, NULL, NULL), NEW b \in Bufs, NEW t \in Users,
         Idle(T[t]), H[t][b] > 0
  PROVE  Inv(release_buffer(P, b), T, [H EXCEPT ![t][b] = @ - 1], L, NULL, NULL)
<1>. DEFINE K == [H EXCEPT ![t][b] = @ - 1]
<1>0. t \in Threads
  BY ConstantFacts
<1>1. /\ P \in Pool /\ T \in [Threads -> Thread] /\ H \in [Users -> [Bufs -> Nat]] /\ L \in [Bufs -> Nat]
      /\ PlaceInv(P, T) /\ CountInv(P, T, H, L) /\ P.locks \in [Bufs -> Nat] /\ HeldInv(P, H, L)
  BY Parts
<1>2. \A s \in Threads : Fits(s, T[s])
  BY Parts
<1>3. K \in [Users -> [Bufs -> Nat]] /\ OneMore(K, H, t, b) /\ AtMost(K, H)
  <2>1. K[t][b] = H[t][b] - 1 /\ H[t][b] \in Nat
    BY <1>1
  <2>2. \A u \in Users : \A c \in Bufs : (u # t \/ c # b) => K[u][c] = H[u][c]
    BY <1>1
  <2>3. K \in [Users -> [Bufs -> Nat]]
    <3>1. [H[t] EXCEPT ![b] = H[t][b] - 1] \in [Bufs -> Nat]
      BY <1>1
    <3>. QED BY <1>1, <3>1
  <2>. HIDE DEF K
  <2>4. AtMost(K, H)
    BY <1>1, <2>1, <2>2, <2>3 DEF AtMost
  <2>. QED BY <2>1, <2>2, <2>3, <2>4 DEF OneMore
<1>. HIDE DEF K
<1>4. P.state[b] \in Locked \cup {"err"}
  BY <1>1 DEF HeldInv
<1>5. P.locks[b] > 0
  <2>1. P.locks[b] # 0
    BY <1>1, NoUsers
  <2>. QED BY <1>1, <2>1
<1>6. ASSUME NEW Q \in Pool, Q.waiters = P.waiters, Q.locks = [P.locks EXCEPT ![b] = P.locks[b] - 1]
      PROVE  CountInv(Q, T, K, L)
  <2>1. Q.locks[b] = P.locks[b] - 1 /\ \A c \in Bufs \ {b} : Q.locks[c] = P.locks[c]
    BY <1>1, <1>6
  <2>2. /\ Cardinality(GivenTo(H, b)) = Cardinality(GivenTo(K, b)) + 1
        /\ \A c \in Bufs \ {b} : GivenTo(H, c) = GivenTo(K, c)
    <3>1. H \in [Users -> [Bufs -> Nat]]
      BY <1>1
    <3>. QED BY <1>3, <3>1, GivenMore, SMTT(20)
  <2>3. \A c \in Bufs : /\ Cardinality(GivenTo(K, c)) \in Nat /\ L[c] \in Nat /\ P.locks[c] \in Nat
                        /\ One(Uses(t, T[t], P.waiters[c], c)) \in Nat
    BY <1>1, <1>3, GivenFacts DEF One
  <2>4. Balanced(P, Q, t, T[t], T[t], H, K, L, L)
    BY <1>5, <2>1, <2>2, <2>3 DEF Balanced
  <2>. QED BY <1>0, <1>1, <1>3, <1>6, <2>4, CountStep
<1>7. OneLess(P, T, K, L, b)
  BY <1>6 DEF OneLess
<1>8. NotWaiting(P, t)
  <2>1. T[t].at # "wait"
    BY IdleFits
  <2>. QED BY <1>0, <2>1, GoesOn
<1>9. ThreadStep(T, T, t)
  BY <1>1, <1>2 DEF ThreadStep
<1>10. Inv(release_buffer(P, b), T, K, L, NULL, NULL)
  BY <1>0, <1>3, <1>4, <1>5, <1>7, <1>8, <1>9, ReleaseStep
<1>. QED BY <1>10 DEF K

-----------------------------------------------------------------------------
(* The pool alone changes, at buffer b.                                    *)

AllKept(P, Q, T, b) == \A s \in Threads : (BufFits(P, s, T[s]) /\ T[s].buf = b) => BufFits(Q, s, T[s])

\* A step on the pool that leaves threads and locks alone.
LEMMA PoolStep ==
  ASSUME NEW P, NEW T, NEW H, NEW L, NEW b \in Bufs, NEW x, Spot(x, b), NEW y, Inv(P, T, H, L, x, y),
         NEW Q \in Pool, NEW z, Spot(z, b), NEW w,
         RestSame(P, Q, b), AllKept(P, Q, T, b), HeldAt(Q, H, L, b), LockUnless(Q, z, b),
         ListInv(Q, z), HashInv(Q, w), ContentInv(Q, w), Q.locks = P.locks, Loose(Q, z, w)
  PROVE  Inv(Q, T, H, L, z, w)
<1>1. /\ P \in Pool /\ T \in [Threads -> Thread] /\ H \in [Users -> [Bufs -> Nat]]
      /\ PlaceInv(P, T) /\ CountInv(P, T, H, L) /\ P.waiters \in [Bufs -> SUBSET Users]
  BY Parts
<1>2. \A s \in Threads : Fits(s, T[s])
  BY Parts
<1>3. Lazy \in Threads /\ NotWaiting(P, Lazy)
  BY <1>1, ConstantFacts DEF NotWaiting
<1>4. ThreadStep(T, T, Lazy)
  BY <1>1, <1>2 DEF ThreadStep
<1>5. Kept(P, Q, T, Lazy, b)
  BY DEF Kept, AllKept
<1>6. BufFits(Q, Lazy, T[Lazy])
  <2>1. BufFits(P, Lazy, T[Lazy]) /\ Fits(Lazy, T[Lazy])
    BY <1>1, <1>2, <1>3 DEF PlaceInv
  <2>2. CASE Idle(T[Lazy])
    BY <2>2, IdleFits
  <2>3. CASE T[Lazy].buf = b
    BY <1>3, <2>1, <2>3 DEF AllKept
  <2>4. CASE T[Lazy].buf \in Bufs \ {b}
    <3>1. \A c \in Bufs \ {b} : SameBuf(P, Q, c)
      BY DEF RestSame, SameBuf
    <3>. QED BY <2>1, <2>4, <3>1, OthersFit
  <2>. QED BY <2>1, <2>2, <2>3, <2>4, RefersOrIdle
<1>7. Sole(T, Lazy, T[Lazy])
  BY <1>1, <1>3 DEF Sole, PlaceInv
<1>8. CountInv(Q, T, H, L)
  BY <1>1 DEF CountInv, RestSame
<1>9. NoGain(H, H, b)
  BY DEF NoGain
<1>10. H \in [Users -> [Bufs -> Nat]]
  BY <1>1
<1>. QED BY <1>3, <1>4, <1>5, <1>6, <1>7, <1>8, <1>9, <1>10, BufferStep

\* Only the lists change.
LEMMA ListStep ==
  ASSUME NEW P, NEW T, NEW H, NEW L, NEW b \in Bufs, NEW x, Spot(x, b), NEW y, Inv(P, T, H, L, x, y),
         NEW Q \in Pool, SameCache(P, Q), Q.state = P.state, Q.locks = P.locks, Q.waiters = P.waiters,
         NEW z, Spot(z, b), NEW w, ListInv(Q, z), HashInv(Q, w), ContentInv(Q, w), Loose(Q, z, w), LockUnless(Q, z, b)
  PROVE  Inv(Q, T, H, L, z, w)
<1>1. HeldInv(P, H, L)
  BY Parts
<1>2. RestSame(P, Q, b)
  BY DEF RestSame, SameCache
<1>3. AllKept(P, Q, T, b)
  BY DEF AllKept, BufFits, SameCache
<1>4. HeldAt(Q, H, L, b)
  BY <1>1 DEF HeldAt, HeldInv
<1>. QED BY <1>2, <1>3, <1>4, PoolStep

\* get_new_buffer takes the first free buffer ...
LEMMA PopFree ==
  ASSUME NEW P, NEW T, NEW H, NEW L, Inv(P, T, H, L, NULL, NULL), P.freelist # <<>>
  PROVE  LET b == Head(P.freelist)
             Q == [P EXCEPT !.freelist = Tail(@)]
         IN b \in Bufs /\ Inv(Q, T, H, L, b, b)
<1>. DEFINE b == Head(P.freelist)
            f == Tail(P.freelist)
            Q == [P EXCEPT !.freelist = f]
            S == {c \in Bufs \ {NULL} : P.state[c] = "free"}
<1>1. /\ P \in Pool /\ ListInv(P, NULL) /\ HashInv(P, NULL) /\ ContentInv(P, NULL) /\ LockInv(P, NULL)
      /\ PlaceInv(P, T) /\ P.freelist \in Seq(Bufs) /\ NULL \notin Bufs
  BY Parts, ConstantFacts
<1>2. b \in S /\ b \in Bufs /\ f \in Seq(Bufs) /\ Lists(f, S \ {b})
  <2>1. Lists(P.freelist, S)
    BY <1>1 DEF ListInv
  <2>. HIDE DEF S
  <2>. QED BY <1>1, <2>1, TailLists
<1>3. P.state[b] = "free" /\ P.locks[b] = 0 /\ P.waiters[b] = {}
  <2>1. P.state[b] = "free" /\ b \in Bufs \ {NULL}
    BY <1>2
  <2>. HIDE DEF b
  <2>2. P.locks[b] = 0
    BY <1>1, <2>1 DEF LockInv
  <2>3. P.waiters[b] = {}
    BY <1>1, <2>1, WaitersFacts
  <2>. QED BY <2>1, <2>2, <2>3
<1>. HIDE DEF b, f
<1>4. /\ Q \in Pool /\ SameCache(P, Q) /\ Q.state = P.state /\ Q.locks = P.locks /\ Q.waiters = P.waiters
      /\ Q.freelist = f /\ Q.clean = P.clean /\ Q.dirty = P.dirty
  BY <1>1, <1>2 DEF Pool, SameCache
<1>. HIDE DEF Q
<1>5. ListInv(Q, b)
  <2>1. /\ {c \in Bufs \ {b} : P.state[c] = "free"} = S \ {b}
        /\ {c \in Bufs \ {b} : P.state[c] = "clean"} = {c \in Bufs \ {NULL} : P.state[c] = "clean"}
        /\ {c \in Bufs \ {b} : P.state[c] = "dirty"} = {c \in Bufs \ {NULL} : P.state[c] = "dirty"}
    BY <1>1, <1>3
  <2>. QED BY <1>1, <1>2, <1>4, <2>1, ZenonT(40) DEF ListInv
<1>6. \A k : Copies(Q, k, b) = Copies(P, k, NULL)
  BY <1>1, <1>3, <1>4 DEF Copies, SameCache
<1>7. HashInv(Q, b)
  BY <1>1, <1>4, <1>6 DEF HashInv, SameCache
<1>8. ContentInv(Q, b)
  BY <1>1, <1>4, <1>6 DEF ContentInv, SameCache
<1>9. Loose(Q, b, b)
  BY <1>2, <1>3, <1>4 DEF Loose
<1>10. Inv(Q, T, H, L, b, b)
  <2>1. Spot(NULL, b) /\ Spot(b, b) /\ LockUnless(Q, b, b)
    BY DEF Spot, LockUnless
  <2>. QED BY <1>2, <1>4, <1>5, <1>7, <1>8, <1>9, <2>1, ListStep
<1>11. [P EXCEPT !.freelist = Tail(@)] = Q
  BY <1>1 DEF f, Q
<1>. QED BY <1>2, <1>10, <1>11 DEF b

\* ... or the first clean one.
LEMMA PopClean ==
  ASSUME NEW P, NEW T, NEW H, NEW L, Inv(P, T, H, L, NULL, NULL), P.clean # <<>>
  PROVE  LET b == Head(P.clean)
             Q == [P EXCEPT !.clean = Tail(@)]
         IN b \in Bufs /\ Inv(Q, T, H, L, b, NULL) /\ Q.state[b] = "clean"
<1>. DEFINE b == Head(P.clean)
            f == Tail(P.clean)
            Q == [P EXCEPT !.clean = f]
            S == {c \in Bufs \ {NULL} : P.state[c] = "clean"}
<1>1. /\ P \in Pool /\ ListInv(P, NULL) /\ HashInv(P, NULL) /\ ContentInv(P, NULL) /\ LockInv(P, NULL)
      /\ PlaceInv(P, T) /\ P.clean \in Seq(Bufs) /\ NULL \notin Bufs
  BY Parts, ConstantFacts
<1>2. b \in S /\ b \in Bufs /\ f \in Seq(Bufs) /\ Lists(f, S \ {b})
  <2>1. Lists(P.clean, S)
    BY <1>1 DEF ListInv
  <2>. HIDE DEF S
  <2>. QED BY <1>1, <2>1, TailLists
<1>3. P.state[b] = "clean" /\ P.locks[b] = 0 /\ P.waiters[b] = {}
  <2>1. P.state[b] = "clean" /\ b \in Bufs \ {NULL}
    BY <1>2
  <2>. HIDE DEF b
  <2>2. P.locks[b] = 0
    BY <1>1, <2>1 DEF LockInv
  <2>3. P.waiters[b] = {}
    BY <1>1, <2>1, WaitersFacts
  <2>. QED BY <2>1, <2>2, <2>3
<1>. HIDE DEF b, f
<1>4. /\ Q \in Pool /\ SameCache(P, Q) /\ Q.state = P.state /\ Q.locks = P.locks /\ Q.waiters = P.waiters
      /\ Q.freelist = P.freelist /\ Q.clean = f /\ Q.dirty = P.dirty
  BY <1>1, <1>2 DEF Pool, SameCache
<1>. HIDE DEF Q
<1>5. ListInv(Q, b)
  <2>1. /\ {c \in Bufs \ {b} : P.state[c] = "clean"} = S \ {b}
        /\ {c \in Bufs \ {b} : P.state[c] = "free"} = {c \in Bufs \ {NULL} : P.state[c] = "free"}
        /\ {c \in Bufs \ {b} : P.state[c] = "dirty"} = {c \in Bufs \ {NULL} : P.state[c] = "dirty"}
    BY <1>1, <1>3
  <2>. QED BY <1>1, <1>2, <1>4, <2>1, ZenonT(40) DEF ListInv
<1>6. HashInv(Q, NULL) /\ ContentInv(Q, NULL)
  <2>1. KeepsStates(P, Q)
    BY <1>4 DEF KeepsStates
  <2>. QED BY <1>1, <1>4, <2>1, CacheKept
<1>7. Loose(Q, b, NULL)
  BY <1>2, <1>3, <1>4 DEF Loose
<1>8. Inv(Q, T, H, L, b, NULL)
  <2>1. Spot(NULL, b) /\ Spot(b, b) /\ LockUnless(Q, b, b)
    BY DEF Spot, LockUnless
  <2>. QED BY <1>2, <1>4, <1>5, <1>6, <1>7, <2>1, ListStep
<1>9. [P EXCEPT !.clean = Tail(@)] = Q
  BY <1>1 DEF f, Q
<1>. QED BY <1>2, <1>3, <1>4, <1>8, <1>9 DEF b

\* A clean buffer without users leaves the hash table.
LEMMA UnhashStep ==
  ASSUME NEW P, NEW T, NEW H, NEW L, NEW b \in Bufs, Inv(P, T, H, L, b, NULL), P.state[b] \in {"clean", "lock"}
  PROVE  Inv(remove_from_hashtable(P, b), T, H, L, b, b)
<1>. DEFINE k == P.blkno[b]
            n == Without(P.hashtable[k], b)
            h == [P.hashtable EXCEPT ![k] = n]
            Q == [P EXCEPT !.hashtable = h]
<1>1. /\ P \in Pool /\ ListInv(P, b) /\ HashInv(P, NULL) /\ ContentInv(P, NULL) /\ Loose(P, b, NULL)
      /\ PlaceInv(P, T) /\ HeldInv(P, H, L) /\ P.hashtable \in [Blocks -> Seq(Bufs)] /\ NULL \notin Bufs
  BY Parts, ConstantFacts
<1>2. k \in Blocks
  BY <1>1 DEF HashInv
<1>3. n \in Seq(Bufs) /\ Lists(n, Copies(P, k, NULL) \ {b})
  BY <1>1, <1>2, WithoutLists DEF HashInv
<1>4. remove_from_hashtable(P, b) = Q
  BY <1>1 DEF remove_from_hashtable
<1>5. h \in [Blocks -> Seq(Bufs)] /\ h[k] = n /\ \A j \in Blocks \ {k} : h[j] = P.hashtable[j]
  BY <1>1, <1>2, <1>3
<1>. HIDE DEF n, h
<1>6. /\ Q \in Pool /\ Q.state = P.state /\ Q.locks = P.locks /\ Q.waiters = P.waiters /\ SameLists(P, Q)
      /\ Q.blkno = P.blkno /\ Q.current = P.current /\ Q.disk = P.disk /\ Q.excused = P.excused
      /\ Q.panic = P.panic /\ Q.hashtable = h
  BY <1>1, <1>5 DEF Pool, SameLists
<1>. HIDE DEF Q
<1>7. \A j : Copies(Q, j, b) = Copies(P, j, NULL) \ {b}
  BY <1>1, <1>6 DEF Copies
<1>8. \A j : b \in Copies(P, j, NULL) <=> j = k
  BY <1>1 DEF Copies
<1>9. HashInv(Q, b)
  <2>1. ASSUME NEW j \in Blocks PROVE Lists(Q.hashtable[j], Copies(Q, j, b))
    <3>1. CASE j = k
      BY <1>3, <1>5, <1>6, <1>7, <3>1
    <3>2. CASE j # k
      <4>1. Q.hashtable[j] = P.hashtable[j] /\ Copies(Q, j, b) = Copies(P, j, NULL)
        <5>1. Q.hashtable[j] = P.hashtable[j]
          BY <1>5, <1>6, <3>2
        <5>2. Copies(Q, j, b) = Copies(P, j, NULL) \ {b} /\ b \notin Copies(P, j, NULL)
          BY <1>7, <1>8, <3>2
        <5>. QED BY <5>1, <5>2
      <4>. QED BY <1>1, <4>1 DEF HashInv
    <3>. QED BY <3>1, <3>2
  <2>. QED BY <1>1, <1>6, <2>1 DEF HashInv
<1>10. ContentInv(Q, b)
  <2>. SUFFICES ASSUME NEW j \in Blocks \ Q.excused
                PROVE  /\ \A a, c \in Copies(Q, j, b) : a = c
                       /\ \A a \in Copies(Q, j, b) : Q.state[a] # "read" => Q.current[a]
                       /\ Q.disk[j] \/ \E a \in Copies(Q, j, b) : Q.state[a] \in {"upd", "dirty", "write"}
    BY DEF ContentInv
  <2>1. j \in Blocks \ P.excused
    BY <1>6
  <2>2. /\ \A a, c \in Copies(P, j, NULL) : a = c
        /\ \A a \in Copies(P, j, NULL) : P.state[a] # "read" => P.current[a]
        /\ P.disk[j] \/ \E a \in Copies(P, j, NULL) : P.state[a] \in {"upd", "dirty", "write"}
    BY <1>1, <2>1, ContentAt
  <2>3. Copies(Q, j, b) = Copies(P, j, NULL) \ {b}
    BY <1>7
  <2>. QED BY <1>6, <2>2, <2>3
<1>11. ListInv(Q, b)
  BY <1>1, <1>6, ListKeep
<1>12. Loose(Q, b, b)
  BY <1>1, <1>6 DEF Loose
<1>13. RestSame(P, Q, b)
  BY <1>6 DEF RestSame
<1>14. AllKept(P, Q, T, b)
  BY <1>6 DEF AllKept, BufFits
<1>15. HeldAt(Q, H, L, b)
  BY <1>1, <1>6 DEF HeldAt, HeldInv
<1>16. Spot(b, b) /\ LockUnless(Q, b, b)
  BY DEF Spot, LockUnless
<1>17. Inv(Q, T, H, L, b, b)
  BY <1>6, <1>9, <1>10, <1>11, <1>12, <1>13, <1>14, <1>15, <1>16, PoolStep
<1>. QED BY <1>4, <1>17

\* flush_buffers puts a written buffer without users into the clean list.
LEMMA CleanStep ==
  ASSUME NEW P, NEW T, NEW H, NEW L, NEW b \in Bufs, Inv(P, T, H, L, b, NULL), P.state[b] = "lock"
  PROVE  Inv([P EXCEPT !.state[b] = "clean", !.clean = Append(@, b)], T, H, L, NULL, NULL)
<1>. DEFINE s == [P.state EXCEPT ![b] = "clean"]
            a == Append(P.clean, b)
            Q == [P EXCEPT !.state = s, !.clean = a]
            S == {c \in Bufs \ {b} : P.state[c] = "clean"}
<1>1. /\ P \in Pool /\ ListInv(P, b) /\ HashInv(P, NULL) /\ ContentInv(P, NULL) /\ Loose(P, b, NULL)
      /\ PlaceInv(P, T) /\ HeldInv(P, H, L) /\ CountInv(P, T, H, L) /\ P.clean \in Seq(Bufs)
      /\ H \in [Users -> [Bufs -> Nat]] /\ L \in [Bufs -> Nat]
      /\ P.state \in [Bufs -> States] /\ NULL \notin Bufs
  BY Parts, ConstantFacts
<1>2. a \in Seq(Bufs) /\ Lists(a, S \cup {b})
  <2>1. Lists(P.clean, S) /\ b \notin S
    BY <1>1 DEF ListInv
  <2>. HIDE DEF S
  <2>. QED BY <1>1, <2>1, AppendLists
<1>3. s \in [Bufs -> States] /\ s[b] = "clean" /\ \A c \in Bufs \ {b} : s[c] = P.state[c]
  BY <1>1 DEF States
<1>4. [P EXCEPT !.state[b] = "clean", !.clean = Append(@, b)] = Q
  BY <1>1
<1>. HIDE DEF s, a
<1>5. /\ Q \in Pool /\ SameCache(P, Q) /\ Q.state = s /\ Q.locks = P.locks /\ Q.waiters = P.waiters
      /\ Q.freelist = P.freelist /\ Q.clean = a /\ Q.dirty = P.dirty
  BY <1>1, <1>2, <1>3 DEF Pool, SameCache
<1>. HIDE DEF Q
<1>6. P.locks[b] = 0 /\ P.waiters[b] = {}
  BY <1>1 DEF Loose
<1>7. ListInv(Q, NULL)
  <2>1. /\ {c \in Bufs \ {NULL} : Q.state[c] = "clean"} = S \cup {b}
        /\ {c \in Bufs \ {NULL} : Q.state[c] = "free"} = {c \in Bufs \ {b} : P.state[c] = "free"}
        /\ {c \in Bufs \ {NULL} : Q.state[c] = "dirty"} = {c \in Bufs \ {b} : P.state[c] = "dirty"}
    BY <1>1, <1>3, <1>5
  <2>. QED BY <1>1, <1>2, <1>5, <2>1 DEF ListInv
<1>8. HashInv(Q, NULL) /\ ContentInv(Q, NULL)
  <2>1. KeepsStates(P, Q)
    BY <1>3, <1>5 DEF KeepsStates
  <2>. QED BY <1>1, <1>5, <2>1, CacheKept
<1>9. RestSame(P, Q, b)
  BY <1>3, <1>5 DEF RestSame, SameCache
<1>10. AllKept(P, Q, T, b)
  <2>1. \A q \in Threads : T[q].buf = b => T[q].at \notin {"wait", "read", "write", "flush", "sync"}
    BY <1>6, NobodyRefers
  <2>. QED BY <2>1 DEF AllKept, BufFits
<1>11. HeldAt(Q, H, L, b)
  BY <1>6, Unheld
<1>12. LockUnless(Q, NULL, b)
  BY <1>3, <1>5, <1>6 DEF LockUnless, LockAt, Locked
<1>13. Loose(Q, NULL, NULL) /\ Spot(NULL, b) /\ Spot(b, b)
  BY DEF Loose, Spot
<1>14. Inv(Q, T, H, L, NULL, NULL)
  BY <1>5, <1>7, <1>8, <1>9, <1>10, <1>11, <1>12, <1>13, PoolStep
<1>. QED BY <1>4, <1>14

-----------------------------------------------------------------------------
(* get_new_buffer has found a buffer.                                      *)

\* Contents may only become current.
Richer(P, Q, b) ==
  /\ \A c \in Bufs \ {b} : P.current[c] => Q.current[c]
  /\ \A j \in Blocks : P.disk[j] => Q.disk[j]

\* Block k has no copy, or its content is not followed.
Fresh(P, k) == P.hashtable[k] = <<>> \/ k \in P.excused

\* The buffer is being read, or the thread has a lock on it.
NewPlace(s, r) == (s = "read" /\ r.at = "read") \/ (s = "lock" /\ r.at = "wait")

\* Q is P with buffer b put into the hash table for block k, in state s and locked.
Inserted(P, Q, b, k, s) ==
  /\ Q \in Pool /\ SameLists(P, Q) /\ Q.panic = P.panic /\ Q.waiters = P.waiters /\ Q.excused = P.excused
  /\ Q.state = [P.state EXCEPT ![b] = s] /\ Q.locks = [P.locks EXCEPT ![b] = P.locks[b] + 1]
  /\ Q.blkno = [P.blkno EXCEPT ![b] = k]
  /\ Q.hashtable = [P.hashtable EXCEPT ![k] = <<b>> \o P.hashtable[k]]
  /\ Richer(P, Q, b)
  /\ s = "lock" => Q.current[b]

\* The buffer b is put into the hash table for block k, locked by thread t.
LEMMA NewStep ==
  ASSUME NEW P, NEW T, NEW H, NEW L, NEW b \in Bufs, Inv(P, T, H, L, b, b), NEW t \in Users, Idle(T[t]),
         NEW k \in Blocks, Fresh(P, k),
         NEW r, Fits(t, r), r.buf = b, r.blk = k, NEW s, NewPlace(s, r),
         NEW Q, Inserted(P, Q, b, k, s)
  PROVE  Inv(Q, [T EXCEPT ![t] = r], H, L, NULL, NULL) /\ t \notin Q.waiters[b]
<1>0. /\ Q \in Pool /\ SameLists(P, Q) /\ Q.panic = P.panic /\ Q.waiters = P.waiters /\ Q.excused = P.excused
      /\ Q.state = [P.state EXCEPT ![b] = s] /\ Q.locks = [P.locks EXCEPT ![b] = P.locks[b] + 1]
      /\ Q.blkno = [P.blkno EXCEPT ![b] = k]
      /\ Q.hashtable = [P.hashtable EXCEPT ![k] = <<b>> \o P.hashtable[k]]
      /\ Richer(P, Q, b)
      /\ s = "lock" => Q.current[b]
      /\ P.hashtable[k] = <<>> \/ k \in P.excused
      /\ (s = "read" /\ r.at = "read") \/ (s = "lock" /\ r.at = "wait")
  BY DEF Inserted, Fresh, NewPlace
<1>. USE <1>0
<1>. DEFINE V == [T EXCEPT ![t] = r]
<1>1. /\ P \in Pool /\ ListInv(P, b) /\ HashInv(P, b) /\ ContentInv(P, b) /\ Loose(P, b, b)
      /\ PlaceInv(P, T) /\ HeldInv(P, H, L) /\ CountInv(P, T, H, L)
      /\ H \in [Users -> [Bufs -> Nat]] /\ L \in [Bufs -> Nat]
      /\ P.state \in [Bufs -> States] /\ P.locks \in [Bufs -> Nat] /\ P.hashtable \in [Blocks -> Seq(Bufs)]
      /\ P.blkno \in [Bufs -> Blocks \cup {NoBlock}]
  BY Parts
<1>2. NULL \notin Bufs /\ t \in Threads
  BY ConstantFacts
<1>3. ThreadStep(T, V, t) /\ V[t] = r
  BY <1>2, GoStep
<1>. HIDE DEF V
<1>4. NotWaiting(P, t)
  <2>1. T[t].at # "wait"
    BY IdleFits
  <2>. QED BY <1>2, <2>1, GoesOn
<1>5. P.locks[b] = 0 /\ P.waiters[b] = {} /\ P.state[b] \in {"free", "clean", "lock"}
  BY <1>1, <1>2 DEF Loose
<1>6. /\ Q.state[b] = s /\ Q.locks[b] = 1 /\ Q.blkno[b] = k /\ Q.waiters[b] = {}
      /\ \A c \in Bufs \ {b} : Q.state[c] = P.state[c] /\ Q.locks[c] = P.locks[c] /\ Q.blkno[c] = P.blkno[c]
  BY <1>1, <1>5
<1>7. RestSame(P, Q, b)
  BY <1>6 DEF RestSame
<1>8. \A q \in Threads : T[q].buf = b => T[q].at \notin {"wait", "read", "write", "flush", "sync"}
  BY <1>5, NobodyRefers
<1>9. Kept(P, Q, T, t, b)
  BY <1>8 DEF Kept, BufFits
<1>10. BufFits(Q, t, V[t])
  BY <1>3, <1>6 DEF BufFits, Locked
<1>11. Sole(T, t, V[t])
  BY <1>3, <1>8 DEF Sole, Transfers
<1>12. NoGain(H, H, b) /\ HeldAt(Q, H, L, b)
  BY <1>5, Unheld DEF NoGain
<1>13. LockUnless(Q, NULL, b)
  BY <1>6 DEF LockUnless, LockAt
<1>14. ListInv(Q, NULL)
  <2>1. /\ {c \in Bufs \ {NULL} : Q.state[c] = "clean"} = {c \in Bufs \ {b} : P.state[c] = "clean"}
        /\ {c \in Bufs \ {NULL} : Q.state[c] = "free"} = {c \in Bufs \ {b} : P.state[c] = "free"}
        /\ {c \in Bufs \ {NULL} : Q.state[c] = "dirty"} = {c \in Bufs \ {b} : P.state[c] = "dirty"}
    BY <1>2, <1>6
  <2>. QED BY <1>1, <2>1 DEF ListInv, SameLists
<1>15. \A j : j # k => Copies(Q, j, NULL) = Copies(P, j, b)
  BY <1>2, <1>6 DEF Copies
<1>16. Copies(Q, k, NULL) = Copies(P, k, b) \cup {b} /\ b \notin Copies(P, k, b)
  BY <1>2, <1>6 DEF Copies
<1>17. HashInv(Q, NULL)
  <2>1. ASSUME NEW j \in Blocks PROVE Lists(Q.hashtable[j], Copies(Q, j, NULL))
    <3>1. Lists(P.hashtable[j], Copies(P, j, b)) /\ P.hashtable[j] \in Seq(Bufs)
      BY <1>1 DEF HashInv
    <3>2. CASE j = k
      <4>1. Lists(<<b>> \o P.hashtable[k], Copies(P, k, b) \cup {b})
        BY <1>16, <3>1, <3>2, PrependLists
      <4>2. Q.hashtable[k] = <<b>> \o P.hashtable[k]
        BY <1>1
      <4>. QED BY <1>16, <3>2, <4>1, <4>2
    <3>3. CASE j # k
      <4>1. Q.hashtable[j] = P.hashtable[j]
        BY <1>1, <3>3
      <4>. QED BY <1>15, <3>1, <3>3, <4>1
    <3>. QED BY <3>2, <3>3
  <2>2. \A c \in Bufs : Q.state[c] # "free" => Q.blkno[c] \in Blocks
    BY <1>1, <1>6 DEF HashInv
  <2>. QED BY <2>1, <2>2 DEF HashInv
<1>18. ContentInv(Q, NULL)
  <2>. SUFFICES ASSUME NEW j \in Blocks \ Q.excused
                PROVE  /\ \A a, c \in Copies(Q, j, NULL) : a = c
                       /\ \A a \in Copies(Q, j, NULL) : Q.state[a] # "read" => Q.current[a]
                       /\ Q.disk[j] \/ \E a \in Copies(Q, j, NULL) : Q.state[a] \in {"upd", "dirty", "write"}
    BY DEF ContentInv
  <2>1. j \in Blocks \ P.excused /\ Copies(P, j, b) \subseteq Bufs \ {b}
    BY DEF Copies
  <2>2. /\ \A a, c \in Copies(P, j, b) : a = c
        /\ \A a \in Copies(P, j, b) : P.state[a] # "read" => P.current[a]
        /\ P.disk[j] \/ \E a \in Copies(P, j, b) : P.state[a] \in {"upd", "dirty", "write"}
    BY <1>1, <2>1, ContentAt
  <2>3. CASE j = k
    <3>1. P \in Pool /\ HashInv(P, b) /\ P.hashtable[k] = <<>>
      BY <1>1, <2>1, <2>3
    <3>2. Copies(P, k, b) = {}
      BY <3>1, NoCopies
    <3>3. Copies(Q, k, NULL) = {b}
      BY <1>16, <3>2
    <3>4. Q.disk[k]
      BY <2>2, <2>3, <3>2 DEF Richer
    <3>. QED BY <1>6, <2>3, <3>3, <3>4
  <2>4. CASE j # k
    <3>1. Copies(Q, j, NULL) = Copies(P, j, b)
      BY <1>15, <2>4
    <3>2. \A a \in Copies(P, j, b) : Q.state[a] = P.state[a] /\ (P.current[a] => Q.current[a])
      BY <1>6, <2>1 DEF Richer
    <3>3. P.disk[j] => Q.disk[j]
      BY <2>1 DEF Richer
    <3>. QED BY <2>2, <3>1, <3>2, <3>3
  <2>. QED BY <2>3, <2>4
<1>19. CountInv(Q, V, H, L)
  <2>1. \A W, c : ~Uses(t, T[t], W, c)
    BY IdleFits
  <2>2. Uses(t, V[t], P.waiters[b], b) /\ \A c \in Bufs \ {b} : ~Uses(t, V[t], P.waiters[c], c)
    BY <1>3, <1>5 DEF Uses
  <2>3. Q.locks[b] + One(Uses(t, T[t], P.waiters[b], b)) = P.locks[b] + One(Uses(t, V[t], P.waiters[b], b))
    BY <1>5, <1>6, <2>1, <2>2 DEF One
  <2>4. \A c \in Bufs \ {b} : /\ Q.locks[c] = P.locks[c]
                              /\ Uses(t, T[t], P.waiters[c], c) <=> Uses(t, V[t], P.waiters[c], c)
    BY <1>6, <2>1, <2>2
  <2>5. \A q \in Threads \ {t} : V[q] = T[q]
    BY <1>3 DEF ThreadStep
  <2>6. P \in Pool /\ H \in [Users -> [Bufs -> Nat]] /\ L \in [Bufs -> Nat] /\ CountInv(P, T, H, L)
    BY <1>1
  <2>7. SameUse(P, Q, T, V, t, b)
    BY <2>3, <2>4, <2>5 DEF SameUse
  <2>. QED BY <1>2, <2>6, <2>7, UseCount
<1>20. Loose(Q, NULL, NULL) /\ Spot(NULL, b) /\ Spot(b, b)
  BY DEF Loose, Spot
<1>21. H \in [Users -> [Bufs -> Nat]]
  BY <1>1
<1>22. Inv(Q, V, H, L, NULL, NULL)
  BY <1>2, <1>3, <1>4, <1>7, <1>9, <1>10, <1>11, <1>12, <1>13, <1>14, <1>17, <1>18, <1>19, <1>20, <1>21, BufferStep
<1>. QED BY <1>6, <1>22 DEF V

\* What insert_into_hashtable and the first lock change.
LEMMA InsertFields ==
  ASSUME NEW P \in Pool, NEW b \in Bufs, NEW k \in Blocks
  PROVE  LET Q == add_lock(insert_into_hashtable(P, b, k), b)
         IN /\ Q \in Pool /\ SameLists(P, Q) /\ Q.panic = P.panic /\ Q.waiters = P.waiters /\ Q.excused = P.excused
            /\ Q.state = P.state /\ Q.locks = [P.locks EXCEPT ![b] = P.locks[b] + 1]
            /\ Q.blkno = [P.blkno EXCEPT ![b] = k]
            /\ Q.hashtable = [P.hashtable EXCEPT ![k] = <<b>> \o P.hashtable[k]]
            /\ Q.current = P.current /\ Q.disk = P.disk
<1>. DEFINE n == [P.blkno EXCEPT ![b] = k]
            h == [P.hashtable EXCEPT ![k] = <<b>> \o P.hashtable[k]]
            F == [P EXCEPT !.blkno = n, !.hashtable = h]
<1>1. insert_into_hashtable(P, b, k) = F
  BY DEF insert_into_hashtable
<1>2. n \in [Bufs -> Blocks \cup {NoBlock}] /\ h \in [Blocks -> Seq(Bufs)]
  <2>1. P.hashtable[k] \in Seq(Bufs) /\ <<b>> \in Seq(Bufs)
    BY DEF Pool
  <2>2. <<b>> \o P.hashtable[k] \in Seq(Bufs)
    BY <2>1
  <2>. QED BY <2>2 DEF Pool
<1>. HIDE DEF n, h
<1>3. /\ F \in Pool /\ SameLists(P, F) /\ F.panic = P.panic /\ F.waiters = P.waiters /\ F.excused = P.excused
      /\ F.state = P.state /\ F.locks = P.locks /\ F.blkno = n /\ F.hashtable = h
      /\ F.current = P.current /\ F.disk = P.disk
  BY <1>2 DEF Pool, SameLists
<1>. HIDE DEF F
<1>4. LET Q == add_lock(F, b)
      IN /\ Q \in Pool /\ SameCache(F, Q) /\ SameLists(F, Q)
         /\ Q.state = F.state /\ Q.locks = [F.locks EXCEPT ![b] = F.locks[b] + 1] /\ Q.waiters = F.waiters
  BY <1>3, AddLock
<1>. QED BY <1>1, <1>3, <1>4 DEF SameCache, SameLists, n, h

\* An excused block may be cached once more.
LEMMA ExcusedFresh ==
  ASSUME NEW P \in Pool, NEW k \in Blocks
  PROVE  Fresh(Excuse(P, k), k)
<1>1. Excuse(P, k).excused = P.excused \cup {k}
  BY DEF Excuse, Forget, Pool
<1>. QED BY <1>1 DEF Fresh

-----------------------------------------------------------------------------
(* Transfers.                                                              *)

\* What the start of a write changes.
LEMMA StartWriteFields ==
  ASSUME NEW P \in Pool, NEW b \in Bufs, Without(P.dirty, b) \in Seq(Bufs)
  PROVE  LET Q == StartWrite(P, b)
         IN /\ Q \in Pool /\ SameCache(P, Q) /\ Q.waiters = P.waiters /\ Q.locks = P.locks
            /\ Q.freelist = P.freelist /\ Q.clean = P.clean /\ Q.dirty = Without(P.dirty, b)
            /\ Q.state = [P.state EXCEPT ![b] = "write"]
<1>. DEFINE F == change_state(P, b, "write")
            d == Without(P.dirty, b)
            Q == [F EXCEPT !.dirty = d]
<1>1. "write" \in States
  BY DEF States
<1>2. /\ F \in Pool /\ SameCache(P, F) /\ SameLists(P, F)
      /\ F.state = [P.state EXCEPT ![b] = "write"] /\ F.locks = P.locks /\ F.waiters = P.waiters
  BY <1>1, ChangeState
<1>3. StartWrite(P, b) = Q
  BY <1>2 DEF StartWrite, SameLists
<1>. HIDE DEF F, d
<1>4. /\ Q \in Pool /\ SameCache(F, Q) /\ Q.waiters = F.waiters /\ Q.locks = F.locks
      /\ Q.freelist = F.freelist /\ Q.clean = F.clean /\ Q.dirty = d /\ Q.state = F.state
  BY <1>2 DEF Pool, SameCache, d
<1>. QED BY <1>2, <1>3, <1>4 DEF SameCache, SameLists, d

\* The first dirty buffer is written.
LEMMA WriteStep ==
  ASSUME NEW P, NEW T, NEW H, NEW L, Inv(P, T, H, L, NULL, NULL), P.dirty # <<>>, NEW t \in Threads, Idle(T[t]),
         NEW r, Fits(t, r), r.at \in {"write", "flush"}, r.buf = Head(P.dirty)
  PROVE  Inv(StartWrite(P, Head(P.dirty)), [T EXCEPT ![t] = r], H, L, NULL, NULL)
<1>. DEFINE b == Head(P.dirty)
            V == [T EXCEPT ![t] = r]
            Q == StartWrite(P, b)
            S == {c \in Bufs \ {NULL} : P.state[c] = "dirty"}
<1>1. /\ P \in Pool /\ ListInv(P, NULL) /\ HashInv(P, NULL) /\ ContentInv(P, NULL) /\ LockInv(P, NULL)
      /\ PlaceInv(P, T) /\ CountInv(P, T, H, L) /\ P.dirty \in Seq(Bufs) /\ NULL \notin Bufs
      /\ H \in [Users -> [Bufs -> Nat]] /\ L \in [Bufs -> Nat] /\ P.state \in [Bufs -> States]
  BY Parts, ConstantFacts
<1>2. b \in S /\ b \in Bufs /\ Without(P.dirty, b) \in Seq(Bufs) /\ Lists(Without(P.dirty, b), S \ {b})
  <2>1. Lists(P.dirty, S)
    BY <1>1 DEF ListInv
  <2>. HIDE DEF S
  <2>2. b \in S /\ b \in Bufs
    BY <1>1, <2>1, TailLists
  <2>. HIDE DEF b
  <2>. QED BY <1>1, <2>1, <2>2, WithoutLists
<1>3. r.buf = b
  OBVIOUS
<1>. HIDE DEF b
<1>4. /\ Q \in Pool /\ SameCache(P, Q) /\ Q.waiters = P.waiters /\ Q.locks = P.locks
      /\ Q.freelist = P.freelist /\ Q.clean = P.clean /\ Q.dirty = Without(P.dirty, b)
      /\ Q.state = [P.state EXCEPT ![b] = "write"]
  BY <1>1, <1>2, StartWriteFields
<1>5. ThreadStep(T, V, t) /\ V[t] = r
  BY GoStep
<1>. HIDE DEF V, Q
<1>6. P.state[b] = "dirty" /\ P.locks[b] = 0 /\ P.waiters[b] = {}
  <2>1. P.state[b] = "dirty" /\ b \in Bufs \ {NULL}
    BY <1>2
  <2>2. P.locks[b] = 0
    BY <1>1, <2>1 DEF LockInv
  <2>3. P.waiters[b] = {}
    BY <1>1, <2>1, WaitersFacts
  <2>. QED BY <2>1, <2>2, <2>3
<1>7. Q.state[b] = "write" /\ \A c \in Bufs \ {b} : Q.state[c] = P.state[c]
  BY <1>1, <1>2, <1>4
<1>8. NotWaiting(P, t)
  <2>1. T[t].at # "wait"
    BY IdleFits
  <2>. QED BY <2>1, GoesOn
<1>9. RestSame(P, Q, b)
  BY <1>4, <1>7 DEF RestSame, SameCache
<1>10. \A q \in Threads : T[q].buf = b => T[q].at \notin {"wait", "read", "write", "flush", "sync"}
  BY <1>2, <1>6, NobodyRefers
<1>11. Kept(P, Q, T, t, b) /\ Sole(T, t, V[t])
  BY <1>3, <1>5, <1>10 DEF Kept, BufFits, Sole, Transfers
<1>12. BufFits(Q, t, V[t])
  BY <1>3, <1>5, <1>7 DEF BufFits
<1>13. NoGain(H, H, b) /\ HeldAt(Q, H, L, b)
  BY <1>2, <1>6, Unheld DEF NoGain
<1>14. LockUnless(Q, NULL, b)
  BY <1>4, <1>6, <1>7 DEF LockUnless, LockAt, Locked
<1>15. ListInv(Q, NULL)
  <2>1. /\ {c \in Bufs \ {NULL} : Q.state[c] = "dirty"} = S \ {b}
        /\ {c \in Bufs \ {NULL} : Q.state[c] = "free"} = {c \in Bufs \ {NULL} : P.state[c] = "free"}
        /\ {c \in Bufs \ {NULL} : Q.state[c] = "clean"} = {c \in Bufs \ {NULL} : P.state[c] = "clean"}
    BY <1>6, <1>7
  <2>. QED BY <1>1, <1>2, <1>4, <2>1 DEF ListInv
<1>16. HashInv(Q, NULL) /\ ContentInv(Q, NULL)
  <2>1. KeepsStates(P, Q)
    BY <1>6, <1>7 DEF KeepsStates
  <2>. QED BY <1>1, <1>4, <2>1, CacheKept
<1>17. CountInv(Q, V, H, L)
  <2>1. \A W, c : ~Uses(t, T[t], W, c)
    BY IdleFits
  <2>2. \A W, c : ~Uses(t, V[t], W, c)
    BY <1>5 DEF Uses
  <2>3. Q.locks[b] + One(Uses(t, T[t], P.waiters[b], b)) = P.locks[b] + One(Uses(t, V[t], P.waiters[b], b))
    BY <1>4, <1>6, <2>1, <2>2 DEF One
  <2>4. \A c \in Bufs \ {b} : /\ Q.locks[c] = P.locks[c]
                              /\ Uses(t, T[t], P.waiters[c], c) <=> Uses(t, V[t], P.waiters[c], c)
    BY <1>4, <2>1, <2>2
  <2>5. \A q \in Threads \ {t} : V[q] = T[q]
    BY <1>5 DEF ThreadStep
  <2>6. /\ P \in Pool /\ H \in [Users -> [Bufs -> Nat]] /\ L \in [Bufs -> Nat] /\ CountInv(P, T, H, L)
        /\ Q \in Pool /\ Q.waiters = P.waiters
    BY <1>1, <1>4
  <2>7. SameUse(P, Q, T, V, t, b)
    BY <2>3, <2>4, <2>5 DEF SameUse
  <2>. QED BY <1>2, <2>6, <2>7, UseCount
<1>18. Loose(Q, NULL, NULL) /\ Spot(NULL, b)
  BY DEF Loose, Spot
<1>19. H \in [Users -> [Bufs -> Nat]] /\ Q \in Pool
  BY <1>1, <1>4
<1>20. Inv(Q, V, H, L, NULL, NULL)
  BY <1>2, <1>5, <1>8, <1>9, <1>11, <1>12, <1>13, <1>14, <1>15, <1>16, <1>17, <1>18, <1>19, BufferStep
<1>. QED BY <1>20 DEF V, Q, b

\* sync_buffers locks an updated buffer and writes it.
LEMMA SyncStep ==
  ASSUME NEW P, NEW T, NEW H, NEW L, Inv(P, T, H, L, NULL, NULL), NEW t \in Threads, Idle(T[t]),
         NEW b \in Bufs, P.state[b] = "upd", NEW r, Fits(t, r), r.at = "sync", r.buf = b
  PROVE  Inv(add_lock(P, b), [T EXCEPT ![t] = r], H, L, NULL, NULL)
<1>. DEFINE V == [T EXCEPT ![t] = r]
            Q == add_lock(P, b)
<1>1. /\ P \in Pool /\ ListInv(P, NULL) /\ HashInv(P, NULL) /\ ContentInv(P, NULL) /\ HeldInv(P, H, L)
      /\ CountInv(P, T, H, L) /\ H \in [Users -> [Bufs -> Nat]] /\ L \in [Bufs -> Nat]
      /\ P.state \in [Bufs -> States] /\ P.locks \in [Bufs -> Nat]
  BY Parts
<1>2. /\ Q \in Pool /\ SameCache(P, Q) /\ SameLists(P, Q)
      /\ Q.state = P.state /\ Q.locks = [P.locks EXCEPT ![b] = P.locks[b] + 1] /\ Q.waiters = P.waiters
  BY <1>1, AddLock
<1>3. ThreadStep(T, V, t) /\ V[t] = r
  BY GoStep
<1>. HIDE DEF V, Q
<1>4. Q.locks[b] = P.locks[b] + 1 /\ P.locks[b] \in Nat /\ \A c \in Bufs \ {b} : Q.locks[c] = P.locks[c]
  BY <1>1, <1>2
<1>5. NotWaiting(P, t)
  <2>1. T[t].at # "wait"
    BY IdleFits
  <2>. QED BY <2>1, GoesOn
<1>6. RestSame(P, Q, b)
  BY <1>2, <1>4 DEF RestSame, SameCache
<1>7. Kept(P, Q, T, t, b)
  BY <1>2 DEF Kept, BufFits, SameCache
<1>8. Sole(T, t, V[t]) /\ BufFits(Q, t, V[t])
  BY <1>2, <1>3 DEF Sole, Transfers, BufFits, Locked
<1>9. NoGain(H, H, b) /\ HeldAt(Q, H, L, b)
  BY <1>2 DEF NoGain, HeldAt, Locked
<1>10. LockUnless(Q, NULL, b)
  BY <1>2, <1>4 DEF LockUnless, LockAt, Locked
<1>11. ListInv(Q, NULL)
  BY <1>1, <1>2, ListKeep
<1>12. HashInv(Q, NULL) /\ ContentInv(Q, NULL)
  <2>1. KeepsStates(P, Q)
    BY <1>2 DEF KeepsStates
  <2>. QED BY <1>1, <1>2, <2>1, CacheKept
<1>13. CountInv(Q, V, H, L)
  <2>1. \A W, c : ~Uses(t, T[t], W, c)
    BY IdleFits
  <2>2. \A W, c : Uses(t, V[t], W, c) <=> c = b
    BY <1>3 DEF Uses
  <2>3. Q.locks[b] + One(Uses(t, T[t], P.waiters[b], b)) = P.locks[b] + One(Uses(t, V[t], P.waiters[b], b))
    BY <1>4, <2>1, <2>2 DEF One
  <2>4. \A c \in Bufs \ {b} : /\ Q.locks[c] = P.locks[c]
                              /\ Uses(t, T[t], P.waiters[c], c) <=> Uses(t, V[t], P.waiters[c], c)
    BY <1>4, <2>1, <2>2
  <2>5. \A q \in Threads \ {t} : V[q] = T[q]
    BY <1>3 DEF ThreadStep
  <2>6. /\ P \in Pool /\ H \in [Users -> [Bufs -> Nat]] /\ L \in [Bufs -> Nat] /\ CountInv(P, T, H, L)
        /\ Q \in Pool /\ Q.waiters = P.waiters
    BY <1>1, <1>2
  <2>7. SameUse(P, Q, T, V, t, b)
    BY <2>3, <2>4, <2>5 DEF SameUse
  <2>. QED BY <2>6, <2>7, UseCount
<1>14. Loose(Q, NULL, NULL) /\ Spot(NULL, b)
  BY DEF Loose, Spot
<1>15. H \in [Users -> [Bufs -> Nat]] /\ Q \in Pool
  BY <1>1, <1>2
<1>16. Inv(Q, V, H, L, NULL, NULL)
  BY <1>3, <1>5, <1>6, <1>7, <1>8, <1>9, <1>10, <1>11, <1>12, <1>13, <1>14, <1>15, BufferStep
<1>. QED BY <1>16 DEF V, Q

\* A transfer of b ends: who waited for it is given a lock, and the thread
\* that made it goes on, with a lock of its own if it read b for its caller.
Woken(P, Q, b, s) ==
  /\ SameLists(P, Q) /\ Q.blkno = P.blkno /\ Q.hashtable = P.hashtable /\ Q.panic = P.panic
  /\ Q.state = [P.state EXCEPT ![b] = s]
  /\ Q.locks = [P.locks EXCEPT ![b] = P.locks[b] + Cardinality(P.waiters[b])]
  /\ Q.waiters = [P.waiters EXCEPT ![b] = {}]

\* Where the thread with record r goes on.
Onward(P, b, r, v) ==
  /\ r.at = "read" => v.at = "wait" /\ v.buf = b /\ v.blk = P.blkno[b]
  /\ r.at # "read" => Idle(v)

\* Buffer z is b when it was written and nobody has a lock on it.
Spare(Q, b, s, z) == z = IF s = "lock" /\ Q.locks[b] = 0 THEN b ELSE NULL
Settled(s) == s \in {"lock", "err"}

\* The end of a transfer wakes the waiters with a lock each.
LEMMA WokenStep ==
  ASSUME NEW P, NEW T, NEW H, NEW L, Inv(P, T, H, L, NULL, NULL), NEW t \in Threads, NEW b \in Bufs,
         T[t].at \in Transfers, T[t].buf = b, NEW v, Fits(t, v), Onward(P, b, T[t], v),
         NEW s, Settled(s), NEW Q \in Pool, Woken(P, Q, b, s), ContentInv(Q, NULL),
         NEW z, Spare(Q, b, s, z)
  PROVE  Inv(Q, [T EXCEPT ![t] = v], H, L, z, NULL) /\ Q.waiters[b] = {} /\ Q.state[b] = s
<1>. DEFINE V == [T EXCEPT ![t] = v]
            n == Cardinality(P.waiters[b])
<1>1. /\ P \in Pool /\ T \in [Threads -> Thread] /\ ListInv(P, NULL) /\ HashInv(P, NULL) /\ HeldInv(P, H, L)
      /\ PlaceInv(P, T) /\ CountInv(P, T, H, L) /\ LockInv(P, NULL) /\ ~P.panic
      /\ H \in [Users -> [Bufs -> Nat]] /\ L \in [Bufs -> Nat]
      /\ P.state \in [Bufs -> States] /\ P.locks \in [Bufs -> Nat] /\ P.waiters \in [Bufs -> SUBSET Users]
  BY Parts
<1>2. \A q \in Threads : Fits(q, T[q])
  BY Parts
<1>3. ThreadStep(T, V, t) /\ V[t] = v
  BY GoStep
<1>. HIDE DEF V
<1>4. /\ P.state[b] \in {"read", "write"} /\ (T[t].at = "read" <=> P.state[b] = "read")
      /\ NULL \notin Bufs
  BY <1>1, ConstantFacts DEF PlaceInv, BufFits, Transfers
<1>5. AllWait(T, P.waiters[b], b)
  BY <1>1 DEF PlaceInv, AllWait
<1>6. /\ Cardinality(UsersOf(T, {}, b)) = Cardinality(UsersOf(T, P.waiters[b], b)) + n
      /\ n \in Nat
  <2>1. P.waiters[b] \in SUBSET Users
    BY <1>1
  <2>2. T \in [Threads -> Thread]
    BY <1>1
  <2>. QED BY <1>5, <2>1, <2>2, UsersWoken
<1>. HIDE DEF n
<1>0. /\ s \in {"lock", "err"}
      /\ z = IF s = "lock" /\ Q.locks[b] = 0 THEN b ELSE NULL
  BY DEF Settled, Spare
<1>7. /\ Q.state[b] = s /\ Q.locks[b] = P.locks[b] + n /\ Q.waiters[b] = {} /\ P.locks[b] \in Nat
      /\ \A c \in Bufs \ {b} : Q.state[c] = P.state[c] /\ Q.locks[c] = P.locks[c] /\ Q.waiters[c] = P.waiters[c]
  BY <1>1 DEF Woken, n
<1>8. Types(Q, V, H, L)
  BY <1>1, <1>3 DEF Types, ThreadStep, Woken
<1>9. ListInv(Q, z)
  <2>1. /\ {c \in Bufs \ {z} : Q.state[c] = "dirty"} = {c \in Bufs \ {NULL} : P.state[c] = "dirty"}
        /\ {c \in Bufs \ {z} : Q.state[c] = "free"} = {c \in Bufs \ {NULL} : P.state[c] = "free"}
        /\ {c \in Bufs \ {z} : Q.state[c] = "clean"} = {c \in Bufs \ {NULL} : P.state[c] = "clean"}
    BY <1>0, <1>4, <1>7
  <2>. QED BY <1>1, <2>1 DEF ListInv, SameLists, Woken
<1>10. HashInv(Q, NULL)
  <2>1. \A c \in Bufs : Q.state[c] = "free" <=> P.state[c] = "free"
    BY <1>0, <1>4, <1>7
  <2>2. Q.hashtable = P.hashtable /\ Q.blkno = P.blkno /\ HashInv(P, NULL)
    BY <1>1 DEF Woken
  <2>. QED BY <2>1, <2>2, HashKeep
<1>11. PlaceInv(Q, V)
  <2>1. ASSUME NEW q \in Threads PROVE BufFits(Q, q, V[q])
    <3>1. CASE q = t /\ T[t].at = "read"
      <4>1. V[q] = v /\ v.at = "wait" /\ v.buf = b /\ v.blk = P.blkno[b] /\ Q.blkno = P.blkno
        BY <1>3, <3>1 DEF Woken, Onward
      <4>. QED BY <1>0, <1>7, <4>1 DEF BufFits, Locked
    <3>2. CASE q = t /\ T[t].at # "read"
      BY <1>3, <3>2, IdleFits DEF Onward
    <3>3. CASE q # t
      <4>1. V[q] = T[q] /\ BufFits(P, q, T[q]) /\ Fits(q, T[q])
        BY <1>1, <1>2, <1>3, <3>3 DEF PlaceInv, ThreadStep
      <4>2. CASE Idle(T[q])
        BY <4>1, <4>2, IdleFits
      <4>3. CASE T[q].buf \in Bufs \ {b}
        <5>1. \A c \in Bufs \ {b} : SameBuf(P, Q, c)
          BY <1>7 DEF SameBuf, Woken
        <5>. QED BY <4>1, <4>3, <5>1, OthersFit
      <4>4. CASE T[q].buf = b
        <5>1. T[q].at \notin Transfers
          BY <1>1, <3>3, <4>4 DEF PlaceInv
        <5>2. T[q].at # "sync" /\ Q.blkno = P.blkno
          BY <1>4, <4>1, <4>4 DEF BufFits, Locked, Woken
        <5>. QED BY <1>0, <1>7, <4>1, <4>4, <5>1, <5>2 DEF BufFits, Transfers, Locked
      <4>. QED BY <4>1, <4>2, <4>3, <4>4, RefersOrIdle
    <3>. QED BY <3>1, <3>2, <3>3
  <2>2. V[t].at \notin Transfers
    <3>1. CASE T[t].at = "read"
      BY <1>3, <3>1 DEF Transfers, Onward
    <3>2. CASE T[t].at # "read"
      BY <1>3, <3>2, IdleFits DEF Onward
    <3>. QED BY <3>1, <3>2
  <2>3. \A q, p \in Threads :
       (V[q].at \in Transfers /\ V[p].at \in Transfers /\ V[q].buf = V[p].buf) => q = p
    BY <1>1, <1>3, <2>2 DEF PlaceInv, ThreadStep
  <2>4. \A c \in Bufs : \A q \in Q.waiters[c] : V[q].at = "wait" /\ V[q].buf = c
    <3>1. \A c \in Bufs : \A q \in P.waiters[c] : q \in Threads /\ q # t /\ T[q].at = "wait" /\ T[q].buf = c
      BY <1>1, ConstantFacts DEF PlaceInv, Transfers
    <3>2. \A c \in Bufs : \A q \in Q.waiters[c] : q \in P.waiters[c]
      BY <1>7
    <3>. QED BY <1>3, <3>1, <3>2 DEF ThreadStep
  <2>. QED BY <2>1, <2>3, <2>4 DEF PlaceInv
<1>12. HeldInv(Q, H, L)
  BY <1>0, <1>1, <1>4, <1>7 DEF HeldInv, Locked
<1>13. CountInv(Q, T, H, L)
  <2>1. ASSUME NEW c \in Bufs
        PROVE  Q.locks[c] = Cardinality(GivenTo(H, c)) + Cardinality(UsersOf(T, Q.waiters[c], c)) + L[c]
    <3>1. P.locks[c] = Cardinality(GivenTo(H, c)) + Cardinality(UsersOf(T, P.waiters[c], c)) + L[c]
      BY <1>1 DEF CountInv
    <3>2. CASE c # b
      BY <1>7, <3>1, <3>2
    <3>3. CASE c = b
      <4>. DEFINE g == Cardinality(GivenTo(H, b))
                  m == Cardinality(UsersOf(T, P.waiters[b], b))
                  p == Cardinality(UsersOf(T, {}, b))
      <4>1. g \in Nat /\ m \in Nat /\ L[b] \in Nat
        BY <1>1, UsersFacts, GivenFacts
      <4>2. p = m + n /\ P.locks[b] = g + m + L[b] /\ Q.locks[b] = P.locks[b] + n
        BY <1>6, <1>7, <3>1, <3>3
      <4>. HIDE DEF g, m, p
      <4>3. Q.locks[b] = g + p + L[b]
        BY <1>6, <4>1, <4>2
      <4>. QED BY <1>7, <3>3, <4>3 DEF g, p
    <3>. QED BY <3>2, <3>3
  <2>. QED BY <2>1 DEF CountInv
<1>14. CountInv(Q, V, H, L)
  <2>1. \A c \in Bufs : Uses(t, T[t], Q.waiters[c], c) <=> Uses(t, V[t], Q.waiters[c], c)
    <3>1. CASE T[t].at = "read"
      BY <1>3, <1>7, <3>1 DEF Uses, Onward
    <3>2. CASE T[t].at # "read"
      <4>1. \A W, c : ~Uses(t, V[t], W, c)
        BY <1>3, <3>2, IdleFits DEF Onward
      <4>2. \A W, c : ~Uses(t, T[t], W, c)
        BY <3>2 DEF Uses, Transfers
      <4>. QED BY <4>1, <4>2
    <3>. QED BY <3>1, <3>2
  <2>2. \A c \in Bufs : UsersOf(V, Q.waiters[c], c) = UsersOf(T, Q.waiters[c], c)
    BY <1>3, <2>1 DEF UsersOf, ThreadStep
  <2>. QED BY <1>13, <2>2 DEF CountInv
<1>15. LockInv(Q, z)
  <2>1. ASSUME NEW c \in Bufs \ {z} PROVE LockAt(Q, c)
    <3>1. CASE c = b
      <4>1. Q.locks[b] \in Nat /\ (s = "lock" => Q.locks[b] # 0)
        BY <1>0, <1>6, <1>7, <3>1
      <4>. QED BY <1>0, <1>7, <3>1, <4>1 DEF LockAt, Locked
    <3>2. CASE c # b
      BY <1>1, <1>4, <1>7, <3>2 DEF LockInv, LockAt
    <3>. QED BY <3>1, <3>2
  <2>. QED BY <2>1 DEF LockInv, LockAt
<1>16. Loose(Q, z, NULL)
  BY <1>0, <1>4, <1>7 DEF Loose
<1>17. Inv(Q, V, H, L, z, NULL)
  BY <1>8, <1>9, <1>10, <1>11, <1>12, <1>14, <1>15, <1>16 DEF Inv
<1>. QED BY <1>7, <1>17 DEF V

\* A write has succeeded.
LEMMA WrittenStep ==
  ASSUME NEW P, NEW T, NEW H, NEW L, Inv(P, T, H, L, NULL, NULL), NEW t \in Threads, NEW b \in Bufs,
         T[t].at \in {"write", "flush"}, T[t].buf = b, NEW v, Fits(t, v), Idle(v)
  PROVE  LET Q == EndWrite(P, b, TRUE)
         IN Inv(Q, [T EXCEPT ![t] = v], H, L, IF Q.locks[b] = 0 THEN b ELSE NULL, NULL) /\ Q.state[b] = "lock"
<1>. DEFINE k == P.blkno[b]
            Q == EndWrite(P, b, TRUE)
            z == IF Q.locks[b] = 0 THEN b ELSE NULL
<1>1. /\ P \in Pool /\ ContentInv(P, NULL) /\ HashInv(P, NULL) /\ PlaceInv(P, T) /\ NULL \notin Bufs
      /\ P.state \in [Bufs -> States] /\ P.disk \in [Blocks -> BOOLEAN] /\ P.current \in [Bufs -> BOOLEAN]
  BY Parts, ConstantFacts
<1>2. P.state[b] = "write" /\ k \in Blocks
  BY <1>1 DEF PlaceInv, BufFits, HashInv
<1>3. /\ Q \in Pool /\ SameLists(P, Q)
      /\ Q.blkno = P.blkno /\ Q.hashtable = P.hashtable /\ Q.current = P.current
      /\ Q.excused = P.excused /\ Q.panic = P.panic
      /\ Q.disk = [P.disk EXCEPT ![k] = P.current[b]]
      /\ Q.state = [P.state EXCEPT ![b] = "lock"]
      /\ Q.locks = [P.locks EXCEPT ![b] = P.locks[b] + Cardinality(P.waiters[b])]
      /\ Q.waiters = [P.waiters EXCEPT ![b] = {}]
  BY <1>1, <1>2, EndWriteFields, ZenonT(40)
<1>. HIDE DEF Q
<1>4. Q.state[b] = "lock" /\ \A c \in Bufs \ {b} : Q.state[c] = P.state[c]
  BY <1>1, <1>3
<1>5. Q.disk[k] = P.current[b] /\ \A j \in Blocks \ {k} : Q.disk[j] = P.disk[j]
  BY <1>1, <1>2, <1>3
<1>6. ContentInv(Q, NULL)
  <2>. SUFFICES ASSUME NEW j \in Blocks \ Q.excused
                PROVE  /\ \A a, c \in Copies(Q, j, NULL) : a = c
                       /\ \A a \in Copies(Q, j, NULL) : Q.state[a] # "read" => Q.current[a]
                       /\ Q.disk[j] \/ \E a \in Copies(Q, j, NULL) : Q.state[a] \in {"upd", "dirty", "write"}
    BY DEF ContentInv
  <2>1. j \in Blocks \ P.excused /\ Copies(P, j, NULL) \subseteq Bufs
    BY <1>3 DEF Copies
  <2>2. Copies(Q, j, NULL) = Copies(P, j, NULL)
    BY <1>2, <1>3, <1>4 DEF Copies
  <2>3. /\ \A a, c \in Copies(P, j, NULL) : a = c
        /\ \A a \in Copies(P, j, NULL) : P.state[a] # "read" => P.current[a]
        /\ P.disk[j] \/ \E a \in Copies(P, j, NULL) : P.state[a] \in {"upd", "dirty", "write"}
    BY <1>1, <2>1, ContentAt
  <2>4. b \in Copies(P, j, NULL) <=> j = k
    BY <1>1, <1>2 DEF Copies
  <2>5. CASE j = k
    <3>1. Copies(P, j, NULL) = {b} /\ P.current[b]
      BY <1>2, <2>3, <2>4, <2>5
    <3>2. Copies(Q, j, NULL) = {b} /\ Q.current[b] /\ Q.disk[j]
      BY <1>3, <1>5, <2>2, <2>5, <3>1
    <3>. QED BY <3>2
  <2>6. CASE j # k
    <3>1. Q.disk[j] = P.disk[j] /\ \A a \in Copies(P, j, NULL) : Q.current[a] = P.current[a] /\ Q.state[a] = P.state[a]
      BY <1>3, <1>4, <1>5, <2>1, <2>4, <2>6
    <3>. QED BY <2>2, <2>3, <3>1
  <2>. QED BY <2>5, <2>6
<1>7. Woken(P, Q, b, "lock") /\ Settled("lock") /\ Spare(Q, b, "lock", z)
  BY <1>3 DEF Woken, Settled, Spare
<1>8. T[t].at \in Transfers /\ Onward(P, b, T[t], v)
  BY DEF Transfers, Onward
<1>9. Inv(Q, [T EXCEPT ![t] = v], H, L, z, NULL)
  <2>1. Q \in Pool
    BY <1>3
  <2>. HIDE DEF z
  <2>. QED BY <1>6, <1>7, <1>8, <2>1, WokenStep
<1>. QED BY <1>4, <1>9 DEF Q

\* A write has failed.
LEMMA FailedStep ==
  ASSUME NEW P, NEW T, NEW H, NEW L, Inv(P, T, H, L, NULL, NULL), NEW t \in Threads, NEW b \in Bufs,
         T[t].at \in {"write", "flush"}, T[t].buf = b, NEW v, Fits(t, v), Idle(v)
  PROVE  Inv(EndWrite(P, b, FALSE), [T EXCEPT ![t] = v], H, L, NULL, NULL)
<1>. DEFINE k == P.blkno[b]
            Q == EndWrite(P, b, FALSE)
<1>1. /\ P \in Pool /\ ContentInv(P, NULL) /\ HashInv(P, NULL) /\ PlaceInv(P, T) /\ NULL \notin Bufs
      /\ P.state \in [Bufs -> States] /\ P.disk \in [Blocks -> BOOLEAN] /\ P.current \in [Bufs -> BOOLEAN]
  BY Parts, ConstantFacts
<1>2. P.state[b] = "write" /\ k \in Blocks
  BY <1>1 DEF PlaceInv, BufFits, HashInv
<1>3. /\ Q \in Pool /\ SameLists(P, Q)
      /\ Q.blkno = P.blkno /\ Q.hashtable = P.hashtable /\ Q.panic = P.panic
      /\ Q.excused = P.excused \cup {k} /\ Q.disk = [P.disk EXCEPT ![k] = TRUE]
      /\ \A c \in Bufs : Q.current[c] = (P.current[c] \/ P.blkno[c] = k)
      /\ Q.state = [P.state EXCEPT ![b] = "err"]
      /\ Q.locks = [P.locks EXCEPT ![b] = P.locks[b] + Cardinality(P.waiters[b])]
      /\ Q.waiters = [P.waiters EXCEPT ![b] = {}]
  <2>1. P \in Pool /\ P.blkno[b] \in Blocks
    BY <1>1, <1>2
  <2>2. WriteFailed(P, Q, b)
    BY <2>1, FailedWriteFields
  <2>. QED BY <2>2 DEF WriteFailed
<1>. HIDE DEF Q
<1>4. Q.state[b] = "err" /\ \A c \in Bufs \ {b} : Q.state[c] = P.state[c]
  BY <1>1, <1>3
<1>5. /\ \A j \in Blocks \ {k} : Q.disk[j] = P.disk[j]
      /\ \A c \in Bufs : P.current[c] => Q.current[c]
  BY <1>1, <1>3
<1>6. ContentInv(Q, NULL)
  <2>. SUFFICES ASSUME NEW j \in Blocks \ Q.excused
                PROVE  /\ \A a, c \in Copies(Q, j, NULL) : a = c
                       /\ \A a \in Copies(Q, j, NULL) : Q.state[a] # "read" => Q.current[a]
                       /\ Q.disk[j] \/ \E a \in Copies(Q, j, NULL) : Q.state[a] \in {"upd", "dirty", "write"}
    BY DEF ContentInv
  <2>1. j \in Blocks \ P.excused /\ Copies(P, j, NULL) \subseteq Bufs /\ j # k
    BY <1>3 DEF Copies
  <2>2. Copies(Q, j, NULL) = Copies(P, j, NULL)
    BY <1>2, <1>3, <1>4 DEF Copies
  <2>3. /\ \A a, c \in Copies(P, j, NULL) : a = c
        /\ \A a \in Copies(P, j, NULL) : P.state[a] # "read" => P.current[a]
        /\ P.disk[j] \/ \E a \in Copies(P, j, NULL) : P.state[a] \in {"upd", "dirty", "write"}
    BY <1>1, <2>1, ContentAt
  <2>4. b \notin Copies(P, j, NULL)
    BY <2>1 DEF Copies
  <2>5. Q.disk[j] = P.disk[j] /\ \A a \in Copies(P, j, NULL) : (P.current[a] => Q.current[a]) /\ Q.state[a] = P.state[a]
    BY <1>4, <1>5, <2>1, <2>4
  <2>. QED BY <2>2, <2>3, <2>5
<1>7. Woken(P, Q, b, "err") /\ Settled("err") /\ Spare(Q, b, "err", NULL)
  BY <1>3 DEF Woken, Settled, Spare
<1>8. T[t].at \in Transfers /\ Onward(P, b, T[t], v)
  BY DEF Transfers, Onward
<1>9. Inv(Q, [T EXCEPT ![t] = v], H, L, NULL, NULL)
  <2>1. Q \in Pool
    BY <1>3
  <2>. QED BY <1>6, <1>7, <1>8, <2>1, WokenStep
<1>. QED BY <1>9 DEF Q

\* A thread that was reading b goes on as one that waited for it.
HasRead(r, v, b) == r.at = "read" /\ r.buf = b /\ v.at = "wait" /\ v.buf = b /\ v.blk = r.blk

\* A read has ended.
LEMMA ReadStep ==
  ASSUME NEW P, NEW T, NEW H, NEW L, Inv(P, T, H, L, NULL, NULL), NEW t \in Threads, NEW b \in Bufs,
         NEW v, Fits(t, v), HasRead(T[t], v, b),
         NEW s, Settled(s), NEW Q, ReadEnded(P, Q, b, s)
  PROVE  Inv(Q, [T EXCEPT ![t] = v], H, L, NULL, NULL) /\ Q.waiters[b] = {}
<1>. DEFINE k == P.blkno[b]
<1>0. T[t].at = "read" /\ T[t].buf = b /\ v.at = "wait" /\ v.buf = b /\ v.blk = T[t].blk
  BY DEF HasRead
<1>. USE <1>0
<1>1. /\ P \in Pool /\ ContentInv(P, NULL) /\ HashInv(P, NULL) /\ PlaceInv(P, T) /\ NULL \notin Bufs
      /\ P.state \in [Bufs -> States] /\ P.disk \in [Blocks -> BOOLEAN] /\ P.current \in [Bufs -> BOOLEAN]
      /\ LockInv(P, NULL) /\ P.locks \in [Bufs -> Nat] /\ P.waiters \in [Bufs -> SUBSET Users]
  BY Parts, ConstantFacts
<1>2. P.state[b] = "read" /\ k \in Blocks /\ k = T[t].blk /\ P.locks[b] > 0
  BY <1>1 DEF PlaceInv, BufFits, HashInv, LockInv
<1>3. /\ Q \in Pool /\ SameLists(P, Q)
      /\ Q.blkno = P.blkno /\ Q.hashtable = P.hashtable /\ Q.disk = P.disk
      /\ Q.excused = P.excused /\ Q.panic = P.panic
      /\ Q.current = [P.current EXCEPT ![b] = P.disk[k]]
      /\ Q.state = [P.state EXCEPT ![b] = s]
      /\ Q.locks = [P.locks EXCEPT ![b] = P.locks[b] + Cardinality(P.waiters[b])]
      /\ Q.waiters = [P.waiters EXCEPT ![b] = {}]
  BY DEF ReadEnded
<1>4. s \in {"lock", "err"}
  BY DEF Settled
<1>5. Q.state[b] = s /\ \A c \in Bufs \ {b} : Q.state[c] = P.state[c]
  BY <1>1, <1>3
<1>6. Q.current[b] = P.disk[k] /\ \A c \in Bufs \ {b} : Q.current[c] = P.current[c]
  BY <1>1, <1>3
<1>7. ContentInv(Q, NULL)
  <2>. SUFFICES ASSUME NEW j \in Blocks \ Q.excused
                PROVE  /\ \A a, c \in Copies(Q, j, NULL) : a = c
                       /\ \A a \in Copies(Q, j, NULL) : Q.state[a] # "read" => Q.current[a]
                       /\ Q.disk[j] \/ \E a \in Copies(Q, j, NULL) : Q.state[a] \in {"upd", "dirty", "write"}
    BY DEF ContentInv
  <2>1. j \in Blocks \ P.excused /\ Copies(P, j, NULL) \subseteq Bufs
    BY <1>3 DEF Copies
  <2>2. Copies(Q, j, NULL) = Copies(P, j, NULL)
    BY <1>2, <1>3, <1>4, <1>5 DEF Copies
  <2>3. /\ \A a, c \in Copies(P, j, NULL) : a = c
        /\ \A a \in Copies(P, j, NULL) : P.state[a] # "read" => P.current[a]
        /\ P.disk[j] \/ \E a \in Copies(P, j, NULL) : P.state[a] \in {"upd", "dirty", "write"}
    BY <1>1, <2>1, ContentAt
  <2>4. b \in Copies(P, j, NULL) <=> j = k
    BY <1>1, <1>2 DEF Copies
  <2>5. CASE j = k
    <3>1. Copies(P, j, NULL) = {b} /\ P.disk[k]
      BY <1>2, <2>3, <2>4, <2>5
    <3>2. Copies(Q, j, NULL) = {b} /\ Q.current[b] /\ Q.disk[j]
      BY <1>3, <1>6, <2>2, <2>5, <3>1
    <3>. QED BY <3>2
  <2>6. CASE j # k
    <3>1. Q.disk[j] = P.disk[j] /\ \A a \in Copies(P, j, NULL) : Q.current[a] = P.current[a] /\ Q.state[a] = P.state[a]
      BY <1>3, <1>5, <1>6, <2>1, <2>4, <2>6
    <3>. QED BY <2>2, <2>3, <3>1
  <2>. QED BY <2>5, <2>6
<1>8. Woken(P, Q, b, s) /\ Settled(s)
  BY <1>3, <1>4 DEF Woken, Settled
<1>9. T[t].at \in Transfers /\ Onward(P, b, T[t], v)
  BY <1>2 DEF Transfers, Onward
<1>10. Spare(Q, b, s, NULL)
  <2>1. Cardinality(P.waiters[b]) \in Nat
    <3>1. P.waiters[b] \in SUBSET Users
      BY <1>1
    <3>2. IsFiniteSet(P.waiters[b])
      BY <3>1, ConstantFacts, FS_Subset
    <3>. QED BY <3>2, FS_CardinalityType
  <2>2. Q.locks[b] = P.locks[b] + Cardinality(P.waiters[b]) /\ P.locks[b] \in Nat
    BY <1>1, <1>3
  <2>3. Q.locks[b] # 0
    BY <1>2, <2>1, <2>2
  <2>. QED BY <2>3 DEF Spare
<1>11. Inv(Q, [T EXCEPT ![t] = v], H, L, NULL, NULL) /\ Q.waiters[b] = {}
  <2>1. Q \in Pool
    BY <1>3
  <2>. QED BY <1>7, <1>8, <1>9, <1>10, <2>1, WokenStep
<1>. QED BY <1>11

-----------------------------------------------------------------------------
(* The actions.                                                            *)

Rec(at, op, k, b) == [at |-> at, op |-> op, blk |-> k, buf |-> b]
UserRec == Rec("user", "none", NoBlock, NULL)

\* The places of a user, ...
LEMMA UserFits ==
  ASSUME NEW t \in Users
  PROVE  /\ Fits(t, UserRec) /\ Idle(UserRec)
         /\ \A k \in Blocks, b \in Bufs, op \in {"get", "alloc", "inval"} : Fits(t, Rec("wait", op, k, b))
         /\ \A k \in Blocks, b \in Bufs, op \in {"get", "alloc"} :
              Fits(t, Rec("write", op, k, b)) /\ Fits(t, Rec("read", op, k, b))
         /\ \A k \in Blocks, op \in {"get", "alloc"} : Fits(t, Rec("yield", op, k, NULL)) /\ Idle(Rec("yield", op, k, NULL))
<1>1. t # Lazy
  BY ConstantFacts
<1>. QED BY <1>1 DEF Fits, FitsUser, Idle, UserRec, Rec, Thread, Places, Ops

\* ... of the lazy writer ...
LEMMA LazyFits ==
  \A at \in {"idle", "quiet", "nap"} : Fits(Lazy, Rec(at, "none", NoBlock, NULL)) /\ Idle(Rec(at, "none", NoBlock, NULL))
  BY DEF Fits, FitsLazy, Idle, Rec, Thread, Places, Ops

\* ... and of both in flush_buffers and sync_buffers, with the caller's op.
Caller(t, op) == (t \in Users /\ op = "fsync") \/ (t = Lazy /\ op \in {"nap", "late"})

\* The places of a caller of flush_buffers and sync_buffers.
LEMMA CallerFits ==
  ASSUME NEW t, NEW op, Caller(t, op)
  PROVE  /\ t \in Threads
         /\ \A b \in Bufs : Fits(t, Rec("flush", op, NoBlock, b)) /\ Fits(t, Rec("sync", op, NoBlock, b))
         /\ Fits(t, Rec(After[op], "none", NoBlock, NULL)) /\ Idle(Rec(After[op], "none", NoBlock, NULL))
<1>1. CASE t \in Users /\ op = "fsync"
  <2>1. t # Lazy /\ t \in Threads
    BY <1>1, ConstantFacts
  <2>. QED BY <1>1, <2>1 DEF Fits, FitsUser, Idle, Rec, Thread, Places, Ops, After
<1>2. CASE t = Lazy /\ op \in {"nap", "late"}
  BY <1>2, ConstantFacts DEF Fits, FitsLazy, Idle, Rec, Thread, Places, Ops, After
<1>. QED BY <1>1, <1>2 DEF Caller

\* T and V differ at most in thread t.
SameBut(T, V, t) == \A r : [T EXCEPT ![t] = r] = [V EXCEPT ![t] = r]

\* Setting a thread's record twice keeps the second.
LEMMA Overwrite ==
  ASSUME NEW T \in [Threads -> Thread], NEW t \in Threads, NEW r
  PROVE  SameBut([T EXCEPT ![t] = r], T, t) /\ [T EXCEPT ![t] = r][t] = r
  BY DEF SameBut

\* lookup_buffer has returned b with a lock on it.
LEMMA FoundStep ==
  ASSUME NEW P, NEW T, NEW H, NEW L, Inv(P, T, H, L, NULL, NULL), NEW t \in Users, NEW b \in Bufs, NEW k,
         T[t].at = "wait", T[t].buf = b, T[t].blk = k, t \notin P.waiters[b]
  PROVE  LET U == [T EXCEPT ![t] = UserRec]
             K == [H EXCEPT ![t][b] = @ + 1]
         IN /\ Inv(release_buffer(P, b), U, H, L, NULL, NULL)
            /\ P.state[b] # "err" => Inv(P, U, K, L, NULL, NULL) /\ Inv(Forget(P, k), U, K, L, NULL, NULL)
            /\ Inv(release_buffer(Forget(mark_buffer_invalid(P, b), k), b), U, H, L, NULL, NULL)
<1>1. P \in Pool /\ PlaceInv(P, T) /\ HashInv(P, NULL)
  BY Parts
<1>2. t \in Threads /\ Fits(t, UserRec) /\ Idle(UserRec)
  BY UserFits, ConstantFacts
<1>3. P.state[b] \in Locked \cup {"err"} /\ P.blkno[b] = k
  BY <1>1, <1>2 DEF PlaceInv, BufFits
<1>4. k \in Blocks
  BY <1>1, <1>3 DEF HashInv, Locked
<1>5. Inv(release_buffer(P, b), [T EXCEPT ![t] = UserRec], H, L, NULL, NULL)
  BY <1>2, UnuseStep
<1>6. ASSUME P.state[b] # "err"
      PROVE  /\ Inv(P, [T EXCEPT ![t] = UserRec], [H EXCEPT ![t][b] = @ + 1], L, NULL, NULL)
             /\ Inv(Forget(P, k), [T EXCEPT ![t] = UserRec], [H EXCEPT ![t][b] = @ + 1], L, NULL, NULL)
  <2>1. P.state[b] \in Locked
    BY <1>3, <1>6
  <2>2. Inv(P, [T EXCEPT ![t] = UserRec], [H EXCEPT ![t][b] = @ + 1], L, NULL, NULL)
    BY <1>2, <2>1, HoldStep
  <2>. QED BY <1>4, <2>2, ForgetStep
<1>7. Inv(release_buffer(Forget(mark_buffer_invalid(P, b), k), b), [T EXCEPT ![t] = UserRec], H, L, NULL, NULL)
  <2>. DEFINE Q == Forget(mark_buffer_invalid(P, b), k)
  <2>1. Inv(Q, T, H, L, NULL, NULL) /\ Q.waiters = P.waiters
    BY <1>3, InvalidStep
  <2>. HIDE DEF Q
  <2>2. Inv(release_buffer(Q, b), [T EXCEPT ![t] = UserRec], H, L, NULL, NULL)
    BY <1>2, <2>1, UnuseStep
  <2>. QED BY <2>2 DEF Q
<1>. QED BY <1>5, <1>6, <1>7

\* get_new_buffer has returned b.
LEMMA NewBufferStep ==
  ASSUME NEW P, NEW T, NEW H, NEW L, NEW b \in Bufs, Inv(P, T, H, L, b, b), NEW t \in Users, Idle(T[t]),
         NEW k \in Blocks
  PROVE  LET R == IF P.hashtable[k] = <<>> THEN P ELSE Excuse(P, k)
             Q == add_lock(insert_into_hashtable(R, b, k), b)
         IN /\ Inv(StartRead(Q, b), [T EXCEPT ![t] = Rec("read", "get", k, b)], H, L, NULL, NULL)
            /\ Inv(Forget(change_state(Q, b, "lock"), k), [T EXCEPT ![t] = UserRec], [H EXCEPT ![t][b] = @ + 1],
                   L, NULL, NULL)
<1>. DEFINE R == IF P.hashtable[k] = <<>> THEN P ELSE Excuse(P, k)
            Q == add_lock(insert_into_hashtable(R, b, k), b)
            A == change_state(Q, b, "read")
            B == [A EXCEPT !.ioactive = TRUE]
            C == change_state(Q, b, "lock")
            D == Forget(C, k)
            a == Rec("read", "get", k, b)
            d == Rec("wait", "get", k, b)
<1>0. t \in Threads /\ "read" \in States /\ "lock" \in States
  BY ConstantFacts DEF States
<1>1. Inv(R, T, H, L, b, b) /\ R \in Pool /\ Fresh(R, k)
  <2>1. CASE P.hashtable[k] = <<>>
    <3>1. R = P
      BY <2>1
    <3>2. P \in Pool
      BY Parts
    <3>. QED BY <2>1, <3>1, <3>2 DEF Fresh
  <2>2. CASE P.hashtable[k] # <<>>
    <3>1. R = Excuse(P, k)
      BY <2>2
    <3>2. P \in Pool
      BY Parts
    <3>3. Fresh(Excuse(P, k), k)
      BY <3>2, ExcusedFresh
    <3>4. Inv(Excuse(P, k), T, H, L, b, b)
      BY ForgetStep
    <3>5. Excuse(P, k) \in Pool
      BY <3>4, Parts
    <3>. QED BY <3>1, <3>3, <3>4, <3>5
  <2>. QED BY <2>1, <2>2
<1>. HIDE DEF R
<1>2. /\ Q \in Pool /\ SameLists(R, Q) /\ Q.panic = R.panic /\ Q.waiters = R.waiters /\ Q.excused = R.excused
      /\ Q.state = R.state /\ Q.locks = [R.locks EXCEPT ![b] = R.locks[b] + 1]
      /\ Q.blkno = [R.blkno EXCEPT ![b] = k]
      /\ Q.hashtable = [R.hashtable EXCEPT ![k] = <<b>> \o R.hashtable[k]]
      /\ Q.current = R.current /\ Q.disk = R.disk
  BY <1>1, InsertFields
<1>. HIDE DEF Q
<1>3. /\ Fits(t, a) /\ a.buf = b /\ a.blk = k /\ a.at = "read"
      /\ Fits(t, d) /\ d.buf = b /\ d.blk = k /\ d.at = "wait"
  BY UserFits DEF Rec
<1>. HIDE DEF a, d
<1>4. Inv(StartRead(Q, b), [T EXCEPT ![t] = a], H, L, NULL, NULL)
  <2>1. /\ A \in Pool /\ SameCache(Q, A) /\ SameLists(Q, A)
        /\ A.state = [Q.state EXCEPT ![b] = "read"] /\ A.locks = Q.locks /\ A.waiters = Q.waiters
    BY <1>0, <1>2, ChangeState
  <2>. HIDE DEF A
  <2>2. Inserted(R, A, b, k, "read") /\ NewPlace("read", a)
    BY <1>2, <1>3, <2>1 DEF SameCache, SameLists, Richer, Inserted, NewPlace
  <2>3. Inv(A, [T EXCEPT ![t] = a], H, L, NULL, NULL)
    BY <1>1, <1>3, <2>2, NewStep
  <2>4. Inv([A EXCEPT !.ioactive = TRUE], [T EXCEPT ![t] = a], H, L, NULL, NULL)
    BY <2>3, FlagStep
  <2>. QED BY <2>4 DEF StartRead, A
<1>5. Inv(Forget(C, k), [T EXCEPT ![t] = UserRec], [H EXCEPT ![t][b] = @ + 1], L, NULL, NULL)
  <2>1. /\ C \in Pool /\ SameCache(Q, C) /\ SameLists(Q, C)
        /\ C.state = [Q.state EXCEPT ![b] = "lock"] /\ C.locks = Q.locks /\ C.waiters = Q.waiters
    BY <1>0, <1>2, ChangeState
  <2>. HIDE DEF C
  <2>2. /\ D \in Pool /\ SameLists(C, D) /\ D.state = C.state /\ D.locks = C.locks /\ D.waiters = C.waiters
        /\ D.blkno = C.blkno /\ D.hashtable = C.hashtable /\ D.panic = C.panic /\ D.excused = C.excused
        /\ \A c \in Bufs : D.current[c] = (C.current[c] \/ C.blkno[c] = k)
        /\ D.disk = [C.disk EXCEPT ![k] = TRUE]
    BY <2>1, ForgetFields
  <2>. HIDE DEF D
  <2>3. R.state \in [Bufs -> States] /\ R.blkno \in [Bufs -> Blocks \cup {NoBlock}] /\ R.disk \in [Blocks -> BOOLEAN]
    BY <1>1 DEF Pool
  <2>4. C.blkno[b] = k /\ C.current = R.current /\ C.disk = R.disk
    BY <1>2, <2>1, <2>3 DEF SameCache
  <2>5. Richer(R, D, b) /\ D.current[b]
    BY <2>2, <2>3, <2>4, ZenonT(40) DEF Richer
  <2>6. Inserted(R, D, b, k, "lock") /\ NewPlace("lock", d) /\ D.state = [R.state EXCEPT ![b] = "lock"]
    BY <1>2, <1>3, <2>1, <2>2, <2>5 DEF SameCache, SameLists, Inserted, NewPlace
  <2>. DEFINE V == [T EXCEPT ![t] = d]
  <2>7. Inv(D, V, H, L, NULL, NULL) /\ t \notin D.waiters[b]
    BY <1>1, <1>3, <2>6, NewStep
  <2>8. T \in [Threads -> Thread]
    BY Parts
  <2>9. SameBut(V, T, t) /\ V[t] = d
    BY <1>0, <2>8, Overwrite
  <2>10. D.state[b] \in Locked
    BY <2>3, <2>6 DEF Locked
  <2>. HIDE DEF V
  <2>11. Inv(D, [V EXCEPT ![t] = UserRec], [H EXCEPT ![t][b] = @ + 1], L, NULL, NULL)
    BY <1>3, <2>7, <2>9, <2>10, UserFits, HoldStep
  <2>12. [V EXCEPT ![t] = UserRec] = [T EXCEPT ![t] = UserRec]
    BY <2>9 DEF SameBut
  <2>. QED BY <2>11, <2>12 DEF D
<1>. QED BY <1>4, <1>5 DEF R, Q, C, a

-----------------------------------------------------------------------------
(* The rest of an action, from the point where its first operations have   *)
(* left pool P and threads T, which differs from thr in thread t only.     *)

\* The next state, given as values.
LEMMA GoodNext ==
  ASSUME NEW Q, NEW U, NEW K, NEW M, Inv(Q, U, K, M, NULL, NULL),
         pool' = Q, thr' = U, held' = K, leaked' = M
  PROVE  Good'
  BY DEF Good

\* Go, on top of an earlier change of the same thread.
LEMMA GoRec ==
  ASSUME NEW T, NEW t, SameBut(T, thr, t), NEW at, NEW op, NEW k, NEW b, Go(t, at, op, k, b)
  PROVE  thr' = [T EXCEPT ![t] = Rec(at, op, k, b)]
  BY DEF Go, Rec, SameBut

\* The rest of lookup_buffer's callers when the buffer is cached.
LEMMA FoundGood ==
  ASSUME NEW P, NEW T, Inv(P, T, held, leaked, NULL, NULL), NEW t \in Users, NEW b \in Bufs, NEW k, NEW op,
         T[t].at = "wait", T[t].buf = b, T[t].blk = k, t \notin P.waiters[b], SameBut(T, thr, t),
         Found(P, t, op, k, b), leaked' = leaked
  PROVE  Good'
<1>. DEFINE U == [T EXCEPT ![t] = UserRec]
            K == [held EXCEPT ![t][b] = @ + 1]
            Q == release_buffer(Forget(mark_buffer_invalid(P, b), k), b)
<1>1. /\ Inv(release_buffer(P, b), U, held, leaked, NULL, NULL)
      /\ P.state[b] # "err" => Inv(P, U, K, leaked, NULL, NULL) /\ Inv(Forget(P, k), U, K, leaked, NULL, NULL)
      /\ Inv(Q, U, held, leaked, NULL, NULL)
  BY FoundStep
<1>2. thr' = U
  BY GoRec DEF Found, Return, UserRec
<1>. HIDE DEF U
<1>3. \/ pool' = release_buffer(P, b) /\ held' = held
      \/ P.state[b] # "err" /\ held' = K /\ (pool' = P \/ pool' = Forget(P, k))
      \/ pool' = Q /\ held' = held
  BY DEF Found, Hold
<1>. HIDE DEF Q, K
<1>. QED BY <1>1, <1>2, <1>3, GoodNext

\* The rest of get_buffer and alloc_buffer when it is not.
LEMMA NewBufferGood ==
  ASSUME NEW P, NEW T, NEW b \in Bufs, Inv(P, T, held, leaked, b, b), NEW t \in Users, Idle(T[t]), NEW k \in Blocks,
         NEW op, SameBut(T, thr, t), NewBuffer(P, t, op, k, b), leaked' = leaked
  PROVE  Good'
<1>. DEFINE R == IF P.hashtable[k] = <<>> THEN P ELSE Excuse(P, k)
            Q == add_lock(insert_into_hashtable(R, b, k), b)
            C == Forget(change_state(Q, b, "lock"), k)
            U == [T EXCEPT ![t] = UserRec]
            V == [T EXCEPT ![t] = Rec("read", "get", k, b)]
            K == [held EXCEPT ![t][b] = @ + 1]
<1>1. /\ Inv(StartRead(Q, b), V, held, leaked, NULL, NULL)
      /\ Inv(C, U, K, leaked, NULL, NULL)
  BY NewBufferStep
<1>2. \/ pool' = StartRead(Q, b) /\ held' = held /\ Go(t, "read", "get", k, b)
      \/ pool' = C /\ held' = K /\ Return(t)
  BY DEF NewBuffer, Hold
<1>. HIDE DEF Q, C, K
<1>3. CASE pool' = StartRead(Q, b) /\ held' = held /\ Go(t, "read", "get", k, b)
  <2>1. thr' = V
    BY <1>3, GoRec
  <2>. QED BY <1>1, <1>3, <2>1, GoodNext
<1>4. CASE pool' = C /\ held' = K /\ Return(t)
  <2>1. thr' = U
    BY <1>4, GoRec DEF Return, UserRec
  <2>. QED BY <1>1, <1>4, <2>1, GoodNext
<1>. QED BY <1>2, <1>3, <1>4

\* The first entry of a list is a buffer.
LEMMA HeadBufs ==
  ASSUME NEW s \in Seq(Bufs), s # <<>>
  PROVE  Head(s) \in Bufs
  OBVIOUS

\* One round of get_new_buffer.
LEMMA GetNewGood ==
  ASSUME NEW P, Inv(P, thr, held, leaked, NULL, NULL), NEW t \in Users, Idle(thr[t]), NEW k \in Blocks,
         NEW op \in {"get", "alloc"}, get_new_buffer(P, t, op, k), leaked' = leaked
  PROVE  Good'
<1>0. t \in Threads /\ SameBut(thr, thr, t)
  BY ConstantFacts DEF SameBut
<1>1. CASE TakeFree(P, t, op, k)
  <2>. DEFINE b == Head(P.freelist)
              Q == [P EXCEPT !.freelist = Tail(@)]
  <2>1. P.freelist # <<>> /\ NewBuffer(Q, t, op, k, b)
    BY <1>1 DEF TakeFree
  <2>2. b \in Bufs /\ Inv(Q, thr, held, leaked, b, b)
    BY <2>1, PopFree
  <2>. HIDE DEF b, Q
  <2>. QED BY <1>0, <2>1, <2>2, NewBufferGood
<1>2. CASE TakeClean(P, t, op, k)
  <2>. DEFINE b == Head(P.clean)
              Q == [P EXCEPT !.clean = Tail(@)]
  <2>1. P.clean # <<>> /\ NewBuffer(remove_from_hashtable(Q, b), t, op, k, b)
    BY <1>2 DEF TakeClean
  <2>2. b \in Bufs /\ Inv(Q, thr, held, leaked, b, NULL) /\ Q.state[b] = "clean"
    BY <2>1, PopClean
  <2>. HIDE DEF b, Q
  <2>3. Inv(remove_from_hashtable(Q, b), thr, held, leaked, b, b)
    BY <2>2, UnhashStep
  <2>. QED BY <1>0, <2>1, <2>2, <2>3, NewBufferGood
<1>3. CASE CleanDirty(P, t, op, k)
  <2>. DEFINE b == Head(P.dirty)
              r == Rec("write", op, k, b)
              V == [thr EXCEPT ![t] = r]
              Q == StartWrite(P, b)
  <2>1. /\ P.dirty # <<>> /\ held' = held /\ pool' = [Q EXCEPT !.ioactive = TRUE]
        /\ Go(t, "write", op, k, b)
    BY <1>3 DEF CleanDirty
  <2>2. b \in Bufs
    BY <2>1, Parts, HeadBufs
  <2>3. Fits(t, r) /\ r.at \in {"write", "flush"} /\ r.buf = b
    BY <2>2, UserFits DEF Rec
  <2>4. thr' = V
    BY <1>0, <2>1, GoRec
  <2>. HIDE DEF r
  <2>5. Inv(Q, V, held, leaked, NULL, NULL)
    BY <1>0, <2>1, <2>3, WriteStep
  <2>. HIDE DEF Q, V
  <2>6. Inv([Q EXCEPT !.ioactive = TRUE], V, held, leaked, NULL, NULL)
    BY <2>5, FlagStep
  <2>. QED BY <2>1, <2>4, <2>6, GoodNext
<1>4. CASE Yield(P, t, op, k)
  <2>. DEFINE r == Rec("yield", op, k, NULL)
              V == [thr EXCEPT ![t] = r]
  <2>1. held' = held /\ pool' = P /\ Go(t, "yield", op, k, NULL)
    BY <1>4 DEF Yield
  <2>2. thr' = V
    BY <1>0, <2>1, GoRec
  <2>3. Fits(t, r) /\ Idle(r)
    BY UserFits
  <2>. HIDE DEF r
  <2>4. Inv(P, V, held, leaked, NULL, NULL)
    BY <1>0, <2>3, IdleStep
  <2>. QED BY <2>1, <2>2, <2>4, GoodNext
<1>. QED BY <1>1, <1>2, <1>3, <1>4 DEF get_new_buffer

\* sync_buffers returns to its caller.
LEMMA FinishGood ==
  ASSUME NEW P, NEW T, Inv(P, T, held, leaked, NULL, NULL), NEW t, NEW op, Caller(t, op), Idle(T[t]),
         SameBut(T, thr, t), Finish(P, t, op), held' = held, leaked' = leaked
  PROVE  Good'
<1>. DEFINE r == Rec(After[op], "none", NoBlock, NULL)
            V == [T EXCEPT ![t] = r]
<1>1. t \in Threads /\ Fits(t, r) /\ Idle(r)
  BY CallerFits
<1>2. pool' = P /\ thr' = V
  BY GoRec DEF Finish
<1>. HIDE DEF r
<1>3. Inv(P, V, held, leaked, NULL, NULL)
  BY <1>1, IdleStep
<1>. QED BY <1>2, <1>3, GoodNext

\* sync_buffers from one buffer to the next.
LEMMA SyncGood ==
  ASSUME NEW P, NEW T, Inv(P, T, held, leaked, NULL, NULL), NEW t, NEW op, Caller(t, op), Idle(T[t]),
         SameBut(T, thr, t), NEW i, SyncFrom(P, t, op, i), held' = held, leaked' = leaked
  PROVE  Good'
<1>1. CASE Finish(P, t, op)
  BY <1>1, FinishGood
<1>2. CASE ~Finish(P, t, op)
  <2>1. PICK b \in UpdatedFrom(P, i) : pool' = add_lock(P, b) /\ Go(t, "sync", op, NoBlock, b)
    BY <1>2 DEF SyncFrom
  <2>. DEFINE r == Rec("sync", op, NoBlock, b)
              V == [T EXCEPT ![t] = r]
  <2>2. b \in Bufs /\ P.state[b] = "upd"
    BY <2>1 DEF UpdatedFrom
  <2>3. t \in Threads /\ Fits(t, r) /\ r.at = "sync" /\ r.buf = b
    BY <2>2, CallerFits DEF Rec
  <2>4. thr' = V
    BY <2>1, GoRec
  <2>. HIDE DEF r
  <2>5. Inv(add_lock(P, b), V, held, leaked, NULL, NULL)
    BY <2>2, <2>3, SyncStep
  <2>. QED BY <2>1, <2>4, <2>5, GoodNext
<1>. QED BY <1>1, <1>2

\* sync_buffers from its start.
LEMMA SyncBuffersGood ==
  ASSUME NEW P, NEW T, Inv(P, T, held, leaked, NULL, NULL), NEW t, NEW op, Caller(t, op), Idle(T[t]),
         SameBut(T, thr, t), sync_buffers(P, t, op), held' = held, leaked' = leaked
  PROVE  Good'
<1>. DEFINE v == P.ioactive /\ UpdatedFrom(P, 1) = {}
            Q == [P EXCEPT !.ioactive = v]
<1>1. SyncFrom(Q, t, op, 1)
  BY DEF sync_buffers
<1>2. v \in BOOLEAN
  OBVIOUS
<1>. HIDE DEF v
<1>3. Inv(Q, T, held, leaked, NULL, NULL)
  BY <1>2, FlagStep
<1>. HIDE DEF Q
<1>. QED BY <1>1, <1>3, SyncGood

\* A thread in flush_buffers.
MayFlush(t, op) == \A b \in Bufs : Fits(t, Rec("flush", op, NoBlock, b))

\* flush_buffers starts a write.
LEMMA FlushGood ==
  ASSUME NEW P, NEW T, Inv(P, T, held, leaked, NULL, NULL), P.dirty # <<>>, NEW t \in Threads, Idle(T[t]),
         SameBut(T, thr, t), NEW op, MayFlush(t, op),
         pool' = StartWrite(P, Head(P.dirty)), Go(t, "flush", op, NoBlock, Head(P.dirty)),
         held' = held, leaked' = leaked
  PROVE  Good'
<1>. DEFINE b == Head(P.dirty)
            r == Rec("flush", op, NoBlock, b)
            V == [T EXCEPT ![t] = r]
<1>1. b \in Bufs
  BY Parts, HeadBufs
<1>2. Fits(t, r) /\ r.at \in {"write", "flush"} /\ r.buf = b
  BY <1>1 DEF Rec, MayFlush
<1>3. thr' = V
  BY GoRec
<1>. HIDE DEF r
<1>4. Inv(StartWrite(P, b), V, held, leaked, NULL, NULL)
  BY <1>2, WriteStep
<1>. QED BY <1>3, <1>4, GoodNext

\* flush_buffers, and sync_buffers when nothing is dirty.
LEMMA FlushNextGood ==
  ASSUME NEW P, NEW T, Inv(P, T, held, leaked, NULL, NULL), NEW t, NEW op, Caller(t, op), Idle(T[t]),
         SameBut(T, thr, t), FlushNext(P, t, op), held' = held, leaked' = leaked
  PROVE  Good'
<1>1. CASE sync_buffers(P, t, op)
  BY <1>1, SyncBuffersGood
<1>2. CASE ~sync_buffers(P, t, op)
  <2>1. P.dirty # <<>> /\ pool' = StartWrite(P, Head(P.dirty)) /\ Go(t, "flush", op, NoBlock, Head(P.dirty))
    BY <1>2 DEF FlushNext
  <2>2. t \in Threads /\ MayFlush(t, op)
    BY CallerFits DEF MayFlush
  <2>. QED BY <2>1, <2>2, FlushGood
<1>. QED BY <1>1, <1>2

\* flush_buffers followed by sync_buffers.
LEMMA FlushSyncGood ==
  ASSUME NEW P, NEW T, Inv(P, T, held, leaked, NULL, NULL), NEW t, NEW op, Caller(t, op), Idle(T[t]),
         SameBut(T, thr, t), flush_and_sync(P, t, op), held' = held, leaked' = leaked
  PROVE  Good'
<1>. DEFINE Q == [P EXCEPT !.ioactive = FALSE]
<1>1. FlushNext(Q, t, op)
  BY DEF flush_and_sync
<1>2. Inv(Q, T, held, leaked, NULL, NULL)
  BY FlagStep
<1>. HIDE DEF Q
<1>. QED BY <1>1, <1>2, FlushNextGood

\* check_sync.
LEMMA CheckSyncGood ==
  ASSUME NEW P, NEW T, Inv(P, T, held, leaked, NULL, NULL), NEW op \in {"nap", "late"}, Idle(T[Lazy]),
         SameBut(T, thr, Lazy), check_sync(P, op), held' = held, leaked' = leaked
  PROVE  Good'
<1>1. Caller(Lazy, op)
  BY DEF Caller
<1>2. CASE Finish(P, Lazy, op)
  BY <1>1, <1>2, FinishGood
<1>3. CASE flush_and_sync(P, Lazy, op)
  BY <1>1, <1>3, FlushSyncGood
<1>. QED BY <1>2, <1>3 DEF check_sync

\* check_sync after an interrupted or failed flush.
LEMMA RearmGood ==
  ASSUME NEW P, NEW T, Inv(P, T, held, leaked, NULL, NULL), Idle(T[Lazy]), SameBut(T, thr, Lazy),
         check_sync(Rearm(P), "late"), held' = held, leaked' = leaked
  PROVE  Good'
<1>1. Inv(Rearm(P), T, held, leaked, NULL, NULL)
  BY FlagStep DEF Rearm
<1>. QED BY <1>1, CheckSyncGood

\* flush_buffers of the lazy writer.
LEMMA LazyFlushGood ==
  ASSUME NEW P, NEW T, Inv(P, T, held, leaked, NULL, NULL), Idle(T[Lazy]), SameBut(T, thr, Lazy),
         LazyFlush(P), held' = held, leaked' = leaked
  PROVE  Good'
<1>1. CASE check_sync(P, "late")
  BY <1>1, CheckSyncGood
<1>2. CASE check_sync(Rearm(P), "late")
  BY <1>2, RearmGood
<1>3. CASE ~check_sync(P, "late") /\ ~check_sync(Rearm(P), "late")
  <2>1. P.dirty # <<>> /\ pool' = StartWrite(P, Head(P.dirty)) /\ Go(Lazy, "flush", "lazy", NoBlock, Head(P.dirty))
    BY <1>3 DEF LazyFlush
  <2>2. Lazy \in Threads /\ MayFlush(Lazy, "lazy")
    BY ConstantFacts DEF MayFlush, Fits, FitsLazy, Rec, Thread, Places, Ops
  <2>. QED BY <2>1, <2>2, FlushGood
<1>. QED BY <1>1, <1>2, <1>3

-----------------------------------------------------------------------------
(* One lemma for each action.                                              *)

\* A thread that is at a place that refers to a buffer.
LEMMA ThreadAt ==
  ASSUME Good, NEW t \in Threads
  PROVE  /\ thr[t].at \in {"wait", "write", "read", "flush", "sync"} => thr[t].buf \in Bufs
         /\ thr[t].at \in {"wait", "write", "yield", "read"} => thr[t].blk \in Blocks /\ t \in Users
         /\ thr[t].at \in {"write", "yield"} => thr[t].op \in {"get", "alloc"}
         /\ thr[t].at = "user" => t \in Users
         /\ thr[t].at \in {"user", "idle", "quiet", "nap", "yield"} => Idle(thr[t])
         /\ thr[t].at = "flush" /\ thr[t].op # "lazy" => Caller(t, thr[t].op)
         /\ thr[t].at = "flush" /\ thr[t].op = "lazy" => t = Lazy
         /\ thr[t].at = "sync" => Caller(t, thr[t].op)
         /\ SameBut(thr, thr, t)
<1>1. Fits(t, thr[t])
  BY Parts DEF Good
<1>2. t \in Users \/ t = Lazy
  BY DEF Threads
<1>3. SameBut(thr, thr, t)
  BY DEF SameBut
<1>4. CASE t = Lazy
  BY <1>1, <1>3, <1>4 DEF Fits, FitsLazy, Caller, Idle
<1>5. CASE t # Lazy
  BY <1>1, <1>2, <1>3, <1>5 DEF Fits, FitsUser, Caller, Idle
<1>. QED BY <1>4, <1>5

\* get_buffer, alloc_buffer and invalidate_buffer up to their first wait.
LEMMA GoodLookup ==
  ASSUME Good, NEW t \in Users, NEW op \in {"get", "alloc", "inval"}, NEW k \in Blocks, Lookup(t, op, k)
  PROVE  Good'
<1>1. Inv(pool, thr, held, leaked, NULL, NULL) /\ leaked' = leaked
  BY DEF Good, Lookup
<1>2. t \in Threads /\ thr[t].at = "user"
  BY ConstantFacts DEF Lookup, At
<1>3. Idle(thr[t]) /\ SameBut(thr, thr, t)
  BY <1>2, ThreadAt
<1>4. CASE pool.hashtable[k] = <<>>
  <2>1. op \in {"get", "alloc"} /\ get_new_buffer(pool, t, op, k)
    BY <1>4 DEF Lookup
  <2>. QED BY <1>1, <1>3, <2>1, GetNewGood
<1>5. CASE pool.hashtable[k] # <<>>
  <2>. DEFINE b == Head(pool.hashtable[k])
              r == Rec("wait", op, k, b)
              V == [thr EXCEPT ![t] = r]
  <2>1. b \in Copies(pool, k, NULL)
    <3>1. HashInv(pool, NULL) /\ pool.hashtable \in [Blocks -> Seq(Bufs)]
      BY <1>1, Parts
    <3>2. Lists(pool.hashtable[k], Copies(pool, k, NULL)) /\ pool.hashtable[k] \in Seq(Bufs)
      BY <3>1 DEF HashInv
    <3>. QED BY <1>5, <3>2, TailLists
  <2>2. b \in Bufs /\ pool.blkno[b] = k /\ pool.state[b] # "free"
    BY <2>1 DEF Copies
  <2>3. Fits(t, r) /\ r.at = "wait" /\ r.buf = b /\ r.blk = k
    BY <2>2, UserFits DEF Rec
  <2>4. \/ /\ pool.state[b] \in {"read", "write"}
           /\ pool' = [pool EXCEPT !.waiters[b] = @ \cup {t}]
           /\ Go(t, "wait", op, k, b)
           /\ held' = held
        \/ /\ pool.state[b] \notin {"read", "write"}
           /\ Found(lock_buffer(pool, b), t, op, k, b)
    BY <1>5 DEF Lookup
  <2>. HIDE DEF b
  <2>5. CASE /\ pool.state[b] \in {"read", "write"}
             /\ pool' = [pool EXCEPT !.waiters[b] = @ \cup {t}]
             /\ Go(t, "wait", op, k, b)
             /\ held' = held
    <3>1. thr' = V
      BY <1>3, <2>5, GoRec
    <3>. HIDE DEF r
    <3>2. Inv([pool EXCEPT !.waiters[b] = @ \cup {t}], V, held, leaked, NULL, NULL)
      BY <1>1, <1>3, <2>2, <2>3, <2>5, WaitStep
    <3>. QED BY <1>1, <2>5, <3>1, <3>2, GoodNext
  <2>6. CASE /\ pool.state[b] \notin {"read", "write"}
             /\ Found(lock_buffer(pool, b), t, op, k, b)
    <3>. DEFINE Q == lock_buffer(pool, b)
    <3>. HIDE DEF r
    <3>1. Inv(Q, V, held, leaked, NULL, NULL) /\ t \notin Q.waiters[b]
      BY <1>1, <1>3, <2>2, <2>3, <2>6, LockStep
    <3>2. SameBut(V, thr, t) /\ V[t] = r
      <4>1. thr \in [Threads -> Thread]
        BY <1>1, Parts
      <4>. QED BY <1>2, <4>1, Overwrite
    <3>3. Found(Q, t, op, k, b)
      BY <2>6
    <3>. HIDE DEF Q, V
    <3>. QED BY <1>1, <2>2, <2>3, <3>1, <3>2, <3>3, FoundGood
  <2>. QED BY <2>4, <2>5, <2>6
<1>. QED BY <1>4, <1>5

\* A thread woken in wait_for_buffer goes on.
LEMMA GoodWaitOver ==
  ASSUME Good, NEW t \in Threads, WaitOver(t)
  PROVE  Good'
<1>1. Inv(pool, thr, held, leaked, NULL, NULL) /\ leaked' = leaked
  BY DEF Good, WaitOver
<1>2. thr[t].at = "wait" /\ t \notin pool.waiters[thr[t].buf] /\ Found(pool, t, thr[t].op, thr[t].blk, thr[t].buf)
  BY DEF WaitOver, At
<1>3. t \in Users /\ thr[t].buf \in Bufs /\ SameBut(thr, thr, t)
  BY <1>2, ThreadAt
<1>. QED BY <1>1, <1>2, <1>3, FoundGood

\* get_new_buffer tries again.
LEMMA GoodRetry ==
  ASSUME Good, NEW t \in Threads, Retry(t)
  PROVE  Good'
<1>1. Inv(pool, thr, held, leaked, NULL, NULL) /\ leaked' = leaked
  BY DEF Good, Retry
<1>2. thr[t].at = "yield" /\ get_new_buffer(pool, t, thr[t].op, thr[t].blk)
  BY DEF Retry, At
<1>3. t \in Users /\ thr[t].blk \in Blocks /\ thr[t].op \in {"get", "alloc"} /\ Idle(thr[t])
  BY <1>2, ThreadAt
<1>. QED BY <1>1, <1>2, <1>3, GetNewGood

\* get_new_buffer after its write.
LEMMA GoodWritten ==
  ASSUME Good, NEW t \in Threads, NEW ok \in BOOLEAN, Written(t, ok)
  PROVE  Good'
<1>. DEFINE b == thr[t].buf
            k == thr[t].blk
            op == thr[t].op
            r == Rec("yield", op, k, NULL)
            V == [thr EXCEPT ![t] = r]
            Q == EndWrite(pool, b, TRUE)
<1>1. Inv(pool, thr, held, leaked, NULL, NULL) /\ leaked' = leaked
  BY DEF Good, Written
<1>2. thr[t].at = "write"
  BY DEF Written, At
<1>3. t \in Users /\ b \in Bufs /\ k \in Blocks /\ op \in {"get", "alloc"} /\ SameBut(thr, thr, t)
  BY <1>2, ThreadAt
<1>4. Fits(t, r) /\ Idle(r)
  BY <1>3, UserFits
<1>5. SameBut(V, thr, t) /\ V[t] = r
  <2>1. thr \in [Threads -> Thread]
    BY <1>1, Parts
  <2>. HIDE DEF r
  <2>. QED BY <2>1, Overwrite
<1>6. CASE ok /\ Q.locks[b] = 0
  <2>1. NewBuffer(remove_from_hashtable(Q, b), t, op, k, b)
    BY <1>6 DEF Written
  <2>. HIDE DEF r
  <2>2. Inv(Q, V, held, leaked, IF Q.locks[b] = 0 THEN b ELSE NULL, NULL) /\ Q.state[b] = "lock"
    BY <1>1, <1>2, <1>3, <1>4, WrittenStep
  <2>3. Inv(Q, V, held, leaked, b, NULL) /\ Q.state[b] = "lock"
    BY <1>6, <2>2
  <2>. HIDE DEF Q, V
  <2>4. Inv(remove_from_hashtable(Q, b), V, held, leaked, b, b)
    BY <1>3, <2>3, UnhashStep
  <2>5. Idle(V[t])
    BY <1>4, <1>5
  <2>. QED BY <1>1, <1>3, <1>5, <2>1, <2>4, <2>5, NewBufferGood
<1>7. CASE ok /\ Q.locks[b] # 0
  <2>1. pool' = Q /\ Go(t, "yield", op, k, NULL) /\ held' = held
    BY <1>7 DEF Written
  <2>2. thr' = V
    BY <1>3, <2>1, GoRec
  <2>. HIDE DEF r
  <2>3. Inv(Q, V, held, leaked, IF Q.locks[b] = 0 THEN b ELSE NULL, NULL)
    BY <1>1, <1>2, <1>3, <1>4, WrittenStep
  <2>4. Inv(Q, V, held, leaked, NULL, NULL)
    BY <1>7, <2>3
  <2>. HIDE DEF Q, V
  <2>. QED BY <1>1, <2>1, <2>2, <2>4, GoodNext
<1>8. CASE ~ok
  <2>. DEFINE F == EndWrite(pool, b, FALSE)
  <2>1. pool' = F /\ Go(t, "yield", op, k, NULL) /\ held' = held
    BY <1>8 DEF Written
  <2>2. thr' = V
    BY <1>3, <2>1, GoRec
  <2>. HIDE DEF r
  <2>3. Inv(F, V, held, leaked, NULL, NULL)
    BY <1>1, <1>2, <1>3, <1>4, FailedStep
  <2>. HIDE DEF F, V
  <2>. QED BY <1>1, <2>1, <2>2, <2>3, GoodNext
<1>. QED BY <1>6, <1>7, <1>8

\* A read that ended leaves the reader with a lock or without one.
LEMMA ReadDoneStep ==
  ASSUME NEW P, NEW T, NEW H, NEW L, Inv(P, T, H, L, NULL, NULL), NEW t \in Users, NEW b \in Bufs,
         T[t].at = "read", T[t].buf = b, T[t].blk \in Blocks, NEW s, Settled(s), NEW Q, ReadEnded(P, Q, b, s)
  PROVE  /\ s = "lock" => Inv(Q, [T EXCEPT ![t] = UserRec], [H EXCEPT ![t][b] = @ + 1], L, NULL, NULL)
         /\ Inv(release_buffer(Q, b), [T EXCEPT ![t] = UserRec], H, L, NULL, NULL)
<1>. DEFINE v == Rec("wait", "get", T[t].blk, b)
            V == [T EXCEPT ![t] = v]
<1>1. t \in Threads /\ T \in [Threads -> Thread]
  BY Parts, ConstantFacts
<1>2. Fits(t, v) /\ v.at = "wait" /\ v.buf = b /\ v.blk = T[t].blk /\ Fits(t, UserRec) /\ Idle(UserRec)
  BY UserFits DEF Rec
<1>. HIDE DEF v
<1>3. SameBut(V, T, t) /\ V[t] = v
  BY <1>1, Overwrite
<1>4. Inv(Q, V, H, L, NULL, NULL) /\ Q.waiters[b] = {} /\ Q.state[b] = s
  <2>1. HasRead(T[t], v, b)
    BY <1>2 DEF HasRead
  <2>2. Fits(t, v) /\ t \in Threads
    BY <1>1, <1>2
  <2>3. Inv(Q, V, H, L, NULL, NULL) /\ Q.waiters[b] = {}
    BY <2>1, <2>2, ReadStep
  <2>4. P.state \in [Bufs -> States]
    BY Parts
  <2>5. Q.state[b] = s
    BY <2>4 DEF ReadEnded
  <2>. QED BY <2>3, <2>5
<1>5. [V EXCEPT ![t] = UserRec] = [T EXCEPT ![t] = UserRec]
  BY <1>3 DEF SameBut
<1>6. t \notin Q.waiters[b] /\ V[t].at = "wait" /\ V[t].buf = b
  BY <1>2, <1>3, <1>4
<1>. HIDE DEF V
<1>7. ASSUME s = "lock" PROVE Inv(Q, [V EXCEPT ![t] = UserRec], [H EXCEPT ![t][b] = @ + 1], L, NULL, NULL)
  <2>1. Q.state[b] \in Locked
    BY <1>4, <1>7 DEF Locked
  <2>. QED BY <1>2, <1>4, <1>6, <2>1, HoldStep
<1>8. Inv(release_buffer(Q, b), [V EXCEPT ![t] = UserRec], H, L, NULL, NULL)
  BY <1>1, <1>2, <1>4, <1>6, UnuseStep
<1>. QED BY <1>5, <1>7, <1>8

\* get_buffer after its read.
LEMMA GoodReadDone ==
  ASSUME Good, NEW t \in Threads, NEW ok \in BOOLEAN, ReadDone(t, ok)
  PROVE  Good'
<1>. DEFINE b == thr[t].buf
            s == IF ok THEN "lock" ELSE "err"
            U == [thr EXCEPT ![t] = UserRec]
            Q == EndRead(pool, b, ok)
            K == [held EXCEPT ![t][b] = @ + 1]
<1>1. Inv(pool, thr, held, leaked, NULL, NULL) /\ leaked' = leaked
  BY DEF Good, ReadDone
<1>2. thr[t].at = "read" /\ Return(t)
  BY DEF ReadDone, At
<1>3. t \in Users /\ b \in Bufs /\ thr[t].blk \in Blocks /\ SameBut(thr, thr, t)
  BY <1>2, ThreadAt
<1>4. thr' = U
  BY <1>2, <1>3, GoRec DEF Return, UserRec
<1>5. (ok /\ pool' = Q /\ held' = K) \/ (~ok /\ pool' = release_buffer(Q, b) /\ held' = held)
  BY DEF ReadDone, Hold
<1>6. Settled(s) /\ (ok => s = "lock")
  BY DEF Settled
<1>7. ReadEnded(pool, Q, b, s)
  <2>1. pool \in Pool /\ HashInv(pool, NULL) /\ PlaceInv(pool, thr)
    BY <1>1, Parts
  <2>2. pool.blkno[b] \in Blocks
    BY <1>2, <1>3, <2>1 DEF HashInv, PlaceInv, BufFits
  <2>. QED BY <1>3, <2>1, <2>2, EndReadFields
<1>. HIDE DEF Q, s
<1>8. /\ s = "lock" => Inv(Q, U, K, leaked, NULL, NULL)
      /\ Inv(release_buffer(Q, b), U, held, leaked, NULL, NULL)
  BY <1>1, <1>2, <1>3, <1>6, <1>7, ReadDoneStep
<1>. HIDE DEF U, K
<1>. QED BY <1>1, <1>4, <1>5, <1>6, <1>8, GoodNext

\* The holder of a buffer waits for none, and the buffer is locked.
LEMMA HolderIdle ==
  ASSUME Good, NEW t \in Users, NEW b \in Bufs, Holds(t, b)
  PROVE  Idle(thr[t]) /\ pool.state[b] \in Locked /\ pool.blkno[b] \in Blocks
<1>1. t \in Threads /\ thr[t].at = "user" /\ held[t][b] > 0
  BY ConstantFacts DEF Holds, At
<1>2. HeldInv(pool, held, leaked) /\ HashInv(pool, NULL)
  BY Parts DEF Good
<1>3. pool.state[b] \in Locked
  BY <1>1, <1>2 DEF HeldInv
<1>. QED BY <1>1, <1>2, <1>3, ThreadAt DEF HashInv, Locked

\* A holder updates its buffer.
LEMMA GoodUpdate ==
  ASSUME Good, NEW t \in Users, NEW b \in Bufs, Update(t, b)
  PROVE  Good'
<1>. DEFINE k == pool.blkno[b]
            P == IF Syncing(b) THEN Excuse(pool, k) ELSE pool
            R == [mark_buffer_updated(P, b) EXCEPT
                    !.disk[k] = k \in P.excused,
                    !.current = [c \in Bufs |-> @[c] /\ (c = b \/ P.blkno[c] # k \/ k \in P.excused)]]
<1>1. Inv(pool, thr, held, leaked, NULL, NULL)
  BY DEF Good
<1>2. Holds(t, b) /\ thr' = thr /\ held' = held /\ leaked' = leaked
  BY DEF Update
<1>3. pool' = R
  BY DEF Update
<1>4. pool.state[b] \in Locked /\ k \in Blocks
  BY <1>2, HolderIdle
<1>5. Inv(P, thr, held, leaked, NULL, NULL) /\ P.blkno = pool.blkno /\ P.state = pool.state
  <2>1. CASE Syncing(b)
    <3>1. P = Excuse(pool, k)
      BY <2>1
    <3>2. Inv(Excuse(pool, k), thr, held, leaked, NULL, NULL)
      BY <1>1, <1>4, ForgetStep
    <3>3. pool \in Pool
      BY <1>1, Parts
    <3>4. Excuse(pool, k).blkno = pool.blkno /\ Excuse(pool, k).state = pool.state
      BY <3>3 DEF Excuse, Forget, Pool
    <3>. QED BY <3>1, <3>2, <3>4
  <2>2. CASE ~Syncing(b)
    BY <1>1, <2>2
  <2>. QED BY <2>1, <2>2
<1>. HIDE DEF P
<1>6. R = Updated(P, b)
  BY <1>5 DEF Updated
<1>7. Inv(Updated(P, b), thr, held, leaked, NULL, NULL)
  BY <1>4, <1>5, UpdateStep
<1>. HIDE DEF R
<1>. QED BY <1>2, <1>3, <1>6, <1>7, GoodNext

\* A holder invalidates its buffer.
LEMMA GoodInvalidate ==
  ASSUME Good, NEW t \in Users, NEW b \in Bufs, Invalidate(t, b)
  PROVE  Good'
<1>. DEFINE Q == Forget(mark_buffer_invalid(pool, b), pool.blkno[b])
<1>1. Inv(pool, thr, held, leaked, NULL, NULL)
  BY DEF Good
<1>2. Holds(t, b) /\ thr' = thr /\ held' = held /\ leaked' = leaked /\ pool' = Q
  BY DEF Invalidate
<1>3. pool.state[b] \in Locked \cup {"err"}
  BY <1>2, HolderIdle
<1>4. Inv(Q, thr, held, leaked, NULL, NULL)
  BY <1>1, <1>3, InvalidStep
<1>. HIDE DEF Q
<1>. QED BY <1>2, <1>4, GoodNext

\* A holder releases its buffer.
LEMMA GoodRelease ==
  ASSUME Good, NEW t \in Users, NEW b \in Bufs, Release(t, b)
  PROVE  Good'
<1>. DEFINE K == [held EXCEPT ![t][b] = @ - 1]
<1>1. Inv(pool, thr, held, leaked, NULL, NULL)
  BY DEF Good
<1>2. Holds(t, b) /\ thr' = thr /\ held' = K /\ leaked' = leaked /\ pool' = release_buffer(pool, b)
  BY DEF Release
<1>3. Idle(thr[t]) /\ held[t][b] > 0
  BY <1>2, HolderIdle DEF Holds
<1>4. Inv(release_buffer(pool, b), thr, K, leaked, NULL, NULL)
  BY <1>1, <1>3, GiveBackStep
<1>. HIDE DEF K
<1>. QED BY <1>2, <1>4, GoodNext

\* fsync up to its first write.
LEMMA GoodFsync ==
  ASSUME Good, NEW t \in Users, fsync(t)
  PROVE  Good'
<1>1. Inv(pool, thr, held, leaked, NULL, NULL) /\ Caller(t, "fsync")
  BY DEF Good, Caller
<1>2. t \in Threads /\ thr[t].at = "user" /\ flush_and_sync(pool, t, "fsync") /\ held' = held /\ leaked' = leaked
  BY ConstantFacts DEF fsync, At
<1>3. Idle(thr[t]) /\ SameBut(thr, thr, t)
  BY <1>2, ThreadAt
<1>. QED BY <1>1, <1>2, <1>3, FlushSyncGood

\* The record of a thread between two transfers.
RestRec(t) == IF t = Lazy THEN Rec("idle", "none", NoBlock, NULL) ELSE UserRec

\* The record between two transfers fits its thread.
LEMMA RestFits ==
  ASSUME NEW t \in Threads
  PROVE  Fits(t, RestRec(t)) /\ Idle(RestRec(t))
<1>1. t \in Users \/ t = Lazy
  BY DEF Threads
<1>2. CASE t = Lazy
  BY <1>2, LazyFits DEF RestRec
<1>3. CASE t # Lazy
  BY <1>1, <1>3, UserFits DEF RestRec
<1>. QED BY <1>2, <1>3

\* flush_buffers after a write.
LEMMA GoodFlushDone ==
  ASSUME Good, NEW t \in Threads, NEW ok \in BOOLEAN, FlushDone(t, ok)
  PROVE  Good'
<1>. DEFINE b == thr[t].buf
            op == thr[t].op
            r == RestRec(t)
            V == [thr EXCEPT ![t] = r]
            q == EndWrite(pool, b, ok)
            p == IF ok /\ q.locks[b] = 0
                 THEN [q EXCEPT !.state[b] = "clean", !.clean = Append(@, b)] ELSE q
<1>1. Inv(pool, thr, held, leaked, NULL, NULL) /\ leaked' = leaked /\ held' = held
  BY DEF Good, FlushDone
<1>2. thr[t].at = "flush"
  BY DEF FlushDone, At
<1>3. b \in Bufs /\ (op # "lazy" => Caller(t, op)) /\ (op = "lazy" => t = Lazy)
  BY <1>2, ThreadAt
<1>4. Fits(t, r) /\ Idle(r)
  BY RestFits
<1>5. SameBut(V, thr, t) /\ V[t] = r
  <2>1. thr \in [Threads -> Thread]
    BY <1>1, Parts
  <2>. HIDE DEF r
  <2>. QED BY <2>1, Overwrite
<1>6. \/ op = "lazy" /\ LazyFlush(p)
      \/ op = "lazy" /\ check_sync(Rearm(p), "late")
      \/ op # "lazy" /\ FlushNext(p, t, op)
      \/ op # "lazy" /\ Finish(p, t, op)
      \/ op # "lazy" /\ sync_buffers(p, t, op)
  BY DEF FlushDone
<1>. HIDE DEF r
<1>7. Inv(p, V, held, leaked, NULL, NULL)
  <2>1. CASE ok /\ EndWrite(pool, b, TRUE).locks[b] = 0
    <3>. DEFINE Q == EndWrite(pool, b, TRUE)
    <3>1. Inv(Q, V, held, leaked, IF Q.locks[b] = 0 THEN b ELSE NULL, NULL) /\ Q.state[b] = "lock"
      BY <1>1, <1>2, <1>3, <1>4, WrittenStep
    <3>2. Inv(Q, V, held, leaked, b, NULL) /\ Q.state[b] = "lock"
      BY <2>1, <3>1
    <3>3. p = [Q EXCEPT !.state[b] = "clean", !.clean = Append(@, b)]
      BY <2>1
    <3>. HIDE DEF Q, V, p
    <3>4. Inv([Q EXCEPT !.state[b] = "clean", !.clean = Append(@, b)], V, held, leaked, NULL, NULL)
      BY <1>3, <3>2, CleanStep
    <3>. QED BY <3>3, <3>4
  <2>2. CASE ok /\ EndWrite(pool, b, TRUE).locks[b] # 0
    <3>. DEFINE Q == EndWrite(pool, b, TRUE)
    <3>1. Inv(Q, V, held, leaked, IF Q.locks[b] = 0 THEN b ELSE NULL, NULL)
      BY <1>1, <1>2, <1>3, <1>4, WrittenStep
    <3>2. Inv(Q, V, held, leaked, NULL, NULL)
      BY <2>2, <3>1
    <3>3. p = Q
      BY <2>2
    <3>. HIDE DEF Q, V, p
    <3>. QED BY <3>2, <3>3
  <2>3. CASE ~ok
    <3>1. Inv(EndWrite(pool, b, FALSE), V, held, leaked, NULL, NULL)
      BY <1>1, <1>2, <1>3, <1>4, FailedStep
    <3>2. p = EndWrite(pool, b, FALSE)
      BY <2>3
    <3>. HIDE DEF V, p
    <3>. QED BY <3>1, <3>2
  <2>. QED BY <2>1, <2>2, <2>3
<1>8. Idle(V[t])
  BY <1>4, <1>5
<1>. HIDE DEF p, V
<1>9. CASE op = "lazy" /\ LazyFlush(p)
  BY <1>1, <1>3, <1>5, <1>7, <1>8, <1>9, LazyFlushGood
<1>10. CASE op = "lazy" /\ check_sync(Rearm(p), "late")
  BY <1>1, <1>3, <1>5, <1>7, <1>8, <1>10, RearmGood
<1>11. CASE op # "lazy" /\ FlushNext(p, t, op)
  BY <1>1, <1>3, <1>5, <1>7, <1>8, <1>11, FlushNextGood
<1>12. CASE op # "lazy" /\ Finish(p, t, op)
  BY <1>1, <1>3, <1>5, <1>7, <1>8, <1>12, FinishGood
<1>13. CASE op # "lazy" /\ sync_buffers(p, t, op)
  BY <1>1, <1>3, <1>5, <1>7, <1>8, <1>13, SyncBuffersGood
<1>. QED BY <1>6, <1>9, <1>10, <1>11, <1>12, <1>13

\* sync_buffers after a write.
LEMMA GoodSyncDone ==
  ASSUME Good, NEW t \in Threads, NEW ok \in BOOLEAN, SyncDone(t, ok)
  PROVE  Good'
<1>. DEFINE b == thr[t].buf
            k == pool.blkno[b]
            op == thr[t].op
            r == RestRec(t)
            V == [thr EXCEPT ![t] = r]
            Q == change_state([pool EXCEPT !.disk[k] = pool.current[b]], b, "lock")
            p == release_buffer(Q, b)
<1>1. Inv(pool, thr, held, leaked, NULL, NULL) /\ held' = held
  BY DEF Good, SyncDone
<1>2. thr[t].at = "sync"
  BY DEF SyncDone, At
<1>3. b \in Bufs /\ Caller(t, op) /\ SameBut(thr, thr, t)
  BY <1>2, ThreadAt
<1>4. CASE ok
  <2>1. SyncFrom(p, t, op, b + 1) /\ leaked' = leaked
    BY <1>4 DEF SyncDone
  <2>2. pool.state[b] \in Locked
    <3>1. PlaceInv(pool, thr)
      BY <1>1, Parts
    <3>. QED BY <1>2, <3>1 DEF PlaceInv, BufFits
  <2>3. Inv(Q, thr, held, leaked, NULL, NULL)
    BY <1>1, <1>3, <2>2, SyncedStep
  <2>4. Fits(t, r) /\ Idle(r)
    BY RestFits
  <2>. HIDE DEF r, Q
  <2>5. SameBut(V, thr, t) /\ V[t] = r
    <3>1. thr \in [Threads -> Thread]
      BY <1>1, Parts
    <3>. QED BY <3>1, Overwrite
  <2>6. Inv(p, V, held, leaked, NULL, NULL)
    BY <1>2, <1>3, <2>3, <2>4, UnuseStep
  <2>7. Idle(V[t])
    BY <2>4, <2>5
  <2>. HIDE DEF p, V
  <2>. QED BY <1>1, <1>3, <2>1, <2>5, <2>6, <2>7, SyncGood
<1>5. CASE ~ok
  <2>. DEFINE v == Rec(After[op], "none", NoBlock, NULL)
              U == [thr EXCEPT ![t] = v]
              M == [leaked EXCEPT ![b] = @ + 1]
  <2>1. pool' = pool /\ Go(t, After[op], "none", NoBlock, NULL) /\ leaked' = M
    BY <1>5 DEF SyncDone, Finish
  <2>2. thr' = U
    BY <1>3, <2>1, GoRec
  <2>3. Fits(t, v) /\ Idle(v)
    BY <1>3, CallerFits
  <2>. HIDE DEF v
  <2>4. Inv(pool, U, held, M, NULL, NULL)
    BY <1>1, <1>2, <1>3, <2>3, LeakStep
  <2>. HIDE DEF U, M
  <2>. QED BY <1>1, <2>1, <2>2, <2>4, GoodNext
<1>. QED BY <1>4, <1>5

\* The lazy writer between its transfers.
LEMMA GoodLazy ==
  ASSUME Good, LazyStep \/ LazyTimeout
  PROVE  Good'
<1>1. Inv(pool, thr, held, leaked, NULL, NULL) /\ Lazy \in Threads /\ held' = held /\ leaked' = leaked
  BY ConstantFacts DEF Good, LazyStep, LazyTimeout, LazyWake, LazyQuiet, LazyNap
<1>2. thr[Lazy].at \in {"idle", "quiet", "nap"}
  BY DEF LazyStep, LazyTimeout, LazyWake, LazyQuiet, LazyNap, At
<1>3. Idle(thr[Lazy]) /\ SameBut(thr, thr, Lazy)
  BY <1>1, <1>2, ThreadAt
<1>4. ASSUME NEW at \in {"quiet", "nap"}, NEW Q, Inv(Q, thr, held, leaked, NULL, NULL), pool' = Q,
             Go(Lazy, at, "none", NoBlock, NULL)
      PROVE  Good'
  <2>. DEFINE r == Rec(at, "none", NoBlock, NULL)
              V == [thr EXCEPT ![Lazy] = r]
  <2>1. thr' = V
    BY <1>3, <1>4, GoRec
  <2>2. Fits(Lazy, r) /\ Idle(r)
    BY LazyFits
  <2>. HIDE DEF r
  <2>3. Inv(Q, V, held, leaked, NULL, NULL)
    BY <1>1, <1>3, <1>4, <2>2, IdleStep
  <2>. HIDE DEF V
  <2>. QED BY <1>1, <1>4, <2>1, <2>3, GoodNext
<1>5. CASE LazyWake
  <2>. DEFINE Q == [pool EXCEPT !.event = FALSE]
  <2>1. pool' = Q /\ Go(Lazy, "quiet", "none", NoBlock, NULL)
    BY <1>5 DEF LazyWake
  <2>2. Inv(Q, thr, held, leaked, NULL, NULL)
    BY <1>1, FlagStep
  <2>. HIDE DEF Q
  <2>. QED BY <1>4, <2>1, <2>2
<1>6. CASE LazyQuiet /\ ~LazyFlush(pool)
  <2>. DEFINE Q == [pool EXCEPT !.ioactive = FALSE]
  <2>1. pool' = Q /\ Go(Lazy, "nap", "none", NoBlock, NULL)
    BY <1>6 DEF LazyQuiet
  <2>2. Inv(Q, thr, held, leaked, NULL, NULL)
    BY <1>1, FlagStep
  <2>. HIDE DEF Q
  <2>. QED BY <1>4, <2>1, <2>2
<1>7. CASE LazyFlush(pool)
  BY <1>1, <1>3, <1>7, LazyFlushGood
<1>8. CASE LazyNap
  <2>1. check_sync(pool, "nap")
    BY <1>8 DEF LazyNap
  <2>. QED BY <1>1, <1>3, <2>1, CheckSyncGood
<1>9. CASE LazyTimeout
  <2>1. check_sync(pool, "late")
    BY <1>9 DEF LazyTimeout
  <2>. QED BY <1>1, <1>3, <2>1, CheckSyncGood
<1>. QED BY <1>5, <1>6, <1>7, <1>8, <1>9 DEF LazyStep

-----------------------------------------------------------------------------
(* The invariant holds at every step.                                      *)

\* The inductive invariant, with no buffer on the move.
IInv == Good /\ faults \in 0 .. MaxFaults

\* The pool that init_buffer_pool leaves satisfies the invariant.
LEMMA InitGood == Init => Good
<1>. SUFFICES ASSUME Init PROVE Good
  OBVIOUS
<1>1. NULL \notin Bufs /\ Users \subseteq Threads /\ Lazy \in Threads /\ IsFiniteSet(Users)
  BY ConstantFacts
<1>2. /\ pool.state = [b \in Bufs |-> "free"] /\ pool.locks = [b \in Bufs |-> 0]
      /\ pool.waiters = [b \in Bufs |-> {}] /\ pool.blkno = [b \in Bufs |-> NoBlock]
      /\ pool.current = [b \in Bufs |-> FALSE] /\ pool.hashtable = [k \in Blocks |-> <<>>]
      /\ pool.freelist = [i \in Bufs |-> i] /\ pool.clean = <<>> /\ pool.dirty = <<>>
      /\ pool.disk = [k \in Blocks |-> TRUE] /\ pool.excused = {}
      /\ ~pool.panic
  BY DEF Init
<1>3. \A b \in Bufs : pool.state[b] = "free" /\ pool.locks[b] = 0 /\ pool.waiters[b] = {} /\ pool.blkno[b] = NoBlock
  BY <1>2
<1>4. pool \in Pool
  <2>1. pool.freelist \in Seq(Bufs)
    BY <1>2, CacheAssumption DEF Bufs, CacheAssumption
  <2>2. [k \in Blocks |-> <<>>] \in [Blocks -> Seq(Bufs)]
    OBVIOUS
  <2>3. [i \in Bufs |-> i] \in Seq(Bufs) /\ <<>> \in Seq(Bufs)
    BY <1>2, <2>1
  <2>4. {} \in SUBSET Blocks /\ [b \in Bufs |-> {}] \in [Bufs -> SUBSET Users]
    OBVIOUS
  <2>. HIDE DEF Bufs
  <2>. QED BY <2>2, <2>3, <2>4 DEF Init, Pool, States
<1>5. \A t \in Threads : thr[t] = [at |-> IF t = Lazy THEN "idle" ELSE "user", op |-> "none", blk |-> NoBlock, buf |-> NULL]
  BY DEF Init
<1>6. \A t \in Threads : Fits(t, thr[t]) /\ Idle(thr[t])
  <2>1. \A t \in Threads : thr[t] = RestRec(t)
    BY <1>5 DEF RestRec, UserRec, Rec
  <2>. QED BY <2>1, RestFits
<1>7. Types(pool, thr, held, leaked)
  <2>1. thr \in [Threads -> Thread]
    BY <1>6 DEF Init, Fits
  <2>2. held \in [Users -> [Bufs -> Nat]] /\ leaked \in [Bufs -> Nat]
    BY DEF Init
  <2>. QED BY <1>2, <1>4, <1>6, <2>1, <2>2 DEF Types
<1>8. ListInv(pool, NULL)
  <2>1. /\ {b \in Bufs \ {NULL} : pool.state[b] = "free"} = Bufs
        /\ {b \in Bufs \ {NULL} : pool.state[b] = "clean"} = {}
        /\ {b \in Bufs \ {NULL} : pool.state[b] = "dirty"} = {}
    BY <1>1, <1>3
  <2>2. Lists([i \in Bufs |-> i], Bufs)
    BY DEF Lists, IsInjective, ToSet
  <2>3. Lists(<<>>, {})
    BY DEF Lists, IsInjective, ToSet
  <2>. QED BY <1>2, <2>1, <2>2, <2>3 DEF ListInv
<1>9. \A k \in Blocks : Copies(pool, k, NULL) = {}
  BY <1>3 DEF Copies
<1>10. HashInv(pool, NULL)
  <2>1. Lists(<<>>, {})
    BY DEF Lists, IsInjective, ToSet
  <2>2. \A k \in Blocks : pool.hashtable[k] = <<>>
    BY <1>2
  <2>. QED BY <1>3, <1>9, <2>1, <2>2 DEF HashInv
<1>11. ContentInv(pool, NULL)
  BY <1>2, <1>9 DEF ContentInv
<1>12. PlaceInv(pool, thr)
  <2>1. \A t \in Threads : BufFits(pool, t, thr[t]) /\ thr[t].at \notin Transfers
    BY <1>6, IdleFits
  <2>. QED BY <1>3, <2>1 DEF PlaceInv
<1>13. \A b \in Bufs : leaked[b] = 0 /\ \A u \in Users : held[u][b] = 0
  BY DEF Init
<1>14. HeldInv(pool, held, leaked)
  BY <1>13 DEF HeldInv
<1>15. CountInv(pool, thr, held, leaked)
  <2>. SUFFICES ASSUME NEW b \in Bufs
                PROVE  pool.locks[b] = Cardinality(GivenTo(held, b)) + Cardinality(UsersOf(thr, pool.waiters[b], b))
                                       + leaked[b]
    BY DEF CountInv
  <2>1. GivenTo(held, b) = {}
    <3>1. \A u \in Users : {u} \X (1 .. held[u][b]) = {}
      BY <1>13
    <3>. QED BY <3>1 DEF GivenTo
  <2>2. UsersOf(thr, pool.waiters[b], b) = {}
    <3>1. \A t \in Threads : ~Uses(t, thr[t], pool.waiters[b], b)
      BY <1>6, IdleFits
    <3>. QED BY <3>1 DEF UsersOf
  <2>. QED BY <1>3, <1>13, <2>1, <2>2, FS_EmptySet
<1>16. LockInv(pool, NULL) /\ Loose(pool, NULL, NULL)
  BY <1>3 DEF LockInv, Loose, Locked
<1>. QED BY <1>7, <1>8, <1>10, <1>11, <1>12, <1>14, <1>15, <1>16 DEF Good, Inv

\* Every action preserves the invariant.
LEMMA NextGood == Good /\ [Next]_vars => Good'
<1>. SUFFICES ASSUME Good, [Next]_vars PROVE Good'
  OBVIOUS
<1>1. ASSUME NEW t \in Users, NEW k \in Blocks, NEW op \in {"get", "alloc", "inval"}, Lookup(t, op, k) PROVE Good'
  BY <1>1, GoodLookup
<1>2. ASSUME NEW t \in Users, NEW b \in Bufs, Update(t, b) \/ Invalidate(t, b) \/ Release(t, b) PROVE Good'
  BY <1>2, GoodUpdate, GoodInvalidate, GoodRelease
<1>3. ASSUME NEW t \in Users, fsync(t) PROVE Good'
  BY <1>3, GoodFsync
<1>4. ASSUME NEW t \in Threads, Proceed(t) PROVE Good'
  <2>1. CASE WaitOver(t) \/ Retry(t)
    BY <2>1, GoodWaitOver, GoodRetry
  <2>2. CASE \E ok \in BOOLEAN : Written(t, ok) \/ ReadDone(t, ok) \/ FlushDone(t, ok) \/ SyncDone(t, ok)
    <3>1. PICK ok \in BOOLEAN : Written(t, ok) \/ ReadDone(t, ok) \/ FlushDone(t, ok) \/ SyncDone(t, ok)
      BY <2>2
    <3>. QED BY <3>1, GoodWritten, GoodReadDone, GoodFlushDone, GoodSyncDone
  <2>. QED BY <1>4, <2>1, <2>2 DEF Proceed
<1>5. CASE LazyStep \/ LazyTimeout
  BY <1>5, GoodLazy
<1>6. CASE UNCHANGED vars
  BY <1>6 DEF Good, vars
<1>. QED BY <1>1, <1>2, <1>3, <1>4, <1>5, <1>6 DEF Next

\* The transfers that fail stay within their bound.
LEMMA FaultsBounded == faults \in 0 .. MaxFaults /\ [Next]_vars => faults' \in 0 .. MaxFaults
<1>. SUFFICES ASSUME faults \in 0 .. MaxFaults, [Next]_vars PROVE faults' \in 0 .. MaxFaults
  OBVIOUS
<1>0. MaxFaults \in Nat
  BY CacheAssumption DEF CacheAssumption
<1>1. ASSUME NEW ok, Fault(ok) PROVE faults' \in 0 .. MaxFaults
  BY <1>0, <1>1 DEF Fault
<1>2. CASE \E t \in Threads : Proceed(t)
  <2>1. PICK t \in Threads : Proceed(t)
    BY <1>2
  <2>2. UNCHANGED faults \/ \E ok \in BOOLEAN : Fault(ok)
    BY <2>1 DEF Proceed, WaitOver, Retry, Written, ReadDone, FlushDone, SyncDone
  <2>. QED BY <1>1, <2>2
<1>3. CASE ~\E t \in Threads : Proceed(t)
  <2>1. faults' = faults
    BY <1>3 DEF Next, vars, Lookup, Update, Invalidate, Release, fsync, LazyStep, LazyTimeout, LazyWake, LazyQuiet, LazyNap
  <2>. QED BY <2>1
<1>. QED BY <1>2, <1>3

\* Every thread stops only where lists, hash chains, contents, places, holders
\* and lock counts of the pool agree, whatever the interleaving of lookups,
\* transfers, releases, flushes and syncs of buf.c.
THEOREM CacheInvariant == Spec => []IInv
<1>1. Init => IInv
  <2>1. Init => faults \in 0 .. MaxFaults
    BY CacheAssumption DEF Init, CacheAssumption
  <2>. QED BY <2>1, InitGood DEF IInv
<1>2. IInv /\ [Next]_vars => IInv'
  BY NextGood, FaultsBounded DEF IInv
<1>. QED BY <1>1, <1>2, PTL DEF Spec

\* A buffer is on exactly the list, and in exactly the hash chain, that its
\* state and block number call for, and lookup_buffer and release_buffer never
\* reach their panics.
THEOREM ListsRight == Spec => []ListsAgree
<1>1. IInv => ListsAgree
  <2>. SUFFICES ASSUME IInv PROVE ListsAgree
    OBVIOUS
  <2>1. ListInv(pool, NULL) /\ HashInv(pool, NULL) /\ ~pool.panic /\ NULL \notin Bufs
    BY Parts, ConstantFacts DEF IInv, Good
  <2>2. \A st : {b \in Bufs \ {NULL} : pool.state[b] = st} = {b \in Bufs : pool.state[b] \in {st}}
    BY <2>1
  <2>3. \A k \in Blocks : Copies(pool, k, NULL) = {b \in Bufs : pool.blkno[b] = k /\ pool.state[b] # "free"}
    BY <2>1 DEF Copies
  <2>. QED BY <2>1, <2>2, <2>3 DEF ListsAgree, ListInv, HashInv, Lists, ListOf
<1>. QED BY <1>1, CacheInvariant, PTL

\* buf->locks counts exactly the locks of holders, of woken threads that have
\* not run yet, of transfers under way and of failed syncs: release_buffer
\* never frees a buffer in use, and no free, clean, dirty or writing buffer
\* is locked.
THEOREM LocksRight == Spec => []LocksExact
<1>1. IInv => LocksExact
  <2>. SUFFICES ASSUME IInv PROVE LocksExact
    OBVIOUS
  <2>1. /\ CountInv(pool, thr, held, leaked) /\ LockInv(pool, NULL) /\ NULL \notin Bufs
        /\ pool \in Pool /\ thr \in [Threads -> Thread] /\ held \in [Users -> [Bufs -> Nat]] /\ leaked \in [Bufs -> Nat]
    BY Parts, ConstantFacts DEF IInv, Good
  <2>2. TypeOK
    BY <2>1 DEF TypeOK, IInv
  <2>3. ASSUME NEW b \in Bufs
        PROVE  pool.locks[b] = Cardinality(Given(b)) + Cardinality(InUseBy(b)) + leaked[b]
    <3>1. Given(b) = GivenTo(held, b)
      BY DEF Given, GivenTo
    <3>2. InUseBy(b) = UsersOf(thr, pool.waiters[b], b)
      BY DEF InUseBy, UsersOf, Uses
    <3>. QED BY <2>1, <3>1, <3>2 DEF CountInv
  <2>4. ASSUME NEW b \in Bufs
        PROVE  /\ pool.state[b] \in {"free", "clean", "dirty", "write"} => pool.locks[b] = 0
               /\ pool.state[b] \in {"lock", "upd", "inv", "read"} => pool.locks[b] > 0
    BY <2>1 DEF LockInv, Locked
  <2>. QED BY <2>2, <2>3, <2>4 DEF LocksExact
<1>. QED BY <1>1, CacheInvariant, PTL

\* An update that is not on the disk is in the one cached copy of its block,
\* in a state from which get_new_buffer, flush_buffers or sync_buffers writes
\* it, unless the block is excused.
THEOREM UpdatesKept == Spec => []UpdateKept
<1>1. IInv => UpdateKept
  <2>. SUFFICES ASSUME IInv PROVE UpdateKept
    OBVIOUS
  <2>1. /\ ContentInv(pool, NULL) /\ HashInv(pool, NULL) /\ NULL \notin Bufs
        /\ pool.hashtable \in [Blocks -> Seq(Bufs)]
    BY Parts, ConstantFacts DEF IInv, Good
  <2>. SUFFICES ASSUME NEW k \in Blocks \ pool.excused, ~pool.disk[k]
                PROVE  \E b \in Bufs : /\ <<b>> = pool.hashtable[k] /\ pool.current[b]
                                       /\ pool.state[b] \in {"upd", "dirty", "write"}
    BY DEF UpdateKept
  <2>2. /\ \A b, c \in Copies(pool, k, NULL) : b = c
        /\ \A b \in Copies(pool, k, NULL) : pool.state[b] # "read" => pool.current[b]
        /\ pool.disk[k] \/ \E b \in Copies(pool, k, NULL) : pool.state[b] \in {"upd", "dirty", "write"}
    BY <2>1, ContentAt
  <2>3. PICK b \in Copies(pool, k, NULL) : pool.state[b] \in {"upd", "dirty", "write"}
    BY <2>2
  <2>4. b \in Bufs /\ Copies(pool, k, NULL) = {b} /\ pool.current[b]
    BY <2>2, <2>3 DEF Copies
  <2>5. Lists(pool.hashtable[k], {b}) /\ pool.hashtable[k] \in Seq(Bufs)
    BY <2>1, <2>4 DEF HashInv
  <2>6. pool.hashtable[k] = <<b>>
    BY <2>4, <2>5, SingleList
  <2>. QED BY <2>3, <2>4, <2>6
<1>. QED BY <1>1, CacheInvariant, PTL

\* Whoever holds a lock on a buffer sees every update of its block, and the
\* buffer is neither evicted nor read again under the holder.
THEOREM ReadsFresh == Spec => []FreshRead
<1>1. IInv => FreshRead
  <2>. SUFFICES ASSUME IInv PROVE FreshRead
    OBVIOUS
  <2>1. HeldInv(pool, held, leaked) /\ HashInv(pool, NULL) /\ ContentInv(pool, NULL) /\ NULL \notin Bufs
    BY Parts, ConstantFacts DEF IInv, Good
  <2>. SUFFICES ASSUME NEW u \in Users, NEW b \in Bufs, held[u][b] > 0
                PROVE  /\ pool.blkno[b] \in pool.excused \/ pool.current[b]
                       /\ pool.state[b] \in {"lock", "upd", "inv"}
    BY DEF FreshRead
  <2>2. pool.state[b] \in {"lock", "upd", "inv"}
    BY <2>1 DEF HeldInv, Locked
  <2>3. pool.blkno[b] \in Blocks /\ b \in Copies(pool, pool.blkno[b], NULL)
    BY <2>1, <2>2 DEF HashInv, Copies
  <2>4. pool.blkno[b] \notin pool.excused => pool.current[b]
    BY <2>1, <2>2, <2>3 DEF ContentInv
  <2>. QED BY <2>2, <2>4
<1>. QED BY <1>1, CacheInvariant, PTL
=============================================================================
