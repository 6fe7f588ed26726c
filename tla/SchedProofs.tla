---------------------------- MODULE SchedProofs ----------------------------
(***************************************************************************)
(* Theorems about Sched, for any threads, priorities and quanta.  Inv is   *)
(* the inductive invariant; the lemmas say what the ready queues, their    *)
(* summary and a single thread keep when one thread's record is replaced.  *)
(***************************************************************************)
EXTENDS Sched, SequenceTheorems, WellFoundedInduction, TLAPS

LEMMA ConstantFacts ==
  /\ Idle \in Threads /\ Idle \notin UserThreads /\ UserThreads \subseteq Threads
  /\ Signalled \subseteq UserThreads /\ Main \in UserThreads
  /\ Levels \in Nat /\ Levels > 0 /\ 0 \in Prio
  /\ TimeCritical \in Prio
  /\ InitPrio \in [Threads -> Prio] /\ InitPrio[Idle] = 0
  /\ DefQuantum \in Nat /\ DefQuantum > 0 /\ PerTick \in Nat /\ PerTick > 0
  /\ MaxSuspend \in Nat /\ MaxSuspend > 0
  BY SchedAssumption DEF SchedAssumption, Prio

-----------------------------------------------------------------------------
(* The ready queues as functions of the threads T and the queues R.        *)

QueueOK(T, R) ==
  /\ \A p \in Prio : \A i \in DOMAIN R[p] :
       /\ T[R[p][i]].state = "READY" /\ T[R[p][i]].prio = p
       /\ \A j \in DOMAIN R[p] : R[p][i] = R[p][j] => i = j
  /\ \A t \in Threads : T[t].state = "READY" => \E i \in DOMAIN R[T[t].prio] :
                                                 R[T[t].prio][i] = t

SummaryOK(R, S) ==
  \A p \in Prio :
    /\ R[p] # <<>> => p \in S
    /\ p \in S => R[p] # <<>> \/ (p = 0 /\ cur = Idle /\ phase = "run")

\* A thread that becomes ready is put at the head or the tail of its queue.
LEMMA InsertQueue ==
  ASSUME NEW T \in [Threads -> Thread], NEW R \in [Prio -> Seq(Threads)], QueueOK(T, R),
         NEW t \in Threads, T[t].state # "READY",
         NEW n \in Thread, n.state = "READY",
         NEW Q, Q = InsertHead(R, n.prio, t) \/ Q = InsertTail(R, n.prio, t)
  PROVE  /\ Q \in [Prio -> Seq(Threads)]
         /\ Q[n.prio] # <<>>
         /\ \A p \in Prio \ {n.prio} : Q[p] = R[p]
         /\ QueueOK([T EXCEPT ![t] = n], Q)
<1>. DEFINE q == R[n.prio]
            U == [T EXCEPT ![t] = n]
<1>0. n.prio \in Prio /\ q \in Seq(Threads) /\ Len(q) \in Nat /\ DOMAIN q = 1 .. Len(q)
  BY DEF Thread
<1>1. \A p \in Prio : \A i \in DOMAIN R[p] : R[p][i] \in Threads /\ R[p][i] # t
  BY DEF QueueOK
<1>2. CASE Q = InsertHead(R, n.prio, t)
  <2>. DEFINE h == <<t>> \o q
  <2>1. /\ h \in Seq(Threads) /\ Len(h) = Len(q) + 1 /\ DOMAIN h = 1 .. Len(q) + 1
        /\ h[1] = t /\ \A i \in 2 .. Len(q) + 1 : h[i] = q[i - 1]
    BY <1>0
  <2>2. Q = [R EXCEPT ![n.prio] = h] /\ Q \in [Prio -> Seq(Threads)] /\ Q[n.prio] = h
    BY <1>2, <1>0, <2>1 DEF InsertHead
  <2>3. \A i \in DOMAIN q : h[i + 1] = q[i] /\ i + 1 \in DOMAIN h
    BY <2>1, <1>0
  <2>. HIDE DEF h
  <2>4. ASSUME NEW p \in Prio, NEW i \in DOMAIN Q[p]
        PROVE  /\ U[Q[p][i]].state = "READY" /\ U[Q[p][i]].prio = p
               /\ \A j \in DOMAIN Q[p] : Q[p][i] = Q[p][j] => i = j
    <3>1. CASE p # n.prio
      <4>1. Q[p] = R[p]
        BY <2>2, <3>1
      <4>. QED
        BY <4>1, <1>1, <2>4 DEF QueueOK
    <3>2. CASE p = n.prio
      <4>1. Q[p] = h /\ DOMAIN Q[p] = 1 .. Len(q) + 1
        BY <2>1, <2>2, <3>2
      <4>2. \A k \in 2 .. Len(q) + 1 :
               h[k] = q[k - 1] /\ k - 1 \in DOMAIN q /\ h[k] # t /\ h[k] \in Threads
        BY <2>1, <1>0, <1>1
      <4>3. U[Q[p][i]].state = "READY" /\ U[Q[p][i]].prio = p
        BY <4>1, <4>2, <2>1, <1>0, <3>2 DEF QueueOK
      <4>4. \A j \in DOMAIN Q[p] : Q[p][i] = Q[p][j] => i = j
        BY <4>1, <4>2, <2>1, <1>0, <3>2, SMTT(30) DEF QueueOK
      <4>. QED BY <4>3, <4>4
    <3>. QED BY <3>1, <3>2
  <2>5. ASSUME NEW u \in Threads, U[u].state = "READY"
        PROVE  \E i \in DOMAIN Q[U[u].prio] : Q[U[u].prio][i] = u
    <3>1. CASE u = t
      <4>1. U[u].prio = n.prio /\ 1 \in DOMAIN h /\ h[1] = u
        BY <3>1, <2>1, <1>0
      <4>. QED BY <4>1, <2>2
    <3>2. CASE u # t
      <4>1. U[u] = T[u] /\ T[u].prio \in Prio
        BY <3>2 DEF Thread
      <4>2. PICK i \in DOMAIN R[T[u].prio] : R[T[u].prio][i] = u
        BY <4>1, <2>5 DEF QueueOK
      <4>3. CASE T[u].prio # n.prio
        BY <4>1, <4>2, <4>3, <2>2
      <4>4. CASE T[u].prio = n.prio
        BY <4>1, <4>2, <4>4, <2>2, <2>3
      <4>. QED BY <4>3, <4>4
    <3>. QED BY <3>1, <3>2
  <2>6. h # <<>>
    BY <2>1, <1>0
  <2>. QED
    BY <2>2, <2>4, <2>5, <2>6 DEF QueueOK
<1>3. CASE Q = InsertTail(R, n.prio, t)
  <2>. DEFINE h == Append(q, t)
  <2>1. /\ h \in Seq(Threads) /\ Len(h) = Len(q) + 1 /\ DOMAIN h = 1 .. Len(q) + 1
        /\ h[Len(q) + 1] = t /\ \A i \in 1 .. Len(q) : h[i] = q[i]
    BY <1>0
  <2>2. Q = [R EXCEPT ![n.prio] = h] /\ Q \in [Prio -> Seq(Threads)] /\ Q[n.prio] = h
    BY <1>3, <1>0, <2>1 DEF InsertTail
  <2>. HIDE DEF h
  <2>4. ASSUME NEW p \in Prio, NEW i \in DOMAIN Q[p]
        PROVE  /\ U[Q[p][i]].state = "READY" /\ U[Q[p][i]].prio = p
               /\ \A j \in DOMAIN Q[p] : Q[p][i] = Q[p][j] => i = j
    <3>1. CASE p # n.prio
      <4>1. Q[p] = R[p]
        BY <2>2, <3>1
      <4>. QED
        BY <4>1, <1>1, <2>4 DEF QueueOK
    <3>2. CASE p = n.prio
      <4>1. Q[p] = h /\ DOMAIN Q[p] = 1 .. Len(q) + 1
        BY <2>1, <2>2, <3>2
      <4>2. \A k \in 1 .. Len(q) : k \in DOMAIN q /\ h[k] # t /\ h[k] \in Threads
        BY <2>1, <1>0, <1>1
      <4>3. U[Q[p][i]].state = "READY" /\ U[Q[p][i]].prio = p
        BY <4>1, <4>2, <2>1, <1>0, <3>2 DEF QueueOK
      <4>4. ASSUME NEW j \in DOMAIN Q[p], Q[p][i] = Q[p][j] PROVE i = j
        <5>1. i \in 1 .. Len(q) + 1 /\ j \in 1 .. Len(q) + 1 /\ h[i] = h[j]
          BY <4>1, <4>4
        <5>2. CASE i = Len(q) + 1 \/ j = Len(q) + 1
          BY <5>1, <5>2, <4>2, <2>1, <1>0
        <5>3. CASE i \in 1 .. Len(q) /\ j \in 1 .. Len(q)
          <6>1. q[i] = q[j]
            BY <5>1, <5>3, <2>1
          <6>2. i \in DOMAIN q /\ j \in DOMAIN q
            BY <5>3, <1>0
          <6>3. \A a, b \in DOMAIN q : q[a] = q[b] => a = b
            BY <1>0 DEF QueueOK
          <6>. QED BY <6>1, <6>2, <6>3, Zenon
        <5>4. \/ i = Len(q) + 1 \/ j = Len(q) + 1
              \/ i \in 1 .. Len(q) /\ j \in 1 .. Len(q)
          <6>. HIDE DEF q
          <6>. QED BY <5>1, <1>0
        <5>. QED BY <5>2, <5>3, <5>4, Zenon
      <4>. QED BY <4>3, <4>4
    <3>. QED BY <3>1, <3>2
  <2>5. ASSUME NEW u \in Threads, U[u].state = "READY"
        PROVE  \E i \in DOMAIN Q[U[u].prio] : Q[U[u].prio][i] = u
    <3>1. CASE u = t
      <4>1. U[u].prio = n.prio /\ Len(q) + 1 \in DOMAIN h /\ h[Len(q) + 1] = u
        BY <3>1, <2>1, <1>0
      <4>. QED BY <4>1, <2>2
    <3>2. CASE u # t
      <4>1. U[u] = T[u] /\ T[u].prio \in Prio
        BY <3>2 DEF Thread
      <4>2. PICK i \in DOMAIN R[T[u].prio] : R[T[u].prio][i] = u
        BY <4>1, <2>5 DEF QueueOK
      <4>3. CASE T[u].prio # n.prio
        BY <4>1, <4>2, <4>3, <2>2
      <4>4. CASE T[u].prio = n.prio
        BY <4>1, <4>2, <4>4, <2>2, <2>1, <1>0
      <4>. QED BY <4>3, <4>4
    <3>. QED BY <3>1, <3>2
  <2>6. h # <<>>
    BY <2>1, <1>0
  <2>. QED
    BY <2>2, <2>4, <2>5, <2>6 DEF QueueOK
<1>. QED
  BY <1>2, <1>3

\* Neither a change to a thread that is not ready, nor one to a ready thread
\* that keeps its priority, touches the queues.
LEMMA KeepQueue ==
  ASSUME NEW T \in [Threads -> Thread], NEW R \in [Prio -> Seq(Threads)], QueueOK(T, R),
         NEW t \in Threads, NEW n \in Thread,
         \/ T[t].state # "READY" /\ n.state # "READY"
         \/ T[t].state = "READY" /\ n.state = "READY" /\ n.prio = T[t].prio
  PROVE  QueueOK([T EXCEPT ![t] = n], R)
<1>. DEFINE U == [T EXCEPT ![t] = n]
<1>1. \A u \in Threads : /\ U[u].state = "READY" <=> T[u].state = "READY"
                         /\ U[u].state = "READY" => U[u].prio = T[u].prio
  OBVIOUS
<1>2. \A p \in Prio : \A i \in DOMAIN R[p] : R[p][i] \in Threads
  OBVIOUS
<1>. HIDE DEF U
<1>3. ASSUME NEW p \in Prio, NEW i \in DOMAIN R[p]
      PROVE  /\ U[R[p][i]].state = "READY" /\ U[R[p][i]].prio = p
             /\ \A j \in DOMAIN R[p] : R[p][i] = R[p][j] => i = j
  BY <1>1, <1>2 DEF QueueOK
<1>4. ASSUME NEW u \in Threads, U[u].state = "READY"
      PROVE  \E i \in DOMAIN R[U[u].prio] : R[U[u].prio][i] = u
  <2>1. T[u].state = "READY" /\ U[u].prio = T[u].prio
    BY <1>1, <1>4
  <2>. QED BY <2>1 DEF QueueOK
<1>5. QueueOK(U, R)
  BY <1>3, <1>4 DEF QueueOK
<1>. QED
  BY <1>5 DEF U

\* What unlinking position k leaves of a queue.
LEMMA WithoutFacts ==
  ASSUME NEW q \in Seq(Threads), NEW k \in DOMAIN q
  PROVE  /\ Without(q, k) \in Seq(Threads)
         /\ Len(Without(q, k)) = Len(q) - 1
         /\ DOMAIN Without(q, k) = 1 .. (Len(q) - 1)
         /\ \A j \in 1 .. (Len(q) - 1) :
              Without(q, k)[j] = q[IF j < k THEN j ELSE j + 1]
         /\ \A i \in DOMAIN q : i # k => \E j \in DOMAIN Without(q, k) : Without(q, k)[j] = q[i]
<1>1. Len(q) \in Nat /\ DOMAIN q = 1 .. Len(q) /\ k \in 1 .. Len(q) /\ Len(q) - 1 \in Nat
  OBVIOUS
<1>. DEFINE w == [j \in 1 .. (Len(q) - 1) |-> IF j < k THEN q[j] ELSE q[j + 1]]
<1>2. w \in [1 .. (Len(q) - 1) -> Threads]
  BY <1>1
<1>3. w \in Seq(Threads) /\ Len(w) = Len(q) - 1
  BY <1>1, <1>2
<1>4. \A j \in 1 .. (Len(q) - 1) : w[j] = q[IF j < k THEN j ELSE j + 1]
  BY <1>1
<1>5. ASSUME NEW i \in DOMAIN q, i # k PROVE \E j \in DOMAIN w : w[j] = q[i]
  <2>. DEFINE j == IF i < k THEN i ELSE i - 1
  <2>1. j \in 1 .. (Len(q) - 1)
    BY <1>1, <1>5
  <2>2. w[j] = q[i]
    BY <1>1, <1>5, <2>1
  <2>. QED BY <2>1, <2>2
<1>6. Without(q, k) = w
  BY DEF Without
<1>7. DOMAIN w = 1 .. (Len(q) - 1)
  OBVIOUS
<1>. HIDE DEF w
<1>. QED
  BY <1>3, <1>4, <1>5, <1>6, <1>7

\* Unlinking a thread that is at position k of its queue and stops being ready.
LEMMA UnlinkQueue ==
  ASSUME NEW T \in [Threads -> Thread], NEW R \in [Prio -> Seq(Threads)], QueueOK(T, R),
         NEW t \in Threads, T[t].state = "READY",
         NEW n \in Thread, n.state # "READY",
         NEW k \in DOMAIN R[T[t].prio], R[T[t].prio][k] = t
  PROVE  QueueOK([T EXCEPT ![t] = n],
                 [R EXCEPT ![T[t].prio] = Without(R[T[t].prio], k)])
<1>. DEFINE pr == T[t].prio
            q == R[pr]
            w == Without(q, k)
            U == [T EXCEPT ![t] = n]
            Q == [R EXCEPT ![pr] = w]
<1>0. pr \in Prio /\ q \in Seq(Threads) /\ Len(q) \in Nat /\ DOMAIN q = 1 .. Len(q)
  BY SMTT(30) DEF Thread
<1>1. /\ w \in Seq(Threads) /\ DOMAIN w = 1 .. (Len(q) - 1)
      /\ \A j \in 1 .. (Len(q) - 1) : w[j] = q[IF j < k THEN j ELSE j + 1]
      /\ \A i \in DOMAIN q : i # k => \E j \in DOMAIN w : w[j] = q[i]
  BY <1>0, WithoutFacts
<1>2. Q[pr] = w /\ \A p \in Prio : p # pr => Q[p] = R[p]
  BY <1>0
<1>3. \A u \in Threads : u # t => U[u] = T[u]
  OBVIOUS
<1>4. U[t].state # "READY"
  OBVIOUS
<1>5. \A p \in Prio : \A i \in DOMAIN R[p] :
        /\ R[p][i] \in Threads
        /\ R[p][i] = t => p = pr /\ i = k
  <2>1. \A p \in Prio : \A i \in DOMAIN R[p] : R[p][i] \in Threads /\ T[R[p][i]].prio = p
    BY DEF QueueOK
  <2>2. \A i \in DOMAIN R[pr] : R[pr][i] = t => i = k
    BY <1>0 DEF QueueOK
  <2>. QED BY <2>1, <2>2
<1>. HIDE DEF w, U, Q
<1>6. ASSUME NEW p \in Prio, NEW i \in DOMAIN Q[p]
      PROVE  /\ U[Q[p][i]].state = "READY" /\ U[Q[p][i]].prio = p
             /\ \A j \in DOMAIN Q[p] : Q[p][i] = Q[p][j] => i = j
  <2>1. CASE p # pr
    <3>1. Q[p] = R[p]
      BY <1>2, <2>1
    <3>. QED BY <3>1, <2>1, <1>3, <1>5 DEF QueueOK
  <2>2. CASE p = pr
    <3>. DEFINE s(j) == IF j < k THEN j ELSE j + 1
    <3>1. \A j \in DOMAIN w : s(j) \in DOMAIN q /\ s(j) # k /\ w[j] = q[s(j)]
      BY <1>0, <1>1
    <3>2. \A a, b \in DOMAIN w : s(a) = s(b) => a = b
      BY <1>0, <1>1
    <3>3. \A a, b \in DOMAIN q : q[a] = q[b] => a = b
      BY <1>0 DEF QueueOK
    <3>4. \A a \in DOMAIN q : T[q[a]].state = "READY" /\ T[q[a]].prio = pr
      BY <1>0 DEF QueueOK
    <3>5. i \in DOMAIN w /\ Q[p] = w
      BY <1>2, <2>2
    <3>. HIDE DEF s
    <3>6. w[i] = q[s(i)] /\ q[s(i)] # t /\ q[s(i)] \in Threads
      BY <3>1, <3>5, <1>5, <1>0
    <3>7. U[w[i]].state = "READY" /\ U[w[i]].prio = pr
      BY <3>6, <3>4, <3>1, <3>5, <1>3
    <3>8. ASSUME NEW j \in DOMAIN w, w[i] = w[j] PROVE i = j
      BY <3>1, <3>2, <3>3, <3>5, <3>8
    <3>. QED BY <3>5, <3>7, <3>8, <2>2
  <2>. QED BY <2>1, <2>2
<1>7. ASSUME NEW u \in Threads, U[u].state = "READY"
      PROVE  \E i \in DOMAIN Q[U[u].prio] : Q[U[u].prio][i] = u
  <2>1. u # t /\ U[u] = T[u] /\ T[u].prio \in Prio
    BY <1>3, <1>4, <1>7 DEF Thread
  <2>2. PICK i \in DOMAIN R[T[u].prio] : R[T[u].prio][i] = u
    BY <2>1, <1>7 DEF QueueOK
  <2>3. CASE T[u].prio # pr
    BY <2>1, <2>2, <2>3, <1>2
  <2>4. CASE T[u].prio = pr
    <3>1. i \in DOMAIN q /\ q[i] = u /\ i # k
      BY <2>1, <2>2, <2>4
    <3>2. \E j \in DOMAIN w : w[j] = u
      BY <3>1, <1>1
    <3>. QED BY <3>2, <2>1, <2>4, <1>2
  <2>. QED BY <2>3, <2>4
<1>8. QueueOK(U, Q)
  BY <1>6, <1>7 DEF QueueOK
<1>. QED
  BY <1>8 DEF U, Q, w

\* The set bits of the summary have a highest one.
LEMMA HighestExists ==
  ASSUME summary \subseteq Prio, summary # {}
  PROVE  HighestReady \in summary /\ \A q \in summary : q <= HighestReady
<1>. DEFINE D == {d \in Nat : Levels - 1 - d \in summary}
            less == OpToRel(<, Nat)
<1>1. \A p \in summary : Levels - 1 - p \in D
  BY ConstantFacts DEF Prio
<1>2. IsWellFoundedOn(less, Nat)
  BY NatLessThanWellFounded
<1>3. \A y, d \in Nat : y < d => <<y, d>> \in less
  BY DEF OpToRel
<1>. HIDE DEF less
<1>4. PICK d \in D : \A y \in D : ~(<<y, d>> \in less)
  <2>1. D \subseteq Nat /\ D # {}
    BY <1>1
  <2>. QED BY <1>2, <2>1, WFMin, Zenon
<1>5. \A q \in summary : q <= Levels - 1 - d
  <2>. TAKE q \in summary
  <2>1. q \in Nat /\ d \in Nat /\ Levels \in Nat
    BY ConstantFacts DEF Prio
  <2>2. Levels - 1 - q \in D /\ Levels - 1 - q \in Nat
    BY <1>1
  <2>3. ~(Levels - 1 - q < d)
    BY <2>1, <2>2, <1>3, <1>4
  <2>. QED BY <2>1, <2>3
<1>6. \E x \in summary : \A q \in summary : q <= x
  BY <1>5
<1>. QED
  BY <1>6, Zenon DEF HighestReady

-----------------------------------------------------------------------------
(* mark_thread_ready.                                                      *)

BoostOK(r) == r.base <= r.prio /\ (r.prio > r.base => r.prio <= TimeCritical)

LEMMA BoostedFacts ==
  ASSUME NEW r \in Thread, BoostOK(r), NEW b \in {0, 1, 2}
  PROVE  /\ Boosted(r, b) \in Prio /\ r.base <= Boosted(r, b)
         /\ Boosted(r, b) > r.base => Boosted(r, b) <= TimeCritical
         /\ Decayed(r, Boosted(r, b)) \in Prio /\ r.base <= Decayed(r, Boosted(r, b))
         /\ Decayed(r, Boosted(r, b)) > r.base => Decayed(r, Boosted(r, b)) <= TimeCritical
  BY ConstantFacts DEF BoostOK, Boosted, Decayed, Thread, Prio

LEMMA ReadiedFacts ==
  ASSUME NEW r \in Thread, BoostOK(r), NEW c \in {0, 1}, NEW b \in {0, 1, 2},
         NEW n, n = Readied(r, c, b)
  PROVE  /\ n \in Thread /\ BoostOK(n)
         /\ n.susp = r.susp /\ n.alertable = r.alertable /\ n.interrupted = r.interrupted
         /\ n.pending = r.pending /\ n.blocked = r.blocked /\ n.base = r.base
         /\ Enqueues(r) => n.state = "READY"
         /\ ~Enqueues(r) => n = IF r.susp > 0 THEN [r EXCEPT !.state = "SUSPENDED"] ELSE r
         /\ r.susp > 0 <=> r.susp # 0
<1>1. r.quantum - c \in Int /\ DefQuantum \in Int /\ (r.susp > 0 <=> r.susp # 0)
  BY ConstantFacts DEF Thread
<1>. QED
  BY BoostedFacts, <1>1 DEF Readied, Thread, States, BoostOK, Enqueues

\* preempt is pending when a ready thread outranks the running one.
PreemptOK(T, pre) ==
  phase = "run" => \A u \in Threads : T[u].state = "READY" /\ T[u].prio > T[cur].prio => pre

LEMMA MarkReady ==
  ASSUME NEW T \in [Threads -> Thread], NEW R \in [Prio -> Seq(Threads)], NEW S \in SUBSET Prio,
         QueueOK(T, R), SummaryOK(R, S), PreemptOK(T, preempt),
         preempt \in BOOLEAN, panicked \in BOOLEAN, cur \in Threads,
         NEW t \in Threads, phase = "run" => t # cur,
         BoostOK(T[t]), T[t].state = "READY" => ~Enqueues(T[t]) /\ T[t].susp = 0,
         NEW c \in {0, 1}, NEW b \in {0, 1, 2},
         mark_thread_ready(T, R, S, t, c, b)
  PROVE  /\ thr' = [T EXCEPT ![t] = Readied(T[t], c, b)] /\ thr' \in [Threads -> Thread]
         /\ rq' \in [Prio -> Seq(Threads)] /\ summary' \in SUBSET Prio
         /\ QueueOK(thr', rq') /\ SummaryOK(rq', summary')
         /\ preempt' \in BOOLEAN /\ PreemptOK(thr', preempt')
         /\ panicked' = panicked
<1>. DEFINE n == Readied(T[t], c, b)
<1>1. /\ n \in Thread /\ BoostOK(n)
      /\ Enqueues(T[t]) => n.state = "READY"
      /\ ~Enqueues(T[t]) => n = IF T[t].susp > 0 THEN [T[t] EXCEPT !.state = "SUSPENDED"] ELSE T[t]
      /\ T[t].susp > 0 <=> T[t].susp # 0
  BY ReadiedFacts
<1>2. thr' = [T EXCEPT ![t] = n]
  BY DEF mark_thread_ready
<1>3. CASE ~Enqueues(T[t])
  <2>1. rq' = R /\ summary' = S /\ preempt' = preempt /\ panicked' = panicked
    BY <1>3 DEF mark_thread_ready
  <2>2. CASE T[t].susp > 0
    <3>1. T[t].state # "READY" /\ n.state = "SUSPENDED"
      BY <1>1, <1>3, <2>2 DEF Thread
    <3>2. QueueOK(thr', R)
      BY <3>1, <1>1, <1>2, KeepQueue
    <3>3. PreemptOK(thr', preempt)
      BY <3>1, <1>2 DEF PreemptOK
    <3>. QED BY <2>1, <3>2, <3>3, <1>1, <1>2
  <2>3. CASE ~(T[t].susp > 0)
    <3>1. n = T[t] /\ thr' = T
      BY <1>1, <1>2, <1>3, <2>3
    <3>. QED BY <2>1, <3>1, <1>2
  <2>. QED BY <2>2, <2>3
<1>4. CASE Enqueues(T[t])
  <2>0. n.state = "READY" /\ T[t].state # "READY" /\ n.prio \in Prio
    BY <1>1, <1>4 DEF Thread
  <2>1. /\ rq' = InsertHead(R, n.prio, t) \/ rq' = InsertTail(R, n.prio, t)
        /\ summary' = SummaryInsert(R, S, n.prio)
        /\ preempt' = (preempt \/ n.prio > thr'[cur].prio)
        /\ panicked' = (panicked \/ T[t].state = "READY")
    BY <1>4 DEF mark_thread_ready
  <2>. HIDE DEF n
  <2>2. /\ rq' \in [Prio -> Seq(Threads)]
        /\ rq'[n.prio] # <<>>
        /\ \A p \in Prio \ {n.prio} : rq'[p] = R[p]
        /\ QueueOK([T EXCEPT ![t] = n], rq')
    BY <2>0, <2>1, <1>1, InsertQueue, Zenon
  <2>3. summary' \in SUBSET Prio /\ SummaryOK(rq', summary')
    BY <2>0, <2>1, <2>2 DEF SummaryInsert, SummaryOK
  <2>4. preempt' \in BOOLEAN /\ panicked' = panicked
    BY <2>0, <2>1
  <2>5. PreemptOK(thr', preempt')
    <3>. SUFFICES ASSUME phase = "run", NEW u \in Threads,
                         thr'[u].state = "READY", thr'[u].prio > thr'[cur].prio
                  PROVE  preempt'
      BY DEF PreemptOK
    <3>1. CASE u = t
      BY <3>1, <2>1, <1>2
    <3>2. CASE u # t
      <4>1. T[u].state = "READY" /\ T[u].prio > T[cur].prio
        BY <3>2, <1>2
      <4>. QED BY <4>1, <2>1 DEF PreemptOK
    <3>. QED BY <3>1, <3>2
  <2>6. thr' \in [Threads -> Thread] /\ QueueOK(thr', rq')
    BY <1>1, <1>2, <2>2
  <2>. QED BY <1>2, <2>2, <2>3, <2>4, <2>5, <2>6 DEF n
<1>. QED
  BY <1>3, <1>4

-----------------------------------------------------------------------------
(* Inv from its parts, in the state before a step and in the one after.    *)

ThreadsOK(T, W) == \A t \in Threads : ThreadInv(T[t], t, W)

LEMMA InvParts ==
  ASSUME Inv
  PROVE  /\ thr \in [Threads -> Thread] /\ rq \in [Prio -> Seq(Threads)]
         /\ summary \in SUBSET Prio /\ preempt \in BOOLEAN /\ cur \in Threads
         /\ phase \in {"run", "dispatch"} /\ wakeup \in SUBSET Threads /\ panicked = FALSE
         /\ QueueOK(thr, rq) /\ SummaryOK(rq, summary) /\ PreemptOK(thr, preempt)
         /\ ThreadsOK(thr, wakeup)
         /\ \A t \in Threads : BoostOK(thr[t])
         /\ \A t \in Threads : thr[t].state = "RUNNING" <=> (t = cur /\ phase = "run")
         /\ IdleInv /\ thr[Idle].state \in {"READY", "RUNNING"} /\ thr[Idle].prio = 0
         /\ thr[Idle].base = 0 /\ Idle \notin wakeup
<1>1. \A t \in Threads : BoostOK(thr[t])
  BY DEF Inv, ThreadInv, BoostOK
<1>2. \A t \in Threads : thr[t].state = "RUNNING" <=> (t = cur /\ phase = "run")
  BY DEF Inv, OneRuns, TypeOK
<1>3. QueueOK(thr, rq) /\ SummaryOK(rq, summary) /\ PreemptOK(thr, preempt)
  BY DEF Inv, QueuesHoldReady, QueueOK, SummaryExact, SummaryOK, PreemptionPending, PreemptOK
<1>4. panicked = FALSE
  BY DEF Inv, NeverReadiedTwice, TypeOK
<1>. QED
  BY <1>1, <1>2, <1>3, <1>4 DEF Inv, TypeOK, IdleInv, ThreadsOK

LEMMA InvNext ==
  ASSUME thr' \in [Threads -> Thread], rq' \in [Prio -> Seq(Threads)],
         summary' \in SUBSET Prio, preempt' \in BOOLEAN, cur' \in Threads,
         phase' \in {"run", "dispatch"}, wakeup' \in SUBSET Threads, panicked' = FALSE,
         QueueOK(thr', rq'), SummaryExact', PreemptionPending', ThreadsOK(thr', wakeup'),
         \A t \in Threads : thr'[t].state = "RUNNING" <=> (t = cur' /\ phase' = "run"),
         IdleInv'
  PROVE  Inv'
<1>1. TypeOK'
  BY DEF TypeOK
<1>2. NeverReadiedTwice'
  BY DEF NeverReadiedTwice
<1>3. OneRuns'
  BY DEF OneRuns
<1>4. QueuesHoldReady'
  BY DEF QueueOK, QueuesHoldReady
<1>5. \A t \in Threads : ThreadInv(thr[t], t, wakeup)'
  BY DEF ThreadsOK, ThreadInv, signals_ready
<1>. QED
  BY <1>1, <1>2, <1>3, <1>4, <1>5 DEF Inv

\* Replacing the record of one thread, and possibly its wake-up source.
LEMMA ReplaceThread ==
  ASSUME thr \in [Threads -> Thread], ThreadsOK(thr, wakeup), wakeup \in SUBSET Threads,
         NEW t \in Threads, NEW n, thr' = [thr EXCEPT ![t] = n],
         ThreadInv(n, t, wakeup'),
         \A u : u # t => (u \in wakeup' <=> u \in wakeup)
  PROVE  thr' \in [Threads -> Thread] /\ ThreadsOK(thr', wakeup')
<1>1. n \in Thread
  BY DEF ThreadInv
<1>2. ASSUME NEW u \in Threads PROVE ThreadInv(thr'[u], u, wakeup')
  <2>1. CASE u = t
    BY <2>1
  <2>2. CASE u # t
    <3>1. thr'[u] = thr[u] /\ ThreadInv(thr[u], u, wakeup)
      BY <2>2 DEF ThreadsOK
    <3>. QED BY <3>1, <2>2 DEF ThreadInv
  <2>. QED BY <2>1, <2>2
<1>. QED
  BY <1>1, <1>2 DEF ThreadsOK

\* A step that makes one thread ready by mark_thread_ready, from a record m
\* of that thread and queues it is not in.
LEMMA MarkStep ==
  ASSUME Inv, NEW t \in Threads, t # Idle, phase = "run" => t # cur,
         cur' = cur, phase' = phase,
         wakeup' \in SUBSET Threads, \A u : u # t => (u \in wakeup' <=> u \in wakeup),
         NEW m \in Thread, BoostOK(m), m.state # "RUNNING",
         m.state = "READY" => ~Enqueues(m) /\ m.susp = 0,
         t \in wakeup' => m.interrupted,
         NEW R \in [Prio -> Seq(Threads)], NEW S \in SUBSET Prio,
         QueueOK([thr EXCEPT ![t] = m], R), SummaryOK(R, S),
         PreemptOK([thr EXCEPT ![t] = m], preempt),
         NEW c \in {0, 1}, NEW b \in {0, 1, 2},
         mark_thread_ready([thr EXCEPT ![t] = m], R, S, t, c, b)
  PROVE  Inv'
<1>. DEFINE T == [thr EXCEPT ![t] = m]
            n == Readied(m, c, b)
<1>0. /\ thr \in [Threads -> Thread] /\ preempt \in BOOLEAN /\ cur \in Threads
      /\ phase \in {"run", "dispatch"} /\ panicked = FALSE /\ wakeup \in SUBSET Threads
      /\ ThreadsOK(thr, wakeup) /\ IdleInv
      /\ \A u \in Threads : thr[u].state = "RUNNING" <=> (u = cur /\ phase = "run")
  BY InvParts
<1>1. T \in [Threads -> Thread] /\ T[t] = m
  BY <1>0
<1>2. /\ thr' = [T EXCEPT ![t] = n] /\ thr' \in [Threads -> Thread]
      /\ rq' \in [Prio -> Seq(Threads)] /\ summary' \in SUBSET Prio
      /\ QueueOK(thr', rq') /\ SummaryOK(rq', summary')
      /\ preempt' \in BOOLEAN /\ PreemptOK(thr', preempt')
      /\ panicked' = panicked
  <2>. HIDE DEF T
  <2>1. mark_thread_ready(T, R, S, t, c, b) /\ QueueOK(T, R) /\ PreemptOK(T, preempt)
    BY DEF T
  <2>2. panicked \in BOOLEAN
    BY <1>0
  <2>. QED BY <1>0, <1>1, <2>1, <2>2, MarkReady
<1>3. thr' = [thr EXCEPT ![t] = n]
  BY <1>2, <1>0
<1>4. /\ n \in Thread /\ BoostOK(n)
      /\ n.susp = m.susp /\ n.interrupted = m.interrupted
      /\ Enqueues(m) => n.state = "READY"
      /\ ~Enqueues(m) => n = IF m.susp > 0 THEN [m EXCEPT !.state = "SUSPENDED"] ELSE m
      /\ m.susp > 0 <=> m.susp # 0
  BY ReadiedFacts
<1>5. n.state \in {"READY", "SUSPENDED"} /\ (n.susp > 0 => n.state = "SUSPENDED")
  BY <1>4 DEF Enqueues, Thread
<1>. HIDE DEF n
<1>6. ThreadInv(n, t, wakeup')
  BY <1>4, <1>5 DEF ThreadInv, BoostOK
<1>7. ThreadsOK(thr', wakeup')
  BY <1>0, <1>3, <1>6, ReplaceThread
<1>8. \A u \in Threads : thr'[u].state = "RUNNING" <=> (u = cur' /\ phase' = "run")
  BY <1>0, <1>3, <1>5
<1>9. IdleInv'
  BY <1>0, <1>3, ConstantFacts DEF IdleInv
<1>10. SummaryExact' /\ PreemptionPending'
  BY <1>2 DEF SummaryOK, SummaryExact, PreemptOK, PreemptionPending
<1>. QED
  BY <1>0, <1>2, <1>7, <1>8, <1>9, <1>10, InvNext

\* A step that changes one thread's record and leaves the queues alone.
LEMMA RecordStep ==
  ASSUME Inv, NEW t \in Threads, NEW n, thr' = [thr EXCEPT ![t] = n],
         ThreadInv(n, t, wakeup), rq' = rq, summary' = summary, cur' = cur, phase' = phase,
         wakeup' = wakeup, panicked' = panicked, preempt' \in BOOLEAN, preempt => preempt',
         \/ /\ n.state = thr[t].state
            /\ \/ n.prio = thr[t].prio /\ n.base = thr[t].base
               \/ t # Idle /\ n.state # "READY" /\ (t = cur => n.prio >= thr[t].prio)
         \/ n.state \notin {"READY", "RUNNING"} /\ thr[t].state \notin {"READY", "RUNNING"}
  PROVE  Inv'
<1>0. /\ thr \in [Threads -> Thread] /\ rq \in [Prio -> Seq(Threads)]
      /\ summary \in SUBSET Prio /\ preempt \in BOOLEAN /\ cur \in Threads
      /\ phase \in {"run", "dispatch"} /\ panicked = FALSE /\ wakeup \in SUBSET Threads
      /\ QueueOK(thr, rq) /\ SummaryOK(rq, summary) /\ PreemptOK(thr, preempt)
      /\ ThreadsOK(thr, wakeup) /\ IdleInv
      /\ \A u \in Threads : thr[u].state = "RUNNING" <=> (u = cur /\ phase = "run")
  BY InvParts
<1>1. thr' \in [Threads -> Thread] /\ ThreadsOK(thr', wakeup') /\ n \in Thread
  BY <1>0, ReplaceThread DEF ThreadInv
<1>2. QueueOK(thr', rq')
  BY <1>0, <1>1, KeepQueue
<1>3. \A u \in Threads : thr'[u].state = "RUNNING" <=> (u = cur' /\ phase' = "run")
  BY <1>0
<1>4. SummaryExact'
  BY <1>0 DEF SummaryOK, SummaryExact
<1>5. PreemptionPending'
  <2>. SUFFICES ASSUME phase = "run", NEW u \in Threads,
                       thr'[u].state = "READY", thr'[u].prio > thr'[cur].prio
                PROVE  preempt'
    BY DEF PreemptionPending
  <2>1. thr[u].state = "READY" /\ thr'[u].prio = thr[u].prio
    BY <1>0
  <2>2. \A v \in Threads : thr[v].prio \in Int /\ thr'[v].prio \in Int
    BY <1>0, <1>1 DEF Thread, Prio
  <2>3. thr[cur].state = "RUNNING"
    BY <1>0
  <2>4. thr'[cur].prio >= thr[cur].prio
    <3>1. CASE t = cur
      BY <3>1, <2>2, <2>3, <1>0
    <3>2. CASE t # cur
      BY <3>2, <2>2, <1>0
    <3>. QED BY <3>1, <3>2
  <2>5. thr[u].prio > thr[cur].prio
    BY <2>1, <2>2, <2>4, <1>0
  <2>. QED BY <2>1, <2>5, <1>0 DEF PreemptOK
<1>6. IdleInv'
  BY <1>0, ConstantFacts DEF IdleInv
<1>. QED
  BY <1>0, <1>1, <1>2, <1>3, <1>4, <1>5, <1>6, InvNext

\* The running thread stops running and does not become ready.
LEMMA LeaveStep ==
  ASSUME Inv, phase = "run", cur # Idle, NEW n, thr' = [thr EXCEPT ![cur] = n],
         n.state \notin {"READY", "RUNNING"}, ThreadInv(n, cur, wakeup'),
         wakeup' \in SUBSET Threads, \A u : u # cur => (u \in wakeup' <=> u \in wakeup),
         rq' = rq, summary' = summary, cur' = cur, phase' = "dispatch",
         preempt' = FALSE, panicked' = panicked
  PROVE  Inv'
<1>0. /\ thr \in [Threads -> Thread] /\ rq \in [Prio -> Seq(Threads)]
      /\ summary \in SUBSET Prio /\ cur \in Threads
      /\ panicked = FALSE /\ wakeup \in SUBSET Threads
      /\ QueueOK(thr, rq) /\ SummaryOK(rq, summary)
      /\ ThreadsOK(thr, wakeup) /\ IdleInv
      /\ \A u \in Threads : thr[u].state = "RUNNING" <=> u = cur
  BY InvParts
<1>1. thr' \in [Threads -> Thread] /\ ThreadsOK(thr', wakeup') /\ n \in Thread
  BY <1>0, ReplaceThread DEF ThreadInv
<1>2. QueueOK(thr', rq')
  <2>1. thr[cur].state # "READY"
    BY <1>0
  <2>. QED BY <1>0, <1>1, <2>1, KeepQueue
<1>3. \A u \in Threads : thr'[u].state = "RUNNING" <=> (u = cur' /\ phase' = "run")
  BY <1>0
<1>4. SummaryExact' /\ PreemptionPending'
  BY <1>0 DEF SummaryOK, SummaryExact, PreemptionPending
<1>5. IdleInv'
  BY <1>0, ConstantFacts DEF IdleInv
<1>. QED
  BY <1>0, <1>1, <1>2, <1>3, <1>4, <1>5, InvNext

\* The running thread goes back to a ready queue.
LEMMA LeaveReadyStep ==
  ASSUME Inv, phase = "run", NEW n, thr' = [thr EXCEPT ![cur] = n],
         n.state = "READY", ThreadInv(n, cur, wakeup),
         cur = Idle => n.prio = 0 /\ n.base = 0,
         rq' = InsertHead(rq, n.prio, cur) \/ rq' = InsertTail(rq, n.prio, cur),
         summary' = SummaryInsert(rq, summary, n.prio), cur' = cur, phase' = "dispatch",
         wakeup' = wakeup, preempt' = FALSE, panicked' = panicked
  PROVE  Inv'
<1>0. /\ thr \in [Threads -> Thread] /\ rq \in [Prio -> Seq(Threads)]
      /\ summary \in SUBSET Prio /\ cur \in Threads
      /\ panicked = FALSE /\ wakeup \in SUBSET Threads
      /\ QueueOK(thr, rq) /\ SummaryOK(rq, summary)
      /\ ThreadsOK(thr, wakeup) /\ IdleInv
      /\ \A u \in Threads : thr[u].state = "RUNNING" <=> u = cur
  BY InvParts
<1>1. /\ thr' \in [Threads -> Thread] /\ ThreadsOK(thr', wakeup')
      /\ n \in Thread /\ n.prio \in Prio
  BY <1>0, ReplaceThread DEF ThreadInv, Thread
<1>2. /\ rq' \in [Prio -> Seq(Threads)]
      /\ rq'[n.prio] # <<>>
      /\ \A p \in Prio \ {n.prio} : rq'[p] = rq[p]
      /\ QueueOK([thr EXCEPT ![cur] = n], rq')
  <2>1. thr[cur].state # "READY"
    BY <1>0
  <2>2. rq' = InsertHead(rq, n.prio, cur) \/ rq' = InsertTail(rq, n.prio, cur)
    OBVIOUS
  <2>3. n \in Thread /\ n.state = "READY"
    BY <1>1
  <2>4. /\ thr \in [Threads -> Thread] /\ rq \in [Prio -> Seq(Threads)] /\ QueueOK(thr, rq)
        /\ cur \in Threads
    BY <1>0
  <2>. QED BY <2>1, <2>2, <2>3, <2>4, InsertQueue, Zenon
<1>3. \A u \in Threads : thr'[u].state = "RUNNING" <=> (u = cur' /\ phase' = "run")
  BY <1>0
<1>4. SummaryExact' /\ summary' \in SUBSET Prio
  BY <1>0, <1>1, <1>2 DEF SummaryInsert, SummaryOK, SummaryExact
<1>5. PreemptionPending'
  BY DEF PreemptionPending
<1>6. IdleInv'
  BY <1>0, ConstantFacts DEF IdleInv
<1>7. QueueOK(thr', rq')
  BY <1>2
<1>. QED
  BY <1>0, <1>1, <1>2, <1>3, <1>4, <1>5, <1>6, <1>7, InvNext

\* remove_from_ready_queue finds a ready thread in the queue of its priority.
LEMMA RemoveFacts ==
  ASSUME Inv, NEW t \in Threads, thr[t].state = "READY", NEW n \in Thread, n.state # "READY"
  PROVE  /\ QueueOK([thr EXCEPT ![t] = n], RemoveReady(t))
         /\ RemoveReady(t) \in [Prio -> Seq(Threads)]
         /\ SummaryRemove(t) \in SUBSET Prio
         /\ SummaryOK(RemoveReady(t), SummaryRemove(t))
<1>. DEFINE pr == thr[t].prio
            k == Position(rq[pr], t)
            w == Without(rq[pr], k)
<1>0. /\ thr \in [Threads -> Thread] /\ rq \in [Prio -> Seq(Threads)]
      /\ summary \in SUBSET Prio /\ QueueOK(thr, rq) /\ SummaryOK(rq, summary)
  BY InvParts
<1>1. pr \in Prio /\ rq[pr] \in Seq(Threads) /\ Len(rq[pr]) \in Nat
      /\ DOMAIN rq[pr] = 1 .. Len(rq[pr])
  BY <1>0 DEF Thread
<1>2. k \in DOMAIN rq[pr] /\ rq[pr][k] = t
  <2>1. \E i \in DOMAIN rq[pr] : rq[pr][i] = t
    BY <1>0 DEF QueueOK
  <2>. QED BY <2>1, Zenon DEF Position
<1>3. RemoveReady(t) = [rq EXCEPT ![pr] = w]
  BY <1>0, <1>1 DEF RemoveReady
<1>. HIDE DEF k
<1>4. w \in Seq(Threads) /\ Len(w) = Len(rq[pr]) - 1
  BY <1>1, <1>2, WithoutFacts
<1>5. QueueOK([thr EXCEPT ![t] = n], [rq EXCEPT ![pr] = w])
  BY <1>0, <1>2, UnlinkQueue
<1>. HIDE DEF w
<1>6. SummaryOK(RemoveReady(t), SummaryRemove(t))
  <2>1. Len(rq[pr]) = 1 <=> w = <<>>
    <3>1. w = <<>> <=> Len(w) = 0
      BY <1>4, EmptySeq
    <3>. HIDE DEF pr
    <3>. QED BY <3>1, <1>1, <1>4
  <2>2. rq[pr] # <<>>
    BY <1>1, <1>2
  <2>. QED BY <1>0, <1>1, <1>3, <2>1, <2>2 DEF SummaryRemove, SummaryOK
<1>. QED
  BY <1>0, <1>1, <1>3, <1>4, <1>5, <1>6 DEF SummaryRemove

-----------------------------------------------------------------------------
(* Every action preserves Inv.                                             *)

LEMMA InitInv == Init => Inv
<1>. SUFFICES ASSUME Init PROVE Inv
  OBVIOUS
<1>. USE DEF Init
<1>0. 0 \in 0 .. MaxSuspend /\ 0 \in Int
  BY ConstantFacts
<1>1. \A p \in Prio : /\ NewThread(p) \in Thread
                      /\ [NewThread(p) EXCEPT !.state = "RUNNING"] \in Thread
  BY <1>0 DEF NewThread, Thread, States
<1>2. TypeOK
  <2>1. thr \in [Threads -> Thread]
    BY <1>1, ConstantFacts
  <2>2. rq \in [Prio -> Seq(Threads)] /\ summary \in SUBSET Prio
    BY ConstantFacts
  <2>. QED BY <2>1, <2>2, ConstantFacts DEF TypeOK
<1>3. \A t \in Threads : /\ thr[t].state = IF t = Idle THEN "RUNNING" ELSE "NONE"
                         /\ thr[t].base = thr[t].prio /\ thr[t].susp = 0
                         /\ thr[t].interrupted = FALSE /\ thr[t].alertable = FALSE
                         /\ thr[t] \in Thread
  BY <1>1, ConstantFacts DEF NewThread
<1>4. \A t \in Threads : ThreadInv(thr[t], t, wakeup)
  <2>. TAKE t \in Threads
  <2>1. thr[t].prio \in Int /\ thr[t] \in Thread /\ thr[t].base = thr[t].prio
    BY <1>3 DEF Thread, Prio
  <2>2. thr[t].base <= thr[t].prio /\ ~(thr[t].prio > thr[t].base) /\ ~(thr[t].susp > 0)
    BY <2>1, <1>3
  <2>. QED BY <1>3, <2>1, <2>2 DEF ThreadInv
<1>5. IdleInv
  BY ConstantFacts DEF IdleInv, NewThread
<1>6. OneRuns /\ NeverReadiedTwice /\ PreemptionPending
  BY <1>3, ConstantFacts DEF OneRuns, NeverReadiedTwice, PreemptionPending
<1>7. QueuesHoldReady /\ SummaryExact
  BY <1>3, ConstantFacts DEF QueuesHoldReady, SummaryExact
<1>. QED
  BY <1>2, <1>4, <1>5, <1>6, <1>7 DEF Inv

\* The thread that a call or a DPC makes ready from a record m that is not
\* ready: the queues are as they were.
LEMMA MarkFresh ==
  ASSUME Inv, NEW t \in Threads, t # Idle, phase = "run" => t # cur,
         thr[t].state # "READY",
         cur' = cur, phase' = phase,
         wakeup' \in SUBSET Threads, \A u : u # t => (u \in wakeup' <=> u \in wakeup),
         NEW m \in Thread, BoostOK(m), m.state \notin {"READY", "RUNNING"},
         t \in wakeup' => m.interrupted,
         NEW c \in {0, 1}, NEW b \in {0, 1, 2},
         mark_thread_ready([thr EXCEPT ![t] = m], rq, summary, t, c, b)
  PROVE  Inv'
<1>0. /\ thr \in [Threads -> Thread] /\ rq \in [Prio -> Seq(Threads)] /\ cur \in Threads
      /\ summary \in SUBSET Prio /\ QueueOK(thr, rq) /\ SummaryOK(rq, summary)
      /\ PreemptOK(thr, preempt)
  BY InvParts
<1>1. QueueOK([thr EXCEPT ![t] = m], rq)
  BY <1>0, KeepQueue
<1>2. PreemptOK([thr EXCEPT ![t] = m], preempt)
  BY <1>0 DEF PreemptOK
<1>. QED
  BY <1>0, <1>1, <1>2, MarkStep

LEMMA WakeInv ==
  ASSUME Inv, NEW t \in Threads, NEW c \in {0, 1}, NEW b \in {0, 1, 2}, Wake(t, c, b)
  PROVE  Inv'
<1>0. /\ t \in wakeup /\ wakeup' = wakeup \ {t} /\ cur' = cur /\ phase' = phase
      /\ mark_thread_ready(thr, rq, summary, t, c, b)
  BY DEF Wake
<1>1. /\ thr \in [Threads -> Thread] /\ rq \in [Prio -> Seq(Threads)] /\ wakeup \in SUBSET Threads
      /\ summary \in SUBSET Prio /\ QueueOK(thr, rq) /\ SummaryOK(rq, summary)
      /\ PreemptOK(thr, preempt) /\ BoostOK(thr[t]) /\ Idle \notin wakeup
      /\ ThreadInv(thr[t], t, wakeup) /\ thr[t] \in Thread
      /\ thr[t].state = "RUNNING" <=> (t = cur /\ phase = "run")
  BY InvParts DEF ThreadsOK
<1>2. /\ thr[t].state = "WAITING" \/ (thr[t].interrupted /\ thr[t].state \in {"READY", "SUSPENDED"})
      /\ thr[t].state = "READY" => ~(thr[t].susp > 0)
  BY <1>0, <1>1 DEF ThreadInv
<1>3. thr[t].state = "READY" => ~Enqueues(thr[t]) /\ thr[t].susp = 0
  BY <1>1, <1>2 DEF Enqueues, Thread
<1>4. [thr EXCEPT ![t] = thr[t]] = thr
  BY <1>1
<1>5. t # Idle /\ (phase = "run" => t # cur) /\ thr[t].state # "RUNNING"
  BY <1>0, <1>1, <1>2
<1>6. wakeup' \in SUBSET Threads /\ t \notin wakeup' /\ \A u : u # t => (u \in wakeup' <=> u \in wakeup)
  BY <1>0, <1>1
<1>. DEFINE m == thr[t]
<1>7. /\ QueueOK([thr EXCEPT ![t] = m], rq) /\ PreemptOK([thr EXCEPT ![t] = m], preempt)
      /\ mark_thread_ready([thr EXCEPT ![t] = m], rq, summary, t, c, b)
      /\ m \in Thread /\ BoostOK(m) /\ m.state # "RUNNING"
      /\ (m.state = "READY" => ~Enqueues(m) /\ m.susp = 0)
  BY <1>0, <1>1, <1>3, <1>4, <1>5
<1>. HIDE DEF m
<1>8. /\ rq \in [Prio -> Seq(Threads)] /\ summary \in SUBSET Prio /\ SummaryOK(rq, summary)
      /\ cur' = cur /\ phase' = phase /\ t # Idle /\ (phase = "run" => t # cur)
      /\ (t \in wakeup' => m.interrupted)
  BY <1>0, <1>1, <1>5, <1>6
<1>. QED
  BY <1>6, <1>7, <1>8, MarkStep

LEMMA CreateKernelInv ==
  ASSUME Inv, NEW t \in Threads, CreateKernelThread(t) PROVE Inv'
<1>. DEFINE m == [thr[t] EXCEPT !.state = "INITIALIZED"]
<1>0. /\ thr \in [Threads -> Thread] /\ wakeup \in SUBSET Threads /\ BoostOK(thr[t])
      /\ ThreadInv(thr[t], t, wakeup) /\ thr[t] \in Thread
      /\ thr[Idle].state \in {"READY", "RUNNING"}
      /\ thr[t].state = "RUNNING" <=> (t = cur /\ phase = "run")
  BY InvParts DEF ThreadsOK
<1>1. /\ phase = "run" /\ thr[t].state = "NONE" /\ cur' = cur /\ phase' = phase /\ wakeup' = wakeup
      /\ mark_thread_ready([thr EXCEPT ![t].state = "INITIALIZED"], rq, summary, t, 0, 0)
  BY DEF CreateKernelThread
<1>2. t # Idle /\ t # cur /\ t \notin wakeup
  BY <1>0, <1>1 DEF ThreadInv
<1>3. m \in Thread /\ BoostOK(m) /\ m.state = "INITIALIZED"
  BY <1>0 DEF Thread, States, BoostOK
<1>4. [thr EXCEPT ![t].state = "INITIALIZED"] = [thr EXCEPT ![t] = m]
  BY <1>0
<1>5. mark_thread_ready([thr EXCEPT ![t] = m], rq, summary, t, 0, 0)
  BY <1>1, <1>4
<1>. HIDE DEF m
<1>. QED
  BY <1>0, <1>1, <1>2, <1>3, <1>5, MarkFresh

LEMMA CreateUserInv ==
  ASSUME Inv, NEW t \in Threads, CreateUserThread(t) PROVE Inv'
<1>. DEFINE n == [thr[t] EXCEPT !.state = "INITIALIZED", !.susp = 1]
<1>0. /\ thr \in [Threads -> Thread] /\ wakeup \in SUBSET Threads /\ preempt \in BOOLEAN
      /\ ThreadInv(thr[t], t, wakeup) /\ thr[t] \in Thread
  BY InvParts DEF ThreadsOK
<1>1. /\ thr[t].state = "NONE" /\ cur' = cur /\ phase' = phase /\ wakeup' = wakeup
      /\ thr' = [thr EXCEPT ![t].state = "INITIALIZED", ![t].susp = 1]
      /\ rq' = rq /\ summary' = summary /\ panicked' = panicked
      /\ preempt' = (preempt \/ thr[t].prio > thr[cur].prio)
  BY DEF CreateUserThread
<1>2. thr' = [thr EXCEPT ![t] = n]
  BY <1>0, <1>1
<1>3. n \in Thread /\ n.state = "INITIALIZED" /\ ThreadInv(n, t, wakeup)
  <2>1. 1 \in 0 .. MaxSuspend
    BY ConstantFacts
  <2>2. n \in Thread /\ n.state = "INITIALIZED"
    BY <1>0, <2>1 DEF Thread, States
  <2>3. n.prio = thr[t].prio /\ n.base = thr[t].base /\ n.interrupted = thr[t].interrupted
    BY <1>0 DEF Thread
  <2>. QED BY <1>0, <1>1, <2>2, <2>3 DEF ThreadInv
<1>. HIDE DEF n
<1>4. preempt' \in BOOLEAN /\ (preempt => preempt')
  BY <1>0, <1>1
<1>. QED
  BY <1>0, <1>1, <1>2, <1>3, <1>4, RecordStep

\* What Inv says of the thread that runs.
LEMMA RunningFacts ==
  ASSUME Inv, phase = "run"
  PROVE  /\ thr \in [Threads -> Thread] /\ cur \in Threads /\ thr[cur] \in Thread
         /\ thr[cur].state = "RUNNING" /\ thr[cur].susp = 0 /\ BoostOK(thr[cur])
         /\ ~thr[cur].interrupted /\ ~thr[cur].alertable /\ cur \notin wakeup
         /\ wakeup \in SUBSET Threads /\ preempt \in BOOLEAN
         /\ cur = Idle => thr[cur].prio = 0 /\ thr[cur].base = 0
<1>0. /\ thr \in [Threads -> Thread] /\ cur \in Threads /\ thr[cur].state = "RUNNING"
      /\ ThreadInv(thr[cur], cur, wakeup) /\ wakeup \in SUBSET Threads /\ preempt \in BOOLEAN
      /\ thr[Idle].prio = 0 /\ thr[Idle].base = 0 /\ BoostOK(thr[cur])
  BY InvParts DEF ThreadsOK
<1>1. thr[cur] \in Thread /\ ~(thr[cur].susp > 0)
  BY <1>0 DEF ThreadInv
<1>2. thr[cur].susp = 0
  BY <1>1 DEF Thread
<1>. QED
  BY <1>0, <1>1, <1>2 DEF ThreadInv

LEMMA EnterWaitInv == ASSUME Inv, enter_wait PROVE Inv'
<1>. DEFINE n == [thr[cur] EXCEPT !.state = "WAITING"]
<1>0. phase = "run"
  BY DEF enter_wait
<1>1. thr' = [thr EXCEPT ![cur] = n]
  BY <1>0, RunningFacts DEF enter_wait
<1>2. n \in Thread /\ n.state = "WAITING" /\ n.susp = 0 /\ ~n.alertable /\ ~n.interrupted
      /\ BoostOK(n)
  BY <1>0, RunningFacts DEF Thread, States, BoostOK
<1>3. /\ wakeup' \in SUBSET Threads /\ cur \in wakeup'
      /\ \A u : u # cur => (u \in wakeup' <=> u \in wakeup)
  BY <1>0, RunningFacts DEF enter_wait
<1>. HIDE DEF n
<1>4. ThreadInv(n, cur, wakeup')
  BY <1>2, <1>3 DEF ThreadInv, BoostOK
<1>5. n.state \notin {"READY", "RUNNING"}
  BY <1>2
<1>. QED
  BY <1>0, <1>1, <1>3, <1>4, <1>5, LeaveStep DEF enter_wait

LEMMA EnterAlertableInv == ASSUME Inv, enter_alertable_wait PROVE Inv'
<1>. DEFINE n == [thr[cur] EXCEPT !.state = "WAITING", !.alertable = TRUE, !.interrupted = FALSE]
<1>0. phase = "run" /\ ~signals_ready(thr[cur])
  BY DEF enter_alertable_wait
<1>1. thr' = [thr EXCEPT ![cur] = n]
  BY <1>0, RunningFacts DEF enter_alertable_wait
<1>2. n \in Thread /\ n.state = "WAITING" /\ n.susp = 0 /\ ~signals_ready(n) /\ ~n.interrupted
      /\ BoostOK(n)
  BY <1>0, RunningFacts DEF Thread, States, BoostOK, signals_ready
<1>3. /\ wakeup' \in SUBSET Threads /\ cur \in wakeup'
      /\ \A u : u # cur => (u \in wakeup' <=> u \in wakeup)
  BY <1>0, RunningFacts DEF enter_alertable_wait
<1>. HIDE DEF n
<1>4. ThreadInv(n, cur, wakeup')
  BY <1>2, <1>3 DEF ThreadInv, BoostOK
<1>5. n.state \notin {"READY", "RUNNING"}
  BY <1>2
<1>. QED
  BY <1>0, <1>1, <1>3, <1>4, <1>5, LeaveStep DEF enter_alertable_wait

LEMMA TerminateInv == ASSUME Inv, terminate_thread PROVE Inv'
<1>. DEFINE n == [thr[cur] EXCEPT !.state = "TERMINATED"]
<1>0. phase = "run" /\ cur # Idle
  BY ConstantFacts DEF terminate_thread, InUserCall
<1>1. thr' = [thr EXCEPT ![cur] = n]
  BY <1>0, RunningFacts DEF terminate_thread
<1>2. n \in Thread /\ n.state = "TERMINATED" /\ n.susp = 0 /\ ~n.interrupted /\ BoostOK(n)
  BY <1>0, RunningFacts DEF Thread, States, BoostOK
<1>3. /\ wakeup' \in SUBSET Threads /\ cur \notin wakeup'
      /\ \A u : u # cur => (u \in wakeup' <=> u \in wakeup)
  BY <1>0, RunningFacts DEF terminate_thread
<1>. HIDE DEF n
<1>4. ThreadInv(n, cur, wakeup')
  BY <1>2, <1>3 DEF ThreadInv, BoostOK
<1>5. n.state \notin {"READY", "RUNNING"}
  BY <1>2
<1>. QED
  BY <1>0, <1>1, <1>3, <1>4, <1>5, LeaveStep DEF terminate_thread

\* yield, the idle loop and a thread that lowers its own priority.
LEMMA RequeueInv ==
  ASSUME Inv, phase = "run", NEW m \in Thread, BoostOK(m), m.state = "RUNNING", m.susp = 0,
         ~m.interrupted, cur = Idle => m.prio = 0 /\ m.base = 0,
         cur' = cur, wakeup' = wakeup, mark_ready_and_dispatch([thr EXCEPT ![cur] = m], cur)
  PROVE  Inv'
<1>. DEFINE n == Readied(m, 0, 0)
<1>0. thr \in [Threads -> Thread] /\ cur \in Threads /\ cur \notin wakeup
  BY RunningFacts
<1>1. [thr EXCEPT ![cur] = m][cur] = m
  BY <1>0
<1>2. /\ thr' = [[thr EXCEPT ![cur] = m] EXCEPT ![cur] = n]
      /\ rq' = InsertHead(rq, n.prio, cur) \/ rq' = InsertTail(rq, n.prio, cur)
      /\ summary' = SummaryInsert(rq, summary, n.prio) /\ phase' = "dispatch"
      /\ preempt' = FALSE /\ panicked' = panicked
  BY <1>1 DEF mark_ready_and_dispatch
<1>3. thr' = [thr EXCEPT ![cur] = n]
  BY <1>0, <1>2
<1>4. Enqueues(m)
  BY DEF Enqueues
<1>5. n \in Thread /\ BoostOK(n) /\ n.susp = 0 /\ ~n.interrupted /\ n.state = "READY" /\ n.base = m.base
  BY <1>4, ReadiedFacts
<1>6. cur = Idle => n.prio = 0 /\ n.base = 0
  <2>. SUFFICES ASSUME cur = Idle PROVE n.prio = 0
    BY <1>5
  <2>1. Boosted(m, 0) = 0 /\ Decayed(m, 0) = 0
    BY ConstantFacts DEF Boosted, Decayed, Prio
  <2>. QED BY <2>1, <1>4 DEF Readied, Thread, Enqueues
<1>. HIDE DEF n
<1>7. ThreadInv(n, cur, wakeup)
  BY <1>0, <1>5 DEF ThreadInv, BoostOK
<1>. QED
  BY <1>2, <1>3, <1>5, <1>6, <1>7, LeaveReadyStep

LEMMA YieldInv == ASSUME Inv, yield PROVE Inv'
<1>. DEFINE m == [thr[cur] EXCEPT !.quantum = 0]
<1>0. phase = "run" /\ cur # Idle
  BY DEF yield
<1>1. [thr EXCEPT ![cur].quantum = 0] = [thr EXCEPT ![cur] = m]
  BY <1>0, RunningFacts
<1>2. m \in Thread /\ BoostOK(m) /\ m.state = "RUNNING" /\ m.susp = 0 /\ ~m.interrupted
  BY <1>0, RunningFacts DEF Thread, BoostOK
<1>3. cur' = cur /\ wakeup' = wakeup /\ mark_ready_and_dispatch([thr EXCEPT ![cur] = m], cur)
  BY <1>1 DEF yield
<1>. HIDE DEF m
<1>. QED
  BY <1>0, <1>2, <1>3, RequeueInv

LEMMA IdleTaskInv == ASSUME Inv, idle_task PROVE Inv'
<1>. DEFINE m == thr[cur]
<1>0. phase = "run" /\ cur = Idle
  BY DEF idle_task
<1>1. thr = [thr EXCEPT ![cur] = m]
  BY <1>0, RunningFacts
<1>2. m \in Thread /\ BoostOK(m) /\ m.state = "RUNNING" /\ m.susp = 0 /\ ~m.interrupted
      /\ m.prio = 0 /\ m.base = 0
  BY <1>0, RunningFacts
<1>3. cur' = cur /\ wakeup' = wakeup /\ mark_ready_and_dispatch([thr EXCEPT ![cur] = m], cur)
  BY <1>0, <1>1 DEF idle_task
<1>. HIDE DEF m
<1>. QED
  BY <1>0, <1>2, <1>3, RequeueInv

LEMMA PreemptInv == ASSUME Inv, preempt_thread PROVE Inv'
<1>. DEFINE r == thr[cur]
            n == IF r.quantum <= 0
                 THEN [r EXCEPT !.state = "READY", !.quantum = DefQuantum, !.prio = Decayed(r, r.prio)]
                 ELSE [r EXCEPT !.state = "READY"]
<1>0. phase = "run" /\ cur # Idle
  BY ConstantFacts DEF preempt_thread, InUserCall
<1>1. /\ thr' = [thr EXCEPT ![cur] = n] /\ rq' = InsertTail(rq, n.prio, cur)
      /\ summary' = SummaryInsert(rq, summary, n.prio) /\ cur' = cur /\ phase' = "dispatch"
      /\ wakeup' = wakeup /\ preempt' = FALSE /\ panicked' = panicked
  BY DEF preempt_thread
<1>2. Decayed(r, r.prio) \in Prio /\ r.base <= Decayed(r, r.prio)
      /\ (Decayed(r, r.prio) > r.base => Decayed(r, r.prio) <= TimeCritical)
  BY <1>0, RunningFacts, ConstantFacts DEF Decayed, BoostOK, Thread, Prio
<1>3. DefQuantum \in Int
  BY ConstantFacts
<1>4. n \in Thread /\ BoostOK(n) /\ n.state = "READY" /\ n.susp = 0 /\ ~n.interrupted
  BY <1>0, <1>2, <1>3, RunningFacts DEF Thread, States, BoostOK
<1>5. cur \notin wakeup
  BY <1>0, RunningFacts
<1>. HIDE DEF n
<1>6. ThreadInv(n, cur, wakeup)
  BY <1>4, <1>5 DEF ThreadInv, BoostOK
<1>. QED
  BY <1>0, <1>1, <1>4, <1>6, LeaveReadyStep

\* Inv in the dispatch phase makes find_ready_thread succeed.
LEMMA DispatchFinds ==
  ASSUME Inv, phase = "dispatch"
  PROVE  /\ summary # {} /\ HighestReady \in Prio /\ HighestReady \in summary
         /\ rq[HighestReady] # <<>>
         /\ \A q \in summary : q <= HighestReady
<1>0. /\ rq \in [Prio -> Seq(Threads)] /\ summary \in SUBSET Prio
      /\ QueueOK(thr, rq) /\ SummaryOK(rq, summary)
      /\ \A t \in Threads : thr[t].state = "RUNNING" <=> (t = cur /\ phase = "run")
      /\ thr[Idle].state \in {"READY", "RUNNING"} /\ thr[Idle].prio = 0
  BY InvParts
<1>1. thr[Idle].state = "READY"
  BY <1>0, ConstantFacts
<1>2. PICK i \in DOMAIN rq[0] : rq[0][i] = Idle
  BY <1>0, <1>1, ConstantFacts DEF QueueOK
<1>3. rq[0] # <<>>
  BY <1>2
<1>4. summary # {}
  BY <1>0, <1>3, ConstantFacts DEF SummaryOK
<1>5. HighestReady \in summary /\ \A q \in summary : q <= HighestReady
  BY <1>0, <1>4, HighestExists
<1>. QED
  BY <1>0, <1>4, <1>5 DEF SummaryOK

LEMMA SwitchInv == ASSUME Inv, Switch PROVE Inv'
<1>. DEFINE p == HighestReady
            t == Head(rq[p])
            n == [thr[t] EXCEPT !.state = "RUNNING", !.alertable = FALSE, !.interrupted = FALSE]
            m == [thr[t] EXCEPT !.state = "TERMINATED"]
<1>0. /\ thr \in [Threads -> Thread] /\ rq \in [Prio -> Seq(Threads)]
      /\ summary \in SUBSET Prio /\ wakeup \in SUBSET Threads /\ panicked = FALSE
      /\ preempt \in BOOLEAN /\ QueueOK(thr, rq) /\ SummaryOK(rq, summary) /\ ThreadsOK(thr, wakeup)
      /\ \A u \in Threads : thr[u].state = "RUNNING" <=> (u = cur /\ phase = "run")
      /\ IdleInv
  BY InvParts
<1>1. /\ phase = "dispatch" /\ phase' = "run" /\ cur' = t
      /\ rq' = [rq EXCEPT ![p] = Tail(@)]
      /\ summary' = IF Len(rq[p]) = 1 THEN summary \ {p} ELSE summary
      /\ thr' = [thr EXCEPT ![t].state = "RUNNING", ![t].alertable = FALSE, ![t].interrupted = FALSE]
      /\ wakeup' = wakeup \ {t} /\ preempt' = preempt /\ panicked' = panicked
  BY DEF Switch
<1>2. p \in Prio /\ p \in summary /\ rq[p] # <<>> /\ \A q \in summary : q <= p
  BY <1>1, DispatchFinds
<1>. HIDE DEF p
<1>3. rq[p] \in Seq(Threads) /\ Len(rq[p]) \in Nat \ {0} /\ DOMAIN rq[p] = 1 .. Len(rq[p])
      /\ 1 \in DOMAIN rq[p] /\ t = rq[p][1] /\ t \in Threads
  BY <1>0, <1>2, EmptySeq
<1>. HIDE DEF t
<1>4. thr[t] \in Thread /\ thr[t].state = "READY" /\ thr[t].prio = p
      /\ ThreadInv(thr[t], t, wakeup)
  BY <1>0, <1>2, <1>3 DEF QueueOK, ThreadsOK
<1>5. thr' = [thr EXCEPT ![t] = n] /\ rq' = [rq EXCEPT ![p] = Tail(rq[p])]
  BY <1>0, <1>1, <1>2, <1>3
<1>6. n \in Thread /\ n.state = "RUNNING" /\ n.susp = thr[t].susp /\ ~n.alertable /\ ~n.interrupted
      /\ n.prio = p /\ n.base = thr[t].base /\ m \in Thread /\ m.state = "TERMINATED"
  BY <1>4 DEF Thread, States
<1>7. thr' \in [Threads -> Thread] /\ ThreadsOK(thr', wakeup')
  <2>1. ThreadInv(n, t, wakeup')
    BY <1>1, <1>4, <1>6 DEF ThreadInv
  <2>2. \A u : u # t => (u \in wakeup' <=> u \in wakeup)
    BY <1>1
  <2>. HIDE DEF n
  <2>. QED BY <1>0, <1>3, <1>5, <2>1, <2>2, ReplaceThread
<1>8. Tail(rq[p]) = Without(rq[p], 1)
  <2>1. /\ Tail(rq[p]) \in Seq(Threads) /\ Len(Tail(rq[p])) = Len(rq[p]) - 1
        /\ \A i \in 1 .. Len(Tail(rq[p])) : Tail(rq[p])[i] = rq[p][i + 1]
    BY <1>2, <1>3, HeadTailProperties
  <2>2. /\ Without(rq[p], 1) \in Seq(Threads) /\ Len(Without(rq[p], 1)) = Len(rq[p]) - 1
        /\ \A j \in 1 .. (Len(rq[p]) - 1) :
             Without(rq[p], 1)[j] = rq[p][IF j < 1 THEN j ELSE j + 1]
    BY <1>3, WithoutFacts
  <2>3. \A j \in 1 .. (Len(rq[p]) - 1) : Without(rq[p], 1)[j] = Tail(rq[p])[j]
    BY <2>1, <2>2, <1>3
  <2>. QED BY <2>1, <2>2, <2>3, SeqEqual
<1>9. Tail(rq[p]) \in Seq(Threads) /\ Len(Tail(rq[p])) = Len(rq[p]) - 1
  BY <1>2, <1>3, HeadTailProperties
<1>10. QueueOK(thr', rq')
  <2>1. QueueOK([thr EXCEPT ![t] = m], [rq EXCEPT ![thr[t].prio] = Without(rq[thr[t].prio], 1)])
    <3>1. 1 \in DOMAIN rq[thr[t].prio] /\ rq[thr[t].prio][1] = t
      BY <1>3, <1>4
    <3>2. m \in Thread /\ m.state # "READY"
      BY <1>6
    <3>. HIDE DEF m
    <3>. QED BY <1>0, <1>3, <1>4, <3>1, <3>2, UnlinkQueue
  <2>2. QueueOK([thr EXCEPT ![t] = m], rq')
    BY <2>1, <1>4, <1>5, <1>8
  <2>. DEFINE T == [thr EXCEPT ![t] = m]
  <2>3. rq' \in [Prio -> Seq(Threads)]
    BY <1>0, <1>2, <1>5, <1>9
  <2>4. T \in [Threads -> Thread] /\ T[t] = m /\ [T EXCEPT ![t] = n] = thr'
    BY <1>0, <1>3, <1>5, <1>6
  <2>5. T[t].state # "READY" /\ n.state # "READY" /\ n \in Thread /\ QueueOK(T, rq')
    BY <1>6, <2>2, <2>4
  <2>. HIDE DEF T, n, m
  <2>6. QueueOK([T EXCEPT ![t] = n], rq')
    BY <1>3, <2>3, <2>4, <2>5, KeepQueue
  <2>. QED BY <2>4, <2>6
<1>11. \A u \in Threads : thr'[u].state = "RUNNING" <=> (u = cur' /\ phase' = "run")
  BY <1>0, <1>1, <1>3, <1>5, <1>6
<1>12. IdleInv'
  <2>1. CASE t = Idle
    BY <2>1, <1>0, <1>1, <1>3, <1>5, <1>6 DEF IdleInv
  <2>2. CASE t # Idle
    BY <2>2, <1>0, <1>1, <1>3, <1>5, ConstantFacts DEF IdleInv
  <2>. QED BY <2>1, <2>2
<1>13. SummaryExact' /\ summary' \in SUBSET Prio /\ rq' \in [Prio -> Seq(Threads)]
  <2>1. Len(rq[p]) = 1 <=> Tail(rq[p]) = <<>>
    <3>1. Tail(rq[p]) = <<>> <=> Len(Tail(rq[p])) = 0
      BY <1>9, EmptySeq
    <3>. QED BY <3>1, <1>3, <1>9
  <2>2. \A q \in Prio : q \in summary <=> rq[q] # <<>>
    BY <1>0, <1>1 DEF SummaryOK
  <2>3. rq'[p] = Tail(rq[p]) /\ \A q \in Prio \ {p} : rq'[q] = rq[q]
    BY <1>0, <1>2, <1>5
  <2>4. rq' \in [Prio -> Seq(Threads)]
    BY <1>0, <1>2, <1>5, <1>9
  <2>. QED BY <1>0, <1>1, <1>2, <2>1, <2>2, <2>3, <2>4 DEF SummaryExact
<1>14. PreemptionPending'
  <2>. SUFFICES ASSUME NEW u \in Threads, thr'[u].state = "READY", thr'[u].prio > thr'[cur'].prio
                PROVE  FALSE
    BY DEF PreemptionPending
  <2>1. u # t /\ thr'[u] = thr[u] /\ thr'[cur'].prio = p
    BY <1>0, <1>1, <1>3, <1>5, <1>6
  <2>2. thr[u].prio \in Prio /\ rq[thr[u].prio] # <<>>
    BY <1>0, <2>1 DEF QueueOK, Thread
  <2>3. thr[u].prio \in summary
    BY <1>0, <2>2 DEF SummaryOK
  <2>. QED BY <2>1, <2>2, <2>3, <1>2 DEF Prio
<1>. QED
  BY <1>0, <1>1, <1>3, <1>7, <1>10, <1>11, <1>12, <1>13, <1>14, InvNext

\* Records that differ in suspend count, quantum and signals only.
SameThread(r, m) ==
  /\ m \in Thread /\ m.state = r.state /\ m.prio = r.prio /\ m.base = r.base
  /\ m.alertable = r.alertable /\ m.interrupted = r.interrupted

LEMMA UserFacts ==
  ASSUME Inv, NEW t \in UserThreads
  PROVE  /\ t \in Threads /\ t # Idle /\ thr \in [Threads -> Thread] /\ thr[t] \in Thread
         /\ ThreadInv(thr[t], t, wakeup) /\ BoostOK(thr[t])
         /\ wakeup \in SUBSET Threads /\ preempt \in BOOLEAN
         /\ thr[t].state = "RUNNING" <=> (t = cur /\ phase = "run")
         /\ thr[t].susp \in 0 .. MaxSuspend /\ MaxSuspend \in Nat /\ thr[t].susp \in Nat
<1>1. t \in Threads /\ t # Idle /\ MaxSuspend \in Nat
  BY ConstantFacts
<1>2. /\ thr \in [Threads -> Thread] /\ ThreadInv(thr[t], t, wakeup) /\ BoostOK(thr[t])
      /\ wakeup \in SUBSET Threads /\ preempt \in BOOLEAN
      /\ thr[t].state = "RUNNING" <=> (t = cur /\ phase = "run")
  BY <1>1, InvParts DEF ThreadsOK
<1>3. thr[t] \in Thread
  BY <1>1, <1>2
<1>. QED
  BY <1>1, <1>2, <1>3 DEF Thread

\* A thread whose signals or counts change, and nothing else.
LEMMA SameStep ==
  ASSUME Inv, NEW t \in UserThreads, NEW m, SameThread(thr[t], m),
         m.susp > 0 => thr[t].state \notin {"READY", "RUNNING"},
         ~(m.state = "WAITING" /\ m.alertable /\ signals_ready(m)),
         thr' = [thr EXCEPT ![t] = m], rq' = rq, summary' = summary, cur' = cur,
         phase' = phase, wakeup' = wakeup, panicked' = panicked, preempt' = preempt
  PROVE  Inv'
<1>1. ThreadInv(m, t, wakeup)
  BY UserFacts DEF SameThread, ThreadInv
<1>2. t \in Threads /\ preempt' \in BOOLEAN /\ (preempt => preempt')
  BY UserFacts
<1>3. m.state = thr[t].state /\ m.prio = thr[t].prio /\ m.base = thr[t].base
  BY DEF SameThread
<1>. QED
  BY <1>1, <1>2, <1>3, RecordStep

LEMMA InterruptInv ==
  ASSUME Inv, NEW t \in UserThreads, NEW m, SameThread(thr[t], m),
         m.susp > 0 => thr[t].state \notin {"READY", "RUNNING"},
         interrupt_thread([thr EXCEPT ![t] = m], t),
         cur' = cur, phase' = phase, wakeup' = wakeup
  PROVE  Inv'
<1>. DEFINE T == [thr EXCEPT ![t] = m]
            i == [m EXCEPT !.interrupted = TRUE]
<1>0. t \in Threads /\ t # Idle /\ thr \in [Threads -> Thread] /\ m \in Thread /\ T[t] = m
      /\ BoostOK(m) /\ wakeup' \in SUBSET Threads
  BY UserFacts DEF SameThread, BoostOK
<1>1. CASE m.state = "WAITING" /\ m.alertable
  <2>1. [T EXCEPT ![t].interrupted = TRUE] = [thr EXCEPT ![t] = i]
    BY <1>0
  <2>2. mark_thread_ready([thr EXCEPT ![t] = i], rq, summary, t, 1, 1)
    BY <1>0, <1>1, <2>1 DEF interrupt_thread
  <2>3. i \in Thread /\ BoostOK(i) /\ i.state = "WAITING" /\ i.interrupted
    BY <1>0, <1>1 DEF Thread, BoostOK
  <2>4. thr[t].state = "WAITING" /\ (phase = "run" => t # cur)
    BY <1>1, UserFacts DEF SameThread
  <2>5. i.state \notin {"READY", "RUNNING"} /\ thr[t].state # "READY"
    BY <2>3, <2>4
  <2>6. \A u : u # t => (u \in wakeup' <=> u \in wakeup)
    OBVIOUS
  <2>. HIDE DEF i
  <2>. QED BY <1>0, <2>2, <2>3, <2>4, <2>5, <2>6, MarkFresh
<1>2. CASE ~(m.state = "WAITING" /\ m.alertable)
  <2>1. /\ thr' = [thr EXCEPT ![t] = m] /\ rq' = rq /\ summary' = summary
        /\ preempt' = preempt /\ panicked' = panicked
    BY <1>0, <1>2 DEF interrupt_thread
  <2>. QED BY <1>2, <2>1, SameStep
<1>. QED
  BY <1>1, <1>2

LEMMA ResumeInv ==
  ASSUME Inv, NEW t \in UserThreads, thr[t].susp > 0, NEW m, SameThread(thr[t], m),
         m.susp = thr[t].susp, ~(m.state = "WAITING" /\ m.alertable /\ signals_ready(m)),
         resume([thr EXCEPT ![t] = m], t), cur' = cur, phase' = phase, wakeup' = wakeup
  PROVE  Inv'
<1>. DEFINE T == [thr EXCEPT ![t] = m]
            d == [m EXCEPT !.susp = @ - 1]
<1>0. t \in Threads /\ t # Idle /\ thr \in [Threads -> Thread] /\ m \in Thread /\ T[t] = m
      /\ wakeup' \in SUBSET Threads /\ m.susp - 1 \in 0 .. MaxSuspend
      /\ thr[t].state \notin {"READY", "RUNNING"}
  BY UserFacts DEF SameThread, ThreadInv
<1>1. [T EXCEPT ![t].susp = @ - 1] = [thr EXCEPT ![t] = d] /\ [thr EXCEPT ![t] = d][t] = d
  BY <1>0
<1>2. SameThread(thr[t], d) /\ d \in Thread /\ d.pending = m.pending /\ d.blocked = m.blocked
      /\ BoostOK(d)
  BY <1>0, UserFacts DEF SameThread, Thread, BoostOK
<1>3. CASE d.susp = 0 /\ d.state \in {"SUSPENDED", "INITIALIZED"}
  <2>1. mark_thread_ready([thr EXCEPT ![t] = d], rq, summary, t, 0, 0)
    BY <1>1, <1>3 DEF resume
  <2>2. thr[t].state \in {"SUSPENDED", "INITIALIZED"} /\ (phase = "run" => t # cur)
        /\ (t \in wakeup => d.interrupted)
    BY <1>2, <1>3, UserFacts DEF SameThread, ThreadInv
  <2>3. \A u : u # t => (u \in wakeup' <=> u \in wakeup)
    OBVIOUS
  <2>4. d.state \notin {"READY", "RUNNING"} /\ thr[t].state # "READY" /\ (t \in wakeup' => d.interrupted)
    BY <1>3, <2>2
  <2>. HIDE DEF d
  <2>. QED BY <1>0, <1>2, <2>1, <2>2, <2>3, <2>4, MarkFresh
<1>4. CASE ~(d.susp = 0 /\ d.state \in {"SUSPENDED", "INITIALIZED"})
  <2>1. /\ thr' = [thr EXCEPT ![t] = d] /\ rq' = rq /\ summary' = summary
        /\ preempt' = preempt /\ panicked' = panicked
    BY <1>1, <1>4 DEF resume
  <2>2. ~(d.state = "WAITING" /\ d.alertable /\ signals_ready(d))
    BY <1>2 DEF signals_ready, SameThread
  <2>. HIDE DEF d
  <2>. QED BY <1>0, <1>2, <2>1, <2>2, SameStep
<1>. QED
  BY <1>3, <1>4

LEMMA ResumeThreadInv == ASSUME Inv, NEW t \in UserThreads, resume_thread(t) PROVE Inv'
<1>. DEFINE m == thr[t]
<1>1. [thr EXCEPT ![t] = m] = thr
  BY UserFacts
<1>2. SameThread(thr[t], m) /\ m.susp = thr[t].susp
      /\ ~(m.state = "WAITING" /\ m.alertable /\ signals_ready(m))
  BY UserFacts DEF SameThread, ThreadInv
<1>3. resume([thr EXCEPT ![t] = m], t) /\ cur' = cur /\ phase' = phase /\ wakeup' = wakeup
      /\ thr[t].susp > 0
  BY <1>1 DEF resume_thread
<1>. HIDE DEF m
<1>. QED
  BY <1>2, <1>3, ResumeInv

LEMMA SignalInv == ASSUME Inv, NEW t \in Signalled, send_user_signal(t) PROVE Inv'
<1>. DEFINE m == [thr[t] EXCEPT !.pending = TRUE]
            T == [thr EXCEPT ![t].pending = TRUE]
<1>0. t \in UserThreads
  BY ConstantFacts
<1>1. T = [thr EXCEPT ![t] = m] /\ T[t] = m
  BY <1>0, UserFacts
<1>2. SameThread(thr[t], m) /\ m.susp = thr[t].susp
  BY <1>0, UserFacts DEF SameThread, Thread
<1>3. m.susp > 0 => thr[t].state \notin {"READY", "RUNNING"}
  BY <1>0, <1>2, UserFacts DEF ThreadInv
<1>4. cur' = cur /\ phase' = phase /\ wakeup' = wakeup
  BY DEF send_user_signal
<1>5. CASE signals_ready(m)
  <2>1. interrupt_thread([thr EXCEPT ![t] = m], t)
    BY <1>1, <1>5 DEF send_user_signal
  <2>. HIDE DEF m
  <2>. QED BY <1>0, <1>2, <1>3, <1>4, <2>1, InterruptInv
<1>6. CASE ~signals_ready(m)
  <2>1. /\ thr' = [thr EXCEPT ![t] = m] /\ rq' = rq /\ summary' = summary
        /\ preempt' = preempt /\ panicked' = panicked
    BY <1>1, <1>6 DEF send_user_signal
  <2>. HIDE DEF m
  <2>. QED BY <1>0, <1>2, <1>3, <1>4, <1>6, <2>1, SameStep
<1>. QED
  BY <1>5, <1>6

LEMMA SigcontInv == ASSUME Inv, NEW t \in Signalled, send_sigcont(t) PROVE Inv'
<1>. DEFINE m == [thr[t] EXCEPT !.pending = TRUE]
            d == [m EXCEPT !.susp = @ - 1]
            T == [thr EXCEPT ![t].pending = TRUE]
<1>0. t \in UserThreads
  BY ConstantFacts
<1>1. T = [thr EXCEPT ![t] = m] /\ T[t] = m /\ [T EXCEPT ![t].susp = @ - 1] = [thr EXCEPT ![t] = d]
  BY <1>0, UserFacts
<1>2. cur' = cur /\ phase' = phase /\ wakeup' = wakeup /\ thr[t].susp > 0
  BY DEF send_sigcont
<1>3. SameThread(thr[t], m) /\ m.susp = thr[t].susp
  BY <1>0, UserFacts DEF SameThread, Thread
<1>4. thr[t].susp - 1 \in 0 .. MaxSuspend
  BY <1>0, <1>2, UserFacts
<1>5. SameThread(thr[t], d)
  BY <1>0, <1>4, UserFacts DEF SameThread, Thread
<1>6. CASE thr[t].state = "WAITING" /\ signals_ready(m)
  <2>1. interrupt_thread([thr EXCEPT ![t] = d], t)
    BY <1>1, <1>6 DEF send_sigcont
  <2>2. thr[t].state \notin {"READY", "RUNNING"}
    BY <1>6
  <2>. HIDE DEF d
  <2>. QED BY <1>0, <1>2, <1>5, <2>1, <2>2, InterruptInv
<1>7. CASE ~(thr[t].state = "WAITING" /\ signals_ready(m))
  <2>1. resume([thr EXCEPT ![t] = m], t)
    BY <1>1, <1>7 DEF send_sigcont
  <2>2. ~(m.state = "WAITING" /\ m.alertable /\ signals_ready(m))
    BY <1>3, <1>7 DEF SameThread
  <2>. HIDE DEF m
  <2>. QED BY <1>0, <1>2, <1>3, <2>1, <2>2, ResumeInv
<1>. QED
  BY <1>6, <1>7

LEMMA SuspendInv == ASSUME Inv, NEW t \in UserThreads, suspend_thread(t) PROVE Inv'
<1>. DEFINE m == [thr[t] EXCEPT !.susp = @ + 1]
            n == [m EXCEPT !.state = "SUSPENDED"]
<1>0. /\ phase = "run" /\ cur \in UserThreads /\ thr[t].susp < MaxSuspend
      /\ cur' = cur /\ wakeup' = wakeup /\ panicked' = panicked
  BY DEF suspend_thread, InUserCall
<1>1. thr[t].susp + 1 \in 0 .. MaxSuspend
  BY <1>0, UserFacts
<1>2. m \in Thread /\ n \in Thread /\ n.state = "SUSPENDED" /\ SameThread(thr[t], m)
      /\ m.susp = thr[t].susp + 1 /\ n.prio = thr[t].prio /\ n.base = thr[t].base
      /\ n.interrupted = thr[t].interrupted
  BY <1>1, UserFacts DEF Thread, States, SameThread
<1>3. [thr EXCEPT ![t].susp = @ + 1] = [thr EXCEPT ![t] = m]
  BY UserFacts
<1>4. [[thr EXCEPT ![t].susp = @ + 1] EXCEPT ![t].state = "SUSPENDED"] = [thr EXCEPT ![t] = n]
  BY UserFacts
<1>5. thr[t].state \in {"READY", "RUNNING"} => thr[t].susp = 0
  BY UserFacts DEF ThreadInv
<1>6. thr[t].state \in {"READY", "RUNNING"} => ThreadInv(n, t, wakeup)
  BY <1>2, UserFacts DEF ThreadInv
<1>7. CASE thr[t].state = "READY"
  <2>1. /\ thr' = [thr EXCEPT ![t] = n] /\ rq' = RemoveReady(t) /\ summary' = SummaryRemove(t)
        /\ preempt' = preempt /\ phase' = phase
    BY <1>4, <1>5, <1>7 DEF suspend_thread
  <2>2. n.state # "READY"
    BY <1>2
  <2>. HIDE DEF n
  <2>3. /\ QueueOK(thr', rq') /\ rq' \in [Prio -> Seq(Threads)] /\ summary' \in SUBSET Prio
        /\ SummaryOK(rq', summary')
    BY <1>2, <1>7, <2>1, <2>2, UserFacts, RemoveFacts
  <2>4. thr' \in [Threads -> Thread] /\ ThreadsOK(thr', wakeup')
    <3>1. ThreadsOK(thr, wakeup) /\ ThreadInv(n, t, wakeup') /\ \A u : u # t => (u \in wakeup' <=> u \in wakeup)
      BY <1>0, <1>6, <1>7, InvParts
    <3>. QED BY <2>1, <3>1, UserFacts, ReplaceThread
  <2>5. SummaryExact'
    BY <1>0, <2>1, <2>3 DEF SummaryOK, SummaryExact
  <2>6. /\ \A u \in Threads : thr[u].state = "RUNNING" <=> (u = cur /\ phase = "run")
        /\ PreemptOK(thr, preempt) /\ IdleInv /\ cur \in Threads /\ panicked = FALSE
        /\ preempt \in BOOLEAN /\ wakeup \in SUBSET Threads
    BY InvParts
  <2>7. \A u \in Threads : thr'[u].state = "RUNNING" <=> (u = cur' /\ phase' = "run")
    BY <1>0, <1>2, <1>7, <2>1, <2>6, UserFacts
  <2>8. PreemptionPending'
    BY <1>0, <1>2, <1>7, <2>1, <2>6, UserFacts DEF PreemptOK, PreemptionPending
  <2>9. IdleInv'
    BY <1>0, <2>1, <2>6, UserFacts, ConstantFacts DEF IdleInv
  <2>. QED BY <1>0, <2>1, <2>3, <2>4, <2>5, <2>6, <2>7, <2>8, <2>9, InvNext
<1>8. CASE thr[t].state = "RUNNING"
  <2>1. /\ thr' = [thr EXCEPT ![t] = n] /\ rq' = rq /\ summary' = summary
        /\ preempt' = FALSE /\ phase' = "dispatch" /\ t = cur
    BY <1>0, <1>4, <1>5, <1>8, UserFacts DEF suspend_thread
  <2>2. n.state \notin {"READY", "RUNNING"} /\ ThreadInv(n, cur, wakeup')
    BY <1>0, <1>2, <1>6, <1>8, <2>1
  <2>3. cur # Idle /\ wakeup' \in SUBSET Threads /\ \A u : u # cur => (u \in wakeup' <=> u \in wakeup)
    BY <1>0, UserFacts, ConstantFacts
  <2>4. thr' = [thr EXCEPT ![cur] = n]
    BY <2>1
  <2>. HIDE DEF n
  <2>. QED BY <1>0, <2>1, <2>2, <2>3, <2>4, LeaveStep
<1>9. CASE thr[t].state \notin {"READY", "RUNNING"}
  <2>1. /\ thr' = [thr EXCEPT ![t] = m] /\ rq' = rq /\ summary' = summary
        /\ preempt' = preempt /\ phase' = phase
    BY <1>3, <1>9 DEF suspend_thread
  <2>2. ~(m.state = "WAITING" /\ m.alertable /\ signals_ready(m))
    BY UserFacts DEF ThreadInv, signals_ready, Thread
  <2>. HIDE DEF m
  <2>. QED BY <1>0, <1>2, <1>9, <2>1, <2>2, SameStep
<1>. QED
  BY <1>7, <1>8, <1>9

LEMMA SetPriorityInv ==
  ASSUME Inv, NEW t \in UserThreads, NEW p \in Prio, set_thread_priority(t, p) PROVE Inv'
<1>. DEFINE m == [thr[t] EXCEPT !.base = p, !.prio = p]
            x == [m EXCEPT !.state = "TRANSITION"]
            T == [thr EXCEPT ![t].base = p, ![t].prio = p]
<1>0. phase = "run" /\ cur' = cur /\ wakeup' = wakeup /\ t \in Threads /\ t # Idle
  BY UserFacts DEF set_thread_priority, InUserCall
<1>1. T = [thr EXCEPT ![t] = m] /\ [T EXCEPT ![t].state = "TRANSITION"] = [thr EXCEPT ![t] = x]
  BY UserFacts
<1>2. /\ m \in Thread /\ m.prio = p /\ m.base = p /\ m.state = thr[t].state /\ m.susp = thr[t].susp
      /\ m.interrupted = thr[t].interrupted /\ m.alertable = thr[t].alertable
      /\ m.pending = thr[t].pending /\ m.blocked = thr[t].blocked
  BY UserFacts DEF Thread
<1>3. x \in Thread /\ x.state = "TRANSITION" /\ x.interrupted = thr[t].interrupted
      /\ x.prio = p /\ x.base = p
  BY UserFacts DEF Thread, States
<1>4. BoostOK(m) /\ BoostOK(x)
  BY <1>2, <1>3, ConstantFacts DEF BoostOK, Prio
<1>5. CASE t = cur /\ p < thr[t].prio
  <2>1. mark_ready_and_dispatch([thr EXCEPT ![cur] = m], cur)
    BY <1>1, <1>5 DEF set_thread_priority
  <2>2. m.state = "RUNNING" /\ m.susp = 0 /\ ~m.interrupted /\ cur # Idle
    BY <1>0, <1>2, <1>5, RunningFacts
  <2>. HIDE DEF m
  <2>. QED BY <1>0, <1>2, <1>4, <2>1, <2>2, RequeueInv
<1>6. CASE t # cur /\ thr[t].state = "READY"
  <2>1. /\ mark_thread_ready([thr EXCEPT ![t] = x], RemoveReady(t), SummaryRemove(t), t, 0, 0)
        /\ phase' = phase
    BY <1>1, <1>6 DEF set_thread_priority
  <2>2. x.state \notin {"READY", "RUNNING"} /\ (t \in wakeup' => x.interrupted)
    BY <1>0, <1>3, <1>6, UserFacts DEF ThreadInv
  <2>. HIDE DEF x
  <2>3. /\ QueueOK([thr EXCEPT ![t] = x], RemoveReady(t))
        /\ RemoveReady(t) \in [Prio -> Seq(Threads)]
        /\ SummaryRemove(t) \in SUBSET Prio
        /\ SummaryOK(RemoveReady(t), SummaryRemove(t))
    BY <1>0, <1>3, <1>6, <2>2, RemoveFacts
  <2>4. PreemptOK([thr EXCEPT ![t] = x], preempt)
    <3>1. PreemptOK(thr, preempt) /\ thr \in [Threads -> Thread] /\ cur \in Threads
      BY InvParts
    <3>. QED BY <3>1, <1>6, <2>2 DEF PreemptOK
  <2>5. /\ wakeup' \in SUBSET Threads /\ \A u : u # t => (u \in wakeup' <=> u \in wakeup)
        /\ (phase = "run" => t # cur) /\ x.state # "RUNNING"
        /\ (x.state = "READY" => ~Enqueues(x) /\ x.susp = 0)
    BY <1>0, <1>6, <2>2, UserFacts
  <2>. QED BY <1>0, <1>3, <1>4, <2>1, <2>2, <2>3, <2>4, <2>5, MarkStep
<1>7. CASE ~(t = cur /\ p < thr[t].prio) /\ ~(t # cur /\ thr[t].state = "READY")
  <2>1. /\ thr' = [thr EXCEPT ![t] = m] /\ rq' = rq /\ summary' = summary
        /\ preempt' = preempt /\ panicked' = panicked /\ phase' = phase
    BY <1>1, <1>7 DEF set_thread_priority
  <2>2. ThreadInv(m, t, wakeup)
    <3>1. m.base <= m.prio /\ ~(m.prio > m.base)
      BY <1>2 DEF Prio
    <3>2. signals_ready(m) <=> signals_ready(thr[t])
      BY <1>2 DEF signals_ready
    <3>. HIDE DEF m
    <3>. QED BY <1>2, <3>1, <3>2, UserFacts DEF ThreadInv
  <2>3. m.state # "READY" /\ (t = cur => m.prio >= thr[t].prio)
    <3>1. thr[t].prio \in Int /\ p \in Int
      BY UserFacts DEF Thread, Prio
    <3>2. t = cur => thr[t].state = "RUNNING"
      BY <1>0, UserFacts
    <3>. HIDE DEF m
    <3>. QED BY <1>2, <1>7, <3>1, <3>2
  <2>4. preempt' \in BOOLEAN /\ (preempt => preempt')
    BY <2>1, UserFacts
  <2>. HIDE DEF m
  <2>. QED BY <1>0, <1>2, <2>1, <2>2, <2>3, <2>4, RecordStep
<1>. QED
  BY <1>5, <1>6, <1>7

\* The running thread changes its mask or takes a signal.
LEMMA MaskInv == ASSUME Inv, set_signal_mask \/ deliver_pending_signals PROVE Inv'
<1>0. phase = "run" /\ cur \in UserThreads
  BY DEF set_signal_mask, deliver_pending_signals, InUserCall
<1>1. CASE set_signal_mask
  <2>. DEFINE m == [thr[cur] EXCEPT !.blocked = ~@]
  <2>1. thr' = [thr EXCEPT ![cur] = m]
    BY <1>0, <1>1, RunningFacts DEF set_signal_mask
  <2>2. SameThread(thr[cur], m) /\ m.susp = 0 /\ m.state = "RUNNING"
    <3>1. thr[cur].blocked \in BOOLEAN
      BY <1>0, RunningFacts DEF Thread
    <3>. QED BY <1>0, <3>1, RunningFacts DEF SameThread, Thread
  <2>3. ~(m.susp > 0) /\ ~(m.state = "WAITING" /\ m.alertable /\ signals_ready(m))
    BY <2>2
  <2>. HIDE DEF m
  <2>. QED BY <1>0, <1>1, <2>1, <2>2, <2>3, SameStep DEF set_signal_mask
<1>2. CASE deliver_pending_signals
  <2>. DEFINE m == [thr[cur] EXCEPT !.pending = FALSE]
  <2>1. thr' = [thr EXCEPT ![cur] = m]
    BY <1>0, <1>2, RunningFacts DEF deliver_pending_signals
  <2>2. SameThread(thr[cur], m) /\ m.susp = 0 /\ m.state = "RUNNING"
    BY <1>0, RunningFacts DEF SameThread, Thread
  <2>3. ~(m.susp > 0) /\ ~(m.state = "WAITING" /\ m.alertable /\ signals_ready(m))
    BY <2>2
  <2>. HIDE DEF m
  <2>. QED BY <1>0, <1>2, <2>1, <2>2, <2>3, SameStep DEF deliver_pending_signals
<1>. QED
  BY <1>1, <1>2

LEMMA TimerInv == ASSUME Inv, timer_handler PROVE Inv'
<1>. DEFINE q == IF thr[cur].quantum - PerTick < QuantumFloor THEN QuantumFloor
                 ELSE thr[cur].quantum - PerTick
            m == [thr[cur] EXCEPT !.quantum = q]
<1>0. thr \in [Threads -> Thread] /\ cur \in Threads /\ ThreadInv(thr[cur], cur, wakeup)
      /\ preempt \in BOOLEAN /\ thr[cur] \in Thread
  BY InvParts DEF ThreadsOK
<1>1. /\ thr' = [thr EXCEPT ![cur].quantum = q]
      /\ preempt' = (preempt \/ thr[cur].quantum - PerTick <= 0)
      /\ rq' = rq /\ summary' = summary /\ cur' = cur /\ phase' = phase
      /\ wakeup' = wakeup /\ panicked' = panicked
  BY DEF timer_handler
<1>2. q \in Int
  BY <1>0, ConstantFacts DEF Thread, QuantumFloor
<1>. HIDE DEF q
<1>3. thr' = [thr EXCEPT ![cur] = m]
  BY <1>0, <1>1
<1>4. /\ m \in Thread /\ m.prio = thr[cur].prio /\ m.base = thr[cur].base
      /\ m.state = thr[cur].state /\ m.susp = thr[cur].susp
      /\ m.interrupted = thr[cur].interrupted /\ m.alertable = thr[cur].alertable
      /\ signals_ready(m) = signals_ready(thr[cur])
  BY <1>0, <1>2 DEF Thread, signals_ready
<1>. HIDE DEF m
<1>5. ThreadInv(m, cur, wakeup)
  BY <1>0, <1>4 DEF ThreadInv
<1>6. preempt' \in BOOLEAN /\ (preempt => preempt')
  BY <1>0, <1>1
<1>. QED
  BY <1>0, <1>1, <1>3, <1>4, <1>5, <1>6, RecordStep

-----------------------------------------------------------------------------
\* Inv holds in every reachable state.
THEOREM Invariance == Spec => []Inv
<1>1. Inv /\ [Next]_vars => Inv'
  <2>. SUFFICES ASSUME Inv, [Next]_vars PROVE Inv'
    OBVIOUS
  <2>1. CASE enter_wait BY <2>1, EnterWaitInv
  <2>2. CASE enter_alertable_wait BY <2>2, EnterAlertableInv
  <2>3. CASE yield BY <2>3, YieldInv
  <2>4. CASE idle_task BY <2>4, IdleTaskInv
  <2>5. CASE preempt_thread BY <2>5, PreemptInv
  <2>6. CASE terminate_thread BY <2>6, TerminateInv
  <2>7. CASE Switch BY <2>7, SwitchInv
  <2>8. CASE set_signal_mask \/ deliver_pending_signals BY <2>8, MaskInv
  <2>9. CASE timer_handler BY <2>9, TimerInv
  <2>10. ASSUME NEW t \in Threads, CreateKernelThread(t) PROVE Inv'
    BY <2>10, CreateKernelInv
  <2>11. ASSUME NEW t \in Threads, CreateUserThread(t) PROVE Inv'
    BY <2>11, CreateUserInv
  <2>12. ASSUME NEW t \in Threads, NEW w \in {<<1, 1>>, <<1, 0>>, <<1, 2>>, <<0, 0>>},
                Wake(t, w[1], w[2])
         PROVE  Inv'
    <3>1. w[1] \in {0, 1} /\ w[2] \in {0, 1, 2}
      OBVIOUS
    <3>. QED BY <2>12, <3>1, WakeInv
  <2>13. ASSUME NEW t \in Threads, send_user_signal(t) PROVE Inv'
    BY <2>13, SignalInv DEF send_user_signal
  <2>14. ASSUME NEW t \in Threads, send_sigcont(t) PROVE Inv'
    BY <2>14, SigcontInv DEF send_sigcont
  <2>15. ASSUME NEW t \in Threads, suspend_thread(t) PROVE Inv'
    BY <2>15, SuspendInv DEF suspend_thread
  <2>16. ASSUME NEW t \in Threads, resume_thread(t) PROVE Inv'
    BY <2>16, ResumeThreadInv DEF resume_thread
  <2>17. ASSUME NEW t \in Threads, NEW p \in Prio, set_thread_priority(t, p) PROVE Inv'
    BY <2>17, SetPriorityInv DEF set_thread_priority
  <2>18. CASE UNCHANGED vars
    <3>1. /\ thr' = thr /\ rq' = rq /\ summary' = summary /\ preempt' = preempt /\ cur' = cur
          /\ phase' = phase /\ wakeup' = wakeup /\ panicked' = panicked
      BY <2>18 DEF vars
    <3>. QED
      BY <3>1 DEF Inv, TypeOK, NeverReadiedTwice, OneRuns, IdleInv, QueuesHoldReady,
                  SummaryExact, PreemptionPending
  <2>. QED
    BY <2>1, <2>2, <2>3, <2>4, <2>5, <2>6, <2>7, <2>8, <2>9, <2>10, <2>11, <2>12, <2>13,
       <2>14, <2>15, <2>16, <2>17, <2>18 DEF Next
<1>. QED
  BY InitInv, <1>1, PTL DEF Spec

\* Every field of every thread and the queues keep their types.
THEOREM TypeCorrect == Spec => []TypeOK
<1>1. Inv => TypeOK
  BY DEF Inv
<1>. QED BY <1>1, Invariance, PTL

\* The ready queues hold the ready threads, each once and at its priority, and
\* thread_ready_summary says which of them are not empty.
THEOREM QueuesCorrect == Spec => [](QueuesHoldReady /\ SummaryExact)
<1>1. Inv => QueuesHoldReady /\ SummaryExact
  BY DEF Inv
<1>. QED BY <1>1, Invariance, PTL

\* Neither panic of the scheduler is reachable: a thread is never made ready
\* twice, and dispatch() always finds a thread.
THEOREM NoPanic == Spec => []NeverPanics
<1>1. Inv => NeverPanics
  BY DispatchFinds DEF Inv, DispatchFindsThread, NeverPanics
<1>. QED BY <1>1, Invariance, PTL

\* No wake-up is lost: a waiting thread still has its wake-up source, and one
\* in an alertable wait has no signal ready.
THEOREM NoLostWakeup == Spec => []NoWakeupLost
<1>1. Inv => NoWakeupLost
  BY DEF Inv, ThreadInv, WaitersCanWake, NoSleepWithSignal, NoWakeupLost
<1>. QED BY <1>1, Invariance, PTL

\* A suspended thread is neither ready nor running: the wake-ups that come
\* while it is suspended wait for resume_thread.
THEOREM SuspendedNeverRuns == Spec => []SuspendedStays
<1>1. Inv => SuspendedStays
  BY DEF Inv, ThreadInv, SuspendedStays
<1>. QED BY <1>1, Invariance, PTL

\* The scheduling order is respected: boosting keeps its range, and a higher
\* ready thread makes preemption pending.
THEOREM OrderKept == Spec => [](BoostInRange /\ PreemptionPending)
<1>1. Inv => BoostInRange /\ PreemptionPending
  BY DEF Inv, ThreadInv, BoostInRange
<1>. QED BY <1>1, Invariance, PTL
=============================================================================
