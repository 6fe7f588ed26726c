--------------------------- MODULE PthreadProofs ---------------------------
(***************************************************************************)
(* Mutual exclusion of the three kinds of lock of Pthread, for any number  *)
(* of threads and any programs.                                            *)
(***************************************************************************)
EXTENDS Pthread, SequenceTheorems, FiniteSetTheorems, TLAPS

LockOps == {"lock", "timedlock", "trylock"}

\* A normal mutex does not check who unlocks it: its users must.  Every unlock,
\* and every wait for the condition, comes after a lock (before p, if held)
\* without an unlock in between.
Disciplined(p, held) ==
  \A i \in 1 .. Len(p) : p[i] \in Takes \cup {"unlock"} =>
    \/ held /\ \A k \in 1 .. (i - 1) : p[k] # "unlock"
    \/ \E j \in 1 .. (i - 1) : /\ p[j] \in LockOps
                               /\ \A k \in (j + 1) .. (i - 1) : p[k] # "unlock"

ProgramsDisciplined ==
  \A c \in Scenarios : c.kind = "normal" => \A t \in Threads : Disciplined(c.prog[t], FALSE)

-----------------------------------------------------------------------------
(* The record of one thread.                                               *)

LockPcs == {"again", "sleep", "own_early", "held", "own"}
CondPcs == {"cond_unlock", "cond_sleep", "cond_woken", "relock"}
PostPcs == {"count", "post"}
BarrierPcs == {"arrive", "reset", "breech", "stand", "advance"}
Pcs == {"ready", "asleep", "free", "set", "add", "wait", "sub"}
       \cup LockPcs \cup CondPcs \cup PostPcs \cup BarrierPcs

ThreadRec == [todo : Seq(Ops), pc : Pcs, next : Pcs, depth : Nat, n : Nat, step : {0, 1},
              entered : Nat, left : Nat, serial : SUBSET Nat]

\* What the program still has to do, and whether it has, or will have, the lock.
Rest(r) == IF r.pc = "set" /\ Head(r.todo) = "unlock" THEN Tail(r.todo) ELSE r.todo
WillHold(r) == r.depth > 0 \/ (r.pc # "ready" /\ Head(r.todo) \in Takes)

\* Where a thread may be inside the call it makes.
CallAt(pc, op, kind) ==
  /\ pc \in LockPcs => op \in LockOps \cup Takes
  /\ pc \in CondPcs => op \in Takes
  /\ pc \in {"free", "sub"} => op = "unlock"
  /\ pc = "set" => op \in Takes \cup {"unlock"}
  /\ pc \in {"add", "wait"} => op = "lock"
  /\ pc \in {"count", "post"} => op \in {"signal", "broadcast"}
  /\ pc \in {"arrive", "reset", "breech", "stand", "advance"} => op = "barrier"
  /\ pc \in {"held", "own_early", "free"} => kind = "errorcheck"
  /\ pc = "own" => kind # "normal"
  /\ pc \in {"add", "wait", "sub"} => kind = "csect"
  /\ pc \in {"again", "sleep"} => kind # "csect"

\* A program uses what its kind of lock has.
Suits(p, kind) ==
  /\ kind # "normal" => \A i \in 1 .. Len(p) : p[i] \notin Takes
  /\ kind = "csect" => \A i \in 1 .. Len(p) : p[i] \notin {"timedlock", "trylock"}

ThreadInv(r, kind) ==
  /\ r \in ThreadRec /\ Suits(r.todo, kind)
  /\ r.pc # "ready" => r.todo # <<>> /\ CallAt(r.pc, Head(r.todo), kind)
  /\ r.pc = "asleep" => /\ r.next \in {"again", "own_early", "own", "cond_woken", "advance"}
                        /\ CallAt(r.next, Head(r.todo), kind) /\ (r.next = "own" => kind = "csect")
  /\ r.pc = "cond_unlock" => r.depth > 0
  /\ r.pc = "set" => r.depth = 0
  /\ kind = "normal" => Disciplined(Rest(r), WillHold(r))

-----------------------------------------------------------------------------
(* The queues of the kernel objects.                                       *)

\* The object that a sleeping thread waits for.
WaitsFor(r) == IF r.next \in {"again", "own_early", "own"} THEN "event"
               ELSE IF r.next = "cond_woken" THEN "semaphore" ELSE Breeched(r.step)

QueueInv(o) ==
  /\ \A i \in 1 .. Len(obj[o].queue) :
       th[obj[o].queue[i]].pc = "asleep" /\ WaitsFor(th[obj[o].queue[i]]) = o
  /\ \A i, j \in 1 .. Len(obj[o].queue) : obj[o].queue[i] = obj[o].queue[j] => i = j

\* cond.waiting counts the threads between its increment and its decrement.
InCond(r) ==
  \/ r.pc \in {"cond_unlock", "cond_sleep", "cond_woken"}
  \/ r.pc = "set" /\ Head(r.todo) \in Takes
  \/ r.pc = "asleep" /\ r.next = "cond_woken"
CondWaiters == {t \in Threads : InCond(th[t])}

MutexType == [kind : Kinds, lock : Int, owner : Threads \cup {NOHANDLE}, recursion : Nat]
BarrierType == [curr_height : Int, init_height : Nat \ {0}, step : {0, 1}]

ThreadsInv ==
  /\ obj \in [Objs -> [count : Nat, queue : Seq(Threads)]]
  /\ DOMAIN th = Threads /\ th = [t \in Threads |-> th[t]]
  /\ \A t \in Threads : ThreadInv(th[t], mutex.kind)
  /\ \A o \in Objs : QueueInv(o)

CondInv == cond = [waiting |-> Cardinality(CondWaiters)]

Base == mutex \in MutexType /\ barrier \in BarrierType /\ ThreadsInv /\ CondInv

-----------------------------------------------------------------------------
(* Exclusion.                                                              *)

\* Inside the lock: from the step that acquires it to the one that frees it;
\* for a critical section to the one that passes it on.
InsideRec(r, kind) ==
  r.depth > 0 \/ r.pc \in {"own", "sub", "free"} \/ (r.pc = "set" /\ kind = "csect")
Inside(t) == InsideRec(th[t], mutex.kind)

Free == mutex.lock = IF mutex.kind = "csect" THEN -1 ELSE 0

\* The owner of the lock m and the depth of thread t.
OwnerRec(r, t, m) ==
  /\ m.kind # "csect" => /\ r.depth \in {0, 1}
                         /\ r.pc \in {"own", "free"} => r.depth = 0
  /\ m.kind = "csect" =>
       IF m.owner = t
       THEN /\ r.depth = m.recursion + 1 /\ r.pc \notin {"own", "sub", "set", "add", "wait"}
            /\ ~(r.pc = "asleep" /\ r.next = "own")
       ELSE r.depth = 0
  /\ m.kind = "errorcheck" /\ m.owner = t =>
       \/ r.depth > 0 \/ r.todo = <<>>
       \/ r.pc \in {"again", "sleep", "own_early"}
       \/ r.pc = "asleep" /\ r.next = "own_early"

ExclInv ==
  /\ \A t, u \in Threads : Inside(t) /\ Inside(u) => t = u
  /\ Free => \A t \in Threads : ~Inside(t)
  /\ mutex.kind = "csect" =>
       /\ mutex.lock >= -1 /\ (mutex.owner = NOHANDLE => mutex.recursion = 0)
       /\ obj["event"].count \in {0, 1}
       /\ obj["event"].count = 1 => ~Free /\ \A t \in Threads : ~Inside(t)
  /\ \A t \in Threads : OwnerRec(th[t], t, mutex)

-----------------------------------------------------------------------------
(* Programs.                                                               *)

LEMMA DisciplineHead ==
  ASSUME NEW p \in Seq(Ops), p # <<>>, NEW held, Disciplined(p, held), Head(p) \in Takes \cup {"unlock"}
  PROVE  held
<1>1. 1 \in 1 .. Len(p) /\ p[1] = Head(p)
  OBVIOUS
<1>2. 1 .. (1 - 1) = {}
  OBVIOUS
<1>. QED BY <1>1, <1>2 DEF Disciplined

LEMMA DisciplineMore ==
  ASSUME NEW p, NEW held, Disciplined(p, held)
  PROVE  Disciplined(p, TRUE)
  BY DEF Disciplined

LEMMA DisciplineWeaker ==
  ASSUME NEW p, NEW a \in BOOLEAN, NEW b \in BOOLEAN, a => b, Disciplined(p, a)
  PROVE  Disciplined(p, b)
  BY DEF Disciplined

LEMMA DisciplineTail ==
  ASSUME NEW p \in Seq(Ops), p # <<>>, NEW held \in BOOLEAN, Disciplined(p, held)
  PROVE  /\ Head(p) \in LockOps => Disciplined(Tail(p), TRUE)
         /\ Head(p) = "unlock" => Disciplined(Tail(p), FALSE)
         /\ Head(p) \notin LockOps \cup {"unlock"} => Disciplined(Tail(p), held)
<1>. DEFINE q == Tail(p)
<1>1. /\ Len(p) \in Nat /\ Len(p) > 0 /\ q \in Seq(Ops) /\ Len(q) = Len(p) - 1 /\ p[1] = Head(p)
      /\ \A i \in 1 .. Len(q) : q[i] = p[i + 1]
  OBVIOUS
<1>. HIDE DEF q
<1>. DEFINE Before(i) == \E j \in 1 .. (i - 1) : /\ q[j] \in LockOps
                                                /\ \A k \in (j + 1) .. (i - 1) : q[k] # "unlock"
            NoUnlock(i) == \A k \in 1 .. (i - 1) : q[k] # "unlock"
<1>2. ASSUME NEW i \in 1 .. Len(q), q[i] \in Takes \cup {"unlock"}
      PROVE  \/ Before(i)
             \/ held /\ NoUnlock(i) /\ Head(p) # "unlock"
             \/ NoUnlock(i) /\ Head(p) \in LockOps
  <2>1. i + 1 \in 1 .. Len(p) /\ p[i + 1] \in Takes \cup {"unlock"} /\ (i + 1) - 1 = i /\ i \in Nat
    BY <1>1, <1>2
  <2>2. \/ held /\ \A k \in 1 .. i : p[k] # "unlock"
        \/ \E j \in 1 .. i : p[j] \in LockOps /\ \A k \in (j + 1) .. i : p[k] # "unlock"
    BY <2>1 DEF Disciplined
  <2>3. CASE held /\ \A k \in 1 .. i : p[k] # "unlock"
    <3>1. \A k \in 1 .. (i - 1) : k \in 1 .. Len(q) /\ k + 1 \in 1 .. i
      BY <1>1, <2>1
    <3>2. 1 \in 1 .. i
      BY <1>2
    <3>. QED BY <1>1, <2>3, <3>1, <3>2
  <2>4. ASSUME NEW j \in 1 .. i, p[j] \in LockOps, \A k \in (j + 1) .. i : p[k] # "unlock"
        PROVE  Before(i) \/ (NoUnlock(i) /\ Head(p) \in LockOps)
    <3>1. CASE j = 1
      <4>1. \A k \in 1 .. (i - 1) : k \in 1 .. Len(q) /\ k + 1 \in (j + 1) .. i
        BY <1>1, <2>1, <3>1
      <4>. QED BY <1>1, <2>4, <3>1, <4>1
    <3>2. CASE j > 1
      <4>1. j - 1 \in 1 .. (i - 1) /\ j - 1 \in 1 .. Len(q) /\ (j - 1) + 1 = j
        BY <1>1, <2>1, <2>4, <3>2
      <4>2. \A k \in ((j - 1) + 1) .. (i - 1) : k \in 1 .. Len(q) /\ k + 1 \in (j + 1) .. i
        BY <1>1, <2>1, <3>2
      <4>3. q[j - 1] \in LockOps
        BY <1>1, <2>4, <4>1
      <4>4. \A k \in ((j - 1) + 1) .. (i - 1) : q[k] # "unlock"
        BY <1>1, <2>4, <4>2
      <4>. QED BY <4>1, <4>3, <4>4
    <3>. QED BY <3>1, <3>2, <2>1
  <2>. QED BY <2>2, <2>3, <2>4
<1>3. Head(p) \in LockOps => Head(p) # "unlock"
  BY DEF LockOps
<1>. QED BY <1>2, <1>3 DEF Disciplined, q

LEMMA SuitsTail ==
  ASSUME NEW p \in Seq(Ops), p # <<>>, NEW kind, Suits(p, kind)
  PROVE  Tail(p) \in Seq(Ops) /\ Suits(Tail(p), kind) /\ Head(p) \in Ops
         /\ (kind # "normal" => Head(p) \notin Takes)
         /\ (kind = "csect" => Head(p) \notin {"timedlock", "trylock"})
<1>1. Tail(p) \in Seq(Ops) /\ Len(Tail(p)) = Len(p) - 1 /\ Len(p) \in Nat /\ Len(p) > 0
      /\ Head(p) = p[1] /\ p[1] \in Ops /\ \A i \in 1 .. Len(Tail(p)) : Tail(p)[i] = p[i + 1]
  OBVIOUS
<1>2. 1 \in 1 .. Len(p) /\ \A i \in 1 .. Len(Tail(p)) : i + 1 \in 1 .. Len(p)
  BY <1>1
<1>. QED BY <1>1, <1>2 DEF Suits

-----------------------------------------------------------------------------
(* The records a step may leave a thread in.                               *)

LEMMA AtRec ==
  ASSUME NEW r \in ThreadRec, NEW pc \in Pcs
  PROVE  /\ At(r, pc) \in ThreadRec /\ At(r, pc).pc = pc /\ At(r, pc).todo = r.todo
         /\ At(r, pc).depth = r.depth /\ At(r, pc).next = r.next
  BY DEF At, ThreadRec

LEMMA ReturnsRec ==
  ASSUME NEW r \in ThreadRec, r.todo # <<>>
  PROVE  /\ Returns(r) \in ThreadRec /\ Returns(r).pc = "ready" /\ Returns(r).todo = Tail(r.todo)
         /\ Returns(r).depth = r.depth /\ Returns(r).next = r.next
<1>1. r.todo \in Seq(Ops)
  BY DEF ThreadRec
<1>2. Tail(r.todo) \in Seq(Ops)
  BY <1>1
<1>. QED BY <1>2 DEF Returns, ThreadRec, Pcs

LEMMA GivesUpRec ==
  ASSUME NEW r \in ThreadRec
  PROVE  /\ GivesUp(r) \in ThreadRec /\ GivesUp(r).pc = "ready" /\ GivesUp(r).todo = <<>>
         /\ GivesUp(r).depth = r.depth
<1>1. <<>> \in Seq(Ops)
  OBVIOUS
<1>. QED BY <1>1 DEF GivesUp, ThreadRec, Pcs

\* A call has ended, or the thread looks at the condition again.
LEMMA ReadyInv ==
  ASSUME NEW kind \in Kinds, NEW s \in ThreadRec, s.pc = "ready", Suits(s.todo, kind),
         kind = "normal" => Disciplined(s.todo, s.depth > 0)
  PROVE  ThreadInv(s, kind)
  BY DEF ThreadInv, Rest, WillHold

\* A call goes on.
LEMMA MidInv ==
  ASSUME NEW kind \in Kinds, NEW s \in ThreadRec, s.pc \notin {"ready", "asleep", "set"},
         s.todo # <<>>, Suits(s.todo, kind), CallAt(s.pc, Head(s.todo), kind),
         s.pc = "cond_unlock" => s.depth > 0,
         kind = "normal" => Disciplined(s.todo, s.depth > 0 \/ Head(s.todo) \in Takes)
  PROVE  ThreadInv(s, kind)
  BY DEF ThreadInv, Rest, WillHold

\* The word is free, the event has to be set.
LEMMA SetInv ==
  ASSUME NEW kind \in Kinds, NEW s \in ThreadRec, s.pc = "set", s.depth = 0,
         s.todo # <<>>, Suits(s.todo, kind), Head(s.todo) \in Takes \cup {"unlock"},
         kind = "normal" => Disciplined(s.todo, TRUE)
  PROVE  ThreadInv(s, kind)
<1>1. CASE Head(s.todo) = "unlock"
  <2>1. kind = "normal" => Disciplined(Tail(s.todo), FALSE)
    BY <1>1, DisciplineTail DEF ThreadRec
  <2>2. s.pc # "ready" /\ s.pc # "asleep" /\ s.pc # "cond_unlock" /\ "unlock" \notin Takes
    BY DEF Takes
  <2>3. Rest(s) = Tail(s.todo) /\ WillHold(s) = FALSE
    BY <1>1, <2>2 DEF Rest, WillHold
  <2>4. CallAt(s.pc, Head(s.todo), kind)
    BY DEF CallAt, LockPcs, CondPcs
  <2>. QED BY <2>1, <2>2, <2>3, <2>4 DEF ThreadInv
<1>2. CASE Head(s.todo) \in Takes
  <2>1. s.pc # "ready" /\ s.pc # "asleep" /\ s.pc # "cond_unlock" /\ Head(s.todo) # "unlock"
    BY <1>2 DEF Takes
  <2>2. Rest(s) = s.todo /\ WillHold(s)
    BY <1>2, <2>1 DEF Rest, WillHold
  <2>3. CallAt(s.pc, Head(s.todo), kind)
    BY DEF CallAt, LockPcs, CondPcs
  <2>4. kind = "normal" => Disciplined(s.todo, WillHold(s))
    BY <2>2 DEF Disciplined
  <2>. QED BY <2>1, <2>2, <2>3, <2>4 DEF ThreadInv
<1>. QED BY <1>1, <1>2

\* The same, for a thread that was at r.
LEMMA StillMid ==
  ASSUME NEW kind \in Kinds, NEW r, ThreadInv(r, kind), r.todo # <<>>, r.pc # "set",
         NEW s \in ThreadRec, s.todo = r.todo, s.depth = r.depth,
         s.pc \notin {"ready", "asleep", "set"}, CallAt(s.pc, Head(r.todo), kind),
         s.pc = "cond_unlock" => s.depth > 0
  PROVE  ThreadInv(s, kind)
<1>1. Rest(r) = r.todo /\ Suits(r.todo, kind)
  BY DEF Rest, ThreadInv
<1>2. WillHold(r) => s.depth > 0 \/ Head(s.todo) \in Takes
  BY DEF WillHold
<1>3. kind = "normal" => Disciplined(s.todo, s.depth > 0 \/ Head(s.todo) \in Takes)
  BY <1>1, <1>2 DEF ThreadInv, Disciplined
<1>. QED BY <1>1, <1>3, MidInv

\* The call returns and leaves the lock as it was.
LEMMA ReturnsInv ==
  ASSUME NEW kind \in Kinds, NEW r, ThreadInv(r, kind), r.todo # <<>>,
         NEW s \in ThreadRec, s.pc = "ready", s.todo = Tail(r.todo), s.depth = r.depth,
         kind = "normal" => /\ r.pc # "set" /\ Head(r.todo) \notin LockOps \cup {"unlock"}
                            /\ r.pc = "ready" \/ Head(r.todo) \notin Takes
  PROVE  ThreadInv(s, kind)
<1>1. r.todo \in Seq(Ops) /\ Suits(r.todo, kind)
  BY DEF ThreadInv, ThreadRec
<1>2. Suits(s.todo, kind)
  BY <1>1, SuitsTail
<1>3. ASSUME kind = "normal" PROVE Disciplined(s.todo, s.depth > 0)
  <2>. DEFINE held == r.depth > 0
  <2>1. Rest(r) = r.todo /\ (WillHold(r) <=> held)
    BY <1>3 DEF Rest, WillHold
  <2>2. Disciplined(r.todo, held)
    BY <1>3, <2>1 DEF ThreadInv, Disciplined
  <2>3. held \in BOOLEAN /\ Head(r.todo) \notin LockOps \cup {"unlock"}
    BY <1>3
  <2>. HIDE DEF held
  <2>4. Disciplined(Tail(r.todo), held)
    BY <1>1, <2>2, <2>3, DisciplineTail
  <2>. QED BY <2>4 DEF held
<1>. QED BY <1>2, <1>3, ReadyInv

LEMMA LockedInv ==
  ASSUME NEW kind \in Kinds, NEW r, ThreadInv(r, kind), r.todo # <<>>, r.pc # "set",
         Head(r.todo) \in LockOps \cup Takes
  PROVE  /\ ThreadInv(Locked(r), kind) /\ Locked(r).pc = "ready" /\ Locked(r).depth = r.depth + 1
         /\ Locked(r).next = r.next
<1>. DEFINE s == Locked(r)
<1>1. r \in ThreadRec /\ r.todo \in Seq(Ops) /\ Suits(r.todo, kind)
  BY DEF ThreadInv, ThreadRec
<1>2. Suits(Tail(r.todo), kind) /\ Tail(r.todo) \in Seq(Ops)
  BY <1>1, SuitsTail
<1>3. /\ s \in ThreadRec /\ s.pc = "ready" /\ s.depth = r.depth + 1 /\ s.next = r.next
      /\ s.todo = IF Head(r.todo) \in Takes THEN r.todo ELSE Tail(r.todo)
  <2>. DEFINE x == [r EXCEPT !.depth = @ + 1]
  <2>1. x \in ThreadRec /\ x.pc = r.pc /\ x.depth = r.depth + 1 /\ x.next = r.next /\ x.todo = r.todo
    BY <1>1 DEF ThreadRec
  <2>2. s = IF Head(r.todo) \in Takes THEN At(x, "ready") ELSE Returns(x)
    BY DEF Locked
  <2>. HIDE DEF x, s
  <2>. QED BY <1>2, <2>1, <2>2 DEF ThreadRec, At, Returns, Pcs
<1>. HIDE DEF s
<1>4. Suits(s.todo, kind) /\ s.depth > 0
  BY <1>1, <1>2, <1>3 DEF ThreadRec
<1>5. ASSUME kind = "normal" PROVE Disciplined(s.todo, s.depth > 0)
  <2>. DEFINE held == WillHold(r)
  <2>1. held \in BOOLEAN /\ Disciplined(r.todo, held)
    BY <1>5 DEF ThreadInv, Rest, WillHold
  <2>. HIDE DEF held
  <2>2. Disciplined(r.todo, TRUE)
    BY <2>1, DisciplineWeaker
  <2>3. Head(r.todo) \notin Takes => Disciplined(Tail(r.todo), TRUE)
    BY <1>1, <2>1, DisciplineTail
  <2>4. Disciplined(s.todo, TRUE)
    BY <1>3, <2>2, <2>3
  <2>. QED BY <1>4, <2>4 DEF Disciplined
<1>6. ThreadInv(s, kind)
  BY <1>3, <1>4, <1>5, ReadyInv
<1>. QED BY <1>3, <1>6 DEF s

\* s is r with the lock let go.
LEMMA UnlockedInv ==
  ASSUME NEW kind \in Kinds, NEW r, ThreadInv(r, kind), r.todo # <<>>,
         Head(r.todo) \in Takes \cup {"unlock"}, Head(r.todo) \in Takes => r.pc # "ready",
         NEW s \in ThreadRec, s.todo = r.todo
  PROVE  /\ ThreadInv(Unlocked(s), kind) /\ Unlocked(s).depth = s.depth
         /\ Unlocked(s).pc = IF Head(r.todo) \in Takes THEN "cond_sleep" ELSE "ready"
<1>. DEFINE v == Unlocked(s)
<1>1. r \in ThreadRec /\ r.todo \in Seq(Ops) /\ Suits(r.todo, kind)
  BY DEF ThreadInv, ThreadRec
<1>2. Suits(Tail(r.todo), kind) /\ Tail(r.todo) \in Seq(Ops) /\ (kind # "normal" => Head(r.todo) \notin Takes)
  BY <1>1, SuitsTail
<1>3. /\ v \in ThreadRec /\ v.depth = s.depth /\ s.depth \in Nat
      /\ v.pc = IF Head(r.todo) \in Takes THEN "cond_sleep" ELSE "ready"
      /\ v.todo = IF Head(r.todo) \in Takes THEN r.todo ELSE Tail(r.todo)
  BY <1>1, <1>2 DEF ThreadRec, Unlocked, At, Returns, Pcs, CondPcs
<1>. HIDE DEF v
<1>. DEFINE held == WillHold(r)
<1>4. CASE Head(r.todo) \in Takes
  <2>1. v.pc = "cond_sleep" /\ v.todo = r.todo /\ Head(r.todo) # "unlock" /\ kind = "normal"
    BY <1>2, <1>3, <1>4 DEF Takes
  <2>2. held \in BOOLEAN /\ Disciplined(r.todo, held)
    BY <2>1 DEF ThreadInv, Rest, WillHold
  <2>. HIDE DEF held
  <2>3. Disciplined(r.todo, TRUE)
    BY <2>2, DisciplineWeaker
  <2>4. Disciplined(v.todo, v.depth > 0 \/ Head(v.todo) \in Takes)
    BY <1>4, <2>1, <2>3 DEF Disciplined
  <2>5. CallAt(v.pc, Head(v.todo), kind)
    BY <1>4, <2>1 DEF CallAt, LockPcs, CondPcs
  <2>6. ThreadInv(v, kind)
    BY <1>1, <1>3, <2>1, <2>4, <2>5, MidInv
  <2>. QED BY <1>3, <2>6 DEF v
<1>5. CASE Head(r.todo) = "unlock"
  <2>1. v.pc = "ready" /\ v.todo = Tail(r.todo) /\ Head(r.todo) \notin Takes
    BY <1>3, <1>5 DEF Takes
  <2>2. ASSUME kind = "normal" PROVE Disciplined(Tail(r.todo), FALSE)
    <3>1. CASE r.pc = "set"
      <4>1. Rest(r) = Tail(r.todo) /\ WillHold(r) = FALSE
        BY <1>1, <1>5, <2>1, <3>1 DEF Rest, WillHold, ThreadInv
      <4>. QED BY <2>2, <4>1 DEF ThreadInv
    <3>2. CASE r.pc # "set"
      <4>1. held \in BOOLEAN /\ Disciplined(r.todo, held)
        BY <2>2, <3>2 DEF ThreadInv, Rest, WillHold
      <4>. HIDE DEF held
      <4>. QED BY <1>1, <1>5, <4>1, DisciplineTail
    <3>. QED BY <3>1, <3>2
  <2>3. kind = "normal" => Disciplined(v.todo, v.depth > 0)
    BY <2>1, <2>2 DEF Disciplined
  <2>4. ThreadInv(v, kind)
    BY <1>2, <1>3, <2>1, <2>3, ReadyInv
  <2>. QED BY <1>3, <2>4 DEF v
<1>. QED BY <1>4, <1>5

\* A thread goes to sleep, and is woken.
LEMMA AsleepInv ==
  ASSUME NEW kind \in Kinds, NEW r, ThreadInv(r, kind), r.pc \notin {"ready", "set"},
         NEW next \in {"again", "own_early", "own", "cond_woken", "advance"},
         CallAt(next, Head(r.todo), kind), next = "own" => kind = "csect"
  PROVE  /\ ThreadInv([r EXCEPT !.pc = "asleep", !.next = next], kind)
         /\ ThreadInv(At(r, next), kind)
<1>. DEFINE a == [r EXCEPT !.pc = "asleep", !.next = next]
            b == At(r, next)
<1>1. /\ a \in ThreadRec /\ a.pc = "asleep" /\ a.next = next /\ a.todo = r.todo /\ a.depth = r.depth
      /\ b \in ThreadRec /\ b.pc = next /\ b.todo = r.todo /\ b.depth = r.depth
  <2>1. r \in ThreadRec /\ "asleep" \in Pcs /\ next \in Pcs
    BY DEF ThreadInv, Pcs, LockPcs, CondPcs, BarrierPcs
  <2>2. a \in ThreadRec /\ a.pc = "asleep" /\ a.next = next /\ a.todo = r.todo /\ a.depth = r.depth
    BY <2>1 DEF ThreadRec
  <2>3. b \in ThreadRec /\ b.pc = next /\ b.todo = r.todo /\ b.depth = r.depth
    BY <2>1, AtRec
  <2>. QED BY <2>2, <2>3
<1>. HIDE DEF a, b
<1>2. Rest(a) = Rest(r) /\ Rest(b) = Rest(r) /\ (WillHold(a) <=> WillHold(r)) /\ (WillHold(b) <=> WillHold(r))
  BY <1>1 DEF Rest, WillHold
<1>3. kind = "normal" => Disciplined(Rest(r), WillHold(a)) /\ Disciplined(Rest(r), WillHold(b))
  BY <1>2 DEF Disciplined, ThreadInv
<1>4. CallAt("asleep", Head(r.todo), kind)
  BY DEF CallAt, LockPcs, CondPcs
<1>5. ThreadInv(a, kind)
  BY <1>1, <1>2, <1>3, <1>4 DEF ThreadInv
<1>6. ThreadInv(b, kind)
  BY <1>1, <1>2, <1>3 DEF ThreadInv
<1>. QED BY <1>5, <1>6 DEF a, b

LEMMA WokenInv ==
  ASSUME NEW kind \in Kinds, NEW r, ThreadInv(r, kind), r.pc = "asleep"
  PROVE  ThreadInv(At(r, r.next), kind)
<1>1. PICK next \in {"again", "own_early", "own", "cond_woken", "advance"} :
        next = r.next /\ CallAt(next, Head(r.todo), kind) /\ (next = "own" => kind = "csect")
  BY DEF ThreadInv
<1>2. r.pc \notin {"ready", "set"}
  OBVIOUS
<1>3. ThreadInv(At(r, next), kind)
  BY <1>1, <1>2, AsleepInv
<1>. QED BY <1>1, <1>3

-----------------------------------------------------------------------------
(* The steps: one thread's record changes, and perhaps a kernel object.    *)

LEMMA GoKeeps ==
  ASSUME ThreadsInv, NEW t \in Threads, NEW r, Go(t, r), obj' = obj, th[t].pc # "asleep",
         mutex'.kind = mutex.kind, ThreadInv(r, mutex.kind)
  PROVE  /\ ThreadsInv'
         /\ th'[t] = r /\ \A u \in Threads \ {t} : th'[u] = th[u]
<1>1. /\ DOMAIN th' = Threads /\ th' = [u \in Threads |-> th'[u]]
      /\ th'[t] = r /\ \A u \in Threads \ {t} : th'[u] = th[u]
  BY DEF ThreadsInv, Go
<1>2. ASSUME NEW o \in Objs PROVE QueueInv(o)'
  <2>1. \A i \in 1 .. Len(obj[o].queue) : obj[o].queue[i] \in Threads \ {t}
    BY DEF ThreadsInv, QueueInv
  <2>. QED BY <1>1, <2>1 DEF ThreadsInv, QueueInv
<1>. QED BY <1>1, <1>2 DEF ThreadsInv

\* waitone: the count is taken, or the thread sleeps at the end of the queue.
Waited(t, o, next) ==
  /\ \A u \in Threads \ {t} : th'[u] = th[u]
  /\ \A x \in Objs \ {o} : obj'[x].count = obj[x].count
  /\ \/ /\ obj[o].count > 0 /\ obj'[o].count = obj[o].count - 1 /\ th'[t] = At(th[t], next)
     \/ /\ obj'[o].count = obj[o].count
        /\ th'[t] = [th[t] EXCEPT !.pc = "asleep", !.next = next]

LEMMA WaitKeeps ==
  ASSUME ThreadsInv, NEW t \in Threads, NEW o \in Objs, NEW next, waitone(t, o, next),
         th[t].pc \notin {"ready", "set", "asleep"}, mutex' = mutex, mutex.kind \in Kinds,
         next \in {"again", "own_early", "own", "cond_woken", "advance"},
         CallAt(next, Head(th[t].todo), mutex.kind), next = "own" => mutex.kind = "csect",
         WaitsFor([th[t] EXCEPT !.pc = "asleep", !.next = next]) = o
  PROVE  ThreadsInv' /\ Waited(t, o, next)
<1>. DEFINE a == [th[t] EXCEPT !.pc = "asleep", !.next = next]
            b == At(th[t], next)
<1>1. ThreadInv(a, mutex.kind) /\ ThreadInv(b, mutex.kind)
  BY AsleepInv DEF ThreadsInv
<1>2. /\ obj \in [Objs -> [count : Nat, queue : Seq(Threads)]]
      /\ DOMAIN th = Threads /\ th = [u \in Threads |-> th[u]]
  BY DEF ThreadsInv
<1>3. \A x \in Objs : \A i \in 1 .. Len(obj[x].queue) : obj[x].queue[i] \in Threads \ {t}
  BY <1>2 DEF ThreadsInv, QueueInv
<1>4. CASE obj[o].count > 0
  <2>1. /\ obj' = [obj EXCEPT ![o].count = @ - 1] /\ th' = [th EXCEPT ![t].pc = next]
    BY <1>4 DEF waitone
  <2>2. /\ th'[t] = b /\ (\A u \in Threads \ {t} : th'[u] = th[u])
        /\ DOMAIN th' = Threads /\ th' = [u \in Threads |-> th'[u]]
    BY <1>2, <2>1 DEF At
  <2>3. /\ obj' \in [Objs -> [count : Nat, queue : Seq(Threads)]]
        /\ \A x \in Objs : obj'[x].queue = obj[x].queue
        /\ \A x \in Objs \ {o} : obj'[x].count = obj[x].count
        /\ obj'[o].count = obj[o].count - 1
    BY <1>2, <1>4, <2>1
  <2>4. ASSUME NEW x \in Objs PROVE QueueInv(x)'
    <3>1. QueueInv(x) /\ obj'[x].queue = obj[x].queue
      BY <2>3 DEF ThreadsInv
    <3>2. \A i \in 1 .. Len(obj[x].queue) : th'[obj[x].queue[i]] = th[obj[x].queue[i]]
      BY <1>3, <2>2
    <3>. QED BY <3>1, <3>2 DEF QueueInv, WaitsFor
  <2>5. ThreadsInv'
    BY <1>1, <2>2, <2>3, <2>4 DEF ThreadsInv
  <2>. QED BY <1>4, <2>2, <2>3, <2>5 DEF Waited
<1>5. CASE ~(obj[o].count > 0)
  <2>1. /\ obj' = [obj EXCEPT ![o].queue = Append(@, t)]
        /\ th' = [th EXCEPT ![t].pc = "asleep", ![t].next = next]
    BY <1>5 DEF waitone
  <2>2. /\ th'[t] = a /\ (\A u \in Threads \ {t} : th'[u] = th[u])
        /\ DOMAIN th' = Threads /\ th' = [u \in Threads |-> th'[u]]
    BY <1>2, <2>1
  <2>3. /\ obj' \in [Objs -> [count : Nat, queue : Seq(Threads)]]
        /\ \A x \in Objs \ {o} : obj'[x].queue = obj[x].queue
        /\ obj'[o].queue = Append(obj[o].queue, t)
        /\ \A x \in Objs : obj'[x].count = obj[x].count
    <3>1. /\ obj'[o].queue = Append(obj[o].queue, t) /\ obj'[o].count = obj[o].count
          /\ \A x \in Objs \ {o} : obj'[x] = obj[x]
      BY <1>2, <2>1
    <3>2. Append(obj[o].queue, t) \in Seq(Threads)
      BY <1>2
    <3>3. obj'[o] \in [count : Nat, queue : Seq(Threads)]
      BY <1>2, <2>1, <3>2
    <3>4. DOMAIN obj' = Objs /\ obj' = [x \in Objs |-> obj'[x]]
      BY <1>2, <2>1
    <3>. QED BY <1>2, <3>1, <3>3, <3>4
  <2>4. ASSUME NEW x \in Objs \ {o} PROVE QueueInv(x)'
    BY <1>3, <2>2, <2>3 DEF ThreadsInv, QueueInv
  <2>5. QueueInv(o)'
    <3>. DEFINE q == obj[o].queue
    <3>1. q \in Seq(Threads) /\ Len(q) \in Nat
      BY <1>2
    <3>2. /\ Len(obj'[o].queue) = Len(q) + 1 /\ obj'[o].queue[Len(q) + 1] = t
          /\ \A i \in 1 .. Len(q) : obj'[o].queue[i] = q[i]
      BY <2>3, <3>1
    <3>3. /\ a.pc = "asleep" /\ WaitsFor(a) = o
      BY <1>1 DEF ThreadsInv, ThreadInv, ThreadRec
    <3>4. \A i \in 1 .. (Len(q) + 1) : i \in 1 .. Len(q) \/ i = Len(q) + 1
      BY <3>1
    <3>5. \A i \in 1 .. Len(q) : th[q[i]].pc = "asleep" /\ WaitsFor(th[q[i]]) = o
                                 /\ \A j \in 1 .. Len(q) : q[i] = q[j] => i = j
      BY DEF ThreadsInv, QueueInv
    <3>6. \A i \in 1 .. Len(q) : th'[q[i]] = th[q[i]] /\ q[i] # t
      BY <1>3, <2>2
    <3>. HIDE DEF q, a
    <3>7. \A i \in 1 .. (Len(q) + 1) : /\ th'[obj'[o].queue[i]].pc = "asleep"
                                       /\ WaitsFor(th'[obj'[o].queue[i]]) = o
      BY <2>2, <3>2, <3>3, <3>4, <3>5, <3>6
    <3>8. \A i, j \in 1 .. (Len(q) + 1) : obj'[o].queue[i] = obj'[o].queue[j] => i = j
      BY <3>2, <3>4, <3>5, <3>6
    <3>. QED BY <3>2, <3>7, <3>8 DEF QueueInv, WaitsFor
  <2>6. ThreadsInv'
    BY <1>1, <2>2, <2>3, <2>4, <2>5 DEF ThreadsInv
  <2>. QED BY <2>2, <2>3, <2>6 DEF Waited
<1>. QED BY <1>4, <1>5

LEMMA SubSeqPart ==
  ASSUME NEW T, NEW q \in Seq(T), NEW a \in Nat, NEW b \in Nat, 1 <= a, b <= Len(q), a <= b + 1
  PROVE  /\ SubSeq(q, a, b) \in Seq(T) /\ Len(SubSeq(q, a, b)) = b - a + 1
         /\ \A i \in 1 .. (b - a + 1) : SubSeq(q, a, b)[i] = q[a + i - 1]
<1>1. SubSeq(q, a, b) \in Seq(T)
  OBVIOUS
<1>2. Len(SubSeq(q, a, b)) = b - a + 1
  OBVIOUS
<1>3. \A i \in 1 .. (b - a + 1) : SubSeq(q, a, b)[i] = q[a + i - 1]
  OBVIOUS
<1>. QED BY <1>1, <1>2, <1>3

LEMMA RemoveAtPart ==
  ASSUME NEW T, NEW q \in Seq(T), NEW n \in 1 .. Len(q)
  PROVE  /\ RemoveAt(q, n) \in Seq(T) /\ Len(RemoveAt(q, n)) = Len(q) - 1
         /\ \A i \in 1 .. (Len(q) - 1) : RemoveAt(q, n)[i] = q[IF i < n THEN i ELSE i + 1]
<1>. DEFINE x == SubSeq(q, 1, n - 1)
            y == SubSeq(q, n + 1, Len(q))
<1>0. Len(q) \in Nat /\ n \in Nat /\ n - 1 \in Nat /\ n + 1 \in Nat
  OBVIOUS
<1>1. x \in Seq(T) /\ Len(x) = n - 1 /\ \A i \in 1 .. (n - 1) : x[i] = q[i]
  <2>1. x \in Seq(T) 
    OBVIOUS
  <2>2. Len(x) = n - 1
    OBVIOUS
  <2>3. \A i \in 1 .. (n - 1) : x[i] = q[i]
    OBVIOUS
  <2>. QED BY <2>1, <2>2, <2>3
<1>2. y \in Seq(T) /\ Len(y) = Len(q) - n /\ \A i \in 1 .. (Len(q) - n) : y[i] = q[n + i]
  <2>1. y \in Seq(T) 
    OBVIOUS
  <2>2. Len(y) = Len(q) - n
    OBVIOUS
  <2>3. \A i \in 1 .. (Len(q) - n) : y[i] = q[n + i]
    OBVIOUS
  <2>. QED BY <2>1, <2>2, <2>3
<1>. HIDE DEF x, y
<1>3. x \o y \in Seq(T)
  BY <1>1, <1>2
<1>4. Len(x \o y) = Len(q) - 1
  <2>1. Len(x \o y) = Len(x) + Len(y)
    BY <1>1, <1>2, ConcatProperties
  <2>. QED BY <1>0, <1>1, <1>2, <2>1
<1>5. ASSUME NEW i \in 1 .. (Len(q) - 1) PROVE (x \o y)[i] = q[IF i < n THEN i ELSE i + 1]
  <2>1. CASE i < n
    <3>1. i \in 1 .. Len(x) /\ i \in 1 .. (n - 1)
      BY <1>0, <1>1, <2>1
    <3>. QED BY <1>1, <1>2, <2>1, <3>1
  <2>2. CASE ~(i < n)
    <3>1. /\ i - Len(x) = i - n + 1 /\ i - n + 1 \in 1 .. (Len(q) - n) /\ n + (i - n + 1) = i + 1
          /\ i \in (Len(x) + 1) .. (Len(x) + Len(y))
      BY <1>0, <1>1, <1>2, <2>2
    <3>2. (x \o y)[i] = y[i - Len(x)]
      BY <1>1, <1>2, <3>1
    <3>. QED BY <1>2, <2>2, <3>1, <3>2
  <2>. QED BY <2>1, <2>2
<1>. QED BY <1>3, <1>4, <1>5 DEF RemoveAt, x, y
LEMMA MinPair ==
  ASSUME NEW a \in Int, NEW b \in Int
  PROVE  Min({a, b}) \in {a, b} /\ Min({a, b}) <= a /\ Min({a, b}) <= b
<1>1. \E x \in {a, b} : \A y \in {a, b} : x <= y
  <2>1. CASE a <= b
    BY <2>1
  <2>2. CASE b <= a
    BY <2>2
  <2>. QED BY <2>1, <2>2
<1>. QED BY <1>1 DEF Min

\* Release: the first k threads of the queue wake up, the caller goes on as r.
Released(t, r, o, n, k) ==
  /\ k = Min({obj[o].count + n, Len(obj[o].queue)})
  /\ obj' \in [Objs -> [count : Nat, queue : Seq(Threads)]]
  /\ \A x \in Objs \ {o} : obj'[x] = obj[x]
  /\ obj'[o].count <= obj[o].count + n - k
  /\ o # "event" => obj'[o].count = obj[o].count + n - k
  /\ Len(obj'[o].queue) = Len(obj[o].queue) - k
  /\ \A i \in 1 .. (Len(obj[o].queue) - k) : obj'[o].queue[i] = obj[o].queue[i + k]
  /\ DOMAIN th' = Threads /\ th' = [u \in Threads |-> th'[u]] /\ th'[t] = r
  /\ \A i \in 1 .. k : th'[obj[o].queue[i]] = At(th[obj[o].queue[i]], th[obj[o].queue[i]].next)
  /\ \A u \in Threads \ {t} : (\A i \in 1 .. k : obj[o].queue[i] # u) => th'[u] = th[u]

LEMMA ReleaseShape ==
  ASSUME ThreadsInv, NEW t \in Threads, NEW r, NEW o \in Objs, NEW n \in Nat, Release(t, r, o, n),
         th[t].pc # "asleep"
  PROVE  \E k \in 0 .. Len(obj[o].queue) : Released(t, r, o, n, k)
<1>. DEFINE q == obj[o].queue
            k == Min({obj[o].count + n, Len(q)})
            c == obj[o].count + n - k
            d == IF o = "event" THEN Min({c, 1}) ELSE c
<1>1. /\ obj \in [Objs -> [count : Nat, queue : Seq(Threads)]]
      /\ q \in Seq(Threads) /\ Len(q) \in Nat /\ obj[o].count \in Nat
  BY DEF ThreadsInv
<1>2. k \in 0 .. Len(q) /\ k <= obj[o].count + n /\ k \in Nat
  <2>1. obj[o].count + n \in Int /\ Len(q) \in Int
    BY <1>1
  <2>2. k \in {obj[o].count + n, Len(q)} /\ k <= obj[o].count + n /\ k <= Len(q)
    BY <2>1, MinPair
  <2>. HIDE DEF k
  <2>. QED BY <1>1, <2>2
<1>3. c \in Nat
  BY <1>1, <1>2
<1>4. d \in Nat /\ d <= c
  <2>. HIDE DEF c
  <2>0. c \in Int /\ 1 \in Int
    BY <1>3
  <2>1. Min({c, 1}) \in {c, 1} /\ Min({c, 1}) <= c
    BY <2>0, MinPair
  <2>. QED BY <1>3, <2>1
<1>5. /\ obj' = [obj EXCEPT ![o] = [count |-> d, queue |-> SubSeq(q, k + 1, Len(q))]]
      /\ th' = [u \in Threads |-> IF u = t THEN r
                                 ELSE IF \E i \in 1 .. k : q[i] = u
                                 THEN [th[u] EXCEPT !.pc = th[u].next]
                                 ELSE th[u]]
  BY DEF Release
<1>6. LET p == SubSeq(q, k + 1, Len(q)) IN
      p \in Seq(Threads) /\ Len(p) = Len(q) - k /\ \A i \in 1 .. (Len(q) - k) : p[i] = q[i + k]
  <2>. HIDE DEF k, q
  <2>1. /\ k + 1 \in Nat /\ Len(q) \in Nat /\ 1 <= k + 1 /\ Len(q) <= Len(q) /\ k + 1 <= Len(q) + 1
        /\ Len(q) - (k + 1) + 1 = Len(q) - k
        /\ \A i \in 1 .. (Len(q) - k) : (k + 1) + i - 1 = i + k
    BY <1>1, <1>2
  <2>2. /\ SubSeq(q, k + 1, Len(q)) \in Seq(Threads)
        /\ Len(SubSeq(q, k + 1, Len(q))) = Len(q) - (k + 1) + 1
        /\ \A i \in 1 .. (Len(q) - (k + 1) + 1) : SubSeq(q, k + 1, Len(q))[i] = q[(k + 1) + i - 1]
    BY <1>1, <2>1, SubSeqPart
  <2>. QED BY <2>1, <2>2
<1>. HIDE DEF d, k, c
<1>7. /\ obj' \in [Objs -> [count : Nat, queue : Seq(Threads)]]
      /\ \A x \in Objs \ {o} : obj'[x] = obj[x]
      /\ obj'[o].count = d /\ obj'[o].queue = SubSeq(q, k + 1, Len(q))
  BY <1>1, <1>4, <1>5, <1>6
<1>. HIDE DEF q
<1>8. \A i \in 1 .. k : q[i] \in Threads \ {t}
  <2>1. \A i \in 1 .. k : i \in 1 .. Len(q)
    BY <1>1, <1>2
  <2>2. \A i \in 1 .. Len(q) : q[i] \in Threads \ {t}
    BY <1>1 DEF ThreadsInv, QueueInv, q
  <2>. QED BY <2>1, <2>2
<1>9. /\ th'[t] = r
      /\ \A i \in 1 .. k : th'[q[i]] = At(th[q[i]], th[q[i]].next)
      /\ \A u \in Threads \ {t} : (\A i \in 1 .. k : q[i] # u) => th'[u] = th[u]
      /\ DOMAIN th' = Threads /\ th' = [u \in Threads |-> th'[u]]
  BY <1>5, <1>8 DEF At
<1>10. /\ k = Min({obj[o].count + n, Len(obj[o].queue)}) /\ d <= obj[o].count + n - k
       /\ o # "event" => d = obj[o].count + n - k
  BY <1>4 DEF c, d, k, q
<1>11. Released(t, r, o, n, k)
  BY <1>6, <1>7, <1>9, <1>10 DEF Released, q
<1>. QED BY <1>2, <1>11 DEF q

LEMMA ReleaseKeeps ==
  ASSUME ThreadsInv, NEW t \in Threads, NEW r, NEW o \in Objs, NEW n \in Nat, Release(t, r, o, n),
         th[t].pc # "asleep", mutex' = mutex, mutex.kind \in Kinds, ThreadInv(r, mutex.kind)
  PROVE  /\ ThreadsInv' /\ th'[t] = r
         /\ \A u \in Threads \ {t} : \/ th'[u] = th[u]
                                      \/ /\ th[u].pc = "asleep" /\ WaitsFor(th[u]) = o
                                         /\ th'[u] = At(th[u], th[u].next)
         /\ \A x \in Objs \ {o} : obj'[x] = obj[x]
<1>. DEFINE q == obj[o].queue
<1>0. PICK k \in 0 .. Len(q) : Released(t, r, o, n, k)
  BY ReleaseShape
<1>1. /\ obj' \in [Objs -> [count : Nat, queue : Seq(Threads)]]
      /\ \A x \in Objs \ {o} : obj'[x] = obj[x]
      /\ Len(obj'[o].queue) = Len(q) - k
      /\ \A i \in 1 .. (Len(q) - k) : obj'[o].queue[i] = q[i + k]
      /\ DOMAIN th' = Threads /\ th' = [u \in Threads |-> th'[u]] /\ th'[t] = r
      /\ \A i \in 1 .. k : th'[q[i]] = At(th[q[i]], th[q[i]].next)
      /\ \A u \in Threads \ {t} : (\A i \in 1 .. k : q[i] # u) => th'[u] = th[u]
  BY <1>0 DEF Released
<1>2. /\ q \in Seq(Threads) /\ Len(q) \in Nat
      /\ \A i \in 1 .. Len(q) : /\ th[q[i]].pc = "asleep" /\ WaitsFor(th[q[i]]) = o /\ q[i] \in Threads \ {t}
                                /\ \A j \in 1 .. Len(q) : q[i] = q[j] => i = j
  BY DEF ThreadsInv, QueueInv
<1>3. \A i \in 1 .. k : i \in 1 .. Len(q)
  BY <1>1, <1>2
<1>4. \A u \in Threads \ {t} : \/ th'[u] = th[u]
                              \/ /\ th[u].pc = "asleep" /\ WaitsFor(th[u]) = o
                                 /\ th'[u] = At(th[u], th[u].next)
  BY <1>1, <1>2, <1>3
<1>5. ASSUME NEW u \in Threads PROVE ThreadInv(th'[u], mutex.kind)
  <2>1. CASE th'[u] = th[u]
    BY <2>1 DEF ThreadsInv
  <2>2. CASE th[u].pc = "asleep" /\ th'[u] = At(th[u], th[u].next)
    BY <2>2, WokenInv DEF ThreadsInv
  <2>. QED BY <1>1, <1>4, <2>1, <2>2
<1>6. ASSUME NEW x \in Objs \ {o} PROVE QueueInv(x)'
  <2>. DEFINE p == obj[x].queue
  <2>1. /\ p \in Seq(Threads)
        /\ \A i \in 1 .. Len(p) : /\ th[p[i]].pc = "asleep" /\ WaitsFor(th[p[i]]) = x /\ p[i] \in Threads \ {t}
                                  /\ \A j \in 1 .. Len(p) : p[i] = p[j] => i = j
    BY DEF ThreadsInv, QueueInv
  <2>2. \A i \in 1 .. Len(p) : th'[p[i]] = th[p[i]]
    BY <1>4, <2>1
  <2>3. obj'[x].queue = p
    BY <1>1
  <2>. HIDE DEF p
  <2>. QED BY <2>1, <2>2, <2>3 DEF QueueInv, WaitsFor
<1>7. QueueInv(o)'
  <2>1. /\ Len(obj'[o].queue) = Len(q) - k
        /\ \A i \in 1 .. (Len(q) - k) : obj'[o].queue[i] = q[i + k]
    BY <1>1
  <2>2. \A i \in 1 .. (Len(q) - k) : i + k \in 1 .. Len(q) /\ i + k \in Nat /\ i + k \notin 1 .. k /\ i \in Nat
    BY <1>1, <1>2
  <2>3. ASSUME NEW i \in 1 .. (Len(q) - k) PROVE th'[q[i + k]] = th[q[i + k]]
    <3>1. \A j \in 1 .. k : q[j] # q[i + k]
      BY <1>2, <1>3, <2>2
    <3>. QED BY <1>1, <1>2, <2>2, <3>1
  <2>4. ASSUME NEW i \in 1 .. (Len(q) - k)
        PROVE  th'[obj'[o].queue[i]].pc = "asleep" /\ WaitsFor(th'[obj'[o].queue[i]]) = o
    <3>1. th[q[i + k]].pc = "asleep" /\ WaitsFor(th[q[i + k]]) = o
      BY <1>2, <2>2
    <3>2. th'[obj'[o].queue[i]] = th[q[i + k]]
      BY <2>1, <2>3
    <3>. QED BY <3>1, <3>2
  <2>5. \A i, j \in 1 .. (Len(q) - k) : obj'[o].queue[i] = obj'[o].queue[j] => i = j
    <3>. SUFFICES ASSUME NEW i \in 1 .. (Len(q) - k), NEW j \in 1 .. (Len(q) - k),
                         obj'[o].queue[i] = obj'[o].queue[j]
                  PROVE  i = j
      OBVIOUS
    <3>1. i + k = j + k
      BY <1>2, <2>1, <2>2
    <3>. QED BY <1>1, <1>2, <2>2, <3>1
  <2>. HIDE DEF q
  <2>. QED BY <2>1, <2>4, <2>5 DEF QueueInv, WaitsFor
<1>8. ThreadsInv'
  BY <1>1, <1>5, <1>6, <1>7 DEF ThreadsInv
<1>. QED BY <1>1, <1>4, <1>8

\* eset of an event without a unit: the first waiter gets it, or the event keeps it.
LEMMA ReleaseOne ==
  ASSUME ThreadsInv, NEW t \in Threads, NEW r, Release(t, r, "event", 1),
         th[t].pc # "asleep", obj["event"].count = 0
  PROVE  \/ obj'["event"].count <= 1 /\ \A u \in Threads \ {t} : th'[u] = th[u]
         \/ \E u \in Threads \ {t} :
              /\ obj'["event"].count = 0 /\ th[u].pc = "asleep" /\ WaitsFor(th[u]) = "event"
              /\ th'[u] = At(th[u], th[u].next)
              /\ \A v \in Threads \ {t, u} : th'[v] = th[v]
<1>. DEFINE q == obj["event"].queue
<1>0. "event" \in Objs
  BY DEF Objs
<1>9. PICK k \in 0 .. Len(q) : Released(t, r, "event", 1, k)
  BY <1>0, ReleaseShape
<1>1. /\ k = Min({obj["event"].count + 1, Len(q)})
      /\ obj' \in [Objs -> [count : Nat, queue : Seq(Threads)]]
      /\ obj'["event"].count <= obj["event"].count + 1 - k
      /\ \A i \in 1 .. k : th'[q[i]] = At(th[q[i]], th[q[i]].next)
      /\ \A u \in Threads \ {t} : (\A i \in 1 .. k : q[i] # u) => th'[u] = th[u]
  BY <1>9 DEF Released
<1>2. /\ q \in Seq(Threads) /\ Len(q) \in Nat
      /\ \A i \in 1 .. Len(q) : /\ th[q[i]].pc = "asleep" /\ WaitsFor(th[q[i]]) = "event" /\ q[i] \in Threads \ {t}
  BY <1>0 DEF ThreadsInv, QueueInv
<1>3. k <= 1 /\ k \in Nat
  <2>1. 1 \in Int /\ Len(q) \in Int /\ obj["event"].count + 1 = 1
    BY <1>2
  <2>. QED BY <1>1, <1>2, <2>1, MinPair
<1>4. CASE k = 0
  <2>1. 1 .. k = {} /\ obj'["event"].count <= 1
    BY <1>1, <1>4
  <2>. QED BY <1>1, <2>1
<1>5. CASE k = 1
  <2>1. 1 \in 1 .. Len(q) /\ 1 \in 1 .. k /\ \A i \in 1 .. k : i = 1
    BY <1>2, <1>5
  <2>2. obj'["event"].count = 0
    BY <1>0, <1>1, <1>5
  <2>3. /\ q[1] \in Threads \ {t} /\ th[q[1]].pc = "asleep" /\ WaitsFor(th[q[1]]) = "event"
        /\ th'[q[1]] = At(th[q[1]], th[q[1]].next)
        /\ \A v \in Threads \ {t, q[1]} : th'[v] = th[v]
    BY <1>1, <1>2, <2>1
  <2>. HIDE DEF q
  <2>. QED BY <2>2, <2>3
<1>. QED BY <1>3, <1>4, <1>5

\* A timeout: the thread leaves the queue of the object that it waits for.
LEMMA TimeoutKeeps ==
  ASSUME ThreadsInv, NEW t \in Threads, th[t].pc = "asleep", Go(t, At(th[t], th[t].next)),
         NEW o \in Objs, NEW n \in 1 .. Len(obj[o].queue), obj[o].queue[n] = t,
         obj' = [obj EXCEPT ![o].queue = RemoveAt(@, n)], mutex' = mutex, mutex.kind \in Kinds
  PROVE  /\ ThreadsInv' /\ th'[t] = At(th[t], th[t].next) /\ \A u \in Threads \ {t} : th'[u] = th[u]
         /\ \A x \in Objs : obj'[x].count = obj[x].count
<1>. DEFINE q == obj[o].queue
            p == RemoveAt(q, n)
            at(i) == IF i < n THEN i ELSE i + 1
<1>1. /\ obj \in [Objs -> [count : Nat, queue : Seq(Threads)]] /\ q \in Seq(Threads) /\ Len(q) \in Nat
      /\ DOMAIN th = Threads /\ th = [u \in Threads |-> th[u]]
  BY DEF ThreadsInv
<1>2. /\ DOMAIN th' = Threads /\ th' = [u \in Threads |-> th'[u]]
      /\ th'[t] = At(th[t], th[t].next) /\ \A u \in Threads \ {t} : th'[u] = th[u]
  BY <1>1 DEF Go
<1>3. p \in Seq(Threads) /\ Len(p) = Len(q) - 1 /\ \A i \in 1 .. (Len(q) - 1) : p[i] = q[at(i)]
  <2>. HIDE DEF q
  <2>1. n \in 1 .. Len(q)
    BY DEF q
  <2>. QED BY <1>1, <2>1, RemoveAtPart
<1>4. /\ obj' \in [Objs -> [count : Nat, queue : Seq(Threads)]]
      /\ obj'[o].queue = p /\ \A x \in Objs \ {o} : obj'[x] = obj[x]
      /\ \A x \in Objs : obj'[x].count = obj[x].count
  <2>. HIDE DEF p
  <2>1. obj' = [obj EXCEPT ![o].queue = p]
    BY DEF p
  <2>. QED BY <1>1, <1>3, <2>1
<1>5. ASSUME NEW u \in Threads PROVE ThreadInv(th'[u], mutex.kind)
  <2>1. CASE u = t
    BY <1>2, <2>1, WokenInv DEF ThreadsInv
  <2>2. CASE u # t
    BY <1>2, <2>2 DEF ThreadsInv
  <2>. QED BY <2>1, <2>2
<1>6. /\ \A i \in 1 .. Len(q) : /\ th[q[i]].pc = "asleep" /\ WaitsFor(th[q[i]]) = o /\ q[i] \in Threads
                                /\ \A j \in 1 .. Len(q) : q[i] = q[j] => i = j
      /\ q[n] = t /\ WaitsFor(th[t]) = o
  BY <1>1 DEF ThreadsInv, QueueInv
<1>7. ASSUME NEW x \in Objs \ {o} PROVE QueueInv(x)'
  <2>. DEFINE s == obj[x].queue
  <2>1. /\ s \in Seq(Threads)
        /\ \A i \in 1 .. Len(s) : /\ th[s[i]].pc = "asleep" /\ WaitsFor(th[s[i]]) = x /\ s[i] \in Threads
                                  /\ \A j \in 1 .. Len(s) : s[i] = s[j] => i = j
    BY DEF ThreadsInv, QueueInv
  <2>2. obj'[x].queue = s
    BY <1>4
  <2>. HIDE DEF s
  <2>3. \A i \in 1 .. Len(s) : s[i] # t
    BY <1>6, <2>1
  <2>4. \A i \in 1 .. Len(s) : th'[s[i]] = th[s[i]]
    BY <1>2, <2>1, <2>3
  <2>. QED BY <2>1, <2>2, <2>4 DEF QueueInv, WaitsFor
<1>8. QueueInv(o)'
  <2>1. \A i \in 1 .. (Len(q) - 1) : at(i) \in 1 .. Len(q) /\ at(i) # n /\ i \in Nat
    BY <1>1
  <2>2. \A i, j \in 1 .. (Len(q) - 1) : at(i) = at(j) => i = j
    OBVIOUS
  <2>. HIDE DEF at, p, q
  <2>3. \A i \in 1 .. (Len(q) - 1) : p[i] \in Threads \ {t} /\ th'[p[i]] = th[p[i]]
                                     /\ th[p[i]].pc = "asleep" /\ WaitsFor(th[p[i]]) = o
    <3>. SUFFICES ASSUME NEW i \in 1 .. (Len(q) - 1)
                  PROVE  p[i] \in Threads \ {t} /\ th'[p[i]] = th[p[i]]
                         /\ th[p[i]].pc = "asleep" /\ WaitsFor(th[p[i]]) = o
      OBVIOUS
    <3>1. p[i] = q[at(i)] /\ at(i) \in 1 .. Len(q) /\ at(i) # n
      BY <1>3, <2>1
    <3>2. q[at(i)] # t
      BY <1>6, <3>1 DEF q
    <3>. QED BY <1>2, <1>6, <3>1, <3>2
  <2>4. \A i, j \in 1 .. (Len(q) - 1) : p[i] = p[j] => i = j
    BY <1>3, <1>6, <2>1, <2>2
  <2>5. \A i \in 1 .. (Len(q) - 1) : th'[p[i]].pc = "asleep" /\ WaitsFor(th'[p[i]]) = o
    BY <2>3
  <2>. QED BY <1>3, <1>4, <2>4, <2>5 DEF QueueInv, WaitsFor
<1>. QED BY <1>2, <1>4, <1>5, <1>7, <1>8 DEF ThreadsInv

-----------------------------------------------------------------------------
(* cond.waiting.                                                           *)

LEMMA CondKept ==
  ASSUME CondInv, cond' = cond, \A u \in Threads : InCond(th'[u]) <=> InCond(th[u])
  PROVE  CondInv'
<1>1. CondWaiters' = CondWaiters
  BY DEF CondWaiters, InCond
<1>. QED BY <1>1 DEF CondInv

LEMMA WaitingNat ==
  ASSUME CondInv
  PROVE  IsFiniteSet(CondWaiters) /\ cond.waiting \in Nat
<1>1. IsFiniteSet(CondWaiters)
  BY PthreadAssumption, FS_Subset DEF CondWaiters
<1>2. Cardinality(CondWaiters) \in Nat
  BY <1>1, FS_CardinalityType
<1>. QED BY <1>1, <1>2 DEF CondInv

LEMMA WokenKeeps ==
  ASSUME NEW kind, NEW r, ThreadInv(r, kind), r.pc = "asleep"
  PROVE  InCond(At(r, r.next)) <=> InCond(r)
  BY DEF ThreadInv, ThreadRec, At, InCond

-----------------------------------------------------------------------------
(* Steps that keep Base.                                                   *)

LEMMA GoBase ==
  ASSUME Base, NEW t \in Threads, NEW r, Go(t, r), obj' = obj, cond' = cond, th[t].pc # "asleep",
         mutex' \in MutexType, mutex'.kind = mutex.kind, barrier' \in BarrierType,
         ThreadInv(r, mutex.kind), InCond(r) <=> InCond(th[t])
  PROVE  /\ Base' /\ th'[t] = r /\ \A u \in Threads \ {t} : th'[u] = th[u]
<1>1. ThreadsInv' /\ th'[t] = r /\ \A u \in Threads \ {t} : th'[u] = th[u]
  BY GoKeeps DEF Base
<1>2. CondInv'
  BY <1>1, CondKept DEF Base
<1>. QED BY <1>1, <1>2 DEF Base

LEMMA WaitBase ==
  ASSUME Base, NEW t \in Threads, NEW o \in Objs, NEW next, waitone(t, o, next),
         th[t].pc \notin {"ready", "set", "asleep"}, UNCHANGED <<mutex, cond, barrier>>,
         next \in {"again", "own_early", "own", "cond_woken", "advance"},
         CallAt(next, Head(th[t].todo), mutex.kind), next = "own" => mutex.kind = "csect",
         WaitsFor([th[t] EXCEPT !.pc = "asleep", !.next = next]) = o,
         InCond(th[t]) <=> next = "cond_woken"
  PROVE  Base' /\ Waited(t, o, next)
<1>0. mutex.kind \in Kinds /\ ThreadsInv /\ mutex' = mutex
  BY DEF Base, MutexType
<1>1. ThreadsInv' /\ Waited(t, o, next)
  BY <1>0, WaitKeeps
<1>2. th[t] \in ThreadRec
  BY <1>0 DEF ThreadsInv, ThreadInv
<1>3. InCond(At(th[t], next)) <=> next = "cond_woken"
  BY <1>2 DEF InCond, At, ThreadRec
<1>4. InCond([th[t] EXCEPT !.pc = "asleep", !.next = next]) <=> next = "cond_woken"
  BY <1>2 DEF InCond, ThreadRec
<1>5. CondInv'
  <2>1. \A u \in Threads : InCond(th'[u]) <=> InCond(th[u])
    BY <1>1, <1>3, <1>4 DEF Waited
  <2>. QED BY <2>1, CondKept DEF Base
<1>. QED BY <1>1, <1>5 DEF Base

LEMMA ReleaseBase ==
  ASSUME Base, NEW t \in Threads, NEW r, NEW o \in Objs, NEW n \in Nat, Release(t, r, o, n),
         th[t].pc # "asleep", UNCHANGED <<mutex, cond, barrier>>, ThreadInv(r, mutex.kind),
         InCond(r) <=> InCond(th[t])
  PROVE  /\ Base' /\ th'[t] = r
         /\ \A u \in Threads \ {t} : \/ th'[u] = th[u]
                                      \/ /\ th[u].pc = "asleep" /\ WaitsFor(th[u]) = o
                                         /\ th'[u] = At(th[u], th[u].next)
         /\ \A x \in Objs \ {o} : obj'[x] = obj[x]
<1>0. mutex.kind \in Kinds /\ ThreadsInv /\ mutex' = mutex
  BY DEF Base, MutexType
<1>1. /\ ThreadsInv' /\ th'[t] = r
      /\ \A u \in Threads \ {t} : \/ th'[u] = th[u]
                                   \/ /\ th[u].pc = "asleep" /\ WaitsFor(th[u]) = o
                                      /\ th'[u] = At(th[u], th[u].next)
      /\ \A x \in Objs \ {o} : obj'[x] = obj[x]
  BY <1>0, ReleaseKeeps
<1>2. \A u \in Threads : InCond(th'[u]) <=> InCond(th[u])
  <2>. SUFFICES ASSUME NEW u \in Threads PROVE InCond(th'[u]) <=> InCond(th[u])
    OBVIOUS
  <2>1. CASE th'[u] = th[u] \/ u = t
    BY <1>1, <2>1
  <2>2. CASE th[u].pc = "asleep" /\ th'[u] = At(th[u], th[u].next)
    <3>1. ThreadInv(th[u], mutex.kind)
      BY <1>0 DEF ThreadsInv
    <3>2. InCond(At(th[u], th[u].next)) <=> InCond(th[u])
      BY <2>2, <3>1, WokenKeeps
    <3>. QED BY <2>2, <3>2
  <2>. QED BY <1>1, <2>1, <2>2
<1>3. CondInv'
  BY <1>2, CondKept DEF Base
<1>. QED BY <1>1, <1>3 DEF Base

-----------------------------------------------------------------------------
(* Exclusion.                                                              *)

\* What a step of t may do to the lock.  Only t enters, when nobody is inside.
LEMMA ExclStep ==
  ASSUME Base, ExclInv, NEW t \in Threads, Base', mutex'.kind = mutex.kind,
         \A u \in Threads \ {t} : InsideRec(th'[u], mutex.kind) => InsideRec(th[u], mutex.kind),
         InsideRec(th'[t], mutex.kind) =>
           Inside(t) \/ \A u \in Threads : ~Inside(u),
         Free' => ~InsideRec(th'[t], mutex.kind) /\ (Free \/ Inside(t)),
         mutex.kind = "csect" =>
           /\ mutex'.lock >= -1 /\ (mutex'.owner = NOHANDLE => mutex'.recursion = 0)
           /\ obj'["event"].count \in {0, 1}
           /\ obj'["event"].count = 1 => /\ obj["event"].count = 1
                                         /\ ~Free' /\ ~InsideRec(th'[t], mutex.kind),
         \A u \in Threads : OwnerRec(th'[u], u, mutex')
  PROVE  ExclInv'
<1>1. \A u \in Threads : InsideRec(th'[u], mutex'.kind) <=> InsideRec(th'[u], mutex.kind)
  OBVIOUS
<1>2. ASSUME NEW u \in Threads, NEW v \in Threads,
             InsideRec(th'[u], mutex.kind), InsideRec(th'[v], mutex.kind)
      PROVE  u = v
  BY <1>2 DEF ExclInv, Inside
<1>3. ASSUME Free', NEW u \in Threads
      PROVE  ~InsideRec(th'[u], mutex.kind)
  BY <1>3 DEF ExclInv, Inside
<1>4. ASSUME mutex.kind = "csect", obj'["event"].count = 1, NEW u \in Threads
      PROVE  ~InsideRec(th'[u], mutex.kind)
  BY <1>4 DEF ExclInv, Inside
<1>. QED BY <1>2, <1>3, <1>4 DEF ExclInv, Inside, InsideRec

\* The other threads when t, or nobody, becomes the owner.
LEMMA OthersKeep ==
  ASSUME Base, ExclInv, NEW t \in Threads, Inside(t) \/ mutex.kind # "csect", NEW m, m.kind = mutex.kind,
         m.owner \in {t, NOHANDLE}
  PROVE  \A u \in Threads \ {t} : OwnerRec(th[u], u, m)
<1>. SUFFICES ASSUME NEW u \in Threads \ {t} PROVE OwnerRec(th[u], u, m)
  OBVIOUS
<1>1. OwnerRec(th[u], u, mutex) /\ u # NOHANDLE /\ u # t
  BY PthreadAssumption DEF ExclInv
<1>2. CASE mutex.kind = "csect"
  <2>1. ~Inside(u)
    BY <1>1, <1>2 DEF ExclInv
  <2>2. th[u].depth \in Nat
    BY DEF Base, ThreadsInv, ThreadInv, ThreadRec
  <2>3. th[u].depth = 0
    BY <2>1, <2>2 DEF Inside, InsideRec
  <2>. QED BY <1>1, <1>2, <2>3 DEF OwnerRec
<1>3. CASE mutex.kind # "csect"
  BY <1>1, <1>3 DEF OwnerRec
<1>. QED BY <1>2, <1>3

\* A step that only moves t, and t neither in nor out.
LEMMA QuietStep ==
  ASSUME Base, ExclInv, NEW t \in Threads, Base', mutex' = mutex,
         \A u \in Threads \ {t} : th'[u] = th[u],
         mutex.kind = "csect" => obj'["event"].count = obj["event"].count,
         InsideRec(th'[t], mutex.kind) => Inside(t), OwnerRec(th'[t], t, mutex)
  PROVE  ExclInv'
<1>1. \A u \in Threads : OwnerRec(th'[u], u, mutex')
  BY DEF ExclInv
<1>2. Free' <=> Free
  BY DEF Free
<1>3. \A u \in Threads \ {t} : InsideRec(th'[u], mutex.kind) => InsideRec(th[u], mutex.kind)
  OBVIOUS
<1>4. Free' => ~InsideRec(th'[t], mutex.kind) /\ (Free \/ Inside(t))
  BY <1>2 DEF ExclInv
<1>5. mutex.kind = "csect" =>
           /\ mutex'.lock >= -1 /\ (mutex'.owner = NOHANDLE => mutex'.recursion = 0)
           /\ obj'["event"].count \in {0, 1}
           /\ obj'["event"].count = 1 => /\ obj["event"].count = 1
                                         /\ ~Free' /\ ~InsideRec(th'[t], mutex.kind)
  BY <1>2 DEF ExclInv
<1>. QED BY <1>1, <1>3, <1>4, <1>5, ExclStep

LEMMA SameOwner ==
  ASSUME ExclInv, NEW m, m.kind = mutex.kind, m.owner = mutex.owner, m.recursion = mutex.recursion
  PROVE  \A u \in Threads : OwnerRec(th[u], u, m)
  BY DEF ExclInv, OwnerRec

LEMMA Thread ==
  ASSUME Base, NEW t \in Threads
  PROVE  /\ th[t] \in ThreadRec /\ ThreadInv(th[t], mutex.kind) /\ mutex.kind \in Kinds
         /\ mutex \in MutexType /\ barrier \in BarrierType
         /\ th[t].todo # <<>> => /\ th[t].todo \in Seq(Ops) /\ Head(th[t].todo) \in Ops
                                 /\ mutex.kind # "normal" => Head(th[t].todo) \notin Takes
<1>1. /\ th[t] \in ThreadRec /\ ThreadInv(th[t], mutex.kind) /\ mutex.kind \in Kinds
      /\ mutex \in MutexType /\ barrier \in BarrierType
      /\ th[t].todo \in Seq(Ops) /\ Suits(th[t].todo, mutex.kind)
  BY DEF Base, ThreadsInv, ThreadInv, MutexType, ThreadRec
<1>. QED BY <1>1, SuitsTail

LEMMA Caller ==
  ASSUME NEW t, NEW ops, Calls(t, ops), "none" \notin ops
  PROVE  th[t].pc = "ready" /\ th[t].todo # <<>> /\ Head(th[t].todo) \in ops
  BY DEF Calls, Op

\* t changes the word, the owner or the recursion, and goes on as r.
LEMMA GoStep ==
  ASSUME Base, ExclInv, NEW t \in Threads, NEW r, Go(t, r), UNCHANGED <<cond, barrier, obj>>,
         th[t].pc # "asleep", mutex' \in MutexType, mutex'.kind = mutex.kind,
         ThreadInv(r, mutex.kind), InCond(r) <=> InCond(th[t]),
         InsideRec(r, mutex.kind) => Inside(t) \/ \A u \in Threads : ~Inside(u),
         Free' => ~InsideRec(r, mutex.kind) /\ (Free \/ Inside(t)),
         mutex.kind = "csect" =>
           /\ mutex'.lock >= -1 /\ (mutex'.owner = NOHANDLE => mutex'.recursion = 0)
           /\ obj["event"].count = 1 => ~Free' /\ ~InsideRec(r, mutex.kind),
         OwnerRec(r, t, mutex'), \A u \in Threads \ {t} : OwnerRec(th[u], u, mutex')
  PROVE  Base' /\ ExclInv'
<1>0. obj' = obj /\ cond' = cond /\ barrier' \in BarrierType
  BY DEF Base
<1>1. Base' /\ th'[t] = r /\ \A u \in Threads \ {t} : th'[u] = th[u]
  BY <1>0, GoBase
<1>2. \A u \in Threads : OwnerRec(th'[u], u, mutex')
  BY <1>1
<1>3. \A u \in Threads \ {t} : InsideRec(th'[u], mutex.kind) => InsideRec(th[u], mutex.kind)
  BY <1>1
<1>4. mutex.kind = "csect" =>
           /\ mutex'.lock >= -1 /\ (mutex'.owner = NOHANDLE => mutex'.recursion = 0)
           /\ obj'["event"].count \in {0, 1}
           /\ obj'["event"].count = 1 => /\ obj["event"].count = 1
                                         /\ ~Free' /\ ~InsideRec(th'[t], mutex.kind)
  BY <1>0, <1>1 DEF ExclInv
<1>5. ExclInv'
  BY <1>1, <1>2, <1>3, <1>4, ExclStep
<1>. QED BY <1>1, <1>5

\* t leaves the lock alone.
LEMMA GoQuiet ==
  ASSUME Base, ExclInv, NEW t \in Threads, NEW r, Go(t, r), UNCHANGED <<mutex, cond, obj>>,
         th[t].pc # "asleep", barrier' \in BarrierType,
         ThreadInv(r, mutex.kind), InCond(r) <=> InCond(th[t]),
         InsideRec(r, mutex.kind) => Inside(t), OwnerRec(r, t, mutex)
  PROVE  Base' /\ ExclInv'
<1>0. obj' = obj /\ cond' = cond /\ mutex' = mutex /\ mutex' \in MutexType /\ mutex'.kind = mutex.kind
  BY DEF Base
<1>1. Base' /\ th'[t] = r /\ \A u \in Threads \ {t} : th'[u] = th[u]
  BY <1>0, GoBase
<1>2. obj'["event"].count = obj["event"].count
  BY <1>0
<1>3. ExclInv'
  BY <1>0, <1>1, <1>2, QuietStep
<1>. QED BY <1>1, <1>3

-----------------------------------------------------------------------------
(* Mutexes.                                                                *)

\* A lock that was free is taken: by r, which has it, or which will be its owner.
LEMMA LockStep ==
  ASSUME Base, ExclInv, NEW t \in Threads, UNCHANGED <<cond, barrier, obj>>,
         mutex.kind # "csect", NEW w \in {-1, 1}, mutex' = [mutex EXCEPT !.lock = w],
         NEW r, Go(t, r), th[t].pc \notin {"asleep", "set", "own", "free"}, ThreadInv(r, mutex.kind), ~InCond(r), ~InCond(th[t]),
         InsideRec(r, mutex.kind) => Inside(t) \/ mutex.lock = 0, OwnerRec(r, t, mutex)
  PROVE  Base' /\ ExclInv'
<1>1. /\ mutex' \in MutexType /\ mutex'.kind = mutex.kind /\ mutex'.lock = w
      /\ mutex'.owner = mutex.owner /\ mutex'.recursion = mutex.recursion
  BY DEF Base, MutexType
<1>2. ~Free' /\ (Free <=> mutex.lock = 0)
  BY <1>1 DEF Free
<1>3. \A u \in Threads : OwnerRec(th[u], u, mutex')
  BY <1>1, SameOwner
<1>4. OwnerRec(r, t, mutex')
  BY <1>1 DEF OwnerRec
<1>5. InsideRec(r, mutex.kind) => Inside(t) \/ \A u \in Threads : ~Inside(u)
  BY <1>2 DEF ExclInv
<1>. QED BY <1>1, <1>2, <1>3, <1>4, <1>5, GoStep

LEMMA MutexLock ==
  ASSUME Base, ExclInv, NEW t \in Threads, pthread_mutex_lock(t)
  PROVE  Base' /\ ExclInv'
<1>. DEFINE r == th[t]
            kind == mutex.kind
            s == IF kind = "normal"
                 THEN IF mutex.lock = 0 THEN Locked(r) ELSE At(r, "again")
                 ELSE IF mutex.lock = 0 THEN At(r, "own") ELSE At(r, "held")
<1>1. /\ r \in ThreadRec /\ ThreadInv(r, kind) /\ kind \in Kinds /\ kind # "csect"
      /\ Go(t, s) /\ mutex' = [mutex EXCEPT !.lock = 1] /\ UNCHANGED <<cond, barrier, obj>>
  BY Thread DEF pthread_mutex_lock
<1>2. /\ r.pc \in {"ready", "relock"} /\ r.todo # <<>>
      /\ Head(r.todo) \in LockOps \cup Takes /\ (r.pc = "relock" => Head(r.todo) \in Takes)
  <2>1. CASE Calls(t, {"lock", "timedlock"})
    BY <2>1, Caller DEF LockOps
  <2>2. CASE r.pc = "relock"
    BY <1>1, <2>2 DEF ThreadInv, CallAt, CondPcs
  <2>. QED BY <2>1, <2>2 DEF pthread_mutex_lock
<1>3. kind # "normal" => Head(r.todo) \notin Takes /\ r.pc = "ready"
  BY <1>2, Thread
<1>4. OwnerRec(r, t, mutex)
  BY DEF ExclInv
<1>5. mutex.lock = 0 => r.depth = 0 /\ r.depth \in Nat
  BY <1>1 DEF ExclInv, Free, Inside, InsideRec, ThreadRec
<1>6. ~InCond(r)
  BY <1>2 DEF InCond
<1>7. CASE kind = "normal" /\ mutex.lock = 0
  <2>1. s = Locked(r) /\ ThreadInv(s, kind) /\ s.pc = "ready" /\ s.depth = 1
    BY <1>1, <1>2, <1>5, <1>7, LockedInv
  <2>. HIDE DEF s
  <2>2. ~InCond(s) /\ OwnerRec(s, t, mutex)
    BY <1>7, <2>1 DEF InCond, OwnerRec
  <2>. QED BY <1>1, <1>2, <1>6, <1>7, <2>1, <2>2, LockStep
<1>8. CASE ~(kind = "normal" /\ mutex.lock = 0)
  <2>1. PICK pc \in {"again", "own", "held"} :
          /\ s = At(r, pc) /\ (pc = "own" => mutex.lock = 0 /\ kind = "errorcheck")
          /\ (pc = "held" => kind = "errorcheck")
    BY <1>1, <1>8 DEF Kinds
  <2>. HIDE DEF s
  <2>2. s \in ThreadRec /\ s.pc = pc /\ s.todo = r.todo /\ s.depth = r.depth
    BY <1>1, <2>1 DEF ThreadRec, At, Pcs, LockPcs
  <2>3. CallAt(s.pc, Head(r.todo), kind)
    BY <1>1, <1>2, <2>1, <2>2 DEF CallAt, LockPcs, CondPcs
  <2>4. ThreadInv(s, kind)
    BY <1>1, <1>2, <2>2, <2>3, StillMid
  <2>5. ~InCond(s) /\ (InsideRec(s, kind) => Inside(t) \/ mutex.lock = 0)
    BY <2>1, <2>2 DEF InCond, Inside, InsideRec
  <2>6. OwnerRec(s, t, mutex)
    BY <1>1, <1>2, <1>3, <1>4, <1>5, <2>1, <2>2 DEF OwnerRec
  <2>. QED BY <1>1, <1>2, <1>6, <2>4, <2>5, <2>6, LockStep
<1>. QED BY <1>7, <1>8

LEMMA EDeadlkStep ==
  ASSUME Base, ExclInv, NEW t \in Threads, EDeadlk(t)
  PROVE  Base' /\ ExclInv'
<1>. DEFINE r == th[t]
            kind == mutex.kind
            s == IF mutex.owner = t THEN Returns(r) ELSE At(r, "again")
<1>1. /\ r \in ThreadRec /\ ThreadInv(r, kind) /\ kind \in Kinds /\ r.pc = "held" /\ r.todo \in Seq(Ops)
      /\ Go(t, s) /\ UNCHANGED <<mutex, cond, obj>> /\ barrier' \in BarrierType
  BY Thread DEF EDeadlk, ThreadRec
<1>2. r.todo # <<>> /\ kind = "errorcheck" /\ Head(r.todo) \in LockOps \cup Takes
  BY <1>1 DEF ThreadInv, CallAt, LockPcs
<1>3. OwnerRec(r, t, mutex)
  BY DEF ExclInv
<1>4. /\ s \in ThreadRec /\ s.depth = r.depth /\ s.pc \in {"ready", "again"}
      /\ s.pc = "ready" => s.todo = Tail(r.todo) /\ mutex.owner = t
      /\ s.pc = "again" => s.todo = r.todo /\ mutex.owner # t
  <2>1. "again" \in Pcs
    BY DEF Pcs, LockPcs
  <2>. QED BY <1>1, <1>2, <2>1, AtRec, ReturnsRec
<1>. HIDE DEF s
<1>5. CallAt("again", Head(r.todo), kind)
  BY <1>2 DEF CallAt, LockPcs, CondPcs
<1>6. ThreadInv(s, kind)
  <2>1. CASE s.pc = "ready"
    BY <1>1, <1>2, <1>4, <2>1, ReturnsInv
  <2>2. CASE s.pc = "again"
    BY <1>1, <1>2, <1>4, <1>5, <2>2, StillMid
  <2>. QED BY <1>4, <2>1, <2>2
<1>7. InCond(s) <=> InCond(r)
  BY <1>1, <1>4 DEF InCond
<1>8. (InsideRec(s, kind) => Inside(t)) /\ OwnerRec(s, t, mutex)
  BY <1>1, <1>2, <1>3, <1>4 DEF Inside, InsideRec, OwnerRec
<1>. QED BY <1>1, <1>6, <1>7, <1>8, GoQuiet

LEMMA LockAgainStep ==
  ASSUME Base, ExclInv, NEW t \in Threads, LockAgain(t)
  PROVE  Base' /\ ExclInv'
<1>. DEFINE r == th[t]
            kind == mutex.kind
            s == IF mutex.lock = 0 THEN Locked(r) ELSE At(r, "sleep")
<1>1. /\ r \in ThreadRec /\ ThreadInv(r, kind) /\ kind \in Kinds /\ r.pc = "again"
      /\ Go(t, s) /\ mutex' = [mutex EXCEPT !.lock = -1] /\ UNCHANGED <<cond, barrier, obj>>
  BY Thread DEF LockAgain
<1>2. r.todo # <<>> /\ kind # "csect" /\ Head(r.todo) \in LockOps \cup Takes
  BY <1>1 DEF ThreadInv, CallAt, LockPcs
<1>3. OwnerRec(r, t, mutex)
  BY DEF ExclInv
<1>4. mutex.lock = 0 => r.depth = 0 /\ r.depth \in Nat
  BY <1>1, <1>2 DEF ExclInv, Free, Inside, InsideRec, ThreadRec
<1>5. ~InCond(r)
  BY <1>1 DEF InCond
<1>6. CASE mutex.lock = 0
  <2>1. s = Locked(r) /\ ThreadInv(s, kind) /\ s.pc = "ready" /\ s.depth = 1
    BY <1>1, <1>2, <1>4, <1>6, LockedInv
  <2>. HIDE DEF s
  <2>2. ~InCond(s) /\ OwnerRec(s, t, mutex)
    BY <1>2, <2>1 DEF InCond, OwnerRec
  <2>. QED BY <1>1, <1>2, <1>5, <1>6, <2>1, <2>2, LockStep
<1>7. CASE mutex.lock # 0
  <2>1. s \in ThreadRec /\ s.pc = "sleep" /\ s.todo = r.todo /\ s.depth = r.depth
    BY <1>1, <1>7 DEF ThreadRec, At, Pcs, LockPcs
  <2>. HIDE DEF s
  <2>2. CallAt(s.pc, Head(r.todo), kind)
    BY <1>2, <2>1 DEF CallAt, LockPcs, CondPcs
  <2>3. ThreadInv(s, kind)
    BY <1>1, <1>2, <2>1, <2>2, StillMid
  <2>4. ~InCond(s) /\ (InsideRec(s, kind) => Inside(t)) /\ OwnerRec(s, t, mutex)
    BY <1>2, <1>3, <2>1 DEF InCond, Inside, InsideRec, OwnerRec
  <2>. QED BY <1>1, <1>2, <1>5, <2>3, <2>4, LockStep
<1>. QED BY <1>6, <1>7

LEMMA OwnEarlyStep ==
  ASSUME Base, ExclInv, NEW t \in Threads, OwnEarly(t)
  PROVE  Base' /\ ExclInv'
<1>. DEFINE r == th[t]
            kind == mutex.kind
            s == At(r, "again")
<1>1. /\ r \in ThreadRec /\ ThreadInv(r, kind) /\ kind \in Kinds /\ r.pc = "own_early"
      /\ Go(t, s) /\ mutex' = [mutex EXCEPT !.owner = t] /\ UNCHANGED <<cond, barrier, obj>>
      /\ mutex \in MutexType
  BY Thread DEF OwnEarly
<1>2. r.todo # <<>> /\ kind = "errorcheck" /\ Head(r.todo) \in LockOps \cup Takes
  BY <1>1 DEF ThreadInv, CallAt, LockPcs
<1>3. /\ mutex' \in MutexType /\ mutex'.kind = kind /\ mutex'.lock = mutex.lock /\ mutex'.owner = t
  BY <1>1 DEF MutexType
<1>4. s \in ThreadRec /\ s.pc = "again" /\ s.todo = r.todo /\ s.depth = r.depth
  BY <1>1 DEF ThreadRec, At, Pcs, LockPcs
<1>. HIDE DEF s
<1>5. CallAt(s.pc, Head(r.todo), kind)
  BY <1>2, <1>4 DEF CallAt, LockPcs, CondPcs
<1>6. ThreadInv(s, kind)
  BY <1>1, <1>2, <1>4, <1>5, StillMid
<1>7. OwnerRec(s, t, mutex')
  BY <1>2, <1>3, <1>4 DEF OwnerRec, ExclInv
<1>8. \A u \in Threads \ {t} : OwnerRec(th[u], u, mutex')
  BY <1>2, <1>3, OthersKeep
<1>9. (InCond(s) <=> InCond(r)) /\ (InsideRec(s, kind) => Inside(t))
  BY <1>1, <1>4 DEF InCond, Inside, InsideRec
<1>10. Free' => ~InsideRec(s, kind) /\ (Free \/ Inside(t))
  BY <1>3, <1>9 DEF Free, ExclInv
<1>. QED BY <1>1, <1>2, <1>3, <1>6, <1>7, <1>8, <1>9, <1>10, GoStep

LEMMA OwnStep ==
  ASSUME Base, ExclInv, NEW t \in Threads, Own(t)
  PROVE  Base' /\ ExclInv'
<1>. DEFINE r == th[t]
            kind == mutex.kind
            s == Locked(r)
<1>1. /\ r \in ThreadRec /\ ThreadInv(r, kind) /\ kind \in Kinds /\ r.pc = "own"
      /\ Go(t, s) /\ mutex' = [mutex EXCEPT !.owner = t] /\ UNCHANGED <<cond, barrier, obj>>
      /\ mutex \in MutexType
  BY Thread DEF Own
<1>2. r.todo # <<>> /\ kind # "normal" /\ Head(r.todo) \in LockOps \cup Takes
  BY <1>1 DEF ThreadInv, CallAt, LockPcs
<1>3. /\ mutex' \in MutexType /\ mutex'.kind = kind /\ mutex'.lock = mutex.lock /\ mutex'.owner = t
      /\ mutex'.recursion = mutex.recursion /\ t # NOHANDLE
  BY <1>1, PthreadAssumption DEF MutexType
<1>4. ThreadInv(s, kind) /\ s.pc = "ready" /\ s.depth = r.depth + 1
  BY <1>1, <1>2, LockedInv
<1>. HIDE DEF s
<1>5. Inside(t) /\ ~Free /\ (kind = "csect" => obj["event"].count # 1)
  BY <1>1 DEF Inside, InsideRec, ExclInv
<1>6. r.depth = 0 /\ (kind = "csect" => mutex.owner # t)
  BY <1>1, <1>2 DEF ExclInv, OwnerRec
<1>7. ASSUME kind = "csect" PROVE mutex.recursion = 0
  <2>1. ASSUME NEW u \in Threads, mutex.owner = u PROVE FALSE
    <3>1. th[u].depth = mutex.recursion + 1 /\ mutex.recursion \in Nat
      BY <1>1, <1>7, <2>1 DEF ExclInv, OwnerRec, MutexType
    <3>2. Inside(u)
      BY <3>1 DEF Inside, InsideRec
    <3>. QED BY <1>5, <1>6, <1>7, <2>1, <3>2 DEF ExclInv
  <2>. QED BY <1>1, <1>7, <2>1 DEF ExclInv, MutexType
<1>8. OwnerRec(s, t, mutex')
  BY <1>2, <1>3, <1>4, <1>6, <1>7 DEF OwnerRec
<1>9. \A u \in Threads \ {t} : OwnerRec(th[u], u, mutex')
  BY <1>3, <1>5, OthersKeep
<1>10. InCond(s) <=> InCond(r)
  BY <1>1, <1>4 DEF InCond
<1>11. ~Free'
  BY <1>3, <1>5 DEF Free
<1>12. mutex.kind = "csect" =>
           /\ mutex'.lock >= -1 /\ (mutex'.owner = NOHANDLE => mutex'.recursion = 0)
           /\ obj["event"].count = 1 => ~Free' /\ ~InsideRec(s, mutex.kind)
  BY <1>3, <1>5 DEF ExclInv
<1>13. th[t].pc # "asleep"
  BY <1>1
<1>. QED BY <1>1, <1>3, <1>4, <1>5, <1>8, <1>9, <1>10, <1>11, <1>12, <1>13, GoStep

LEMMA WokenExcl ==
  ASSUME NEW kind, NEW r, ThreadInv(r, kind), r.pc = "asleep", NEW t, NEW m, m.kind = kind, OwnerRec(r, t, m)
  PROVE  /\ OwnerRec(At(r, r.next), t, m)
         /\ InsideRec(At(r, r.next), kind) => InsideRec(r, kind) \/ (kind = "csect" /\ r.next = "own")
<1>1. /\ r \in ThreadRec /\ r.next \in {"again", "own_early", "own", "cond_woken", "advance"}
      /\ r.next = "own" => kind = "csect"
  BY DEF ThreadInv
<1>2. At(r, r.next).pc = r.next /\ At(r, r.next).depth = r.depth /\ At(r, r.next).todo = r.todo
  BY <1>1 DEF At, ThreadRec
<1>. DEFINE s == At(r, r.next)
<1>. HIDE DEF s
<1>3. s.pc = r.next /\ s.depth = r.depth /\ s.todo = r.todo
  BY <1>2 DEF s
<1>4. OwnerRec(s, t, m)
  BY <1>1, <1>3 DEF OwnerRec
<1>5. InsideRec(s, kind) => InsideRec(r, kind) \/ (kind = "csect" /\ r.next = "own")
  BY <1>1, <1>3 DEF InsideRec
<1>. QED BY <1>4, <1>5 DEF s

\* t releases o, which does not pass a critical section on.
LEMMA ReleaseQuiet ==
  ASSUME Base, ExclInv, NEW t \in Threads, NEW r, NEW o \in Objs, NEW n \in Nat, Release(t, r, o, n),
         o = "event" => mutex.kind # "csect",
         th[t].pc # "asleep", UNCHANGED <<mutex, cond, barrier>>, ThreadInv(r, mutex.kind),
         InCond(r) <=> InCond(th[t]), InsideRec(r, mutex.kind) => Inside(t), OwnerRec(r, t, mutex)
  PROVE  Base' /\ ExclInv'
<1>1. /\ Base' /\ th'[t] = r
      /\ \A u \in Threads \ {t} : \/ th'[u] = th[u]
                                   \/ /\ th[u].pc = "asleep" /\ WaitsFor(th[u]) = o
                                      /\ th'[u] = At(th[u], th[u].next)
      /\ \A x \in Objs \ {o} : obj'[x] = obj[x]
  BY ReleaseBase
<1>2. mutex' = mutex /\ mutex'.kind = mutex.kind /\ (Free' <=> Free)
  BY DEF Free
<1>3. ASSUME NEW u \in Threads \ {t}
      PROVE  /\ OwnerRec(th'[u], u, mutex)
             /\ InsideRec(th'[u], mutex.kind) => InsideRec(th[u], mutex.kind)
  <2>1. ThreadInv(th[u], mutex.kind) /\ OwnerRec(th[u], u, mutex)
    BY Thread DEF ExclInv
  <2>2. CASE th'[u] = th[u]
    BY <2>1, <2>2
  <2>3. CASE /\ th[u].pc = "asleep" /\ WaitsFor(th[u]) = o
             /\ th'[u] = At(th[u], th[u].next)
    <3>1. ~(mutex.kind = "csect" /\ th[u].next = "own")
      BY <2>3 DEF WaitsFor
    <3>. QED BY <2>1, <2>3, <3>1, WokenExcl
  <2>. QED BY <1>1, <2>2, <2>3
<1>4. \A u \in Threads : OwnerRec(th'[u], u, mutex')
  BY <1>1, <1>2, <1>3
<1>5. Free' => ~InsideRec(th'[t], mutex.kind) /\ (Free \/ Inside(t))
  BY <1>1, <1>2 DEF ExclInv
<1>6. mutex.kind = "csect" =>
           /\ mutex'.lock >= -1 /\ (mutex'.owner = NOHANDLE => mutex'.recursion = 0)
           /\ obj'["event"].count \in {0, 1}
           /\ obj'["event"].count = 1 => /\ obj["event"].count = 1
                                         /\ ~Free' /\ ~InsideRec(th'[t], mutex.kind)
  <2>1. mutex.kind = "csect" => obj'["event"] = obj["event"]
    BY <1>1 DEF Objs
  <2>. QED BY <1>1, <1>2, <2>1 DEF ExclInv
<1>7. ExclInv'
  BY <1>1, <1>2, <1>3, <1>4, <1>5, <1>6, ExclStep
<1>. QED BY <1>1, <1>7

LEMMA LockSleepStep ==
  ASSUME Base, ExclInv, NEW t \in Threads, LockSleep(t)
  PROVE  Base' /\ ExclInv'
<1>. DEFINE r == th[t]
            kind == mutex.kind
            next == IF kind = "normal" THEN "again" ELSE "own_early"
            a == [r EXCEPT !.pc = "asleep", !.next = next]
<1>1. /\ r \in ThreadRec /\ ThreadInv(r, kind) /\ kind \in Kinds /\ r.pc = "sleep"
      /\ waitone(t, "event", next) /\ UNCHANGED <<mutex, cond, barrier>> /\ "event" \in Objs
  BY Thread DEF LockSleep, Objs
<1>2. r.todo # <<>> /\ kind # "csect" /\ Head(r.todo) \in LockOps \cup Takes
  BY <1>1 DEF ThreadInv, CallAt, LockPcs
<1>3. CallAt(next, Head(r.todo), kind) /\ next \in {"again", "own_early"}
  BY <1>1, <1>2 DEF CallAt, LockPcs, CondPcs, Kinds
<1>4. /\ a.pc = "asleep" /\ a.next = next /\ a.depth = r.depth /\ a.todo = r.todo
      /\ At(r, next).pc = next /\ At(r, next).depth = r.depth /\ At(r, next).todo = r.todo
  BY <1>1 DEF ThreadRec, At
<1>5. kind = "errorcheck" => next = "own_early"
  OBVIOUS
<1>. HIDE DEF next
<1>6. WaitsFor([r EXCEPT !.pc = "asleep", !.next = next]) = "event"
  BY <1>3, <1>4 DEF WaitsFor
<1>7. InCond(r) <=> next = "cond_woken"
  BY <1>1, <1>3 DEF InCond
<1>8. Base' /\ Waited(t, "event", next)
  BY <1>1, <1>2, <1>3, <1>6, <1>7, WaitBase
<1>9. (\A u \in Threads \ {t} : th'[u] = th[u]) /\ th'[t] \in {a, At(r, next)}
  BY <1>8 DEF Waited
<1>. HIDE DEF a
<1>10. /\ th'[t].depth = r.depth /\ th'[t].todo = r.todo
       /\ \/ th'[t].pc = "asleep" /\ th'[t].next = next
          \/ th'[t].pc = next
  BY <1>4, <1>9
<1>11. InsideRec(th'[t], kind) => Inside(t)
  BY <1>3, <1>10 DEF InsideRec, Inside
<1>12. OwnerRec(th'[t], t, mutex)
  <2>1. OwnerRec(r, t, mutex)
    BY DEF ExclInv
  <2>. QED BY <1>1, <1>2, <1>3, <1>5, <1>10, <2>1 DEF OwnerRec
<1>. QED BY <1>1, <1>2, <1>8, <1>9, <1>11, <1>12, QuietStep

LEMMA TrylockStep ==
  ASSUME Base, ExclInv, NEW t \in Threads, pthread_mutex_trylock(t)
  PROVE  Base' /\ ExclInv'
<1>. DEFINE r == th[t]
            kind == mutex.kind
<1>1. /\ r \in ThreadRec /\ ThreadInv(r, kind) /\ kind \in Kinds
      /\ r.pc = "ready" /\ r.todo # <<>> /\ Head(r.todo) = "trylock"
  BY Thread, Caller DEF pthread_mutex_trylock
<1>2. kind # "csect"
  <2>1. r.todo \in Seq(Ops) /\ Suits(r.todo, kind)
    BY <1>1 DEF ThreadInv, ThreadRec
  <2>. QED BY <1>1, <2>1, SuitsTail
<1>3. OwnerRec(r, t, mutex) /\ ~InCond(r)
  BY <1>1 DEF ExclInv, InCond
<1>4. CASE mutex.lock = 0
  <2>. DEFINE s == IF kind = "normal" THEN Locked(r) ELSE At(r, "own")
  <2>1. Go(t, s) /\ mutex' = [mutex EXCEPT !.lock = 1] /\ UNCHANGED <<cond, barrier, obj>>
    BY <1>4 DEF pthread_mutex_trylock
  <2>2. r.depth = 0
    BY <1>1, <1>2, <1>4 DEF ExclInv, Free, Inside, InsideRec, ThreadRec
  <2>3. /\ ThreadInv(s, kind) /\ s.depth \in {0, 1} /\ s.pc \in {"ready", "own"}
        /\ s.pc = "own" => s.depth = 0 /\ kind = "errorcheck"
        /\ s.pc = "ready" => s.depth = 1 /\ kind = "normal"
    <3>1. CASE kind = "normal"
      BY <1>1, <2>2, <3>1, LockedInv DEF LockOps
    <3>2. CASE kind # "normal"
      <4>1. s \in ThreadRec /\ s.pc = "own" /\ s.todo = r.todo /\ s.depth = r.depth
        BY <1>1, <3>2, AtRec DEF Pcs, LockPcs
      <4>. HIDE DEF s
      <4>2. CallAt(s.pc, Head(r.todo), kind) /\ kind = "errorcheck"
        BY <1>1, <1>2, <3>2, <4>1 DEF CallAt, LockPcs, CondPcs, LockOps, Kinds
      <4>. QED BY <1>1, <2>2, <4>1, <4>2, StillMid
    <3>. QED BY <3>1, <3>2
  <2>. HIDE DEF s
  <2>4. ~InCond(s) /\ OwnerRec(s, t, mutex)
    BY <1>1, <1>2, <1>3, <2>2, <2>3 DEF InCond, OwnerRec
  <2>. QED BY <1>1, <1>2, <1>3, <1>4, <2>1, <2>3, <2>4, LockStep
<1>5. CASE mutex.lock # 0
  <2>. DEFINE s == GivesUp(r)
  <2>1. Go(t, s) /\ UNCHANGED <<mutex, cond, obj>> /\ barrier' \in BarrierType
    BY <1>5, Thread DEF pthread_mutex_trylock
  <2>2. s \in ThreadRec /\ s.pc = "ready" /\ s.todo = <<>> /\ s.depth = r.depth
    BY <1>1, GivesUpRec
  <2>. HIDE DEF s
  <2>3. Suits(s.todo, kind) /\ Disciplined(s.todo, s.depth > 0)
    BY <2>2 DEF Suits, Disciplined
  <2>4. ThreadInv(s, kind)
    BY <1>1, <2>2, <2>3, ReadyInv
  <2>5. ~InCond(s) /\ (InsideRec(s, kind) => Inside(t)) /\ OwnerRec(s, t, mutex)
    BY <1>2, <1>3, <2>2 DEF InCond, InsideRec, Inside, OwnerRec
  <2>. QED BY <1>1, <1>3, <2>1, <2>4, <2>5, GoQuiet
<1>. QED BY <1>4, <1>5

LEMMA Exchange0Step ==
  ASSUME Base, ExclInv, NEW t \in Threads, mutex.kind # "csect", Inside(t),
         th[t].pc \in {"ready", "cond_unlock", "free"}, th[t].todo # <<>>,
         mutex.kind = "errorcheck" => th[t].pc = "free",
         Head(th[t].todo) = "unlock" \/ (th[t].pc = "cond_unlock" /\ Head(th[t].todo) \in Takes),
         NEW x \in ThreadRec, x.todo = th[t].todo, x.depth = 0,
         Exchange0(t, x), UNCHANGED <<cond, barrier, obj>>
  PROVE  Base' /\ ExclInv'
<1>. DEFINE r == th[t]
            kind == mutex.kind
            s == IF mutex.lock < 0 THEN At(x, "set") ELSE Unlocked(x)
<1>1. /\ r \in ThreadRec /\ ThreadInv(r, kind) /\ kind \in Kinds /\ mutex \in MutexType
      /\ Go(t, s) /\ mutex' = [mutex EXCEPT !.lock = 0]
  BY Thread DEF Exchange0
<1>2. /\ mutex' \in MutexType /\ mutex'.kind = kind /\ mutex'.lock = 0
      /\ mutex'.owner = mutex.owner /\ mutex'.recursion = mutex.recursion
  BY <1>1 DEF MutexType
<1>3. r.pc = "cond_unlock" => Head(r.todo) \in Takes
  BY <1>1 DEF ThreadInv, CallAt, CondPcs
<1>4. "unlock" \notin Takes /\ (InCond(r) <=> Head(r.todo) \in Takes)
  BY <1>3 DEF Takes, InCond
<1>5. /\ ThreadInv(s, kind) /\ s.depth = 0 /\ (InCond(s) <=> Head(r.todo) \in Takes)
      /\ s.pc \in {"set", "cond_sleep", "ready"}
  <2>1. CASE mutex.lock < 0
    <3>1. s \in ThreadRec /\ s.pc = "set" /\ s.todo = r.todo /\ s.depth = 0
      BY <2>1, AtRec DEF Pcs
    <3>. HIDE DEF s
    <3>2. Suits(r.todo, kind) /\ (kind = "normal" => Disciplined(r.todo, TRUE))
      <4>. DEFINE held == WillHold(r)
      <4>1. Suits(r.todo, kind) /\ held \in BOOLEAN /\ (kind = "normal" => Disciplined(r.todo, held))
        BY <1>1 DEF ThreadInv, Rest, WillHold
      <4>. HIDE DEF held
      <4>. QED BY <4>1, DisciplineWeaker
    <3>3. ThreadInv(s, kind)
      BY <1>1, <3>1, <3>2, SetInv
    <3>4. InCond(s) <=> Head(r.todo) \in Takes
      BY <3>1 DEF InCond
    <3>. QED BY <3>1, <3>3, <3>4
  <2>2. CASE ~(mutex.lock < 0)
    <3>1. /\ ThreadInv(s, kind) /\ s.depth = 0
          /\ s.pc = IF Head(r.todo) \in Takes THEN "cond_sleep" ELSE "ready"
      BY <1>1, <1>4, <2>2, UnlockedInv
    <3>. HIDE DEF s
    <3>2. InCond(s) <=> Head(r.todo) \in Takes
      BY <3>1 DEF InCond
    <3>. QED BY <3>1, <3>2
  <2>. QED BY <2>1, <2>2
<1>. HIDE DEF s
<1>6. ~InsideRec(s, kind)
  BY <1>5 DEF InsideRec
<1>7. \A u \in Threads : OwnerRec(th[u], u, mutex')
  BY <1>2, SameOwner
<1>8. kind = "errorcheck" => mutex.owner # t
  BY DEF ExclInv, OwnerRec
<1>9. OwnerRec(s, t, mutex')
  BY <1>2, <1>5, <1>7, <1>8 DEF OwnerRec
<1>. QED BY <1>1, <1>2, <1>4, <1>5, <1>6, <1>7, <1>9, GoStep

LEMMA LeftRec ==
  ASSUME NEW r \in ThreadRec, r.depth > 0
  PROVE  Left(r) \in ThreadRec /\ Left(r).pc = r.pc /\ Left(r).todo = r.todo /\ Left(r).depth = r.depth - 1
         /\ Left(r).next = r.next
  BY DEF ThreadRec, Left

LEMMA MutexUnlock ==
  ASSUME Base, ExclInv, NEW t \in Threads, pthread_mutex_unlock(t)
  PROVE  Base' /\ ExclInv'
<1>. DEFINE r == th[t]
            kind == mutex.kind
<1>1. /\ r \in ThreadRec /\ ThreadInv(r, kind) /\ kind \in Kinds /\ mutex \in MutexType
      /\ UNCHANGED <<cond, barrier, obj>> /\ barrier' \in BarrierType /\ OwnerRec(r, t, mutex)
  BY Thread DEF pthread_mutex_unlock, ExclInv
<1>2. /\ r.pc \in {"ready", "cond_unlock"} /\ r.todo # <<>> /\ "unlock" \notin Takes
      /\ r.pc = "cond_unlock" => Head(r.todo) \in Takes
      /\ Head(r.todo) = "unlock" \/ (r.pc = "cond_unlock" /\ Head(r.todo) \in Takes)
  <2>1. CASE Calls(t, {"unlock"})
    BY <2>1, Caller DEF Takes
  <2>2. CASE r.pc = "cond_unlock"
    BY <1>1, <2>2 DEF ThreadInv, CallAt, CondPcs, Takes
  <2>. QED BY <2>1, <2>2 DEF pthread_mutex_unlock
<1>3. kind # "normal" => Head(r.todo) = "unlock" /\ r.pc = "ready"
  BY <1>2, Thread
<1>4. CASE kind = "normal" /\ Exchange0(t, Left(r))
  <2>1. r.depth > 0
    <3>1. CASE r.pc = "cond_unlock"
      BY <1>1, <3>1 DEF ThreadInv
    <3>2. CASE r.pc = "ready"
      <4>. DEFINE held == r.depth > 0
      <4>1. /\ r.todo \in Seq(Ops) /\ Disciplined(r.todo, held)
            /\ Head(r.todo) \in Takes \cup {"unlock"}
        BY <1>1, <1>2, <1>4, <3>2 DEF ThreadInv, Rest, WillHold, ThreadRec
      <4>. HIDE DEF held
      <4>2. held
        BY <1>2, <4>1, DisciplineHead
      <4>. QED BY <4>2 DEF held
    <3>. QED BY <1>2, <3>1, <3>2
  <2>2. r.depth = 1
    BY <1>1, <1>4, <2>1 DEF OwnerRec
  <2>3. Left(r) \in ThreadRec /\ Left(r).todo = r.todo /\ Left(r).depth = 0
    BY <1>1, <2>2, LeftRec
  <2>4. Inside(t) /\ kind # "csect" /\ kind # "errorcheck"
    BY <1>4, <2>1 DEF Inside, InsideRec
  <2>. QED BY <1>1, <1>2, <1>4, <2>3, <2>4, Exchange0Step
<1>5. CASE kind = "errorcheck" /\ mutex.owner = t
  <2>. DEFINE s == At(Left(r), "free")
  <2>1. Go(t, s) /\ mutex' = [mutex EXCEPT !.owner = NOHANDLE]
    BY <1>5 DEF pthread_mutex_unlock
  <2>2. r.depth = 1 /\ Inside(t)
    BY <1>1, <1>2, <1>3, <1>5 DEF OwnerRec, Inside, InsideRec
  <2>3. s \in ThreadRec /\ s.pc = "free" /\ s.todo = r.todo /\ s.depth = 0
    <3>1. Left(r) \in ThreadRec /\ Left(r).todo = r.todo /\ Left(r).depth = 0 /\ "free" \in Pcs
      BY <1>1, <2>2, LeftRec DEF Pcs
    <3>. QED BY <3>1, AtRec
  <2>. HIDE DEF s
  <2>4. /\ mutex' \in MutexType /\ mutex'.kind = kind /\ mutex'.lock = mutex.lock /\ mutex'.owner = NOHANDLE
        /\ NOHANDLE # t
    BY <1>1, <2>1, PthreadAssumption DEF MutexType
  <2>5. ThreadInv(s, kind)
    <3>1. CallAt(s.pc, Head(r.todo), kind) /\ Suits(s.todo, kind) /\ s.todo # <<>>
      BY <1>1, <1>2, <1>3, <1>5, <2>3 DEF CallAt, LockPcs, CondPcs, ThreadInv
    <3>. QED BY <1>1, <1>5, <2>3, <3>1, MidInv
  <2>6. OwnerRec(s, t, mutex')
    BY <1>5, <2>3, <2>4 DEF OwnerRec
  <2>7. \A u \in Threads \ {t} : OwnerRec(th[u], u, mutex')
    BY <1>5, <2>4, OthersKeep
  <2>8. (InCond(s) <=> InCond(r))
    BY <1>2, <1>3, <1>5, <2>3 DEF InCond
  <2>9. ~Free'
    BY <2>2, <2>4 DEF Free, ExclInv
  <2>10. th[t].pc # "asleep"
    BY <1>2
  <2>. QED BY <1>1, <1>5, <2>1, <2>2, <2>4, <2>5, <2>6, <2>7, <2>8, <2>9, <2>10, GoStep
<1>6. CASE kind = "errorcheck" /\ mutex.owner # t
  <2>. DEFINE s == Unlocked(r)
  <2>1. Go(t, s) /\ UNCHANGED <<mutex, cond, obj>>
    BY <1>6 DEF pthread_mutex_unlock
  <2>2. ThreadInv(s, kind) /\ s.depth = r.depth /\ s.pc = "ready"
    BY <1>1, <1>2, <1>3, <1>6, UnlockedInv
  <2>. HIDE DEF s
  <2>3. (InCond(s) <=> InCond(r)) /\ (InsideRec(s, kind) => Inside(t)) /\ OwnerRec(s, t, mutex)
    BY <1>1, <1>2, <1>3, <1>6, <2>2 DEF InCond, InsideRec, Inside, OwnerRec
  <2>. QED BY <1>1, <1>2, <2>1, <2>2, <2>3, GoQuiet
<1>. QED BY <1>4, <1>5, <1>6 DEF pthread_mutex_unlock

LEMMA UnlockFreeStep ==
  ASSUME Base, ExclInv, NEW t \in Threads, UnlockFree(t)
  PROVE  Base' /\ ExclInv'
<1>. DEFINE r == th[t]
            kind == mutex.kind
<1>1. /\ r \in ThreadRec /\ ThreadInv(r, kind) /\ kind \in Kinds /\ r.pc = "free" /\ Exchange0(t, r)
      /\ UNCHANGED <<cond, barrier, obj>> /\ OwnerRec(r, t, mutex)
  BY Thread DEF UnlockFree, ExclInv
<1>2. r.todo # <<>> /\ kind = "errorcheck" /\ Head(r.todo) = "unlock"
  BY <1>1 DEF ThreadInv, CallAt
<1>3. r.depth = 0 /\ Inside(t)
  BY <1>1, <1>2 DEF OwnerRec, Inside, InsideRec
<1>. QED BY <1>1, <1>2, <1>3, Exchange0Step

LEMMA SetEventStep ==
  ASSUME Base, ExclInv, NEW t \in Threads, SetEvent(t)
  PROVE  Base' /\ ExclInv'
<1>. DEFINE r == th[t]
            kind == mutex.kind
            s == Unlocked(r)
<1>1. /\ r \in ThreadRec /\ ThreadInv(r, kind) /\ kind \in Kinds /\ r.pc = "set" /\ ThreadsInv
      /\ Release(t, s, "event", 1) /\ UNCHANGED <<mutex, cond, barrier>> /\ OwnerRec(r, t, mutex)
      /\ "event" \in Objs
  BY Thread DEF SetEvent, eset, ExclInv, Objs, Base
<1>2. r.todo # <<>> /\ Head(r.todo) \in Takes \cup {"unlock"} /\ r.depth = 0
  BY <1>1 DEF ThreadInv, CallAt
<1>3. /\ ThreadInv(s, kind) /\ s.depth = 0 /\ s.pc = IF Head(r.todo) \in Takes THEN "cond_sleep" ELSE "ready"
  BY <1>1, <1>2, UnlockedInv
<1>. HIDE DEF s
<1>4. InCond(s) <=> InCond(r)
  BY <1>1, <1>3 DEF InCond
<1>5. CASE kind # "csect"
  <2>1. ~InsideRec(s, kind)
    BY <1>3 DEF InsideRec
  <2>2. OwnerRec(s, t, mutex)
    BY <1>1, <1>2, <1>3, <1>5 DEF OwnerRec
  <2>. QED BY <1>1, <1>3, <1>4, <1>5, <2>1, <2>2, ReleaseQuiet
<1>6. CASE kind = "csect"
  <2>1. Inside(t) /\ ~Free /\ mutex.owner # t /\ s.pc = "ready"
    BY <1>1, <1>2, <1>3, <1>6, Thread DEF Inside, InsideRec, ExclInv, OwnerRec
  <2>2. obj["event"].count = 0 /\ \A u \in Threads \ {t} : ~Inside(u)
    BY <1>6, <2>1 DEF ExclInv
  <2>3. Base' /\ th'[t] = s
    BY <1>1, <1>3, <1>4, ReleaseBase
  <2>4. mutex' = mutex /\ ~Free' /\ mutex'.kind = "csect"
    BY <1>1, <1>6, <2>1 DEF Free
  <2>5. ~InsideRec(th'[t], kind) /\ OwnerRec(th'[t], t, mutex)
    BY <1>3, <1>6, <2>1, <2>3 DEF InsideRec, OwnerRec
  <2>6. CASE obj'["event"].count <= 1 /\ \A u \in Threads \ {t} : th'[u] = th[u]
    <3>1. obj'["event"].count \in {0, 1}
      <4>1. obj'["event"].count \in Nat
        BY <1>1, <2>3 DEF Base, ThreadsInv
      <4>. QED BY <2>6, <4>1
    <3>2. \A u \in Threads : ~InsideRec(th'[u], kind) /\ OwnerRec(th'[u], u, mutex)
      BY <2>2, <2>5, <2>6 DEF Inside, ExclInv
    <3>. QED BY <1>6, <2>3, <2>4, <3>1, <3>2 DEF ExclInv, Inside
  <2>7. ASSUME NEW u \in Threads \ {t}, obj'["event"].count = 0, th[u].pc = "asleep",
               th'[u] = At(th[u], th[u].next), \A v \in Threads \ {t, u} : th'[v] = th[v]
        PROVE  ExclInv'
    <3>1. OwnerRec(th'[u], u, mutex)
      BY <2>7, Thread, WokenExcl DEF ExclInv
    <3>2. \A v \in Threads \ {u} : ~InsideRec(th'[v], kind)
      BY <2>2, <2>5, <2>7 DEF Inside
    <3>3. \A v \in Threads : OwnerRec(th'[v], v, mutex)
      BY <2>5, <2>7, <3>1 DEF ExclInv
    <3>. QED BY <1>6, <2>4, <2>7, <3>2, <3>3 DEF ExclInv, Inside
  <2>8. ExclInv'
    BY <1>1, <2>2, <2>6, <2>7, ReleaseOne
  <2>. QED BY <2>3, <2>8
<1>. QED BY <1>5, <1>6

-----------------------------------------------------------------------------
(* Critical sections.                                                      *)

LEMMA EnterStep ==
  ASSUME Base, ExclInv, NEW t \in Threads, enter(t)
  PROVE  Base' /\ ExclInv'
<1>. DEFINE r == th[t]
            kind == mutex.kind
<1>1. /\ r \in ThreadRec /\ ThreadInv(r, kind) /\ kind = "csect" /\ mutex \in MutexType
      /\ r.pc = "ready" /\ r.todo # <<>> /\ Head(r.todo) = "lock" /\ kind \in Kinds
      /\ UNCHANGED <<cond, barrier, obj>> /\ barrier' \in BarrierType /\ OwnerRec(r, t, mutex)
  BY Thread, Caller DEF enter, ExclInv
<1>2. CASE mutex.owner = t
  <2>. DEFINE s == Locked(r)
  <2>1. Go(t, s) /\ mutex' = [mutex EXCEPT !.recursion = @ + 1]
    BY <1>2 DEF enter
  <2>2. /\ mutex' \in MutexType /\ mutex'.kind = kind /\ mutex'.lock = mutex.lock
        /\ mutex'.owner = t /\ mutex'.recursion = mutex.recursion + 1 /\ t # NOHANDLE
        /\ mutex.recursion \in Nat
    BY <1>1, <1>2, <2>1, PthreadAssumption DEF MutexType
  <2>3. ThreadInv(s, kind) /\ s.pc = "ready" /\ s.depth = r.depth + 1
    BY <1>1, LockedInv DEF LockOps
  <2>. HIDE DEF s
  <2>4. r.depth = mutex.recursion + 1
    BY <1>1, <1>2 DEF OwnerRec
  <2>5. Inside(t) /\ ~Free /\ obj["event"].count # 1
    BY <1>1, <2>2, <2>4 DEF Inside, InsideRec, ExclInv
  <2>6. ~Free' /\ mutex'.lock >= -1
    BY <1>1, <2>2, <2>5 DEF Free, ExclInv
  <2>7. OwnerRec(s, t, mutex')
    BY <1>1, <2>2, <2>3, <2>4 DEF OwnerRec
  <2>8. \A u \in Threads \ {t} : OwnerRec(th[u], u, mutex')
    BY <2>2, <2>5, OthersKeep
  <2>9. (InCond(s) <=> InCond(r)) /\ th[t].pc # "asleep"
    BY <1>1, <2>3 DEF InCond
  <2>. QED BY <1>1, <2>1, <2>2, <2>3, <2>5, <2>6, <2>7, <2>8, <2>9, GoStep
<1>3. CASE mutex.owner # t
  <2>. DEFINE s == At(r, "add")
  <2>1. Go(t, s) /\ UNCHANGED <<mutex, cond, obj>>
    BY <1>1, <1>3 DEF enter
  <2>2. s \in ThreadRec /\ s.pc = "add" /\ s.todo = r.todo /\ s.depth = r.depth
    BY <1>1, AtRec DEF Pcs
  <2>. HIDE DEF s
  <2>3. CallAt(s.pc, Head(r.todo), kind)
    BY <1>1, <2>2 DEF CallAt, LockPcs, CondPcs
  <2>4. ThreadInv(s, kind)
    BY <1>1, <2>2, <2>3, StillMid
  <2>5. (InCond(s) <=> InCond(r)) /\ (InsideRec(s, kind) => Inside(t)) /\ OwnerRec(s, t, mutex)
    BY <1>1, <1>3, <2>2 DEF InCond, InsideRec, Inside, OwnerRec
  <2>. QED BY <1>1, <2>1, <2>4, <2>5, GoQuiet
<1>. QED BY <1>2, <1>3

LEMMA EnterAddStep ==
  ASSUME Base, ExclInv, NEW t \in Threads, EnterAdd(t)
  PROVE  Base' /\ ExclInv'
<1>. DEFINE r == th[t]
            kind == mutex.kind
            pc == IF mutex'.lock > 0 THEN "wait" ELSE "own"
            s == At(r, pc)
<1>1. /\ r \in ThreadRec /\ ThreadInv(r, kind) /\ mutex \in MutexType /\ kind \in Kinds
      /\ r.pc = "add" /\ Go(t, s) /\ mutex' = [mutex EXCEPT !.lock = @ + 1]
      /\ UNCHANGED <<cond, barrier, obj>> /\ OwnerRec(r, t, mutex)
  BY Thread DEF EnterAdd, ExclInv
<1>2. r.todo # <<>> /\ kind = "csect" /\ Head(r.todo) = "lock"
  BY <1>1 DEF ThreadInv, CallAt
<1>3. /\ mutex' \in MutexType /\ mutex'.kind = kind /\ mutex'.lock = mutex.lock + 1 /\ mutex.lock \in Int
      /\ mutex'.owner = mutex.owner /\ mutex'.recursion = mutex.recursion
  BY <1>1 DEF MutexType
<1>4. mutex.lock >= -1 /\ (mutex.owner = NOHANDLE => mutex.recursion = 0)
  BY <1>2 DEF ExclInv
<1>5. /\ s \in ThreadRec /\ s.pc = pc /\ s.todo = r.todo /\ s.depth = r.depth
      /\ pc \in {"wait", "own"} /\ (pc = "own" <=> Free) /\ ~Free'
  <2>1. pc \in Pcs
    BY DEF Pcs, LockPcs
  <2>2. pc \in {"wait", "own"} /\ (pc = "own" <=> Free) /\ ~Free'
    BY <1>2, <1>3, <1>4 DEF Free
  <2>. HIDE DEF pc
  <2>. QED BY <1>1, <2>1, <2>2, AtRec
<1>. HIDE DEF s, pc
<1>6. CallAt(s.pc, Head(r.todo), kind)
  BY <1>2, <1>5 DEF CallAt, LockPcs, CondPcs, LockOps
<1>7. ThreadInv(s, kind)
  BY <1>1, <1>2, <1>5, <1>6, StillMid
<1>8. OwnerRec(s, t, mutex') /\ r.depth = 0
  BY <1>1, <1>2, <1>3, <1>5 DEF OwnerRec
<1>9. \A u \in Threads : OwnerRec(th[u], u, mutex')
  BY <1>3, SameOwner
<1>10. InsideRec(s, kind) => Inside(t) \/ \A u \in Threads : ~Inside(u)
  BY <1>5, <1>8 DEF InsideRec, ExclInv
<1>11. obj["event"].count = 1 => ~Free' /\ ~InsideRec(s, mutex.kind)
  BY <1>2, <1>5, <1>8 DEF InsideRec, ExclInv
<1>12. (InCond(s) <=> InCond(r)) /\ th[t].pc # "asleep" /\ mutex'.lock >= -1
  BY <1>1, <1>3, <1>4, <1>5 DEF InCond
<1>. QED BY <1>1, <1>3, <1>4, <1>5, <1>7, <1>8, <1>9, <1>10, <1>11, <1>12, GoStep

LEMMA EnterWaitStep ==
  ASSUME Base, ExclInv, NEW t \in Threads, EnterWait(t)
  PROVE  Base' /\ ExclInv'
<1>. DEFINE r == th[t]
            kind == mutex.kind
            a == [r EXCEPT !.pc = "asleep", !.next = "own"]
            b == At(r, "own")
<1>1. /\ r \in ThreadRec /\ ThreadInv(r, kind) /\ kind \in Kinds /\ r.pc = "wait"
      /\ waitone(t, "event", "own") /\ UNCHANGED <<mutex, cond, barrier>> /\ "event" \in Objs
      /\ OwnerRec(r, t, mutex)
  BY Thread DEF EnterWait, Objs, ExclInv
<1>2. r.todo # <<>> /\ kind = "csect" /\ Head(r.todo) = "lock"
  BY <1>1 DEF ThreadInv, CallAt
<1>3. CallAt("own", Head(r.todo), kind)
  BY <1>2 DEF CallAt, LockPcs, CondPcs, LockOps
<1>4. /\ a.pc = "asleep" /\ a.next = "own" /\ a.depth = r.depth
      /\ b.pc = "own" /\ b.depth = r.depth
  BY <1>1 DEF ThreadRec, At
<1>5. WaitsFor([r EXCEPT !.pc = "asleep", !.next = "own"]) = "event"
  BY <1>4 DEF WaitsFor
<1>6. InCond(r) <=> "own" = "cond_woken"
  BY <1>1 DEF InCond
<1>7. Base' /\ Waited(t, "event", "own")
  BY <1>1, <1>2, <1>3, <1>5, <1>6, WaitBase
<1>8. /\ \A u \in Threads \ {t} : th'[u] = th[u]
      /\ \/ /\ obj["event"].count > 0 /\ obj'["event"].count = obj["event"].count - 1 /\ th'[t] = b
         \/ /\ obj'["event"].count = obj["event"].count /\ th'[t] = a
  BY <1>7 DEF Waited
<1>. HIDE DEF a, b
<1>9. /\ mutex.owner # t /\ r.depth = 0 /\ mutex' = mutex /\ mutex'.kind = kind /\ (Free' <=> Free)
      /\ obj["event"].count \in {0, 1}
  BY <1>1, <1>2 DEF OwnerRec, Free, ExclInv
<1>10. OwnerRec(th'[t], t, mutex)
  BY <1>2, <1>4, <1>8, <1>9 DEF OwnerRec
<1>11. CASE th'[t] = b /\ obj["event"].count > 0 /\ obj'["event"].count = obj["event"].count - 1
  <2>1. obj["event"].count = 1 /\ obj'["event"].count = 0
    BY <1>9, <1>11
  <2>2. ~Free /\ \A u \in Threads : ~Inside(u)
    BY <1>2, <2>1 DEF ExclInv
  <2>3. \A u \in Threads : OwnerRec(th'[u], u, mutex')
    BY <1>8, <1>9, <1>10 DEF ExclInv
  <2>4. \A u \in Threads \ {t} : InsideRec(th'[u], kind) => InsideRec(th[u], kind)
    BY <1>8
  <2>5. mutex'.lock >= -1 /\ (mutex'.owner = NOHANDLE => mutex'.recursion = 0)
    BY <1>2, <1>9 DEF ExclInv
  <2>6. ExclInv'
    BY <1>7, <1>9, <2>1, <2>2, <2>3, <2>4, <2>5, ExclStep
  <2>. QED BY <1>7, <2>6
<1>12. CASE th'[t] = a /\ obj'["event"].count = obj["event"].count
  <2>1. ~InsideRec(th'[t], kind)
    BY <1>4, <1>9, <1>12 DEF InsideRec
  <2>. QED BY <1>7, <1>8, <1>9, <1>10, <1>12, <2>1, QuietStep
<1>. QED BY <1>8, <1>11, <1>12

LEMMA LeaveStep ==
  ASSUME Base, ExclInv, NEW t \in Threads, leave(t)
  PROVE  Base' /\ ExclInv'
<1>. DEFINE r == th[t]
            kind == mutex.kind
<1>1. /\ r \in ThreadRec /\ ThreadInv(r, kind) /\ kind = "csect" /\ mutex \in MutexType
      /\ r.pc = "ready" /\ r.todo # <<>> /\ Head(r.todo) = "unlock" /\ kind \in Kinds
      /\ UNCHANGED <<cond, barrier, obj>> /\ barrier' \in BarrierType /\ OwnerRec(r, t, mutex)
  BY Thread, Caller DEF leave, ExclInv
<1>2. Head(r.todo) \notin Takes /\ t # NOHANDLE /\ mutex.recursion \in Nat /\ r.depth \in Nat
  BY <1>1, PthreadAssumption DEF Takes, MutexType, ThreadRec
<1>3. CASE mutex.owner # t
  <2>. DEFINE s == Unlocked(r)
  <2>1. Go(t, s) /\ UNCHANGED <<mutex, cond, obj>>
    BY <1>1, <1>3 DEF leave
  <2>2. ThreadInv(s, kind) /\ s.depth = r.depth /\ s.pc = "ready"
    BY <1>1, <1>2, UnlockedInv
  <2>. HIDE DEF s
  <2>3. (InCond(s) <=> InCond(r)) /\ (InsideRec(s, kind) => Inside(t)) /\ OwnerRec(s, t, mutex)
    BY <1>1, <1>3, <2>2 DEF InCond, InsideRec, Inside, OwnerRec
  <2>. QED BY <1>1, <2>1, <2>2, <2>3, GoQuiet
<1>4. CASE mutex.owner = t
  <2>1. r.depth = mutex.recursion + 1
    BY <1>1, <1>4 DEF OwnerRec
  <2>2. Inside(t) /\ ~Free /\ obj["event"].count # 1 /\ mutex.lock >= -1
    BY <1>1, <1>2, <2>1 DEF Inside, InsideRec, ExclInv
  <2>3. Left(r) \in ThreadRec /\ Left(r).todo = r.todo /\ Left(r).depth = mutex.recursion
    <3>1. r \in ThreadRec /\ mutex.recursion \in Nat
      BY <1>1, <1>2 DEF MutexType
    <3>2. r.depth > 0 /\ r.depth - 1 = mutex.recursion
      BY <2>1, <3>1
    <3>. QED BY <3>1, <3>2, LeftRec
  <2>4. CASE mutex.recursion > 0
    <3>. DEFINE s == Unlocked(Left(r))
    <3>1. Go(t, s) /\ mutex' = [mutex EXCEPT !.recursion = @ - 1]
      BY <1>4, <2>4 DEF leave
    <3>2. /\ mutex' \in MutexType /\ mutex'.kind = kind /\ mutex'.lock = mutex.lock
          /\ mutex'.owner = t /\ mutex'.recursion = mutex.recursion - 1
      BY <1>1, <1>2, <1>4, <2>4, <3>1 DEF MutexType
    <3>3. ThreadInv(s, kind) /\ s.depth = mutex.recursion /\ s.pc = "ready"
      BY <1>1, <1>2, <2>3, UnlockedInv
    <3>. HIDE DEF s
    <3>4. ~Free'
      BY <1>1, <2>2, <3>2 DEF Free
    <3>5. OwnerRec(s, t, mutex')
      BY <1>1, <1>2, <3>2, <3>3 DEF OwnerRec
    <3>6. \A u \in Threads \ {t} : OwnerRec(th[u], u, mutex')
      BY <2>2, <3>2, OthersKeep
    <3>7. (InCond(s) <=> InCond(r)) /\ th[t].pc # "asleep" /\ mutex'.lock >= -1 /\ mutex'.owner # NOHANDLE
      BY <1>1, <1>2, <2>2, <3>2, <3>3 DEF InCond
    <3>. QED BY <1>1, <2>2, <3>1, <3>2, <3>3, <3>4, <3>5, <3>6, <3>7, GoStep
  <2>5. CASE mutex.recursion = 0
    <3>. DEFINE s == At(Left(r), "sub")
    <3>1. Go(t, s) /\ mutex' = [mutex EXCEPT !.owner = NOHANDLE]
      BY <1>4, <2>5 DEF leave
    <3>2. /\ mutex' \in MutexType /\ mutex'.kind = kind /\ mutex'.lock = mutex.lock
          /\ mutex'.owner = NOHANDLE /\ mutex'.recursion = 0
      BY <1>1, <2>5, <3>1 DEF MutexType
    <3>3. s \in ThreadRec /\ s.pc = "sub" /\ s.todo = r.todo /\ s.depth = 0
      <4>1. "sub" \in Pcs
        BY DEF Pcs
      <4>. QED BY <2>3, <2>5, <4>1, AtRec
    <3>. HIDE DEF s
    <3>4. ThreadInv(s, kind)
      <4>1. CallAt(s.pc, Head(r.todo), kind) /\ Suits(s.todo, kind) /\ s.todo # <<>>
        BY <1>1, <3>3 DEF CallAt, LockPcs, CondPcs, ThreadInv
      <4>. QED BY <1>1, <3>3, <4>1, MidInv
    <3>5. ~Free'
      BY <1>1, <2>2, <3>2 DEF Free
    <3>6. OwnerRec(s, t, mutex')
      BY <1>1, <1>2, <3>2, <3>3 DEF OwnerRec
    <3>7. \A u \in Threads \ {t} : OwnerRec(th[u], u, mutex')
      BY <2>2, <3>2, OthersKeep
    <3>8. (InCond(s) <=> InCond(r)) /\ th[t].pc # "asleep" /\ mutex'.lock >= -1
      BY <1>1, <2>2, <3>2, <3>3 DEF InCond
    <3>. QED BY <1>1, <2>2, <3>1, <3>2, <3>4, <3>5, <3>6, <3>7, <3>8, GoStep
  <2>. QED BY <1>2, <2>4, <2>5
<1>. QED BY <1>3, <1>4

LEMMA LeaveSubStep ==
  ASSUME Base, ExclInv, NEW t \in Threads, LeaveSub(t)
  PROVE  Base' /\ ExclInv'
<1>. DEFINE r == th[t]
            kind == mutex.kind
            s == IF mutex'.lock >= 0 THEN At(r, "set") ELSE Unlocked(r)
<1>1. /\ r \in ThreadRec /\ ThreadInv(r, kind) /\ mutex \in MutexType /\ kind \in Kinds
      /\ r.pc = "sub" /\ Go(t, s) /\ mutex' = [mutex EXCEPT !.lock = @ - 1]
      /\ UNCHANGED <<cond, barrier, obj>> /\ OwnerRec(r, t, mutex)
  BY Thread DEF LeaveSub, ExclInv
<1>2. r.todo # <<>> /\ kind = "csect" /\ Head(r.todo) = "unlock" /\ "unlock" \notin Takes
  BY <1>1 DEF ThreadInv, CallAt, Takes
<1>3. /\ mutex' \in MutexType /\ mutex'.kind = kind /\ mutex'.lock = mutex.lock - 1 /\ mutex.lock \in Int
      /\ mutex'.owner = mutex.owner /\ mutex'.recursion = mutex.recursion
  BY <1>1 DEF MutexType
<1>4. /\ mutex.lock >= -1 /\ (mutex.owner = NOHANDLE => mutex.recursion = 0)
      /\ Inside(t) /\ ~Free /\ obj["event"].count # 1 /\ mutex.owner # t /\ r.depth = 0
  BY <1>1, <1>2 DEF ExclInv, Inside, InsideRec, OwnerRec
<1>5. mutex'.lock >= -1 /\ (Free' <=> ~(mutex'.lock >= 0))
  BY <1>2, <1>3, <1>4 DEF Free
<1>6. /\ ThreadInv(s, kind) /\ s.depth = 0
      /\ s.pc = IF mutex'.lock >= 0 THEN "set" ELSE "ready"
      /\ s.pc = "set" => s.todo = r.todo
  <2>1. CASE mutex'.lock >= 0
    <3>1. s \in ThreadRec /\ s.pc = "set" /\ s.todo = r.todo /\ s.depth = 0 /\ s.todo # <<>>
      BY <1>1, <1>2, <1>4, <2>1, AtRec DEF Pcs
    <3>. HIDE DEF s
    <3>2. Suits(s.todo, kind)
      BY <1>1, <3>1 DEF ThreadInv
    <3>3. ThreadInv(s, kind)
      BY <1>1, <1>2, <3>1, <3>2, SetInv
    <3>. QED BY <2>1, <3>1, <3>3
  <2>2. CASE ~(mutex'.lock >= 0)
    <3>1. ThreadInv(s, kind) /\ s.depth = 0 /\ s.pc = "ready"
      BY <1>1, <1>2, <1>4, <2>2, UnlockedInv
    <3>. HIDE DEF s
    <3>. QED BY <2>2, <3>1
  <2>. QED BY <2>1, <2>2
<1>. HIDE DEF s
<1>7. InsideRec(s, kind) <=> s.pc = "set"
  BY <1>2, <1>6 DEF InsideRec
<1>8. OwnerRec(s, t, mutex')
  BY <1>2, <1>3, <1>4, <1>6 DEF OwnerRec
<1>9. \A u \in Threads : OwnerRec(th[u], u, mutex')
  BY <1>3, SameOwner
<1>10. (InCond(s) <=> InCond(r)) /\ th[t].pc # "asleep"
  BY <1>1, <1>2, <1>6 DEF InCond
<1>11. Free' => ~InsideRec(s, mutex.kind) /\ (Free \/ Inside(t))
  BY <1>4, <1>5, <1>6, <1>7
<1>. QED BY <1>1, <1>3, <1>4, <1>5, <1>6, <1>8, <1>9, <1>10, <1>11, GoStep

-----------------------------------------------------------------------------
(* Condition variables and barriers: the lock is left alone.               *)

CalmPcs == {"ready", "cond_unlock", "cond_sleep", "cond_woken", "relock"} \cup PostPcs \cup BarrierPcs

LEMMA Calm ==
  ASSUME NEW r, NEW t, NEW m, OwnerRec(r, t, m), r.todo # <<>>, r.pc \in CalmPcs,
         NEW s, s.depth = r.depth,
         s.pc \in CalmPcs \/ (s.pc = "asleep" /\ s.next \in {"cond_woken", "advance"})
  PROVE  OwnerRec(s, t, m) /\ (InsideRec(s, m.kind) => InsideRec(r, m.kind))
<1>1. r.pc \notin {"own", "sub", "free", "set", "add", "wait", "again", "sleep", "own_early", "asleep"}
  BY DEF CalmPcs, PostPcs, BarrierPcs
<1>2. s.pc \notin {"own", "sub", "free", "set", "add", "wait"}
  BY DEF CalmPcs, PostPcs, BarrierPcs
<1>3. ~(s.pc = "asleep" /\ s.next = "own")
  BY DEF CalmPcs, PostPcs, BarrierPcs
<1>4. InsideRec(s, m.kind) => InsideRec(r, m.kind)
  BY <1>2 DEF InsideRec
<1>5. CASE m.kind = "csect"
  BY <1>1, <1>2, <1>3, <1>4, <1>5 DEF OwnerRec
<1>6. CASE m.kind # "csect"
  BY <1>1, <1>2, <1>4, <1>6 DEF OwnerRec
<1>. QED BY <1>5, <1>6

\* t goes on within its call, or returns.
LEMMA CalmGo ==
  ASSUME Base, ExclInv, NEW t \in Threads, NEW s, Go(t, s), UNCHANGED <<mutex, cond, obj>>,
         barrier' \in BarrierType, th[t].pc \in CalmPcs \ CondPcs, th[t].todo # <<>>,
         s \in ThreadRec, s.depth = th[t].depth, s.pc \in CalmPcs \ CondPcs,
         \/ /\ s.pc = "ready" /\ s.todo = Tail(th[t].todo)
            /\ Head(th[t].todo) \notin LockOps \cup {"unlock"}
            /\ th[t].pc = "ready" \/ Head(th[t].todo) \notin Takes
         \/ s.pc # "ready" /\ s.todo = th[t].todo /\ CallAt(s.pc, Head(th[t].todo), mutex.kind)
  PROVE  Base' /\ ExclInv'
<1>1. /\ th[t] \in ThreadRec /\ ThreadInv(th[t], mutex.kind) /\ mutex.kind \in Kinds
      /\ OwnerRec(th[t], t, mutex)
  BY Thread DEF ExclInv
<1>2. th[t].pc \notin {"set", "asleep"} /\ s.pc \notin {"set", "asleep"}
  BY DEF CalmPcs, CondPcs, PostPcs, BarrierPcs
<1>3. ThreadInv(s, mutex.kind)
  <2>1. CASE s.pc = "ready"
    BY <1>1, <1>2, <2>1, ReturnsInv
  <2>2. CASE s.pc # "ready"
    <3>1. s.pc # "cond_unlock"
      BY DEF CondPcs
    <3>. QED BY <1>1, <1>2, <2>2, <3>1, StillMid
  <2>. QED BY <2>1, <2>2
<1>4. InCond(s) <=> InCond(th[t])
  BY <1>2 DEF InCond, CondPcs
<1>5. OwnerRec(s, t, mutex) /\ (InsideRec(s, mutex.kind) => Inside(t))
  BY <1>1, Calm DEF Inside
<1>. QED BY <1>1, <1>2, <1>3, <1>4, <1>5, GoQuiet

LEMMA PutTakeStep ==
  ASSUME Base, ExclInv, NEW t \in Threads, Put(t) \/ Take(t)
  PROVE  Base' /\ ExclInv'
<1>1. Calls(t, {"put"} \cup Takes) /\ "none" \notin {"put"} \cup Takes
  BY DEF Put, Take, Calls, Takes
<1>2. /\ th[t] \in ThreadRec /\ th[t].pc = "ready" /\ th[t].todo # <<>>
      /\ Head(th[t].todo) \in {"put"} \cup Takes
  BY <1>1, Thread, Caller
<1>3. Head(th[t].todo) \notin LockOps \cup {"unlock"}
  BY <1>2 DEF Takes, LockOps
<1>4. /\ Go(t, Returns(th[t])) /\ UNCHANGED <<mutex, cond, obj>> /\ barrier' \in BarrierType
  BY Thread DEF Put, Take
<1>. DEFINE s == Returns(th[t])
<1>5. s \in ThreadRec /\ s.pc = "ready" /\ s.todo = Tail(th[t].todo) /\ s.depth = th[t].depth
  BY <1>2, ReturnsRec
<1>. HIDE DEF s
<1>6. "ready" \in CalmPcs \ CondPcs /\ Go(t, s)
  BY <1>4 DEF CalmPcs, CondPcs, s
<1>. QED BY <1>2, <1>3, <1>4, <1>5, <1>6, CalmGo

LEMMA SignalStep ==
  ASSUME Base, ExclInv, NEW t \in Threads, pthread_cond_signal(t)
  PROVE  Base' /\ ExclInv'
<1>. DEFINE r == th[t]
            s == IF cond.waiting = 0 THEN Returns(r)
                 ELSE IF Op(t) = "signal" THEN [r EXCEPT !.pc = "post", !.n = 1]
                 ELSE At(r, "count")
<1>1. /\ r \in ThreadRec /\ r.pc = "ready" /\ r.todo # <<>>
      /\ Head(r.todo) \in {"signal", "broadcast"}
      /\ Go(t, s) /\ UNCHANGED <<mutex, cond, obj>> /\ barrier' \in BarrierType
  BY Thread, Caller DEF pthread_cond_signal
<1>2. Head(r.todo) \notin LockOps \cup {"unlock"}
  BY <1>1 DEF LockOps
<1>3. /\ s \in ThreadRec /\ s.depth = r.depth /\ s.pc \in {"ready", "post", "count"}
      /\ s.todo = IF s.pc = "ready" THEN Tail(r.todo) ELSE r.todo
  <2>1. CASE s = Returns(r)
    BY <1>1, <2>1, ReturnsRec
  <2>2. CASE s = [r EXCEPT !.pc = "post", !.n = 1]
    <3>. HIDE DEF s
    <3>. QED BY <1>1, <2>2 DEF ThreadRec, Pcs, PostPcs
  <2>3. CASE s = At(r, "count")
    BY <1>1, <2>3, AtRec DEF Pcs, PostPcs
  <2>. QED BY <2>1, <2>2, <2>3
<1>. HIDE DEF s
<1>4. {"ready", "post", "count"} \subseteq CalmPcs \ CondPcs
  BY DEF CalmPcs, CondPcs, PostPcs
<1>5. s.pc # "ready" => CallAt(s.pc, Head(r.todo), mutex.kind)
  BY <1>1, <1>3 DEF CallAt, LockPcs, CondPcs
<1>. QED BY <1>1, <1>2, <1>3, <1>4, <1>5, CalmGo

LEMMA BroadcastStep ==
  ASSUME Base, ExclInv, NEW t \in Threads, pthread_cond_broadcast(t)
  PROVE  Base' /\ ExclInv'
<1>. DEFINE r == th[t]
            s == [r EXCEPT !.pc = "post", !.n = cond.waiting]
<1>1. /\ r \in ThreadRec /\ ThreadInv(r, mutex.kind) /\ r.pc = "count" /\ r.todo # <<>> /\ cond.waiting \in Nat
      /\ Go(t, s) /\ UNCHANGED <<mutex, cond, obj>> /\ barrier' \in BarrierType
  BY Thread, WaitingNat DEF pthread_cond_broadcast, ThreadInv, Base
<1>2. s \in ThreadRec /\ s.depth = r.depth /\ s.pc = "post" /\ s.todo = r.todo
  BY <1>1 DEF ThreadRec, Pcs, PostPcs
<1>. HIDE DEF s
<1>3. {"post", "count"} \subseteq CalmPcs \ CondPcs
  BY DEF CalmPcs, CondPcs, PostPcs
<1>4. CallAt(s.pc, Head(r.todo), mutex.kind)
  BY <1>1, <1>2 DEF CallAt, LockPcs, CondPcs, ThreadInv
<1>. QED BY <1>1, <1>2, <1>3, <1>4, CalmGo

LEMMA BarrierSteps ==
  ASSUME Base, ExclInv, NEW t \in Threads,
         pthread_barrier_wait(t) \/ BarrierArrive(t) \/ BarrierReset(t) \/ BarrierAdvance(t)
  PROVE  Base' /\ ExclInv'
<1>. DEFINE r == th[t]
<1>0. r \in ThreadRec /\ ThreadInv(r, mutex.kind) /\ barrier \in BarrierType
  BY Thread
<1>1. {"ready"} \cup BarrierPcs \subseteq CalmPcs \ CondPcs
  BY DEF CalmPcs, CondPcs, BarrierPcs
<1>2. CASE pthread_barrier_wait(t)
  <2>. DEFINE s == [r EXCEPT !.pc = "arrive", !.step = barrier.step, !.entered = @ + 1]
  <2>1. /\ r.pc = "ready" /\ r.todo # <<>> /\ Head(r.todo) = "barrier" /\ Go(t, s)
        /\ UNCHANGED <<mutex, cond, obj>> /\ barrier' = barrier
    BY <1>2, Caller DEF pthread_barrier_wait
  <2>2. s \in ThreadRec /\ s.depth = r.depth /\ s.pc = "arrive" /\ s.todo = r.todo
    <3>1. barrier.step \in {0, 1} /\ r.entered + 1 \in Nat
      BY <1>0 DEF ThreadRec, BarrierType
    <3>. QED BY <1>0, <3>1 DEF ThreadRec, Pcs, BarrierPcs
  <2>. HIDE DEF s
  <2>3. CallAt(s.pc, Head(r.todo), mutex.kind)
    BY <2>1, <2>2 DEF CallAt, LockPcs, CondPcs
  <2>. QED BY <1>0, <1>1, <2>1, <2>2, <2>3, CalmGo DEF BarrierPcs
<1>3. CASE BarrierArrive(t)
  <2>. DEFINE pc == IF barrier'.curr_height = 0 THEN "reset" ELSE "stand"
              s == At(r, pc)
  <2>1. /\ r.pc = "arrive" /\ Go(t, s) /\ UNCHANGED <<mutex, cond, obj>>
        /\ barrier' = [barrier EXCEPT !.curr_height = @ - 1]
    BY <1>3 DEF BarrierArrive
  <2>2. r.todo # <<>> /\ barrier' \in BarrierType
    BY <1>0, <2>1 DEF ThreadInv, BarrierType
  <2>3. s \in ThreadRec /\ s.depth = r.depth /\ s.pc \in BarrierPcs /\ s.pc # "ready" /\ s.todo = r.todo
    BY <1>0, AtRec DEF Pcs, BarrierPcs
  <2>. HIDE DEF s
  <2>4. CallAt(s.pc, Head(r.todo), mutex.kind)
    BY <1>0, <2>1, <2>2, <2>3 DEF CallAt, LockPcs, CondPcs, ThreadInv, BarrierPcs
  <2>. QED BY <1>0, <1>1, <2>1, <2>2, <2>3, <2>4, CalmGo DEF BarrierPcs
<1>4. CASE BarrierReset(t)
  <2>. DEFINE pc == IF barrier.init_height > 1 THEN "breech" ELSE "advance"
              s == At(r, pc)
  <2>1. /\ r.pc = "reset" /\ Go(t, s) /\ UNCHANGED <<mutex, cond, obj>>
        /\ barrier' = [barrier EXCEPT !.curr_height = barrier.init_height]
    BY <1>4 DEF BarrierReset
  <2>2. r.todo # <<>> /\ barrier' \in BarrierType
    BY <1>0, <2>1 DEF ThreadInv, BarrierType
  <2>3. s \in ThreadRec /\ s.depth = r.depth /\ s.pc \in BarrierPcs /\ s.pc # "ready" /\ s.todo = r.todo
    BY <1>0, AtRec DEF Pcs, BarrierPcs
  <2>. HIDE DEF s
  <2>4. CallAt(s.pc, Head(r.todo), mutex.kind)
    BY <1>0, <2>1, <2>2, <2>3 DEF CallAt, LockPcs, CondPcs, ThreadInv, BarrierPcs
  <2>. QED BY <1>0, <1>1, <2>1, <2>2, <2>3, <2>4, CalmGo DEF BarrierPcs
<1>5. CASE BarrierAdvance(t)
  <2>. DEFINE first == barrier.step = r.step
              x == Returns(r)
              s == [x EXCEPT !.left = @ + 1, !.serial = IF first THEN @ \cup {r.entered} ELSE @]
  <2>1. /\ r.pc = "advance" /\ Go(t, s) /\ UNCHANGED <<mutex, cond, obj>>
        /\ barrier' = [barrier EXCEPT !.step = IF first THEN 1 - @ ELSE @]
    BY <1>5 DEF BarrierAdvance
  <2>2. r.todo # <<>> /\ barrier' \in BarrierType
    BY <1>0, <2>1 DEF ThreadInv, BarrierType
  <2>3. s \in ThreadRec /\ s.depth = r.depth /\ s.pc = "ready" /\ s.todo = Tail(r.todo)
    <3>1. x \in ThreadRec /\ x.depth = r.depth /\ x.pc = "ready" /\ x.todo = Tail(r.todo)
      BY <1>0, <2>2, ReturnsRec
    <3>. HIDE DEF x
    <3>2. x.left + 1 \in Nat /\ x.serial \cup {r.entered} \in SUBSET Nat
      BY <1>0, <3>1 DEF ThreadRec
    <3>. HIDE DEF first
    <3>3. s \in ThreadRec
      BY <3>1, <3>2 DEF ThreadRec
    <3>4. s.depth = x.depth /\ s.pc = x.pc /\ s.todo = x.todo
      BY <3>1 DEF ThreadRec
    <3>. HIDE DEF s
    <3>. QED BY <3>1, <3>3, <3>4
  <2>. HIDE DEF s
  <2>4. Head(r.todo) \notin LockOps \cup {"unlock"} \cup Takes
    BY <1>0, <2>1, <2>2 DEF ThreadInv, CallAt, LockOps, Takes
  <2>. QED BY <1>0, <1>1, <2>1, <2>2, <2>3, <2>4, CalmGo DEF BarrierPcs
<1>. QED BY <1>2, <1>3, <1>4, <1>5

\* t waits for o, which is not the lock's event.
LEMMA CalmWait ==
  ASSUME Base, ExclInv, NEW t \in Threads, NEW o \in Objs \ {"event"}, NEW next \in {"cond_woken", "advance"},
         waitone(t, o, next), UNCHANGED <<mutex, cond, barrier>>,
         th[t].pc \in CalmPcs \ {"ready"}, th[t].todo # <<>>, CallAt(next, Head(th[t].todo), mutex.kind),
         o = (IF next = "cond_woken" THEN "semaphore" ELSE Breeched(th[t].step)),
         InCond(th[t]) <=> next = "cond_woken"
  PROVE  Base' /\ ExclInv'
<1>. DEFINE r == th[t]
            a == [r EXCEPT !.pc = "asleep", !.next = next]
            b == At(r, next)
<1>1. r \in ThreadRec /\ OwnerRec(r, t, mutex) /\ mutex' = mutex
  BY Thread DEF ExclInv
<1>2. /\ a.pc = "asleep" /\ a.next = next /\ a.depth = r.depth /\ a.step = r.step
      /\ b.pc = next /\ b.depth = r.depth
  BY <1>1 DEF ThreadRec, At
<1>3. WaitsFor([r EXCEPT !.pc = "asleep", !.next = next]) = o
  BY <1>2 DEF WaitsFor
<1>4. r.pc \notin {"ready", "set", "asleep"}
  BY DEF CalmPcs, PostPcs, BarrierPcs
<1>5. next \in {"again", "own_early", "own", "cond_woken", "advance"} /\ next # "own"
  OBVIOUS
<1>6. Base' /\ Waited(t, o, next)
  BY <1>3, <1>4, <1>5, WaitBase
<1>7. /\ \A u \in Threads \ {t} : th'[u] = th[u]
      /\ obj'["event"].count = obj["event"].count /\ th'[t] \in {a, b}
  BY <1>6 DEF Waited, Objs
<1>. HIDE DEF a, b
<1>8. OwnerRec(th'[t], t, mutex) /\ (InsideRec(th'[t], mutex.kind) => Inside(t))
  <2>1. th'[t].depth = r.depth
    BY <1>2, <1>7
  <2>2. th'[t].pc \in CalmPcs \/ (th'[t].pc = "asleep" /\ th'[t].next \in {"cond_woken", "advance"})
    BY <1>2, <1>7 DEF CalmPcs, BarrierPcs
  <2>. QED BY <1>1, <2>1, <2>2, Calm DEF Inside
<1>. QED BY <1>1, <1>6, <1>7, <1>8, QuietStep

LEMMA CondSleepStep ==
  ASSUME Base, ExclInv, NEW t \in Threads, CondSleep(t)
  PROVE  Base' /\ ExclInv'
<1>1. /\ ThreadInv(th[t], mutex.kind) /\ th[t].pc = "cond_sleep" /\ waitone(t, "semaphore", "cond_woken")
      /\ UNCHANGED <<mutex, cond, barrier>>
  BY Thread DEF CondSleep
<1>2. th[t].todo # <<>> /\ Head(th[t].todo) \in Takes
  BY <1>1 DEF ThreadInv, CallAt, CondPcs
<1>3. CallAt("cond_woken", Head(th[t].todo), mutex.kind)
  BY <1>2 DEF CallAt, LockPcs, CondPcs
<1>4. "semaphore" \in Objs \ {"event"} /\ th[t].pc \in CalmPcs \ {"ready"} /\ InCond(th[t])
  BY <1>1 DEF Objs, CalmPcs, InCond
<1>. QED BY <1>1, <1>2, <1>3, <1>4, CalmWait

LEMMA BarrierStandStep ==
  ASSUME Base, ExclInv, NEW t \in Threads, BarrierStand(t)
  PROVE  Base' /\ ExclInv'
<1>. DEFINE o == Breeched(th[t].step)
<1>1. /\ ThreadInv(th[t], mutex.kind) /\ th[t].pc = "stand" /\ waitone(t, o, "advance")
      /\ UNCHANGED <<mutex, cond, barrier>>
  BY Thread DEF BarrierStand
<1>2. th[t].todo # <<>> /\ Head(th[t].todo) = "barrier"
  BY <1>1 DEF ThreadInv, CallAt
<1>3. CallAt("advance", Head(th[t].todo), mutex.kind)
  BY <1>2 DEF CallAt, LockPcs, CondPcs
<1>4. o \in Objs \ {"event"} /\ th[t].pc \in CalmPcs \ {"ready"} /\ ~InCond(th[t])
  BY <1>1 DEF Objs, CalmPcs, InCond, BarrierPcs, Breeched
<1>. QED BY <1>1, <1>2, <1>3, <1>4, CalmWait

\* t releases o, which is not the lock's event, and goes on as s.
LEMMA CalmRelease ==
  ASSUME Base, ExclInv, NEW t \in Threads, NEW o \in Objs \ {"event"}, NEW n \in Nat, NEW s,
         Release(t, s, o, n), UNCHANGED <<mutex, cond, barrier>>,
         th[t].pc \in CalmPcs \ CondPcs, th[t].pc # "ready", th[t].todo # <<>>,
         s \in ThreadRec, s.depth = th[t].depth, s.pc \in CalmPcs \ CondPcs,
         \/ /\ s.pc = "ready" /\ s.todo = Tail(th[t].todo)
            /\ Head(th[t].todo) \notin LockOps \cup {"unlock"} \cup Takes
         \/ s.pc # "ready" /\ s.todo = th[t].todo /\ CallAt(s.pc, Head(th[t].todo), mutex.kind)
  PROVE  Base' /\ ExclInv'
<1>1. /\ th[t] \in ThreadRec /\ ThreadInv(th[t], mutex.kind) /\ mutex.kind \in Kinds
      /\ OwnerRec(th[t], t, mutex)
  BY Thread DEF ExclInv
<1>2. th[t].pc \notin {"set", "asleep"} /\ s.pc \notin {"set", "asleep"}
  BY DEF CalmPcs, CondPcs, PostPcs, BarrierPcs
<1>3. ThreadInv(s, mutex.kind)
  <2>1. CASE s.pc = "ready"
    BY <1>1, <1>2, <2>1, ReturnsInv
  <2>2. CASE s.pc # "ready"
    <3>1. s.pc # "cond_unlock"
      BY DEF CondPcs
    <3>. QED BY <1>1, <1>2, <2>2, <3>1, StillMid
  <2>. QED BY <2>1, <2>2
<1>4. InCond(s) <=> InCond(th[t])
  BY <1>2 DEF InCond, CondPcs
<1>5. OwnerRec(s, t, mutex) /\ (InsideRec(s, mutex.kind) => Inside(t))
  BY <1>1, Calm DEF Inside
<1>. QED BY <1>1, <1>2, <1>3, <1>4, <1>5, ReleaseQuiet

LEMMA CondPostStep ==
  ASSUME Base, ExclInv, NEW t \in Threads, CondPost(t)
  PROVE  Base' /\ ExclInv'
<1>. DEFINE r == th[t]
            x == Returns(r)
            s == [x EXCEPT !.n = 0]
<1>1. /\ r \in ThreadRec /\ ThreadInv(r, mutex.kind) /\ r.pc = "post" /\ r.n \in Nat
      /\ Release(t, s, "semaphore", r.n) /\ UNCHANGED <<mutex, cond, barrier>>
  BY Thread DEF CondPost, semrel, ThreadRec
<1>2. r.todo # <<>> /\ Head(r.todo) \notin LockOps \cup {"unlock"} \cup Takes
  BY <1>1 DEF ThreadInv, CallAt, LockOps, Takes
<1>3. s \in ThreadRec /\ s.depth = r.depth /\ s.pc = "ready" /\ s.todo = Tail(r.todo)
  <2>1. x \in ThreadRec /\ x.depth = r.depth /\ x.pc = "ready" /\ x.todo = Tail(r.todo)
    BY <1>1, <1>2, ReturnsRec
  <2>. HIDE DEF x
  <2>. QED BY <2>1 DEF ThreadRec
<1>. HIDE DEF s
<1>4. {"ready", "post"} \subseteq CalmPcs \ CondPcs /\ "semaphore" \in Objs \ {"event"}
  BY DEF CalmPcs, CondPcs, PostPcs, Objs
<1>. QED BY <1>1, <1>2, <1>3, <1>4, CalmRelease

LEMMA BarrierBreechStep ==
  ASSUME Base, ExclInv, NEW t \in Threads, BarrierBreech(t)
  PROVE  Base' /\ ExclInv'
<1>. DEFINE r == th[t]
            o == Breeched(r.step)
            x == Returns(r)
            s == IF obj[o].count = 0 THEN At(r, "advance") ELSE [x EXCEPT !.left = @ + 1]
<1>1. /\ r \in ThreadRec /\ ThreadInv(r, mutex.kind) /\ r.pc = "breech" /\ barrier \in BarrierType
      /\ Release(t, s, o, barrier.init_height - 1) /\ UNCHANGED <<mutex, cond, barrier>>
  BY Thread DEF BarrierBreech, semrel
<1>2. /\ r.todo # <<>> /\ Head(r.todo) = "barrier" /\ Head(r.todo) \notin LockOps \cup {"unlock"} \cup Takes
      /\ o \in Objs \ {"event"} /\ barrier.init_height - 1 \in Nat
  BY <1>1 DEF ThreadInv, CallAt, LockOps, Takes, Objs, Breeched, BarrierType
<1>3. CallAt("advance", Head(r.todo), mutex.kind)
  BY <1>2 DEF CallAt, LockPcs, CondPcs
<1>4. /\ s \in ThreadRec /\ s.depth = r.depth /\ s.pc \in {"ready", "advance"}
      /\ s.todo = IF s.pc = "ready" THEN Tail(r.todo) ELSE r.todo
  <2>1. x \in ThreadRec /\ x.depth = r.depth /\ x.pc = "ready" /\ x.todo = Tail(r.todo)
    BY <1>1, <1>2, ReturnsRec
  <2>2. CASE s = At(r, "advance")
    <3>. HIDE DEF s
    <3>1. "advance" \in Pcs
      BY DEF Pcs, BarrierPcs
    <3>. QED BY <1>1, <2>2, <3>1, AtRec
  <2>3. CASE s = [x EXCEPT !.left = @ + 1]
    <3>. HIDE DEF s, x
    <3>1. x.left + 1 \in Nat
      BY <2>1 DEF ThreadRec
    <3>. QED BY <2>1, <2>3, <3>1 DEF ThreadRec
  <2>. QED BY <2>2, <2>3
<1>. HIDE DEF s, o
<1>5. {"ready", "breech", "advance"} \subseteq CalmPcs \ CondPcs
  BY DEF CalmPcs, CondPcs, BarrierPcs
<1>. QED BY <1>1, <1>2, <1>3, <1>4, <1>5, CalmRelease

\* waiting changes with the threads it counts.
LEMMA CondWaitStep ==
  ASSUME Base, ExclInv, NEW t \in Threads, pthread_cond_wait(t)
  PROVE  Base' /\ ExclInv'
<1>. DEFINE r == th[t]
            s == At(r, "cond_unlock")
<1>1. /\ r \in ThreadRec /\ ThreadInv(r, mutex.kind) /\ r.pc = "ready" /\ r.todo # <<>>
      /\ Head(r.todo) \in Takes /\ Go(t, s) /\ cond' = [cond EXCEPT !.waiting = @ + 1]
      /\ mutex' = mutex /\ mutex'.kind = mutex.kind /\ mutex.kind = "normal" /\ barrier' = barrier /\ obj' = obj
      /\ OwnerRec(r, t, mutex) /\ "normal" \in Kinds
  <2>1. "none" \notin Takes /\ Calls(t, Takes)
    BY DEF Takes, pthread_cond_wait
  <2>. QED BY <2>1, Thread, Caller DEF pthread_cond_wait, ExclInv, Kinds
<1>2. s \in ThreadRec /\ s.pc = "cond_unlock" /\ s.todo = r.todo /\ s.depth = r.depth
  BY <1>1, AtRec DEF Pcs, CondPcs
<1>. HIDE DEF s
<1>3. r.depth > 0
  <2>. DEFINE held == r.depth > 0
  <2>1. r.todo \in Seq(Ops) /\ Disciplined(r.todo, held)
    BY <1>1 DEF ThreadInv, Rest, WillHold, ThreadRec
  <2>. HIDE DEF held
  <2>2. held
    BY <1>1, <2>1, DisciplineHead
  <2>. QED BY <2>2 DEF held
<1>4. CallAt(s.pc, Head(r.todo), mutex.kind)
  BY <1>1, <1>2 DEF CallAt, LockPcs, CondPcs
<1>5. ThreadInv(s, mutex.kind)
  BY <1>1, <1>2, <1>3, <1>4, StillMid
<1>6. ThreadsInv' /\ th'[t] = s /\ \A u \in Threads \ {t} : th'[u] = th[u]
  BY <1>1, <1>5, GoKeeps DEF Base
<1>7. CondWaiters' = CondWaiters \cup {t} /\ t \notin CondWaiters
  BY <1>1, <1>2, <1>6 DEF CondWaiters, InCond
<1>8. CondInv'
  <2>1. IsFiniteSet(CondWaiters) /\ cond = [waiting |-> Cardinality(CondWaiters)]
    BY WaitingNat DEF Base, CondInv
  <2>2. Cardinality(CondWaiters \cup {t}) = Cardinality(CondWaiters) + 1
    BY <1>7, <2>1, FS_AddElement
  <2>. QED BY <1>1, <1>7, <2>1, <2>2 DEF CondInv
<1>9. Base'
  BY <1>1, <1>6, <1>8 DEF Base
<1>10. OwnerRec(th'[t], t, mutex) /\ (InsideRec(th'[t], mutex.kind) => Inside(t))
  <2>1. r.pc \in CalmPcs /\ th'[t].depth = r.depth /\ th'[t].pc \in CalmPcs
    BY <1>1, <1>2, <1>6 DEF CalmPcs
  <2>. QED BY <1>1, <2>1, Calm DEF Inside
<1>. QED BY <1>1, <1>6, <1>9, <1>10, QuietStep

LEMMA CondWokenStep ==
  ASSUME Base, ExclInv, NEW t \in Threads, CondWoken(t)
  PROVE  Base' /\ ExclInv'
<1>. DEFINE r == th[t]
            s == At(r, "relock")
<1>1. /\ r \in ThreadRec /\ ThreadInv(r, mutex.kind) /\ r.pc = "cond_woken" /\ mutex.kind \in Kinds
      /\ Go(t, s) /\ cond' = [cond EXCEPT !.waiting = @ - 1]
      /\ mutex' = mutex /\ mutex'.kind = mutex.kind /\ barrier' = barrier /\ obj' = obj /\ OwnerRec(r, t, mutex)
  BY Thread DEF CondWoken, ExclInv
<1>2. r.todo # <<>> /\ Head(r.todo) \in Takes
  BY <1>1 DEF ThreadInv, CallAt, CondPcs
<1>3. s \in ThreadRec /\ s.pc = "relock" /\ s.todo = r.todo /\ s.depth = r.depth
  BY <1>1, AtRec DEF Pcs, CondPcs
<1>. HIDE DEF s
<1>4. CallAt(s.pc, Head(r.todo), mutex.kind)
  BY <1>2, <1>3 DEF CallAt, LockPcs, CondPcs
<1>5. ThreadInv(s, mutex.kind)
  BY <1>1, <1>2, <1>3, <1>4, StillMid
<1>6. ThreadsInv' /\ th'[t] = s /\ \A u \in Threads \ {t} : th'[u] = th[u]
  BY <1>1, <1>5, GoKeeps DEF Base
<1>7. CondWaiters' = CondWaiters \ {t} /\ t \in CondWaiters
  BY <1>1, <1>3, <1>6 DEF CondWaiters, InCond
<1>8. CondInv'
  <2>1. IsFiniteSet(CondWaiters) /\ cond = [waiting |-> Cardinality(CondWaiters)]
    BY WaitingNat DEF Base, CondInv
  <2>2. Cardinality(CondWaiters \ {t}) = Cardinality(CondWaiters) - 1
    BY <1>7, <2>1, FS_RemoveElement
  <2>. QED BY <1>1, <1>7, <2>1, <2>2 DEF CondInv
<1>9. Base'
  BY <1>1, <1>6, <1>8 DEF Base
<1>10. OwnerRec(th'[t], t, mutex) /\ (InsideRec(th'[t], mutex.kind) => Inside(t))
  <2>1. r.pc \in CalmPcs /\ th'[t].depth = r.depth /\ th'[t].pc \in CalmPcs
    BY <1>1, <1>3, <1>6 DEF CalmPcs
  <2>. QED BY <1>1, <1>2, <2>1, Calm DEF Inside
<1>. QED BY <1>1, <1>6, <1>9, <1>10, QuietStep

-----------------------------------------------------------------------------
(* Timeouts.                                                               *)

LEMMA TimeoutStep ==
  ASSUME Base, ExclInv, NEW t \in Threads, Timeout(t)
  PROVE  Base' /\ ExclInv'
<1>. DEFINE r == th[t]
            kind == mutex.kind
<1>1. /\ r \in ThreadRec /\ ThreadInv(r, kind) /\ kind \in Kinds /\ OwnerRec(r, t, mutex) /\ ThreadsInv
      /\ mutex' = mutex /\ cond' = cond /\ barrier' = barrier /\ barrier' \in BarrierType
      /\ r.todo \in Seq(Ops) /\ Suits(r.todo, kind)
  BY Thread DEF Timeout, ExclInv, Base, ThreadInv, ThreadRec
<1>2. ASSUME r.pc = "asleep", Op(t) = "timedlock" \/ (Op(t) = "timedtake" /\ r.next = "cond_woken"),
             Go(t, At(r, r.next)),
             \E o \in Objs : \E i \in 1 .. Len(obj[o].queue) :
               obj[o].queue[i] = t /\ obj' = [obj EXCEPT ![o].queue = RemoveAt(@, i)]
      PROVE  Base' /\ ExclInv'
  <2>1. PICK o \in Objs : \E i \in 1 .. Len(obj[o].queue) :
               obj[o].queue[i] = t /\ obj' = [obj EXCEPT ![o].queue = RemoveAt(@, i)]
    BY <1>2
  <2>2. PICK i \in 1 .. Len(obj[o].queue) :
               obj[o].queue[i] = t /\ obj' = [obj EXCEPT ![o].queue = RemoveAt(@, i)]
    BY <2>1
  <2>3. /\ ThreadsInv' /\ th'[t] = At(r, r.next) /\ \A u \in Threads \ {t} : th'[u] = th[u]
        /\ \A x \in Objs : obj'[x].count = obj[x].count
    BY <1>1, <1>2, <2>2, TimeoutKeeps
  <2>4. \A u \in Threads : InCond(th'[u]) <=> InCond(th[u])
    <3>1. InCond(At(r, r.next)) <=> InCond(r)
      BY <1>1, <1>2, WokenKeeps
    <3>. QED BY <2>3, <3>1
  <2>5. Base'
    <3>1. CondInv'
      BY <1>1, <2>4, CondKept DEF Base
    <3>. QED BY <1>1, <2>3, <3>1 DEF Base
  <2>6. ~(kind = "csect" /\ r.next = "own")
    <3>1. r.todo # <<>> /\ Op(t) = Head(r.todo)
      BY <1>1, <1>2 DEF ThreadInv, Op
    <3>2. kind = "csect" => Head(r.todo) # "timedlock"
      BY <1>1, <3>1, SuitsTail
    <3>. QED BY <1>2, <3>1, <3>2
  <2>7. OwnerRec(th'[t], t, mutex) /\ (InsideRec(th'[t], kind) => Inside(t))
    <3>1. /\ OwnerRec(At(r, r.next), t, mutex)
          /\ InsideRec(At(r, r.next), kind) => InsideRec(r, kind) \/ (kind = "csect" /\ r.next = "own")
      BY <1>1, <1>2, WokenExcl
    <3>. QED BY <2>3, <2>6, <3>1 DEF Inside
  <2>8. "event" \in Objs
    BY DEF Objs
  <2>. QED BY <1>1, <2>3, <2>5, <2>7, <2>8, QuietStep
<1>3. ASSUME r.pc = "sleep", Op(t) = "timedlock", Go(t, GivesUp(r)), UNCHANGED obj
      PROVE  Base' /\ ExclInv'
  <2>. DEFINE s == GivesUp(r)
  <2>1. s \in ThreadRec /\ s.pc = "ready" /\ s.todo = <<>> /\ s.depth = r.depth
    BY <1>1, GivesUpRec
  <2>2. Go(t, s) /\ UNCHANGED <<mutex, cond, obj>> /\ r.pc # "asleep" /\ kind # "csect"
    BY <1>1, <1>3 DEF ThreadInv, CallAt
  <2>. HIDE DEF s
  <2>3. Suits(s.todo, kind) /\ Disciplined(s.todo, s.depth > 0)
    BY <2>1 DEF Suits, Disciplined
  <2>4. ThreadInv(s, kind)
    BY <1>1, <2>1, <2>3, ReadyInv
  <2>5. (InCond(s) <=> InCond(r)) /\ (InsideRec(s, kind) => Inside(t)) /\ OwnerRec(s, t, mutex)
    BY <1>1, <1>3, <2>1, <2>2 DEF InCond, InsideRec, Inside, OwnerRec
  <2>. QED BY <1>1, <2>2, <2>4, <2>5, GoQuiet
<1>4. ASSUME r.pc = "cond_sleep", Go(t, At(r, "cond_woken")), UNCHANGED obj
      PROVE  Base' /\ ExclInv'
  <2>. DEFINE s == At(r, "cond_woken")
  <2>1. s \in ThreadRec /\ s.pc = "cond_woken" /\ s.todo = r.todo /\ s.depth = r.depth
    BY <1>1, AtRec DEF Pcs, CondPcs
  <2>2. Go(t, s) /\ UNCHANGED <<mutex, cond, obj>> /\ r.pc # "asleep" /\ r.pc # "set"
    BY <1>1, <1>4
  <2>. HIDE DEF s
  <2>3. r.todo # <<>> /\ Head(r.todo) \in Takes
    BY <1>1, <1>4 DEF ThreadInv, CallAt, CondPcs
  <2>4. CallAt(s.pc, Head(r.todo), kind)
    BY <2>1, <2>3 DEF CallAt, LockPcs, CondPcs
  <2>5. ThreadInv(s, kind)
    BY <1>1, <2>1, <2>2, <2>3, <2>4, StillMid
  <2>6. InCond(s) <=> InCond(r)
    BY <1>4, <2>1 DEF InCond
  <2>7. OwnerRec(s, t, mutex) /\ (InsideRec(s, kind) => Inside(t))
    <3>1. r.pc \in CalmPcs /\ s.pc \in CalmPcs
      BY <1>4, <2>1 DEF CalmPcs
    <3>. QED BY <1>1, <2>1, <2>3, <3>1, Calm DEF Inside
  <2>. QED BY <1>1, <2>2, <2>5, <2>6, <2>7, GoQuiet
<1>. QED BY <1>2, <1>3, <1>4 DEF Timeout

-----------------------------------------------------------------------------
(* The theorem.                                                            *)

LEMMA InitInv ==
  ASSUME ProgramsDisciplined, Init
  PROVE  Base /\ ExclInv
<1>1. PICK c \in Scenarios :
        /\ mutex   = IF c.kind = "csect" THEN mkcs ELSE pthread_mutex_init(c.kind)
        /\ cond    = pthread_cond_init
        /\ barrier = pthread_barrier_init(c.height)
        /\ obj     = [o \in Objs |-> [count |-> 0, queue |-> <<>>]]
        /\ th      = [t \in Threads |->
                        [todo |-> c.prog[t], pc |-> "ready", next |-> "ready", depth |-> 0,
                         n |-> 0, step |-> 0, entered |-> 0, left |-> 0, serial |-> {}]]
  BY DEF Init
<1>2. /\ c.kind \in Kinds /\ c.prog \in [Threads -> Seq(Ops)] /\ c.height \in Nat \ {0}
      /\ c.kind # "normal" => \A t \in Threads : Takes \cap ToSet(c.prog[t]) = {}
      /\ c.kind = "csect" => \A t \in Threads : {"timedlock", "trylock"} \cap ToSet(c.prog[t]) = {}
  BY PthreadAssumption
<1>3. /\ mutex \in MutexType /\ mutex.kind = c.kind /\ barrier \in BarrierType
      /\ mutex.owner = NOHANDLE /\ mutex.recursion = 0 /\ Free
      /\ c.kind = "csect" => mutex.lock = -1
  BY <1>1, <1>2 DEF MutexType, BarrierType, mkcs, pthread_mutex_init, pthread_barrier_init, Free, Kinds
<1>4. ASSUME NEW t \in Threads
      PROVE  /\ ThreadInv(th[t], c.kind) /\ th[t].depth = 0 /\ th[t].pc = "ready"
  <2>1. th[t].todo = c.prog[t] /\ th[t].pc = "ready" /\ th[t].depth = 0 /\ c.prog[t] \in Seq(Ops)
    BY <1>1, <1>2
  <2>2. th[t] \in ThreadRec
    BY <1>1, <2>1 DEF ThreadRec, Pcs
  <2>3. \A i \in 1 .. Len(c.prog[t]) : c.prog[t][i] \in ToSet(c.prog[t])
    BY <2>1 DEF ToSet
  <2>4. Suits(th[t].todo, c.kind)
    BY <1>2, <2>1, <2>3 DEF Suits
  <2>5. c.kind = "normal" => Disciplined(th[t].todo, th[t].depth > 0)
    BY <2>1, SMTT(30) DEF ProgramsDisciplined, Disciplined
  <2>. QED BY <1>2, <2>1, <2>2, <2>4, <2>5, ReadyInv
<1>5. ThreadsInv
  <2>1. obj \in [Objs -> [count : Nat, queue : Seq(Threads)]]
    <3>1. <<>> \in Seq(Threads)
      OBVIOUS
    <3>. QED BY <1>1, <3>1
  <2>2. \A o \in Objs : QueueInv(o)
    <3>1. \A o \in Objs : Len(obj[o].queue) = 0
      BY <1>1
    <3>. QED BY <3>1 DEF QueueInv
  <2>. QED BY <1>1, <1>3, <1>4, <2>1, <2>2 DEF ThreadsInv
<1>6. CondInv
  <2>1. CondWaiters = {}
    BY <1>4 DEF CondWaiters, InCond
  <2>. QED BY <1>1, <2>1, FS_EmptySet DEF CondInv, pthread_cond_init
<1>7. ExclInv
  <2>1. \A t \in Threads : ~Inside(t)
    BY <1>4 DEF Inside, InsideRec
  <2>2. \A t \in Threads : OwnerRec(th[t], t, mutex)
    BY <1>3, <1>4, PthreadAssumption DEF OwnerRec
  <2>3. obj["event"].count = 0
    BY <1>1 DEF Objs
  <2>. QED BY <1>3, <2>1, <2>2, <2>3 DEF ExclInv
<1>. QED BY <1>3, <1>5, <1>6, <1>7 DEF Base

LEMMA StepInv ==
  ASSUME Base, ExclInv, [Next]_vars
  PROVE  Base' /\ ExclInv'
<1>1. CASE UNCHANGED vars
  BY <1>1 DEF vars, Base, ExclInv, ThreadsInv, CondInv, QueueInv, CondWaiters, Inside, Free
<1>2. ASSUME NEW t \in Threads, Step(t) \/ Timeout(t)
      PROVE  Base' /\ ExclInv'
  <2>1. CASE pthread_mutex_lock(t) \/ EDeadlk(t) \/ LockAgain(t) \/ LockSleep(t) \/ OwnEarly(t) \/ Own(t)
    BY <2>1, MutexLock, EDeadlkStep, LockAgainStep, LockSleepStep, OwnEarlyStep, OwnStep
  <2>2. CASE pthread_mutex_trylock(t) \/ pthread_mutex_unlock(t) \/ UnlockFree(t) \/ SetEvent(t)
    BY <2>2, TrylockStep, MutexUnlock, UnlockFreeStep, SetEventStep
  <2>3. CASE enter(t) \/ EnterAdd(t) \/ EnterWait(t) \/ leave(t) \/ LeaveSub(t)
    BY <2>3, EnterStep, EnterAddStep, EnterWaitStep, LeaveStep, LeaveSubStep
  <2>4. CASE \/ Put(t) \/ Take(t) \/ pthread_cond_wait(t) \/ CondSleep(t) \/ CondWoken(t)
             \/ pthread_cond_signal(t) \/ pthread_cond_broadcast(t) \/ CondPost(t)
    BY <2>4, PutTakeStep, CondWaitStep, CondSleepStep, CondWokenStep, SignalStep, BroadcastStep, CondPostStep
  <2>5. CASE \/ pthread_barrier_wait(t) \/ BarrierArrive(t) \/ BarrierReset(t) \/ BarrierBreech(t)
             \/ BarrierStand(t) \/ BarrierAdvance(t)
    BY <2>5, BarrierSteps, BarrierBreechStep, BarrierStandStep
  <2>6. CASE Timeout(t)
    BY <2>6, TimeoutStep
  <2>. QED BY <1>2, <2>1, <2>2, <2>3, <2>4, <2>5, <2>6 DEF Step
<1>. QED BY <1>1, <1>2 DEF Next

\* Mutual exclusion: however the threads are preempted, woken and timed out, at
\* most one of them is between a lock of pthread_mutex_lock, pthread_mutex_trylock or
\* enter that succeeded and the unlock that ends it.  Normal mutexes need
\* programs that unlock only what they have locked; mutexes that check for
\* errors and critical sections need nothing.
THEOREM LocksExclude ==
  ASSUME ProgramsDisciplined
  PROVE  Spec => []MutualExclusion
<1>1. Init => Base /\ ExclInv
  BY InitInv
<1>2. (Base /\ ExclInv) /\ [Next]_vars => (Base /\ ExclInv)'
  BY StepInv
<1>3. Base /\ ExclInv => MutualExclusion
  BY DEF ExclInv, Inside, InsideRec, MutualExclusion
<1>. QED BY <1>1, <1>2, <1>3, PTL DEF Spec

\* What pthread_cond_signal and pthread_cond_broadcast read is exact: waiting is
\* the number of threads between the increment and the decrement in
\* pthread_cond_wait, whoever is woken or timed out in between.
THEOREM WaitingCounted ==
  ASSUME ProgramsDisciplined
  PROVE  Spec => [](cond.waiting = Cardinality(CondWaiters))
<1>1. Init => Base /\ ExclInv
  BY InitInv
<1>2. (Base /\ ExclInv) /\ [Next]_vars => (Base /\ ExclInv)'
  BY StepInv
<1>3. Base /\ ExclInv => cond.waiting = Cardinality(CondWaiters)
  BY DEF Base, CondInv
<1>. QED BY <1>1, <1>2, <1>3, PTL DEF Spec
=============================================================================
