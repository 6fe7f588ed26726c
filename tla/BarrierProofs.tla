--------------------------- MODULE BarrierProofs ---------------------------
(***************************************************************************)
(* The barriers of Pthread: no thread leaves a round before all have come   *)
(* to it, and one thread of each round is told that it is the serial one,   *)
(* for any number of threads and rounds.                                    *)
(*                                                                         *)
(* U are the threads that use the barrier, L is the number of rounds that   *)
(* it has been moved on.                                                    *)
(***************************************************************************)
EXTENDS PthreadProofs

InBarrier(r) == r.pc \in BarrierPcs \/ (r.pc = "asleep" /\ r.next = "advance")

NoBarrier(p) == \A i \in 1 .. Len(p) : p[i] # "barrier"

Stays == {"stand", "asleep"}

\* A thread that does not use the barrier.
Stranger(r) ==
  /\ ~InBarrier(r) /\ NoBarrier(r.todo)
  /\ r.entered = 0 /\ r.left = 0 /\ r.serial = {}

\* Between two calls; in the round that is going on, when the barrier's step is
\* s; and still in the round before it, which may be left.
Out(r, L) == ~InBarrier(r) /\ r.entered = L /\ r.left = L
In(r, L, s) == InBarrier(r) /\ r.entered = L + 1 /\ r.left = L /\ r.step = s
Tardy(r, L, s) ==
  /\ InBarrier(r) /\ r.pc \in Stays \cup {"advance"}
  /\ r.entered = L /\ r.left + 1 = L /\ r.step # s

\* Those of the round that is going on whose decrement of curr_height is done, and
\* those of the nth round that have to get a unit of its semaphore.
Arrived(U, L) == {u \in U : th[u].entered = L + 1 /\ th[u].pc # "arrive"}
Waiters(U, n) == {u \in U : th[u].entered = n /\ InBarrier(th[u]) /\ th[u].pc \in Stays}

\* The semaphores of the round that is going on and of the one before it.
ThisRound == Breeched(barrier.step)
LastRound == Breeched(1 - barrier.step)

Gathering(U, L) ==
  /\ \A u \in Arrived(U, L) : th[u].pc \in Stays
  /\ barrier.curr_height > 0
  /\ barrier.curr_height + Cardinality(Arrived(U, L)) = barrier.init_height
  /\ obj[ThisRound].count = 0

\* w has arrived last and lets the others go.
Assembled(U, L, w) ==
  /\ w \in U /\ Cardinality(U) = barrier.init_height
  /\ \A u \in U : th[u].entered = L + 1
  /\ \/ th[w].pc = "reset"
     \/ th[w].pc = "breech" /\ barrier.curr_height = barrier.init_height
  /\ \A u \in U \ {w} : th[u].pc \in Stays
  /\ obj[ThisRound].count = 0

\* Nobody has moved the barrier on yet.
Opened(U, L) ==
  /\ Cardinality(U) = barrier.init_height
  /\ \A u \in U : th[u].entered = L + 1 /\ th[u].pc \in Stays \cup {"advance"}
  /\ barrier.curr_height = barrier.init_height
  /\ obj[ThisRound].count = Cardinality(Waiters(U, L + 1))

SerialInv(L) ==
  /\ \A t \in Threads : th[t].serial \subseteq 1 .. th[t].left
  /\ \A r \in 1 .. L : \E s \in Threads : \A u \in Threads : r \in th[u].serial <=> u = s

UsersInv(U, L) ==
  /\ U \subseteq Threads /\ Cardinality(U) <= barrier.init_height
  /\ L > 0 => Cardinality(U) = barrier.init_height
  /\ \A t \in Threads \ U : Stranger(th[t])
  /\ \A u \in U : Out(th[u], L) \/ In(th[u], L, barrier.step) \/ Tardy(th[u], L, barrier.step)
  /\ obj[LastRound].count = Cardinality(Waiters(U, L))
  /\ SerialInv(L)

RoundInv(U, L) ==
  /\ UsersInv(U, L)
  /\ Gathering(U, L) \/ (\E w \in U : Assembled(U, L, w)) \/ Opened(U, L)

BarrierInv == \E U \in SUBSET Threads, L \in Nat : RoundInv(U, L)

\* No more threads use the barrier than it is high.
BarrierUsers(c) == {t \in Threads : \E i \in 1 .. Len(c.prog[t]) : c.prog[t][i] = "barrier"}
BarriersFit == \A c \in Scenarios : Cardinality(BarrierUsers(c)) <= c.height

-----------------------------------------------------------------------------
(* Steps that have nothing to do with the barrier.                         *)

\* The thread that was as r and is as s has not moved in the barrier.
SameBarrier(r, s) ==
  /\ s.entered = r.entered /\ s.left = r.left /\ s.serial = r.serial /\ s.step = r.step
  /\ InBarrier(s) <=> InBarrier(r)
  /\ InBarrier(r) => s.pc = r.pc
  /\ NoBarrier(r.todo) => NoBarrier(s.todo)

Aside ==
  /\ barrier' = barrier
  /\ obj'["b0"].count = obj["b0"].count /\ obj'["b1"].count = obj["b1"].count
  /\ \A u \in Threads : SameBarrier(th[u], th'[u])

\* What the operations on a thread's record leave alone.
Quiet(r, s) ==
  /\ s.entered = r.entered /\ s.left = r.left /\ s.serial = r.serial /\ s.step = r.step
  /\ s.todo \in {r.todo, Tail(r.todo), <<>>}

\* Such a record has the same place at the barrier, if it is not inside it.
LEMMA QuietSame ==
  ASSUME NEW r \in ThreadRec, r.todo # <<>>, NEW s, Quiet(r, s), ~InBarrier(r), ~InBarrier(s)
  PROVE  SameBarrier(r, s)
<1>1. r.todo \in Seq(Ops)
  BY DEF ThreadRec
<1>2. ASSUME NoBarrier(r.todo) PROVE NoBarrier(Tail(r.todo)) /\ NoBarrier(<<>>)
  <2>1. /\ Len(r.todo) \in Nat /\ Len(Tail(r.todo)) = Len(r.todo) - 1
        /\ \A i \in 1 .. Len(Tail(r.todo)) : Tail(r.todo)[i] = r.todo[i + 1] /\ i + 1 \in 1 .. Len(r.todo)
    BY <1>1
  <2>2. Len(<<>>) = 0
    OBVIOUS
  <2>. QED BY <1>2, <2>1, <2>2 DEF NoBarrier
<1>. QED BY <1>2 DEF SameBarrier, Quiet

\* They leave the barrier's fields alone, and where they lead.
LEMMA QuietRecs ==
  ASSUME NEW r \in ThreadRec, NEW pc
  PROVE  /\ Quiet(r, At(r, pc)) /\ At(r, pc).pc = pc
         /\ Quiet(r, At(Left(r), pc)) /\ At(Left(r), pc).pc = pc
         /\ Quiet(r, Returns(r)) /\ Returns(r).pc = "ready"
         /\ Quiet(r, GivesUp(r)) /\ GivesUp(r).pc = "ready"
         /\ Quiet(r, Locked(r)) /\ Locked(r).pc = "ready"
         /\ Quiet(r, Unlocked(r)) /\ Unlocked(r).pc \in {"ready", "cond_sleep"}
         /\ Quiet(r, Unlocked(Left(r))) /\ Unlocked(Left(r)).pc \in {"ready", "cond_sleep"}
<1>1. /\ Quiet(r, At(r, pc)) /\ At(r, pc).pc = pc
      /\ Quiet(r, At(Left(r), pc)) /\ At(Left(r), pc).pc = pc
  BY DEF ThreadRec, Quiet, At, Left
<1>2. /\ Quiet(r, Returns(r)) /\ Returns(r).pc = "ready"
      /\ Quiet(r, GivesUp(r)) /\ GivesUp(r).pc = "ready"
  BY DEF ThreadRec, Quiet, Returns, GivesUp
<1>3. Quiet(r, Locked(r)) /\ Locked(r).pc = "ready"
  BY DEF ThreadRec, Quiet, Locked, At, Returns
<1>4. Quiet(r, Unlocked(r)) /\ Unlocked(r).pc \in {"ready", "cond_sleep"}
  BY DEF ThreadRec, Quiet, Unlocked, At, Returns
<1>5. Quiet(r, Unlocked(Left(r))) /\ Unlocked(Left(r)).pc \in {"ready", "cond_sleep"}
  BY DEF ThreadRec, Quiet, Unlocked, Left, At, Returns
<1>. QED BY <1>1, <1>2, <1>3, <1>4, <1>5

\* Only t moves, outside the barrier.
LEMMA GoAside ==
  ASSUME Base, NEW t \in Threads, NEW s, Go(t, s), UNCHANGED <<barrier, obj>>,
         th[t].todo # <<>>, th[t].pc \notin BarrierPcs \cup {"asleep"},
         Quiet(th[t], s), s.pc \notin BarrierPcs \cup {"asleep"}
  PROVE  Aside
<1>1. th'[t] = s /\ \A u \in Threads \ {t} : th'[u] = th[u]
  BY DEF Base, ThreadsInv, Go
<1>2. SameBarrier(th[t], s)
  BY Thread, QuietSame DEF InBarrier
<1>3. ASSUME NEW u \in Threads PROVE SameBarrier(th[u], th'[u])
  BY <1>1, <1>2 DEF SameBarrier
<1>. QED BY <1>3 DEF Aside

MutexGoes(t) ==
  \/ pthread_mutex_lock(t) \/ EDeadlk(t) \/ LockAgain(t) \/ OwnEarly(t) \/ Own(t)
  \/ pthread_mutex_trylock(t) \/ pthread_mutex_unlock(t) \/ UnlockFree(t)

SectionGoes(t) == enter(t) \/ EnterAdd(t) \/ leave(t) \/ LeaveSub(t)

CondGoes(t) ==
  \/ Put(t) \/ Take(t) \/ pthread_cond_wait(t) \/ CondWoken(t)
  \/ pthread_cond_signal(t) \/ pthread_cond_broadcast(t)

\* A thread inside a call has something to do.
LEMMA Busy ==
  ASSUME Base, NEW t \in Threads
  PROVE  /\ th[t].pc # "ready" => th[t].todo # <<>>
         /\ \A ops \in SUBSET Ops : Calls(t, ops) => th[t].pc = "ready" /\ th[t].todo # <<>>
<1>1. th[t].pc # "ready" => th[t].todo # <<>>
  BY Thread DEF ThreadInv
<1>2. \A ops \in SUBSET Ops : Calls(t, ops) => th[t].pc = "ready" /\ th[t].todo # <<>>
  <2>1. "none" \notin Ops
    BY DEF Ops, Takes
  <2>. QED BY <2>1 DEF Calls, Op
<1>. QED BY <1>1, <1>2

\* The steps of a mutex that are no waits and wake nobody.
LEMMA MutexAside ==
  ASSUME Base, NEW t \in Threads, MutexGoes(t)
  PROVE  Aside
<1>. DEFINE r == th[t]
<1>0. r \in ThreadRec
  BY Thread
<1>1. {"lock", "timedlock"} \in SUBSET Ops /\ {"trylock"} \in SUBSET Ops /\ {"unlock"} \in SUBSET Ops
  BY DEF Ops
<1>2. /\ r.todo # <<>> /\ UNCHANGED <<barrier, obj>>
      /\ r.pc \in {"ready", "relock", "held", "again", "own_early", "own", "cond_unlock", "free"}
  BY <1>1, Busy DEF MutexGoes, pthread_mutex_lock, EDeadlk, LockAgain, OwnEarly, Own, pthread_mutex_trylock,
                    pthread_mutex_unlock, UnlockFree
<1>3. /\ r.pc \notin BarrierPcs \cup {"asleep"}
      /\ {"ready", "again", "own", "held", "sleep", "free", "set", "cond_sleep"} \cap (BarrierPcs \cup {"asleep"}) = {}
  BY <1>2 DEF BarrierPcs
<1>4. PICK s : /\ Go(t, s)
               /\ \/ s \in {Locked(r), Returns(r), GivesUp(r), Unlocked(r), Unlocked(Left(r)),
                             At(Left(r), "free"), At(Left(r), "set")}
                  \/ \E pc \in {"again", "own", "held", "sleep", "set"} : s = At(r, pc)
  BY DEF MutexGoes, pthread_mutex_lock, EDeadlk, LockAgain, OwnEarly, Own, pthread_mutex_trylock,
         pthread_mutex_unlock, UnlockFree, Exchange0
<1>5. Quiet(r, s) /\ s.pc \in {"ready", "again", "own", "held", "sleep", "free", "set", "cond_sleep"}
  BY <1>0, <1>4, QuietRecs
<1>. QED BY <1>2, <1>3, <1>4, <1>5, GoAside

\* The same for critical sections.
LEMMA SectionAside ==
  ASSUME Base, NEW t \in Threads, SectionGoes(t)
  PROVE  Aside
<1>. DEFINE r == th[t]
<1>0. r \in ThreadRec
  BY Thread
<1>1. {"lock"} \in SUBSET Ops /\ {"unlock"} \in SUBSET Ops
  BY DEF Ops
<1>2. /\ r.todo # <<>> /\ UNCHANGED <<barrier, obj>>
      /\ r.pc \in {"ready", "add", "sub"}
  BY <1>1, Busy DEF SectionGoes, enter, EnterAdd, leave, LeaveSub
<1>3. /\ r.pc \notin BarrierPcs \cup {"asleep"}
      /\ {"ready", "add", "wait", "own", "sub", "set", "cond_sleep"} \cap (BarrierPcs \cup {"asleep"}) = {}
  BY <1>2 DEF BarrierPcs
<1>4. PICK s : /\ Go(t, s)
               /\ \/ s \in {Locked(r), Unlocked(r), Unlocked(Left(r)), At(Left(r), "sub")}
                  \/ \E pc \in {"add", "wait", "own", "set"} : s = At(r, pc)
  BY DEF SectionGoes, enter, EnterAdd, leave, LeaveSub
<1>5. Quiet(r, s) /\ s.pc \in {"ready", "add", "wait", "own", "sub", "set", "cond_sleep"}
  BY <1>0, <1>4, QuietRecs
<1>. QED BY <1>2, <1>3, <1>4, <1>5, GoAside

\* And for condition variables and their users.
LEMMA CondAside ==
  ASSUME Base, NEW t \in Threads, CondGoes(t)
  PROVE  Aside
<1>. DEFINE r == th[t]
            posts(n) == [r EXCEPT !.pc = "post", !.n = n]
<1>0. r \in ThreadRec
  BY Thread
<1>1. {"put"} \in SUBSET Ops /\ Takes \in SUBSET Ops /\ {"signal", "broadcast"} \in SUBSET Ops
  BY DEF Ops
<1>2. /\ r.todo # <<>> /\ UNCHANGED <<barrier, obj>>
      /\ r.pc \in {"ready", "cond_woken", "count"}
  BY <1>1, Busy DEF CondGoes, Put, Take, pthread_cond_wait, CondWoken, pthread_cond_signal, pthread_cond_broadcast
<1>3. /\ r.pc \notin BarrierPcs \cup {"asleep"}
      /\ {"ready", "cond_unlock", "relock", "count", "post"} \cap (BarrierPcs \cup {"asleep"}) = {}
  BY <1>2 DEF BarrierPcs
<1>4. PICK s : /\ Go(t, s)
               /\ \/ s \in {Returns(r), posts(1), posts(cond.waiting)}
                  \/ \E pc \in {"cond_unlock", "relock", "count"} : s = At(r, pc)
  BY DEF CondGoes, Put, Take, pthread_cond_wait, CondWoken, pthread_cond_signal, pthread_cond_broadcast
<1>5. \A n : Quiet(r, posts(n)) /\ posts(n).pc = "post"
  BY <1>0 DEF ThreadRec, Quiet
<1>. HIDE DEF posts
<1>6. Quiet(r, s) /\ s.pc \in {"ready", "cond_unlock", "relock", "count", "post"}
  BY <1>0, <1>4, <1>5, QuietRecs
<1>. QED BY <1>2, <1>3, <1>4, <1>6, GoAside

Sleeps(r, next) == [r EXCEPT !.pc = "asleep", !.next = next]

\* waitone: a unit is taken, or there is none and the thread sleeps.
LEMMA WaitShape ==
  ASSUME Base, NEW t \in Threads, NEW o \in Objs, NEW next, waitone(t, o, next)
  PROVE  /\ \A u \in Threads \ {t} : th'[u] = th[u]
         /\ \A x \in Objs \ {o} : obj'[x].count = obj[x].count
         /\ \/ /\ obj[o].count > 0 /\ obj'[o].count = obj[o].count - 1 /\ th'[t] = At(th[t], next)
            \/ /\ obj[o].count = 0 /\ obj'[o].count = 0
               /\ th'[t] = Sleeps(th[t], next)
<1>1. /\ obj \in [Objs -> [count : Nat, queue : Seq(Threads)]]
      /\ DOMAIN th = Threads /\ th = [u \in Threads |-> th[u]]
  BY DEF Base, ThreadsInv
<1>2. CASE obj[o].count > 0
  <2>1. /\ obj' = [obj EXCEPT ![o].count = @ - 1] /\ th' = [th EXCEPT ![t].pc = next]
    BY <1>2 DEF waitone
  <2>. QED BY <1>1, <1>2, <2>1 DEF At
<1>3. CASE ~(obj[o].count > 0)
  <2>1. /\ obj' = [obj EXCEPT ![o].queue = Append(@, t)]
        /\ th' = [th EXCEPT ![t].pc = "asleep", ![t].next = next]
    BY <1>3 DEF waitone
  <2>2. obj[o].count = 0
    BY <1>1, <1>3
  <2>. QED BY <1>1, <2>1, <2>2 DEF Sleeps
<1>. QED BY <1>2, <1>3

\* A thread waits for the lock's event or the condition's semaphore.
LEMMA WaitAside ==
  ASSUME Base, NEW t \in Threads, LockSleep(t) \/ EnterWait(t) \/ CondSleep(t)
  PROVE  Aside
<1>. DEFINE r == th[t]
<1>0. r \in ThreadRec /\ r.todo # <<>> /\ r.pc \notin BarrierPcs \cup {"asleep"} /\ barrier' = barrier
  BY Thread, Busy DEF LockSleep, EnterWait, CondSleep, BarrierPcs
<1>1. PICK o \in {"event", "semaphore"}, next \in {"again", "own_early", "own", "cond_woken"} : waitone(t, o, next)
  BY DEF LockSleep, EnterWait, CondSleep
<1>2. o \in Objs /\ {"b0", "b1"} \subseteq Objs \ {o} /\ next \notin BarrierPcs \cup {"asleep"}
  BY <1>1 DEF Objs, BarrierPcs
<1>3. /\ \A u \in Threads \ {t} : th'[u] = th[u]
      /\ \A x \in Objs \ {o} : obj'[x].count = obj[x].count
      /\ th'[t] \in {At(r, next), Sleeps(r, next)}
  BY <1>1, <1>2, WaitShape
<1>4. Quiet(r, Sleeps(r, next)) /\ Sleeps(r, next).pc = "asleep" /\ Sleeps(r, next).next = next
  BY <1>0 DEF ThreadRec, Quiet, Sleeps
<1>5. Quiet(r, th'[t]) /\ ~InBarrier(th'[t]) /\ ~InBarrier(r)
  BY <1>0, <1>2, <1>3, <1>4, QuietRecs DEF InBarrier, BarrierPcs
<1>6. SameBarrier(r, th'[t])
  BY <1>0, <1>5, QuietSame
<1>7. \A u \in Threads : SameBarrier(th[u], th'[u])
  BY <1>3, <1>6 DEF SameBarrier
<1>. QED BY <1>0, <1>2, <1>3, <1>7 DEF Aside

\* A thread that does not sleep at the barrier wakes up.
LEMMA WokenAside ==
  ASSUME Base, NEW t \in Threads, th[t].pc = "asleep", th[t].next # "advance",
         th'[t] = At(th[t], th[t].next)
  PROVE  SameBarrier(th[t], th'[t])
<1>1. /\ th[t] \in ThreadRec /\ th[t].todo # <<>>
      /\ th[t].next \in {"again", "own_early", "own", "cond_woken"}
  BY Thread DEF ThreadInv
<1>2. Quiet(th[t], th'[t]) /\ th'[t].pc = th[t].next
  BY <1>1, QuietRecs
<1>3. ~InBarrier(th[t]) /\ ~InBarrier(th'[t])
  BY <1>1, <1>2 DEF InBarrier, BarrierPcs
<1>. QED BY <1>1, <1>2, <1>3, QuietSame

\* The event is set or the condition's semaphore released: nobody who sleeps at the
\* barrier wakes up.
LEMMA ReleaseAside ==
  ASSUME Base, NEW t \in Threads, SetEvent(t) \/ CondPost(t)
  PROVE  Aside
<1>. DEFINE r == th[t]
            posted == [Returns(r) EXCEPT !.n = 0]
<1>0. r \in ThreadRec /\ r.todo # <<>> /\ r.pc \in {"set", "post"} /\ barrier' = barrier /\ ThreadsInv
  BY Thread, Busy DEF SetEvent, CondPost, Base
<1>1. PICK o \in {"event", "semaphore"}, n \in Nat, s \in {Unlocked(r), posted} : Release(t, s, o, n)
  BY <1>0 DEF SetEvent, CondPost, eset, semrel, ThreadRec
<1>2. o \in Objs /\ {"b0", "b1"} \subseteq Objs \ {o}
  BY <1>1 DEF Objs
<1>3. Quiet(r, s) /\ s.pc \in {"ready", "cond_sleep"}
  <2>1. Quiet(r, posted) /\ posted.pc = "ready"
    BY <1>0 DEF Quiet, Returns, ThreadRec
  <2>. HIDE DEF posted
  <2>. QED BY <1>0, <1>1, <2>1, QuietRecs
<1>4. PICK k \in 0 .. Len(obj[o].queue) : Released(t, s, o, n, k)
  BY <1>0, <1>1, <1>2, ReleaseShape
<1>5. /\ th'[t] = s
      /\ \A x \in Objs \ {o} : obj'[x] = obj[x]
      /\ \A i \in 1 .. k : th'[obj[o].queue[i]] = At(th[obj[o].queue[i]], th[obj[o].queue[i]].next)
      /\ \A u \in Threads \ {t} : (\A i \in 1 .. k : obj[o].queue[i] # u) => th'[u] = th[u]
  BY <1>4 DEF Released
<1>6. ASSUME NEW u \in Threads PROVE SameBarrier(th[u], th'[u])
  <2>1. CASE u = t
    <3>1. ~InBarrier(r) /\ ~InBarrier(s)
      BY <1>0, <1>3 DEF InBarrier, BarrierPcs
    <3>. QED BY <1>0, <1>3, <1>5, <2>1, <3>1, QuietSame
  <2>2. CASE th'[u] = th[u]
    BY <2>2 DEF SameBarrier
  <2>3. ASSUME NEW i \in 1 .. k, obj[o].queue[i] = u PROVE SameBarrier(th[u], th'[u])
    <3>1. obj[o].queue \in Seq(Threads) /\ i \in 1 .. Len(obj[o].queue)
      BY <1>0, <1>2, <1>4 DEF ThreadsInv
    <3>2. th[u].pc = "asleep" /\ WaitsFor(th[u]) = o
      BY <1>0, <1>2, <2>3, <3>1 DEF ThreadsInv, QueueInv
    <3>3. th[u].next # "advance"
      BY <1>1, <3>2 DEF WaitsFor, Breeched
    <3>. QED BY <1>5, <2>3, <3>2, <3>3, WokenAside
  <2>. QED BY <1>5, <2>1, <2>2, <2>3
<1>. QED BY <1>0, <1>2, <1>5, <1>6 DEF Aside

\* A timeout expires; waits at the barrier have none.
LEMMA TimeoutAside ==
  ASSUME Base, NEW t \in Threads, Timeout(t)
  PROVE  Aside
<1>. DEFINE r == th[t]
<1>0. r \in ThreadRec /\ ThreadInv(r, mutex.kind) /\ barrier' = barrier
      /\ mutex' = mutex /\ mutex.kind \in Kinds /\ ThreadsInv
  BY Thread DEF Timeout, Base
<1>1. ASSUME r.pc = "asleep", Op(t) \in {"timedlock", "timedtake"}, Go(t, At(r, r.next)),
             \E o \in Objs : \E i \in 1 .. Len(obj[o].queue) :
               obj[o].queue[i] = t /\ obj' = [obj EXCEPT ![o].queue = RemoveAt(@, i)]
      PROVE  Aside
  <2>1. PICK o \in Objs : \E i \in 1 .. Len(obj[o].queue) :
               obj[o].queue[i] = t /\ obj' = [obj EXCEPT ![o].queue = RemoveAt(@, i)]
    BY <1>1
  <2>2. PICK i \in 1 .. Len(obj[o].queue) :
               obj[o].queue[i] = t /\ obj' = [obj EXCEPT ![o].queue = RemoveAt(@, i)]
    BY <2>1
  <2>3. /\ th'[t] = At(r, r.next) /\ \A u \in Threads \ {t} : th'[u] = th[u]
        /\ \A x \in Objs : obj'[x].count = obj[x].count
    BY <1>0, <1>1, <2>2, TimeoutKeeps
  <2>4. r.next # "advance"
    BY <1>0, <1>1 DEF ThreadInv, CallAt, Op
  <2>5. SameBarrier(r, th'[t])
    BY <1>1, <2>3, <2>4, WokenAside
  <2>6. \A u \in Threads : SameBarrier(th[u], th'[u])
    BY <2>3, <2>5 DEF SameBarrier
  <2>7. {"b0", "b1"} \subseteq Objs
    BY DEF Objs
  <2>. QED BY <1>0, <2>3, <2>6, <2>7 DEF Aside
<1>2. ASSUME r.pc \in {"sleep", "cond_sleep"}, NEW s \in {GivesUp(r), At(r, "cond_woken")}, Go(t, s), UNCHANGED obj
      PROVE  Aside
  <2>1. r.todo # <<>> /\ r.pc \notin BarrierPcs \cup {"asleep"} /\ {"ready", "cond_woken"} \cap (BarrierPcs \cup {"asleep"}) = {}
    BY <1>2, Busy DEF BarrierPcs
  <2>2. Quiet(r, s) /\ s.pc \in {"ready", "cond_woken"}
    BY <1>0, <1>2, QuietRecs
  <2>. QED BY <1>0, <1>2, <2>1, <2>2, GoAside
<1>. QED BY <1>1, <1>2 DEF Timeout

\* Every step but those of the barrier.
LEMMA OtherSteps ==
  ASSUME Base, NEW t \in Threads, Step(t) \/ Timeout(t)
  PROVE  \/ Aside
         \/ pthread_barrier_wait(t) \/ BarrierArrive(t) \/ BarrierReset(t) \/ BarrierBreech(t)
         \/ BarrierStand(t) \/ BarrierAdvance(t)
  BY MutexAside, SectionAside, CondAside, WaitAside, ReleaseAside, TimeoutAside
     DEF Step, MutexGoes, SectionGoes, CondGoes

\* They keep the invariant.
LEMMA AsideRound ==
  ASSUME NEW U, NEW L, RoundInv(U, L), L \in Nat, Aside, Base
  PROVE  RoundInv(U, L)'
<1>1. /\ U \subseteq Threads /\ barrier' = barrier /\ barrier.step \in {0, 1}
      /\ \A u \in Threads : SameBarrier(th[u], th'[u])
      /\ \A u \in Threads : th[u].entered \in Nat /\ th[u].left \in Nat
  BY Thread DEF RoundInv, UsersInv, Aside, Base, BarrierType, ThreadRec
<1>2. /\ ThisRound' = ThisRound /\ LastRound' = LastRound
      /\ obj'[ThisRound].count = obj[ThisRound].count /\ obj'[LastRound].count = obj[LastRound].count
  BY <1>1 DEF ThisRound, LastRound, Breeched, Aside
<1>3. \A n : Waiters(U, n)' = Waiters(U, n)
  BY <1>1 DEF Waiters, SameBarrier
<1>4. \A u \in U : th[u].entered = L + 1 => InBarrier(th[u])
  BY <1>1 DEF RoundInv, UsersInv, Out, In, Tardy
<1>5. Arrived(U, L)' = Arrived(U, L)
  BY <1>1, <1>4 DEF Arrived, SameBarrier
<1>6. SerialInv(L)'
  BY <1>1 DEF RoundInv, UsersInv, SerialInv, SameBarrier
<1>7. UsersInv(U, L)'
  <2>1. \A t \in Threads \ U : Stranger(th'[t])
    BY <1>1 DEF RoundInv, UsersInv, SameBarrier, Stranger
  <2>2. \A u \in U : Out(th'[u], L) \/ In(th'[u], L, barrier.step) \/ Tardy(th'[u], L, barrier.step)
    BY <1>1 DEF RoundInv, UsersInv, SameBarrier, Out, In, Tardy
  <2>. QED BY <1>1, <1>2, <1>3, <1>6, <2>1, <2>2 DEF RoundInv, UsersInv
<1>8. Gathering(U, L) => Gathering(U, L)'
  <2>1. \A u \in Arrived(U, L) : th'[u].pc = th[u].pc
    BY <1>1, <1>4 DEF Arrived, SameBarrier
  <2>. QED BY <1>1, <1>2, <1>5, <2>1 DEF Gathering
<1>9. ASSUME NEW w \in U, Assembled(U, L, w) PROVE Assembled(U, L, w)'
  <2>1. \A u \in U : th'[u].entered = th[u].entered /\ th'[u].pc = th[u].pc
    BY <1>1, <1>4, <1>9 DEF Assembled, SameBarrier
  <2>. QED BY <1>1, <1>2, <1>9, <2>1 DEF Assembled
<1>10. Opened(U, L) => Opened(U, L)'
  <2>1. Opened(U, L) => \A u \in U : th'[u].entered = th[u].entered /\ th'[u].pc = th[u].pc
    BY <1>1, <1>4 DEF Opened, SameBarrier
  <2>. QED BY <1>1, <1>2, <1>3, <2>1 DEF Opened
<1>. QED BY <1>7, <1>8, <1>9, <1>10 DEF RoundInv

-----------------------------------------------------------------------------
(* The steps of the barrier.                                               *)

\* Types and finiteness.
LEMMA RoundFacts ==
  ASSUME Base, NEW U, NEW L \in Nat, RoundInv(U, L)
  PROVE  /\ U \subseteq Threads /\ IsFiniteSet(U) /\ Cardinality(U) \in Nat
         /\ IsFiniteSet(Arrived(U, L)) /\ Cardinality(Arrived(U, L)) \in Nat
         /\ \A n : IsFiniteSet(Waiters(U, n)) /\ Cardinality(Waiters(U, n)) \in Nat
         /\ barrier.curr_height \in Int /\ barrier.init_height \in Nat \ {0} /\ barrier.step \in {0, 1}
         /\ ThisRound \in Objs /\ LastRound \in Objs /\ ThisRound # LastRound
<1>1. U \in SUBSET Threads /\ IsFiniteSet(Threads)
  BY PthreadAssumption DEF RoundInv, UsersInv
<1>2. IsFiniteSet(U)
  BY <1>1, FS_Subset
<1>3. Arrived(U, L) \in SUBSET U /\ \A n : Waiters(U, n) \in SUBSET U
  BY DEF Arrived, Waiters
<1>4. IsFiniteSet(Arrived(U, L)) /\ \A n : IsFiniteSet(Waiters(U, n))
  BY <1>2, <1>3, FS_Subset
<1>5. /\ Cardinality(U) \in Nat /\ Cardinality(Arrived(U, L)) \in Nat
      /\ \A n : Cardinality(Waiters(U, n)) \in Nat
  BY <1>2, <1>4, FS_CardinalityType
<1>6. barrier.curr_height \in Int /\ barrier.init_height \in Nat \ {0} /\ barrier.step \in {0, 1}
  BY DEF Base, BarrierType
<1>7. ThisRound \in Objs /\ LastRound \in Objs /\ ThisRound # LastRound
  BY <1>6 DEF ThisRound, LastRound, Breeched, Objs
<1>. QED BY <1>1, <1>2, <1>4, <1>5, <1>6, <1>7

\* Who is the serial thread of a round stays so.
LEMMA SerialKept ==
  ASSUME NEW L, SerialInv(L), \A u \in Threads : th'[u].serial = th[u].serial /\ th'[u].left = th[u].left
  PROVE  SerialInv(L)'
  BY DEF SerialInv

\* A thread at the barrier is one of its users.
LEMMA UserRec ==
  ASSUME Base, NEW U, NEW L \in Nat, RoundInv(U, L), NEW t \in Threads
  PROVE  /\ th[t] \in ThreadRec /\ th[t].entered \in Nat /\ th[t].left \in Nat /\ th[t].step \in {0, 1}
         /\ th[t].serial \subseteq 1 .. th[t].left
         /\ InBarrier(th[t]) => /\ t \in U
                                /\ In(th[t], L, barrier.step) \/ Tardy(th[t], L, barrier.step)
         /\ t \in U => \/ Out(th[t], L) \/ In(th[t], L, barrier.step)
                       \/ Tardy(th[t], L, barrier.step)
  BY Thread DEF RoundInv, UsersInv, Stranger, Out, SerialInv, ThreadRec

\* Only t moves.
LEMMA GoTurns ==
  ASSUME Base, NEW t \in Threads, NEW s, Go(t, s)
  PROVE  th'[t] = s /\ \A u \in Threads \ {t} : th'[u] = th[u]
  BY DEF Base, ThreadsInv, Go

\* A thread comes to the barrier and reads its step.
LEMMA EnterRound ==
  ASSUME Base, NEW U, NEW L \in Nat, RoundInv(U, L), NEW t \in Threads, pthread_barrier_wait(t)
  PROVE  RoundInv(U, L)'
<1>. DEFINE r == th[t]
            s == [r EXCEPT !.pc = "arrive", !.step = barrier.step, !.entered = @ + 1]
<1>1. /\ r.pc = "ready" /\ r.todo # <<>> /\ Head(r.todo) = "barrier" /\ Go(t, s)
      /\ obj' = obj /\ barrier' = barrier
  BY Caller DEF pthread_barrier_wait
<1>2. r \in ThreadRec /\ r.entered \in Nat /\ r.todo \in Seq(Ops) /\ barrier.step \in {0, 1} /\ U \subseteq Threads
  BY UserRec, RoundFacts DEF ThreadRec
<1>3. /\ s.pc = "arrive" /\ s.step = barrier.step /\ s.entered = r.entered + 1 /\ s.left = r.left
      /\ s.serial = r.serial
  BY <1>2 DEF ThreadRec
<1>4. th'[t] = s /\ \A u \in Threads \ {t} : th'[u] = th[u]
  BY <1>1, GoTurns
<1>. HIDE DEF s
<1>5. ~InBarrier(r) /\ InBarrier(s)
  BY <1>1, <1>3 DEF InBarrier, BarrierPcs
<1>6. t \in U /\ Out(r, L)
  <2>1. 1 \in 1 .. Len(r.todo) /\ r.todo[1] = "barrier"
    BY <1>1, <1>2
  <2>2. ~NoBarrier(r.todo)
    BY <2>1 DEF NoBarrier
  <2>. QED BY <1>5, <2>2 DEF RoundInv, UsersInv, Stranger, In, Tardy
<1>7. In(s, L, barrier.step)
  BY <1>3, <1>5, <1>6 DEF In, Out
<1>8. Gathering(U, L)
  BY <1>6 DEF RoundInv, Assembled, Opened, Out
<1>9. Arrived(U, L)' = Arrived(U, L)
  <2>1. \A u \in U : (th'[u].entered = L + 1 /\ th'[u].pc # "arrive") <=> (th[u].entered = L + 1 /\ th[u].pc # "arrive")
    BY <1>2, <1>3, <1>4, <1>6 DEF Out
  <2>. QED BY <2>1 DEF Arrived
<1>10. Waiters(U, L)' = Waiters(U, L)
  <2>1. \A u \in U : (InBarrier(th'[u]) /\ th'[u].pc \in Stays) <=> (InBarrier(th[u]) /\ th[u].pc \in Stays)
    BY <1>2, <1>3, <1>4, <1>5 DEF Stays
  <2>2. \A u \in U : InBarrier(th'[u]) /\ th'[u].pc \in Stays => th'[u].entered = th[u].entered
    BY <1>2, <1>3, <1>4 DEF Stays
  <2>. QED BY <2>1, <2>2 DEF Waiters
<1>11. SerialInv(L)'
  <2>1. SerialInv(L)
    BY DEF RoundInv, UsersInv
  <2>2. \A u \in Threads : th'[u].serial = th[u].serial /\ th'[u].left = th[u].left
    BY <1>3, <1>4
  <2>. QED BY <2>1, <2>2, SerialKept
<1>12. ThisRound' = ThisRound /\ LastRound' = LastRound
  BY <1>1 DEF ThisRound, LastRound
<1>13. UsersInv(U, L)'
  <2>1. \A u \in Threads \ U : Stranger(th'[u])
    BY <1>4, <1>6 DEF RoundInv, UsersInv
  <2>2. \A u \in U : Out(th'[u], L) \/ In(th'[u], L, barrier.step) \/ Tardy(th'[u], L, barrier.step)
    BY <1>2, <1>4, <1>7 DEF RoundInv, UsersInv
  <2>. QED BY <1>1, <1>10, <1>11, <1>12, <2>1, <2>2 DEF RoundInv, UsersInv
<1>14. Gathering(U, L)'
  <2>1. t \notin Arrived(U, L)
    BY <1>2, <1>6 DEF Arrived, Out
  <2>2. \A u \in Arrived(U, L) : th'[u] = th[u]
    BY <1>2, <1>4, <2>1 DEF Arrived
  <2>. QED BY <1>1, <1>8, <1>9, <1>12, <2>2 DEF Gathering
<1>. QED BY <1>13, <1>14 DEF RoundInv

\* The height goes down; who makes it 0 is the last.
LEMMA ArriveRound ==
  ASSUME Base, NEW U, NEW L \in Nat, RoundInv(U, L), NEW t \in Threads, BarrierArrive(t)
  PROVE  RoundInv(U, L)'
<1>. DEFINE r == th[t]
            pc == IF barrier'.curr_height = 0 THEN "reset" ELSE "stand"
            s == At(r, pc)
            A == Arrived(U, L)
            H == barrier.init_height
<1>1. /\ r.pc = "arrive" /\ Go(t, s) /\ obj' = obj
      /\ barrier' = [barrier EXCEPT !.curr_height = @ - 1]
  BY DEF BarrierArrive
<1>2. /\ r \in ThreadRec /\ U \subseteq Threads /\ H \in Nat \ {0} /\ barrier.curr_height \in Int
      /\ IsFiniteSet(U) /\ Cardinality(U) \in Nat /\ IsFiniteSet(A) /\ Cardinality(A) \in Nat
  BY UserRec, RoundFacts
<1>3. /\ barrier'.init_height = H /\ barrier'.step = barrier.step
      /\ barrier'.curr_height = barrier.curr_height - 1
  BY <1>1 DEF Base, BarrierType
<1>4. /\ s.pc = pc /\ s.step = r.step /\ s.entered = r.entered /\ s.left = r.left /\ s.serial = r.serial
  BY <1>2 DEF ThreadRec, At
<1>5. th'[t] = s /\ \A u \in Threads \ {t} : th'[u] = th[u]
  BY <1>1, GoTurns
<1>. HIDE DEF s
<1>6. InBarrier(r) /\ InBarrier(s)
  BY <1>1, <1>4 DEF InBarrier, BarrierPcs
<1>7. t \in U /\ In(r, L, barrier.step)
  <2>1. t \in U /\ (In(r, L, barrier.step) \/ Tardy(r, L, barrier.step))
    BY <1>6, UserRec
  <2>. QED BY <1>1, <2>1 DEF Tardy, Stays
<1>8. In(s, L, barrier.step)
  BY <1>4, <1>6, <1>7 DEF In
<1>9. Gathering(U, L)
  <2>1. ~(\E w \in U : Assembled(U, L, w))
    BY <1>1, <1>7 DEF Assembled, Stays
  <2>2. ~Opened(U, L)
    BY <1>1, <1>7 DEF Opened, Stays
  <2>. QED BY <2>1, <2>2 DEF RoundInv
<1>10. t \notin A /\ Arrived(U, L)' = A \cup {t}
  <2>1. t \notin A
    BY <1>1 DEF Arrived
  <2>2. th'[t].entered = L + 1 /\ th'[t].pc # "arrive"
    BY <1>4, <1>5, <1>7 DEF In
  <2>3. \A u \in U \ {t} : th'[u] = th[u]
    BY <1>2, <1>5
  <2>. QED BY <1>7, <2>1, <2>2, <2>3 DEF Arrived
<1>11. Cardinality(A \cup {t}) = Cardinality(A) + 1 /\ IsFiniteSet(A \cup {t})
  <2>. HIDE DEF A
  <2>. QED BY <1>2, <1>10, FS_AddElement
<1>12. Waiters(U, L)' = Waiters(U, L)
  <2>1. \A u \in U : th'[u].entered = th[u].entered
    BY <1>2, <1>4, <1>5
  <2>2. \A u \in U : th[u].entered = L => th'[u] = th[u]
    BY <1>2, <1>5, <1>7 DEF In
  <2>. QED BY <2>1, <2>2 DEF Waiters
<1>13. SerialInv(L)'
  <2>1. SerialInv(L)
    BY DEF RoundInv, UsersInv
  <2>2. \A u \in Threads : th'[u].serial = th[u].serial /\ th'[u].left = th[u].left
    BY <1>4, <1>5
  <2>. QED BY <2>1, <2>2, SerialKept
<1>14. ThisRound' = ThisRound /\ LastRound' = LastRound
  BY <1>3 DEF ThisRound, LastRound
<1>15. UsersInv(U, L)'
  <2>1. \A u \in Threads \ U : Stranger(th'[u])
    BY <1>5, <1>7 DEF RoundInv, UsersInv
  <2>2. \A u \in U : Out(th'[u], L) \/ In(th'[u], L, barrier.step) \/ Tardy(th'[u], L, barrier.step)
    BY <1>2, <1>5, <1>8 DEF RoundInv, UsersInv
  <2>. QED BY <1>1, <1>3, <1>12, <1>13, <1>14, <2>1, <2>2 DEF RoundInv, UsersInv
<1>16. \A u \in A : u \in U \ {t} /\ th'[u] = th[u] /\ th[u].pc \in Stays
  BY <1>2, <1>5, <1>9, <1>10 DEF Arrived, Gathering
<1>17. CASE barrier'.curr_height = 0
  <2>1. Cardinality(A \cup {t}) = H
    BY <1>2, <1>3, <1>9, <1>11, <1>17 DEF Gathering
  <2>2. A \cup {t} \in SUBSET U
    BY <1>7 DEF Arrived
  <2>3. Cardinality(A \cup {t}) <= Cardinality(U) /\ (Cardinality(U) = Cardinality(A \cup {t}) => U = A \cup {t})
    <3>. HIDE DEF A
    <3>. QED BY <1>2, <2>2, FS_Subset
  <2>4. Cardinality(U) <= H
    BY DEF RoundInv, UsersInv
  <2>5. U = A \cup {t} /\ Cardinality(U) = H
    BY <1>2, <2>1, <2>3, <2>4
  <2>6. \A u \in U : th'[u].entered = L + 1
    BY <1>10, <2>5 DEF Arrived
  <2>7. th'[t].pc = "reset" /\ \A u \in U \ {t} : th'[u].pc \in Stays
    BY <1>4, <1>5, <1>16, <1>17, <2>5
  <2>8. Assembled(U, L, t)'
    BY <1>1, <1>3, <1>7, <1>9, <1>14, <2>5, <2>6, <2>7 DEF Assembled, Gathering
  <2>. QED BY <1>7, <1>15, <2>8 DEF RoundInv
<1>18. CASE barrier'.curr_height # 0
  <2>1. \A u \in A \cup {t} : th'[u].pc \in Stays
    BY <1>4, <1>5, <1>16, <1>18 DEF Stays
  <2>2. barrier'.curr_height > 0 /\ barrier'.curr_height + Cardinality(A \cup {t}) = H
    BY <1>2, <1>3, <1>9, <1>11, <1>18 DEF Gathering
  <2>3. Gathering(U, L)'
    BY <1>1, <1>3, <1>9, <1>10, <1>14, <2>1, <2>2 DEF Gathering
  <2>. QED BY <1>15, <2>3 DEF RoundInv
<1>. QED BY <1>17, <1>18

\* The last to arrive, before it lets the others go, is alone.
LEMMA LastIsAlone ==
  ASSUME Base, NEW U, NEW L \in Nat, RoundInv(U, L), NEW t \in Threads, th[t].pc \in {"reset", "breech"}
  PROVE  t \in U /\ In(th[t], L, barrier.step) /\ Assembled(U, L, t)
<1>1. InBarrier(th[t])
  BY DEF InBarrier, BarrierPcs
<1>2. t \in U /\ In(th[t], L, barrier.step)
  <2>1. t \in U /\ (In(th[t], L, barrier.step) \/ Tardy(th[t], L, barrier.step))
    BY <1>1, UserRec
  <2>. QED BY <2>1 DEF Tardy, Stays
<1>3. ~Gathering(U, L)
  <2>1. t \in Arrived(U, L)
    BY <1>2 DEF Arrived, In
  <2>. QED BY <2>1 DEF Gathering, Stays
<1>4. ~Opened(U, L)
  BY <1>2 DEF Opened, Stays
<1>5. PICK w \in U : Assembled(U, L, w)
  BY <1>3, <1>4 DEF RoundInv
<1>6. w = t
  BY <1>2, <1>5 DEF Assembled, Stays
<1>. QED BY <1>2, <1>5, <1>6

\* The last sets the height for the next round.  A barrier for one thread is open
\* at once.
LEMMA ResetRound ==
  ASSUME Base, NEW U, NEW L \in Nat, RoundInv(U, L), NEW t \in Threads, BarrierReset(t)
  PROVE  RoundInv(U, L)'
<1>. DEFINE r == th[t]
            pc == IF barrier.init_height > 1 THEN "breech" ELSE "advance"
            s == At(r, pc)
            H == barrier.init_height
<1>1. /\ r.pc = "reset" /\ Go(t, s) /\ obj' = obj
      /\ barrier' = [barrier EXCEPT !.curr_height = H]
  BY DEF BarrierReset
<1>2. /\ r \in ThreadRec /\ U \subseteq Threads /\ H \in Nat \ {0}
      /\ IsFiniteSet(U) /\ Cardinality(U) \in Nat
  BY UserRec, RoundFacts
<1>3. barrier'.init_height = H /\ barrier'.step = barrier.step /\ barrier'.curr_height = H
  BY <1>1 DEF Base, BarrierType
<1>4. /\ s.pc = pc /\ s.step = r.step /\ s.entered = r.entered /\ s.left = r.left /\ s.serial = r.serial
  BY <1>2 DEF ThreadRec, At
<1>5. th'[t] = s /\ \A u \in Threads \ {t} : th'[u] = th[u]
  BY <1>1, GoTurns
<1>. HIDE DEF s
<1>6. InBarrier(s)
  BY <1>4 DEF InBarrier, BarrierPcs
<1>7. t \in U /\ In(r, L, barrier.step) /\ Assembled(U, L, t)
  BY <1>1, LastIsAlone
<1>8. In(s, L, barrier.step)
  BY <1>4, <1>6, <1>7 DEF In
<1>9. \A u \in U : th[u].entered = L + 1 /\ th'[u].entered = L + 1
  BY <1>2, <1>4, <1>5, <1>7 DEF Assembled
<1>10. Waiters(U, L)' = Waiters(U, L)
  BY <1>9 DEF Waiters
<1>11. SerialInv(L)'
  <2>1. SerialInv(L)
    BY DEF RoundInv, UsersInv
  <2>2. \A u \in Threads : th'[u].serial = th[u].serial /\ th'[u].left = th[u].left
    BY <1>4, <1>5
  <2>. QED BY <2>1, <2>2, SerialKept
<1>12. ThisRound' = ThisRound /\ LastRound' = LastRound
  BY <1>3 DEF ThisRound, LastRound
<1>13. UsersInv(U, L)'
  <2>1. \A u \in Threads \ U : Stranger(th'[u])
    BY <1>5, <1>7 DEF RoundInv, UsersInv
  <2>2. \A u \in U : Out(th'[u], L) \/ In(th'[u], L, barrier.step) \/ Tardy(th'[u], L, barrier.step)
    BY <1>2, <1>5, <1>8 DEF RoundInv, UsersInv
  <2>. QED BY <1>1, <1>3, <1>10, <1>11, <1>12, <2>1, <2>2 DEF RoundInv, UsersInv
<1>14. Cardinality(U) = H /\ obj[ThisRound].count = 0 /\ \A u \in U \ {t} : th'[u].pc \in Stays
  BY <1>2, <1>5, <1>7 DEF Assembled
<1>15. CASE H > 1
  <2>1. Assembled(U, L, t)'
    BY <1>1, <1>3, <1>4, <1>5, <1>7, <1>9, <1>12, <1>14, <1>15 DEF Assembled
  <2>. QED BY <1>7, <1>13, <2>1 DEF RoundInv
<1>16. CASE ~(H > 1)
  <2>1. Cardinality(U) = 1 /\ s.pc = "advance"
    BY <1>2, <1>4, <1>14, <1>16
  <2>2. U = {t}
    <3>1. \E x : U = {x}
      BY <1>2, <2>1, FS_Singleton
    <3>. QED BY <1>7, <3>1
  <2>3. Waiters(U, L + 1)' = {}
    BY <1>5, <2>1, <2>2 DEF Waiters, Stays
  <2>4. obj'[ThisRound'].count = Cardinality(Waiters(U, L + 1)')
    BY <1>1, <1>12, <1>14, <2>3, FS_EmptySet
  <2>5. Opened(U, L)'
    BY <1>3, <1>5, <1>9, <1>14, <2>1, <2>2, <2>4 DEF Opened
  <2>. QED BY <1>13, <2>5 DEF RoundInv
<1>. QED BY <1>15, <1>16

\* The first k of a sequence without repetitions are k.
LEMMA PrefixCard ==
  ASSUME NEW T, NEW q \in Seq(T), NEW k \in 0 .. Len(q),
         \A i, j \in 1 .. Len(q) : q[i] = q[j] => i = j,
         NEW W, \A i \in 1 .. k : q[i] \in W, \A x \in W : \E i \in 1 .. k : x = q[i]
  PROVE  IsFiniteSet(W) /\ Cardinality(W) = k
<1>. DEFINE f == [i \in 1 .. k |-> q[i]]
<1>0. k \in Nat /\ Len(q) \in Nat /\ \A i \in 1 .. k : i \in 1 .. Len(q)
  OBVIOUS
<1>1. f \in Bijection(1 .. k, W)
  <2>1. f \in [1 .. k -> W]
    OBVIOUS
  <2>2. \A i, j \in 1 .. k : f[i] = f[j] => i = j
    BY <1>0
  <2>3. \A x \in W : \E i \in 1 .. k : f[i] = x
    OBVIOUS
  <2>. QED BY <2>1, <2>2, <2>3 DEF Bijection, Injection, Surjection, IsInjective
<1>2. ExistsBijection(1 .. k, W)
  BY <1>1 DEF ExistsBijection
<1>3. IsFiniteSet(1 .. k) /\ Cardinality(1 .. k) = k
  <2>1. 1 \in Int /\ k \in Int
    BY <1>0
  <2>2. IsFiniteSet(1 .. k) /\ Cardinality(1 .. k) = IF 1 > k THEN 0 ELSE k - 1 + 1
    BY <2>1, FS_Interval
  <2>. QED BY <1>0, <2>2
<1>4. IsFiniteSet(W) /\ Cardinality(W) = Cardinality(1 .. k)
  BY <1>2, <1>3, FS_Bijection
<1>. QED BY <1>3, <1>4

\* The others may go: one unit for each, whether it sleeps already or not.
LEMMA BreechRound ==
  ASSUME Base, NEW U, NEW L \in Nat, RoundInv(U, L), NEW t \in Threads, BarrierBreech(t)
  PROVE  RoundInv(U, L)'
<1>. DEFINE r == th[t]
            o == ThisRound
            q == obj[o].queue
            H == barrier.init_height
            s == At(r, "advance")
<1>1. r.pc = "breech" /\ barrier' = barrier
  BY DEF BarrierBreech
<1>2. /\ r \in ThreadRec /\ U \subseteq Threads /\ H \in Nat \ {0} /\ o \in Objs /\ ThreadsInv
      /\ IsFiniteSet(U) /\ Cardinality(U) \in Nat /\ LastRound \in Objs /\ LastRound # o /\ barrier.step \in {0, 1}
  BY UserRec, RoundFacts DEF Base
<1>3. t \in U /\ In(r, L, barrier.step) /\ Assembled(U, L, t)
  BY <1>1, LastIsAlone
<1>4. /\ obj[o].count = 0 /\ Cardinality(U) = H /\ barrier.curr_height = H
      /\ \A u \in U \ {t} : th[u].pc \in Stays
      /\ \A u \in U : th[u].entered = L + 1
  BY <1>1, <1>3 DEF Assembled
<1>5. H - 1 \in Nat /\ Release(t, s, o, H - 1)
  <2>1. Breeched(r.step) = o
    BY <1>3 DEF In, ThisRound
  <2>. QED BY <1>2, <1>4, <2>1 DEF BarrierBreech, semrel
<1>6. PICK k \in 0 .. Len(q) : Released(t, s, o, H - 1, k)
  BY <1>1, <1>2, <1>5, ReleaseShape
<1>7. /\ k <= H - 1 /\ k \in Nat /\ Len(q) \in Nat /\ q \in Seq(Threads)
      /\ \A i \in 1 .. k : i \in 1 .. Len(q)
      /\ obj'[o].count = H - 1 - k /\ \A x \in Objs \ {o} : obj'[x] = obj[x]
      /\ th'[t] = s
      /\ \A i \in 1 .. k : th'[q[i]] = At(th[q[i]], th[q[i]].next)
      /\ \A u \in Threads \ {t} : (\A i \in 1 .. k : q[i] # u) => th'[u] = th[u]
  <2>1. q \in Seq(Threads) /\ Len(q) \in Nat
    BY <1>2 DEF ThreadsInv
  <2>2. o # "event"
    BY DEF ThisRound, Breeched
  <2>3. k = Min({obj[o].count + (H - 1), Len(q)})
    BY <1>6 DEF Released
  <2>4. obj[o].count + (H - 1) = H - 1 /\ H - 1 \in Int /\ Len(q) \in Int
    BY <1>2, <1>4, <2>1
  <2>5. k <= H - 1
    BY <2>3, <2>4, MinPair
  <2>6. obj'[o].count = obj[o].count + (H - 1) - k
    BY <1>6, <2>2 DEF Released
  <2>7. k \in Nat /\ \A i \in 1 .. k : i \in 1 .. Len(q)
    BY <2>1
  <2>. HIDE DEF o, q, s
  <2>8. obj'[o].count = H - 1 - k
    BY <2>4, <2>6, <2>7, <1>2, <1>4
  <2>. QED BY <1>6, <2>1, <2>5, <2>7, <2>8 DEF Released, q
<1>8. /\ s.pc = "advance" /\ s.step = r.step /\ s.entered = r.entered /\ s.left = r.left /\ s.serial = r.serial
  BY <1>2 DEF ThreadRec, At
<1>. DEFINE W == {q[i] : i \in 1 .. k}
<1>9. ASSUME NEW u \in W
      PROVE  /\ u \in U \ {t} /\ In(th[u], L, barrier.step) /\ InBarrier(th[u])
             /\ th'[u].pc = "advance" /\ th'[u].step = th[u].step /\ th'[u].entered = th[u].entered
             /\ th'[u].left = th[u].left /\ th'[u].serial = th[u].serial
  <2>1. PICK i \in 1 .. k : u = q[i]
    BY <1>9
  <2>2. u \in Threads /\ th[u].pc = "asleep" /\ WaitsFor(th[u]) = o
    BY <1>2, <1>7, <2>1 DEF ThreadsInv, QueueInv
  <2>3. th[u] \in ThreadRec /\ ThreadInv(th[u], mutex.kind)
    BY <2>2, Thread
  <2>4. th[u].next = "advance"
    <3>1. o \notin {"event", "semaphore"}
      BY DEF ThisRound, Breeched
    <3>2. th[u].next \in {"again", "own_early", "own", "cond_woken", "advance"}
      BY <2>2, <2>3 DEF ThreadInv
    <3>. QED BY <2>2, <3>1, <3>2 DEF WaitsFor
  <2>5. InBarrier(th[u])
    BY <2>2, <2>4 DEF InBarrier
  <2>6. u \in U
    BY <2>2, <2>5, UserRec
  <2>7. In(th[u], L, barrier.step)
    BY <1>4, <2>2, <2>5, <2>6, UserRec DEF Tardy
  <2>8. th'[u] = At(th[u], "advance")
    BY <1>7, <2>1, <2>4
  <2>9. u # t
    BY <1>1, <2>2
  <2>. QED BY <2>3, <2>5, <2>6, <2>7, <2>8, <2>9 DEF ThreadRec, At
<1>10. IsFiniteSet(W) /\ Cardinality(W) = k
  <2>1. \A i, j \in 1 .. Len(q) : q[i] = q[j] => i = j
    BY <1>2 DEF ThreadsInv, QueueInv
  <2>2. k \in 0 .. Len(q)
    OBVIOUS
  <2>3. q \in Seq(Threads)
    BY <1>7
  <2>4. (\A i \in 1 .. k : q[i] \in W) /\ \A x \in W : \E i \in 1 .. k : x = q[i]
    OBVIOUS
  <2>. HIDE DEF q, W
  <2>. QED BY <2>1, <2>2, <2>3, <2>4, PrefixCard
<1>11. \A u \in Threads \ {t} : u \notin W => th'[u] = th[u]
  BY <1>7
<1>. HIDE DEF W, s, q, o
<1>12. \A u \in Threads : /\ th'[u].step = th[u].step /\ th'[u].entered = th[u].entered
                          /\ th'[u].left = th[u].left /\ th'[u].serial = th[u].serial
  BY <1>7, <1>8, <1>9, <1>11
<1>13. ThisRound' = o /\ LastRound' = LastRound
  BY <1>1 DEF ThisRound, LastRound, o
<1>14. Waiters(U, L)' = Waiters(U, L)
  <2>1. \A u \in U : th[u].entered # L /\ th'[u].entered # L
    BY <1>2, <1>4, <1>12
  <2>. QED BY <2>1 DEF Waiters
<1>15. \A u \in U : /\ InBarrier(th[u]) /\ In(th[u], L, barrier.step)
  BY <1>2, <1>4, UserRec DEF Out, In, Tardy
<1>16. \A u \in U : InBarrier(th'[u]) /\ In(th'[u], L, barrier.step) /\ th'[u].pc \in Stays \cup {"advance"}
  <2>. SUFFICES ASSUME NEW u \in U
                PROVE  InBarrier(th'[u]) /\ In(th'[u], L, barrier.step) /\ th'[u].pc \in Stays \cup {"advance"}
    OBVIOUS
  <2>1. CASE u = t \/ u \in W
    <3>1. th'[u].pc = "advance"
      BY <1>7, <1>8, <1>9, <2>1
    <3>2. InBarrier(th'[u])
      BY <3>1 DEF InBarrier, BarrierPcs
    <3>. QED BY <1>2, <1>12, <1>15, <3>1, <3>2 DEF In
  <2>2. CASE u # t /\ u \notin W
    <3>1. th'[u] = th[u]
      BY <1>2, <1>11, <2>2
    <3>. QED BY <1>4, <1>15, <2>2, <3>1
  <2>. QED BY <2>1, <2>2
<1>17. UsersInv(U, L)'
  <2>1. \A u \in Threads \ U : Stranger(th'[u])
    BY <1>3, <1>9, <1>11 DEF RoundInv, UsersInv
  <2>2. SerialInv(L)'
    <3>1. SerialInv(L)
      BY DEF RoundInv, UsersInv
    <3>2. \A u \in Threads : th'[u].serial = th[u].serial /\ th'[u].left = th[u].left
      BY <1>12
    <3>. QED BY <3>1, <3>2, SerialKept
  <2>3. obj'[LastRound].count = obj[LastRound].count
    BY <1>2, <1>7
  <2>. QED BY <1>1, <1>13, <1>14, <1>16, <2>1, <2>2, <2>3 DEF RoundInv, UsersInv
<1>18. Cardinality(Waiters(U, L + 1)') = H - 1 - k
  <2>1. Waiters(U, L + 1)' = (U \ {t}) \ W
    <3>1. ASSUME NEW u \in U PROVE u \in Waiters(U, L + 1)' <=> (u # t /\ u \notin W)
      <4>1. u \in Waiters(U, L + 1)' <=> th'[u].pc \in Stays
        BY <1>2, <1>4, <1>12, <1>16 DEF Waiters
      <4>2. u = t \/ u \in W => th'[u].pc \notin Stays
        BY <1>7, <1>8, <1>9 DEF Stays
      <4>3. u # t /\ u \notin W => th'[u].pc \in Stays
        BY <1>2, <1>4, <1>11
      <4>. QED BY <4>1, <4>2, <4>3
    <3>2. Waiters(U, L + 1)' \subseteq U
      BY DEF Waiters
    <3>. QED BY <3>1, <3>2
  <2>2. (U \ {t}) \cap W = W
    BY <1>9
  <2>3. IsFiniteSet(U \ {t}) /\ Cardinality(U \ {t}) = H - 1
    BY <1>2, <1>3, <1>4, FS_RemoveElement
  <2>4. Cardinality((U \ {t}) \ W) = Cardinality(U \ {t}) - Cardinality((U \ {t}) \cap W)
    BY <2>3, FS_Difference
  <2>. QED BY <1>10, <2>1, <2>2, <2>3, <2>4
<1>19. Opened(U, L)'
  BY <1>1, <1>2, <1>4, <1>7, <1>12, <1>13, <1>16, <1>18 DEF Opened
<1>. QED BY <1>17, <1>19 DEF RoundInv

\* A thread waits for its unit: it sleeps until the round is opened, or takes
\* the unit.
LEMMA StandRound ==
  ASSUME Base, NEW U, NEW L \in Nat, RoundInv(U, L), NEW t \in Threads, BarrierStand(t)
  PROVE  RoundInv(U, L)'
<1>. DEFINE r == th[t]
            o == Breeched(r.step)
            a == Sleeps(r, "advance")
            b == At(r, "advance")
<1>1. r.pc = "stand" /\ waitone(t, o, "advance") /\ barrier' = barrier
  BY DEF BarrierStand
<1>2. /\ r \in ThreadRec /\ U \subseteq Threads /\ barrier.step \in {0, 1} /\ r.step \in {0, 1} /\ r.entered \in Nat
      /\ ThisRound \in Objs /\ LastRound \in Objs /\ LastRound # ThisRound
      /\ obj[ThisRound].count \in Nat /\ obj[LastRound].count \in Nat
  BY UserRec, RoundFacts DEF Base, ThreadsInv
<1>3. InBarrier(r) /\ r.pc \in Stays
  BY <1>1 DEF InBarrier, BarrierPcs, Stays
<1>4. t \in U /\ (In(r, L, barrier.step) \/ Tardy(r, L, barrier.step))
  BY <1>3, UserRec
<1>5. /\ In(r, L, barrier.step) => o = ThisRound
      /\ Tardy(r, L, barrier.step) => o = LastRound
  <2>1. Tardy(r, L, barrier.step) => r.step = 1 - barrier.step
    BY <1>2 DEF Tardy
  <2>. QED BY <2>1 DEF In, ThisRound, LastRound
<1>6. o \in Objs
  BY <1>2, <1>4, <1>5
<1>. HIDE DEF o
<1>7. /\ \A u \in Threads \ {t} : th'[u] = th[u]
      /\ \A x \in Objs \ {o} : obj'[x].count = obj[x].count
      /\ \/ obj[o].count > 0 /\ obj'[o].count = obj[o].count - 1 /\ th'[t] = b
         \/ obj[o].count = 0 /\ obj'[o].count = 0 /\ th'[t] = a
  BY <1>1, <1>6, WaitShape
<1>8. /\ a.pc = "asleep" /\ a.next = "advance" /\ b.pc = "advance"
      /\ a.step = r.step /\ a.entered = r.entered /\ a.left = r.left /\ a.serial = r.serial
      /\ b.step = r.step /\ b.entered = r.entered /\ b.left = r.left /\ b.serial = r.serial
  BY <1>2 DEF ThreadRec, At, Sleeps
<1>. HIDE DEF a, b
<1>9. InBarrier(a) /\ InBarrier(b)
  BY <1>8 DEF InBarrier, BarrierPcs
<1>10. /\ th'[t].step = r.step /\ th'[t].entered = r.entered /\ th'[t].left = r.left /\ th'[t].serial = r.serial
       /\ th'[t].pc \in {"asleep", "advance"} /\ InBarrier(th'[t])
       /\ \A u \in Threads : th'[u].entered = th[u].entered
       /\ \A u \in U \ {t} : th'[u] = th[u]
  BY <1>2, <1>7, <1>8, <1>9
<1>11. ThisRound' = ThisRound /\ LastRound' = LastRound
  BY <1>1 DEF ThisRound, LastRound
<1>12. SerialInv(L)'
  <2>1. SerialInv(L)
    BY DEF RoundInv, UsersInv
  <2>2. \A u \in Threads : th'[u].serial = th[u].serial /\ th'[u].left = th[u].left
    BY <1>7, <1>10
  <2>. QED BY <2>1, <2>2, SerialKept
<1>13. /\ \A u \in Threads \ U : Stranger(th'[u])
       /\ \A u \in U : Out(th'[u], L) \/ In(th'[u], L, barrier.step) \/ Tardy(th'[u], L, barrier.step)
  <2>1. \A u \in Threads \ U : Stranger(th'[u])
    BY <1>4, <1>7 DEF RoundInv, UsersInv
  <2>2. In(th'[t], L, barrier.step) \/ Tardy(th'[t], L, barrier.step)
    BY <1>4, <1>10 DEF In, Tardy, Stays
  <2>. QED BY <1>10, <2>1, <2>2 DEF RoundInv, UsersInv
<1>14. obj'[LastRound].count = Cardinality(Waiters(U, L)') => UsersInv(U, L)'
  BY <1>1, <1>11, <1>12, <1>13 DEF RoundInv, UsersInv
<1>15. Arrived(U, L)' = Arrived(U, L)
  <2>1. \A u \in U : th'[u].pc # "arrive" <=> th[u].pc # "arrive"
    BY <1>1, <1>10
  <2>. QED BY <1>2, <1>10, <2>1 DEF Arrived
<1>16. CASE th'[t] = a
  <2>1. \A n : Waiters(U, n)' = Waiters(U, n)
    <3>1. \A u \in U : (InBarrier(th'[u]) /\ th'[u].pc \in Stays) <=> (InBarrier(th[u]) /\ th[u].pc \in Stays)
      BY <1>3, <1>8, <1>9, <1>10, <1>16 DEF Stays
    <3>. QED BY <1>2, <1>10, <3>1 DEF Waiters
  <2>2. a # b
    BY <1>8
  <2>3. obj'[LastRound].count = obj[LastRound].count /\ obj'[ThisRound].count = obj[ThisRound].count
    BY <1>2, <1>7, <1>16, <2>2
  <2>4. UsersInv(U, L)'
    BY <1>14, <2>1, <2>3 DEF RoundInv, UsersInv
  <2>5. \A u \in U : th[u].pc \in Stays => th'[u].pc \in Stays
    BY <1>8, <1>10, <1>16 DEF Stays
  <2>6. Gathering(U, L) => Gathering(U, L)'
    <3>1. Arrived(U, L) \subseteq U
      BY DEF Arrived
    <3>. QED BY <1>1, <1>11, <1>15, <2>3, <2>5, <3>1 DEF Gathering
  <2>7. ASSUME NEW w \in U, Assembled(U, L, w) PROVE Assembled(U, L, w)'
    <3>1. w # t
      BY <1>1, <2>7 DEF Assembled
    <3>2. th'[w] = th[w] /\ \A u \in U : th'[u].entered = th[u].entered
      BY <1>2, <1>10, <3>1
    <3>. QED BY <1>1, <1>11, <2>3, <2>5, <2>7, <3>2 DEF Assembled
  <2>8. Opened(U, L) => Opened(U, L)'
    <3>1. \A u \in U : th'[u].entered = th[u].entered /\ (th[u].pc \in Stays \cup {"advance"} => th'[u].pc \in Stays \cup {"advance"})
      BY <1>2, <1>10 DEF Stays
    <3>. QED BY <1>1, <1>11, <2>1, <2>3, <3>1 DEF Opened
  <2>. QED BY <2>4, <2>6, <2>7, <2>8 DEF RoundInv
<1>17. CASE th'[t] = b /\ obj[o].count > 0 /\ obj'[o].count = obj[o].count - 1
  <2>1. \A n : Waiters(U, n)' = Waiters(U, n) \ {t}
    <3>1. th'[t].pc \notin Stays
      BY <1>8, <1>17 DEF Stays
    <3>. QED BY <1>10, <3>1 DEF Waiters
  <2>2. CASE In(r, L, barrier.step)
    <3>0. o = ThisRound /\ obj'[LastRound].count = obj[LastRound].count /\ r.entered = L + 1 /\ r.entered # L
      BY <1>2, <1>5, <1>7, <2>2 DEF In
    <3>1. Opened(U, L)
      BY <1>2, <1>17, <3>0 DEF RoundInv, Gathering, Assembled
    <3>2. t \notin Waiters(U, L) /\ t \in Waiters(U, L + 1)
      BY <1>3, <1>4, <3>0 DEF Waiters
    <3>3. UsersInv(U, L)'
      <4>1. Waiters(U, L)' = Waiters(U, L)
        BY <2>1, <3>2
      <4>. QED BY <1>14, <3>0, <4>1 DEF RoundInv, UsersInv
    <3>4. obj'[ThisRound].count = Cardinality(Waiters(U, L + 1)')
      <4>. DEFINE V == Waiters(U, L + 1)
      <4>1. IsFiniteSet(V) /\ t \in V
        BY <3>2, RoundFacts
      <4>2. Cardinality(V \ {t}) = Cardinality(V) - 1
        <5>. HIDE DEF V
        <5>. QED BY <4>1, FS_RemoveElement
      <4>3. obj[ThisRound].count = Cardinality(V)
        BY <3>1 DEF Opened
      <4>. QED BY <1>17, <2>1, <3>0, <4>2, <4>3
    <3>5. \A u \in U : th'[u].entered = th[u].entered /\ (th[u].pc \in Stays \cup {"advance"} => th'[u].pc \in Stays \cup {"advance"})
      BY <1>2, <1>10 DEF Stays
    <3>6. Opened(U, L)'
      BY <1>1, <1>11, <3>1, <3>4, <3>5 DEF Opened
    <3>. QED BY <3>3, <3>6 DEF RoundInv
  <2>3. CASE Tardy(r, L, barrier.step)
    <3>0. o = LastRound /\ obj'[ThisRound].count = obj[ThisRound].count /\ r.entered = L /\ r.entered # L + 1
      BY <1>2, <1>5, <1>7, <2>3 DEF Tardy
    <3>1. Gathering(U, L)
      BY <1>4, <3>0 DEF RoundInv, Assembled, Opened
    <3>2. t \in Waiters(U, L)
      BY <1>3, <1>4, <3>0 DEF Waiters
    <3>3. obj'[LastRound].count = Cardinality(Waiters(U, L)')
      <4>. DEFINE V == Waiters(U, L)
      <4>1. IsFiniteSet(V) /\ t \in V
        BY <3>2, RoundFacts
      <4>2. Cardinality(V \ {t}) = Cardinality(V) - 1
        <5>. HIDE DEF V
        <5>. QED BY <4>1, FS_RemoveElement
      <4>3. obj[LastRound].count = Cardinality(V)
        BY DEF RoundInv, UsersInv
      <4>. QED BY <1>17, <2>1, <3>0, <4>2, <4>3
    <3>4. UsersInv(U, L)'
      BY <1>14, <3>3
    <3>5. \A u \in Arrived(U, L) : th'[u] = th[u]
      BY <1>10, <3>0 DEF Arrived
    <3>6. Gathering(U, L)'
      BY <1>1, <1>11, <1>15, <3>0, <3>1, <3>5 DEF Gathering
    <3>. QED BY <3>4, <3>6 DEF RoundInv
  <2>. QED BY <1>4, <2>2, <2>3
<1>. QED BY <1>7, <1>16, <1>17

\* A thread of the round before it leaves: the barrier stays as it is.
LEMMA TardyLeaves ==
  ASSUME Base, NEW U, NEW L \in Nat, RoundInv(U, L), NEW t \in Threads, BarrierAdvance(t),
         th[t].step # barrier.step
  PROVE  RoundInv(U, L)'
<1>. DEFINE r == th[t]
            s == [Returns(r) EXCEPT !.left = @ + 1]
<1>1. r.pc = "advance" /\ Go(t, [Returns(r) EXCEPT !.left = @ + 1, !.serial = @]) /\ obj' = obj
      /\ barrier' = [barrier EXCEPT !.step = @]
  BY DEF BarrierAdvance
<1>2. /\ r \in ThreadRec /\ r.todo # <<>> /\ U \subseteq Threads /\ r.left \in Nat /\ r.entered \in Nat
      /\ r.serial \subseteq 1 .. r.left
  BY <1>1, UserRec, RoundFacts, Busy
<1>3. barrier' = barrier
  BY <1>1 DEF Base, BarrierType
<1>4. /\ s.pc = "ready" /\ s.entered = r.entered /\ s.left = r.left + 1 /\ s.serial = r.serial
  BY <1>2 DEF ThreadRec, Returns
<1>5. th'[t] = s /\ \A u \in Threads \ {t} : th'[u] = th[u]
  <2>1. [Returns(r) EXCEPT !.left = @ + 1, !.serial = @] = s
    BY <1>2 DEF ThreadRec, Returns
  <2>. QED BY <1>1, <2>1, GoTurns
<1>. HIDE DEF s
<1>6. InBarrier(r) /\ ~InBarrier(s)
  BY <1>1, <1>4 DEF InBarrier, BarrierPcs
<1>7. t \in U /\ Tardy(r, L, barrier.step)
  BY <1>6, UserRec DEF In
<1>8. Out(s, L)
  BY <1>2, <1>4, <1>6, <1>7 DEF Out, Tardy
<1>9. Gathering(U, L)
  BY <1>2, <1>7 DEF RoundInv, Assembled, Opened, Tardy
<1>10. \A u \in U : th'[u].entered = th[u].entered /\ (u # t => th'[u] = th[u])
  BY <1>2, <1>4, <1>5
<1>11. \A u \in Arrived(U, L) : u # t
  BY <1>2, <1>7 DEF Arrived, Tardy
<1>12. Arrived(U, L)' = Arrived(U, L)
  <2>1. th'[t].entered # L + 1
    BY <1>2, <1>4, <1>5, <1>7 DEF Tardy
  <2>. QED BY <1>10, <1>11, <2>1 DEF Arrived
<1>13. Waiters(U, L)' = Waiters(U, L)
  <2>1. r.pc \notin Stays /\ ~InBarrier(th'[t])
    BY <1>1, <1>5, <1>6 DEF Stays
  <2>. QED BY <1>10, <2>1 DEF Waiters
<1>14. SerialInv(L)'
  <2>1. \A u \in Threads : th'[u].serial = th[u].serial
    BY <1>4, <1>5
  <2>2. s.serial \subseteq 1 .. s.left
    BY <1>2, <1>4
  <2>3. \A u \in Threads : th'[u].serial \subseteq 1 .. th'[u].left
    BY <1>5, <2>2 DEF RoundInv, UsersInv, SerialInv
  <2>. QED BY <2>1, <2>3 DEF RoundInv, UsersInv, SerialInv
<1>15. ThisRound' = ThisRound /\ LastRound' = LastRound
  BY <1>3 DEF ThisRound, LastRound
<1>16. UsersInv(U, L)'
  <2>1. \A u \in Threads \ U : Stranger(th'[u])
    BY <1>5, <1>7 DEF RoundInv, UsersInv
  <2>2. \A u \in U : Out(th'[u], L) \/ In(th'[u], L, barrier.step) \/ Tardy(th'[u], L, barrier.step)
    BY <1>2, <1>5, <1>8 DEF RoundInv, UsersInv
  <2>. QED BY <1>1, <1>3, <1>13, <1>14, <1>15, <2>1, <2>2 DEF RoundInv, UsersInv
<1>17. Gathering(U, L)'
  <2>1. \A u \in Arrived(U, L) : th'[u] = th[u]
    BY <1>10, <1>11 DEF Arrived
  <2>. QED BY <1>1, <1>3, <1>9, <1>12, <1>15, <2>1 DEF Gathering
<1>. QED BY <1>16, <1>17 DEF RoundInv

\* The first to leave moves the barrier on to the next round.
LEMMA FirstLeaves ==
  ASSUME Base, NEW U, NEW L \in Nat, RoundInv(U, L), NEW t \in Threads, BarrierAdvance(t),
         th[t].step = barrier.step
  PROVE  RoundInv(U, L + 1)'
<1>. DEFINE r == th[t]
            s == [Returns(r) EXCEPT !.left = @ + 1, !.serial = @ \cup {r.entered}]
            H == barrier.init_height
<1>1. r.pc = "advance" /\ Go(t, s) /\ obj' = obj /\ barrier' = [barrier EXCEPT !.step = 1 - @]
  BY DEF BarrierAdvance
<1>2. /\ r \in ThreadRec /\ r.todo # <<>> /\ U \subseteq Threads /\ r.left \in Nat /\ r.entered \in Nat
      /\ r.serial \subseteq 1 .. r.left /\ barrier.step \in {0, 1} /\ H \in Nat \ {0}
      /\ IsFiniteSet(U) /\ Cardinality(U) \in Nat
  BY <1>1, UserRec, RoundFacts, Busy
<1>3. /\ barrier'.step = 1 - barrier.step /\ barrier'.init_height = H
      /\ barrier'.curr_height = barrier.curr_height
  BY <1>1 DEF Base, BarrierType
<1>4. /\ s.pc = "ready" /\ s.entered = r.entered /\ s.left = r.left + 1 /\ s.serial = r.serial \cup {r.entered}
  BY <1>2 DEF ThreadRec, Returns
<1>5. th'[t] = s /\ \A u \in Threads \ {t} : th'[u] = th[u]
  BY <1>1, GoTurns
<1>. HIDE DEF s
<1>6. InBarrier(r) /\ ~InBarrier(s)
  BY <1>1, <1>4 DEF InBarrier, BarrierPcs
<1>7. t \in U /\ In(r, L, barrier.step)
  BY <1>6, UserRec DEF Tardy
<1>8. Opened(U, L)
  <2>1. t \in Arrived(U, L)
    BY <1>1, <1>7 DEF Arrived, In
  <2>2. ~Gathering(U, L)
    BY <1>1, <2>1 DEF Gathering, Stays
  <2>3. ~(\E w \in U : Assembled(U, L, w))
    BY <1>1, <1>7 DEF Assembled, Stays
  <2>. QED BY <2>2, <2>3 DEF RoundInv
<1>9. /\ Cardinality(U) = H /\ barrier.curr_height = H
      /\ \A u \in U : th[u].entered = L + 1 /\ th[u].pc \in Stays \cup {"advance"}
      /\ obj[ThisRound].count = Cardinality(Waiters(U, L + 1))
  BY <1>8 DEF Opened
<1>10. \A u \in U : In(th[u], L, barrier.step)
  BY <1>2, <1>9, UserRec DEF Out, Tardy
<1>11. /\ Out(s, L + 1)
       /\ \A u \in U \ {t} : th'[u] = th[u] /\ Tardy(th'[u], L + 1, barrier'.step)
  <2>1. Out(s, L + 1)
    BY <1>2, <1>4, <1>6, <1>7 DEF Out, In
  <2>2. \A u \in U \ {t} : th'[u] = th[u]
    BY <1>2, <1>5
  <2>3. barrier.step # barrier'.step
    BY <1>2, <1>3
  <2>4. \A u \in U : Tardy(th[u], L + 1, barrier'.step)
    BY <1>9, <1>10, <2>3 DEF Tardy, In
  <2>. QED BY <2>1, <2>2, <2>4
<1>12. LastRound' = ThisRound /\ ThisRound' = LastRound
  <2>1. 1 - (1 - barrier.step) = barrier.step
    BY <1>2
  <2>. QED BY <1>3, <2>1 DEF LastRound, ThisRound
<1>13. Waiters(U, L + 1)' = Waiters(U, L + 1)
  <2>1. r.pc \notin Stays /\ ~InBarrier(th'[t])
    BY <1>1, <1>5, <1>6 DEF Stays
  <2>. QED BY <1>11, <2>1 DEF Waiters
<1>14. Waiters(U, L) = {} /\ obj[LastRound].count = 0
  <2>1. Waiters(U, L) = {}
    BY <1>9 DEF Waiters
  <2>. QED BY <2>1, FS_EmptySet DEF RoundInv, UsersInv
<1>15. Arrived(U, L + 1)' = {}
  <2>1. \A u \in U : th'[u].entered = L + 1 /\ L + 1 # (L + 1) + 1
    BY <1>4, <1>5, <1>9, <1>11
  <2>. QED BY <2>1 DEF Arrived
<1>16. SerialInv(L + 1)'
  <2>1. \A u \in Threads : th[u].left \in Nat /\ th[u].left <= L /\ th[u].serial \subseteq 1 .. th[u].left
    <3>1. \A u \in Threads : th[u].left \in Nat /\ th[u].serial \subseteq 1 .. th[u].left
      BY UserRec
    <3>2. \A u \in Threads \ U : th[u].left = 0
      BY DEF RoundInv, UsersInv, Stranger
    <3>3. \A u \in U : th[u].left = L
      BY <1>10 DEF In
    <3>. QED BY <3>1, <3>2, <3>3
  <2>2. \A u \in Threads : L + 1 \notin th[u].serial
    BY <2>1
  <2>3. th'[t].serial = r.serial \cup {L + 1} /\ th'[t].left = L + 1 /\ r.left = L
    BY <1>4, <1>5, <1>7 DEF In
  <2>4. \A u \in Threads : th'[u].serial \subseteq 1 .. th'[u].left
    <3>1. th'[t].serial \subseteq 1 .. th'[t].left
      BY <1>2, <2>3
    <3>. QED BY <1>5, <2>1, <3>1
  <2>5. ASSUME NEW n \in 1 .. (L + 1)
        PROVE  \E x \in Threads : \A u \in Threads : n \in th'[u].serial <=> u = x
    <3>1. CASE n = L + 1
      <4>1. \A u \in Threads : n \in th'[u].serial <=> u = t
        BY <1>5, <2>2, <2>3, <3>1
      <4>. QED BY <4>1
    <3>2. CASE n # L + 1
      <4>1. n \in 1 .. L
        BY <3>2
      <4>2. PICK x \in Threads : \A u \in Threads : n \in th[u].serial <=> u = x
        BY <4>1 DEF RoundInv, UsersInv, SerialInv
      <4>3. \A u \in Threads : n \in th'[u].serial <=> n \in th[u].serial
        BY <1>5, <2>3, <3>2
      <4>. QED BY <4>2, <4>3
    <3>. QED BY <3>1, <3>2
  <2>. QED BY <2>4, <2>5 DEF SerialInv
<1>17. UsersInv(U, L + 1)'
  <2>1. \A u \in Threads \ U : Stranger(th'[u])
    BY <1>5, <1>7 DEF RoundInv, UsersInv
  <2>2. \A u \in U : \/ Out(th'[u], L + 1) \/ In(th'[u], L + 1, barrier'.step)
                     \/ Tardy(th'[u], L + 1, barrier'.step)
    BY <1>5, <1>11
  <2>3. Cardinality(U) <= H
    BY <1>2, <1>9
  <2>4. obj'[LastRound'].count = Cardinality(Waiters(U, L + 1)')
    BY <1>1, <1>9, <1>12, <1>13
  <2>. QED BY <1>2, <1>3, <1>9, <1>16, <2>1, <2>2, <2>3, <2>4 DEF UsersInv
<1>18. Gathering(U, L + 1)'
  <2>1. Cardinality(Arrived(U, L + 1)') = 0
    BY <1>15, FS_EmptySet
  <2>2. /\ barrier'.curr_height > 0
        /\ barrier'.curr_height + Cardinality(Arrived(U, L + 1)') = barrier'.init_height
    BY <1>2, <1>3, <1>9, <2>1
  <2>3. obj'[ThisRound'].count = 0
    BY <1>1, <1>12, <1>14
  <2>. QED BY <1>15, <2>2, <2>3 DEF Gathering
<1>. QED BY <1>17, <1>18 DEF RoundInv

-----------------------------------------------------------------------------
(* The theorem.                                                            *)

\* Nobody has come to the barrier.
LEMMA BarrierInit ==
  ASSUME BarriersFit, Init
  PROVE  BarrierInv
<1>1. PICK c \in Scenarios :
        /\ barrier = pthread_barrier_init(c.height)
        /\ obj     = [o \in Objs |-> [count |-> 0, queue |-> <<>>]]
        /\ th      = [t \in Threads |->
                        [todo |-> c.prog[t], pc |-> "ready", next |-> "ready", depth |-> 0,
                         n |-> 0, step |-> 0, entered |-> 0, left |-> 0, serial |-> {}]]
  BY DEF Init
<1>. DEFINE U == BarrierUsers(c)
<1>2. /\ barrier.init_height = c.height /\ barrier.curr_height = c.height /\ barrier.step = 0
      /\ c.height \in Nat \ {0} /\ Cardinality(U) <= c.height
  BY <1>1, PthreadAssumption DEF pthread_barrier_init, BarriersFit
<1>3. U \subseteq Threads /\ \A t \in Threads \ U : NoBarrier(c.prog[t])
  BY DEF BarrierUsers, NoBarrier
<1>4. \A t \in Threads : /\ ~InBarrier(th[t]) /\ th[t].entered = 0 /\ th[t].left = 0
                         /\ th[t].serial = {} /\ th[t].todo = c.prog[t]
  BY <1>1 DEF InBarrier, BarrierPcs
<1>. HIDE DEF U
<1>5. ThisRound \in Objs /\ LastRound \in Objs
  BY <1>2 DEF ThisRound, LastRound, Breeched, Objs
<1>6. obj[ThisRound].count = 0 /\ obj[LastRound].count = 0
  BY <1>1, <1>5
<1>7. Arrived(U, 0) = {} /\ Waiters(U, 0) = {}
  BY <1>3, <1>4 DEF Arrived, Waiters
<1>8. Cardinality({}) = 0
  BY FS_EmptySet
<1>9. SerialInv(0)
  BY <1>4 DEF SerialInv
<1>10. UsersInv(U, 0)
  <2>1. \A t \in Threads \ U : Stranger(th[t])
    BY <1>3, <1>4 DEF Stranger
  <2>2. \A u \in U : Out(th[u], 0)
    BY <1>3, <1>4 DEF Out
  <2>. QED BY <1>2, <1>3, <1>6, <1>7, <1>8, <1>9, <2>1, <2>2 DEF UsersInv
<1>11. Gathering(U, 0)
  BY <1>2, <1>6, <1>7, <1>8 DEF Gathering
<1>12. RoundInv(U, 0) /\ U \in SUBSET Threads /\ 0 \in Nat
  BY <1>3, <1>10, <1>11 DEF RoundInv
<1>. QED BY <1>12 DEF BarrierInv

\* Every step keeps the invariant.
LEMMA BarrierStep ==
  ASSUME Base, BarrierInv, [Next]_vars
  PROVE  BarrierInv'
<1>1. PICK U \in SUBSET Threads, L \in Nat : RoundInv(U, L)
  BY DEF BarrierInv
<1>2. CASE UNCHANGED vars
  <2>1. Aside
    BY <1>2 DEF vars, Aside, SameBarrier
  <2>2. RoundInv(U, L)'
    BY <1>1, <2>1, AsideRound
  <2>. QED BY <2>2 DEF BarrierInv
<1>3. ASSUME NEW t \in Threads, Step(t) \/ Timeout(t)
      PROVE  BarrierInv'
  <2>1. CASE \/ Aside \/ pthread_barrier_wait(t) \/ BarrierArrive(t) \/ BarrierReset(t) \/ BarrierBreech(t)
             \/ BarrierStand(t) \/ (BarrierAdvance(t) /\ th[t].step # barrier.step)
    <3>1. RoundInv(U, L)'
      BY <1>1, <2>1, AsideRound, EnterRound, ArriveRound, ResetRound, BreechRound, StandRound, TardyLeaves
    <3>. QED BY <3>1 DEF BarrierInv
  <2>2. CASE BarrierAdvance(t) /\ th[t].step = barrier.step
    <3>1. RoundInv(U, L + 1)' /\ L + 1 \in Nat
      BY <1>1, <2>2, FirstLeaves
    <3>. QED BY <3>1 DEF BarrierInv
  <2>. QED BY <1>3, <2>1, <2>2, OtherSteps
<1>. QED BY <1>2, <1>3 DEF Next

\* What the invariant says of the rounds.
LEMMA BarrierImplied ==
  ASSUME Base, BarrierInv
  PROVE  BarrierTogether
<1>1. PICK U \in SUBSET Threads, L \in Nat : RoundInv(U, L)
  BY DEF BarrierInv
<1>2. /\ IsFiniteSet(U) /\ IsFiniteSet(Threads) /\ barrier.init_height \in Nat
  BY <1>1, RoundFacts, PthreadAssumption
<1>3. ASSUME NEW t \in Threads
      PROVE  /\ th[t].left \in Nat /\ th[t].left <= L /\ th[t].serial \subseteq 1 .. th[t].left
  <2>1. t \in U \/ th[t].left = 0
    BY <1>1 DEF RoundInv, UsersInv, Stranger
  <2>. QED BY <1>1, <2>1, UserRec DEF Out, In, Tardy
<1>4. \A u \in U : th[u].entered \in Nat /\ th[u].entered >= L
  BY <1>1, UserRec DEF Out, In, Tardy
<1>5. ASSUME NEW t \in Threads, th[t].left > 0
      PROVE  Cardinality({u \in Threads : th[u].entered >= th[t].left}) >= barrier.init_height
  <2>. DEFINE E == {u \in Threads : th[u].entered >= th[t].left}
  <2>1. L > 0
    BY <1>3, <1>5
  <2>2. Cardinality(U) = barrier.init_height
    BY <1>1, <2>1 DEF RoundInv, UsersInv
  <2>3. U \in SUBSET E /\ E \in SUBSET Threads
    BY <1>1, <1>3, <1>4
  <2>. HIDE DEF E
  <2>4. IsFiniteSet(E)
    BY <1>2, <2>3, FS_Subset
  <2>5. Cardinality(U) <= Cardinality(E) /\ Cardinality(E) \in Nat
    BY <2>3, <2>4, FS_Subset, FS_CardinalityType
  <2>6. Cardinality(E) >= barrier.init_height
    BY <1>2, <2>2, <2>5
  <2>. QED BY <2>6 DEF E
<1>6. ASSUME NEW t \in Threads, NEW n \in 1 .. th[t].left
      PROVE  \E x \in Threads : \A u \in Threads : n \in th[u].serial <=> u = x
  <2>1. n \in 1 .. L
    BY <1>1, <1>3
  <2>. QED BY <1>1, <2>1 DEF RoundInv, UsersInv, SerialInv
<1>. QED BY <1>3, <1>5, <1>6 DEF BarrierTogether

\* The barrier: in programs that use it from no more threads than it is high, a
\* thread leaves pthread_barrier_wait only when init_height threads have come to that
\* round, and of every round that some thread has left exactly one thread is the serial
\* one, however far some are ahead in the next round while others have not left
\* the last.
THEOREM RoundsTogether ==
  ASSUME ProgramsDisciplined, BarriersFit
  PROVE  Spec => []BarrierTogether
<1>1. Init => Base /\ ExclInv /\ BarrierInv
  BY InitInv, BarrierInit
<1>2. (Base /\ ExclInv /\ BarrierInv) /\ [Next]_vars => (Base /\ ExclInv /\ BarrierInv)'
  BY StepInv, BarrierStep
<1>3. Base /\ ExclInv /\ BarrierInv => BarrierTogether
  BY BarrierImplied
<1>. QED BY <1>1, <1>2, <1>3, PTL DEF Spec

=============================================================================
