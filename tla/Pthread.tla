------------------------------ MODULE Pthread ------------------------------
(***************************************************************************)
(* User-mode synchronisation: the mutexes, condition variables and         *)
(* barriers of src/src/lib/pthread and the critical sections of            *)
(* src/src/sys/os/critsect.c.  They are built from words in memory, which  *)
(* threads change with atomic instructions, and from events and            *)
(* semaphores of the kernel.  A thread may be preempted between any two    *)
(* instructions, so each access to a shared word and each system call is a *)
(* step of its own.                                                        *)
(*                                                                         *)
(* Threads run short programs that use the library as its callers may: see *)
(* Ops.  Recursive mutexes are left out.                                   *)
(***************************************************************************)
EXTENDS Integers, Sequences, SequencesExt, FiniteSets, FiniteSetsExt

CONSTANTS
  Threads,
  NOHANDLE,    \* not a thread
  Scenarios    \* which lock is used, what each thread does, how high the
               \* barrier is and how many timeouts expire

Kinds == {"normal", "errorcheck", "csect"}

Takes == {"take", "timedtake"}

Ops == {"lock", "timedlock", "trylock", "unlock", "put", "signal", "broadcast", "barrier"} \cup Takes

ASSUME PthreadAssumption ==
  /\ IsFiniteSet(Threads) /\ NOHANDLE \notin Threads
  /\ \A c \in Scenarios :
       /\ c.kind \in Kinds /\ c.prog \in [Threads -> Seq(Ops)]
       /\ c.height \in Nat \ {0} /\ c.late \in Nat
       /\ c.kind # "normal" => \A t \in Threads : Takes \cap ToSet(c.prog[t]) = {}
       /\ c.kind = "csect" => \A t \in Threads : {"timedlock", "trylock"} \cap ToSet(c.prog[t]) = {}

VARIABLES
  mutex,    \* the lock: its word, its owner and how often the owner has
            \* entered it again (critical sections)
  cond,     \* waiting of the condition variable
  barrier,  \* curr_height, init_height and step
  obj,      \* the kernel objects: count and queue of waiting threads
  th,       \* the threads
  items,    \* what the condition variable's users wait for
  late      \* timeouts that may still expire

vars == <<mutex, cond, barrier, obj, th, items, late>>

Objs == {"event", "semaphore", "b0", "b1"}

Breeched(step) == IF step = 0 THEN "b0" ELSE "b1"

-----------------------------------------------------------------------------
(* Kernel objects, as the system calls waitone, eset and semrel use them.  *)
(* Signals do not interrupt a wait here: pthread_mutex_lock would return    *)
(* EINVAL.                                                                 *)

\* A thread that has to sleep goes on at next when it is released.
waitone(t, o, next) ==
  IF obj[o].count > 0
  THEN /\ obj' = [obj EXCEPT ![o].count = @ - 1]
       /\ th'  = [th EXCEPT ![t].pc = next]
  ELSE /\ obj' = [obj EXCEPT ![o].queue = Append(@, t)]
       /\ th'  = [th EXCEPT ![t].pc = "asleep", ![t].next = next]

\* n units are added to o, waiting threads take theirs in the order in which
\* they came, and the caller t goes on as r.  An event holds one unit.
Release(t, r, o, n) ==
  LET q == obj[o].queue
      k == Min({obj[o].count + n, Len(q)})
      c == obj[o].count + n - k
  IN  /\ obj' = [obj EXCEPT ![o] = [count |-> IF o = "event" THEN Min({c, 1}) ELSE c,
                                    queue |-> SubSeq(q, k + 1, Len(q))]]
      /\ th'  = [u \in Threads |-> IF u = t THEN r
                                   ELSE IF \E i \in 1..k : q[i] = u
                                   THEN [th[u] EXCEPT !.pc = th[u].next]
                                   ELSE th[u]]

eset(t, r) == Release(t, r, "event", 1)
semrel(t, r, o, n) == Release(t, r, o, n)

-----------------------------------------------------------------------------
(* Threads.                                                                *)

Op(t) == IF th[t].todo = <<>> THEN "none" ELSE Head(th[t].todo)

\* t calls one of ops.
Calls(t, ops) == th[t].pc = "ready" /\ Op(t) \in ops

At(r, pc) == [r EXCEPT !.pc = pc]

Returns(r) == [r EXCEPT !.pc = "ready", !.todo = Tail(@)]

\* The program ends, without the lock it asked for in vain.
GivesUp(r) == [r EXCEPT !.pc = "ready", !.todo = <<>>]

Go(t, r) == th' = [th EXCEPT ![t] = r]

\* The lock is acquired: by its caller, or for a thread that waits for the
\* condition and now looks at it again.
Locked(r) ==
  LET s == [r EXCEPT !.depth = @ + 1]
  IN  IF Head(r.todo) \in Takes THEN At(s, "ready") ELSE Returns(s)

Unlocked(r) == IF Head(r.todo) \in Takes THEN At(r, "cond_sleep") ELSE Returns(r)

Left(r) == [r EXCEPT !.depth = @ - 1]

pthread_mutex_init(kind) == [kind |-> kind, lock |-> 0, owner |-> NOHANDLE, recursion |-> 0]

mkcs == [kind |-> "csect", lock |-> -1, owner |-> NOHANDLE, recursion |-> 0]

pthread_cond_init == [waiting |-> 0]

pthread_barrier_init(count) == [curr_height |-> count, init_height |-> count, step |-> 0]

Init ==
  \E c \in Scenarios :
    /\ mutex   = IF c.kind = "csect" THEN mkcs ELSE pthread_mutex_init(c.kind)
    /\ cond    = pthread_cond_init
    /\ barrier = pthread_barrier_init(c.height)
    /\ obj     = [o \in Objs |-> [count |-> 0, queue |-> <<>>]]
    /\ th      = [t \in Threads |->
                    [todo |-> c.prog[t], pc |-> "ready", next |-> "ready", depth |-> 0,
                     n |-> 0, step |-> 0, entered |-> 0, left |-> 0, serial |-> {}]]
    /\ items   = 0
    /\ late    = c.late

-----------------------------------------------------------------------------
(* Mutexes.  The word is 0 when the mutex is free, 1 when it is locked and *)
(* -1 when it is locked and there may be waiters.                          *)

\* First exchange of pthread_mutex_lock and pthread_mutex_timedlock.
pthread_mutex_lock(t) ==
  /\ Calls(t, {"lock", "timedlock"}) \/ th[t].pc = "relock"
  /\ mutex.kind # "csect"
  /\ mutex' = [mutex EXCEPT !.lock = 1]
  /\ Go(t, IF mutex.kind = "normal"
           THEN IF mutex.lock = 0 THEN Locked(th[t]) ELSE At(th[t], "again")
           ELSE IF mutex.lock = 0 THEN At(th[t], "own") ELSE At(th[t], "held"))
  /\ UNCHANGED <<cond, barrier, obj, items, late>>

\* The owner of a mutex that checks for errors gets EDEADLK.
EDeadlk(t) ==
  /\ th[t].pc = "held"
  /\ Go(t, IF mutex.owner = t THEN Returns(th[t]) ELSE At(th[t], "again"))
  /\ UNCHANGED <<mutex, cond, barrier, obj, items, late>>

\* Wrong: the waiter forgets to say that it waits.
LockAgainSilent(t) ==
  /\ th[t].pc = "again"
  /\ mutex' = [mutex EXCEPT !.lock = 1]
  /\ Go(t, IF mutex.lock = 0 THEN Locked(th[t]) ELSE At(th[t], "sleep"))
  /\ UNCHANGED <<cond, barrier, obj, items, late>>

\* Wrong: only a lock that has waiters counts as taken.
LockAgainWaiters(t) ==
  /\ th[t].pc = "again"
  /\ mutex' = [mutex EXCEPT !.lock = -1]
  /\ Go(t, IF mutex.lock >= 0 THEN Locked(th[t]) ELSE At(th[t], "sleep"))
  /\ UNCHANGED <<cond, barrier, obj, items, late>>

\* The exchange in the loop.  A mutex that is acquired here gets no owner.
LockAgain(t) ==
  /\ th[t].pc = "again"
  /\ mutex' = [mutex EXCEPT !.lock = -1]
  /\ Go(t, IF mutex.lock = 0 THEN Locked(th[t]) ELSE At(th[t], "sleep"))
  /\ UNCHANGED <<cond, barrier, obj, items, late>>

LockSleep(t) ==
  /\ th[t].pc = "sleep"
  /\ waitone(t, "event", IF mutex.kind = "normal" THEN "again" ELSE "own_early")
  /\ UNCHANGED <<mutex, cond, barrier, items, late>>

\* A woken waiter of a mutex that checks for errors makes itself the owner
\* before it has the lock.
OwnEarly(t) ==
  /\ th[t].pc = "own_early"
  /\ mutex' = [mutex EXCEPT !.owner = t]
  /\ Go(t, At(th[t], "again"))
  /\ UNCHANGED <<cond, barrier, obj, items, late>>

\* Whoever has locked it, and has to, writes down that it is the owner.
Own(t) ==
  /\ th[t].pc = "own"
  /\ mutex' = [mutex EXCEPT !.owner = t]
  /\ Go(t, Locked(th[t]))
  /\ UNCHANGED <<cond, barrier, obj, items, late>>

pthread_mutex_trylock(t) ==
  /\ Calls(t, {"trylock"})
  /\ IF mutex.lock = 0
     THEN /\ mutex' = [mutex EXCEPT !.lock = 1]
          /\ Go(t, IF mutex.kind = "normal" THEN Locked(th[t]) ELSE At(th[t], "own"))
     ELSE Go(t, GivesUp(th[t])) /\ UNCHANGED mutex
  /\ UNCHANGED <<cond, barrier, obj, items, late>>

\* The exchange that frees the mutex, and the event for the waiters.
Exchange0(t, r) ==
  /\ mutex' = [mutex EXCEPT !.lock = 0]
  /\ Go(t, IF mutex.lock < 0 THEN At(r, "set") ELSE Unlocked(r))

pthread_mutex_unlock(t) ==
  /\ Calls(t, {"unlock"}) \/ th[t].pc = "cond_unlock"
  /\ \/ mutex.kind = "normal" /\ Exchange0(t, Left(th[t]))
     \/ /\ mutex.kind = "errorcheck" /\ mutex.owner = t
        /\ mutex' = [mutex EXCEPT !.owner = NOHANDLE]
        /\ Go(t, At(Left(th[t]), "free"))
     \/ /\ mutex.kind = "errorcheck" /\ mutex.owner # t   \* EPERM
        /\ Go(t, Unlocked(th[t])) /\ UNCHANGED mutex
  /\ UNCHANGED <<cond, barrier, obj, items, late>>

UnlockFree(t) ==
  /\ th[t].pc = "free" /\ Exchange0(t, th[t])
  /\ UNCHANGED <<cond, barrier, obj, items, late>>

SetEvent(t) ==
  /\ th[t].pc = "set" /\ eset(t, Unlocked(th[t]))
  /\ UNCHANGED <<mutex, cond, barrier, items, late>>

-----------------------------------------------------------------------------
(* Critical sections.  The word counts the threads that want to be inside, *)
(* less one.                                                               *)

enter(t) ==
  /\ mutex.kind = "csect" /\ Calls(t, {"lock"})
  /\ IF mutex.owner = t
     THEN mutex' = [mutex EXCEPT !.recursion = @ + 1] /\ Go(t, Locked(th[t]))
     ELSE Go(t, At(th[t], "add")) /\ UNCHANGED mutex
  /\ UNCHANGED <<cond, barrier, obj, items, late>>

EnterAdd(t) ==
  /\ th[t].pc = "add"
  /\ mutex' = [mutex EXCEPT !.lock = @ + 1]
  /\ Go(t, At(th[t], IF mutex'.lock > 0 THEN "wait" ELSE "own"))
  /\ UNCHANGED <<cond, barrier, obj, items, late>>

EnterWait(t) ==
  /\ th[t].pc = "wait" /\ waitone(t, "event", "own")
  /\ UNCHANGED <<mutex, cond, barrier, items, late>>

leave(t) ==
  /\ mutex.kind = "csect" /\ Calls(t, {"unlock"})
  /\ \/ mutex.owner # t /\ Go(t, Unlocked(th[t])) /\ UNCHANGED mutex
     \/ /\ mutex.owner = t /\ mutex.recursion > 0
        /\ mutex' = [mutex EXCEPT !.recursion = @ - 1]
        /\ Go(t, Unlocked(Left(th[t])))
     \/ /\ mutex.owner = t /\ mutex.recursion = 0
        /\ mutex' = [mutex EXCEPT !.owner = NOHANDLE]
        /\ Go(t, At(Left(th[t]), "sub"))
  /\ UNCHANGED <<cond, barrier, obj, items, late>>

LeaveSub(t) ==
  /\ th[t].pc = "sub"
  /\ mutex' = [mutex EXCEPT !.lock = @ - 1]
  /\ Go(t, IF mutex'.lock >= 0 THEN At(th[t], "set") ELSE Unlocked(th[t]))
  /\ UNCHANGED <<cond, barrier, obj, items, late>>

-----------------------------------------------------------------------------
(* Condition variables.  A consumer holds the mutex and waits while there  *)
(* is no item: while (items == 0) pthread_cond_wait(...); items--.         *)

Put(t) ==
  /\ Calls(t, {"put"})
  /\ items' = items + 1 /\ Go(t, Returns(th[t]))
  /\ UNCHANGED <<mutex, cond, barrier, obj, late>>

Take(t) ==
  /\ Calls(t, Takes) /\ items > 0
  /\ items' = items - 1 /\ Go(t, Returns(th[t]))
  /\ UNCHANGED <<mutex, cond, barrier, obj, late>>

\* pthread_cond_wait and pthread_cond_timedwait: then the mutex is unlocked.
pthread_cond_wait(t) ==
  /\ Calls(t, Takes) /\ items = 0
  /\ cond' = [cond EXCEPT !.waiting = @ + 1] /\ Go(t, At(th[t], "cond_unlock"))
  /\ UNCHANGED <<mutex, barrier, obj, items, late>>

CondSleep(t) ==
  /\ th[t].pc = "cond_sleep" /\ waitone(t, "semaphore", "cond_woken")
  /\ UNCHANGED <<mutex, cond, barrier, items, late>>

CondWoken(t) ==
  /\ th[t].pc = "cond_woken"
  /\ cond' = [cond EXCEPT !.waiting = @ - 1] /\ Go(t, At(th[t], "relock"))
  /\ UNCHANGED <<mutex, barrier, obj, items, late>>

\* waiting is looked at, and for a broadcast it is read a second time.
pthread_cond_signal(t) ==
  /\ Calls(t, {"signal", "broadcast"})
  /\ Go(t, IF cond.waiting = 0 THEN Returns(th[t])
           ELSE IF Op(t) = "signal" THEN [th[t] EXCEPT !.pc = "post", !.n = 1]
           ELSE At(th[t], "count"))
  /\ UNCHANGED <<mutex, cond, barrier, obj, items, late>>

pthread_cond_broadcast(t) ==
  /\ th[t].pc = "count" /\ Go(t, [th[t] EXCEPT !.pc = "post", !.n = cond.waiting])
  /\ UNCHANGED <<mutex, cond, barrier, obj, items, late>>

CondPost(t) ==
  /\ th[t].pc = "post" /\ semrel(t, [Returns(th[t]) EXCEPT !.n = 0], "semaphore", th[t].n)
  /\ UNCHANGED <<mutex, cond, barrier, items, late>>

-----------------------------------------------------------------------------
(* Barriers.                                                               *)

pthread_barrier_wait(t) ==
  /\ Calls(t, {"barrier"})
  /\ Go(t, [th[t] EXCEPT !.pc = "arrive", !.step = barrier.step, !.entered = @ + 1])
  /\ UNCHANGED <<mutex, cond, barrier, obj, items, late>>

BarrierArrive(t) ==
  /\ th[t].pc = "arrive"
  /\ barrier' = [barrier EXCEPT !.curr_height = @ - 1]
  /\ Go(t, At(th[t], IF barrier'.curr_height = 0 THEN "reset" ELSE "stand"))
  /\ UNCHANGED <<mutex, cond, obj, items, late>>

BarrierReset(t) ==
  /\ th[t].pc = "reset"
  /\ barrier' = [barrier EXCEPT !.curr_height = barrier.init_height]
  /\ Go(t, At(th[t], IF barrier.init_height > 1 THEN "breech" ELSE "advance"))
  /\ UNCHANGED <<mutex, cond, obj, items, late>>

\* semrel returns the count before, which must be 0 to go on.
BarrierBreech(t) ==
  LET o == Breeched(th[t].step) IN
  /\ th[t].pc = "breech"
  /\ semrel(t, IF obj[o].count = 0 THEN At(th[t], "advance")
               ELSE [Returns(th[t]) EXCEPT !.left = @ + 1], o, barrier.init_height - 1)
  /\ UNCHANGED <<mutex, cond, barrier, items, late>>

\* Wrong: both rounds use one semaphore.
BarrierStandShared(t) ==
  /\ th[t].pc = "stand" /\ waitone(t, "b0", "advance")
  /\ UNCHANGED <<mutex, cond, barrier, items, late>>

BarrierStand(t) ==
  /\ th[t].pc = "stand" /\ waitone(t, Breeched(th[t].step), "advance")
  /\ UNCHANGED <<mutex, cond, barrier, items, late>>

\* The first to leave moves the barrier on, and is the one that is told so.
BarrierAdvance(t) ==
  LET first == barrier.step = th[t].step IN
  /\ th[t].pc = "advance"
  /\ barrier' = [barrier EXCEPT !.step = IF first THEN 1 - @ ELSE @]
  /\ Go(t, [Returns(th[t]) EXCEPT !.left = @ + 1,
                                 !.serial = IF first THEN @ \cup {th[t].entered} ELSE @])
  /\ UNCHANGED <<mutex, cond, obj, items, late>>

-----------------------------------------------------------------------------
\* The timeout of a wait expires.  A thread that sleeps leaves the queue and is
\* told that its wait has succeeded (expire_waitable_timer: see Objects), so it
\* goes on as if it had been released; one that has not gone to sleep yet is told
\* the truth.
Timeout(t) ==
  /\ late > 0 /\ late' = late - 1
  /\ \/ /\ th[t].pc = "asleep"
        /\ Op(t) = "timedlock" \/ (Op(t) = "timedtake" /\ th[t].next = "cond_woken")
        /\ Go(t, At(th[t], th[t].next))
        /\ \E o \in Objs : \E i \in 1 .. Len(obj[o].queue) :
             /\ obj[o].queue[i] = t
             /\ obj' = [obj EXCEPT ![o].queue = RemoveAt(@, i)]
     \/ /\ th[t].pc = "sleep" /\ Op(t) = "timedlock" /\ obj["event"].count = 0
        /\ Go(t, GivesUp(th[t])) /\ UNCHANGED obj
     \/ /\ th[t].pc = "cond_sleep" /\ Op(t) = "timedtake" /\ obj["semaphore"].count = 0
        /\ Go(t, At(th[t], "cond_woken")) /\ UNCHANGED obj
  /\ UNCHANGED <<mutex, cond, barrier, items>>

Step(t) ==
  \/ pthread_mutex_lock(t) \/ EDeadlk(t) \/ LockAgain(t) \/ LockSleep(t) \/ OwnEarly(t) \/ Own(t)
  \/ pthread_mutex_trylock(t) \/ pthread_mutex_unlock(t) \/ UnlockFree(t) \/ SetEvent(t)
  \/ enter(t) \/ EnterAdd(t) \/ EnterWait(t) \/ leave(t) \/ LeaveSub(t)
  \/ Put(t) \/ Take(t) \/ pthread_cond_wait(t) \/ CondSleep(t) \/ CondWoken(t)
  \/ pthread_cond_signal(t) \/ pthread_cond_broadcast(t) \/ CondPost(t)
  \/ pthread_barrier_wait(t) \/ BarrierArrive(t) \/ BarrierReset(t) \/ BarrierBreech(t)
  \/ BarrierStand(t) \/ BarrierAdvance(t)

Next == \E t \in Threads : Step(t) \/ Timeout(t)

Spec == Init /\ [][Next]_vars

\* A thread that can run is run in the end; timeouts need not expire.
FairSpec == Spec /\ \A t \in Threads : WF_vars(Step(t))

-----------------------------------------------------------------------------
(* Properties                                                              *)

\* One thread at a time is between a call of pthread_mutex_lock or enter that
\* succeeded and the unlock or leave that ends it, even where a waiter has
\* made itself the owner of a mutex that another thread holds.
MutualExclusion ==
  \A t, u \in Threads : th[t].depth > 0 /\ th[u].depth > 0 => t = u

\* No thread leaves a barrier before init_height threads have come, however far the others
\* are ahead or behind, and exactly one of each round is told that it is
\* the serial thread.
BarrierTogether ==
  /\ \A t \in Threads : th[t].left > 0 =>
       Cardinality({u \in Threads : th[u].entered >= th[t].left}) >= barrier.init_height
  /\ \A t \in Threads :
       /\ th[t].serial \subseteq 1 .. th[t].left
       /\ \A r \in 1 .. th[t].left : \E s \in Threads : \A u \in Threads : r \in th[u].serial <=> u = s

\* No wake-up is lost: with normal mutexes and critical sections every thread
\* gets the lock, the item or through the barrier, whatever the order in
\* which threads are woken, preempted and timed out.
AllFinish == <>(mutex.kind = "errorcheck" \/ \A t \in Threads : th[t].todo = <<>>)

=============================================================================
