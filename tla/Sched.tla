------------------------------- MODULE Sched -------------------------------
(***************************************************************************)
(* The thread scheduler, src/src/sys/krnl/sched.c, with signal posting     *)
(* from trap.c and the clock interrupt from pit.c.                         *)
(*                                                                         *)
(* One processor runs thread cur.  The kernel is not preemptive: between   *)
(* two calls of dispatch() the running thread's kernel code is one action. *)
(* dispatch() itself is two: it first runs the queued DPCs (phase          *)
(* "dispatch"), which may make threads ready, the one that is giving up    *)
(* the processor included, and then picks the next thread (Switch).        *)
(*                                                                         *)
(* What a thread waits for (an object, a timer, a pipe, a buffer) is a     *)
(* wake-up source that calls mark_thread_ready once: wakeup is the set of  *)
(* threads whose source has not done so and has not been cancelled.        *)
(***************************************************************************)
EXTENDS Integers, Sequences, FiniteSets

CONSTANTS
  Threads,       \* thread control blocks
  Idle,          \* the initial thread, later the idle thread
  UserThreads,   \* those with a TIB: they can be signalled, suspended, preempted
  Signalled,     \* the user threads that are sent signals
  Main,          \* the user thread that start.c creates as a kernel thread
  Levels,        \* THREAD_PRIORITY_LEVELS
  TimeCritical,  \* PRIORITY_TIME_CRITICAL
  InitPrio,      \* priority a thread is created with
  DefQuantum,    \* DEFAULT_QUANTUM
  PerTick,       \* QUANTUM_UNITS_PER_TICK
  MaxSuspend     \* bound on nested suspends

ASSUME SchedAssumption ==
  /\ Idle \in Threads /\ UserThreads \subseteq Threads \ {Idle}
  /\ Main \in UserThreads /\ Signalled \subseteq UserThreads
  /\ Levels \in Nat \ {0}
  /\ TimeCritical \in 0 .. (Levels - 1)
  /\ InitPrio \in [Threads -> 0 .. (Levels - 1)]
  /\ InitPrio[Idle] = 0
  /\ DefQuantum \in Nat \ {0} /\ PerTick \in Nat \ {0}
  /\ MaxSuspend \in Nat \ {0}

Prio == 0 .. (Levels - 1)

\* A thread that stays in kernel mode runs up a quantum debt without limit;
\* the model stops counting below this floor.
QuantumFloor == -PerTick

States == {"NONE", "INITIALIZED", "READY", "RUNNING", "WAITING", "TERMINATED", "SUSPENDED",
           "TRANSITION"}

VARIABLES
  thr,       \* thread -> scheduling fields of struct thread
  rq,        \* priority -> ready queue, head first
  summary,   \* priorities whose bit in thread_ready_summary is set
  preempt,   \* the preempt flag
  cur,       \* self()
  phase,     \* "run", or "dispatch" while dispatch() has not switched yet
  wakeup,    \* waiting threads whose wake-up source is armed
  panicked   \* mark_thread_ready has met a thread that was already ready

vars == <<thr, rq, summary, preempt, cur, phase, wakeup, panicked>>

Thread == [state : States, prio : Prio, base : Prio, quantum : Int,
           susp : 0 .. MaxSuspend, alertable : BOOLEAN, interrupted : BOOLEAN,
           pending : BOOLEAN, blocked : BOOLEAN]

NewThread(p) == [state |-> "NONE", prio |-> p, base |-> p, quantum |-> 0, susp |-> 0,
                 alertable |-> FALSE, interrupted |-> FALSE, pending |-> FALSE,
                 blocked |-> FALSE]

\* A user thread runs: it can make any system call.
InUserCall == phase = "run" /\ cur \in UserThreads

signals_ready(r) == r.pending /\ ~r.blocked

-----------------------------------------------------------------------------
(* Ready queues.  The queue functions take the queues R and the summary S  *)
(* they start from, so that a handler can use several of them in turn.     *)

InsertHead(R, p, t) == [R EXCEPT ![p] = <<t>> \o @]
InsertTail(R, p, t) == [R EXCEPT ![p] = Append(@, t)]

\* A plausible slip in SummaryInsert: the bit is not set.
NoSummaryInsert(R, S, p) == S

\* The summary bit is set only when the queue was empty.
SummaryInsert(R, S, p) == IF R[p] = <<>> THEN S \cup {p} ELSE S

Position(q, t) == CHOOSE i \in DOMAIN q : q[i] = t
Without(q, i) == [j \in 1 .. (Len(q) - 1) |-> IF j < i THEN q[j] ELSE q[j + 1]]

\* remove_from_ready_queue(t) unlinks t from the queue of its priority.
RemoveReady(t) ==
  [rq EXCEPT ![thr[t].prio] = Without(@, Position(@, t))]

SummaryRemove(t) ==
  IF Len(rq[thr[t].prio]) = 1 THEN summary \ {thr[t].prio} ELSE summary

HighestReady == CHOOSE p \in summary : \A q \in summary : q <= p

-----------------------------------------------------------------------------
(* mark_thread_ready(t, charge, boost), starting from threads T.           *)

Boosted(r, boost) ==
  LET raised == r.base + boost
      new == IF raised > TimeCritical THEN TimeCritical ELSE raised
  IN IF new > r.prio THEN new ELSE r.prio

Decayed(r, p) == IF p > r.base THEN p - 1 ELSE p

\* A plausible slip in Enqueues: the second wake-up is not dropped.
EnqueuesInterrupted(r) == r.susp = 0

\* The suspended and the interrupted thread return early.
Enqueues(r) == r.susp = 0 /\ ~(r.interrupted /\ r.state = "READY")
KeepsQuantum(r, charge) == r.quantum - charge > 0

\* A plausible slip in the record of a readied thread: a suspended thread misses its wake-up.
SuspendedKeepsWaiting(r, charge, boost) ==
  IF ~Enqueues(r) THEN r ELSE [r EXCEPT !.state = "READY", !.quantum = DefQuantum]

Readied(r, charge, boost) ==
  IF r.susp > 0 THEN [r EXCEPT !.state = "SUSPENDED"]
  ELSE IF ~Enqueues(r) THEN r
  ELSE IF KeepsQuantum(r, charge)
  THEN [r EXCEPT !.state = "READY", !.quantum = @ - charge, !.prio = Boosted(r, boost)]
  ELSE [r EXCEPT !.state = "READY", !.quantum = DefQuantum,
                 !.prio = Decayed(r, Boosted(r, boost))]

\* A plausible slip in mark_thread_ready: preempt is not set.
mark_ready_no_preempt(T, R, S, t, charge, boost) ==
  LET r == T[t]
      n == Readied(r, charge, boost)
  IN /\ thr' = [T EXCEPT ![t] = n]
     /\ rq' = IF Enqueues(r) THEN InsertTail(R, n.prio, t) ELSE R
     /\ summary' = IF Enqueues(r) THEN SummaryInsert(R, S, n.prio) ELSE S
     /\ UNCHANGED <<preempt, panicked>>

mark_thread_ready(T, R, S, t, charge, boost) ==
  LET r == T[t]
      n == Readied(r, charge, boost)
  IN /\ thr' = [T EXCEPT ![t] = n]
     /\ \/ /\ ~Enqueues(r)
           /\ rq' = R /\ summary' = S
           /\ UNCHANGED <<preempt, panicked>>
        \/ /\ Enqueues(r)
           /\ rq' = IF KeepsQuantum(r, charge) THEN InsertHead(R, n.prio, t)
                                               ELSE InsertTail(R, n.prio, t)
           /\ summary' = SummaryInsert(R, S, n.prio)
           /\ preempt' = (preempt \/ n.prio > thr'[cur].prio)
           /\ panicked' = (panicked \/ r.state = "READY")

\* A handler that ends in dispatch(): the preempt flag is cleared before the
\* DPCs run, whatever mark_thread_ready made of it.
mark_ready_and_dispatch(T, t) ==
  LET r == T[t]
      n == Readied(r, 0, 0)
  IN /\ thr' = [T EXCEPT ![t] = n]
     /\ rq' = IF KeepsQuantum(r, 0) THEN InsertHead(rq, n.prio, t)
                                    ELSE InsertTail(rq, n.prio, t)
     /\ summary' = SummaryInsert(rq, summary, n.prio)
     /\ preempt' = FALSE
     /\ phase' = "dispatch"
     /\ UNCHANGED panicked

-----------------------------------------------------------------------------
\* init_sched: the idle thread runs and its bit is set, its queue is empty.
Init ==
  /\ thr = [t \in Threads |-> IF t = Idle THEN [NewThread(0) EXCEPT !.state = "RUNNING"]
                                          ELSE NewThread(InitPrio[t])]
  /\ rq = [p \in Prio |-> <<>>]
  /\ summary = {0}
  /\ preempt = FALSE
  /\ cur = Idle
  /\ phase = "run"
  /\ wakeup = {}
  /\ panicked = FALSE

\* create_kernel_thread: ready at once.  mark_thread_ready signals preemption.
\* One of them, main, loads os.dll and becomes the first user thread.
CreateKernelThread(t) ==
  /\ phase = "run"
  /\ t \notin UserThreads \/ t = Main
  /\ thr[t].state = "NONE"
  /\ mark_thread_ready([thr EXCEPT ![t].state = "INITIALIZED"], rq, summary, t, 0, 0)
  /\ UNCHANGED <<cur, phase, wakeup>>

\* create_user_thread: created suspended; create_thread already compares the
\* priorities and signals preemption.
CreateUserThread(t) ==
  /\ InUserCall
  /\ t \in UserThreads \ {Main} /\ thr[t].state = "NONE"
  /\ thr' = [thr EXCEPT ![t].state = "INITIALIZED", ![t].susp = 1]
  /\ preempt' = (preempt \/ thr[t].prio > thr[cur].prio)
  /\ UNCHANGED <<rq, summary, cur, phase, wakeup, panicked>>

-----------------------------------------------------------------------------
(* The running thread gives up the processor.                              *)

enter_wait ==
  /\ phase = "run" /\ cur # Idle
  /\ thr' = [thr EXCEPT ![cur].state = "WAITING"]
  /\ wakeup' = wakeup \cup {cur}
  /\ preempt' = FALSE /\ phase' = "dispatch"
  /\ UNCHANGED <<rq, summary, cur, panicked>>

\* A plausible slip in enter_alertable_wait: pending signals are not looked at.
enter_unchecked_wait ==
  /\ phase = "run" /\ cur # Idle
  /\ thr' = [thr EXCEPT ![cur].state = "WAITING", ![cur].alertable = TRUE,
                        ![cur].interrupted = FALSE]
  /\ wakeup' = wakeup \cup {cur}
  /\ preempt' = FALSE /\ phase' = "dispatch"
  /\ UNCHANGED <<rq, summary, cur, panicked>>

\* With a signal ready the wait is not entered (-EINTR).
enter_alertable_wait ==
  /\ phase = "run" /\ cur # Idle
  /\ ~signals_ready(thr[cur])
  /\ thr' = [thr EXCEPT ![cur].state = "WAITING", ![cur].alertable = TRUE,
                        ![cur].interrupted = FALSE]
  /\ wakeup' = wakeup \cup {cur}
  /\ preempt' = FALSE /\ phase' = "dispatch"
  /\ UNCHANGED <<rq, summary, cur, panicked>>

yield ==
  /\ phase = "run" /\ cur # Idle
  /\ mark_ready_and_dispatch([thr EXCEPT ![cur].quantum = 0], cur)
  /\ UNCHANGED <<cur, wakeup>>

\* The idle loop gives way without giving up its quantum.
idle_task ==
  /\ phase = "run" /\ cur = Idle
  /\ mark_ready_and_dispatch(thr, Idle)
  /\ UNCHANGED <<cur, wakeup>>

\* A plausible slip in preempt_thread: the thread goes to the head of its queue.
preempt_to_head ==
  /\ InUserCall /\ preempt
  /\ thr' = [thr EXCEPT ![cur].state = "READY"]
  /\ rq' = InsertHead(rq, thr[cur].prio, cur)
  /\ summary' = SummaryInsert(rq, summary, thr[cur].prio)
  /\ preempt' = FALSE /\ phase' = "dispatch"
  /\ UNCHANGED <<cur, wakeup, panicked>>

\* check_preempt on the way back to user mode.
preempt_thread ==
  /\ InUserCall
  /\ preempt
  /\ LET r == thr[cur]
         n == IF r.quantum <= 0
              THEN [r EXCEPT !.state = "READY", !.quantum = DefQuantum,
                             !.prio = Decayed(r, r.prio)]
              ELSE [r EXCEPT !.state = "READY"]
     IN /\ thr' = [thr EXCEPT ![cur] = n]
        /\ rq' = InsertTail(rq, n.prio, cur)
        /\ summary' = SummaryInsert(rq, summary, n.prio)
  /\ preempt' = FALSE /\ phase' = "dispatch"
  /\ UNCHANGED <<cur, wakeup, panicked>>

terminate_thread ==
  /\ InUserCall
  /\ thr' = [thr EXCEPT ![cur].state = "TERMINATED"]
  /\ preempt' = FALSE /\ phase' = "dispatch"
  /\ UNCHANGED <<rq, summary, cur, wakeup, panicked>>

\* The rest of dispatch() and, in the thread switched to, the code after its
\* own dispatch(): an alertable wait ends by clearing both flags, and a wait
\* that was interrupted cancels its wake-up source.
Switch ==
  /\ phase = "dispatch"
  /\ summary # {}
  /\ LET p == HighestReady
         t == Head(rq[p])
     IN /\ cur' = t
        /\ rq' = [rq EXCEPT ![p] = Tail(@)]
        /\ summary' = IF Len(rq[p]) = 1 THEN summary \ {p} ELSE summary
        /\ thr' = [thr EXCEPT ![t].state = "RUNNING", ![t].alertable = FALSE,
                              ![t].interrupted = FALSE]
        /\ wakeup' = wakeup \ {t}
  /\ phase' = "run"
  /\ UNCHANGED <<preempt, panicked>>

-----------------------------------------------------------------------------
(* What the running thread or a DPC does to other threads.                 *)

\* A wake-up source fires: release_thread charges and boosts by one, a sleep
\* timer only charges, a pipe boosts by two, a task queue does neither.
Wake(t, charge, boost) ==
  /\ t \in wakeup
  /\ wakeup' = wakeup \ {t}
  /\ mark_thread_ready(thr, rq, summary, t, charge, boost)
  /\ UNCHANGED <<cur, phase>>

\* interrupt_thread(t), for a thread in state T[t] = WAITING.
interrupt_thread(T, t) ==
  IF T[t].state = "WAITING" /\ T[t].alertable
  THEN mark_thread_ready([T EXCEPT ![t].interrupted = TRUE], rq, summary, t, 1, 1)
  ELSE thr' = T /\ UNCHANGED <<rq, summary, preempt, panicked>>

\* send_user_signal(t, signum) for any signal but SIGCONT.  A signal that is
\* ready interrupts an alertable wait.
send_user_signal(t) ==
  /\ t \in Signalled /\ thr[t].state # "NONE"
  /\ LET T == [thr EXCEPT ![t].pending = TRUE]
     IN IF signals_ready(T[t]) THEN interrupt_thread(T, t)
        ELSE thr' = T /\ UNCHANGED <<rq, summary, preempt, panicked>>
  /\ UNCHANGED <<cur, phase, wakeup>>

\* resume_thread(t), starting from threads T.
resume(T, t) ==
  LET T1 == [T EXCEPT ![t].susp = @ - 1] IN
  IF T1[t].susp = 0 /\ T1[t].state \in {"SUSPENDED", "INITIALIZED"}
  THEN mark_thread_ready(T1, rq, summary, t, 0, 0)
  ELSE thr' = T1 /\ UNCHANGED <<rq, summary, preempt, panicked>>

\* A plausible slip in resume_thread: the count of a thread that is not suspended drops.
resume_uncounted(t) ==
  /\ InUserCall /\ t \in UserThreads
  /\ resume(thr, t)
  /\ UNCHANGED <<cur, phase, wakeup>>

resume_thread(t) ==
  /\ InUserCall
  /\ t \in UserThreads /\ thr[t].susp > 0
  /\ resume(thr, t)
  /\ UNCHANGED <<cur, phase, wakeup>>

\* send_user_signal(t, SIGCONT) to a suspended thread: it is resumed and the
\* signal stays pending, or interrupts the wait the thread is still in.
send_sigcont(t) ==
  /\ InUserCall
  /\ t \in Signalled /\ thr[t].state # "NONE" /\ thr[t].susp > 0
  /\ LET T == [thr EXCEPT ![t].pending = TRUE]
     IN IF thr[t].state = "WAITING" /\ signals_ready(T[t])
        THEN interrupt_thread([T EXCEPT ![t].susp = @ - 1], t)
        ELSE resume(T, t)
  /\ UNCHANGED <<cur, phase, wakeup>>

\* A plausible slip in suspend_thread: the thread stays in its queue.
suspend_count_only(t) ==
  /\ InUserCall /\ t \in UserThreads /\ thr[t].state # "NONE"
  /\ thr[t].susp < MaxSuspend
  /\ thr' = [thr EXCEPT ![t].susp = @ + 1]
  /\ UNCHANGED <<rq, summary, preempt, phase, cur, wakeup, panicked>>

\* suspend_thread(t): only the first suspend touches the thread.
suspend_thread(t) ==
  /\ InUserCall
  /\ t \in UserThreads /\ thr[t].state # "NONE"
  /\ thr[t].susp < MaxSuspend
  /\ LET T == [thr EXCEPT ![t].susp = @ + 1]
         first == thr[t].susp = 0
     IN \/ /\ first /\ thr[t].state = "READY"
           /\ rq' = RemoveReady(t) /\ summary' = SummaryRemove(t)
           /\ thr' = [T EXCEPT ![t].state = "SUSPENDED"]
           /\ UNCHANGED <<preempt, phase>>
        \/ /\ first /\ thr[t].state = "RUNNING"
           /\ thr' = [T EXCEPT ![t].state = "SUSPENDED"]
           /\ preempt' = FALSE /\ phase' = "dispatch"
           /\ UNCHANGED <<rq, summary>>
        \/ /\ ~(first /\ thr[t].state \in {"READY", "RUNNING"})
           /\ thr' = T
           /\ UNCHANGED <<rq, summary, preempt, phase>>
  /\ UNCHANGED <<cur, wakeup, panicked>>

\* A plausible slip in set_thread_priority: a ready thread stays in its old queue.
set_priority_no_requeue(t, p) ==
  /\ InUserCall /\ t \in UserThreads /\ thr[t].state # "NONE"
  /\ thr' = [thr EXCEPT ![t].base = p, ![t].prio = p]
  /\ UNCHANGED <<rq, summary, preempt, phase, panicked, cur, wakeup>>

\* set_thread_priority(t, p): the running thread requeues itself when its
\* priority drops, a ready thread moves to the queue of its new priority.
set_thread_priority(t, p) ==
  /\ InUserCall
  /\ t \in UserThreads /\ thr[t].state # "NONE"
  /\ thr[t].base # p
  /\ LET T == [thr EXCEPT ![t].base = p, ![t].prio = p]
     IN \/ /\ t = cur /\ p < thr[t].prio
           /\ mark_ready_and_dispatch(T, t)
        \/ /\ t # cur /\ thr[t].state = "READY"
           /\ mark_thread_ready([T EXCEPT ![t].state = "TRANSITION"],
                                RemoveReady(t), SummaryRemove(t), t, 0, 0)
           /\ UNCHANGED phase
        \/ /\ ~(t = cur /\ p < thr[t].prio) /\ ~(t # cur /\ thr[t].state = "READY")
           /\ thr' = T
           /\ UNCHANGED <<rq, summary, preempt, phase, panicked>>
  /\ UNCHANGED <<cur, wakeup>>

-----------------------------------------------------------------------------
\* set_signal_mask by the running thread.
set_signal_mask ==
  /\ InUserCall /\ cur \in Signalled
  /\ thr' = [thr EXCEPT ![cur].blocked = ~@]
  /\ UNCHANGED <<rq, summary, preempt, cur, phase, wakeup, panicked>>

\* deliver_pending_signals on the way back to user mode.
deliver_pending_signals ==
  /\ InUserCall
  /\ signals_ready(thr[cur])
  /\ thr' = [thr EXCEPT ![cur].pending = FALSE]
  /\ UNCHANGED <<rq, summary, preempt, cur, phase, wakeup, panicked>>

\* timer_handler: the clock interrupt charges whatever thread it interrupts.
timer_handler ==
  /\ LET left == thr[cur].quantum - PerTick
     IN /\ thr' = [thr EXCEPT ![cur].quantum = IF left < QuantumFloor THEN QuantumFloor ELSE left]
        /\ preempt' = (preempt \/ left <= 0)
  /\ UNCHANGED <<rq, summary, cur, phase, wakeup, panicked>>

Next ==
  \/ enter_wait \/ enter_alertable_wait \/ yield \/ idle_task \/ preempt_thread \/ terminate_thread
  \/ Switch
  \/ set_signal_mask \/ deliver_pending_signals \/ timer_handler
  \/ \E t \in Threads :
       \/ CreateKernelThread(t) \/ CreateUserThread(t)
       \/ \E w \in {<<1, 1>>, <<1, 0>>, <<1, 2>>, <<0, 0>>} : Wake(t, w[1], w[2])
       \/ send_user_signal(t) \/ send_sigcont(t)
       \/ suspend_thread(t) \/ resume_thread(t)
       \/ \E p \in Prio : set_thread_priority(t, p)

Spec == Init /\ [][Next]_vars

\* Interrupts keep coming, dispatch() ends, and a thread that need not leave
\* the kernel for ever returns to user mode, where it can be preempted.
FairSpec == Spec /\ WF_vars(timer_handler) /\ WF_vars(Switch) /\ WF_vars(idle_task)
                 /\ WF_vars(preempt_thread)

-----------------------------------------------------------------------------
TypeOK ==
  /\ thr \in [Threads -> Thread]
  /\ rq \in [Prio -> Seq(Threads)]
  /\ summary \in SUBSET Prio
  /\ preempt \in BOOLEAN
  /\ cur \in Threads
  /\ phase \in {"run", "dispatch"}
  /\ wakeup \in SUBSET Threads
  /\ panicked \in BOOLEAN

\* A ready thread is in the queue of its current priority, once, and no other
\* thread is in any queue, although priorities are boosted, decay and are set
\* while threads sit in the queues (sched.c:113 unlinks from the queue that
\* t->priority names).
QueuesHoldReady ==
  /\ \A p \in Prio : \A i \in DOMAIN rq[p] :
       /\ thr[rq[p][i]].state = "READY" /\ thr[rq[p][i]].prio = p
       /\ \A j \in DOMAIN rq[p] : rq[p][i] = rq[p][j] => i = j
  /\ \A t \in Threads : thr[t].state = "READY" => \E i \in DOMAIN rq[thr[t].prio] :
                                                   rq[thr[t].prio][i] = t

\* thread_ready_summary has the bit of every non-empty queue and of no other
\* one, except the idle thread's before that thread first gives way.
SummaryExact ==
  \A p \in Prio :
    /\ rq[p] # <<>> => p \in summary
    /\ p \in summary => rq[p] # <<>> \/ (p = 0 /\ cur = Idle /\ phase = "run")

\* dispatch() always finds a thread: neither panic("No thread ready to run")
\* nor a set bit over an empty queue.
DispatchFindsThread ==
  phase = "dispatch" => summary # {} /\ rq[HighestReady] # <<>>

\* panic("thread already ready") is unreachable: a thread that was woken by a
\* signal may be woken again by what it waited for, but only then.
NeverReadiedTwice == ~panicked

\* Neither panic of the scheduler is reached.
NeverPanics == NeverReadiedTwice /\ DispatchFindsThread

\* One thread runs, and none while dispatch() is choosing.
OneRuns ==
  {t \in Threads : thr[t].state = "RUNNING"} = IF phase = "run" THEN {cur} ELSE {}

\* A suspended thread is never ready or running, whatever wakes it up.
SuspendedStays ==
  \A t \in Threads : thr[t].susp > 0 => thr[t].state \notin {"READY", "RUNNING"}

\* A waiting thread can still be woken: no interleaving of signals, suspends
\* and wake-ups uses up its wake-up source and leaves it waiting.
WaitersCanWake ==
  \A t \in Threads : thr[t].state = "WAITING" => t \in wakeup

\* A thread does not sleep in an alertable wait with a signal ready
\* ("Interrupt thread if it is in an alertable wait", trap.c:488).
NoSleepWithSignal ==
  \A t \in Threads : ~(/\ thr[t].state = "WAITING" /\ thr[t].alertable
                       /\ signals_ready(thr[t]))

\* No wake-up is lost: not the one a thread waits for, however it is mixed with
\* signals and suspends, and not that of a signal.
NoWakeupLost == WaitersCanWake /\ NoSleepWithSignal

\* If a ready thread has a higher priority than the running one, preemption
\* is pending: no change of priorities or states forgets it.
PreemptionPending ==
  phase = "run" => \A t \in Threads :
    thr[t].state = "READY" /\ thr[t].prio > thr[cur].prio => preempt

\* "Boosting must never move threads to the realtime range" and "must never
\* decrease the dynamic priority" (sched.c:194): decay stops at the base.
BoostInRange ==
  \A t \in Threads : /\ thr[t].base <= thr[t].prio
                     /\ thr[t].prio > thr[t].base => thr[t].prio <= TimeCritical

\* The inductive invariant: the properties above, and what a single thread's
\* fields have to do with its state and its wake-up source.  A thread whose
\* source is armed waits, or was interrupted and has not run since; flags of
\* an alertable wait do not outlive it; the idle thread is always runnable.
ThreadInv(r, t, W) ==
  /\ r \in Thread
  /\ r.base <= r.prio /\ (r.prio > r.base => r.prio <= TimeCritical)
  /\ r.susp > 0 => r.state \notin {"READY", "RUNNING"}
  /\ t \in W => r.state = "WAITING" \/ (r.interrupted /\ r.state \in {"READY", "SUSPENDED"})
  /\ r.state = "WAITING" => t \in W
  /\ r.interrupted => r.state \in {"READY", "SUSPENDED"}
  /\ r.state = "RUNNING" => ~r.alertable
  /\ ~(r.state = "WAITING" /\ r.alertable /\ signals_ready(r))
IdleInv ==
  /\ thr[Idle].state \in {"READY", "RUNNING"}
  /\ thr[Idle].prio = 0 /\ thr[Idle].base = 0
  /\ Idle \notin wakeup
Inv ==
  /\ TypeOK /\ NeverReadiedTwice /\ OneRuns /\ IdleInv
  /\ \A t \in Threads : ThreadInv(thr[t], t, wakeup)
  /\ QueuesHoldReady /\ SummaryExact /\ PreemptionPending

\* Round robin at the highest priority: a ready thread of that priority does
\* not stay ready for ever.  Threads that are woken with part of their quantum
\* left go to the head of the queue, but only while the quantum lasts.
NoStarvationAtTop ==
  \A t \in UserThreads :
    [](thr[t].state = "READY" /\ thr[t].prio = Levels - 1
       => <>~(thr[t].state = "READY" /\ thr[t].prio = Levels - 1))
=============================================================================
