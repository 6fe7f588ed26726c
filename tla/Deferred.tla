------------------------------ MODULE Deferred ------------------------------
(***************************************************************************)
(* Work that is put off: the DPC queue and the system task queue of        *)
(* src/src/sys/krnl/sched.c.                                               *)
(*                                                                         *)
(* An interrupt handler notes that its device has work and queues its DPC. *)
(* dispatch_dpc_queue runs the queued DPCs, with interrupts enabled, when  *)
(* a thread gives up the CPU or returns to user mode; what cannot be done  *)
(* in a DPC because it may have to wait is queued as a task for the thread *)
(* of the task queue.  Threads queue tasks as well, among them the task    *)
(* inside a dead thread's control block that frees that very block         *)
(* (destroy_tcb).                                                          *)
(*                                                                         *)
(* Interrupts come between any two steps.  A thread only runs outside      *)
(* DPCs, and is atomic between its waits.                                  *)
(***************************************************************************)
EXTENDS Integers, Sequences

CONSTANTS
  Dpcs,      \* struct dpc objects, one per device
  Tasks,     \* struct task objects
  TcbTasks,  \* those that live in a thread control block and free it
  INFINITE,
  MaxSize,   \* maxsize of the task queue, or INFINITE
  MaxWork,   \* bound: events a device piles up
  MaxBurst,  \* bound: interrupts during one run of the DPC queue
  NULL

ASSUME DeferredAssumption ==
  /\ TcbTasks \subseteq Tasks
  /\ MaxSize \in Nat \cup {INFINITE} /\ INFINITE \notin Nat
  /\ MaxWork \in Nat \ {0} /\ MaxBurst \in Nat
  /\ NULL \notin Dpcs \cup Tasks

VARIABLES
  dpc_queue,      \* dpc_queue_head ... dpc_queue_tail
  dpc_queued,     \* DPC_QUEUED flag of each DPC
  dpc_executing,  \* DPC_EXECUTING flag of each DPC
  dpc,            \* the DPC that dispatch_dpc_queue holds, or NULL
  dpc_pc,         \* "off" (in_dpc = 0), "next", "taken", "proc" or "ran"
  work,           \* events of each device that its DPC has not handled
  burst,          \* interrupts since dispatch_dpc_queue started
  tq,             \* tq->head ... tq->tail
  tq_size,        \* tq->size
  tq_active,      \* TASK_QUEUE_ACTIVE
  tq_invalid,     \* TASK_QUEUE_ACTIVE_TASK_INVALID
  tq_thread,      \* thread of the queue: "ready", "waiting" for tasks,
                  \* "exec" in a proc, or "blocked" by a wait of the proc
  task,           \* the task it executes, or NULL
  queued,         \* TASK_QUEUED flag of each task
  executing,      \* TASK_EXECUTING flag of each task
  allocated,      \* whether the memory of each task is (still) its own
  scribbled       \* whether freed memory has been written

dpcs == <<dpc_queue, dpc_queued, dpc_executing, dpc, dpc_pc, work, burst>>
tasks == <<tq, tq_size, tq_active, tq_invalid, tq_thread, task, queued, executing,
           allocated, scribbled>>
vars == <<dpcs, tasks>>

\* The elements of a linked list; an element can only be linked in once.
Held(s) == {s[i] : i \in 1 .. Len(s)}
Distinct(s) == \A i, j \in 1 .. Len(s) : s[i] = s[j] => i = j

TypeOK ==
  /\ dpc_queue \in Seq(Dpcs) /\ tq \in Seq(Tasks)
  /\ dpc_queued \in [Dpcs -> BOOLEAN] /\ dpc_executing \in [Dpcs -> BOOLEAN]
  /\ dpc \in Dpcs \cup {NULL} /\ dpc_pc \in {"off", "next", "taken", "proc", "ran"}
  /\ work \in [Dpcs -> 0 .. MaxWork] /\ burst \in 0 .. MaxBurst
  /\ tq_size \in Nat /\ tq_active \in BOOLEAN /\ tq_invalid \in BOOLEAN
  /\ tq_thread \in {"ready", "waiting", "exec", "blocked"}
  /\ task \in Tasks \cup {NULL}
  /\ queued \in [Tasks -> BOOLEAN] /\ executing \in [Tasks -> BOOLEAN]
  /\ allocated \in [Tasks -> BOOLEAN] /\ scribbled \in BOOLEAN

Init ==
  /\ dpc_queue = <<>> /\ dpc = NULL /\ dpc_pc = "off" /\ burst = 0
  /\ dpc_queued = [d \in Dpcs |-> FALSE] /\ dpc_executing = [d \in Dpcs |-> FALSE]
  /\ work = [d \in Dpcs |-> 0]
  /\ tq = <<>> /\ tq_size = 0 /\ tq_active = FALSE /\ tq_invalid = FALSE
  /\ tq_thread = "ready" /\ task = NULL
  /\ queued = [t \in Tasks |-> FALSE] /\ executing = [t \in Tasks |-> FALSE]
  /\ allocated = [t \in Tasks |-> t \notin TcbTasks] /\ scribbled = FALSE

-----------------------------------------------------------------------------
(* The DPC queue. *)

\* A plausible slip: the flag is not tested, so a DPC is queued twice.
queue_irq_dpc_again(d) ==
  /\ dpc_queue' = Append(dpc_queue, d)
  /\ dpc_queued' = [dpc_queued EXCEPT ![d] = TRUE]

queue_irq_dpc(d) ==
  \/ /\ dpc_queued[d]
     /\ UNCHANGED <<dpc_queue, dpc_queued>>
  \/ /\ ~dpc_queued[d]
     /\ dpc_queue' = Append(dpc_queue, d)
     /\ dpc_queued' = [dpc_queued EXCEPT ![d] = TRUE]

\* A device interrupts.  Its handler leaves the work to the DPC.
Interrupt(d) ==
  /\ work[d] < MaxWork
  /\ dpc_pc # "off" => burst < MaxBurst
  /\ work' = [work EXCEPT ![d] = @ + 1]
  /\ burst' = IF dpc_pc = "off" THEN burst ELSE burst + 1
  /\ queue_irq_dpc(d)
  /\ UNCHANGED <<dpc_executing, dpc, dpc_pc, tasks>>

\* check_dpc_queue, in dispatch and on the way back to user mode.
check_dpc_queue ==
  /\ dpc_pc = "off" /\ dpc_queue # <<>>
  /\ dpc_pc' = "next" /\ burst' = 0
  /\ UNCHANGED <<dpc_queue, dpc_queued, dpc_executing, dpc, work, tasks>>

get_next_dpc ==
  /\ dpc_pc = "next" /\ dpc_queue # <<>>
  /\ dpc' = Head(dpc_queue) /\ dpc_queue' = Tail(dpc_queue)
  /\ dpc_pc' = "taken"
  /\ UNCHANGED <<dpc_queued, dpc_executing, work, burst, tasks>>

\* Clear DPC_QUEUED and call the procedure, unless it is being executed.
StartDpc ==
  /\ dpc_pc = "taken"
  /\ dpc_queued' = [dpc_queued EXCEPT ![dpc] = FALSE]
  /\ IF dpc_executing[dpc]
       THEN dpc_pc' = "next" /\ dpc' = NULL /\ UNCHANGED dpc_executing
       ELSE /\ dpc_pc' = "proc" /\ UNCHANGED dpc
            /\ dpc_executing' = [dpc_executing EXCEPT ![dpc] = TRUE]
  /\ UNCHANGED <<dpc_queue, work, burst, tasks>>

\* A plausible slip: DPC_QUEUED is cleared after the call, not before it.
FinishDpcClears ==
  /\ dpc_pc = "ran"
  /\ dpc_executing' = [dpc_executing EXCEPT ![dpc] = FALSE]
  /\ dpc_queued' = [dpc_queued EXCEPT ![dpc] = FALSE]
  /\ dpc_pc' = "next" /\ dpc' = NULL
  /\ UNCHANGED <<dpc_queue, work, burst, tasks>>

\* Another: DPC_EXECUTING is not cleared.
FinishDpcExecuting ==
  /\ dpc_pc = "ran"
  /\ dpc_pc' = "next" /\ dpc' = NULL
  /\ UNCHANGED <<dpc_queue, dpc_queued, dpc_executing, work, burst, tasks>>

FinishDpc ==
  /\ dpc_pc = "ran"
  /\ dpc_executing' = [dpc_executing EXCEPT ![dpc] = FALSE]
  /\ dpc_pc' = "next" /\ dpc' = NULL
  /\ UNCHANGED <<dpc_queue, dpc_queued, work, burst, tasks>>

\* The queue is empty: in_dpc = 0.
LeaveDispatch ==
  /\ dpc_pc = "next" /\ dpc_queue = <<>>
  /\ dpc_pc' = "off" /\ burst' = 0
  /\ UNCHANGED <<dpc_queue, dpc_queued, dpc_executing, dpc, work, tasks>>

-----------------------------------------------------------------------------
(* The task queue. *)

\* A plausible slip: the queue wakes its thread also from a wait of the task.
wake_blocked == tq_thread' = CASE tq_thread = "waiting" -> "ready"
                               [] tq_thread = "blocked" -> "exec"
                               [] OTHER -> tq_thread

\* mark_thread_ready on the thread of the queue, if it waits and not for a
\* task that it executes.
wake == tq_thread' = IF ~tq_active /\ tq_thread \in {"waiting", "blocked"}
                       THEN "ready" ELSE tq_thread

\* queue_task returns an error if the task is queued or the queue is full.
Accepts(t) == ~queued[t] /\ (MaxSize # INFINITE => tq_size < MaxSize)

\* A plausible slip: the size is not counted.
queue_task_uncounted(t) ==
  /\ Accepts(t)
  /\ queued' = [queued EXCEPT ![t] = TRUE]
  /\ tq' = Append(tq, t)
  /\ wake
  /\ UNCHANGED <<tq_size, tq_active, tq_invalid, task, scribbled>>

queue_task(t) ==
  /\ Accepts(t)
  /\ queued' = [queued EXCEPT ![t] = TRUE]
  /\ tq' = Append(tq, t) /\ tq_size' = tq_size + 1
  /\ wake
  /\ UNCHANGED <<tq_active, tq_invalid, task, scribbled>>

\* The procedure of a DPC handles what its device has; a timer handler or a
\* driver may queue a task from here.
RunDpc ==
  /\ dpc_pc = "proc" /\ dpc_pc' = "ran"
  /\ work' = [work EXCEPT ![dpc] = 0]
  /\ \/ UNCHANGED tasks
     \/ \E t \in Tasks \ TcbTasks : queue_task(t) /\ UNCHANGED <<executing, allocated>>
  /\ UNCHANGED <<dpc_queue, dpc_queued, dpc_executing, dpc, burst>>

\* A thread queues a task.
ThreadQueues(t) ==
  /\ dpc_pc = "off" /\ t \notin TcbTasks
  /\ queue_task(t)
  /\ UNCHANGED <<executing, allocated, dpcs>>

\* destroy_thread: init_task and queue_task on a task in the dead thread's
\* control block, which may be the memory that an earlier one has left.
destroy_thread(t) ==
  /\ dpc_pc = "off" /\ t \in TcbTasks /\ ~allocated[t]
  /\ queue_task(t)
  /\ allocated' = [allocated EXCEPT ![t] = TRUE]
  /\ executing' = [executing EXCEPT ![t] = FALSE]
  /\ UNCHANGED dpcs

\* task_queue_task, from the wait to the call of a task's procedure.
WaitForTask ==
  /\ dpc_pc = "off" /\ tq_thread = "ready" /\ tq = <<>>
  /\ tq_thread' = "waiting"
  /\ UNCHANGED <<tq, tq_size, tq_active, tq_invalid, task, queued, executing, allocated,
                 scribbled, dpcs>>

TakeTask ==
  /\ dpc_pc = "off" /\ tq_thread = "ready" /\ tq # <<>>
  /\ tq' = Tail(tq) /\ tq_size' = tq_size - 1
  /\ queued' = [queued EXCEPT ![Head(tq)] = FALSE]
  /\ IF executing[Head(tq)]
       THEN UNCHANGED <<executing, task, tq_active, tq_thread>>
       ELSE /\ executing' = [executing EXCEPT ![Head(tq)] = TRUE]
            /\ task' = Head(tq) /\ tq_active' = TRUE /\ tq_thread' = "exec"
  /\ UNCHANGED <<tq_invalid, allocated, scribbled, dpcs>>

\* The procedure of a task waits for something, and gets it.
ProcWaits ==
  /\ dpc_pc = "off" /\ tq_thread = "exec" /\ task \notin TcbTasks
  /\ tq_thread' = "blocked"
  /\ UNCHANGED <<tq, tq_size, tq_active, tq_invalid, task, queued, executing, allocated,
                 scribbled, dpcs>>

ProcWakes ==
  /\ tq_thread = "blocked" /\ tq_thread' = "exec"
  /\ UNCHANGED <<tq, tq_size, tq_active, tq_invalid, task, queued, executing, allocated,
                 scribbled, dpcs>>

\* A plausible slip: destroy_tcb does not set the mark below.
InvalidNever == tq_invalid

\* destroy_tcb frees the memory that the task is in and marks it as invalid.
InvalidAfter == tq_invalid \/ task \in TcbTasks

\* The procedure has returned: take back TASK_EXECUTING, unless the memory is
\* not the task's any more.
EndTask ==
  /\ dpc_pc = "off" /\ tq_thread = "exec"
  /\ allocated' = [allocated EXCEPT ![task] = @ /\ task \notin TcbTasks]
  /\ IF InvalidAfter THEN UNCHANGED <<executing, scribbled>>
     ELSE /\ executing' = [executing EXCEPT ![task] = FALSE]
          /\ scribbled' = (scribbled \/ task \in TcbTasks)
  /\ task' = NULL /\ tq_thread' = "ready"
  /\ UNCHANGED <<tq, tq_size, queued, dpcs>>

\* Plausible slips: one of the two flags of the queue is not reset.
TaskDoneInvalid == EndTask /\ tq_active' = FALSE /\ tq_invalid' = InvalidAfter
TaskDoneActive == EndTask /\ tq_invalid' = FALSE /\ UNCHANGED tq_active

TaskDone == EndTask /\ tq_active' = FALSE /\ tq_invalid' = FALSE

DpcStep == check_dpc_queue \/ get_next_dpc \/ StartDpc \/ RunDpc \/ FinishDpc \/ LeaveDispatch
QueueStep == WaitForTask \/ TakeTask \/ TaskDone

Next ==
  \/ \E d \in Dpcs : Interrupt(d)
  \/ DpcStep \/ QueueStep \/ ProcWaits \/ ProcWakes
  \/ \E t \in Tasks : ThreadQueues(t) \/ destroy_thread(t)

\* DPCs run at every dispatch and every return to user mode.  The thread of the
\* task queue has a normal priority and gets the CPU again and again, although
\* DPCs interrupt it; what a procedure waits for comes.
Fairness == WF_vars(DpcStep) /\ SF_vars(QueueStep) /\ WF_vars(ProcWakes)

Spec == Init /\ [][Next]_vars
FairSpec == Spec /\ Fairness

-----------------------------------------------------------------------------
(* Properties. *)

\* The queues and the flags agree: queue_irq_dpc and queue_task rely on the
\* flags alone to keep an element from being linked in twice, which would cut
\* off or close the list; size counts the tasks.
QueuesAgree ==
  /\ TypeOK
  /\ Distinct(dpc_queue) /\ Distinct(tq)
  /\ \A d \in Dpcs : dpc_queued[d] <=> d \in Held(dpc_queue) \/ (dpc = d /\ dpc_pc = "taken")
  /\ \A t \in Tasks : queued[t] <=> t \in Held(tq)
  /\ tq_size = Len(tq)

\* No interrupt is forgotten: work that a device has signaled is waiting for a
\* DPC that is queued, or has been taken and will still look at it.  An
\* interrupt that finds its DPC queued (dpc_lost) must not be lost.
NoWorkForgotten ==
  \A d \in Dpcs : work[d] > 0 =>
    dpc_queued[d] \/ (dpc = d /\ dpc_pc \in {"taken", "proc"})

\* No wake-up of the task queue is lost: its thread does not wait for tasks
\* while there is one.
NoTaskStranded == tq_thread = "waiting" => tq = <<>>

\* destroy_tcb: neither the queue nor task_queue_task touches a task whose
\* memory has been freed.
FreedLeftAlone == ~scribbled /\ \A t \in Held(tq) \cup ({task} \ {NULL}) : allocated[t]

\* TASK_EXECUTING is set exactly for the task whose procedure runs, or a later
\* queue_task of it would be dropped by task_queue_task.
ExecutingExact == \A t \in Tasks : allocated[t] => (executing[t] <=> task = t)

\* queue_task leaves a procedure alone that waits for something else.
ProcUndisturbed == [][tq_thread = "blocked" /\ tq_thread' # "blocked" => ProcWakes]_vars

\* What is queued is done: the procedure of a queued task gets called, and
\* what a device has signaled is handled by its DPC.
WorkDone ==
  /\ \A t \in Tasks : queued[t] ~> (task = t)
  /\ \A d \in Dpcs : (work[d] > 0) ~> (work[d] = 0)

=============================================================================
