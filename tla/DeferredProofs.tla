--------------------------- MODULE DeferredProofs ---------------------------
(***************************************************************************)
(* Theorems about Deferred, for any number of devices and tasks.  The      *)
(* inductive invariant falls into two halves that no step mixes: DpcInv on *)
(* the DPC queue and TaskInv on the task queue.                            *)
(***************************************************************************)
EXTENDS Deferred, SequenceTheorems, TLAPS

\* The DPC queue: a DPC that has been taken out is in no queue, its QUEUED
\* flag is cleared and its EXECUTING flag set when its procedure starts.
DpcInv ==
  /\ dpc_queue \in Seq(Dpcs)
  /\ dpc_queued \in [Dpcs -> BOOLEAN] /\ dpc_executing \in [Dpcs -> BOOLEAN]
  /\ dpc \in Dpcs \cup {NULL} /\ dpc_pc \in {"off", "next", "taken", "proc", "ran"}
  /\ work \in [Dpcs -> 0 .. MaxWork] /\ burst \in 0 .. MaxBurst
  /\ dpc = NULL <=> dpc_pc \in {"off", "next"}
  /\ Distinct(dpc_queue)
  /\ \A d \in Dpcs : dpc_queued[d] <=> d \in Held(dpc_queue) \/ (dpc = d /\ dpc_pc = "taken")
  /\ dpc_pc = "taken" => dpc \notin Held(dpc_queue)
  /\ \A d \in Dpcs : dpc_executing[d] <=> dpc = d /\ dpc_pc \in {"proc", "ran"}
  /\ NoWorkForgotten

\* The task queue: a task that frees its own memory is queued only while it
\* is allocated and not executed, and the invalid mark never outlasts a task.
TaskInv ==
  /\ tq \in Seq(Tasks) /\ tq_size \in Nat
  /\ tq_active \in BOOLEAN /\ tq_invalid = FALSE /\ scribbled = FALSE
  /\ tq_thread \in {"ready", "waiting", "exec", "blocked"}
  /\ task \in Tasks \cup {NULL}
  /\ queued \in [Tasks -> BOOLEAN] /\ executing \in [Tasks -> BOOLEAN]
  /\ allocated \in [Tasks -> BOOLEAN]
  /\ task = NULL <=> tq_thread \in {"ready", "waiting"}
  /\ tq_active <=> task # NULL
  /\ Distinct(tq) /\ tq_size = Len(tq)
  /\ \A t \in Tasks : queued[t] <=> t \in Held(tq)
  /\ tq_thread = "waiting" => tq = <<>>
  /\ \A t \in Tasks : ~allocated[t] => t \in TcbTasks /\ ~queued[t] /\ task # t
  /\ \A t \in TcbTasks : task = t => ~queued[t]
  /\ \A t \in Tasks : allocated[t] => (executing[t] <=> task = t)

LEMMA ConstantFacts ==
  /\ TcbTasks \subseteq Tasks /\ NULL \notin Dpcs /\ NULL \notin Tasks
  /\ MaxWork \in Nat /\ MaxWork > 0 /\ MaxBurst \in Nat
  BY DeferredAssumption DEF DeferredAssumption

-----------------------------------------------------------------------------
(* What appending and removing do to a list of distinct elements. *)

LEMMA AppendHeld ==
  ASSUME NEW S, NEW s \in Seq(S), NEW x \in S, x \notin Held(s), Distinct(s)
  PROVE  /\ Append(s, x) \in Seq(S) /\ Len(Append(s, x)) = Len(s) + 1
         /\ Append(s, x) # <<>>
         /\ Held(Append(s, x)) = Held(s) \cup {x}
         /\ Distinct(Append(s, x))
<1>. DEFINE a == Append(s, x)
<1>1. /\ a \in Seq(S) /\ Len(a) = Len(s) + 1 /\ Len(s) \in Nat
      /\ a[Len(s) + 1] = x /\ \A i \in 1 .. Len(s) : a[i] = s[i]
  OBVIOUS
<1>2. a # <<>>
  BY <1>1
<1>. HIDE DEF a
<1>3. \A i \in 1 .. Len(s) : s[i] # x
  BY DEF Held
<1>4. Held(a) = Held(s) \cup {x}
  <2>1. \A y \in Held(a) : y \in Held(s) \cup {x}
    BY <1>1 DEF Held
  <2>2. \A y \in Held(s) : y \in Held(a)
    BY <1>1 DEF Held
  <2>3. x \in Held(a)
    BY <1>1 DEF Held
  <2>. QED BY <2>1, <2>2, <2>3
<1>5. Distinct(a)
  <2>. SUFFICES ASSUME NEW i \in 1 .. Len(s) + 1, NEW j \in 1 .. Len(s) + 1, a[i] = a[j]
                PROVE  i = j
    BY <1>1 DEF Distinct
  <2>1. CASE i = Len(s) + 1 \/ j = Len(s) + 1
    BY <2>1, <1>1, <1>3
  <2>2. CASE i \in 1 .. Len(s) /\ j \in 1 .. Len(s)
    BY <2>2, <1>1 DEF Distinct
  <2>. QED BY <1>1, <2>1, <2>2
<1>. QED BY <1>1, <1>2, <1>4, <1>5 DEF a

LEMMA TailHeld ==
  ASSUME NEW S, NEW s \in Seq(S), s # <<>>, Distinct(s)
  PROVE  /\ Head(s) \in S /\ Head(s) \in Held(s)
         /\ Tail(s) \in Seq(S) /\ Len(Tail(s)) = Len(s) - 1 /\ Len(s) \in Nat /\ Len(s) > 0
         /\ Held(Tail(s)) = Held(s) \ {Head(s)}
         /\ Distinct(Tail(s))
<1>. DEFINE r == Tail(s)
            h == Head(s)
<1>1. /\ h \in S /\ h = s[1] /\ Len(s) \in Nat /\ Len(s) > 0
      /\ r \in Seq(S) /\ Len(r) = Len(s) - 1
      /\ \A i \in 1 .. Len(r) : r[i] = s[i + 1]
  BY HeadTailProperties
<1>. HIDE DEF r, h
<1>2. h \in Held(s)
  BY <1>1 DEF Held
<1>3. Held(r) = Held(s) \ {h}
  <2>1. ASSUME NEW y \in Held(r) PROVE y \in Held(s) \ {h}
    <3>1. PICK i \in 1 .. Len(r) : y = r[i]
      BY DEF Held
    <3>2. y = s[i + 1] /\ i + 1 \in 1 .. Len(s) /\ i + 1 # 1 /\ 1 \in 1 .. Len(s)
      BY <3>1, <1>1
    <3>. QED BY <3>2, <1>1 DEF Held, Distinct
  <2>2. ASSUME NEW y \in Held(s), y # h PROVE y \in Held(r)
    <3>1. PICK i \in 1 .. Len(s) : y = s[i]
      BY DEF Held
    <3>2. i # 1 /\ i - 1 \in 1 .. Len(r) /\ r[i - 1] = s[i]
      BY <3>1, <2>2, <1>1
    <3>. QED BY <3>1, <3>2 DEF Held
  <2>. QED BY <2>1, <2>2
<1>4. Distinct(r)
  BY <1>1 DEF Distinct
<1>. QED BY <1>1, <1>2, <1>3, <1>4 DEF r, h

-----------------------------------------------------------------------------
(* The DPC queue. *)

LEMMA DpcInit == Init => DpcInv
<1>. SUFFICES ASSUME Init PROVE DpcInv
  OBVIOUS
<1>1. dpc_queue \in Seq(Dpcs) /\ Held(dpc_queue) = {} /\ Distinct(dpc_queue)
  BY DEF Init, Held, Distinct
<1>. QED
  BY <1>1, ConstantFacts DEF Init, DpcInv, NoWorkForgotten

LEMMA InterruptDpc == ASSUME DpcInv, NEW d \in Dpcs, Interrupt(d) PROVE DpcInv'
<1>1. CASE dpc_queued[d]
  BY <1>1, ConstantFacts DEF Interrupt, queue_irq_dpc, DpcInv, NoWorkForgotten
<1>2. CASE ~dpc_queued[d]
  <2>1. d \notin Held(dpc_queue) /\ dpc_queue' = Append(dpc_queue, d)
        /\ ~(dpc = d /\ dpc_pc = "taken")
    BY <1>2 DEF Interrupt, queue_irq_dpc, DpcInv
  <2>2. /\ dpc_queue' \in Seq(Dpcs) /\ Distinct(dpc_queue')
        /\ Held(dpc_queue') = Held(dpc_queue) \cup {d}
    BY <2>1, AppendHeld DEF DpcInv
  <2>3. dpc_queued' = [dpc_queued EXCEPT ![d] = TRUE]
    BY <1>2 DEF Interrupt, queue_irq_dpc
  <2>. QED
    BY <2>1, <2>2, <2>3, ConstantFacts DEF Interrupt, DpcInv, NoWorkForgotten
<1>. QED BY <1>1, <1>2

LEMMA GetNextDpc == ASSUME DpcInv, get_next_dpc PROVE DpcInv'
<1>1. /\ Head(dpc_queue) \in Dpcs /\ Head(dpc_queue) \in Held(dpc_queue)
      /\ Tail(dpc_queue) \in Seq(Dpcs) /\ Distinct(Tail(dpc_queue))
      /\ Held(Tail(dpc_queue)) = Held(dpc_queue) \ {Head(dpc_queue)}
  BY TailHeld DEF DpcInv, get_next_dpc
<1>2. dpc_queue' = Tail(dpc_queue) /\ dpc' = Head(dpc_queue) /\ dpc_pc' = "taken"
      /\ dpc_pc = "next" /\ dpc = NULL
  BY DEF get_next_dpc, DpcInv
<1>. QED
  BY <1>1, <1>2, ConstantFacts DEF get_next_dpc, DpcInv, NoWorkForgotten

LEMMA DpcSteps ==
  ASSUME DpcInv, check_dpc_queue \/ StartDpc \/ FinishDpc \/ LeaveDispatch PROVE DpcInv'
<1>1. CASE check_dpc_queue
  BY <1>1, ConstantFacts DEF check_dpc_queue, DpcInv, NoWorkForgotten
<1>2. CASE StartDpc
  <2>1. dpc \in Dpcs /\ dpc_pc = "taken" /\ ~dpc_executing[dpc]
    BY <1>2, ConstantFacts DEF StartDpc, DpcInv
  <2>. QED
    BY <1>2, <2>1, ConstantFacts DEF StartDpc, DpcInv, NoWorkForgotten
<1>3. CASE FinishDpc
  <2>1. dpc \in Dpcs /\ dpc_pc = "ran"
    BY <1>3, ConstantFacts DEF FinishDpc, DpcInv
  <2>. QED
    BY <1>3, <2>1, ConstantFacts DEF FinishDpc, DpcInv, NoWorkForgotten
<1>4. CASE LeaveDispatch
  BY <1>4, ConstantFacts DEF LeaveDispatch, DpcInv, NoWorkForgotten
<1>. QED BY <1>1, <1>2, <1>3, <1>4

LEMMA RunDpcDpc == ASSUME DpcInv, RunDpc PROVE DpcInv'
<1>1. dpc \in Dpcs /\ dpc_pc = "proc"
  BY ConstantFacts DEF RunDpc, DpcInv
<1>. QED
  BY <1>1, ConstantFacts DEF RunDpc, DpcInv, NoWorkForgotten

LEMMA DpcUnchanged == ASSUME DpcInv, UNCHANGED dpcs PROVE DpcInv'
  BY DEF dpcs, DpcInv, NoWorkForgotten

-----------------------------------------------------------------------------
(* The task queue. *)

LEMMA TaskInit == Init => TaskInv
<1>. SUFFICES ASSUME Init PROVE TaskInv
  OBVIOUS
<1>1. tq \in Seq(Tasks) /\ Held(tq) = {} /\ Distinct(tq) /\ Len(tq) = 0
  BY DEF Init, Held, Distinct
<1>. QED
  BY <1>1, ConstantFacts DEF Init, TaskInv

\* queue_task on a task that is allocated (or is being allocated: the
\* destroy_thread case), with what that does to the other flags.
LEMMA QueueTask ==
  ASSUME TaskInv, NEW t \in Tasks, queue_task(t),
         \/ t \notin TcbTasks /\ UNCHANGED <<executing, allocated>>
         \/ /\ t \in TcbTasks /\ ~allocated[t]
            /\ allocated' = [allocated EXCEPT ![t] = TRUE]
            /\ executing' = [executing EXCEPT ![t] = FALSE]
  PROVE  TaskInv'
<1>1. ~queued[t] /\ t \notin Held(tq)
  BY DEF queue_task, Accepts, TaskInv
<1>2. /\ tq' = Append(tq, t) /\ tq_size' = tq_size + 1
      /\ queued' = [queued EXCEPT ![t] = TRUE]
      /\ tq_active' = tq_active /\ tq_invalid' = tq_invalid /\ task' = task
      /\ scribbled' = scribbled
  BY DEF queue_task
<1>3. /\ tq' \in Seq(Tasks) /\ Len(tq') = Len(tq) + 1 /\ tq' # <<>>
      /\ Held(tq') = Held(tq) \cup {t} /\ Distinct(tq')
  BY <1>1, <1>2, AppendHeld DEF TaskInv
<1>4. /\ tq_thread' \in {"ready", "exec", "blocked"}
      /\ task = NULL <=> tq_thread' = "ready"
  BY DEF queue_task, wake, TaskInv
<1>5. /\ tq_size' \in Nat /\ tq_size' = Len(tq')
      /\ \A u \in Tasks : queued'[u] <=> u \in Held(tq')
  BY <1>2, <1>3 DEF TaskInv
<1>6. CASE t \notin TcbTasks /\ UNCHANGED <<executing, allocated>>
  BY <1>1, <1>2, <1>3, <1>4, <1>5, <1>6, ConstantFacts DEF TaskInv
<1>7. CASE /\ t \in TcbTasks /\ ~allocated[t]
           /\ allocated' = [allocated EXCEPT ![t] = TRUE]
           /\ executing' = [executing EXCEPT ![t] = FALSE]
  BY <1>1, <1>2, <1>3, <1>4, <1>5, <1>7, ConstantFacts DEF TaskInv
<1>. QED BY <1>6, <1>7

LEMMA TakeTaskTask == ASSUME TaskInv, TakeTask PROVE TaskInv'
<1>. DEFINE h == Head(tq)
<1>1. /\ h \in Tasks /\ h \in Held(tq) /\ Len(tq) > 0
      /\ tq' \in Seq(Tasks) /\ Len(tq') = Len(tq) - 1 /\ Len(tq) \in Nat
      /\ Held(tq') = Held(tq) \ {h} /\ Distinct(tq')
  BY TailHeld DEF TaskInv, TakeTask
<1>2. /\ task = NULL /\ tq_thread = "ready" /\ queued[h] /\ allocated[h] /\ ~executing[h]
  BY <1>1, ConstantFacts DEF TaskInv, TakeTask
<1>3. /\ tq_size' = tq_size - 1 /\ queued' = [queued EXCEPT ![h] = FALSE]
      /\ executing' = [executing EXCEPT ![h] = TRUE]
      /\ task' = h /\ tq_active' = TRUE /\ tq_thread' = "exec"
      /\ tq_invalid' = tq_invalid /\ allocated' = allocated /\ scribbled' = scribbled
  BY <1>2 DEF TakeTask
<1>. HIDE DEF h
<1>4. /\ tq_size' \in Nat /\ tq_size' = Len(tq')
      /\ \A u \in Tasks : queued'[u] <=> u \in Held(tq')
  BY <1>1, <1>3 DEF TaskInv
<1>. QED
  BY <1>1, <1>2, <1>3, <1>4, ConstantFacts DEF TaskInv

LEMMA TaskDoneTask == ASSUME TaskInv, TaskDone PROVE TaskInv'
<1>1. task \in Tasks /\ tq_thread = "exec" /\ ~tq_invalid
  BY ConstantFacts DEF TaskInv, TaskDone, EndTask
<1>2. /\ task' = NULL /\ tq_thread' = "ready" /\ tq_active' = FALSE /\ tq_invalid' = FALSE
      /\ tq' = tq /\ tq_size' = tq_size /\ queued' = queued
      /\ allocated' = [allocated EXCEPT ![task] = @ /\ task \notin TcbTasks]
  BY DEF TaskDone, EndTask
<1>3. CASE task \in TcbTasks
  <2>1. executing' = executing /\ scribbled' = scribbled /\ ~queued[task]
        /\ allocated' = [allocated EXCEPT ![task] = FALSE]
    BY <1>1, <1>2, <1>3 DEF TaskDone, EndTask, InvalidAfter, TaskInv
  <2>. QED
    BY <1>1, <1>2, <1>3, <2>1, ConstantFacts DEF TaskInv
<1>4. CASE task \notin TcbTasks
  <2>1. executing' = [executing EXCEPT ![task] = FALSE] /\ scribbled' = FALSE
        /\ allocated' = allocated
    BY <1>1, <1>2, <1>4 DEF TaskDone, EndTask, InvalidAfter, TaskInv
  <2>. QED
    BY <1>1, <1>2, <1>4, <2>1, ConstantFacts DEF TaskInv
<1>. QED BY <1>3, <1>4

LEMMA TaskWaits == ASSUME TaskInv, WaitForTask \/ ProcWaits \/ ProcWakes PROVE TaskInv'
<1>1. CASE WaitForTask
  BY <1>1, ConstantFacts DEF WaitForTask, TaskInv
<1>2. CASE ProcWaits
  BY <1>2, ConstantFacts DEF ProcWaits, TaskInv
<1>3. CASE ProcWakes
  BY <1>3, ConstantFacts DEF ProcWakes, TaskInv
<1>. QED BY <1>1, <1>2, <1>3

LEMMA TaskUnchanged == ASSUME TaskInv, UNCHANGED tasks PROVE TaskInv'
  BY DEF tasks, TaskInv

-----------------------------------------------------------------------------
(* The theorems. *)

\* DpcInv and TaskInv hold in every state of every behaviour of the queues in
\* sched.c: the inductive invariant behind the theorems below.
THEOREM DeferredInvariance == Spec => [](DpcInv /\ TaskInv)
<1>1. DpcInv /\ TaskInv /\ [Next]_vars => DpcInv' /\ TaskInv'
  <2>. SUFFICES ASSUME DpcInv, TaskInv, [Next]_vars PROVE DpcInv' /\ TaskInv'
    OBVIOUS
  <2>1. ASSUME NEW d \in Dpcs, Interrupt(d) PROVE DpcInv' /\ TaskInv'
    BY <2>1, InterruptDpc, TaskUnchanged DEF Interrupt
  <2>2. CASE check_dpc_queue
    BY <2>2, DpcSteps, TaskUnchanged DEF check_dpc_queue
  <2>3. CASE get_next_dpc
    BY <2>3, GetNextDpc, TaskUnchanged DEF get_next_dpc
  <2>4. CASE StartDpc
    BY <2>4, DpcSteps, TaskUnchanged DEF StartDpc
  <2>5. CASE RunDpc
    <3>1. DpcInv'
      BY <2>5, RunDpcDpc
    <3>2. TaskInv'
      <4>1. CASE UNCHANGED tasks
        BY <4>1, TaskUnchanged
      <4>2. ASSUME NEW t \in Tasks \ TcbTasks, queue_task(t), UNCHANGED <<executing, allocated>>
            PROVE  TaskInv'
        BY <4>2, QueueTask
      <4>. QED BY <2>5, <4>1, <4>2 DEF RunDpc
    <3>. QED BY <3>1, <3>2
  <2>6. CASE FinishDpc
    BY <2>6, DpcSteps, TaskUnchanged DEF FinishDpc
  <2>7. CASE LeaveDispatch
    BY <2>7, DpcSteps, TaskUnchanged DEF LeaveDispatch
  <2>8. CASE WaitForTask
    BY <2>8, TaskWaits, DpcUnchanged DEF WaitForTask
  <2>9. CASE TakeTask
    BY <2>9, TakeTaskTask, DpcUnchanged DEF TakeTask
  <2>10. CASE TaskDone
    BY <2>10, TaskDoneTask, DpcUnchanged DEF TaskDone, EndTask
  <2>11. CASE ProcWaits
    BY <2>11, TaskWaits, DpcUnchanged DEF ProcWaits
  <2>12. CASE ProcWakes
    BY <2>12, TaskWaits, DpcUnchanged DEF ProcWakes
  <2>13. ASSUME NEW t \in Tasks, ThreadQueues(t) PROVE DpcInv' /\ TaskInv'
    BY <2>13, QueueTask, DpcUnchanged DEF ThreadQueues
  <2>14. ASSUME NEW t \in Tasks, destroy_thread(t) PROVE DpcInv' /\ TaskInv'
    BY <2>14, QueueTask, DpcUnchanged DEF destroy_thread
  <2>15. CASE UNCHANGED vars
    BY <2>15, DpcUnchanged, TaskUnchanged DEF vars
  <2>. QED
    BY <2>1, <2>2, <2>3, <2>4, <2>5, <2>6, <2>7, <2>8, <2>9, <2>10, <2>11, <2>12, <2>13,
       <2>14, <2>15 DEF Next, DpcStep, QueueStep
<1>. QED
  BY DpcInit, TaskInit, <1>1, PTL DEF Spec

\* queue_irq_dpc and queue_task never link an element in twice, and the flags
\* and the size say what the lists hold.
THEOREM QueuesAlwaysAgree == Spec => []QueuesAgree
<1>1. DpcInv /\ TaskInv => QueuesAgree
  BY DEF DpcInv, TaskInv, QueuesAgree, TypeOK
<1>. QED BY <1>1, DeferredInvariance, PTL

\* dispatch_dpc_queue never forgets an interrupt, however many devices there
\* are and whenever they interrupt.
THEOREM InterruptsRemembered == Spec => []NoWorkForgotten
<1>1. DpcInv => NoWorkForgotten
  BY DEF DpcInv
<1>. QED BY <1>1, DeferredInvariance, PTL

\* task_queue_task never waits with a task in its queue, and a task's flag
\* TASK_EXECUTING is right whenever queue_task may be called on it.
THEOREM TasksNotStranded == Spec => [](NoTaskStranded /\ ExecutingExact)
<1>1. TaskInv => NoTaskStranded /\ ExecutingExact
  BY DEF TaskInv, NoTaskStranded, ExecutingExact
<1>. QED BY <1>1, DeferredInvariance, PTL

\* Nothing writes the control block of a thread after destroy_tcb has freed it.
THEOREM FreedNeverTouched == Spec => []FreedLeftAlone
<1>1. TaskInv => FreedLeftAlone
  <2>. SUFFICES ASSUME TaskInv, NEW t \in Held(tq) \cup ({task} \ {NULL})
                PROVE  ~scribbled /\ allocated[t]
    BY DEF FreedLeftAlone, TaskInv
  <2>1. t \in Tasks
    BY DEF Held, TaskInv
  <2>. QED BY <2>1 DEF TaskInv
<1>. QED BY <1>1, DeferredInvariance, PTL

\* A wait inside a task is never cut short by queue_task.
THEOREM ProcsUndisturbed == Spec => ProcUndisturbed
<1>1. TaskInv /\ [Next]_vars => [tq_thread = "blocked" /\ tq_thread' # "blocked" => ProcWakes]_vars
  <2>. SUFFICES ASSUME TaskInv, Next, tq_thread = "blocked", tq_thread' # "blocked"
                PROVE  ProcWakes
    OBVIOUS
  <2>1. tq_active /\ task # NULL
    BY ConstantFacts DEF TaskInv
  <2>2. ASSUME NEW t, queue_task(t) PROVE FALSE
    BY <2>1, <2>2 DEF queue_task, wake
  <2>. QED
    BY <2>1, <2>2 DEF Next, DpcStep, QueueStep, Interrupt, check_dpc_queue, get_next_dpc,
       StartDpc, RunDpc, FinishDpc, LeaveDispatch, WaitForTask, TakeTask, TaskDone, EndTask,
       ProcWaits, ThreadQueues, destroy_thread, tasks
<1>. QED BY <1>1, DeferredInvariance, PTL DEF Spec, ProcUndisturbed

=============================================================================
