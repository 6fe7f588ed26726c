------------------------------ MODULE Objects ------------------------------
(***************************************************************************)
(* The object manager, src/src/sys/krnl/object.c: waiting for one, any or  *)
(* all of several objects, with and without a timeout, in alertable and in *)
(* plain waits, and the operations that signal events, semaphores,         *)
(* mutexes, file mappings and threads.                                     *)
(*                                                                         *)
(* An action is one kernel call up to the point where the caller waits, or *)
(* the rest of a wait (Return).  An interrupted waiter becomes ready but   *)
(* keeps its wait blocks until it runs (state "alert"), so it can still be *)
(* released by what it waits for.                                          *)
(***************************************************************************)
EXTENDS Integers, Sequences, FiniteSets, SequencesExt

CONSTANTS
  Threads,
  AutoEvents, ManualEvents, Sems, Mutexes, Filemaps,
  Requests,   \* the waits threads make, see Request
  SetCounts,  \* the counts set_sem is called with
  Closable,   \* the objects whose last handle is closed
  ExitCode,   \* exit code of a thread
  MaxCount,   \* bound on semaphore counts and mutex recursion
  NULL

Objs == AutoEvents \cup ManualEvents \cup Sems \cup Mutexes \cup Filemaps \cup Threads

Request == [objs : Seq(Objs), all : BOOLEAN, timed : BOOLEAN, alertable : BOOLEAN]

ASSUME ObjectsAssumption ==
  /\ Requests \subseteq Request
  /\ \A r \in Requests : r.objs # <<>> /\ (r.all => Len(r.objs) > 1 /\ IsInjective(r.objs))
  /\ SetCounts \subseteq 0 .. MaxCount
  /\ Closable \subseteq Objs \ Threads
  /\ MaxCount \in Nat \ {0} /\ ExitCode \in Int
  /\ NULL \notin Threads \cup Requests /\ IsFiniteSet(Threads)
  \* an object has one type
  /\ AutoEvents \cap (ManualEvents \cup Sems \cup Mutexes \cup Filemaps \cup Threads) = {}
  /\ ManualEvents \cap (Sems \cup Mutexes \cup Filemaps \cup Threads) = {}
  /\ Sems \cap (Mutexes \cup Filemaps \cup Threads) = {}
  /\ Mutexes \cap (Filemaps \cup Threads) = {}
  /\ Filemaps \cap Threads = {}

EINTR == -4
ETIMEOUT == -70

\* A semaphore count is an unsigned int; the model takes it modulo this.
CountMod == MaxCount + 3

\* Bound on the tokens callers have been given and not been told of.
MaxTokens == MaxCount + 1

VARIABLES
  signaled, count, owner, recursion,
  waitlist,    \* object -> threads of its wait blocks, first waiter first
  wait,        \* thread -> the request it waits with, or NULL
  blocks,      \* thread -> whether its wait blocks are still linked (t->waitlist)
  timer,       \* thread -> "off", "armed" or "expired"
  waitkey, state,
  closed,      \* objects whose last handle is gone
  panicked,    \* a thread that was ready has been made ready again
  hung,        \* pulse_event spins
  held,        \* what threads were told: acquisitions less releases
  tokens       \* semaphore tokens not yet handed to a caller

wstate == <<waitlist, wait, blocks, timer, waitkey, state, panicked>>
ghosts == <<held, tokens>>
vars == <<signaled, count, owner, recursion, waitlist, wait, blocks, timer, waitkey, state,
          closed, panicked, hung, held, tokens>>

Lockables == Mutexes \cup Filemaps

-----------------------------------------------------------------------------
(* Wait blocks.                                                            *)

\* Where x stands in q, and how many elements of I come before i.
Positions(q, x) == {i \in DOMAIN q : q[i] = x}
Rank(I, i) == Cardinality({j \in I : j < i})

\* q without the threads of T, in the same order.
Kept(q, T) == {i \in DOMAIN q : q[i] \notin T}
Unlink(q, T) ==
  [k \in 1 .. Cardinality(Kept(q, T)) |-> q[CHOOSE i \in Kept(q, T) : Rank(Kept(q, T), i) = k - 1]]

\* thread_ready_to_run(t), given the signaled flags.  With no WAIT_ALL block
\* on the list the flag "all" is left at one.
SomeOf(sig, t) == \E i \in DOMAIN wait[t].objs : sig[wait[t].objs[i]]
AllOf(sig, t) == \A i \in DOMAIN wait[t].objs : sig[wait[t].objs[i]]
thread_ready_to_run(sig, t) == wait[t].all => AllOf(sig, t) \/ timer[t] = "expired"

\* The key it leaves in t->waitkey: that of the last signaled block.
KeyFor(sig, t) ==
  LET S == {i \in DOMAIN wait[t].objs : sig[wait[t].objs[i]]}
  IN IF S = {} THEN waitkey[t] ELSE (CHOOSE i \in S : \A j \in S : j <= i) - 1

\* A plausible slip in release_thread: the wait blocks stay on the lists.
release_keeps_links(T, S, key, twice) ==
  /\ blocks' = [t \in Threads |-> blocks[t] /\ t \notin T]
  /\ state' = [t \in Threads |-> IF t \in T /\ S[t] = "wait" THEN "woken" ELSE S[t]]
  /\ waitkey' = [t \in Threads |-> IF t \in T THEN key[t] ELSE waitkey[t]]
  /\ panicked' = (twice \/ \E t \in T : S[t] = "woken")
  /\ UNCHANGED <<wait, waitlist>>

\* release_thread for each thread of T, starting from thread states S:
\* cancel_wait unlinks its wait blocks and mark_thread_ready makes it ready
\* unless a signal already did.
release_thread(T, S, key, twice) ==
  /\ waitlist' = [o \in Objs |-> Unlink(waitlist[o], T)]
  /\ blocks' = [t \in Threads |-> blocks[t] /\ t \notin T]
  /\ state' = [t \in Threads |-> IF t \in T /\ S[t] = "wait" THEN "woken" ELSE S[t]]
  /\ waitkey' = [t \in Threads |-> IF t \in T THEN key[t] ELSE waitkey[t]]
  /\ panicked' = (twice \/ \E t \in T : S[t] = "woken")
  /\ UNCHANGED wait

\* Positions in o's wait list whose thread is ready once o is signaled.
ReadyAt(o, sig) ==
  {i \in DOMAIN waitlist[o] : thread_ready_to_run(sig, waitlist[o][i])}

\* A plausible slip in FirstReady: only the head of the list is looked at.
head_if_ready(o, sig, n) == {i \in ReadyAt(o, sig) : i <= n}

\* The first n of them: a loop over the wait list that stops after n releases.
FirstReady(o, sig, n) ==
  {i \in ReadyAt(o, sig) : Rank(ReadyAt(o, sig), i) < n}

ThreadsAt(o, I) == {waitlist[o][i] : i \in I}

\* A thread with two wait blocks on o is met again after its release: its
\* own list is empty by then, which thread_ready_to_run takes for ready.
Twice(o, I) == \E i, j \in I : /\ i # j /\ waitlist[o][i] = waitlist[o][j]
                               /\ state[waitlist[o][i]] = "wait"

Keys(sig) == [t \in Threads |-> IF wait[t] = NULL THEN waitkey[t] ELSE KeyFor(sig, t)]

-----------------------------------------------------------------------------
Init ==
  /\ signaled = [o \in Objs |-> o \in Mutexes \cup Filemaps]
  /\ count = [s \in Sems |-> 0]
  /\ owner = [m \in Mutexes |-> NULL]
  /\ recursion = [m \in Mutexes |-> 0]
  /\ waitlist = [o \in Objs |-> <<>>]
  /\ wait = [t \in Threads |-> NULL]
  /\ blocks = [t \in Threads |-> FALSE]
  /\ timer = [t \in Threads |-> "off"]
  /\ waitkey = [t \in Threads |-> 0]
  /\ state = [t \in Threads |-> "run"]
  /\ closed = {}
  /\ panicked = FALSE
  /\ hung = FALSE
  /\ held = [t \in Threads |-> [m \in Lockables |-> 0]]
  /\ tokens = [s \in Sems |-> 0]

\* Thread t executes kernel code: the kernel has not panicked or hung.
Runs(t) == state[t] = "run" /\ ~panicked /\ ~hung

\* A plausible slip in Entered: taking the last token leaves the semaphore signaled.
sem_stays_signaled(f, o) == IF o \in AutoEvents \cup Mutexes \cup Filemaps THEN FALSE ELSE f[o]

\* enter_object for each object of S, called by t.
Entered(f, o) == IF o \in AutoEvents \cup Mutexes \cup Filemaps \/ (o \in Sems /\ count[o] = 1)
                 THEN FALSE ELSE f[o]
enter_object(t, S) ==
  /\ signaled' = [o \in Objs |-> IF o \in S THEN Entered(signaled, o) ELSE signaled[o]]
  /\ count' = [s \in Sems |-> IF s \in S THEN (count[s] - 1) % CountMod ELSE count[s]]
  /\ owner' = [m \in Mutexes |-> IF m \in S THEN t ELSE owner[m]]
  /\ recursion' = [m \in Mutexes |-> IF m \in S THEN 1 ELSE recursion[m]]

\* What t is told when a wait for the objects of S succeeds.
Told(t, S) ==
  /\ held' = [held EXCEPT ![t] = [m \in Lockables |-> IF m \in S THEN @[m] + 1 ELSE @[m]]]
  /\ tokens' = [s \in Sems |-> IF s \in S THEN tokens[s] - 1 ELSE tokens[s]]

\* The objects a caller takes for acquired when its wait returns key.
TakenFor(r, key) ==
  IF key < 0 THEN {}
  ELSE IF r.all THEN Range(r.objs)
  ELSE IF key + 1 \in DOMAIN r.objs THEN {r.objs[key + 1]} ELSE {}

\* Some object of r can be entered at once: it is signaled or a mutex of t's.
Enterable(t, o) == signaled[o] \/ (o \in Mutexes /\ owner[o] = t)
Open(r) == \A i \in DOMAIN r.objs : r.objs[i] \notin closed

\* wait_for_one_object and wait_for_any_object that do not wait.
WaitAnyNow(t, r) ==
  /\ Runs(t) /\ ~r.all /\ Open(r)
  /\ \E i \in DOMAIN r.objs :
       LET o == r.objs[i]
           key == IF o \in Threads /\ ExitCode # 0 THEN ExitCode ELSE i - 1
       IN /\ Enterable(t, o) /\ \A j \in 1 .. (i - 1) : ~Enterable(t, r.objs[j])
          /\ \/ /\ signaled[o]
                /\ enter_object(t, {o})
             \/ /\ ~signaled[o] /\ recursion[o] < MaxCount
                /\ recursion' = [recursion EXCEPT ![o] = @ + 1]
                /\ UNCHANGED <<signaled, count, owner>>
          /\ Told(t, TakenFor(r, key))
  /\ UNCHANGED <<wstate, closed, hung>>

\* All objects of r can be entered at once: a mutex must be signaled and be
\* owned by the caller at the same time.
AllEnterable(t, r) ==
  \A i \in DOMAIN r.objs : LET o == r.objs[i] IN
    signaled[o] /\ (o \in Mutexes => owner[o] = t)

\* wait_for_all_objects that does not wait.
WaitAllNow(t, r) ==
  /\ Runs(t) /\ r.all /\ Open(r)
  /\ AllEnterable(t, r)
  /\ enter_object(t, Range(r.objs))
  /\ Told(t, Range(r.objs))
  /\ UNCHANGED <<wstate, closed, hung>>

\* insert_in_waitlist for every wait block, with the number of blocks on o.
Copies(r, o, t) == [i \in 1 .. Cardinality(Positions(r.objs, o)) |-> t]
\* A plausible slip in insert_in_waitlist: last come, first served.
insert_at_head(r, t) == [o \in Objs |-> Copies(r, o, t) \o waitlist[o]]

insert_in_waitlist(r, t) == [o \in Objs |-> waitlist[o] \o Copies(r, o, t)]

\* The waits up to dispatch(): wait blocks are linked in, the timer is set.
Block(t, r) ==
  /\ Runs(t) /\ Open(r)
  /\ IF r.all THEN ~AllEnterable(t, r)
              ELSE \A i \in DOMAIN r.objs : ~Enterable(t, r.objs[i])
  /\ waitlist' = insert_in_waitlist(r, t)
  /\ wait' = [wait EXCEPT ![t] = r]
  /\ blocks' = [blocks EXCEPT ![t] = TRUE]
  /\ timer' = [timer EXCEPT ![t] = IF r.timed THEN "armed" ELSE "off"]
  /\ state' = [state EXCEPT ![t] = "wait"]
  /\ UNCHANGED <<signaled, count, owner, recursion, waitkey, closed, panicked, hung, ghosts>>

\* The waits after dispatch(): an interrupted wait is cancelled, the timer
\* stopped, and the wait key returned.
Return(t) ==
  /\ state[t] \in {"woken", "alert"} /\ ~panicked /\ ~hung
  /\ LET key == IF state[t] = "alert" THEN EINTR ELSE waitkey[t]
     IN /\ waitkey' = [waitkey EXCEPT ![t] = 0]
        /\ Told(t, TakenFor(wait[t], key))
  /\ waitlist' = [o \in Objs |-> Unlink(waitlist[o], {t})]
  /\ wait' = [wait EXCEPT ![t] = NULL]
  /\ blocks' = [blocks EXCEPT ![t] = FALSE]
  /\ timer' = [timer EXCEPT ![t] = "off"]
  /\ state' = [state EXCEPT ![t] = "run"]
  /\ UNCHANGED <<signaled, count, owner, recursion, closed, panicked, hung>>

\* interrupt_thread: a signal ends an alertable wait.
Interrupt(t) ==
  /\ state[t] = "wait" /\ wait[t].alertable /\ ~panicked /\ ~hung
  /\ state' = [state EXCEPT ![t] = "alert"]
  /\ UNCHANGED <<signaled, count, owner, recursion, waitlist, wait, blocks, timer, waitkey,
                 closed, panicked, hung, ghosts>>

\* expire_waitable_timer of the timer of t's wait: release_waiters replaces
\* the key of the wait block by the key zero it is given.
ExpiryKey == 0
ExpireTimer(t) ==
  /\ timer[t] = "armed" /\ ~panicked /\ ~hung
  /\ timer' = [timer EXCEPT ![t] = "expired"]
  /\ IF blocks[t]
     THEN release_thread({t}, state, [u \in Threads |-> ExpiryKey], FALSE)
     ELSE UNCHANGED <<waitlist, wait, blocks, waitkey, state, panicked>>
  /\ UNCHANGED <<signaled, count, owner, recursion, closed, hung, ghosts>>

-----------------------------------------------------------------------------
(* Signaling.  c is the caller.                                            *)

\* set_event: an auto-reset event releases one thread and is reset.
set_event(c, e) ==
  /\ Runs(c) /\ e \notin closed
  /\ LET sig == [signaled EXCEPT ![e] = TRUE]
         I == IF e \in AutoEvents THEN FirstReady(e, sig, 1) ELSE ReadyAt(e, sig)
     IN /\ release_thread(ThreadsAt(e, I), state, Keys(sig), Twice(e, I))
        /\ signaled' = [signaled EXCEPT ![e] = e \in ManualEvents \/ I = {}]
  /\ UNCHANGED <<count, owner, recursion, timer, closed, hung, ghosts>>

reset_event(c, e) ==
  /\ Runs(c) /\ e \notin closed
  /\ signaled' = [signaled EXCEPT ![e] = FALSE]
  /\ UNCHANGED <<count, owner, recursion, wstate, closed, hung, ghosts>>

\* pulse_event: the loop advances only past threads it releases.
pulse_event(c, e) ==
  /\ Runs(c) /\ e \notin closed
  /\ LET sig == [signaled EXCEPT ![e] = TRUE]
         stuck == DOMAIN waitlist[e] \ ReadyAt(e, sig)
         I == {i \in IF e \in AutoEvents THEN FirstReady(e, sig, 1) ELSE ReadyAt(e, sig) :
                 \A j \in stuck : i < j}
     IN /\ release_thread(ThreadsAt(e, I), state, Keys(sig), Twice(e, I))
        /\ hung' = (stuck # {} /\ (e \in ManualEvents \/ I = {}))
        /\ signaled' = [signaled EXCEPT ![e] = hung']
  /\ UNCHANGED <<count, owner, recursion, timer, closed, ghosts>>

\* A plausible slip in HandOut: tokens given to waiters stay in the count.
hand_out_uncounted(s, n) ==
  LET sig == [signaled EXCEPT ![s] = TRUE] IN
  /\ count' = [count EXCEPT ![s] = n]
  /\ signaled' = sig
  /\ release_thread(ThreadsAt(s, FirstReady(s, sig, n)), state, Keys(sig), FALSE)

\* release_sem(s, n) and set_sem(s, n) give s the new count n; the count is
\* handed out to waiting threads, first come first served.
HandOut(s, n) ==
  LET sig == [signaled EXCEPT ![s] = TRUE]
      I == FirstReady(s, sig, n)
  IN IF n = 0
     THEN /\ count' = [count EXCEPT ![s] = 0]
          /\ UNCHANGED <<signaled, waitlist, wait, blocks, waitkey, state, panicked>>
     ELSE /\ count' = [count EXCEPT ![s] = n - Cardinality(I)]
          /\ signaled' = [signaled EXCEPT ![s] = n > Cardinality(I)]
          /\ release_thread(ThreadsAt(s, I), state, Keys(sig), Twice(s, I))

release_sem(c, s) ==
  /\ Runs(c) /\ s \notin closed
  /\ count[s] < MaxCount /\ tokens[s] < MaxTokens
  /\ HandOut(s, count[s] + 1)
  /\ tokens' = [tokens EXCEPT ![s] = @ + 1]
  /\ UNCHANGED <<owner, recursion, timer, closed, hung, held>>

set_sem(c, s, n) ==
  /\ Runs(c) /\ s \notin closed
  /\ tokens[s] - count[s] + n <= MaxTokens
  /\ HandOut(s, n)
  /\ tokens' = [tokens EXCEPT ![s] = @ - count[s] + n]
  /\ UNCHANGED <<owner, recursion, timer, closed, hung, held>>

\* A plausible slip in hand_over: the new owner is not recorded.
hand_over_unowned(m, sig) ==
  LET I == FirstReady(m, sig, 1) IN
  /\ release_thread(ThreadsAt(m, I), state, Keys(sig), FALSE)
  /\ signaled' = [signaled EXCEPT ![m] = I = {}]
  /\ owner' = [owner EXCEPT ![m] = NULL]
  /\ recursion' = [recursion EXCEPT ![m] = IF I = {} THEN 0 ELSE 1]

\* The first ready waiter gets the mutex; without one it is free.
hand_over(m, sig) ==
  LET I == FirstReady(m, sig, 1) IN
  /\ release_thread(ThreadsAt(m, I), state, Keys(sig), FALSE)
  /\ signaled' = [signaled EXCEPT ![m] = I = {}]
  /\ owner' = [owner EXCEPT ![m] = IF I = {} THEN NULL ELSE CHOOSE t \in ThreadsAt(m, I) : TRUE]
  /\ recursion' = [recursion EXCEPT ![m] = IF I = {} THEN 0 ELSE 1]

\* A plausible slip in release_mutex: the caller need not be the owner.
release_unchecked(t, m) ==
  /\ Runs(t) /\ m \notin closed /\ recursion[m] = 1
  /\ hand_over(m, [signaled EXCEPT ![m] = TRUE])
  /\ held' = [held EXCEPT ![t][m] = @ - 1]
  /\ UNCHANGED <<count, timer, closed, hung, tokens>>

release_mutex(t, m) ==
  /\ Runs(t) /\ m \notin closed
  /\ owner[m] = t
  /\ \/ /\ recursion[m] > 1
        /\ recursion' = [recursion EXCEPT ![m] = @ - 1]
        /\ UNCHANGED <<signaled, owner, waitlist, wait, blocks, waitkey, state, panicked>>
     \/ /\ recursion[m] = 1
        /\ hand_over(m, [signaled EXCEPT ![m] = TRUE])
  /\ held' = [held EXCEPT ![t][m] = @ - 1]
  /\ UNCHANGED <<count, timer, closed, hung, tokens>>

\* A plausible slip in unlock_filemap: the mapping stays signaled when handed on.
unlock_stays_signaled(t, f) ==
  /\ Runs(t) /\ f \notin closed
  /\ held[t][f] > 0
  /\ LET sig == [signaled EXCEPT ![f] = TRUE]
     IN /\ release_thread(ThreadsAt(f, FirstReady(f, sig, 1)), state, Keys(sig), FALSE)
        /\ signaled' = sig
  /\ held' = [held EXCEPT ![t][f] = @ - 1]
  /\ UNCHANGED <<count, owner, recursion, timer, closed, hung, tokens>>

\* unlock_filemap by the thread that locked it.
unlock_filemap(t, f) ==
  /\ Runs(t) /\ f \notin closed
  /\ held[t][f] > 0
  /\ LET sig == [signaled EXCEPT ![f] = TRUE]
         I == FirstReady(f, sig, 1)
     IN /\ release_thread(ThreadsAt(f, I), state, Keys(sig), FALSE)
        /\ signaled' = [signaled EXCEPT ![f] = I = {}]
  /\ held' = [held EXCEPT ![t][f] = @ - 1]
  /\ UNCHANGED <<count, owner, recursion, timer, closed, hung, tokens>>

\* exit_thread: release_waiters gives every waiter the exit code as its key.
exit_thread(t) ==
  /\ Runs(t)
  /\ LET sig == [signaled EXCEPT ![t] = TRUE]
         I == ReadyAt(t, sig)
     IN /\ release_thread(ThreadsAt(t, I), [state EXCEPT ![t] = "dead"],
                          [u \in Threads |-> ExitCode], Twice(t, I))
        /\ signaled' = sig
  /\ UNCHANGED <<count, owner, recursion, timer, closed, hung, ghosts>>

\* close_object, when the last handle goes: every waiter returns -EINTR.
close_object(c, o) ==
  /\ Runs(c) /\ o \in Closable \ closed
  /\ closed' = closed \cup {o}
  /\ release_thread(Range(waitlist[o]), state, [t \in Threads |-> EINTR], FALSE)
  /\ UNCHANGED <<signaled, count, owner, recursion, timer, hung, ghosts>>

Next ==
  \E t \in Threads :
    \/ \E r \in Requests : WaitAnyNow(t, r) \/ WaitAllNow(t, r) \/ Block(t, r)
    \/ Return(t) \/ Interrupt(t) \/ ExpireTimer(t) \/ exit_thread(t)
    \/ \E e \in AutoEvents \cup ManualEvents : set_event(t, e) \/ reset_event(t, e) \/ pulse_event(t, e)
    \/ \E s \in Sems : release_sem(t, s) \/ \E n \in SetCounts : set_sem(t, s, n)
    \/ \E m \in Mutexes : release_mutex(t, m)
    \/ \E f \in Filemaps : unlock_filemap(t, f)
    \/ \E o \in Objs : close_object(t, o)

Spec == Init /\ [][Next]_vars

-----------------------------------------------------------------------------
TypeOK ==
  /\ signaled \in [Objs -> BOOLEAN]
  /\ count \in [Sems -> 0 .. (CountMod - 1)]
  /\ owner \in [Mutexes -> Threads \cup {NULL}]
  /\ recursion \in [Mutexes -> 0 .. MaxCount]
  /\ waitlist \in [Objs -> Seq(Threads)]
  /\ wait \in [Threads -> Requests \cup {NULL}]
  /\ blocks \in [Threads -> BOOLEAN]
  /\ timer \in [Threads -> {"off", "armed", "expired"}]
  /\ waitkey \in [Threads -> Int]
  /\ state \in [Threads -> {"run", "wait", "woken", "alert", "dead"}]
  /\ closed \in SUBSET Objs
  /\ panicked \in BOOLEAN /\ hung \in BOOLEAN
  /\ held \in [Threads -> [Lockables -> Int]]
  /\ tokens \in [Sems -> Int]

\* What a released thread is going to be told it acquired.
Pending(t) == IF state[t] = "woken" THEN TakenFor(wait[t], waitkey[t]) ELSE {}

\* Wait blocks and the timer of a wait live on the waiting thread's stack: an
\* object's list holds a block exactly for the threads that are still inside
\* the wait and linked, and no timer runs for a wait that has returned.
NothingDangling ==
  /\ TypeOK
  /\ \A o \in Objs, t \in Threads :
       Cardinality(Positions(waitlist[o], t))
         = IF blocks[t] THEN Cardinality(Positions(wait[t].objs, o)) ELSE 0
  /\ \A t \in Threads : /\ state[t] = "wait" => blocks[t]
                        /\ state[t] \in {"run", "dead"} => ~blocks[t] /\ timer[t] = "off"

\* No lost wake-up: no thread sleeps although what it waits for has come.
NoMissedWakeup ==
  \A t \in Threads : state[t] = "wait" /\ ~hung =>
    IF wait[t].all THEN ~AllOf(signaled, t) ELSE ~SomeOf(signaled, t)

\* A mutex is owned by the thread that was told so, or will be told so when
\* it runs, as deeply as it was told, and by no other; it is signaled when it
\* has no owner (mutual exclusion, seen from the callers).  A file mapping,
\* which records no owner, is locked by one such thread unless it is signaled.
MutexAgrees ==
  /\ \A m \in Mutexes :
       /\ signaled[m] <=> owner[m] = NULL
       /\ \A t \in Threads :
            /\ m \in Pending(t) => owner[m] = t
            /\ held[t][m] = (IF owner[m] = t THEN recursion[m] ELSE 0)
                               - (IF m \in Pending(t) THEN 1 ELSE 0)
  /\ \A f \in Filemaps :
       Cardinality({t \in Threads : f \in Pending(t)})
         + Cardinality({t \in Threads : held[t][f] > 0}) = IF signaled[f] THEN 0 ELSE 1

\* Semaphore tokens are neither lost nor handed out twice: what has been
\* released and not been acquired is in the count or on its way to a thread,
\* and a wait succeeds at once exactly when the count is positive: "If count
\* reaches zero then set semaphore to the nonsignaled state" (object.c:707).
SemConserved ==
  \A s \in Sems :
    /\ tokens[s] = count[s] + Cardinality({t \in Threads : s \in Pending(t)})
    /\ signaled[s] <=> count[s] > 0

\* Nobody is overtaken: of the threads that wait for an object those that came
\* first stay ahead, and a mutex that its owner gives up goes to the first
\* waiter that can take it (one that waits for all of several objects may not
\* be able to).
InOrder(q, r) == IsPrefix(Unlink(q, Threads \ Range(r)), r)
ServedInOrder ==
  [][/\ \A o \in Objs : InOrder(waitlist[o], waitlist'[o])
     /\ \A m \in Mutexes : owner[m] # NULL /\ owner'[m] # owner[m] =>
          \E i \in 1 .. Len(waitlist[m]) + 1 :
            /\ \A j \in 1 .. i - 1 : wait[waitlist[m][j]].all
            /\ owner'[m] = IF i > Len(waitlist[m]) THEN NULL ELSE waitlist[m][i]]_vars
=============================================================================
