---------------------------- MODULE TimerService ----------------------------
(***************************************************************************)
(* What the timers of src/src/sys/krnl/timer.c promise their users, with   *)
(* no wheel, no interrupt and no deferred procedure call.  A timer that    *)
(* has been started is due at one tick of the service's clock; it goes off *)
(* during that tick and not before it, unless it is stopped or moved, and  *)
(* the clock passes no tick at which a timer is still due.                 *)
(***************************************************************************)
EXTENDS Integers

CONSTANTS
  Timers,   \* the timers of the system
  Moments,  \* values of the clock, a machine word: 0 .. 2^w - 1
  Never     \* the due time of a timer that is not running

VARIABLES
  clock,    \* the tick the service is working on
  due       \* when each timer goes off

vars == <<clock, due>>

TypeOK == clock \in Moments /\ due \in [Timers -> Moments \cup {Never}]

Init == clock = 0 /\ due = [t \in Timers |-> Never]

\* Start a timer, or move one that is running.
Set(t) ==
  /\ due' \in [Timers -> Moments \cup {Never}] /\ due'[t] \in Moments
  /\ \A u \in Timers \ {t} : due'[u] = due[u]
  /\ UNCHANGED clock

Cancel(t) == due' = [due EXCEPT ![t] = Never] /\ UNCHANGED clock

\* Timer t goes off.
Fire(t) ==
  /\ due[t] = clock
  /\ due' = [due EXCEPT ![t] = Never]
  /\ UNCHANGED clock

\* Nothing is due any more at this tick.
Advance ==
  /\ \A t \in Timers : due[t] # clock
  /\ clock' = IF clock + 1 \in Moments THEN clock + 1 ELSE 0
  /\ UNCHANGED due

Next ==
  \/ Advance
  \/ \E t \in Timers : Fire(t) \/ Cancel(t) \/ Set(t)

Spec == Init /\ [][Next]_vars

=============================================================================
