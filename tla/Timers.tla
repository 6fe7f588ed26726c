------------------------------- MODULE Timers -------------------------------
(***************************************************************************)
(* Kernel timers: the timer wheel of src/src/sys/krnl/timer.c, driven by   *)
(* the clock interrupt of pit.c through the timer DPC.                     *)
(*                                                                         *)
(* The interrupt only counts ticks and queues the DPC; it may come at any  *)
(* moment, also while the DPC runs.  The DPC (run_timer_list) takes the    *)
(* wheel from timer_ticks up to ticks and calls the handlers, which may    *)
(* start, move and stop timers themselves.  Threads use timers only        *)
(* between DPCs, since the kernel is not preemptive.                       *)
(*                                                                         *)
(* The wheel has NOOF_TVECS levels.  Level 1 has one slot per tick, a slot *)
(* of level n + 1 covers one turn of level n.  A timer is put in the level *)
(* that its distance from timer_ticks calls for and is moved down when the *)
(* wheel reaches its slot.  Counters are machine words of W bits, the      *)
(* width that the levels add up to (8 + 4 * 6 = 32 in the kernel).         *)
(***************************************************************************)
EXTENDS Integers

CONSTANTS
  TVR_BITS, TVN_BITS, NOOF_TVECS,
  Timers,   \* struct timer objects in use
  Delays,   \* how far ahead, in ticks, timers are set
  MaxLag    \* bound: ticks the timer DPC may be behind the interrupt

TVR_SIZE == 2 ^ TVR_BITS
TVN_SIZE == 2 ^ TVN_BITS
W == TVR_BITS + (NOOF_TVECS - 1) * TVN_BITS
Words == 0 .. (2 ^ W - 1)

ASSUME WheelAssumption ==
  /\ TVR_BITS \in Nat \ {0} /\ TVN_BITS \in Nat \ {0} /\ NOOF_TVECS \in Nat \ {0, 1}
  /\ Delays \subseteq Nat /\ MaxLag \in Nat \ {0} /\ MaxLag < 2 ^ (W - 1)
  \* No timer is set further ahead than a signed difference of ticks can tell.
  /\ \A d \in Delays : d + MaxLag < 2 ^ (W - 1)

\* a - b as an unsigned and as a signed word.
Minus(a, b) == (a - b) % 2 ^ W
Signed(x) == IF x < 2 ^ (W - 1) THEN x ELSE x - 2 ^ W
Behind(a, b) == Signed(Minus(a, b)) < 0

Levels == 1 .. NOOF_TVECS
Size(n) == IF n = 1 THEN TVR_SIZE ELSE TVN_SIZE
Shift(n) == IF n = 1 THEN 0 ELSE TVR_BITS + (n - 2) * TVN_BITS
Slot(n, x) == (x \div 2 ^ Shift(n)) % Size(n)

NoPlace == <<0, 0>>
Dropped == <<0, 1>>
Places == {p \in Levels \X (0 .. (TVR_SIZE + TVN_SIZE)) : p[2] < Size(p[1])}

VARIABLES
  ticks,        \* ticks counted by the clock interrupt
  timer_ticks,  \* the tick that run_timer_list is working on
  index,        \* level -> slot the wheel has reached
  place,        \* the list each timer is linked into, or NoPlace if not active
  expires,      \* timer -> expires; 0 while inactive, when nothing reads it
  queued,       \* DPC_QUEUED of the timer DPC
  phase         \* where run_timer_list is: "off", "loop", "slot", "handler" or "leave"

vars == <<ticks, timer_ticks, index, place, expires, queued, phase>>

TypeOK ==
  /\ ticks \in Words /\ timer_ticks \in Words
  /\ index \in [Levels -> Nat] /\ \A n \in Levels : index[n] < Size(n)
  /\ place \in [Timers -> Places \cup {NoPlace, Dropped}]
  /\ expires \in [Timers -> Words]
  /\ queued \in BOOLEAN /\ phase \in {"off", "loop", "slot", "handler", "leave"}

Active(t) == place[t] # NoPlace

Init ==
  /\ ticks = 0 /\ timer_ticks = 0
  /\ index = [n \in Levels |-> 0]
  /\ place = [t \in Timers |-> NoPlace]
  /\ expires = [t \in Timers |-> 0]
  /\ queued = FALSE /\ phase = "off"

-----------------------------------------------------------------------------
(* The wheel. *)

\* A plausible slip in attach_timer: no test for a timer in the past.
attach_timer_unsigned(x) ==
  LET idx == Minus(x, timer_ticks)
      near == {n \in 1 .. (NOOF_TVECS - 1) : idx < 2 ^ Shift(n + 1)}
      n == IF near = {} THEN NOOF_TVECS ELSE CHOOSE m \in near : \A k \in near : m <= k
  IN <<n, Slot(n, x)>>

\* attach_timer: the list for a timer that expires at x.  Every level but the
\* last has a bound; what lies in the past goes into the current slot.
attach_timer(x) ==
  LET idx == Minus(x, timer_ticks)
      near == {n \in 1 .. (NOOF_TVECS - 1) : idx < 2 ^ Shift(n + 1)}
      n == IF near = {} THEN NOOF_TVECS ELSE CHOOSE m \in near : \A k \in near : m <= k
  IN IF near = {} /\ Signed(idx) < 0 THEN <<1, index[1]>> ELSE <<n, Slot(n, x)>>

detach_timer(t) ==
  /\ place' = [place EXCEPT ![t] = NoPlace]
  /\ expires' = [expires EXCEPT ![t] = 0]

\* A plausible slip: only the second level is ever cascaded.
CascadingSecond == {2}

\* The levels that run_timer_list cascades: level 2 and, as long as the level
\* below has just wrapped (its index becomes 1), the next one.
Cascading == {n \in 2 .. NOOF_TVECS : \A m \in 2 .. (n - 1) : index[m] = 0}

\* cascade_timers on those levels: every timer of the slot that the level has
\* reached is attached anew.  A timer that were put into the list that is being
\* emptied would be dropped with it.
cascade_timers ==
  /\ place' = [t \in Timers |->
       IF place[t][1] \in Cascading /\ place[t][2] = index[place[t][1]]
         THEN IF attach_timer(expires[t]) = place[t] THEN Dropped
                                                     ELSE attach_timer(expires[t])
         ELSE place[t]]
  /\ index' = [n \in Levels |-> IF n \in Cascading THEN (index[n] + 1) % Size(n) ELSE index[n]]

-----------------------------------------------------------------------------
(* The clock interrupt and the DPC. *)

\* timer_handler: count the tick and queue the DPC, unless it is queued.
Tick ==
  /\ Signed(Minus(ticks, timer_ticks)) < MaxLag - 1
  /\ ticks' = (ticks + 1) % 2 ^ W
  /\ queued' = TRUE
  /\ UNCHANGED <<timer_ticks, index, place, expires, phase>>

\* dispatch_dpc_queue takes the DPC, clears DPC_QUEUED and calls timer_dpc.
StartDpc ==
  /\ phase = "off" /\ queued
  /\ queued' = FALSE /\ phase' = "loop"
  /\ UNCHANGED <<ticks, timer_ticks, index, place, expires>>

\* The loop of run_timer_list: another tick to work on?
NextTick ==
  /\ phase = "loop" /\ Signed(Minus(ticks, timer_ticks)) >= 0
  /\ phase' = "slot"
  /\ IF index[1] = 0 THEN cascade_timers ELSE UNCHANGED <<place, index>>
  /\ UNCHANGED <<ticks, timer_ticks, expires, queued>>

LeaveLoop ==
  /\ phase = "loop" /\ Signed(Minus(ticks, timer_ticks)) < 0
  /\ phase' = "leave"
  /\ UNCHANGED <<ticks, timer_ticks, index, place, expires, queued>>

\* A plausible slip: DPC_QUEUED is cleared when the DPC ends.
DpcDoneClears ==
  /\ phase = "leave" /\ phase' = "off"
  /\ queued' = FALSE
  /\ UNCHANGED <<ticks, timer_ticks, index, place, expires>>

DpcDone ==
  /\ phase = "leave" /\ phase' = "off"
  /\ UNCHANGED <<ticks, timer_ticks, index, place, expires, queued>>

InSlot(t) == place[t] = <<1, index[1]>>

\* A plausible slip: the timer stays on the list while its handler runs.
FireAttached(t) ==
  /\ phase = "slot" /\ InSlot(t)
  /\ phase' = "handler"
  /\ UNCHANGED <<ticks, timer_ticks, index, place, expires, queued>>

\* Take a timer off the current list and call its handler.
Fire(t) ==
  /\ phase = "slot" /\ InSlot(t)
  /\ detach_timer(t)
  /\ phase' = "handler"
  /\ UNCHANGED <<ticks, timer_ticks, index, queued>>

HandlerDone ==
  /\ phase = "handler" /\ phase' = "slot"
  /\ UNCHANGED <<ticks, timer_ticks, index, place, expires, queued>>

\* A plausible slip: the index of the first level is not masked.
SlotDoneUnmasked ==
  /\ phase = "slot" /\ \A t \in Timers : ~InSlot(t)
  /\ timer_ticks' = (timer_ticks + 1) % 2 ^ W
  /\ index' = [index EXCEPT ![1] = @ + 1]
  /\ phase' = "loop"
  /\ UNCHANGED <<ticks, place, expires, queued>>

\* The list is empty: on to the next tick.
SlotDone ==
  /\ phase = "slot" /\ \A t \in Timers : ~InSlot(t)
  /\ timer_ticks' = (timer_ticks + 1) % 2 ^ W
  /\ index' = [index EXCEPT ![1] = (@ + 1) % TVR_SIZE]
  /\ phase' = "loop"
  /\ UNCHANGED <<ticks, place, expires, queued>>

-----------------------------------------------------------------------------
(* The interface, used by threads and by handlers. *)

CanUse == phase \in {"off", "handler"}

\* add_timer on an inactive timer whose expires field the caller has set; on
\* an active one it does nothing.
add_timer(t, d) ==
  /\ CanUse /\ ~Active(t)
  /\ expires' = [expires EXCEPT ![t] = (ticks + d) % 2 ^ W]
  /\ place' = [place EXCEPT ![t] = attach_timer((ticks + d) % 2 ^ W)]
  /\ UNCHANGED <<ticks, timer_ticks, index, queued, phase>>

mod_timer(t, d) ==
  /\ CanUse
  /\ expires' = [expires EXCEPT ![t] = (ticks + d) % 2 ^ W]
  /\ place' = [place EXCEPT ![t] = attach_timer((ticks + d) % 2 ^ W)]
  /\ UNCHANGED <<ticks, timer_ticks, index, queued, phase>>

del_timer(t) ==
  /\ CanUse /\ Active(t)
  /\ detach_timer(t)
  /\ UNCHANGED <<ticks, timer_ticks, index, queued, phase>>

Next ==
  \/ Tick \/ StartDpc \/ NextTick \/ LeaveLoop \/ DpcDone \/ HandlerDone \/ SlotDone
  \/ \E t \in Timers : Fire(t) \/ del_timer(t)
  \/ \E t \in Timers, d \in Delays : add_timer(t, d) \/ mod_timer(t, d)

\* The clock interrupt keeps coming, the DPC queue is run at every dispatch and
\* every return to user mode, and handlers return.
Fairness ==
  /\ WF_vars(Tick)
  /\ WF_vars(StartDpc \/ NextTick \/ LeaveLoop \/ DpcDone \/ HandlerDone \/ SlotDone
             \/ \E t \in Timers : Fire(t))

Spec == Init /\ [][Next]_vars /\ Fairness

-----------------------------------------------------------------------------
(* Properties. *)

\* A running timer goes off at its expiry tick, or at the tick at hand if that
\* is past: run_timer_list, attach_timer and cascade_timers implement the
\* service, whatever the distance, the wrap of the counters and the handlers.
Service == INSTANCE TimerService WITH
  Moments <- Words, Never <- -1, clock <- timer_ticks,
  due <- [t \in Timers |->
            IF ~Active(t) THEN -1
            ELSE IF Behind(expires[t], timer_ticks) THEN timer_ticks
            ELSE expires[t]]

ServiceSpec == Service!Spec

\* Nobody sleeps too long: at rest no timer is overdue, that is, every timer
\* set with attach_timer to a tick the interrupt has passed has been called.
\* A tick counted just after run_timer_list has looked at ticks for the last
\* time must have queued the DPC again.
NoneOverdue ==
  /\ TypeOK
  /\ phase = "off" /\ ~queued =>
       \A t \in Timers : Active(t) => ~Behind(expires[t], ticks)

\* The timers do not stall: whatever handlers re-arm, run_timer_list gets
\* through every tick and to the next one.
KeepsRunning == []<><<SlotDone>>_vars

=============================================================================
