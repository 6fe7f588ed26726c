------------------------------ MODULE MCSched ------------------------------
(* Small instances of Sched for TLC. *)
EXTENDS Sched

CONSTANTS idle, u1, u2

\* Every thread but the idle thread is created with priority 1.
MCInitPrio == [t \in Threads |-> IF t = Idle THEN 0 ELSE 1]
=============================================================================
