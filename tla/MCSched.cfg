SPECIFICATION FairSpec
CONSTANTS
  idle = idle
  u1 = u1
  u2 = u2
  Threads = {idle, u1, u2}
  Idle = idle
  UserThreads = {u1, u2}
  Main = u1
  Signalled = {u1}
  InitPrio <- MCInitPrio
  Levels = 3
  TimeCritical = 1
  DefQuantum = 1
  PerTick = 1
  MaxSuspend = 2
INVARIANTS TypeOK QueuesHoldReady NeverPanics NoWakeupLost SuspendedStays PreemptionPending
PROPERTY NoStarvationAtTop
