SPECIFICATION Spec
CONSTANTS
  t1 = t1
  t2 = t2
  t3 = t3
  e = e
  v = v
  s = s
  m = m
  f = f
  NULL = NULL
  Threads = {t1, t2, t3}
  AutoEvents = {e}
  ManualEvents = {v}
  Sems = {s}
  Mutexes = {m}
  Filemaps = {f}
  Requests <- MixedRequests
  SetCounts = {1}
  Closable = {m}
  ExitCode = 0
  MaxCount = 2
SYMMETRY Symmetry
INVARIANTS NothingDangling NoMissedWakeup MutexAgrees SemConserved
PROPERTY ServedInOrder
CHECK_DEADLOCK FALSE
