SPECIFICATION Spec
CONSTANTS
  t1 = t1
  t2 = t2
  t3 = t3
  e = e
  v = v
  s = s
  m = m
  f = f
  NULL = NULL
  Threads = {t1, t2}
  AutoEvents = {}
  ManualEvents = {}
  Sems = {}
  Mutexes = {m}
  Filemaps = {}
  Requests <- TimedRequests
  SetCounts = {}
  Closable = {}
  ExitCode = 0
  MaxCount = 2

INVARIANTS MutexAgrees
CHECK_DEADLOCK FALSE
