SPECIFICATION FairSpec
CONSTANTS
  ta = ta
  tb = tb
  tc = tc
  Threads = {ta, tb, tc}
  NOHANDLE = NOHANDLE
  Scenarios <- MCScenarios
INVARIANTS MutualExclusion 
 
CHECK_DEADLOCK FALSE
