SPECIFICATION Spec
CONSTANTS
  TVR_BITS = 1
  TVN_BITS = 2
  NOOF_TVECS = 3
  Timers = {t1, t2}
  Delays = {0, 1, 5, 12}
  MaxLag = 2
INVARIANT NoneOverdue
PROPERTIES ServiceSpec KeepsRunning
