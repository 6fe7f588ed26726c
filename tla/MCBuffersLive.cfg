SPECIFICATION FairSpec
CONSTANTS
  Users = {u1}
  Lazy = lazy
  Blocks = {k1, k2}
  NoBlock = nil
  poolsize = 2
  MaxHeld = 2
  MaxFaults = 1
INVARIANT LocksExact
PROPERTIES WaiterServed LazyWrites
