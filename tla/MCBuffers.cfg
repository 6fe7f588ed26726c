SPECIFICATION Spec
CONSTANTS
  Users = {u1, u2}
  Lazy = lazy
  Blocks = {k1, k2, k3}
  NoBlock = nil
  poolsize = 2
  MaxHeld = 1
  MaxFaults = 0
SYMMETRY Symmetry
INVARIANTS FreshRead ListsAgree LocksExact UpdateKept
