SPECIFICATION Spec
CONSTANTS
  Objects = {e1, f1, t1}
  FileObjs = {f1}
  ThreadObjs = {t1}
  Calls = {c1, c2}
  FileUsers = {c1}
  PerPage = 2
  MaxPages = 2
  CloseResults = {"ok"}
  NULL = NULL
INVARIANTS HandleCountExact FreeListSound DestroyedOnce DestroyedWhenUnused ThreadOutlivesItself
CHECK_DEADLOCK FALSE
