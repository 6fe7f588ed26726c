SPECIFICATION FairSpec
CONSTANTS
  Dpcs = {d1, d2}
  Tasks = {a, b, c}
  TcbTasks = {c}
  INFINITE = INFINITE
  MaxSize = INFINITE
  MaxWork = 2
  MaxBurst = 2
  NULL = NULL
INVARIANTS QueuesAgree NoWorkForgotten NoTaskStranded FreedLeftAlone
PROPERTIES ProcUndisturbed WorkDone
