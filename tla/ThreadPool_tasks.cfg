\* Two threads enqueue three tasks, which all return, on two workers, and the
\* pool may be destroyed; no symmetry, because of the liveness.
SPECIFICATION FairSpec
CONSTANTS
  N = 2
  Producers = {p1, p2}
  Tasks = {t1, t2, t3}
  Blocking = {}
  NoTask = none
INVARIANTS
  TypeOK
  TaskInOnePlace
PROPERTIES
  TasksRun
  ImplementsTaskPool
