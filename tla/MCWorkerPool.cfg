\* Two application goroutines share a pool of two workers; three tasks.
CONSTANTS
  Callers = {c1, c2}
  Workers = {w1, w2}
  Tasks = {t1, t2, t3}
  NoTask = NoTask
SPECIFICATION FairSpec
INVARIANTS PoolInv SingleUserNeverPanics
PROPERTIES ImplementsTaskGroup SubmittedTasksFinish WaitAllReturns
\* A panic, or tasks that all block in a nested Submit, stop the program.
CHECK_DEADLOCK FALSE
