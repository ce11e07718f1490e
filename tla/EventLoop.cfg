\* Two foreign threads and three tasks: two pushes can race with each other, with
\* the swap and with quit(), and a task can queue a further one.
CONSTANTS
  Threads = {th1, th2}
  Tasks = {t1, t2, t3}
  QueueBeforeLoop = FALSE
SPECIFICATION Spec
INVARIANTS TypeOK TasksInOrder NoLostWakeup NoLostQuit
PROPERTIES QueuedTaskRuns QuitStopsLoop IdleLoopSleeps ImplementsExecutor
\* A loop that has returned stops.
CHECK_DEADLOCK FALSE
