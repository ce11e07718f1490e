CONSTANTS
  Timers = {t1, t2}
  Delays = {1, 2, 3}
  MaxTime = 5
  Late = TRUE
SPECIFICATION Spec
PROPERTY TimersRun
\* Time ends at MaxTime.
CHECK_DEADLOCK FALSE
