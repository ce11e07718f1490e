\* Three timers: one can be added before, between and after two others, from
\* outside and from a callback, with equal due times and different ones.
CONSTANTS
  Timers = {t1, t2, t3}
  Delays = {1, 2, 3}
  MaxTime = 5
  Late = FALSE
SPECIFICATION Spec
INVARIANTS TypeOK NoLostAlarm
PROPERTIES RunsOnceWhenDue TimersRun
\* Time ends at MaxTime.
CHECK_DEADLOCK FALSE
