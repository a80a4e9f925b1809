SPECIFICATION FairSpec

CONSTANTS
  MaxTimers = 2
  Delays = {1}
  Handles = {}
  MaxSockets = 0
  ReportsHandle = TRUE
  Tasks = {t1, t2}
  DefaultTimeout = 1
  OverflowWait = 3
  OnceTimeouts = {}
  ScheduleInTimer = FALSE
  CallbacksThrow = FALSE

INVARIANT TypeOK
INVARIANT OneShotFiresOnce
PROPERTY ExecutesInOrder
PROPERTY PostedTaskRuns
PROPERTY StopEndsRun
PROPERTY TimerFires
