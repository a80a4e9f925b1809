SPECIFICATION FairSpec

CONSTANTS
  MaxTimers = 3
  Delays = {0}
  Handles = {}
  MaxSockets = 0
  ReportsHandle = TRUE
  Tasks = {}
  DefaultTimeout = 1
  OverflowWait = 3
  OnceTimeouts <- MCOnceTimeouts
  ScheduleInTimer = TRUE
  CallbacksThrow = TRUE

PROPERTY TimerFires

CHECK_DEADLOCK FALSE
