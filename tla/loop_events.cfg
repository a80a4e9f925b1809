SPECIFICATION FairSpec

CONSTANTS
  MaxTimers = 0
  Delays = {0}
  Handles = {h1, h2}
  MaxSockets = 3
  ReportsHandle = TRUE
  Tasks = {t1, t2}
  DefaultTimeout = 1
  OverflowWait = 3
  OnceTimeouts = {}
  ScheduleInTimer = FALSE
  CallbacksThrow = TRUE

PROPERTY OnlyBatchesAreLost
PROPERTY EventDelivered

CHECK_DEADLOCK FALSE
