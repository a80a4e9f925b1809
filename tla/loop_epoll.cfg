SPECIFICATION FairSpec

CONSTANTS
  MaxTimers = 0
  Delays = {1, 2}
  Handles = {h1}
  MaxSockets = 1
  ReportsHandle = FALSE
  Tasks = {}
  DefaultTimeout = 1
  OverflowWait = 3
  OnceTimeouts = {}
  ScheduleInTimer = FALSE
  CallbacksThrow = FALSE

PROPERTY EventDelivered
