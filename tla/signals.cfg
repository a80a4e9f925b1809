SPECIFICATION FairShutdownSpec

CONSTANTS
  MaxTimers = 1
  Delays = {0, 1}
  Handles = {}
  MaxSockets = 0
  ReportsHandle = TRUE
  Tasks = {}
  DefaultTimeout = 1
  OverflowWait = 3
  OnceTimeouts = {}
  ScheduleInTimer = FALSE
  CallbacksThrow = FALSE
  Signals <- MCSignals
  Threads = {main, other}
  Main = main
  HandlerIds = {1, 2}
  MaxSignals = 2
  Interval = 1

INVARIANT StateIsAlive
INVARIANT AnswersAgree
PROPERTY SignalEndsRun

CHECK_DEADLOCK FALSE
