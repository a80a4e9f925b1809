SPECIFICATION FairSpec

CONSTANTS
  MaxTimers = 2
  Delays = {1}
  Handles = {h1, h2}
  Types = {idle, read}
  Idle = idle
  None = None

INVARIANT StatisticsAgree
INVARIANT TimersMatchEntries
PROPERTY FiresOwnTimer
PROPERTY TimeoutHappens
