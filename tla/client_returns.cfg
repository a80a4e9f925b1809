SPECIFICATION FairSpec

CONSTANTS
  Origins <- MCTwoOrigins
  Locations <- MCLocations
  Methods = {"GET"}
  Framings = {"length", "chunked", "eof"}
  MaxRedirects = 1
  FollowRedirects = TRUE
  HasCallback = TRUE
  MaxNested = 1
  None = NoValue
  Path = Path
  Other = Other
  Bad = Bad

INVARIANT OwnAnswer
PROPERTY ExecuteReturns
