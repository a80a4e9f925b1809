SPECIFICATION Spec

CONSTANTS
  Bytes = {0, 1}
  Zero = 0
  Inputs <- MCInputs
  Capacities = {0, 1, 2}
  Moves = TRUE
  SizeLimit = 8
  MaxRequired = 5
  Buffers = {b1, b2, b3}
  Tracked = b1
  NoBuffer = NoBuffer
  Guards = {g1, g2}
  p1 = p1
  p2 = p2
  Pools <- MCPools
  Config <- MCConfig

INVARIANT TypeOK
INVARIANT BuffersAreOwned
PROPERTY IsQueue
PROPERTY AcquiredIsEmpty
