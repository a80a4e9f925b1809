SPECIFICATION ParserSpec

CONSTANTS
  Responses <- MCChunkedResponses
  Lengths <- MCLengths
  HexDigits <- MCHexDigits
  MaxHeader = 3
  MaxChunk = 2

INVARIANT ParsesFaithfully

CHECK_DEADLOCK FALSE
