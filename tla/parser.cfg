SPECIFICATION Spec

CONSTANTS
  Responses <- MCResponses
  Lengths <- MCLengths
  HexDigits <- MCHexDigits
  MaxHeader = 3
  MaxChunk = 2
  Hosts <- MCHosts
  Uris <- MCUris
  Lines <- MCLines
  UserFields <- MCUserFields
  MaxCookies = 3
  MaxHops = 2
  NoRequest = NoRequest

INVARIANT HeaderBufferBounded
INVARIANT ParsesFaithfully
INVARIANT CompleteAtItsEnd
INVARIANT FieldsBelong
INVARIANT CookiesAreTheLatest

CHECK_DEADLOCK FALSE
