SPECIFICATION TlsClientSpec

CONSTANTS
  Origins <- MCTlsOrigins
  Locations <- MCTlsLocations
  Methods = {"GET"}
  Framings = {"length"}
  MaxRedirects = 1
  FollowRedirects = TRUE
  HasCallback = TRUE
  MaxNested = 1
  None = NoValue
  Path = Path
  Other = Other
  Bad = Bad

INVARIANT RedirectsBounded
INVARIANT CredentialsStayHome
INVARIANT NothingLeaks
INVARIANT SecuredForItsHost
