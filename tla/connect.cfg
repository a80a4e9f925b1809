SPECIFICATION Spec

CONSTANTS
  h1 = h1
  h2 = h2
  h3 = h3
  t1 = t1
  t2 = t2
  Hosts <- MCHosts
  Zone <- MCZone
  Threads = {t1, t2}
  Caller = t1
  PreferIPv6 = TRUE
  Targets = {h1, h2}
  CacheSizes = {0, 1}
  Ttls = {1}
  MaxCalls = 3
  NonBlockingConnect = TRUE
  EmptyReceive = FALSE

INVARIANT CacheBounded
INVARIANT NeverOvercounted
INVARIANT AnswersAreTheHosts
INVARIANT ConnectedIsReal
INVARIANT ResultIsClean
 
PROPERTY EstablishedIsUsable
