SPECIFICATION FairSpec
CONSTANTS
  d1 = d1  d2 = d2  c1 = c1  c2 = c2  k1 = k1  None = None
  Devices = {d1, d2}
  Trusted = {d1}
  Conns <- MCConns
  Callers <- MCOneCaller
  MaxRequests = 2
INVARIANTS RegistryHasNoGhosts NoMisroutedResult WaitersAreCallsInProgress
PROPERTY OnlySendingHangs
