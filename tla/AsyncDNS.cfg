SPECIFICATION DNSFairSpec
CONSTANTS
  h1 = h1
  h2 = h2
  h3 = h3
  a1 = a1
  a2 = a2
  None = None
  NoHost = NoHost
  Host = {h1, h2, h3}
  Address <- MCAddress
  CacheSize = 2
CHECK_DEADLOCK FALSE
INVARIANTS SettledCacheRight
PROPERTIES LookedUp
