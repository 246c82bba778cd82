CONSTANTS
  Parts = {"hosts", "downloads", "uploads"}
  Width = 3
  Private <- MCPrivate
  Loopback = {}
  Own = {0, 4}
  Hosts = {1, 5}
  Resolves <- MCResolves
  ForceIp <- MCNoIp
  AccessLists <- MCAccessLists
  Best = 4
  Told = 3
  Middle = 2
  FailCost = 1
  BreakCost = 1
  Keepup = 2
  MaxRows = 3
  MaxCons = 2
  MaxPings = 1
  MaxUser = 1
  QFiles = {"f", "g", "h"}
  PeerOf <- MCPeerOf
  ShortNames = {"h"}
  Maxima = {1, 2}
  HostMaxima = {1}
  MaxIds = 3
  MaxQueued = 3
  MaxAsks = 3
  MaxCommands = 1
  MaxEnds = 1
  Offers = {"a", "b"}
  NameOf <- MCNameOf
  SendLimit = 2
  MaxSends = 3
  MaxAsked = 3
  MaxAborts = 2
SPECIFICATION Spec
INVARIANTS RowsOfConnections HostsStay QueueKeeps OffersHold
CHECK_DEADLOCK FALSE
