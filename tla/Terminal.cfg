CONSTANTS
  Parts = {"search", "rooms", "peers", "transfers", "keys", "settings"}
  Sharers = {"h", "i", "me"}
  Self = "me"
  Paths = {"/", "/d", "/u"}
  NickOf <- MCNick
  Matches <- MCMatches
  Tree <- MCTree
  Enter <- MCEnter
  Parent <- MCParent
  MaxRequests = 2
  MaxPosted = 2
  Users = {"a", "b"}
  Me = "m"
  Channels = {"general", "x"}
  MaxChats = 2
  MaxRooms = 2
  Typed = {"a", "host"}
  Incoming = {"z"}
  Reported <- MCReported
  DemoRows <- MCDemoRows
  MaxAdded = 2
  MaxConns = 3
  MaxPeerTasks = 2
  p = p
  q = q
  TransferIds = {p, q}
  Size = 1
  MaxStarted = 3
  MaxTransferTasks = 2
  PeerKeys = {"a", "b", "c"}
  OwnKeys = {"x", "y"}
  Files <- MCFiles
  MaxEntries = 5
  MaxKeyOps = 3
  IniFiles <- MCIniFiles
  Folders <- MCFolders
  Nicknames = {"u"}
  LineRoom = 2
  Stub = "part"
  MaxFolders = 3
SYMMETRY SameIds
SPECIFICATION Spec
INVARIANTS DownloadsWhatIsShown DirectStaysBetweenTwo AsManyOnline RowsShowTransfers TrustsByChoice SettingsKept
CHECK_DEADLOCK FALSE
