CONSTANTS
  x3 = x3
  y3 = y3
  z1 = z1
  Version <- OneVersion
  Size <- OneSize
  Guid = {"a", "b", "c", "d", "e", "f"}
  Hashed = TRUE
  MaxPerReq = 2
  UploadLimit = 2
  QueueRoom = 2
  Patient = TRUE
  MaxDownloads = 1
  MaxLost = 1
  MaxChanges = 0
  MaxCrashes = 0
  MaxAborts = 1
  MayLoseRoute = TRUE
SPECIFICATION FairSpec
PROPERTIES TransfersEnd DownloadCompletes
CHECK_DEADLOCK FALSE
