CONSTANTS
  x3 = x3
  y3 = y3
  z1 = z1
  Version <- ThreeVersions
  Size <- ThreeSizes
  Guid = {"a", "b", "c", "d", "e", "f"}
  Hashed = TRUE
  MaxPerReq = 2
  UploadLimit = 2
  QueueRoom = 2
  Patient = TRUE
  MaxDownloads = 2
  MaxLost = 1
  MaxChanges = 1
  MaxCrashes = 1
  MaxAborts = 0
  MayLoseRoute = FALSE
SPECIFICATION Spec
SYMMETRY SameLength
INVARIANTS ValidIsWritten CompletedIsTheFile FailsForCause
CHECK_DEADLOCK FALSE
