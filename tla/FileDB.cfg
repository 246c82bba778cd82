SPECIFICATION MCSpec
CONSTANTS
  a = a
  b = b
  x = x
  y = y
  v1 = v1
  v2 = v2
  NoDir = NoDir
  Absent = Absent
  NoDB = NoDB
  NoStack = NoStack
  Dir = {a, b}
  Name = {x, y}
  Version = {v1, v2}
  Parent <- MCParent
  SCAN_MAX_POS = 3
  MaxChanges = 2
  MaxEdits = 3
CHECK_DEADLOCK FALSE
INVARIANTS IndexesStayTrue ScanListsShared
