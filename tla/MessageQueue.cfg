SPECIFICATION MCSpec
CONSTANTS
  chat = chat
  search = search
  reply = reply
  part = part
  Message = {search, reply, part}
  Filler = Filler
  Junk = Junk
  Priority <- MCPriority
  Units <- MCUnits
  QueueLen = 2
  HeaderUnits = 2
  SendCap = 3
  RecvCap = 3
  Saturating = TRUE
  JunkUnits = {0, 1}
  MaxFiller = 1
  MaxDamage = 1
  MaxDrops = 2
INVARIANTS QueueInOrder DeliveredInOrder
PROPERTIES LosesLeastUrgent EventuallyDelivered
