SPECIFICATION Spec
CONSTANTS
  n1 = n1
  n2 = n2
  n3 = n3
  n4 = n4
  Node = {n1, n2, n3, n4}
  Link <- RingAndTail
  Guid = {g1}
  MaxTtl = 2
  Relays = {n1, n2, n3, n4}
  Forwards = {n1, n2, n3, n4}
  Lossy = TRUE
  MaxBreaks = 3
CHECK_DEADLOCK FALSE
INVARIANTS HeardOnceUnbroken ReachBounded HeardAgainIfForgotten
