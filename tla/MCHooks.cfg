CONSTANTS
  p1 = p1
  p2 = p2
  b1 = b1
  b2 = b2
  w1 = w1
  Port = {p1, p2}
  Bridge = {b1, b2}
  Waiter = {w1}
  PortOf <- MCPortOf
  QueueCap = 1
  MaxChunks = 2
SPECIFICATION Spec
INVARIANTS ChainIsSimple NestedIsClean ForwardedInOrder
CHECK_DEADLOCK FALSE
