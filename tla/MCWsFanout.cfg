SPECIFICATION Spec
CONSTANTS
  c1 = c1
  c2 = c2
  c3 = c3
  Client <- MCClients3
  Writer = {}
  MaxChunks = 2
  RingCap = 1
  MaxClients = 2
  MaxLists = 2
  MaxCloses = 0
SYMMETRY Symmetry3
CHECK_DEADLOCK FALSE
INVARIANTS
  TypeOK
  AtMostOnceLive
  HistoryInReadOrder
  StreamUntilDeparture
  ClientLimit
