SPECIFICATION FairSpec
CONSTANTS
  c1 = c1
  c2 = c2
  c3 = c3
  Client <- MCClients2
  Writer = {c1}
  MaxChunks = 1
  RingCap = 1
  MaxClients = 2
  MaxLists = 3
  MaxCloses = 1
CHECK_DEADLOCK FALSE
INVARIANTS
  NoLeakedRegistration
  ClosedPortIsClean
PROPERTIES
  BroadcastsFinish
  LostIsForgotten
