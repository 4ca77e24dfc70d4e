CONSTANTS
  p1 = p1
  p2 = p2
  Port = {p1, p2}
  NoPort = NoPort
  MaxPorts = 1
  MaxWorkers = 2
  MaxCalls = 1
  UdevCap = 1
  MaxFaults = 1
SPECIFICATION FairSpec
INVARIANTS
  RunningIsRegistered
  NoOrphanLink
  DeadIsBeingHandled
  PortLimit
  ShutdownReleases
  OpenIsListed
PROPERTIES
  LinkIsReleased
  BrokenIsUnregistered
CHECK_DEADLOCK FALSE
