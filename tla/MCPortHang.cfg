CONSTANTS
  p1 = p1
  Port = {p1}
  NoPort = NoPort
  MaxPorts = 1
  MaxWorkers = 1
  MaxCalls = 1
  UdevCap = 1
  MaxFaults = 1

SPECIFICATION FairSpec
PROPERTY ShutdownEnds
CHECK_DEADLOCK FALSE
