SPECIFICATION FairSpec
CONSTANTS
  ann = ann
  bob = bob
  eve = eve
  Client = {ann}
  Ws = {ann}
  Rest = {eve}
  Wait = {eve}
  Bridge = {bob, eve}
  User = {ann, bob, eve}
  NoUser = NoUser
  Admin = {bob}
  UserOf <- MCUserOf
  QueueSize = 1
  MaxWorkers = 1
  MaxLocks = 1
  Rate = 1
  Cost = 2
  Burst = 2
  MaxTime = 2
CHECK_DEADLOCK FALSE
INVARIANTS
  NoLostWakeUp
  OneWriteAfterStop
  WindowBound
PROPERTIES
  LineMoves
