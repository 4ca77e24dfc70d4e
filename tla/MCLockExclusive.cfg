SPECIFICATION Spec
CONSTANTS
  ann = ann
  bob = bob
  eve = eve
  Client = {ann}
  Ws = {ann}
  Rest = {bob}
  Wait = {bob}
  Bridge = {bob}
  User = {ann, bob}
  NoUser = NoUser
  Admin = {bob}
  UserOf <- MCUserOf
  QueueSize = 1
  MaxWorkers = 1
  MaxLocks = 1
  Rate = 1
  Cost = 1
  Burst = 1
  MaxTime = 1
CHECK_DEADLOCK FALSE
PROPERTIES
  LockIsExclusive
