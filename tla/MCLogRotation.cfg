SPECIFICATION LogSpec
CONSTANTS
  MaxFiles = 3
  MaxSize = 2
  MaxCalls = 9
  Junk = Junk
  Absent = Absent
CHECK_DEADLOCK FALSE
INVARIANTS
  KeptIsLatest
  Retention
  QueryIsLatest
