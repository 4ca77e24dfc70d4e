SPECIFICATION Spec
CONSTANTS
  a = a
  b = b
  x = x
  y = y
  k1 = k1
  k2 = k2
  k3 = k3
  None = None
  Initial <- MCInitial
  Edits <- MCEdits
  Wants <- MCWants
  Name = {a, b}
  Url = {x, y}
  Fetcher = {k1, k2}
  Caller = {k3}
  CacheTTL = 1
  TokenTTL = 1
  Timeout = 1
  MaxTime = 2
  MaxChanges = 1
  MaxBackends = 2
SYMMETRY MCSymmetry
CHECK_DEADLOCK FALSE
INVARIANTS
  RemovedIsForgotten
  RightlyAttributed
  TokenFollowsTheName
  FileHoldsTheList
