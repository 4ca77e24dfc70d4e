SPECIFICATION Spec
CONSTANTS
  Capacity = 4
  Byte <- MCByte
  Data <- MCData
INVARIANTS
  FilledFromZero
PROPERTY
  ReplayHoldsTheTail
