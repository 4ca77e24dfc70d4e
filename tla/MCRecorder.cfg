SPECIFICATION Spec
CONSTANTS
  p1 = p1
  p2 = p2
  Port = {p1, p2}
  NoPort = NoPort
  BufferSize = 1
  MaxRecs = 2
  MaxEvents = 3
SYMMETRY MCSymmetry
CHECK_DEADLOCK FALSE
INVARIANTS
  SeenIsRecorded
  OneRecordingAtATime
  
