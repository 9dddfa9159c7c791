CONSTANTS
  Half = 8
  MaxFrames = 3
  MaxOps = 2
  MaxWire = 1
  Capacity = 2
  Target = 1
  Attempts = 2
  MaxEarly = 1
  MaxLate = 1
  Offset <- MCOffset
  SeekTo <- MCSeekTo
  SeekThreshold = 1
  GateWindow = 2
  StartAt = 15
SPECIFICATION Spec
VIEW LiveView
INVARIANTS
  TypeOK
  QuietWhilePaused
PROPERTIES
  FlushedFramesStaySilent
  PlaysInOrder
CHECK_DEADLOCK FALSE
