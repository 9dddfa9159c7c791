CONSTANTS
  s1 = s1
  s2 = s2
  s3 = s3
  s4 = s4
  rtsp = rtsp
  Decoder = decoder
  Playback = playback
  Slot <- MCSlot
  Flusher <- MCFlusher
  Half = 3
  Span = 3
  HighWater = 1
  MaxChunks = 2
SPECIFICATION Spec
SYMMETRY SlotSymmetry
VIEW LiveView
INVARIANTS
  TypeOK
  SlotConservation
  Ascending
  BufferedNeverOverflows
  BinarySearchIsRight
PROPERTIES
  OnlyDrainStrandsFrames
  ImplementsQueue
