CONSTANTS
  SeqMod = 8
  FirstSeq = {6}
  MaxGap = 3
  QueueSize = 2
  MaxEvents = 6
SPECIFICATION FairSpec
INVARIANTS
  TypeOK
  
  OneTaskDecodes
  ClosedWhenStopped
  RunningStreamServes
  
PROPERTIES
  CallsEnd
CHECK_DEADLOCK FALSE
