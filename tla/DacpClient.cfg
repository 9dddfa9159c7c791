CONSTANTS
  a = a
  b = b
  Source <- MCSource
  NoSource = NoSource
  QueueLen = 4
  MaxEvents = 7
SPECIFICATION FairSpec
PROPERTIES
  RequestFitsSource
  
CHECK_DEADLOCK FALSE
