CONSTANTS
  Sender <- MCSender
  NoSender = NoSender
  SenderOffset <- MCSenderOffset
  Delay = {0, 1, 3}
  MaxRoundTrip = 4
  HistorySize = 3
  MinMeasurements = 2
  MaxCalls = 4
  MaxFailures = 1
SPECIFICATION FairSpec

  
  
PROPERTIES
  NtpLocks
CHECK_DEADLOCK FALSE
