CONSTANTS
  c1 = c1
  c2 = c2
  c3 = c3
  Conn <- MCConn
  NoConn = NoConn
  Builds = {"v1", "v2"}
  MaxRequests <- MCOneBusy
  Preemption = FALSE
SPECIFICATION FairSpec
PROPERTIES
  EverySenderAnswered
  StoppedClientsLeave
CHECK_DEADLOCK FALSE
