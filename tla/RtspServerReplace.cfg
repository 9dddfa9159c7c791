CONSTANTS
  c1 = c1
  c2 = c2
  c3 = c3
  Conn <- MCConn
  NoConn = NoConn
  Builds = {"v2"}
  MaxRequests <- MCTwoEach
  Preemption = FALSE
SPECIFICATION Spec
PROPERTY OldClientSparesNewStream
CHECK_DEADLOCK FALSE
