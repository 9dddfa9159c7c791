CONSTANTS
  c1 = c1
  c2 = c2
  c3 = c3
  Conn <- MCConn
  NoConn = NoConn
  Builds = {"v1", "v2"}
  MaxRequests <- MCThreeEach
  Preemption = FALSE
SYMMETRY MCSymmetry
VIEW LiveView
SPECIFICATION Spec
INVARIANTS
  OneClientServes
  EventSocketOpen
  

  
CHECK_DEADLOCK FALSE
