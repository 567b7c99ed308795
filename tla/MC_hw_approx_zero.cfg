\* Hardware mode: a kernel started at device cycle 0 and still running when a call ends.
CONSTANTS
  CUs <- MC_CUs
  Ports <- MC_Ports
  PortCU <- MC_PortCU
  StallCats <- MC_StallCats
  MaxTime = 6
  FifoDepth = 4
  MaxLoss = 0
  MaxReserved = 0
  MaxTraceEvents = 14
SPECIFICATION Spec
PROPERTY ApproxWhenRunning
\* The profiled device stops producing samples; the model stops at MaxTime.
CHECK_DEADLOCK FALSE
