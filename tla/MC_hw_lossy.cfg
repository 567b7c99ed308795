\* Hardware mode with a full trace FIFO dropping samples and Reserved ends.
CONSTANTS
  CUs <- MC_CUs
  Ports <- MC_Ports
  PortCU <- MC_PortCU
  StallCats <- MC_StallCats
  MaxTime = 6
  FifoDepth = 2
  MaxLoss = 2
  MaxReserved = 1
  MaxTraceEvents = 14
SPECIFICATION Spec
INVARIANT MemStartsSound
\* The profiled device stops producing samples; the model stops at MaxTime.
CHECK_DEADLOCK FALSE
