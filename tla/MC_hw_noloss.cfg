\* Hardware mode, nothing lost: FIFO pairing, output order, CU intervals.
CONSTANTS
  CUs <- MC_CUs
  Ports <- MC_Ports
  PortCU <- MC_PortCU
  StallCats <- MC_StallCats
  MaxTime = 6
  FifoDepth = 4
  MaxLoss = 0
  MaxReserved = 0
  MaxTraceEvents = 10
SPECIFICATION Spec
INVARIANT TypeOK
INVARIANT KernelFirst
INVARIANT MemPairingExact
INVARIANT IntervalsGenuineUntilSplit
INVARIANT ApproxEndNotBeforeStart
\* The profiled device stops producing samples; the model stops at MaxTime.
CHECK_DEADLOCK FALSE
