\* Hardware mode, nothing lost, no Reserved end, the offload call weakly
\* fair, the event cap out of reach: the decoder refines MemChannelSpec and
\* every completed transaction is eventually reported.
CONSTANTS
  CUs <- MC_OneCU
  Ports <- MC_Ports
  PortCU <- MC_PortCU
  StallCats <- MC_NoStalls
  MaxTime = 5
  FifoDepth = 3
  MaxLoss = 0
  MaxReserved = 0
  MaxTraceEvents = 100
SPECIFICATION LiveSpec
PROPERTIES PairingSpec CompletedReported
\* The profiled device stops producing samples; the model stops at MaxTime.
CHECK_DEADLOCK FALSE
