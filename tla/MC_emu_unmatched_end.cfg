\* Emulation mode, a write in flight when tracing starts.
CONSTANTS
  CUs = {0}
  Ports = {0}
  MaxTime = 4
  FifoDepth = 4
  PreTrace <- MC_PreTraceWrite
  MaxTraceEvents = 12
SPECIFICATION Spec
INVARIANT ChannelsIndependent
\* The profiled device stops producing samples; the model stops at MaxTime.
CHECK_DEADLOCK FALSE
