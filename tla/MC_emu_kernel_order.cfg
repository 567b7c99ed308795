\* Emulation mode: output order of kernel and memory records.
CONSTANTS
  CUs = {0}
  Ports = {0}
  MaxTime = 4
  FifoDepth = 4
  PreTrace <- MC_PreTraceNone
  MaxTraceEvents = 12
SPECIFICATION Spec
INVARIANT KernelFirst
\* The profiled device stops producing samples; the model stops at MaxTime.
CHECK_DEADLOCK FALSE
