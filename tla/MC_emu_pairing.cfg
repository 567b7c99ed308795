\* Emulation mode, every transaction traced from its start.
CONSTANTS
  CUs = {0}
  Ports = {0}
  MaxTime = 4
  FifoDepth = 4
  PreTrace <- MC_PreTraceNone
  MaxTraceEvents = 3
SPECIFICATION Spec
INVARIANT KernelsGenuineUntilSplit
PROPERTY EmuPairingSpec
\* The profiled device stops producing samples; the model stops at MaxTime.
CHECK_DEADLOCK FALSE
