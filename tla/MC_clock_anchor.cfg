\* Hardware clock training with the program start re-read on every call.
CONSTANTS
  W = 8
  MaxCycle = 7
  FifoDepth = 3
  ProgramStartReads = {0, 1}
SPECIFICATION Spec
INVARIANT ConversionExact
\* The device stops taking samples; the model stops at MaxCycle.
CHECK_DEADLOCK FALSE
