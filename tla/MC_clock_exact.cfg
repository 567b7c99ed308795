\* Hardware clock training, no counter wrap, one program-start value.
CONSTANTS
  W = 12
  MaxCycle = 11
  FifoDepth = 3
  ProgramStartReads = {0}
SPECIFICATION Spec
INVARIANT ConversionExact
\* The device stops taking samples; the model stops at MaxCycle.
CHECK_DEADLOCK FALSE
