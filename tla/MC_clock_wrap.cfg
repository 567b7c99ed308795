\* Hardware clock training across a wrap of the device counter.
CONSTANTS
  W = 4
  MaxCycle = 7
  FifoDepth = 3
  ProgramStartReads = {0}
SPECIFICATION Spec
INVARIANT ConversionExact
\* The device stops taking samples; the model stops at MaxCycle.
CHECK_DEADLOCK FALSE
