\* dec2bin and bin2dec against their reference definitions, and every
\* dec2bin result read back by bin2dec.
CONSTANTS
  Dec2BinCalls <- MC_Dec2BinCalls
  Bin2DecCalls <- MC_Bin2DecCalls
SPECIFICATION Spec
INVARIANTS Dec2BinCorrect Bin2DecCorrect
\* Every call returns: a finished call is a final state.
CHECK_DEADLOCK FALSE
