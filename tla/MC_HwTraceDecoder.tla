------------------------- MODULE MC_HwTraceDecoder -------------------------
(* Model-checking instance of HwTraceDecoder: two CUs, CU 0 with one      *)
(* memory port and CU 1 with none; kernel and external-memory stalls.     *)
EXTENDS HwTraceDecoder

MC_CUs       == {0, 1}
MC_Ports     == {0}
MC_PortCU    == [p \in MC_Ports |-> 0]
MC_StallCats == {StallExt}
=============================================================================
