------------------------ MODULE MC_HwReportLiveness -------------------------
(* Model-checking instance of HwReportLiveness: one CU with one memory     *)
(* port, the kernel category only.                                         *)
EXTENDS HwReportLiveness

MC_OneCU      == {0}
MC_Ports      == {0}
MC_PortCU     == [p \in MC_Ports |-> 0]
MC_NoStalls   == {}
=============================================================================
