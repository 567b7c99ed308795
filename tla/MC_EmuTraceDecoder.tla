------------------------ MODULE MC_EmuTraceDecoder -------------------------
(* Model-checking instance of EmuTraceDecoder: one CU and one memory port. *)
EXTENDS EmuPairingRefinement

MC_PreTraceNone  == {}
MC_PreTraceWrite == {<<0, "Write">>}
=============================================================================
