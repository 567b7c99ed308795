------------------------ MODULE EmuPairingRefinement ------------------------
(***************************************************************************)
(* The emulation decoder's memory path implements MemChannelSpec, the      *)
(* same abstract pairing the hardware path implements.                     *)
(*                                                                         *)
(* Refinement mapping.  Every sample up to the last one a logTrace call    *)
(* decoded has been decoded; later ones are still in the trace buffer or   *)
(* were discarded by a capped call.  So hist is the starts and ends of the *)
(* monitors' transactions up to that sample.  One sample can carry a       *)
(* write and a read, and a first and a last flag: the code runs the write  *)
(* block before the read block, and in each the first flag before the last *)
(* one, which is the order of EventOrder.  last is the Read/Write records  *)
(* of the last call's resultVector.                                        *)
(***************************************************************************)
EXTENDS EmuTraceDecoder

\* The cycle of the last sample decoded, -1 before any call.
LastDecoded == IF batch = <<>> THEN -1 ELSE batch[Len(batch)].ts

EventOrder(e) ==
  4 * e.ts + (IF e.dir = "Write" THEN 0 ELSE 2) + (IF e.ev = "Start" THEN 0 ELSE 1)

DecodedEvents ==
  LET starts == {[port |-> t.port, dir |-> t.dir, ev |-> "Start", ts |-> t.start] :
                   t \in done}
                \cup UNION {{[port |-> p, dir |-> d, ev |-> "Start", ts |-> s] :
                                s \in Range(open[p][d])} : p \in Ports, d \in Dirs}
      ends   == {[port |-> t.port, dir |-> t.dir, ev |-> "End", ts |-> t.end] :
                   t \in done}
  IN {e \in starts \cup ends : e.ts <= LastDecoded}

\* The decoded events in EventOrder: each at the position its rank gives.
histMap ==
  [k \in 1..Cardinality(DecodedEvents) |->
     CHOOSE e \in DecodedEvents :
       Cardinality({x \in DecodedEvents : EventOrder(x) < EventOrder(e)}) = k - 1]

lastMap ==
  LET mem == SelectSeq(result, LAMBDA r : r.type \in Dirs)
  IN [i \in DOMAIN mem |-> AsTxn(mem[i])]

EmuPairing == INSTANCE MemChannelSpec WITH hist <- histMap, last <- lastMap

\* FIFO pairing (spec 4.3, 8) in emulation mode, with every transaction
\* traced from its start: the first/last flags of both directions of a
\* sample, the per-channel queues kept across calls and the End >= Start
\* filter after epsilon padding together report exactly the k-th Start
\* with the k-th End of each channel, in End order, however the samples
\* are split into calls and whatever the event cap discards.
EmuPairingSpec == EmuPairing!Spec

=============================================================================
