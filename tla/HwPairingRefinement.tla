------------------------- MODULE HwPairingRefinement -------------------------
(***************************************************************************)
(* The hardware decoder's memory path implements MemChannelSpec.          *)
(*                                                                         *)
(* Refinement mapping.  With no sample lost and no End flagged Reserved,   *)
(* the memory events decoded so far are the starts and ends of the         *)
(* monitors' transactions (done, open) except those still in the trace     *)
(* FIFO; ordered by cycle they are hist.  last is the Read/Write records   *)
(* of the last call's resultVector, in output order.                       *)
(***************************************************************************)
EXTENDS HwTraceDecoder

FifoTimes == {fifo[i].ts : i \in DOMAIN fifo}

DecodedEvents ==
  LET starts == {[port |-> t.port, dir |-> t.dir, ev |-> "Start", ts |-> t.start] :
                   t \in done}
                \cup UNION {{[port |-> p, dir |-> d, ev |-> "Start", ts |-> s] :
                                s \in Range(open[p][d])} : p \in Ports, d \in Dirs}
      ends   == {[port |-> t.port, dir |-> t.dir, ev |-> "End", ts |-> t.end] :
                   t \in done}
  IN {e \in starts \cup ends : e.ts \notin FifoTimes}

histMap == SetToSortSeq(DecodedEvents, LAMBDA a, b : a.ts < b.ts)

lastMap ==
  LET mem == SelectSeq(result, LAMBDA r : r.type \in Dirs)
  IN [i \in DOMAIN mem |-> AsTxn(mem[i])]

Pairing == INSTANCE MemChannelSpec WITH hist <- histMap, last <- lastMap

\* FIFO pairing as spec 4.3 and 8 state it (with nothing lost and nothing
\* Reserved): DecodeSpm's per-channel queues, kept across logTrace calls,
\* report exactly the k-th Start with the k-th End, in End order, however
\* the samples are split into calls.
PairingSpec == Pairing!Spec

=============================================================================
