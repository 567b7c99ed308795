--------------------------- MODULE HwReportLiveness --------------------------
(***************************************************************************)
(* Progress of the hardware decoder's memory path: a transaction that      *)
(* completes on the device is eventually reported by some logTrace call.   *)
(* reported is an observer: every Read/Write transaction any call has put  *)
(* in its resultVector so far.                                             *)
(***************************************************************************)
EXTENDS HwPairingRefinement

VARIABLE reported

MemTxns(seq) == {AsTxn(r) : r \in MemRecs(seq)}

Observe == reported' = reported \cup MemTxns(result')

\* The driver's offload thread calls logTrace every mSampleIntervalMsec
\* (10 ms, line 73) while the trace FIFO holds samples: the call is weakly
\* fair.  The device's monitors need no fairness.
LiveSpec ==
  /\ Init /\ reported = {}
  /\ [][Next /\ Observe]_<<vars, reported>>
  /\ WF_<<vars, reported>>(LogTrace /\ Observe)

\* Every memory transaction that completes on the device is eventually
\* reported, with its own start, by some call (DecodeSpm's queues persist
\* across calls; the event cap is out of reach here).
CompletedReported ==
  \A p \in Ports, d \in Dirs, e \in Time :
    (\E t \in done : t.port = p /\ t.dir = d /\ t.end = e)
      ~> (\E t \in reported \cap done : t.port = p /\ t.dir = d /\ t.end = e)

=============================================================================
