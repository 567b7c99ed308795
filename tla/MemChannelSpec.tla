---------------------------- MODULE MemChannelSpec ---------------------------
(***************************************************************************)
(* What the SlotEventMatcher promises (spec 4.3 and the FIFO-pairing       *)
(* property of section 8), stated without queues or batches.               *)
(*                                                                         *)
(* hist is every memory event decoded so far, in order.  On each channel  *)
(* (port, direction) the k-th End closes the transaction opened by the     *)
(* k-th Start.  A call extends hist by the events it decodes, and its      *)
(* output (last) is the transactions closed by those events, in the order  *)
(* of their End events.  How the events are split into calls does not      *)
(* matter.                                                                 *)
(***************************************************************************)
EXTENDS Naturals, FiniteSets, SequencesExt

CONSTANTS Ports, Dirs, Time

VARIABLES hist, last

Event == [port: Ports, dir: Dirs, ev: {"Start", "End"}, ts: Time]

\* The events of kind e on channel (p, d) in h, in order.
On(h, p, d, e) ==
  SelectSeq(h, LAMBDA x : x.port = p /\ x.dir = d /\ x.ev = e)

\* No End of a channel before its Start.
Matched(h) ==
  \A p \in Ports, d \in Dirs, i \in 1..Len(h) :
    Len(On(SubSeq(h, 1, i), p, d, "End")) <= Len(On(SubSeq(h, 1, i), p, d, "Start"))

\* The transaction closed by the End at position i of h.
ClosedAt(h, i) ==
  LET e == h[i]
      k == Len(On(SubSeq(h, 1, i), e.port, e.dir, "End"))
  IN [port |-> e.port, dir |-> e.dir,
      start |-> On(h, e.port, e.dir, "Start")[k].ts, end |-> e.ts]

\* The transactions closed by the events h2 adds to h, in End order.
Closed(h, h2) ==
  LET E    == {i \in (Len(h) + 1)..Len(h2) : h2[i].ev = "End"}
      ends == [j \in 1..Cardinality(E) |-> CHOOSE i \in E : Cardinality({x \in E : x < i}) = j - 1]
  IN [j \in 1..Len(ends) |-> ClosedAt(h2, ends[j])]

Init == hist = <<>> /\ last = <<>>

\* One call: some (possibly no) further events are decoded.
Decode ==
  \E h \in {hist}, h2 \in {hist'} :
    /\ IsPrefix(h, h2)
    /\ Matched(h2)
    /\ last' = Closed(h, h2)

Spec == Init /\ [][Decode]_<<hist, last>>

=============================================================================
