-------------------------- MODULE HwTraceMonitors --------------------------
(***************************************************************************)
(* The device side of hardware-mode tracing: the SPM (memory) and SAM      *)
(* (compute-unit) monitors that write trace samples into the device trace  *)
(* FIFO which RTProfileDevice::logTrace later decodes.  This module is the *)
(* environment of the decoder; it keeps the ground truth (which memory     *)
(* transactions and which compute-unit intervals really happened) that    *)
(* the decoder's output is judged against.                                 *)
(*                                                                         *)
(* A sample is a record of a small set, abstracting the TraceID encoding   *)
(* (rt_profile_device.cpp:197-205, 323-327, 393, 422):                     *)
(*   SPM sample  : TraceID 2..61 -> memory slot, IS_READ/IS_WRITE -> dir,  *)
(*                 EventType -> ev, Reserved -> reserved;                  *)
(*   SAM sample  : TraceID >= 64 -> CU slot (TraceID-64)/16, the low four  *)
(*                 bits -> the set of categories toggled;                  *)
(*   Train sample: the two clock-training packets that lead every          *)
(*                 hardware batch; their TraceID is in no decoded range.   *)
(***************************************************************************)
EXTENDS Naturals, Sequences, FiniteSets

CONSTANTS
  CUs,          \* compute-unit (SAM) slot indices
  Ports,        \* memory (SPM) slot indices
  PortCU,       \* the CU whose name prefixes the port's slot name
  StallCats,    \* stall categories the SAM monitors report (subset of Stalls)
  MaxTime,      \* last device cycle the model explores
  FifoDepth,    \* capacity of the device trace FIFO
  MaxLoss,      \* samples the full trace FIFO may drop
  MaxReserved   \* End samples the SPM monitors may flag Reserved

Kernel   == "Kernel"
StallInt == "StallInt"
StallStr == "StallStr"
StallExt == "StallExt"
Stalls   == {StallInt, StallStr, StallExt}
Cats     == {Kernel} \cup StallCats
Dirs     == {"Read", "Write"}
Time     == 0..MaxTime

ASSUME /\ PortCU \in [Ports -> CUs]
       /\ StallCats \subseteq Stalls
       /\ MaxTime \in Nat /\ FifoDepth \in Nat \ {0}
       /\ MaxLoss \in Nat /\ MaxReserved \in Nat

SpmSample   == [kind: {"SPM"}, slot: Ports, dir: Dirs,
                ev: {"Start", "End"}, reserved: {0, 1}, ts: Time]
SamSample   == [kind: {"SAM"}, slot: CUs, bits: SUBSET Cats \ {{}}, ts: Time]
TrainSample == [kind: {"Train"}]
Sample      == SpmSample \cup SamSample \cup TrainSample

VARIABLES
  clock,      \* device cycle counter (no wrap-around in this module)
  fifo,       \* samples written to the trace FIFO and not yet offloaded
  lost,       \* samples dropped because the FIFO was full
  reserved,   \* End samples flagged Reserved so far
  open,       \* truth: start cycles of outstanding transactions, in order
  done,       \* truth: completed memory transactions
  active,     \* truth: categories currently running on each CU
  catStart,   \* truth: start cycle of each running category
  intervals   \* truth: completed CU intervals

devVars == <<clock, fifo, lost, reserved, open, done,
             active, catStart, intervals>>

Txn      == [port: Ports, dir: Dirs, start: Time, end: Time]
Interval == [cu: CUs, cat: Cats, start: Time, end: Time]

DevTypeOK ==
  /\ clock \in Time
  /\ fifo \in Seq(Sample) /\ Len(fifo) <= FifoDepth
  /\ lost \in 0..MaxLoss /\ reserved \in 0..MaxReserved
  /\ open \in [Ports -> [Dirs -> Seq(Time)]]
  /\ done \subseteq Txn
  /\ active \in [CUs -> SUBSET Cats]
  /\ catStart \in [CUs -> [Cats -> Time]]
  /\ intervals \subseteq Interval

DevInit ==
  /\ clock = 0
  /\ fifo = <<>>
  /\ lost = 0 /\ reserved = 0
  /\ open = [p \in Ports |-> [d \in Dirs |-> <<>>]]
  /\ done = {}
  /\ active = [c \in CUs |-> {}]
  /\ catStart = [c \in CUs |-> [k \in Cats |-> 0]]
  /\ intervals = {}

\* A monitor writes sample s at the current cycle, which then ends (one
\* sample per cycle keeps samples of a channel apart); a full trace FIFO
\* drops the sample.
Emit(s) ==
  /\ clock < MaxTime
  /\ clock' = clock + 1
  /\ \/ /\ Len(fifo) < FifoDepth
        /\ fifo' = Append(fifo, s)
        /\ UNCHANGED lost
     \/ /\ Len(fifo) = FifoDepth
        /\ lost < MaxLoss
        /\ lost' = lost + 1
        /\ UNCHANGED fifo

\* A port of a running CU issues a transaction.
MemStart(p, d) ==
  /\ Kernel \in active[PortCU[p]]
  /\ open' = [open EXCEPT ![p][d] = Append(@, clock)]
  /\ Emit([kind |-> "SPM", slot |-> p, dir |-> d, ev |-> "Start",
           reserved |-> 0, ts |-> clock])
  /\ UNCHANGED <<reserved, done, active, catStart, intervals>>

\* The oldest outstanding transaction of the channel completes (AXI
\* responses of one channel return in order).
MemEnd(p, d) ==
  /\ open[p][d] # <<>>
  /\ \E rsv \in {0, 1} :
       /\ rsv = 1 => reserved < MaxReserved
       /\ reserved' = reserved + rsv
       /\ Emit([kind |-> "SPM", slot |-> p, dir |-> d, ev |-> "End",
                reserved |-> rsv, ts |-> clock])
  /\ open' = [open EXCEPT ![p][d] = Tail(@)]
  /\ done' = done \cup {[port |-> p, dir |-> d,
                         start |-> Head(open[p][d]), end |-> clock]}
  /\ UNCHANGED <<active, catStart, intervals>>

PortsIdle(c) == \A p \in Ports, d \in Dirs : PortCU[p] = c => open[p][d] = <<>>

\* The SAM monitor of CU c reports the categories in B toggling.  Stalls
\* only happen inside a kernel run, and a kernel ends with its ports idle.
SamToggle(c, B) ==
  LET now == (active[c] \ B) \cup (B \ active[c])
  IN /\ now \ {Kernel} # {} => Kernel \in now
     /\ Kernel \in active[c] \ now => PortsIdle(c)
     /\ active' = [active EXCEPT ![c] = now]
     /\ catStart' = [catStart EXCEPT ![c] =
                       [k \in Cats |-> IF k \in B \ active[c] THEN clock ELSE @[k]]]
     /\ intervals' = intervals \cup
          {[cu |-> c, cat |-> k, start |-> catStart[c][k], end |-> clock] :
             k \in B \cap active[c]}
     /\ Emit([kind |-> "SAM", slot |-> c, bits |-> B, ts |-> clock])
     /\ UNCHANGED <<reserved, open, done>>

DevNext ==
  \/ \E p \in Ports, d \in Dirs : MemStart(p, d) \/ MemEnd(p, d)
  \/ \E c \in CUs, B \in SUBSET Cats \ {{}} : SamToggle(c, B)

=============================================================================
