------------------------- MODULE EmuTraceMonitors --------------------------
(***************************************************************************)
(* The device side of hardware-emulation tracing (isHwEmu = true): the     *)
(* emulated memory monitors report per-sample flag bits (write first,      *)
(* write last, read first, read last) and the emulated CU monitors report  *)
(* the CU bit, which toggles a kernel run.  Each sample carries its host   *)
(* timestamp; the emulator derives it from the simulated cycle, so here a  *)
(* sample's host time is its cycle (ts).                                   *)
(*                                                                         *)
(* TraceID abstraction (rt_profile_device.cpp:210-211, 291-293):           *)
(* TraceID < 61 -> memory slot TraceID/2, 64..94 -> CU slot TraceID-64.    *)
(***************************************************************************)
EXTENDS Naturals, Sequences, FiniteSets

CONSTANTS
  CUs,          \* CU slot indices
  Ports,        \* memory slot indices
  MaxTime,      \* last cycle the model explores
  FifoDepth,    \* samples the trace buffer holds before it is offloaded
  PreTrace      \* channels with a transaction in flight when tracing starts

Dirs  == {"Read", "Write"}
FirstFlag == [Read |-> "RF", Write |-> "WF"]   \* XAPM_READ_FIRST / WRITE_FIRST
LastFlag  == [Read |-> "RL", Write |-> "WL"]   \* XAPM_READ_LAST / WRITE_LAST
Flags == {"WF", "WL", "RF", "RL"}
Time  == 0..MaxTime

ASSUME /\ MaxTime \in Nat /\ FifoDepth \in Nat \ {0}
       /\ PreTrace \subseteq Ports \X Dirs

SpmSample == [kind: {"SPM"}, slot: Ports, flags: SUBSET Flags, ts: Time]
SamSample == [kind: {"SAM"}, slot: CUs, ts: Time]
Sample    == SpmSample \cup SamSample

VARIABLES
  clock,      \* simulated cycle
  fifo,       \* samples recorded and not yet offloaded
  open,       \* truth: start cycles of outstanding transactions, in order
  done,       \* truth: completed transactions
  running,    \* truth: CUs running a kernel
  kStart,     \* truth: start cycle of the running kernel of each CU
  kernels     \* truth: completed kernel runs

devVars == <<clock, fifo, open, done, running, kStart, kernels>>

Txn      == [port: Ports, dir: Dirs, start: Time, end: Time]
KernelRun == [cu: CUs, start: Time, end: Time]

DevTypeOK ==
  /\ clock \in Time
  /\ fifo \in Seq(Sample) /\ Len(fifo) <= FifoDepth
  /\ open \in [Ports -> [Dirs -> Seq(Time)]]
  /\ done \subseteq Txn
  /\ running \subseteq CUs
  /\ kStart \in [CUs -> Time]
  /\ kernels \subseteq KernelRun

\* A channel of PreTrace has one transaction that started before tracing
\* was enabled: its end will be recorded, its start never was.
DevInit ==
  /\ clock = 0
  /\ fifo = <<>>
  /\ open = [p \in Ports |-> [d \in Dirs |->
               IF <<p, d>> \in PreTrace THEN <<0>> ELSE <<>>]]
  /\ done = {}
  /\ running = {}
  /\ kStart = [c \in CUs |-> 0]
  /\ kernels = {}

Emit(s) ==
  /\ clock < MaxTime
  /\ Len(fifo) < FifoDepth
  /\ clock' = clock + 1
  /\ fifo' = Append(fifo, s)

\* One memory-monitor sample of port p carrying the flags F: per direction
\* a first flag issues a transaction, a last flag completes the oldest
\* outstanding one (possibly the one issued in this very cycle).
MemSample(p, F) ==
  LET q1(d) == IF FirstFlag[d] \in F THEN Append(open[p][d], clock) ELSE open[p][d]
  IN /\ F # {}
     /\ \A d \in Dirs : LastFlag[d] \in F => q1(d) # <<>>
     /\ open' = [open EXCEPT ![p] = [d \in Dirs |->
                   IF LastFlag[d] \in F THEN Tail(q1(d)) ELSE q1(d)]]
     /\ done' = done \cup {[port |-> p, dir |-> d, start |-> Head(q1(d)),
                            end |-> clock] : d \in {e \in Dirs : LastFlag[e] \in F}}
     /\ Emit([kind |-> "SPM", slot |-> p, flags |-> F, ts |-> clock])
     /\ UNCHANGED <<running, kStart, kernels>>

\* The CU monitor of c reports its CU bit: a kernel run starts or ends.
CuSample(c) ==
  /\ running' = (running \ {c}) \cup ({c} \ running)
  /\ kStart' = IF c \in running THEN kStart ELSE [kStart EXCEPT ![c] = clock]
  /\ kernels' = IF c \in running
                THEN kernels \cup {[cu |-> c, start |-> kStart[c], end |-> clock]}
                ELSE kernels
  /\ Emit([kind |-> "SAM", slot |-> c, ts |-> clock])
  /\ UNCHANGED <<open, done>>

DevNext ==
  \/ \E p \in Ports, F \in SUBSET Flags : MemSample(p, F)
  \/ \E c \in CUs : CuSample(c)

=============================================================================
