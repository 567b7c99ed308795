--------------------------- MODULE HwTraceDecoder ---------------------------
(***************************************************************************)
(* RTProfileDevice::logTrace in hardware mode (isHwEmu = false), composed  *)
(* with the monitors that produce its input.                               *)
(*                                                                         *)
(* One call of logTrace is one atomic step (LogTrace): the code is         *)
(* single-threaded and a started batch always runs to completion.  The     *)
(* step folds the per-sample decoder (TraceIngest dispatch,                *)
(* SlotEventMatcher, KernelIntervalTracker) over the batch, then runs the  *)
(* IncompleteCUApproximator post-pass and clears the started bitmasks.     *)
(* The output (resultVector) of the call is `result`.                     *)
(*                                                                         *)
(* Times are device cycles.  Host-time conversion is an increasing affine  *)
(* map (modelled in ClockTraining) and is left out here: it preserves the  *)
(* order of any two times, and no decision in this path depends on a host  *)
(* time.                                                                   *)
(***************************************************************************)
EXTENDS HwTraceMonitors, SequencesExt

CONSTANT MaxTraceEvents   \* mMaxTraceEvents

VARIABLES
  mStarts,                 \* mReadStarts / mWriteStarts: per port and dir
  mAccelMonStartedEvents,  \* per CU: the categories marked started
  mAccelMonTime,           \* mAccelMonCuTime / mAccelMonStall{Int,Str,Ext}Time
  mAccelMonLastTranx,      \* per CU: cycle of its last SAM sample
  mPerfMonLastTranx,       \* per port: cycle of its last decoded End
  mNumTraceEvents,
  result,                  \* resultVector filled by the last call
  splitActive              \* history: a call ran while a CU was active

decVars == <<mStarts, mAccelMonStartedEvents, mAccelMonTime,
             mAccelMonLastTranx, mPerfMonLastTranx, mNumTraceEvents,
             result, splitActive>>
vars == <<devVars, decVars>>

\* A DeviceTrace record; type is "Read", "Write" or a CU category.
TraceRec == [type: Dirs \cup Cats, slot: CUs \cup Ports,
             startTime: Time, endTime: Time, approx: BOOLEAN]

TrainPacket == [kind |-> "Train"]

\* The order of the stall blocks in the SAM branch.
StallOrder == SelectSeq(<<StallInt, StallStr, StallExt>>, LAMBDA k : k \in StallCats)

\* Types; the event counter may pass the cap by at most one batch (the two
\* training packets and a full FIFO), since the cap is checked on entry.
TypeOK ==
  /\ DevTypeOK
  /\ mStarts \in [Ports -> [Dirs -> Seq(Time)]]
  /\ mAccelMonStartedEvents \in [CUs -> SUBSET Cats]
  /\ mAccelMonTime \in [CUs -> [Cats -> Time]]
  /\ mAccelMonLastTranx \in [CUs -> Time]
  /\ mPerfMonLastTranx \in [Ports -> Time]
  /\ mNumTraceEvents \in 0..(MaxTraceEvents + FifoDepth + 1)
  /\ result \in Seq(TraceRec)
  /\ splitActive \in BOOLEAN

Init ==
  /\ DevInit
  /\ mStarts = [p \in Ports |-> [d \in Dirs |-> <<>>]]
  /\ mAccelMonStartedEvents = [c \in CUs |-> {}]
  /\ mAccelMonTime = [c \in CUs |-> [k \in Cats |-> 0]]
  /\ mAccelMonLastTranx = [c \in CUs |-> 0]
  /\ mPerfMonLastTranx = [p \in Ports |-> 0]
  /\ mNumTraceEvents = 0
  /\ result = <<>> /\ splitActive = FALSE

-----------------------------------------------------------------------------
(* The per-sample decoder works on a record st holding the decoder state   *)
(* and the output built so far (out).                                      *)

\* Mutants of DecodeSpm: the end pops the newest start (LIFO), or reads the
\* oldest start without popping it.
DecodeSpmLifo(st, r) ==
  IF r.ev = "Start"
  THEN [st EXCEPT !.starts[r.slot][r.dir] = Append(@, r.ts)]
  ELSE LET q   == st.starts[r.slot][r.dir]
           pop == r.reserved = 0 /\ q # <<>>
       IN [st EXCEPT
             !.starts[r.slot][r.dir] = IF pop THEN Front(@) ELSE @,
             !.out = Append(@, [type |-> r.dir, slot |-> r.slot,
                                startTime |-> IF pop THEN Last(q) ELSE r.ts,
                                endTime |-> r.ts, approx |-> FALSE]),
             !.perfLast[r.slot] = r.ts]

DecodeSpmNoPop(st, r) ==
  IF r.ev = "Start"
  THEN [st EXCEPT !.starts[r.slot][r.dir] = Append(@, r.ts)]
  ELSE LET q   == st.starts[r.slot][r.dir]
           pop == r.reserved = 0 /\ q # <<>>
       IN [st EXCEPT
             !.out = Append(@, [type |-> r.dir, slot |-> r.slot,
                                startTime |-> IF pop THEN Head(q) ELSE r.ts,
                                endTime |-> r.ts, approx |-> FALSE]),
             !.perfLast[r.slot] = r.ts]

\* SPM sample: a start is queued; an end pops the oldest start of its
\* channel, or stands alone if Reserved is set or the queue is empty.
DecodeSpm(st, r) ==
  IF r.ev = "Start"
  THEN [st EXCEPT !.starts[r.slot][r.dir] = Append(@, r.ts)]
  ELSE LET q         == st.starts[r.slot][r.dir]
           pop       == r.reserved = 0 /\ q # <<>>
           startTime == IF pop THEN Head(q) ELSE r.ts
       IN [st EXCEPT
             !.starts[r.slot][r.dir] = IF pop THEN Tail(@) ELSE @,
             !.out = Append(@, [type |-> r.dir, slot |-> r.slot,
                                startTime |-> startTime, endTime |-> r.ts,
                                approx |-> FALSE]),
             !.perfLast[r.slot] = r.ts]

\* Mutants of DecodeSam: a completed Kernel appended at the back like the
\* stalls; the started bits set with OR instead of flipped with XOR.
DecodeSamKernelAtBack(st, r) ==
  LET s        == r.slot
      ended    == r.bits \cap st.started[s]
      Done(k)  == [type |-> k, slot |-> s, startTime |-> st.catTime[s][k],
                   endTime |-> r.ts, approx |-> FALSE]
      stalls   == SelectSeq(StallOrder, LAMBDA k : k \in ended)
      kernel   == IF Kernel \in ended THEN <<Done(Kernel)>> ELSE <<>>
  IN [st EXCEPT
        !.out = @ \o kernel \o [i \in DOMAIN stalls |-> Done(stalls[i])],
        !.catTime[s] = [k \in Cats |->
                          IF k \in r.bits \ st.started[s] THEN r.ts ELSE @[k]],
        !.started[s] = (@ \ r.bits) \cup (r.bits \ @),
        !.accelLast[s] = r.ts]

DecodeSamOr(st, r) ==
  LET s        == r.slot
      ended    == r.bits \cap st.started[s]
      Done(k)  == [type |-> k, slot |-> s, startTime |-> st.catTime[s][k],
                   endTime |-> r.ts, approx |-> FALSE]
      stalls   == SelectSeq(StallOrder, LAMBDA k : k \in ended)
      kernel   == IF Kernel \in ended THEN <<Done(Kernel)>> ELSE <<>>
  IN [st EXCEPT
        !.out = kernel \o @ \o [i \in DOMAIN stalls |-> Done(stalls[i])],
        !.catTime[s] = [k \in Cats |->
                          IF k \in r.bits \ st.started[s] THEN r.ts ELSE @[k]],
        !.started[s] = @ \cup r.bits,
        !.accelLast[s] = r.ts]

\* SAM sample: each category bit either starts its interval or completes
\* it; a completed Kernel goes to the front of the output, completed stalls
\* to the back in block order; then the bits are flipped (XOR).
DecodeSam(st, r) ==
  LET s        == r.slot
      ended    == r.bits \cap st.started[s]
      Done(k)  == [type |-> k, slot |-> s, startTime |-> st.catTime[s][k],
                   endTime |-> r.ts, approx |-> FALSE]
      stalls   == SelectSeq(StallOrder, LAMBDA k : k \in ended)
      kernel   == IF Kernel \in ended THEN <<Done(Kernel)>> ELSE <<>>
  IN [st EXCEPT
        !.out = kernel \o @ \o [i \in DOMAIN stalls |-> Done(stalls[i])],
        !.catTime[s] = [k \in Cats |->
                          IF k \in r.bits \ st.started[s] THEN r.ts ELSE @[k]],
        !.started[s] = (@ \ r.bits) \cup (r.bits \ @),
        !.accelLast[s] = r.ts]

\* Dispatch on the TraceID range; an unsupported TraceID is skipped.
Decode(st, r) ==
  CASE r.kind = "SAM" -> DecodeSam(st, r)
    [] r.kind = "SPM" -> DecodeSpm(st, r)
    [] OTHER          -> st

\* Mutant of LastActivity: the CU's own last SAM sample is left out.
LastActivityPortsOnly(st, i) ==
  Max({st.perfLast[j] : j \in {p \in Ports : PortCU[p] = i}} \cup {0})

\* Latest activity of CU i: its own last SAM sample and the last End of
\* every port whose slot name carries the CU's name.
LastActivity(st, i) ==
  LET ev == {st.perfLast[j] : j \in {p \in Ports : PortCU[p] = i}}
            \cup {st.accelLast[i]}
  IN Max(ev \cup {0})

\* Post-pass for one CU still marked started: synthesize its end from the
\* latest activity, unless there is none (zero).
ApproxCU(st, i) ==
  IF Kernel \in st.started[i] /\ LastActivity(st, i) # 0
  THEN [st EXCEPT !.out = Cons([type |-> Kernel, slot |-> i,
                                startTime |-> st.catTime[i][Kernel],
                                endTime |-> LastActivity(st, i),
                                approx |-> TRUE], @)]
  ELSE st

\* After the loop: the post-pass over the CU slots in index order, then
\* every started bitmask is cleared.
EndOfBatch(st) ==
  LET st1 == FoldLeft(ApproxCU, st, SetToSortSeq(CUs, <))
  IN [st1 EXCEPT !.started = [c \in CUs |-> {}]]

-----------------------------------------------------------------------------
(* logTrace.  The driver has already offloaded the whole (non-empty)       *)
(* trace FIFO; the batch is the two clock-training packets followed by the *)
(* samples.  Sample 0 only feeds clock training; decoding starts at        *)
(* sample 1.                                                               *)

\* Mutant of LogTrace: the event cap is not checked on entry.
LogTraceNoCap ==
  /\ fifo # <<>>
  /\ LET batch == <<TrainPacket, TrainPacket>> \o fifo
         st0   == [starts |-> mStarts, started |-> mAccelMonStartedEvents,
                   catTime |-> mAccelMonTime, accelLast |-> mAccelMonLastTranx,
                   perfLast |-> mPerfMonLastTranx, out |-> <<>>]
         st    == EndOfBatch(FoldLeft(Decode, st0, Tail(batch)))
     IN /\ mNumTraceEvents' = mNumTraceEvents + Len(batch)
        /\ mStarts' = st.starts
        /\ mAccelMonStartedEvents' = st.started
        /\ mAccelMonTime' = st.catTime
        /\ mAccelMonLastTranx' = st.accelLast
        /\ mPerfMonLastTranx' = st.perfLast
        /\ result' = st.out
  /\ splitActive' = (splitActive \/ \E c \in CUs : active[c] # {})
  /\ fifo' = <<>>
  /\ UNCHANGED <<clock, lost, reserved, open, done, active, catStart,
                 intervals>>

\* Mutant of LogTrace: the sample loop stops one short of mLength.
LogTraceDropLast ==
  /\ fifo # <<>>
  /\ mNumTraceEvents < MaxTraceEvents
  /\ LET batch == <<TrainPacket, TrainPacket>> \o fifo
         st0   == [starts |-> mStarts, started |-> mAccelMonStartedEvents,
                   catTime |-> mAccelMonTime, accelLast |-> mAccelMonLastTranx,
                   perfLast |-> mPerfMonLastTranx, out |-> <<>>]
         st    == EndOfBatch(FoldLeft(Decode, st0, Front(Tail(batch))))
     IN /\ mNumTraceEvents' = mNumTraceEvents + Len(batch)
        /\ mStarts' = st.starts
        /\ mAccelMonStartedEvents' = st.started
        /\ mAccelMonTime' = st.catTime
        /\ mAccelMonLastTranx' = st.accelLast
        /\ mPerfMonLastTranx' = st.perfLast
        /\ result' = st.out
  /\ splitActive' = (splitActive \/ \E c \in CUs : active[c] # {})
  /\ fifo' = <<>>
  /\ UNCHANGED <<clock, lost, reserved, open, done, active, catStart,
                 intervals>>

LogTrace ==
  /\ fifo # <<>>
  /\ mNumTraceEvents < MaxTraceEvents
  /\ LET batch == <<TrainPacket, TrainPacket>> \o fifo
         st0   == [starts |-> mStarts, started |-> mAccelMonStartedEvents,
                   catTime |-> mAccelMonTime, accelLast |-> mAccelMonLastTranx,
                   perfLast |-> mPerfMonLastTranx, out |-> <<>>]
         st    == EndOfBatch(FoldLeft(Decode, st0, Tail(batch)))
     IN /\ mNumTraceEvents' = mNumTraceEvents + Len(batch)
        /\ mStarts' = st.starts
        /\ mAccelMonStartedEvents' = st.started
        /\ mAccelMonTime' = st.catTime
        /\ mAccelMonLastTranx' = st.accelLast
        /\ mPerfMonLastTranx' = st.perfLast
        /\ result' = st.out
  /\ splitActive' = (splitActive \/ \E c \in CUs : active[c] # {})
  /\ fifo' = <<>>
  /\ UNCHANGED <<clock, lost, reserved, open, done, active, catStart,
                 intervals>>

\* Once the event cap is reached a call returns at once; the offloaded
\* samples are gone.
LogTraceCapped ==
  /\ fifo # <<>>
  /\ mNumTraceEvents >= MaxTraceEvents
  /\ fifo' = <<>>
  /\ UNCHANGED <<clock, lost, reserved, open, done, active, catStart,
                 intervals, decVars>>

Next ==
  \/ /\ DevNext
     /\ UNCHANGED decVars
  \/ LogTrace
  \/ LogTraceCapped

Spec == Init /\ [][Next]_vars

-----------------------------------------------------------------------------
(* Properties.  They judge the output of the last call (result) against    *)
(* the monitors' ground truth.                                             *)

MemRecs(seq) == {seq[i] : i \in {j \in DOMAIN seq : seq[j].type \in Dirs}}
CuRecs(seq)  == {seq[i] : i \in {j \in DOMAIN seq : seq[j].type \in Cats}}
AsTxn(r)     == [port |-> r.slot, dir |-> r.type,
                 start |-> r.startTime, end |-> r.endTime]
AsInterval(r) == [cu |-> r.slot, cat |-> r.type,
                  start |-> r.startTime, end |-> r.endTime]

\* Front/back insertion (DecodeSam, ApproxCU): within the output of one
\* call every Kernel record precedes every stall and memory record.
KernelFirst ==
  \A i, j \in DOMAIN result :
    (i < j /\ result[j].type = Kernel) => result[i].type = Kernel

\* FIFO pairing (DecodeSpm): when no sample was lost and none flagged
\* Reserved, every Read/Write record the decoder reports is a transaction
\* that really happened on that port, start and end paired correctly, even
\* with several transactions outstanding and split over calls.
MemPairingExact ==
  (lost = 0 /\ reserved = 0) => \A r \in MemRecs(result) : AsTxn(r) \in done

\* Even with lost samples and Reserved ends, a Read/Write record either is
\* a single-point record (start = end) or starts at a genuine start of its
\* channel that no other record of the call also claims.
MemStartsSound ==
  \A r \in MemRecs(result) :
    r.startTime # r.endTime =>
      /\ \E t \in done \cup {[port |-> r.slot, dir |-> r.type, start |-> s,
                              end |-> MaxTime] :
                                s \in {open[r.slot][r.type][k] :
                                         k \in DOMAIN open[r.slot][r.type]}} :
           t.port = r.slot /\ t.dir = r.type /\ t.start = r.startTime
      /\ \A r2 \in MemRecs(result) \ {r} :
           r2.slot = r.slot /\ r2.type = r.type => r2.startTime # r.startTime

\* Toggle tracking (DecodeSam): every CU interval reported (kernel or stall,
\* observed or approximated) starts at a genuine start of that category,
\* and an observed one is exactly an interval that happened.
IntervalsGenuine ==
  \A r \in CuRecs(result) :
    IF r.approx
    THEN \E iv \in intervals \cup
                {[cu |-> r.slot, cat |-> Kernel, start |-> catStart[r.slot][Kernel],
                  end |-> MaxTime]} :
           iv.cu = r.slot /\ iv.cat = Kernel /\ iv.start = r.startTime
                          /\ (iv \notin intervals => Kernel \in active[r.slot])
    ELSE AsInterval(r) \in intervals

\* ... which holds as long as no call has run while a CU was active: the
\* started bitmasks are cleared at the end of every call (line 489).
IntervalsGenuineUntilSplit == ~splitActive => IntervalsGenuine

\* Approximated CU end (ApproxCU): the synthesized end is never earlier
\* than the kernel start it closes, even when the only activity recorded
\* for its ports is stale, from an earlier run.
ApproxEndNotBeforeStart ==
  \A r \in CuRecs(result) : r.approx => r.startTime <= r.endTime

\* Approximated CU end (spec 4.5): a call that decodes the start of a
\* kernel still running when the call ends emits an approximated end for
\* that CU, since the start sample is itself activity of the CU
\* (mAccelMonLastTranx); only a CU with no activity at all gets none.
ApproxWhenRunning ==
  [][mNumTraceEvents' # mNumTraceEvents =>
       \A c \in CUs :
         (/\ Kernel \in active[c]
          /\ \E i \in DOMAIN fifo : /\ fifo[i].kind = "SAM" /\ fifo[i].slot = c
                                  /\ Kernel \in fifo[i].bits
                                  /\ fifo[i].ts = catStart[c][Kernel])
           => \E r \in CuRecs(result') : r.slot = c /\ r.type = Kernel /\ r.approx]_vars

=============================================================================
