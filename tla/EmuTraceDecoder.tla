-------------------------- MODULE EmuTraceDecoder --------------------------
(***************************************************************************)
(* RTProfileDevice::logTrace in hardware-emulation mode (isHwEmu = true),  *)
(* composed with the emulated monitors.  One call is one atomic step: the  *)
(* decoder is folded over the batch, then the started bitmasks are         *)
(* cleared.  There is no clock training and no CU-end approximation in     *)
(* this mode.                                                              *)
(*                                                                         *)
(* Abstractions.  The device time of a sample is the running sum of the   *)
(* deltas (mPrevTimestamp, lines 163-166); nothing is lost in emulation,   *)
(* so the sum is the sample's cycle (ts).  The skip of a duplicate host    *)
(* timestamp with delta 1 (lines 168-172) filters clock-sync markers whose *)
(* format is outside this file; a monitor sample never meets it because   *)
(* host time advances with every cycle.  Host times are kept as the sign  *)
(* information the decisions need: the zero-length padding with           *)
(* mEmuTraceMsecOneCycle and the End >= Start test.                        *)
(***************************************************************************)
EXTENDS EmuTraceMonitors, SequencesExt

CONSTANT MaxTraceEvents   \* mMaxTraceEvents

VARIABLES
  mStarts,                 \* mWriteStarts/mHostWriteStarts, mReadStarts/...
  mAccelMonStartedEvents,  \* the CUs whose CU bit is marked started
  mAccelMonCuTime,         \* and mAccelMonCuHostTime: start of the run
  mEmuTraceMsecOneCycle,   \* padding for zero-length transactions (sign)
  mNumTraceEvents,
  result,                  \* resultVector filled by the last call
  batch,                   \* history: the samples of the last call
  splitActive              \* history: a call ran while a CU was running

decVars == <<mStarts, mAccelMonStartedEvents, mAccelMonCuTime,
             mEmuTraceMsecOneCycle, mNumTraceEvents, result, batch,
             splitActive>>
vars == <<devVars, decVars>>

Init ==
  /\ DevInit
  /\ mStarts = [p \in Ports |-> [d \in Dirs |-> <<>>]]
  /\ mAccelMonStartedEvents = {}
  /\ mAccelMonCuTime = [c \in CUs |-> 0]
  /\ mEmuTraceMsecOneCycle = "zero"
  /\ mNumTraceEvents = 0
  /\ result = <<>> /\ batch = <<>> /\ splitActive = FALSE

-----------------------------------------------------------------------------
\* num / den for a host-time difference num and a cycle difference den.
Quotient(num, den) ==
  CASE den # 0 /\ num < 0 -> "neg"
    [] den # 0 /\ num = 0 -> "zero"
    [] den # 0 /\ num > 0 -> "pos"
    [] num < 0            -> "-inf"
    [] num > 0            -> "+inf"
    [] OTHER              -> "nan"

\* End >= Start for a transaction from host time s to host time e, after
\* a zero-length one has had the padding eps added to its End.
Reported(s, e, eps) ==
  IF s # e THEN e >= s ELSE eps \in {"zero", "pos", "+inf"}

\* Mutant of Channel: the last flag pops the newest start (LIFO).
ChannelLifo(st, r, d) ==
  LET s1 == IF FirstFlag[d] \in r.flags
            THEN [st EXCEPT !.starts[r.slot][d] = Append(@, r.ts)]
            ELSE st
      q  == s1.starts[r.slot][d]
  IN CASE LastFlag[d] \notin r.flags -> [st |-> s1, stop |-> FALSE]
       [] q = <<>>               -> [st |-> s1, stop |-> TRUE]
       [] OTHER ->
            [st |-> [s1 EXCEPT
                       !.starts[r.slot][d] = Front(q),
                       !.out = IF Reported(q[Len(q)], r.ts, s1.eps)
                               THEN Append(@, [type |-> d, slot |-> r.slot,
                                               startTime |-> q[Len(q)],
                                               endTime |-> r.ts])
                               ELSE @],
             stop |-> FALSE]

\* One direction of a memory sample: its first flag queues a start; its
\* last flag pops the oldest start and reports the transaction, or, with
\* the queue empty, ends the decoding of the whole sample (`continue`).
Channel(st, r, d) ==
  LET s1 == IF FirstFlag[d] \in r.flags
            THEN [st EXCEPT !.starts[r.slot][d] = Append(@, r.ts)]
            ELSE st
      q  == s1.starts[r.slot][d]
  IN CASE LastFlag[d] \notin r.flags -> [st |-> s1, stop |-> FALSE]
       [] q = <<>>               -> [st |-> s1, stop |-> TRUE]
       [] OTHER ->
            [st |-> [s1 EXCEPT
                       !.starts[r.slot][d] = Tail(q),
                       !.out = IF Reported(Head(q), r.ts, s1.eps)
                               THEN Append(@, [type |-> d, slot |-> r.slot,
                                               startTime |-> Head(q),
                                               endTime |-> r.ts])
                               ELSE @],
             stop |-> FALSE]

\* Memory sample: the write blocks, then the read blocks.
DecodeEmuSpm(st, r) ==
  LET w == Channel(st, r, "Write")
  IN IF w.stop THEN w.st ELSE Channel(w.st, r, "Read").st

\* Mutant of DecodeEmuSam: a starting run does not record its start time.
DecodeEmuSamNoStartTime(st, r) ==
  LET c == r.slot
      t == st.cuTime[c]
  IN IF c \in st.started
     THEN [st EXCEPT !.out = Append(@, [type |-> "Kernel", slot |-> c,
                                         startTime |-> t, endTime |-> r.ts]),
                     !.eps = Quotient(r.ts - t, 2 * (r.ts - t)),
                     !.started = @ \ {c}]
     ELSE [st EXCEPT !.started = @ \cup {c}]

\* CU sample: the CU bit starts a run or completes it; a completed run is
\* appended to the output and resets the padding from its duration.
DecodeEmuSam(st, r) ==
  LET c == r.slot
      t == st.cuTime[c]
  IN IF c \in st.started
     THEN [st EXCEPT !.out = Append(@, [type |-> "Kernel", slot |-> c,
                                         startTime |-> t, endTime |-> r.ts]),
                     !.eps = Quotient(r.ts - t, 2 * (r.ts - t)),
                     !.started = @ \ {c}]
     ELSE [st EXCEPT !.cuTime[c] = r.ts, !.started = @ \cup {c}]

DecodeEmu(st, r) ==
  IF r.kind = "SPM" THEN DecodeEmuSpm(st, r) ELSE DecodeEmuSam(st, r)

-----------------------------------------------------------------------------
\* logTrace on the offloaded (non-empty) trace buffer.
LogTrace ==
  /\ fifo # <<>>
  /\ mNumTraceEvents < MaxTraceEvents
  /\ LET st0 == [starts |-> mStarts, started |-> mAccelMonStartedEvents,
                 cuTime |-> mAccelMonCuTime, eps |-> mEmuTraceMsecOneCycle,
                 out |-> <<>>]
         st  == FoldLeft(DecodeEmu, st0, fifo)
     IN /\ mStarts' = st.starts
        /\ mAccelMonStartedEvents' = {}
        /\ mAccelMonCuTime' = st.cuTime
        /\ mEmuTraceMsecOneCycle' = st.eps
        /\ result' = st.out
  /\ mNumTraceEvents' = mNumTraceEvents + Len(fifo)
  /\ batch' = fifo
  /\ splitActive' = (splitActive \/ running # {})
  /\ fifo' = <<>>
  /\ UNCHANGED <<clock, open, done, running, kStart, kernels>>

\* Once the event cap is reached a call returns at once.
LogTraceCapped ==
  /\ fifo # <<>>
  /\ mNumTraceEvents >= MaxTraceEvents
  /\ fifo' = <<>>
  /\ UNCHANGED <<clock, open, done, running, kStart, kernels, decVars>>

Next ==
  \/ DevNext /\ UNCHANGED decVars
  \/ LogTrace
  \/ LogTraceCapped

Spec == Init /\ [][Next]_vars


-----------------------------------------------------------------------------
(* Properties, judged against the emulated monitors' ground truth.         *)

AsTxn(r) == [port |-> r.slot, dir |-> r.type, start |-> r.startTime,
             end |-> r.endTime]

\* Timeline ordering contract (spec 4.4): within the output of one call
\* every Kernel record precedes every memory record.
KernelFirst ==
  \A i, j \in DOMAIN result :
    (i < j /\ result[j].type = "Kernel") => result[i].type = "Kernel"

\* The two directions of a memory port are independent channels: a
\* direction none of whose start samples is missing reports every
\* transaction that completes in a call, paired with its own start, no
\* matter what the other direction of the same port carries in the same
\* samples (an end with no queued start is dropped on its own: spec 4.3).
ChannelsIndependent ==
  \A k \in DOMAIN batch :
    LET r == batch[k]
    IN r.kind = "SPM" =>
         \A d \in Dirs :
           (LastFlag[d] \in r.flags /\ <<r.slot, d>> \notin PreTrace) =>
             \E i \in DOMAIN result :
               /\ result[i].type = d /\ result[i].slot = r.slot
               /\ result[i].endTime = r.ts
               /\ AsTxn(result[i]) \in done

\* Every kernel record is a run that happened, as long as no call has run
\* while a kernel was running (the started bits are cleared per call).
KernelsGenuineUntilSplit ==
  ~splitActive =>
    \A i \in DOMAIN result :
      result[i].type = "Kernel" =>
        [cu |-> result[i].slot, start |-> result[i].startTime,
         end |-> result[i].endTime] \in kernels

=============================================================================
