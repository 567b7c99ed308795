---------------------------- MODULE ClockTraining ----------------------------
(***************************************************************************)
(* Device-to-host clock training in hardware mode (isHwEmu = false):       *)
(* logTrace lines 177-195, trainDeviceHostTimestamps and                   *)
(* convertDeviceToHostTimestamp.                                           *)
(*                                                                         *)
(* Every hardware batch starts with two training packets.  Packet 0 gives  *)
(* (x1, y1), packet 1 gives (x2, y2) and the line through them becomes the *)
(* slope and offset of the conversion; mTrainProgramStart is re-read from  *)
(* the host clocks.  Every later sample's Timestamp, compensated by        *)
(* LOOP_ADD_TIME_SPM when its Overflow flag is set, is then converted.     *)
(*                                                                         *)
(* Abstractions.  A sample is identified by the absolute device cycle at   *)
(* which it was taken; the counter wraps modulo W (= LOOP_ADD_TIME_SPM),   *)
(* at most once in the explored range, and Overflow flags a value that     *)
(* has wrapped (spec section 6).  Host time runs at one unit per cycle     *)
(* and the code's +1000 adjustment exactly undoes the transport delay, so  *)
(* the adjusted host stamp of the packet taken at cycle a is a.  The       *)
(* division by 1e6 (ns to ms) scales both sides of every comparison and   *)
(* is left out.  Reals are kept exact as a numerator over the slope's      *)
(* denominator; a zero denominator is IEEE inf or nan, equal to nothing.   *)
(***************************************************************************)
EXTENDS Naturals, Integers, FiniteSets, SequencesExt

CONSTANTS
  W,                  \* LOOP_ADD_TIME_SPM: the device counter's modulus
  MaxCycle,           \* last absolute device cycle explored
  FifoDepth,          \* samples per batch after the two training packets
  ProgramStartReads   \* values one read of host-clock minus device-clock gives

ASSUME /\ W \in Nat \ {0} /\ MaxCycle \in Nat /\ MaxCycle < 2 * W
       /\ FifoDepth \in Nat \ {0}
       /\ ProgramStartReads \subseteq Int /\ ProgramStartReads # {}

VARIABLES
  now,                 \* absolute cycle of the next sample the device takes
  mTrainSlope,         \* [num, den]: (y2 - y1) / (x2 - x1)
  mTrainOffset,        \* numerator over mTrainSlope.den of y2 - slope * x2
  mTrainProgramStart,
  anchor,              \* history: {the program start of the first call}
  result               \* the decoded samples of the last call

vars == <<now, mTrainSlope, mTrainOffset, mTrainProgramStart, anchor, result>>

Cycle == 0..MaxCycle

\* The fields of the record the device writes for the sample at cycle a.
Timestamp(a) == a % W
Overflow(a)  == IF a >= W THEN 1 ELSE 0

\* The constructor's nominal line (1000 / mTraceClockRateMHz, offset 0)
\* is never used: every batch trains before it converts.
Init ==
  /\ now = 0
  /\ mTrainSlope = [num |-> 1000, den |-> 300]  \* 1000.0 / mTraceClockRateMHz
  /\ mTrainOffset = 0
  /\ mTrainProgramStart \in ProgramStartReads
  /\ anchor = {}
  /\ result = {}

-----------------------------------------------------------------------------
\* Mutant of Train: the cycle difference taken the other way round.
TrainSwapped(x1, y1, x2, y2) ==
  [slope |-> [num |-> y2 - y1, den |-> x1 - x2],
   offset |-> y2 * (x1 - x2) - (y2 - y1) * x2]

\* Lines 189-190: the line through (x1, y1) and (x2, y2); the offset
\* y2 - slope * x2 is kept as its numerator over the slope's denominator.
Train(x1, y1, x2, y2) ==
  [slope |-> [num |-> y2 - y1, den |-> x2 - x1],
   offset |-> y2 * (x2 - x1) - (y2 - y1) * x2]

\* Lines 194-195: the device time a sample is decoded with.
Compensated(a) == Timestamp(a) + Overflow(a) * W

\* convertDeviceToHostTimestamp(t) = slope * t + offset - programStart,
\* compared with host time h: equal only with a finite slope.
ConvertsTo(t, h) ==
  /\ mTrainSlope.den # 0
  /\ mTrainSlope.num * t + mTrainOffset
       = (h + mTrainProgramStart) * mTrainSlope.den

\* trainDeviceHostTimestamps: a read of the host clock minus a read of
\* xrt::time_ns(); the two reads are not atomic, so a read is any of
\* ProgramStartReads.
ProgramStartNow == ProgramStartReads

-----------------------------------------------------------------------------
\* One hardware logTrace call on a batch whose packets were taken at the
\* cycles in S: packets 0 and 1 train (their raw Timestamp, line 184-188),
\* trainDeviceHostTimestamps re-reads the program start (line 191, 631),
\* and every later sample is decoded at its compensated time.
LogTrace ==
  \E S \in SUBSET (now..MaxCycle) :
    /\ Cardinality(S) \in 3..(2 + FifoDepth)
    /\ LET b  == SetToSortSeq(S, <)
           tr == Train(Timestamp(b[1]), b[1], Timestamp(b[2]), b[2])
       IN /\ mTrainSlope' = tr.slope
          /\ mTrainOffset' = tr.offset
          /\ \E ps \in ProgramStartNow : mTrainProgramStart' = ps
          /\ anchor' = IF anchor = {} THEN {mTrainProgramStart'} ELSE anchor
          /\ result' = {b[i] : i \in 3..Len(b)}
          /\ now' = b[Len(b)] + 1

Next == LogTrace

Spec == Init /\ [][Next]_vars

-----------------------------------------------------------------------------
\* Conversion (spec 4.2, 8): every sample decoded by the last call is
\* converted to the host time at which it was taken, on the time line
\* anchored by the first call's program start.  This needs the training
\* packets and the samples to agree on device time (raw Timestamp for
\* training, compensated for decoding) and the anchor to stay put though
\* trainDeviceHostTimestamps runs on every call.
ConversionExact ==
  \A a \in result, an \in anchor : ConvertsTo(Compensated(a), a - an)

=============================================================================
