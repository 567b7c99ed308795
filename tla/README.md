# TLA+ models of the device trace decoder (`rt_profile_device.cpp`)

These modules model `RTProfileDevice` in
`src/src/runtime_src/xdp/profile/rt_profile_device.cpp`, the XDP device
profiler. It decodes raw trace samples from the accelerator's performance
monitors into timeline records. The modules are checked with TLC. All line
numbers below refer to that file.

## The system

`logTrace(deviceName, type, traceVector, resultVector)` (lines 115-491) is
the only operation that changes state. The driver calls it with the samples
it has offloaded from the device trace FIFO. The parts, named as in
`spec.md`:

| Part | Code | What it does |
|---|---|---|
| TraceIngest | 115-160, 196-205, 209, 291, 319-323 | Returns at once when the event cap is reached or the batch is empty, and otherwise adds the batch length to `mNumTraceEvents`. Loops over the samples and dispatches on mode and TraceID. |
| ClockTrainer | 161-195, 624-639 | **Hardware:** samples 0 and 1 give a two-point line from device cycles to host time, `trainDeviceHostTimestamps` re-reads the program-start anchor, and a flagged Overflow adds `LOOP_ADD_TIME_SPM`. **Emulation:** sums timestamp deltas (`mPrevTimestamp`). |
| SlotEventMatcher | 216-286, 393-449 | Per-port FIFO queues of read and write starts. **Hardware:** an End pops the oldest start, or stands alone when Reserved is set or the queue is empty. **Emulation:** first/last flags; an unmatched last flag hits `continue`; End >= Start after epsilon padding. |
| KernelIntervalTracker | 291-318, 322-391 | XOR toggles of the Kernel and stall bits per CU, with stored start times and `mAccelMonLastTranx`. **Emulation:** the CU bit only, and the padding epsilon `mEmuTraceMsecOneCycle`. |
| TimelineAssembler | 308, 343, 356-382, 412, 441, 483 | Builds `resultVector` by front insertion (hardware Kernel records, approximations) and back insertion (everything else, including the emulation Kernel). |
| IncompleteCUApproximator | 453-490 | **Hardware only.** A CU still marked started gets an end at its latest activity, taken from its own SAM samples and from the ports named after it. Then every started bitmask is cleared. |
| SlotNameLookup, helpers | 500-614 | Slot names and kinds, and binary strings for the log. |

The calls are made one at a time: `spec.md` section 5 says callers serialise
them. The device keeps producing samples between calls. The two actors are
therefore the monitors, which write samples, and the decoder, which consumes
one whole batch per call. The decoder's state persists across calls and ties
one call to the next: the start queues, the stored start times, the
last-activity times and the counter.

## Modules

| Module | Models | Composes |
|---|---|---|
| `HwTraceMonitors` | The hardware SPM and SAM monitors and the device trace FIFO (environment). Keeps the ground truth: the transactions that were done and the CU intervals. | |
| `HwTraceDecoder` | `logTrace` with `isHwEmu = false` and the approximator | extends `HwTraceMonitors` |
| `EmuTraceMonitors` | The emulated memory and CU monitors (environment), with ground truth | |
| `EmuTraceDecoder` | `logTrace` with `isHwEmu = true` | extends `EmuTraceMonitors` |
| `ClockTraining` | Hardware clock training and conversion (lines 176-195, 624-639) | |
| `MemChannelSpec` | What the SlotEventMatcher promises, with no queues: on each channel the k-th End closes the k-th Start, however the events are split into calls | |
| `HwPairingRefinement` | The refinement mapping from `HwTraceDecoder` to `MemChannelSpec` | extends `HwTraceDecoder`, instances `MemChannelSpec` |
| `EmuPairingRefinement` | The refinement mapping from `EmuTraceDecoder` to `MemChannelSpec` | extends `EmuTraceDecoder`, instances `MemChannelSpec` |
| `HwReportLiveness` | `HwTraceDecoder` with a fair `logTrace` and an observer `reported` that accumulates the memory records of every call | extends `HwPairingRefinement` |
| `BinaryStrings` | `dec2bin(n, bits)`, `dec2bin(n)` and `bin2dec` (lines 561-620), one loop iteration per step | |
| `MC_HwTraceDecoder`, `MC_EmuTraceDecoder` (extends `EmuPairingRefinement`), `MC_HwReportLiveness`, `MC_BinaryStrings` | Constants for TLC | |

### How the decoder modules correspond to the code

- **State.** The decoder's member arrays are the VARIABLES, under the same
  names:
  - `mStarts` holds `mReadStarts`/`mWriteStarts` (and their host twins);
  - `mAccelMonTime` holds `mAccelMonCuTime` and the three stall time arrays.

  `result` is the `resultVector` of the last call.
- **Actions.** One call of `logTrace` is one action, `LogTrace`.
  - It folds the per-sample decoder `Decode` (`DecodeEmu` in emulation
    mode) over the batch with `FoldLeft`.
  - In hardware mode it then runs `EndOfBatch`: `ApproxCU` for each CU in
    index order, then the clear of line 489. Emulation mode runs the clear
    only.
  - The early return of line 117 is the guard, and `LogTraceCapped` is the
    call that returns at once.
- **Per-sample operators.** The decoder of one sample works on a record
  `st` holding the state and the output so far.
  - `DecodeSpm` and `DecodeSam` follow the hardware SPM and SAM branches.
    This includes the Kernel going to the front and the stalls to the back
    in block order (`StallOrder`).
  - In emulation mode, `Channel(st, r, d)` is one direction's block, and
    its `stop` field is the `continue`.
  - `DecodeEmuSpm` runs the write block and then the read block.
- **Hardware batch.** A hardware batch is the two training packets
  followed by the FIFO contents. Decoding starts at sample 1, which is
  skipped as unsupported (the `TrainPacket` kind).
- **Monitor actions.** Each monitor action writes one sample and advances
  the device clock by one, so two samples never share a cycle.
  - A hardware sample that finds the FIFO full is lost. This is bounded by
    `MaxLoss`.
  - Emulation never loses samples.
  - `PreTrace` gives channels a transaction already in flight when tracing
    starts. Its start sample was never recorded.
- **Abstractions.**
  - TraceIDs are abstracted to a slot and a kind.
  - The CU-name prefix of a port's slot name is the constant `PortCU`.
  - Host-time conversion is left out of the decoders. It is an increasing
    affine map under correct training, and no decision of the hardware
    path depends on it. `ClockTraining` checks when it is not one.
  - Emulation host times equal the sample cycle. The epsilon is kept as
    the sign class of the IEEE quotient (`Quotient`), which is what the
    `End >= Start` test (`Reported`) can tell apart.
- **`BinaryStrings`.** The C character array is a function from offsets
  to `"0"`, `"1"`, `"x"` (any other character), `"NUL"` (`'\0'`) and
  `"?"` (not yet written).
  - `Dec2BinDigit` is one iteration of the `do ... while (n >>= 1)` loop.
  - `Dec2BinPad` is one iteration of the padding loop.
  - `Dec2BinReturn` is the `std::string` construction, which reads up to
    the first `'\0'`.
  - `Bin2DecStep` and `Bin2DecStop` are the digit and non-digit cases of
    the `bin2dec` loop.
  - `ReadBack` feeds each `dec2bin` result to `bin2dec(s, 0, bits)`.
  - `Numeral` and `PrefixValue` are reference definitions. They use bit
    extraction and a positional sum, not the loops.
- **`ClockTraining`.** A sample is the absolute cycle at which it was
  taken.
  - Its Timestamp is that cycle mod `W`, and Overflow flags a value that
    has wrapped (spec section 6).
  - `Train` is lines 189-190, computed exactly as a fraction.
  - `Compensated` is lines 194-195.
  - `ConvertsTo` compares `convertDeviceToHostTimestamp` with a host time.
    It is false for the inf and nan that a zero divisor gives.
  - `ProgramStartNow` is the read in `trainDeviceHostTimestamps`. The read
    is not atomic, so it can be any of `ProgramStartReads`.

## Runs

| Run | Expect | Checks | Shows |
|---|---|---|---|
| `hw_noloss` | pass | `TypeOK`, `KernelFirst`, `MemPairingExact`, `IntervalsGenuineUntilSplit`, `ApproxEndNotBeforeStart` | With nothing lost, Kernel records precede all others. Memory records are exactly the real transactions, paired FIFO across calls. CU records are real intervals until a kernel spans a call. Approximated ends are never before their start, even with stale port activity. The counter passes the cap by at most one batch. |
| `hw_lossy` | pass | `MemStartsSound` | With dropped samples and Reserved ends, a memory record is a single point, or starts at a real start of its channel that no other record claims. |
| `hw_split` | violation | `IntervalsGenuine` | A kernel running across two calls produces CU records matching no real interval (finding). |
| `emu_pairing` | pass | `KernelsGenuineUntilSplit`, `EmuPairingSpec` | The emulation decoder implements `MemChannelSpec`. Every completed read and write is reported with its own start. Kernel records are real runs until a kernel spans a call. |
| `emu_unmatched_end` | violation | `ChannelsIndependent` | An unmatched write end drops the read flags of the same sample (finding). |
| `emu_kernel_order` | violation | `KernelFirst` | An emulation Kernel record can follow memory records (finding). |
| `hw_pairing` | pass | `PairingSpec`, `CompletedReported` | With no loss and no Reserved end, `HwTraceDecoder` implements `MemChannelSpec` under the mapping below: every call's memory records are the transactions closed by the Ends it decoded, paired FIFO per channel. With `logTrace` called weakly fairly and the cap out of reach, every memory transaction completed on the device is eventually reported with its real start and end. |
| `hw_approx_zero` | violation | `ApproxWhenRunning` | A kernel started at cycle 0 and still running gets no approximated end (finding). |
| `bin_strings` | pass | `Dec2BinCorrect`, `Bin2DecCorrect` | `dec2bin(n, bits)` and `dec2bin(n)` return the zero-padded binary numeral of every `n` that fits in `bits` digits, including every 7-bit flag value `logTrace` formats. `bin2dec` returns the value of the leading binary digits within `number` characters, stopping at any other character, on every C string of up to 3 characters and on every `dec2bin` result. |
| `clock_exact` | pass | `ConversionExact` | With no wrap and a stable anchor, every decoded sample converts to its true host time. |
| `clock_wrap` | violation | `ConversionExact` | A wrap between the training packets gives a negative or infinite slope (finding). |
| `clock_anchor` | violation | `ConversionExact` | Re-reading the program start on every call moves later calls off the first call's time line (finding). |

**Refinement mapping (`HwPairingRefinement`).** The abstract `hist` is the
memory events the decoder has consumed, in time order. These are the
Start and End of every transaction in `done` and the Start of every one
still open, minus the samples still in the FIFO. The abstract `last` is
the memory records of `result`. `PairingSpec` is `MemChannelSpec!Spec`
under this mapping, checked as a `PROPERTY`. Every `LogTrace` step must be
an abstract `Decode` step, and every monitor step a stuttering step.

**Refinement mapping (`EmuPairingRefinement`).** Emulation mode has no
FIFO to subtract. Instead, `LastDecoded` is the cycle of the last sample
the last call decoded. Every sample up to it has been decoded or
discarded by a capped call; no sample after it has been read. The abstract
`hist` is the Start and End events of the monitors' transactions up to
that cycle. Within one cycle they are in `EventOrder`: the write block
before the read block, and the first flag before the last one (lines
216-286). The abstract `last` is the Read and Write records of `result`.
`EmuPairingSpec` is checked in `emu_pairing` with no transaction in
flight at start. There, no end is unmatched, and the End >= Start filter
keeps every record because host times are cycles. A LIFO queue breaks it.
`MemChannelSpec!Decode` binds `hist` and `hist'` with `\E h \in {hist}`,
so TLC evaluates the mapping once per step and not once per use.

Every property of a passing run has a mutant in `PROJECT.json`. A mutant is
an operator defined just before the one it replaces, and it models a
plausible bug:
- a LIFO pop, or a start that is never popped;
- a sample loop that stops one short of the batch;
- the Kernel appended at the back;
- OR instead of XOR;
- the approximation without the CU's own activity;
- no entry cap check;
- the `dec2bin` padding loop starting one position too high, or the
  `bin2dec` loop condition `i <= number`;
- a start time that is not recorded;
- the training difference swapped.

TLC finds the property violated with each mutant in place.

### Findings

1. **Started bitmasks cleared per call (line 489).** Spec 4.5 asks for this
   clear. The result is that a kernel still running at the end of a call
   has its end taken as a start in the next call, and it gets an
   approximate end at its last activity. The spec does not say what such
   a kernel should yield.
2. **Emulation Kernel order (line 308).** The code uses `push_back`, while
   spec 4.4 requires front insertion.
3. **Emulation unmatched end (lines 255, 275).** The `continue` abandons
   the rest of the sample, not only the unmatched end.
4. **Training ignores Overflow (lines 184-190).** The two training points
   use raw timestamps, while decoding compensates the same packet. A wrap
   between them makes the slope negative, or makes the divisor zero (spec
   section 7 asks for a guard).
5. **Program start re-read (line 631).** Spec section 5 says it is read at
   most once per monitor type.
6. **Approximation at cycle 0 (line 477).** A last activity of 0 is taken
   as no evidence. A kernel whose start sample was taken at cycle 0 and
   which has no other activity therefore gets no interval. Spec 4.5 says
   "if this maximum is non-zero" but also "emit nothing" only when no
   evidence exists.

The event counter passes `mMaxTraceEvents` by up to one batch, because
the cap is checked only at entry (lines 117, 134). Spec section 8 says the
count never exceeds the cap. Section 4.1 and the contract on spec line 35,
however, ask for exactly this entry-only check, so the overshoot is not
reported as a finding. `TypeOK` in `hw_noloss` checks that the overshoot
is at most one batch.

## Bounds

- **Hardware runs:**
  - CU 0 has one port and CU 1 has none. This gives a CU whose end
    evidence comes from a port and a CU whose evidence comes only from its
    SAM samples.
  - Categories: Kernel plus one stall.
  - `MaxTime = 6` cycles, with one sample per cycle, is enough for:
    - a kernel with two outstanding transactions;
    - a stall nested in a kernel;
    - a second kernel run, which is what makes port activity stale.
  - `FifoDepth = 4` lets batches split anywhere. In `hw_lossy`,
    `FifoDepth = 2` with `MaxLoss = 2` reaches a full FIFO early.
  - In `hw_noloss` the cap `MaxTraceEvents = 10` is reached after four
    calls, so `LogTraceCapped` fires.
- **`hw_pairing`:** one CU with one port, no stalls, 5 cycles and a
  3-sample FIFO. This allows two transactions outstanding on one channel,
  and a Start and its End decoded in different calls. The cap (100) is out
  of reach, because neither the abstract spec nor the progress property
  has a cap. Larger instances make the tableau of the temporal property
  too large.
- **Emulation runs:** one CU and one port, 4 cycles, a 4-sample buffer.
  This allows a write and a read in the same sample, with an unmatched end.
  In `emu_pairing` the cap is 3, so `LogTraceCapped` fires.
- **`bin_strings`:**
  - `dec2bin(flags, 7)` for all 128 values, `dec2bin(n, 1)` and
    `dec2bin(n, 2)` for every value that fits, and `dec2bin(n)` for four
    words. This includes one above 2^30, to cover the 32-character array.
  - `bin2dec` on every string of up to 3 characters over `0`, `1` and
    another character, at every start offset up to the terminator, with
    `number` from 1 to 3. A string can therefore end, or hold a
    non-digit, before `number` characters are read.
  - `number = 0` is left out. The do-while reads one character anyway,
    and no caller in this file passes it.
- **`clock_exact`:**
  - The counter modulus is 12 and the model runs 11 cycles, so there is
    no wrap.
  - A batch holds 2 training packets and up to 3 samples.
  - With no wrap, there are many batch layouts and successive
    re-trainings.
- **`clock_wrap`** uses a modulus of 4 over 8 cycles, so exactly one wrap
  happens. **`clock_anchor`** allows two anchor values.

Every bound is a named constant in the `.cfg`. `CHECK_DEADLOCK FALSE` is set
because the device stops producing samples, and the model stops at
`MaxTime`.

## Fairness

Only `hw_pairing` assumes fairness:
`WF_<<vars, reported>>(LogTrace /\ Observe)`. The driver's offload
thread calls `logTrace` every `mSampleIntervalMsec` (10 ms, set at line
74) while profiling runs. A call that is enabled, meaning the FIFO holds
samples and the cap is not reached, is therefore eventually made. No
fairness is assumed for the monitors. The device may stop at any time,
and the property is about what it has already completed. All other runs
check safety only.

## Not modelled

- Slot-name lookup (`getSlotName`, `getSlotKind`, lines 500-558). These
  are pure table lookups, and nothing in this file calls them. The
  approximator takes its names from the runtime singleton, and that
  lookup is the constant `PortCU`.
- `dec2bin(n, bits)` for an `n` with more than `bits` digits. The unsigned
  index wraps and the loop writes before the array. This is undefined
  behaviour, with no outcome to model. `logTrace` calls
  `dec2bin(flags, 7)` on a `uint8_t`, so a flag byte of 128 or more would
  reach it. The flag layout and `XDP_LOG` are defined outside the
  repository. `bin_strings` checks all 7-bit values.
- The emulation clock: `mPrevTimestamp` accumulation, `getTimestampNsec`,
  the duplicate-host-timestamp skip, and the uint32 wrap of line 163. The
  delta format and `getTimestampNsec` live in headers that are not in the
  repository.
- The destructor.
- The HW TraceID range 64-544 for SPM slots: SAM samples take precedence
  (line 323).
- Burst lengths and byte counts, which feed no decision.

The initial values of members the constructor does not set are taken as
zero. These are the started bitmasks and the start and last-activity
times. Their declarations, and any default member initialisers, are in a
header outside the repository. `PROJECT.json` lists
the hazards, including those no property covers yet, with the reason.

## Plan for further work

- The emulation clock: the `mPrevTimestamp` running sum, the Overflow
  addend, and the duplicate-host-timestamp skip that runs after the sum
  has moved. These need the delta format, which is defined outside the
  repository.
- Composing `ClockTraining` with `HwTraceDecoder`. Hardware mode has no
  End >= Start filter, so the negative slope of finding 4 would reach the
  output as reversed records.
