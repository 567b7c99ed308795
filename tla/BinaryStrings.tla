---------------------------- MODULE BinaryStrings ----------------------------
(***************************************************************************)
(* The binary-string helpers of RTProfileDevice: dec2bin(n, bits) (and     *)
(* dec2bin(n), the same code with bits = 32) and bin2dec(ptr, start,       *)
(* number).  logTrace formats the emulation event flags with              *)
(* dec2bin(flags, 7) for its log (line 214).                               *)
(*                                                                         *)
(* Each loop is modelled one iteration per step, on the C character array  *)
(* it works on: a function from offsets to characters, where "NUL" is     *)
(* '\0', "x" any other character than '0', '1' and '\0', and "?" a byte  *)
(* not yet written.  A call's arguments are picked in Init from a bounded  *)
(* set; a dec2bin call's string is then read back by bin2dec(str, 0,      *)
(* bits).                                                                  *)
(* The uint32 shift in bin2dec cannot overflow on the strings explored     *)
(* (at most 32 digits, the value below 2^31).                              *)
(***************************************************************************)
EXTENDS Naturals, Integers, FiniteSetsExt, Bitwise

CONSTANTS
  Dec2BinCalls,   \* set of [n, bits]: arguments of dec2bin calls
  Bin2DecCalls    \* set of [str, start, number]: bin2dec calls on C strings

VARIABLES
  call,       \* the arguments of the call in progress
  n, index, i, result,          \* dec2bin's locals and its char array
  out,        \* the C string dec2bin returned
  str, temp_ptr, value, count,  \* bin2dec's string and locals (count is i)
  start, number,                \* bin2dec's arguments
  pc

vars == <<call, n, index, i, result, out, str, temp_ptr, value, count,
          start, number, pc>>

Digits == {"0", "1"}

\* std::string(result).c_str(): the characters before the first '\0',
\* followed by '\0'.
CString(a) ==
  LET z == Min({k \in DOMAIN a : a[k] = "NUL"})
  IN [k \in 0..z |-> a[k]]

-----------------------------------------------------------------------------
\* dec2bin(n) is dec2bin(n, 32): the same array, loops and return.
Dec2BinWord(v) == [n |-> v, bits |-> 32]

\* Lines 601-611: the array of bits + 1 uninitialised chars, index = bits
\* and the terminator written at result[bits].
Dec2BinEntry(c) ==
  /\ call = c
  /\ n = c.n /\ index = c.bits /\ i = 0
  /\ result = [k \in 0..c.bits |-> IF k = c.bits THEN "NUL" ELSE "?"]
  /\ out = <<>> /\ str = <<>> /\ temp_ptr = 0 /\ value = 0 /\ count = 0
  /\ start = 0 /\ number = 0
  /\ pc = "digit"

\* Lines 566-569: temp_ptr = ptr + start, value = 0, i = 0.
Bin2DecEntry(s, st, num) ==
  /\ str = s /\ temp_ptr = st /\ value = 0 /\ count = 0
  /\ start = st /\ number = num
  /\ pc = "b2d"

Init ==
  \/ \E c \in Dec2BinCalls : Dec2BinEntry(c)
  \/ \E c \in Bin2DecCalls :
       /\ call = c /\ n = 0 /\ index = 0 /\ i = 0 /\ result = <<>> /\ out = <<>>
       /\ Bin2DecEntry(c.str, c.start, c.number)

-----------------------------------------------------------------------------
\* Mutant of Dec2BinDigit: the padding loop starts at index, not index - 1.
Dec2BinDigitPadAtIndex ==
  /\ pc = "digit"
  /\ index' = index - 1
  /\ result' = [result EXCEPT ![index - 1] = IF n % 2 = 1 THEN "1" ELSE "0"]
  /\ n' = n \div 2
  /\ IF n \div 2 # 0 THEN pc' = "digit" /\ i' = i
                     ELSE pc' = "pad" /\ i' = index - 1
  /\ UNCHANGED <<call, out, str, temp_ptr, value, count, start, number>>

\* Lines 613-614: do result[--index] = '0' + (n & 1); while (n >>= 1);
\* on leaving, line 616 sets i = index - 1 (the index just written - 1).
Dec2BinDigit ==
  /\ pc = "digit"
  /\ index' = index - 1
  /\ result' = [result EXCEPT ![index - 1] = IF n % 2 = 1 THEN "1" ELSE "0"]
  /\ n' = n \div 2
  /\ IF n \div 2 # 0 THEN pc' = "digit" /\ i' = i
                     ELSE pc' = "pad" /\ i' = index - 2
  /\ UNCHANGED <<call, out, str, temp_ptr, value, count, start, number>>

\* Lines 616-617: for (; i >= 0; --i) result[i] = '0';
Dec2BinPad ==
  /\ pc = "pad" /\ i >= 0
  /\ result' = [result EXCEPT ![i] = "0"]
  /\ i' = i - 1
  /\ UNCHANGED <<call, n, index, out, str, temp_ptr, value, count, start,
                 number, pc>>

\* Line 619: return std::string(result).
Dec2BinReturn ==
  /\ pc = "pad" /\ i < 0
  /\ out' = CString(result)
  /\ pc' = "returned"
  /\ UNCHANGED <<call, n, index, i, result, str, temp_ptr, value, count,
                 start, number>>

\* The string dec2bin returned is read back with bin2dec(str, 0, bits).
ReadBack ==
  /\ pc = "returned"
  /\ str' = out /\ temp_ptr' = 0 /\ value' = 0 /\ count' = 0
  /\ start' = 0 /\ number' = call.bits /\ pc' = "b2d"
  /\ UNCHANGED <<call, n, index, i, result, out>>

\* Mutant of Bin2DecStep: the loop condition i <= number.
Bin2DecStepInclusive ==
  /\ pc = "b2d" /\ str[temp_ptr] \in Digits
  /\ value' = 2 * value + (IF str[temp_ptr] = "1" THEN 1 ELSE 0)
  /\ count' = count + 1
  /\ temp_ptr' = temp_ptr + 1
  /\ pc' = IF count + 1 <= number THEN "b2d" ELSE "done"
  /\ UNCHANGED <<call, n, index, i, result, out, str, start, number>>

\* Lines 571-579, a digit: value <<= 1, add the digit, advance; the loop
\* runs while i < number, and always runs once.
Bin2DecStep ==
  /\ pc = "b2d" /\ str[temp_ptr] \in Digits
  /\ value' = 2 * value + (IF str[temp_ptr] = "1" THEN 1 ELSE 0)
  /\ count' = count + 1
  /\ temp_ptr' = temp_ptr + 1
  /\ pc' = IF count + 1 < number THEN "b2d" ELSE "done"
  /\ UNCHANGED <<call, n, index, i, result, out, str, start, number>>

\* Lines 572-573: any other character returns the value so far.
Bin2DecStop ==
  /\ pc = "b2d" /\ str[temp_ptr] \notin Digits
  /\ pc' = "done"
  /\ UNCHANGED <<call, n, index, i, result, out, str, temp_ptr, value,
                 count, start, number>>

Next ==
  \/ Dec2BinDigit \/ Dec2BinPad \/ Dec2BinReturn \/ ReadBack
  \/ Bin2DecStep \/ Bin2DecStop

Spec == Init /\ [][Next]_vars

-----------------------------------------------------------------------------
(* Reference definitions, independent of the loops.                        *)

\* The bits-digit binary numeral of v, most significant digit first,
\* terminated: digit k is bit (bits - 1 - k) of v.
Numeral(v, bits) ==
  [k \in 0..bits |-> IF k = bits THEN "NUL"
                     ELSE IF shiftR(v, bits - 1 - k) % 2 = 1 THEN "1" ELSE "0"]

\* The number of leading binary digits of s from offset st, at most num.
DigitRun(s, st, num) ==
  Max({m \in 0..num : \A k \in 0..(m - 1) : st + k \in DOMAIN s /\ s[st + k] \in Digits})

\* The value of the first num characters of s from st, read as a binary
\* numeral up to the first character that is not a digit.
PrefixValue(s, st, num) ==
  LET m == DigitRun(s, st, num)
  IN MapThenSumSet(LAMBDA k : IF s[st + k] = "1" THEN 2^(m - 1 - k) ELSE 0,
                   0..(m - 1))

-----------------------------------------------------------------------------
\* dec2bin(n, bits) returns the bits-digit binary numeral of n, padded
\* with leading zeros, for every n below 2^bits: the digit loop writes
\* from the end of the array and the padding loop fills exactly the
\* positions the digit loop left, without overwriting a digit.
Dec2BinCorrect ==
  pc = "returned" => out = Numeral(call.n, call.bits)

\* bin2dec(ptr, start, number) returns the value of the binary digits
\* among the number characters from ptr + start, stopping at the first
\* other character (the '\0' included), for number >= 1; read back from
\* dec2bin this is the original n.
Bin2DecCorrect ==
  pc = "done" => value = PrefixValue(str, start, number)

=============================================================================
