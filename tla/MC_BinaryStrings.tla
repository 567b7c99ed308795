------------------------- MODULE MC_BinaryStrings --------------------------
(* Model-checking instance of BinaryStrings: dec2bin(flags, 7) over every  *)
(* 7-bit flag value, dec2bin(n, bits) for 1 and 2 bits, dec2bin(n) for a   *)
(* few words, and bin2dec over every C string of up to 3 characters.      *)
EXTENDS BinaryStrings

MC_Dec2BinCalls ==
  {[n |-> v, bits |-> 7] : v \in 0..127}
    \cup UNION {{[n |-> v, bits |-> b] : v \in 0..(2^b - 1)} : b \in 1..2}
    \cup {Dec2BinWord(v) : v \in {0, 1, 6, 2^30 + 5}}

\* "x" is any character other than '0', '1' and '\0' ("NUL").
MC_Strings ==
  UNION {{[k \in 0..L |-> IF k = L THEN "NUL" ELSE f[k]] : f \in [0..(L - 1) -> {"0", "1", "x"}]}
           : L \in 0..3}

MC_Bin2DecCalls ==
  UNION {{[str |-> s, start |-> st, number |-> num] :
            st \in 0..Max(DOMAIN s), num \in 1..3} : s \in MC_Strings}
=============================================================================
