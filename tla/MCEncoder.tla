----------------------------- MODULE MCEncoder -----------------------------
(* Model-checking instance of Encoder: 2-bit bytes (8-byte types span 16  *)
(* bits), a 64-bit target, and one column type of every class the         *)
(* encoders distinguish.                                                   *)
EXTENDS EncoderRefinement

MCByteBits == 2
MCPtrBytes == 8
\* a 32-bit target: usize and isize are 4 bytes wide
MCPtrBytes32 == 4
MCFloats   == {0, 3}

\* every integer type code, both float codes, a byte-payload code, the
\* temporal codes, and a code no encoder accepts
MCColTypes ==
    {"LONGLONG", "LONG", "INT24", "SHORT", "YEAR", "TINY",
     "FLOAT", "DOUBLE", "VAR_STRING", "DATE", "DATETIME", "TIME", "NULL"}

\* the empty string and a one-byte string equal to the NULL marker
MCPayloads == {<<>>, <<251>>, [i \in 1..250 |-> 251], [i \in 1..251 |-> 251]}

\* 2000 is a leap year, 2100 is not
MCYears       == {2000, 2100}
MCNativeYears == {0, 2000, 9999}
\* chrono also builds years below 0 and above u16::MAX
MCWideYears   == {-1, 2000, 65536}
MCMonths      == {0, 2, 12}
MCDays        == {0, 29, 31}
MCHours       == {0, 23, 24}
MCMinutes     == {0, 59, 60}
MCSeconds     == {0, 59, 60}
\* zero, the smallest and largest plain values, a leap microsecond, and
\* the first value chrono rejects
MCMicros      == {0, 1, 999999, 1000000, 2000000}
\* 34 days is the binary TIME limit
MCTimeDays    == {0, 1, 34, 35}
MCDurSecs     == {0, 59, 86399, 86400, 35 * 86400 - 1, 35 * 86400}
=============================================================================
