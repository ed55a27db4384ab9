------------------------------- MODULE Encoder -------------------------------
(***************************************************************************)
(* One ToMysqlValue call after another, each into a fresh sink supplied   *)
(* by the row writer.  The state is the latest call (operation, format,   *)
(* value, column), the bytes that reached the sink, and the outcome; the  *)
(* row writer then takes the result and hands over a fresh sink.  The     *)
(* sink (any io::Write) may fail on any write; write_all then returns the *)
(* error after some of the bytes, and `?` propagates it.                  *)
(***************************************************************************)
EXTENDS ValueEncode

CONSTANTS
    Floats,     \* integral f32 / f64 values (small naturals)
    Payloads,   \* byte strings (sequences of octets) for Bytes / [u8] / String
    Years,      \* year fields of Value::Date (u16)
    NativeYears,\* years of NaiveDate / NaiveDateTime values built by the backend
    Months, Days, Hours, Minutes, Seconds, Micros,
                \* the other Date / Time fields, chosen across chrono's limits
    TimeDays,   \* day field of Value::Time (u32)
    DurSecs     \* as_secs of std Duration values built by the backend

ASSUME Floats \subseteq 0..(2^ByteBits - 1)

VARIABLES
    call,       \* the latest call, or NoCall
    out,        \* the bytes written to the sink by that call
    res         \* "Ok", "InvalidData", "Other", "Panic", "IoError", or "none"

vars == <<call, out, res>>

\* the text protocol takes no Column
NoColumn == [type |-> "none", unsigned |-> FALSE]

NoCall == [op |-> "none", fmt |-> "none", v |-> 0, col |-> NoColumn]

Outcomes == {"none", "Ok", "InvalidData", "Other", "Panic", "IoError"}

\* The row writer is waiting for no result: it may start an encode call.
Idle == res = "none"

\* The call c has result r.  Either the sink takes every byte, or a write
\* fails after a proper prefix of them and the call returns that io::Error.
Perform(c, r) ==
    /\ call' = c
    /\ \/ /\ out' = r.bytes
          /\ res' = r.res
       \/ /\ r.bytes # <<>>
          /\ \E k \in 0..(Len(r.bytes) - 1) : out' = SubSeq(r.bytes, 1, k)
          /\ res' = "IoError"

---------------------------------------------------------------------------
Init ==
    /\ call = NoCall
    /\ out = <<>>
    /\ res = "none"

\* <u8|i8|...|i64 as ToMysqlValue>::to_mysql_bin
EncodeNativeBin ==
    /\ Idle
    /\ \E t \in NativeTypes, c \in Columns :
           \E v \in Probe(TypeWidth(t), TypeSigned(t)) :
               Perform([op |-> t, fmt |-> "bin", v |-> v, col |-> c], NativeBin(t, v, c))

\* <usize|isize as ToMysqlValue>::to_mysql_bin
EncodeForgivingBin ==
    /\ Idle
    /\ \E t \in ForgivingTypes, c \in Columns :
           \E v \in Probe(TypeWidth(t), TypeSigned(t)) :
               Perform([op |-> t, fmt |-> "bin", v |-> v, col |-> c], ForgivingBin(t, v, c))

\* <f32 as ToMysqlValue>::to_mysql_bin and <f64 as ToMysqlValue>::to_mysql_bin
EncodeFloatBin ==
    /\ Idle
    /\ \E f \in Floats, c \in Columns :
           \/ Perform([op |-> "f32", fmt |-> "bin", v |-> f, col |-> c], F32Bin(f, c))
           \/ Perform([op |-> "f64", fmt |-> "bin", v |-> f, col |-> c], F64Bin(f, c))

\* mysql_text_trivial!() of f32 and f64
EncodeFloatText ==
    /\ Idle
    /\ \E f \in Floats, op \in {"f32", "f64"} :
           Perform([op |-> op, fmt |-> "text", v |-> f, col |-> NoColumn], FloatText(f))

\* mysql_text_trivial!() of every integer type
EncodeIntText ==
    /\ Idle
    /\ \E t \in NativeTypes \cup ForgivingTypes :
           \E v \in Probe(TypeWidth(t), TypeSigned(t)) :
               Perform([op |-> t, fmt |-> "text", v |-> v, col |-> NoColumn], IntText(v))

\* The call op on value x in either protocol: the text form Text, or the
\* binary form Bin(c) against any column c.
EncodeEither(op, x, Text, Bin(_)) ==
    \/ Perform([op |-> op, fmt |-> "text", val |-> x, col |-> NoColumn], Text)
    \/ \E c \in Columns : Perform([op |-> op, fmt |-> "bin", val |-> x, col |-> c], Bin(c))

\* <[u8] as ToMysqlValue> (String, str, Vec<u8>, &T forward to it)
EncodeBytes ==
    /\ Idle
    /\ \E b \in Payloads :
           EncodeEither("bytes", [b |-> b], BytesText(b), LAMBDA c : BytesBin(b, c))

\* <Option<&[u8]> as ToMysqlValue>
EncodeOption ==
    /\ Idle
    /\ \E some \in BOOLEAN, b \in Payloads :
           EncodeEither("option", [some |-> some, b |-> b], OptionText(some, BytesText(b)),
                        LAMBDA c : OptionBin(some, BytesBin(b, c)))

\* chrono values the backend builds itself are always valid.
NaiveDates ==
    {dt \in [y : NativeYears, mo : Months, d : Days] : FromYmdValid(dt.y, dt.mo, dt.d)}

NaiveDateTimes ==
    {dt \in [y : NativeYears, mo : Months, d : Days, h : Hours, mi : Minutes,
             s : Seconds, us : Micros] :
        FromYmdValid(dt.y, dt.mo, dt.d) /\ HmsMicroValid(dt.h, dt.mi, dt.s, dt.us)}

Durations == [secs : DurSecs, us : {u \in Micros : u < 1000000}]

\* <NaiveDate as ToMysqlValue>
EncodeDate ==
    /\ Idle
    /\ \E dt \in NaiveDates :
           EncodeEither("NaiveDate", dt, DateText(dt), LAMBDA c : DateBin(dt, c))

\* <NaiveDateTime as ToMysqlValue>
EncodeDateTime ==
    /\ Idle
    /\ \E dt \in NaiveDateTimes :
           EncodeEither("NaiveDateTime", dt, DateTimeText(dt), LAMBDA c : DateTimeBin(dt, c))

\* <Duration as ToMysqlValue>
EncodeDuration ==
    /\ Idle
    /\ \E du \in Durations :
           EncodeEither("Duration", du, DurationText(du), LAMBDA c : DurationBin(du, c))

\* The values a driver hands over.
Values ==
    {[kind |-> "NULL"]}
    \cup [kind : {"Bytes"}, b : Payloads]
    \cup [kind : {"Int"}, n : Probe(8, TRUE)]
    \cup [kind : {"UInt"}, n : Probe(8, FALSE)]
    \cup [kind : {"Float", "Double"}, f : Floats]
    \cup [kind : {"Date"}, y : Years, mo : Months, d : Days, h : Hours,
           mi : Minutes, s : Seconds, us : Micros]
    \cup [kind : {"Time"}, neg : BOOLEAN, d : TimeDays, h : Hours, m : Minutes,
           s : Seconds, us : Micros]

\* <myc::value::Value as ToMysqlValue>
EncodeValue ==
    /\ Idle
    /\ \E v \in Values : EncodeEither("Value", v, ValueText(v), LAMBDA c : ValueBin(v, c))

\* The row writer consumes the outcome and starts the next value.
TakeResult ==
    /\ res # "none"
    /\ call' = NoCall
    /\ out' = <<>>
    /\ res' = "none"

Next ==
    \/ TakeResult
    \/ EncodeNativeBin
    \/ EncodeForgivingBin
    \/ EncodeFloatBin
    \/ EncodeFloatText
    \/ EncodeIntText
    \/ EncodeBytes
    \/ EncodeOption
    \/ EncodeDate
    \/ EncodeDateTime
    \/ EncodeDuration
    \/ EncodeValue

Spec == Init /\ [][Next]_vars

---------------------------------------------------------------------------
IntTypes == NativeTypes \cup ForgivingTypes

IntBinCall == call.op \in IntTypes /\ call.fmt = "bin"

\* The wire width of a column type for numbers: the integer widths, FLOAT 4
\* and DOUBLE 8.
NumWidth(t) ==
    CASE t = "FLOAT"  -> 4
      [] t = "DOUBLE" -> 8
      [] OTHER        -> ColWidth(t)

TypeOK ==
    /\ call \in {NoCall}
              \cup [op : IntTypes \cup {"f32", "f64"}, fmt : {"bin", "text"},
                    v : Int, col : Columns \cup {NoColumn}]
              \cup [op : {"bytes", "option", "NaiveDate", "NaiveDateTime",
                          "Duration", "Value"},
                    fmt : {"bin", "text"},
                    val : [b : Payloads] \cup [some : BOOLEAN, b : Payloads]
                          \cup NaiveDates \cup NaiveDateTimes \cup Durations \cup Values,
                    col : Columns \cup {NoColumn}]
    /\ out \in Seq(0..255)
    /\ res \in Outcomes

NumBinCall == call.op \in IntTypes \cup {"f32", "f64"} /\ call.fmt = "bin"

\* A numeric value that is written successfully in the binary protocol takes
\* exactly the width the column declares (the client reads that many bytes),
\* never its own width: the widening arms of every impl, the like_try_into!
\* path of usize/isize, and the f32-into-DOUBLE widening.
DeclaredWidth ==
    (NumBinCall /\ res = "Ok") => Len(out) = NumWidth(call.col.type)

\* like_try_into! accepts a usize/isize only if the bytes it writes, read
\* back with the column's signedness, are the value: its min/max computed
\* with `as` never let a value through that the final `as` would change.
ForgivingSound ==
    (call.op \in ForgivingTypes /\ call.fmt = "bin" /\ res = "Ok")
        => FromLE(out, ColSigned(call.col)) = call.v

\* Spec 4.2 / 7: an integer is never silently wrapped; every successful
\* binary integer encoding reads back as the value under the column's
\* signedness (a negative value never reaches an unsigned column).
NoSilentWrap ==
    (IntBinCall /\ res = "Ok") => FromLE(out, ColSigned(call.col)) = call.v

\* Spec 4.2: forgiving-widen / strict-narrow: a usize or isize value that
\* lies in the range of an integer column is accepted for it.
ForgivingComplete ==
    (call.op \in ForgivingTypes /\ call.fmt = "bin"
        /\ ColWidth(call.col.type) > 0
        /\ InRange(call.v, ColWidth(call.col.type), ColSigned(call.col)))
        => res \in {"Ok", "IoError"}

---------------------------------------------------------------------------
(* The dispatcher's integer path.                                         *)
ValueIntCall ==
    call.op = "Value" /\ call.fmt = "bin" /\ call.val.kind = "Int"

\* Value::Int(n) is accepted for exactly the integer columns whose range
\* holds n, and then reads back as n with the column's width: the probe
\* order i8 -> i16 -> i32 -> i64 (u8 -> ... -> u64), the narrowing casts,
\* and the impls' widening and same-width arms have to agree.
ValueIntExact ==
    ValueIntCall =>
        LET n  == call.val.n
            cw == ColWidth(call.col.type)
            s  == ColSigned(call.col)
        IN  IF cw > 0 /\ InRange(n, cw, s)
            THEN /\ res \in {"Ok", "IoError"}
                 /\ res = "Ok" => Len(out) = cw /\ FromLE(out, s) = n
            ELSE res = "InvalidData"

---------------------------------------------------------------------------
(* The temporal layouts of spec section 6, read back as a client does.     *)
FromOctets(bs) == FoldLeft(LAMBDA acc, b : acc * 256 + b, 0, Reverse(bs))

\* A DATE / DATETIME field: length byte, year (u16), month, day, then for a
\* DATETIME hour, minute, second and, if the length is 11, microsecond.
DecodeDateTime(bs) ==
    [y  |-> FromOctets(SubSeq(bs, 2, 3)), mo |-> bs[4], d |-> bs[5],
     h  |-> IF bs[1] = 4 THEN 0 ELSE bs[6],
     mi |-> IF bs[1] = 4 THEN 0 ELSE bs[7],
     s  |-> IF bs[1] = 4 THEN 0 ELSE bs[8],
     us |-> IF bs[1] = 11 THEN FromOctets(SubSeq(bs, 9, 12)) ELSE 0]

\* A TIME field: length byte, then sign, days (u32), hour, minute, second and,
\* if the length is 12, microsecond; length 0 is the zero duration.
DecodeTime(bs) ==
    IF bs[1] = 0 THEN [secs |-> 0, us |-> 0]
    ELSE [secs |-> FromOctets(SubSeq(bs, 3, 6)) * 86400
                   + bs[7] * 3600 + bs[8] * 60 + bs[9],
          us   |-> IF bs[1] = 12 THEN FromOctets(SubSeq(bs, 10, 13)) ELSE 0]

\* The length byte counts the bytes after it and is the shortest the value
\* allows: 11 / 12 exactly when there are microseconds, 0 exactly for the
\* zero duration; every byte-sized field is a byte.
WellFormedTemporal(bs, lens) ==
    /\ Len(bs) > 0 /\ bs[1] \in lens /\ Len(bs) = bs[1] + 1
    /\ \A i \in 1..Len(bs) : bs[i] \in 0..255

TemporalBinCall ==
    /\ call.fmt = "bin"
    /\ \/ call.op \in {"NaiveDate", "NaiveDateTime", "Duration"}
       \/ call.op = "Value" /\ call.val.kind \in {"Date", "Time"}

\* The date, datetime or duration the call encodes, with its wire fields.
CallDateTime ==
    CASE call.op = "NaiveDate"     -> call.val @@
                                      [h |-> 0, mi |-> 0, s |-> 0, us |-> 0]
      [] call.op = "NaiveDateTime" -> call.val
      [] OTHER                     -> ValueDateTime(call.val)

CallDuration ==
    IF call.op = "Duration" THEN call.val ELSE ValueDuration(call.val)

IsTimeCall == call.op = "Duration" \/ (call.op = "Value" /\ call.val.kind = "Time")

\* Every successful binary date, datetime or time encoding has the layout of
\* spec section 6 and reads back as the value: the length byte agrees with
\* the two separate `us != 0` tests that decide it and the trailing field,
\* the day/hour/minute/second split of as_secs loses nothing, and the year
\* survives `as u16`.
TemporalRoundTrip ==
    (TemporalBinCall /\ res = "Ok") =>
        IF IsTimeCall
        THEN /\ WellFormedTemporal(out, {0, 8, 12})
             /\ (out[1] = 12) = (CallDuration.us # 0)
             /\ (out[1] = 0) = (CallDuration = [secs |-> 0, us |-> 0])
             /\ out[1] > 0 => out[2] = 0 /\ out[7] < 24 /\ out[8] < 60 /\ out[9] < 60
             /\ DecodeTime(out) = CallDuration
        ELSE /\ WellFormedTemporal(out, IF call.op = "NaiveDate" THEN {4} ELSE {7, 11})
             /\ call.op # "NaiveDate" => (out[1] = 11) = (CallDateTime.us # 0)
             /\ DecodeDateTime(out) = CallDateTime

---------------------------------------------------------------------------
(* The text protocol's cell framing, read as a client reads a row.        *)

\* The length-encoded integer at the head of bs: bytes taken and value.
LenEncHeader(bs) ==
    CASE bs[1] < 251 -> [len |-> 1, n |-> bs[1]]
      [] bs[1] = 252 -> [len |-> 3, n |-> FromOctets(SubSeq(bs, 2, 3))]
      [] bs[1] = 253 -> [len |-> 4, n |-> FromOctets(SubSeq(bs, 2, 4))]
      [] OTHER       -> [len |-> 9, n |-> FromOctets(SubSeq(bs, 2, 9))]

\* The bytes of a text cell after its length prefix.
TextBody == SubSeq(out, LenEncHeader(out).len + 1, Len(out))

IsNullCall ==
    \/ call.op = "option" /\ ~call.val.some
    \/ call.op = "Value" /\ call.val.kind = "NULL"

\* A text row is read cell by cell: a cell that starts with 0xFB is NULL,
\* any other starts with a length-encoded integer counting the bytes after
\* it.  Every successful text encoding reads back as itself: NULL (None,
\* Value::NULL) and nothing else starts with 0xFB, no cell starts with
\* 0xFF (an error packet), and the announced length is the number of bytes
\* written after the prefix, for payloads on either side of 251 bytes.
TextCellFraming ==
    (call.fmt = "text" /\ res = "Ok") =>
        /\ (out[1] = NullMarker) = IsNullCall
        /\ ~IsNullCall =>
               /\ out[1] # 255
               /\ Len(out) = LenEncHeader(out).len + LenEncHeader(out).n

---------------------------------------------------------------------------
(* The text form of a duration, parsed back: "H..H:MM:SS[.ffffff]".       *)
RECURSIVE SplitAt(_, _)
SplitAt(str, sep) ==
    LET i == SelectInSeq(str, LAMBDA ch : ch = sep)
    IN  IF i = 0 THEN <<str>>
        ELSE <<SubSeq(str, 1, i - 1)>> \o SplitAt(SubSeq(str, i + 1, Len(str)), sep)

ParseDecimal(ds) == FoldLeft(LAMBDA acc, ch : acc * 10 + (ch - 48), 0, ds)

IsDigits(ds, w) == Len(ds) >= w /\ \A i \in 1..Len(ds) : ds[i] \in 48..57

\* Every successful text encoding of a duration is a length-encoded
\* "H:MM:SS" with at least two hour digits, minutes and seconds below 60,
\* and ".ffffff" exactly when there are microseconds, and it denotes the
\* duration: days are folded into the hours, not dropped (the text and
\* binary encoders split as_secs differently).
TimeTextRoundTrip ==
    (IsTimeCall /\ call.fmt = "text" /\ res = "Ok") =>
        LET f  == SplitAt(TextBody, Colon)
            g  == SplitAt(f[3], Dot)
            h  == ParseDecimal(f[1])
            m  == ParseDecimal(f[2])
            sc == ParseDecimal(g[1])
            us == IF Len(g) = 2 THEN ParseDecimal(g[2]) ELSE 0
        IN  /\ Len(f) = 3 /\ Len(g) \in {1, 2}
            /\ IsDigits(f[1], 2) /\ IsDigits(f[2], 2) /\ Len(f[2]) = 2
            /\ IsDigits(g[1], 2) /\ Len(g[1]) = 2
            /\ Len(g) = 2 => IsDigits(g[2], 6) /\ Len(g[2]) = 6
            /\ m < 60 /\ sc < 60
            /\ (Len(g) = 2) = (CallDuration.us # 0)
            /\ [secs |-> h * 3600 + m * 60 + sc, us |-> us] = CallDuration

---------------------------------------------------------------------------
(* The text form of a date or datetime, parsed back:                       *)
(* "YYYY-MM-DD" or "YYYY-MM-DD HH:MM:SS[.ffffff]".                         *)
DateTimeTextCall ==
    /\ call.fmt = "text"
    /\ \/ call.op \in {"NaiveDate", "NaiveDateTime"}
       \/ call.op = "Value" /\ call.val.kind = "Date"

IsField(ds, w) == IsDigits(ds, w) /\ Len(ds) = w

\* Every successful text encoding of a date, or of a datetime that is not in
\* a leap second, is a length-encoded "YYYY-MM-DD" (NaiveDate) or
\* "YYYY-MM-DD HH:MM:SS" with ".ffffff" exactly when the microsecond is not
\* 0, every field zero-padded to its width, and it reads back as the value:
\* the two format! branches of NaiveDateTime and the nanosecond / 1_000
\* fraction agree with the binary layout's fields.
DateTimeTextRoundTrip ==
    (DateTimeTextCall /\ res = "Ok" /\ CallDateTime.us < 1000000) =>
        LET p   == SplitAt(TextBody, Space)
            ymd == SplitAt(p[1], Dash)
            hms == IF Len(p) = 2 THEN SplitAt(p[2], Colon) ELSE <<<<48, 48>>, <<48, 48>>, <<48, 48>>>>
            sf  == SplitAt(hms[3], Dot)
            dt  == [y  |-> ParseDecimal(ymd[1]), mo |-> ParseDecimal(ymd[2]),
                    d  |-> ParseDecimal(ymd[3]), h  |-> ParseDecimal(hms[1]),
                    mi |-> ParseDecimal(hms[2]), s  |-> ParseDecimal(sf[1]),
                    us |-> IF Len(sf) = 2 THEN ParseDecimal(sf[2]) ELSE 0]
        IN  /\ Len(p) = IF call.op = "NaiveDate" THEN 1 ELSE 2
            /\ Len(ymd) = 3 /\ Len(hms) = 3 /\ Len(sf) \in {1, 2}
            /\ IsDigits(ymd[1], 4) /\ IsField(ymd[2], 2) /\ IsField(ymd[3], 2)
            /\ IsField(hms[1], 2) /\ IsField(hms[2], 2) /\ IsField(sf[1], 2)
            /\ Len(sf) = 2 => IsField(sf[2], 6)
            /\ (Len(sf) = 2) = (CallDateTime.us # 0)
            /\ dt = CallDateTime

---------------------------------------------------------------------------
(* Statements of the spec the code does not meet (violation runs).        *)

\* Spec 4.4: the datetime text form is "YYYY-MM-DD HH:MM:SS[.ffffff]": a
\* fraction, when there is one, is six digits, a microsecond within its
\* second.  chrono represents a leap second with nanosecond() >= 1e9.
DateTimeFraction ==
    (DateTimeTextCall /\ call.op # "NaiveDate" /\ res = "Ok") =>
        LET sf == SplitAt(Last(SplitAt(TextBody, Colon)), Dot)
        IN  Len(sf) = 2 => Len(sf[2]) = 6

\* Spec 4.2: a native integer type at least as wide as the column is range
\* checked: a u16 .. i64 value that lies in the range of a narrower integer
\* column is accepted for it, not rejected.
NarrowInRange ==
    (/\ call.op \in NativeTypes /\ call.fmt = "bin"
     /\ 0 < ColWidth(call.col.type) /\ ColWidth(call.col.type) < TypeWidth(call.op)
     /\ InRange(call.v, ColWidth(call.col.type), ColSigned(call.col)))
        => res \in {"Ok", "IoError"}

\* Spec 4.1: an incompatible value fails with an error, never a panic; only
\* asking for the binary form of NULL (None, Value::NULL) is a contract
\* violation of the caller.
NoPanic ==
    res = "Panic" =>
        /\ call.fmt = "bin"
        /\ \/ call.op = "option" /\ ~call.val.some
           \/ call.op = "Value" /\ call.val.kind = "NULL"

\* Spec 8: Value::Date(2021, 7, 15, 0, 0, 0, 0) against a DATE column is
\* written as the 4-byte date [0x04, 0xE5, 0x07, 0x07, 0x0F].
ValueDateOnDateColumn ==
    LET v == call.val
    IN  (/\ call.op = "Value" /\ call.fmt = "bin" /\ call.col.type = "DATE"
         /\ v.kind = "Date" /\ ValueDateValid(v)
         /\ v.h = 0 /\ v.mi = 0 /\ v.s = 0 /\ v.us = 0)
        => /\ res \in {"Ok", "IoError"}
           /\ res = "Ok" => out = <<4>> \o Octets(v.y, 2) \o <<v.mo, v.d>>
=============================================================================
