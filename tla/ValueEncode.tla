----------------------------- MODULE ValueEncode -----------------------------
(***************************************************************************)
(* <myc::value::Value as ToMysqlValue>: the dispatcher from the driver's  *)
(* tagged value to the concrete encoders.  A Value is a record whose kind *)
(* is one of NULL, Bytes(b), Int(n), UInt(n), Float(f), Double(f),        *)
(* Date(y, mo, d, h, mi, s, us) and Time(neg, d, h, m, s, us).            *)
(***************************************************************************)
EXTENDS NumericEncode, BytesEncode, TemporalEncode

\* Variant: the first probe with `<` for `<=` at its upper bound.
NarrowWidthOffByOne(n, signed) ==
    CASE MinOf(1, signed) <= n /\ n < MaxOf(1, signed) -> 1
      [] InRange(n, 2, signed)                         -> 2
      [] InRange(n, 4, signed)                         -> 4
      [] OTHER                                         -> 8

\* The probes of Value::Int: the width of the first of i8, i16, i32 (u8,
\* u16, u32 for an unsigned column) whose range holds n, else 8.
NarrowWidth(n, signed) ==
    CASE InRange(n, 1, signed) -> 1
      [] InRange(n, 2, signed) -> 2
      [] InRange(n, 4, signed) -> 4
      [] OTHER                 -> 8

\* The native type of a width and signedness: i8, u16, ...
IntType(nb, signed) ==
    CHOOSE t \in NativeTypes : TypeWidth(t) = nb /\ TypeSigned(t) = signed

\* Value::Int(n) in the binary protocol: a negative n is rejected by an
\* unsigned column; otherwise n is cast (`n as i8`, ...) to the type the
\* probes chose and that type's impl is called.
ValueIntBin(n, c) ==
    LET s  == ColSigned(c)
        nb == NarrowWidth(n, s)
    IN  IF ~s /\ n < 0 THEN Bad ELSE NativeBin(IntType(nb, s), Cast(n, nb, s), c)

\* NaiveDate::from_ymd(..).and_hms_micro(..): panics on a rejected field.
ValueDateTime(v) ==
    [y |-> v.y, mo |-> v.mo, d |-> v.d, h |-> v.h, mi |-> v.mi, s |-> v.s, us |-> v.us]

ValueDateValid(v) == FromYmdValid(v.y, v.mo, v.d) /\ HmsMicroValid(v.h, v.mi, v.s, v.us)

ValueDuration(v) == ChronoToStd(v.d, v.h, v.m, v.s, v.us)

ValueText(v) ==
    CASE v.kind = "NULL"   -> OptionText(FALSE, Bad)
      [] v.kind = "Bytes"  -> BytesText(v.b)
      [] v.kind = "Int"    -> IntText(v.n)
      [] v.kind = "UInt"   -> IntText(v.n)
      [] v.kind \in {"Float", "Double"} -> FloatText(v.f)
      [] v.kind = "Date"   ->
            IF ValueDateValid(v) THEN DateTimeText(ValueDateTime(v)) ELSE Panic
      [] v.kind = "Time"   ->
            IF v.neg THEN Other ELSE DurationText(ValueDuration(v))

ValueBin(v, c) ==
    CASE v.kind = "NULL"   -> Panic
      [] v.kind = "Bytes"  -> BytesBin(v.b, c)
      [] v.kind = "Int"    -> ValueIntBin(v.n, c)
      [] v.kind = "UInt"   -> NativeBin("u64", v.n, c)
      [] v.kind = "Float"  -> F32Bin(v.f, c)
      [] v.kind = "Double" -> F64Bin(v.f, c)
      [] v.kind = "Date"   ->
            IF ValueDateValid(v) THEN DateTimeBin(ValueDateTime(v), c) ELSE Panic
      [] v.kind = "Time"   ->
            IF v.neg THEN Other ELSE DurationBin(ValueDuration(v), c)

ValueIsNull(v) == v.kind = "NULL"
=============================================================================
