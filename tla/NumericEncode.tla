---------------------------- MODULE NumericEncode ----------------------------
(***************************************************************************)
(* The binary-protocol encoders of the native numeric types in            *)
(* src/mysql/src/value/encode.rs: each is a function from a value and a   *)
(* Column to the result of ToMysqlValue::to_mysql_bin, and, for integers, *)
(* of to_mysql_text.                                                      *)
(***************************************************************************)
EXTENDS WireFormat

\* Variant: a widening arm that writes the value with its own width.
NativeBinOwnWidth(t, v, c) ==
    LET cw == ColWidth(c.type)
    IN  CASE cw = 0 \/ cw < TypeWidth(t) -> Bad
          [] cw = TypeWidth(t)            ->
                IF TypeSigned(t) = ColSigned(c) THEN Ok(LE(v, cw)) ELSE Panic
          [] OTHER                        -> Ok(LE(v, TypeWidth(t)))

\* The eight hand-written impls for u8 .. i64.  A value written into a wider
\* integer column is widened with From (exact) or, for a signed value into
\* an unsigned column, with `as` (two's complement reinterpretation); at the
\* value's own width the impl asserts that the column's signedness is the
\* type's; a narrower or non-integer column is rejected with bad().
NativeBin(t, v, c) ==
    LET cw == ColWidth(c.type)
    IN  CASE cw = 0 \/ cw < TypeWidth(t) -> Bad
          [] cw = TypeWidth(t)            ->
                IF TypeSigned(t) = ColSigned(c) THEN Ok(LE(v, cw)) ELSE Panic
          [] OTHER                        -> Ok(LE(Cast(v, cw, ColSigned(c)), cw))

\* Variant: like_try_into! without the lower bound.
LikeTryIntoNoMin(t, v, cw, signed) ==
    LET max == Cast(MaxOf(cw, signed), TypeWidth(t), TypeSigned(t))
    IN  IF v <= max THEN Ok(LE(Cast(v, cw, signed), cw)) ELSE Bad

\* like_try_into!($self, $source => $target): min and max of the target
\* are converted to the source type with `as`, then the value is compared
\* with both in the source type and, if between them, written with `as`.
LikeTryInto(t, v, cw, signed) ==
    LET min == Cast(MinOf(cw, signed), TypeWidth(t), TypeSigned(t))
        max == Cast(MaxOf(cw, signed), TypeWidth(t), TypeSigned(t))
    IN  IF v <= max /\ v >= min THEN Ok(LE(Cast(v, cw, signed), cw)) ELSE Bad

\* forgiving_numeric!(usize) and forgiving_numeric!(isize).
ForgivingBin(t, v, c) ==
    IF ColWidth(c.type) = 0 THEN Bad
    ELSE LikeTryInto(t, v, ColWidth(c.type), ColSigned(c))

---------------------------------------------------------------------------
(* Floats.  A float is a small number naming a value, and its IEEE-754    *)
(* image is abstract: the n-byte field holding that name.  f64::from(f32) *)
(* is exact, so an f32 written to a DOUBLE column is the 8-byte image of  *)
(* the same value.                                                        *)
FloatBytes(f, n) == LE(f, n)

F32Bin(f, c) ==
    CASE c.type = "DOUBLE" -> Ok(FloatBytes(f, 8))
      [] c.type = "FLOAT"  -> Ok(FloatBytes(f, 4))
      [] OTHER             -> Bad

F64Bin(f, c) ==
    IF c.type = "DOUBLE" THEN Ok(FloatBytes(f, 8)) ELSE Bad

---------------------------------------------------------------------------
(* Text protocol: mysql_text_trivial! writes format!("{}", self) as a     *)
(* length-encoded string: the ASCII decimal digits, '-' first if negative.*)
IntText(v) == Ok(LenEncStr(Decimal(v)))

\* The same macro for f32 / f64.  The model's floats are integral values,
\* which Display prints as their digits with no fraction ("3", not "3.0").
FloatText(f) == Ok(LenEncStr(Decimal(f)))
=============================================================================
