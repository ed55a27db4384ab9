----------------------------- MODULE WireFormat -----------------------------
(***************************************************************************)
(* Column descriptors, native integer types and the little-endian integer *)
(* layout the binary protocol encoders of src/mysql/src/value/encode.rs   *)
(* write through byteorder's WriteBytesExt.                                *)
(*                                                                         *)
(* Integer fields are scaled: one byte of an integer field has ByteBits   *)
(* bits, so the 1/2/4/8-byte layouts keep their ratios and every cast and *)
(* range check keeps its boundaries, while the 64-bit types stay inside   *)
(* TLC's integers.  Temporal fields and text are written in real octets.  *)
(***************************************************************************)
EXTENDS Integers, SequencesExt

CONSTANTS
    ByteBits,   \* bits in one byte of an integer field (8 on the wire)
    PtrBytes,   \* size_of::<usize>() in bytes: 8 on 64-bit, 4 on 32-bit targets
    ColTypes    \* the ColumnType codes (strings "LONGLONG", "DATE", ...) exercised

ASSUME ByteBits \in 1..3 /\ PtrBytes \in {4, 8}

---------------------------------------------------------------------------
(* Column: the coltype code and the UNSIGNED_FLAG bit of colflags.         *)
Columns == [type : ColTypes, unsigned : BOOLEAN]

\* let signed = !c.colflags.contains(ColumnFlags::UNSIGNED_FLAG);
ColSigned(c) == ~c.unsigned

\* The width in bytes an integer column type is written with: LONGLONG 8,
\* LONG/INT24 4, SHORT/YEAR 2, TINY 1; 0 for the `_ => Err(bad(..))` arm.
ColWidth(t) ==
    CASE t = "LONGLONG"               -> 8
      [] t \in {"LONG", "INT24"}      -> 4
      [] t \in {"SHORT", "YEAR"}      -> 2
      [] t = "TINY"                   -> 1
      [] OTHER                        -> 0

---------------------------------------------------------------------------
(* Native integer types: their width in bytes and signedness.             *)
NativeTypes    == {"u8", "i8", "u16", "i16", "u32", "i32", "u64", "i64"}
ForgivingTypes == {"usize", "isize"}

TypeWidth(t) ==
    CASE t \in {"u8", "i8"}        -> 1
      [] t \in {"u16", "i16"}      -> 2
      [] t \in {"u32", "i32"}      -> 4
      [] t \in {"u64", "i64"}      -> 8
      [] t \in ForgivingTypes      -> PtrBytes

TypeSigned(t) == t \in {"i8", "i16", "i32", "i64", "isize"}

Bits(nb) == nb * ByteBits

\* <$t>::min_value() and <$t>::max_value() of an nb-byte type.
MinOf(nb, signed) == IF signed THEN -(2^(Bits(nb) - 1)) ELSE 0
MaxOf(nb, signed) == IF signed THEN 2^(Bits(nb) - 1) - 1 ELSE 2^Bits(nb) - 1

InRange(x, nb, signed) == MinOf(nb, signed) <= x /\ x <= MaxOf(nb, signed)

\* Rust's `x as T` between integer types: keep the low bits of the two's
\* complement image of x and read them with T's signedness.
Cast(x, nb, signed) ==
    LET m == x % (2^Bits(nb))
    IN  IF signed /\ m > MaxOf(nb, TRUE) THEN m - 2^Bits(nb) ELSE m

\* write_{u,i}N::<LittleEndian>(x): the nb bytes of x, least significant first.
LE(x, nb) ==
    [i \in 1..nb |-> ((x % (2^Bits(nb))) \div (2^Bits(i - 1))) % (2^ByteBits)]

\* Reference reading of a little-endian field with a given signedness, as a
\* client decodes it.
FromLE(bytes, signed) ==
    LET u == FoldLeft(LAMBDA acc, b : acc * 2^ByteBits + b, 0, Reverse(bytes))
    IN  Cast(u, Len(bytes), signed)

---------------------------------------------------------------------------
(* Results of one encode call: io::Result<()> with the bytes the encoder  *)
(* hands to the sink, or a panic (assert!, unreachable!, expect).         *)
Ok(bytes) == [res |-> "Ok", bytes |-> bytes]

\* fn bad(v, c) -> io::Error: ErrorKind::InvalidData, nothing written.
Bad == [res |-> "InvalidData", bytes |-> <<>>]

Panic == [res |-> "Panic", bytes |-> <<>>]

\* io::Error::new(ErrorKind::Other, ..): nothing written.
Other == [res |-> "Other", bytes |-> <<>>]

\* write_u8 / write_u16 / write_u32::<LittleEndian> of a temporal field:
\* real octets, least significant first.
Octets(x, n) == [i \in 1..n |-> (x \div (2^(8 * (i - 1)))) % 256]

\* Variant: the one-byte form used up to 251, so a length of 251 is
\* written as 0xFB, the NULL marker.
LenEncIntOneByteTo251(n) ==
    CASE n < 252   -> <<n>>
      [] n < 2^16  -> <<252>> \o Octets(n, 2)
      [] n < 2^24  -> <<253>> \o Octets(n, 3)
      [] OTHER     -> <<254>> \o Octets(n, 4) \o <<0, 0, 0, 0>>

\* write_lenenc_int of the external myc crate, the protocol's length-encoded
\* integer: one byte below 251 (0xFB is the NULL marker, 0xFF starts an
\* error packet), otherwise 0xFC, 0xFD or 0xFE and 2, 3 or 8 little-endian
\* bytes (the top four of the eight are 0 for any length TLC can hold).
LenEncInt(n) ==
    CASE n < 251   -> <<n>>
      [] n < 2^16  -> <<252>> \o Octets(n, 2)
      [] n < 2^24  -> <<253>> \o Octets(n, 3)
      [] OTHER     -> <<254>> \o Octets(n, 4) \o <<0, 0, 0, 0>>

\* write_lenenc_str: the length as a length-encoded integer, then the bytes.
LenEncStr(s) == LenEncInt(Len(s)) \o s

---------------------------------------------------------------------------
(* format! of an integer: ASCII decimal digits, '-' first if negative,    *)
(* and with {:0w} zeros after the sign up to width w.                     *)
RECURSIVE DecimalDigits(_)
DecimalDigits(n) ==
    IF n < 10 THEN <<48 + n>> ELSE Append(DecimalDigits(n \div 10), 48 + (n % 10))

Decimal(n) == IF n < 0 THEN <<45>> \o DecimalDigits(-n) ELSE DecimalDigits(n)

ZeroPad(n, w) ==
    LET d == DecimalDigits(n) IN [i \in 1..(w - Len(d)) |-> 48] \o d

Padded(n, w) == IF n < 0 THEN <<45>> \o ZeroPad(-n, w - 1) ELSE ZeroPad(n, w)

---------------------------------------------------------------------------
(* Boundary probes: every min and max of every width and signedness, one  *)
(* off either side, and 0.  Probe(nb, s) keeps the ones of type (nb, s).  *)
Boundaries ==
    {0} \cup {MinOf(nb, s) : nb \in {1, 2, 4, 8}, s \in BOOLEAN}
        \cup {MaxOf(nb, s) : nb \in {1, 2, 4, 8}, s \in BOOLEAN}

Probe(nb, signed) ==
    {x \in {b + d : b \in Boundaries, d \in {-1, 0, 1}} : InRange(x, nb, signed)}
=============================================================================
