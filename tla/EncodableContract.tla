-------------------------- MODULE EncodableContract --------------------------
(***************************************************************************)
(* The binary half of the Encodable contract, as spec sections 4.1-4.4, 6 *)
(* and 7 state it, with no reference to how the encoders compute it.  A   *)
(* call carries a value of the spec's data model and a Column.  If the    *)
(* column's declared type can represent the value, the call writes the    *)
(* value's canonical encoding at that type; otherwise it writes nothing   *)
(* and fails with the incompatible-value error.  A failing sink may cut a *)
(* representable value short: the sink then holds a proper prefix of its  *)
(* encoding and the call reports the I/O error (the caller aborts).       *)
(*                                                                         *)
(* Values: [kind |-> "int", n], [kind |-> "float", bits, f],               *)
(* [kind |-> "bytes", b], [kind |-> "date", y, mo, d],                     *)
(* [kind |-> "datetime", y, mo, d, h, mi, s, us] and                       *)
(* [kind |-> "time", neg, d, h, m, s, us].                                 *)
(***************************************************************************)
EXTENDS WireFormat

VARIABLES
    pending,    \* [v, col] of the call being served, or None
    written,    \* the bytes the sink holds for it
    outcome     \* "none", "Ok", "Error" or "IoError"

cvars == <<pending, written, outcome>>

None == [v |-> [kind |-> "none"], col |-> [type |-> "none", unsigned |-> FALSE]]

\* Spec 4.3: fixed and variable char, the blob family, set, enum,
\* decimal / newdecimal, bit, geometry and json.
ByteTypes ==
    {"STRING", "VAR_STRING", "VARCHAR", "BLOB", "TINY_BLOB", "MEDIUM_BLOB",
     "LONG_BLOB", "SET", "ENUM", "DECIMAL", "NEWDECIMAL", "BIT", "GEOMETRY",
     "JSON"}

\* A time as a duration: whole seconds and the microseconds below a second.
Magnitude(t) ==
    [secs |-> ((t.d * 24 + t.h) * 60 + t.m) * 60 + t.s + t.us \div 1000000,
     us   |-> t.us % 1000000]

\* Spec 4.2, 4.3, 4.4 and 9: the declared type can hold the value.
Representable(a) ==
    LET v == a.v
        t == a.col.type
    IN  CASE v.kind = "int"      -> ColWidth(t) > 0 /\ InRange(v.n, ColWidth(t), ~a.col.unsigned)
          [] v.kind = "float"    -> t = "DOUBLE" \/ (t = "FLOAT" /\ v.bits = 32)
          [] v.kind = "bytes"    -> t \in ByteTypes
          [] v.kind = "date"     -> t = "DATE"
          [] v.kind = "datetime" -> t \in {"DATETIME", "TIMESTAMP"}
          [] v.kind = "time"     ->
                ~v.neg /\ t = "TIME" /\ Magnitude(v).secs \div 86400 <= 34

\* Spec 6: the canonical binary encoding of a representable value.  Integer
\* fields are little-endian two's complement of the declared width; a float
\* is its 4- or 8-byte image; every temporal length byte is the shortest.
Canonical(a) ==
    LET v == a.v
        Fraction(us) == IF us = 0 THEN <<>> ELSE Octets(us, 4)
    IN  CASE v.kind = "int"      -> LE(v.n, ColWidth(a.col.type))
          [] v.kind = "float"    -> LE(v.f, IF a.col.type = "FLOAT" THEN 4 ELSE 8)
          [] v.kind = "bytes"    -> LenEncStr(v.b)
          [] v.kind = "date"     -> <<4>> \o Octets(v.y, 2) \o <<v.mo, v.d>>
          [] v.kind = "datetime" ->
                <<IF v.us = 0 THEN 7 ELSE 11>> \o Octets(v.y, 2)
                \o <<v.mo, v.d, v.h, v.mi, v.s>> \o Fraction(v.us)
          [] v.kind = "time"     ->
                LET du == Magnitude(v)
                IN  IF du = [secs |-> 0, us |-> 0] THEN <<0>>
                    ELSE <<IF du.us = 0 THEN 8 ELSE 12, 0>>
                         \o Octets(du.secs \div 86400, 4)
                         \o <<(du.secs % 86400) \div 3600, (du.secs % 3600) \div 60,
                             du.secs % 60>>
                         \o Fraction(du.us)

---------------------------------------------------------------------------
CInit ==
    /\ pending = None
    /\ written = <<>>
    /\ outcome = "none"

Accept ==
    /\ pending = None /\ pending' # None
    /\ Representable(pending')
    /\ written' = Canonical(pending')
    /\ outcome' = "Ok"

Reject ==
    /\ pending = None /\ pending' # None
    /\ ~Representable(pending')
    /\ written' = <<>>
    /\ outcome' = "Error"

\* Spec 7: no partial write is reported as a success.
SinkFails ==
    /\ pending = None /\ pending' # None
    /\ Representable(pending')
    /\ \E k \in 0..(Len(Canonical(pending')) - 1) :
           written' = SubSeq(Canonical(pending'), 1, k)
    /\ outcome' = "IoError"

Finish ==
    /\ pending # None
    /\ pending' = None
    /\ written' = <<>>
    /\ outcome' = "none"

CNext == Accept \/ Reject \/ SinkFails \/ Finish

CSpec == CInit /\ [][CNext]_cvars
=============================================================================
