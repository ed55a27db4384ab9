----------------------------- MODULE BytesEncode -----------------------------
(***************************************************************************)
(* <[u8] as ToMysqlValue>, to which String, str, Vec<u8> and &T forward,  *)
(* and the Option<T> wrapper that carries NULL.  Payload bytes are octets.*)
(***************************************************************************)
EXTENDS WireFormat

\* The column types whose binary form is a length-encoded byte string.
BytesColTypes ==
    {"STRING", "VAR_STRING", "BLOB", "TINY_BLOB", "MEDIUM_BLOB", "LONG_BLOB",
     "SET", "ENUM", "DECIMAL", "VARCHAR", "BIT", "NEWDECIMAL", "GEOMETRY",
     "JSON"}

BytesText(s) == Ok(LenEncStr(s))

BytesBin(s, c) == IF c.type \in BytesColTypes THEN Ok(LenEncStr(s)) ELSE Bad

---------------------------------------------------------------------------
(* Option<T>: None is the text NULL marker 0xFB; its binary form must     *)
(* never be asked for (the row writer puts it in the NULL bitmap), and    *)
(* unreachable!() panics if it is.  Some(v) forwards to v's encoder, which *)
(* the caller passes as the result Inner.                                 *)
NullMarker == 251

OptionText(isSome, Inner) == IF isSome THEN Inner ELSE Ok(<<NullMarker>>)

OptionBin(isSome, Inner) == IF isSome THEN Inner ELSE Panic

OptionIsNull(isSome) == ~isSome
=============================================================================
