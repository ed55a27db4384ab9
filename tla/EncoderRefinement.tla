--------------------------- MODULE EncoderRefinement ---------------------------
(***************************************************************************)
(* Encoder implements the binary Encodable contract (EncodableContract)   *)
(* on the calls for which the code follows the spec.  The refinement      *)
(* mapping reads the call's value as a value of the spec's data model,    *)
(* merges InvalidData and Other into the one incompatible-value error,    *)
(* and shows every other call as a stuttering step.  The calls left out   *)
(* are those the violation runs show to break the contract: the native    *)
(* and usize/isize integers and Value::UInt (native_sign_wrap,            *)
(* native_in_range, forgiving_signed_reject, panics), the binary form of  *)
(* NULL, Durations over 34 days and invalid Value::Date fields (panics),  *)
(* Value::Date against a DATE column (value_date_on_date) and years a u16 *)
(* does not hold (year_wrap).                                              *)
(***************************************************************************)
EXTENDS Encoder

U16Year(dt) == dt.y \in 0..65535

ValueInContract(v, c) ==
    CASE v.kind \in {"Int", "Float", "Double", "Bytes"} -> TRUE
      [] v.kind = "Date" -> ValueDateValid(v) /\ c.type # "DATE"
      [] v.kind = "Time" -> v.neg \/ ValueDuration(v).secs \div 86400 <= 34
      [] OTHER           -> FALSE

InContract ==
    /\ call.fmt = "bin"
    /\ \/ call.op \in {"f32", "f64", "bytes"}
       \/ call.op = "option" /\ call.val.some
       \/ call.op \in {"NaiveDate", "NaiveDateTime"} /\ U16Year(call.val)
       \/ call.op = "Duration" /\ call.val.secs \div 86400 <= 34
       \/ call.op = "Value" /\ ValueInContract(call.val, call.col)

\* The call's value as the spec's data model has it.
AbsValue ==
    LET v == call.val
    IN  CASE call.op \in {"f32", "f64"} ->
                [kind |-> "float", bits |-> IF call.op = "f32" THEN 32 ELSE 64, f |-> call.v]
          [] call.op \in {"bytes", "option"} -> [kind |-> "bytes", b |-> v.b]
          [] call.op = "NaiveDate"     -> [kind |-> "date", y |-> v.y, mo |-> v.mo, d |-> v.d]
          [] call.op = "NaiveDateTime" -> [kind |-> "datetime"] @@ v
          [] call.op = "Duration"      ->
                [kind |-> "time", neg |-> FALSE, d |-> 0, h |-> 0, m |-> 0,
                 s |-> v.secs, us |-> v.us]
          [] v.kind = "Int"    -> [kind |-> "int", n |-> v.n]
          [] v.kind = "Float"  -> [kind |-> "float", bits |-> 32, f |-> v.f]
          [] v.kind = "Double" -> [kind |-> "float", bits |-> 64, f |-> v.f]
          [] v.kind = "Bytes"  -> [kind |-> "bytes", b |-> v.b]
          [] v.kind = "Date"   -> [kind |-> "datetime"] @@ ValueDateTime(v)
          [] v.kind = "Time"   ->
                [kind |-> "time", neg |-> v.neg, d |-> v.d, h |-> v.h, m |-> v.m,
                 s |-> v.s, us |-> v.us]

NoPending == [v |-> [kind |-> "none"], col |-> NoColumn]

AbsOutcome ==
    CASE res \in {"InvalidData", "Other"} -> "Error"
      [] OTHER                            -> res

Contract == INSTANCE EncodableContract WITH
    pending <- IF InContract THEN [v |-> AbsValue, col |-> call.col] ELSE NoPending,
    written <- IF InContract THEN out ELSE <<>>,
    outcome <- IF InContract THEN AbsOutcome ELSE "none"

\* The binary encoders of floats, byte strings, Option, NaiveDate,
\* NaiveDateTime, Duration and of Value's Int, Float, Double, Bytes, Date
\* and Time behave as the spec's contract says: a value the declared type
\* can represent is written as its canonical encoding (or cut short only by
\* a failing sink), any other value is rejected with nothing written, and
\* nothing panics.  For Value::Int this is the narrowing i8 -> ... -> i64 /
\* u8 -> ... -> u64 against plain representability; for Value::Time it is
\* chrono's normalisation against the duration the fields denote.
ContractRefinement == Contract!CSpec
=============================================================================
