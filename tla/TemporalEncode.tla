---------------------------- MODULE TemporalEncode ----------------------------
(***************************************************************************)
(* The chrono NaiveDate / NaiveDateTime and std Duration encoders of      *)
(* src/mysql/src/value/encode.rs, and the chrono constructors the Value   *)
(* dispatcher calls before them.  Fields and text are real octets.        *)
(***************************************************************************)
EXTENDS WireFormat

CONSTANT
    ChronoLeapAnySecond  \* chrono < 0.4.35 accepts a leap microsecond
                         \* (>= 1_000_000) in any second, later ones only in :59

ASSUME ChronoLeapAnySecond \in BOOLEAN

\* ASCII '-', ':', ' ' and '.'
Dash == 45

Colon == 58

Space == 32

Dot == 46

---------------------------------------------------------------------------
(* chrono's constructors.  NaiveDate::from_ymd and and_hms_micro panic on *)
(* fields they reject; every u16 year is in chrono's range.               *)
IsLeapYear(y) == y % 4 = 0 /\ (y % 100 # 0 \/ y % 400 = 0)

DaysInMonth(y, m) ==
    CASE m = 2                -> IF IsLeapYear(y) THEN 29 ELSE 28
      [] m \in {4, 6, 9, 11}  -> 30
      [] OTHER                -> 31

FromYmdValid(y, m, d) == m \in 1..12 /\ d \in 1..DaysInMonth(y, m)

HmsMicroValid(h, mi, s, us) ==
    /\ h < 24 /\ mi < 60 /\ s < 60
    /\ us < 2000000
    /\ us < 1000000 \/ s = 59 \/ ChronoLeapAnySecond

\* chrono::Duration::days(d) + hours(h) + minutes(m) + seconds(s)
\*   + microseconds(us), then .to_std(): as_secs and subsec_micros.
ChronoToStd(d, h, m, s, us) ==
    [secs |-> d * 86400 + h * 3600 + m * 60 + s + us \div 1000000,
     us   |-> us % 1000000]

---------------------------------------------------------------------------
(* NaiveDate: dt has fields y, mo, d.                                     *)
\* format!("{:04}-{:02}-{:02}", year, month, day)
YmdText(dt) == Padded(dt.y, 4) \o <<Dash>> \o ZeroPad(dt.mo, 2) \o <<Dash>> \o ZeroPad(dt.d, 2)

DateText(dt) == Ok(LenEncStr(YmdText(dt)))

DateBin(dt, c) ==
    IF c.type = "DATE"
    THEN Ok(<<4>> \o Octets(dt.y, 2) \o <<dt.mo, dt.d>>)
    ELSE Bad

\* "{:02}:{:02}:{:02}", followed by ".{:06}" in the branch taken for a
\* nonzero microsecond.
ClockText(h, mi, s, us) ==
    ZeroPad(h, 2) \o <<Colon>> \o ZeroPad(mi, 2) \o <<Colon>> \o ZeroPad(s, 2)
    \o (IF us # 0 THEN <<Dot>> \o ZeroPad(us, 6) ELSE <<>>)

---------------------------------------------------------------------------
(* NaiveDateTime: dt has fields y, mo, d, h, mi, s and us, the value of   *)
(* nanosecond() / 1_000 (at least 1_000_000 in a leap second).            *)

\* Variant: the two format! branches merged into the one with ".{:06}".
DateTimeTextAlwaysFraction(dt) ==
    Ok(LenEncStr(YmdText(dt) \o <<Space>> \o ClockText(dt.h, dt.mi, dt.s, 0)
                 \o <<Dot>> \o ZeroPad(dt.us, 6)))

DateTimeText(dt) ==
    Ok(LenEncStr(YmdText(dt) \o <<Space>> \o ClockText(dt.h, dt.mi, dt.s, dt.us)))

DateTimeBin(dt, c) ==
    IF c.type \in {"DATETIME", "TIMESTAMP"}
    THEN Ok(<<IF dt.us # 0 THEN 11 ELSE 7>>
            \o Octets(dt.y, 2) \o <<dt.mo, dt.d, dt.h, dt.mi, dt.s>>
            \o (IF dt.us # 0 THEN Octets(dt.us, 4) ELSE <<>>))
    ELSE Bad

---------------------------------------------------------------------------
(* std::time::Duration: du has fields secs (as_secs) and us              *)
(* (subsec_micros).  The text form folds days into the hour field.        *)

\* Variant: the text hour taken modulo a day, as in the commented-out line
\* `let h = (s % (24 * 3600)) / 3600;`.
DurationTextDayHours(du) ==
    Ok(LenEncStr(ClockText((du.secs % 86400) \div 3600, (du.secs % 3600) \div 60,
                           du.secs % 60, du.us)))

DurationText(du) ==
    Ok(LenEncStr(ClockText(du.secs \div 3600, (du.secs % 3600) \div 60,
                           du.secs % 60, du.us)))

\* Variant: the binary hour computed like the text one, `s / 3600`, so the
\* days are counted twice.
DurationSplitHourUnfolded(secs) ==
    [d |-> secs \div 86400, h |-> secs \div 3600, m |-> (secs % 3600) \div 60, s |-> secs % 60]

\* to_mysql_bin's split of as_secs into days, hours, minutes and seconds.
DurationSplit(secs) ==
    [d |-> secs \div 86400, h |-> (secs % 86400) \div 3600,
     m |-> (secs % 3600) \div 60, s |-> secs % 60]

\* Variant: the zero-length form chosen on `as_secs() == 0` alone.
DurationIsZeroSecsOnly(du) == du.secs = 0

DurationIsZero(du) == du.secs = 0 /\ du.us = 0

\* The TIME length byte: 0, 12 with microseconds, 8 without.
TimeLength(du) == IF DurationIsZero(du) THEN 0 ELSE IF du.us # 0 THEN 12 ELSE 8

\* The bytes after it: sign (positive only), days, hour, minute, second and
\* the microseconds if there are any.
TimePayload(du) ==
    LET f == DurationSplit(du.secs)
    IN  IF DurationIsZero(du) THEN <<>>
        ELSE <<0>> \o Octets(f.d, 4) \o <<f.h, f.m, f.s>>
             \o (IF du.us # 0 THEN Octets(du.us, 4) ELSE <<>>)

\* Variant: the length byte written before the column type is matched, so a
\* rejected column leaves it in the sink.
DurationBinLengthFirst(du, c) ==
    CASE DurationSplit(du.secs).d > 34 -> Panic
      [] c.type # "TIME"               -> [res |-> "InvalidData", bytes |-> <<TimeLength(du)>>]
      [] OTHER                         -> Ok(<<TimeLength(du)>> \o TimePayload(du))

\* assert!(d <= 34) runs before the column type is looked at.
DurationBin(du, c) ==
    CASE DurationSplit(du.secs).d > 34 -> Panic
      [] c.type # "TIME"               -> Bad
      [] OTHER                         -> Ok(<<TimeLength(du)>> \o TimePayload(du))
=============================================================================
