# TLA+ model of the opensrv MySQL value encoder

This project models `src/mysql/src/value/encode.rs`. That file is the layer
that turns one result value into the bytes of the MySQL text or binary
resultset protocol. The project checks the encoder with TLC.

## 1. The system

### Components

| Component | Source lines | State it keeps | Operations |
|---|---|---|---|
| `ToMysqlValue` trait, `bad()` | 24–53 | none | `to_mysql_text`, `to_mysql_bin`, `is_null`; `bad()` builds the `InvalidData` error |
| `Option<T>` NULL wrapper | 55–79 | none | NULL text marker `0xFB`; the binary form panics with `unreachable!()`; `is_null` |
| Numeric encoders | 81–365 | none | `like_try_into!` / `forgiving_numeric!` (usize, isize); eight hand-written impls u8…i64; f32, f64; integer text through `format!` |
| Byte/string encoder | 367–429 | none | `[u8]` text and binary (length-encoded); String, str, Vec<u8> and &T forward to it |
| Temporal encoders | 431–570 | none | NaiveDate, NaiveDateTime and Duration, each in text and binary |
| `Value` dispatcher | 572–674 | none | maps each `myc::value::Value` variant to a concrete encoder: narrows `Int`, builds chrono values, rejects negative `Time` |

### How the parts interact

The parts call each other in one direction only. The row writer, outside this
file, calls an encoder with a fresh `io::Write` sink and, for binary, a
`Column`. The `Value` dispatcher calls the numeric, byte and temporal encoders.
The Option wrapper and the forwarding impls call the encoder of the inner type.

No state is shared and nothing runs concurrently. Each call is a pure function
of its value and its column. The only effect is the bytes written to the sink.

### What makes this code hard

Concurrency is not the difficulty here: there is none. The hard cases are at
the boundaries:

- **Casts.** Rust `as` wraps values, and `like_try_into!` compares in the
  source type after casting the target's bounds into it.
- **Narrowing order.** `Value::Int` tries i8, then i16, i32 and i64 (u8 … u64
  for an unsigned column).
- **Signedness.** A same-width mismatch between the value's type and the
  column's signedness hits an `assert!`.
- **Temporal layouts.** The length byte is the shortest the value allows. The
  time is split into days, hours, minutes and seconds differently in text and
  in binary.
- **chrono's panics.** chrono rejects some field values that drivers do send.
- **Sink failures.** A sink may fail in the middle of a value. `?` then returns
  the error, and part of the value is already in the sink.

### Properties that make each part correct

- **Numeric.** The encoder writes the width the column declares. It never wraps
  a value silently. It accepts every value the column can hold. It never panics
  on an incompatible value.
- **Dispatcher.** `Value::Int` is accepted exactly when the value fits the
  column, and then reads back as itself.
- **Temporal.** The binary layouts of spec §6 read back as the value. The
  length byte is the shortest the value allows. The text form denotes the same
  duration as the value.
- **Option.** NULL has the text form `0xFB`. The binary form of NULL is never
  requested.
- **Text cells.** A client splits a text row into cells by their prefixes.
  Only NULL starts with `0xFB`, and every other cell's length-encoded prefix
  counts exactly the bytes after it.

## 2. Modules

| Module | Role |
|---|---|
| `WireFormat` | Columns (type code and UNSIGNED flag), the native types, ranges, Rust `as` (`Cast`), little-endian fields (`LE`, `Octets`), the result values `Ok`/`Bad`/`Panic`/`Other`, the protocol's length-encoded integer and string (`LenEncInt`, `LenEncStr`, from the external myc crate), `format!` of integers, and the boundary probes. |
| `NumericEncode` | The integer impls (`NativeBin`), `like_try_into!` (`LikeTryInto`), `forgiving_numeric!` (`ForgivingBin`), floats, and integer and float text. |
| `BytesEncode` | The `[u8]` encoder and the `Option<T>` wrapper. |
| `TemporalEncode` | chrono's validity rules (`FromYmdValid`, `HmsMicroValid`), the Duration normalisation (`ChronoToStd`), and the NaiveDate, NaiveDateTime and Duration encoders. |
| `ValueEncode` | The `Value` dispatcher (`ValueText`, `ValueBin`, `ValueIntBin`). |
| `Encoder` | The state machine and its invariants. |
| `EncodableContract` | The abstract specification: the binary half of the spec's Encodable contract (§4.1–4.4, 6, 7), with no reference to how the encoders compute it. |
| `EncoderRefinement` | The refinement mapping from `Encoder` to `EncodableContract` and the property `ContractRefinement`. |
| `MCEncoder` | Constants for TLC (extends `EncoderRefinement`). |

Each encoder is a pure operator from a value and a column to a result. The
result is `[res, bytes]`: the outcome and the bytes the code hands to the sink.

`Encoder` is the state machine. Its state is:

- `call`: the operation, the format, the value and the column;
- `out`: the bytes that reached the sink;
- `res`: one of `Ok`, `InvalidData`, `Other`, `Panic`, `IoError`, or `none`.

`Encoder` has one action per impl family: `EncodeNativeBin`,
`EncodeForgivingBin`, `EncodeFloatBin`, `EncodeFloatText`, `EncodeIntText`, `EncodeBytes`,
`EncodeOption`, `EncodeDate`, `EncodeDateTime`, `EncodeDuration` and
`EncodeValue`. Each action chooses its inputs with `\E` and applies `Perform`.
The impls with both forms go through `EncodeEither`: either the text form, or
the binary form against any column.
`Perform` models the sink: either every byte is written, or a write fails after
a proper prefix and the call returns `IoError`. `TakeResult` is the row writer
taking the outcome and supplying a fresh sink.

### Scaling

TLC's integers are 32-bit, so integer fields are scaled. One byte of an integer
field has `ByteBits` bits; the runs use 2. The widths stay at 1, 2, 4 and 8
bytes, so every cast, bound and width relation keeps its shape. For example,
i8 covers −2..1 and u64 covers 0..65535.

Temporal fields and all text are real octets, because their values fit in
TLC's integers. `PtrBytes` is the size of usize; the runs use 8, and `encoder_32bit` uses 4.

### Bounds and why they are enough

- **Integers.** `Probe` is every min and max of every width and signedness,
  one either side of each, and 0. This covers every branch of every range test,
  cast and narrowing step.
- **Columns.** Every integer code, FLOAT, DOUBLE, one byte-string code, DATE,
  DATETIME, TIME, and one code no encoder accepts, each signed and unsigned.
- **Dates.** Years 2000 (a leap year) and 2100 (not a leap year). Month 0 and
  day 0 (the zero date), Feb 29, day 31 in February. Hour 24, minute 60 and
  second 60 (rejected by chrono). Microseconds 0, 1, 999999, a leap value of
  1000000, and 2000000 (rejected).
- **Byte strings.** The empty string, the single byte `0xFB`, and 250 and 251
  bytes of `0xFB`: the last one-byte length prefix and the first `0xFC` one.
- **Floats.** The integral values 0 and 3. Rust's `Display` prints them as
  digits with no fraction.
- **Times.** 0, 1, 34 and 35 days, and std Durations on either side of the
  34-day limit.

`ChronoLeapAnySecond = TRUE` gives chrono's rule before 0.4.35: a leap
microsecond is accepted in any second.

## 3. Runs

| Run | cfg | Expect | What it shows |
|---|---|---|---|
| `encoder` | `MCEncoder.cfg` | pass | 153,246 states in about 8 s. `TypeOK`, `DeclaredWidth`, `ForgivingSound`, `ValueIntExact`, `TemporalRoundTrip`, `TimeTextRoundTrip`, `DateTimeTextRoundTrip`, `TextCellFraming`. |
| `native_sign_wrap` | `MCEncoder_NoSilentWrap.cfg` | violation | An i8 of −2 (i8::MIN at the model's 2-bit bytes) written to an unsigned LONGLONG succeeds with the bytes 2,3,3,3,3,3,3,3. That is 65534, u64::MAX − 1 at the model's widths. At real widths −1i8 becomes u64::MAX. |
| `forgiving_signed_reject` | `MCEncoder_ForgivingComplete.cfg` | violation | A usize of 0 is rejected by a signed LONGLONG column: `i64::MIN as usize` is 2^63. |
| `panics` | `MCEncoder_NoPanic.cfg` | violation | A u64 into a signed LONGLONG panics. So do Value::UInt, same-width signedness mismatches, Durations over 34 days, and zero dates. |
| `value_date_on_date` | `MCEncoder_ValueDateOnDateColumn.cfg` | violation | `Value::Date` against a DATE column returns InvalidData, contrary to the example in spec §8. |
| `year_wrap` | `MCEncoder_YearWrap.cfg` | violation | A chrono year of −1 is written as 65535. |
| `contract` | `MCEncoder_Contract.cfg` | pass | `ContractRefinement`: the binary encoders implement `EncodableContract` (153,246 states, about 12 s). |
| `encoder_32bit` | `MCEncoder_Ptr32.cfg` | pass | `ForgivingSound` with `PtrBytes = 4`: on a 32-bit target `like_try_into!` still lets no wrapped value through. |
| `native_in_range` | `MCEncoder_NarrowInRange.cfg` | violation | A u64 of 0 written to a signed LONG column is rejected. The u16…i64 impls have no range check for narrower columns, contrary to spec §4.2. |
| `datetime_fraction` | `MCEncoder_DateTimeFraction.cfg` | violation | With chrono ≥ 0.4.35 rules, a NaiveDateTime in a leap second (`00:00:59`, us = 1,000,000) is written as text with a 7-digit fraction. Spec §4.4 gives `.ffffff`. |

What the passing properties state:

- **`DeclaredWidth`**: every successful binary number has the column's width.
- **`ForgivingSound`**: a usize or isize that `like_try_into!` accepts reads
  back as itself.
- **`ValueIntExact`**: `Value::Int` is accepted exactly for the integer columns
  that can hold it, and reads back exactly.
- **`TemporalRoundTrip`**: a successful binary date, datetime or time has the
  layout of spec §6, the shortest length byte, byte-sized fields, and decodes
  to the value.
- **`TimeTextRoundTrip`**: the text of a duration parses back to the duration,
  with the days folded into the hours.
- **`DateTimeTextRoundTrip`**: the text of a date or datetime outside a leap
  second is `YYYY-MM-DD[ HH:MM:SS[.ffffff]]`. Every field is zero-padded, the
  fraction appears exactly when the microsecond is not 0, and the text parses
  back to the value.
- **`TextCellFraming`**: a successful text encoding starts with `0xFB`
  exactly when the value is NULL (`None`, `Value::NULL`). It never starts with
  `0xFF`. Its length-encoded prefix counts exactly the bytes after it, for
  strings on both sides of the 251-byte switch to the `0xFC` form. The mutant
  `LenEncIntOneByteTo251` writes the length 251 as the single byte `0xFB`, and
  TLC catches it.
- **`ContractRefinement`**: see the next section.

### Refinement: the Encodable contract

`EncodableContract` states what spec §4.1–4.4, §6 and §7 promise for the binary
protocol. Its variables are:

- `pending`: a value of the spec's data model and a column;
- `written`: the bytes in the sink;
- `outcome`: `none`, `Ok`, `Error` or `IoError`.

Its actions are:

- `Accept`: the column can represent the value, and the canonical encoding is
  written.
- `Reject`: the column cannot represent it. Nothing is written and the outcome
  is `Error`.
- `SinkFails`: the value is representable, but the sink holds only a proper
  prefix of its encoding, and the outcome is `IoError`.
- `Finish`: the caller takes the outcome.

`EncoderRefinement` maps the concrete state onto the contract:

- **`pending`** is the call's value as a data-model value: `Value::Int(n)`
  becomes the integer `n`, a `Duration` becomes a time of that many seconds,
  and `Value::Date` becomes a datetime.
- **`outcome`** merges `InvalidData` and `Other` into `Error`. A `Panic` matches
  no abstract step.
- **Calls outside the contract** are mapped to stuttering. These are exactly
  the calls the violation runs show to break it:
  - the native and usize/isize integers and `Value::UInt`;
  - the binary form of NULL;
  - Durations over 34 days and invalid `Value::Date` fields;
  - `Value::Date` against a DATE column;
  - years a u16 cannot hold.

Within the contract, the check compares:

- the narrowing of `Value::Int` with plain representability;
- chrono's normalisation of `Value::Time` fields with the duration they denote;
- every temporal layout with the spec's;
- the I/O error path with "a prefix of the canonical encoding, never a rejected
  value's bytes".

The last comparison catches an encoder that writes bytes before it rejects a
value. The mutant `DurationBinLengthFirst`, for example, writes the TIME length
byte before it matches the column, and TLC catches it. The comparison does not
test the `?` after each write. `Perform` models a failing sink as one
`write_all` that stops at the first failed byte, so the sink always holds a
prefix by construction. A dropped `?`, which would write on after a failure,
is outside the model.

The text cells' length prefix comes from the external `write_lenenc_str`.
`TextCellFraming` checks that the model of it and the NULL marker agree, but
nothing in this file can frame a cell wrongly, so no hazard of this file is
listed for it.

Every property of the passing runs has a mutant: a plausible bug in the mapped
definition that TLC catches. The mutants are listed in `PROJECT.json`.

### Fairness and liveness

None is assumed. Each call finishes in one step, so there is nothing that must
eventually happen beyond the step itself. Taking the result (`TakeResult`, and
`Finish` in the contract) is the row writer's step, outside this file, so no
fairness is assumed for it either.

## 4. Not modelled

- **Non-integral floats.** Floats are abstracted to a few integral values. The
  shortest round-trip digits Rust's `Display` prints for other values are not
  modelled. The binary image of a float is the field holding its value, not
  its IEEE bit pattern. No encoder branch depends on either.
- **The `0xFD` and `0xFE` length prefixes.** They are modelled in `LenEncInt`
  but not reached: they need strings of 64 KiB or more.
- **The row writer.** The NULL bitmap, packet framing and the caller's abort
  after an error are outside this file.

## 5. Plan

1. **Done in this sitting:** `WireFormat`, `NumericEncode`, `BytesEncode`,
   `TemporalEncode`, `ValueEncode`, the `Encoder` state machine, the main run,
   five violation runs, and the mutants.
2. **Abstract contract.** Done in sitting 2: `EncodableContract`,
   `EncoderRefinement` and the `contract` run. The original plan was to add a module `EncodableContract` stating spec §4.2
   and §6 directly: each call either writes the canonical encoding of the value
   at the column's declared type, or writes nothing and fails. Show that the
   `Value` dispatcher's integer and time paths implement it: `INSTANCE ... WITH`
   a refinement mapping from `call`/`out`/`res`, checked as a PROPERTY. The
   native integers fail it (see `native_sign_wrap`).
3. **DateTime text.** Done in sitting 2: `DateTimeTextRoundTrip`. The plan was to add a round trip for the DateTime text (parse
   `YYYY-MM-DD HH:MM:SS[.ffffff]`), including signed years and `{:04}`.
4. **Microsecond range.** The text side is done (`datetime_fraction`). The
   binary microsecond field has no bound in the spec, so it is left unchecked.
5. **32-bit target.** Done: `encoder_32bit`. The `datetime_fraction` run uses
   `ChronoLeapAnySecond = FALSE`.
6. **Sitting 3.** `write_lenenc_str` is modelled with every prefix form, and
   `TextCellFraming` is checked on 250- and 251-byte strings. Float text is
   modelled for f32, f64, `Value::Float` and `Value::Double`. The
   `Value::Int` narrowing and the Duration layout are restated as shared
   helpers (`NarrowWidth`, `DurationSplit`, `TimeLength`, `TimePayload`).
7. **Row writer.** If the row writer's source becomes available, compose it
   with `Encoder`: a row of columns into one sink, the NULL bitmap (is_null
   before to_mysql_bin), and abort after an error, with a property that no
   partial value is followed by another value.
