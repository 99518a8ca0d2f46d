---------------------------- MODULE NativeScan ------------------------------
(***************************************************************************)
(* A call of a native scanner: scan_bytes or row_offsets of the CSV        *)
(* kernel, or the planning of UTF-8 chunks.  The caller's buffer is either *)
(* bytes, which never change, or a bytearray, which another thread may     *)
(* change whenever the interpreter lock is free: between the acquisition   *)
(* of a stable input and the passes, and between the passes, which run     *)
(* without the lock.                                                       *)
(***************************************************************************)
EXTENDS Integers, SequencesExt, FiniteSetsExt

(***************************************************************************)
(* The scanners that find the logical records of a CSV source:             *)
(* scan_csv_bytes with its row anchors (scanner.py), the row offsets of    *)
(* the import (row_offsets.py), and the two passes of the native kernel    *)
(* (_csv_scan_kernel.c).                                                   *)
(*                                                                         *)
(* A source is a sequence of bytes of six kinds: the quote, the delimiter, *)
(* the escape character, LF, CR, and any other.  Offsets count from 0.     *)
(***************************************************************************)
ByteKinds == {"quote", "delimiter", "escape", "lf", "cr", "other"}

(* The dialects: is there an escape character, are quotes doubled?         *)
Dialects == [escape : BOOLEAN, doublequote : BOOLEAN]

NoChunkSize == 0

At(raw, i) == raw[i + 1]
Next1(raw, i, kind) == i + 1 < Len(raw) /\ At(raw, i + 1) = kind

-----------------------------------------------------------------------------
(* scan_csv_bytes and scan_counts, which are the same loop.  One turn of   *)
(* it, at byte s.i.                                                        *)

Counted(s, counts, width) ==
    [s EXCEPT !.i = @ + width,
              !.count = [c \in DOMAIN @ |-> @[c] + IF c \in counts THEN 1 ELSE 0]]

Escapes(raw, d, s) == d.escape /\ s.quoted /\ At(raw, s.i) = "escape" /\ s.i + 1 < Len(raw)
Doubles(raw, d, s) == s.quoted /\ d.doublequote /\ Next1(raw, s.i, "quote")

(* A record ends before offset next; the end of the source starts none.    *)
Ended(raw, s, next) ==
    IF next >= Len(raw) THEN s
    ELSE [s EXCEPT !.offsets = Append(@, next),
                   !.span = Max({@, next - s.start}),
                   !.start = next]

ScanStep(raw, d, s) ==
    LET byte == At(raw, s.i)
        crlf == byte = "cr" /\ Next1(raw, s.i, "lf")
        width == IF crlf THEN 2 ELSE 1
    IN  IF Escapes(raw, d, s) THEN Counted(s, {"escape"}, 2)
        ELSE IF byte = "quote"
        THEN IF Doubles(raw, d, s)
             THEN LET first == Counted(s, {"quote", "doubled"}, 1)
                  IN  Counted(first, {"quote"}, 1)
             ELSE [Counted(s, {"quote"}, 1) EXCEPT !.quoted = ~ @]
        ELSE IF byte = "delimiter" /\ ~ s.quoted THEN Counted(s, {"delimiter"}, 1)
        ELSE IF byte \in {"lf", "cr"}
        THEN IF s.quoted THEN Counted(s, {"quotednl"}, width)
             ELSE Ended(raw, Counted(s, {IF crlf THEN "crlf" ELSE byte}, width), s.i + width)
        ELSE Counted(s, {}, 1)

Counters ==
    {"lf", "crlf", "cr", "quotednl", "delimiter", "quote", "doubled", "escape"}

ScanStart(raw) ==
    [i |-> 0, quoted |-> FALSE, start |-> 0, span |-> 0,
     offsets |-> IF raw = << >> THEN << >> ELSE << 0 >>,
     count |-> [c \in Counters |-> 0]]

(* The state of the loop after at most k turns.                            *)
Scanned(raw, d) ==
    LET after[k \in 0 .. Len(raw)] ==
            IF k = 0 THEN ScanStart(raw)
            ELSE LET s == after[k - 1]
                 IN  IF s.i < Len(raw) THEN ScanStep(raw, d, s) ELSE s
    IN  after[Len(raw)]

-----------------------------------------------------------------------------
(* The loop of logical_record_offsets_bytes, which passes over the line    *)
(* ends of a quoted field one byte at a time.                              *)

LogicalStep(raw, d, s) ==
    LET byte == At(raw, s.i)
        width == IF byte = "cr" /\ Next1(raw, s.i, "lf") THEN 2 ELSE 1
    IN  IF Escapes(raw, d, s) THEN [s EXCEPT !.i = @ + 2]
        ELSE IF byte = "quote"
        THEN IF Doubles(raw, d, s) THEN [s EXCEPT !.i = @ + 2]
             ELSE [s EXCEPT !.i = @ + 1, !.quoted = ~ @]
        ELSE IF ~ s.quoted /\ byte \in {"lf", "cr"}
        THEN [s EXCEPT !.i = @ + width,
                       !.offsets = IF s.i + width < Len(raw)
                                   THEN Append(@, s.i + width) ELSE @]
        ELSE [s EXCEPT !.i = @ + 1]

LogicalRecordOffsets(raw, d) ==
    LET after[k \in 0 .. Len(raw)] ==
            IF k = 0 THEN [i |-> 0, quoted |-> FALSE, offsets |-> << 0 >>]
            ELSE LET s == after[k - 1]
                 IN  IF s.i < Len(raw) THEN LogicalStep(raw, d, s) ELSE s
    IN  IF raw = << >> THEN << >> ELSE after[Len(raw)].offsets

-----------------------------------------------------------------------------
(* The second pass of the kernel, fill_offsets: it writes to an array of   *)
(* the capacity the first pass found, and fails rather than overrun it.    *)

FillStep(raw, d, capacity, s) ==
    LET byte == At(raw, s.i)
        width == IF byte = "cr" /\ Next1(raw, s.i, "lf") THEN 2 ELSE 1
    IN  IF Escapes(raw, d, s) THEN [s EXCEPT !.i = @ + 2]
        ELSE IF byte = "quote"
        THEN IF Doubles(raw, d, s) THEN [s EXCEPT !.i = @ + 2]
             ELSE [s EXCEPT !.i = @ + 1, !.quoted = ~ @]
        ELSE IF byte \in {"lf", "cr"}
        THEN IF s.quoted \/ s.i + width >= Len(raw) THEN [s EXCEPT !.i = @ + width]
             ELSE IF Len(s.offsets) >= capacity THEN [s EXCEPT !.full = TRUE]
             ELSE [s EXCEPT !.i = @ + width, !.offsets = Append(@, s.i + width)]
        ELSE [s EXCEPT !.i = @ + 1]

FillOffsets(raw, d, capacity) ==
    LET after[k \in 0 .. Len(raw)] ==
            IF k = 0 THEN [i |-> 0, quoted |-> FALSE, offsets |-> << 0 >>, full |-> FALSE]
            ELSE LET s == after[k - 1]
                 IN  IF s.i < Len(raw) /\ ~ s.full
                     THEN FillStep(raw, d, capacity, s) ELSE s
    IN  after[Len(raw)]

(* csv_fill_offsets_checked: the offsets, or the invariant error.          *)
Broken == << -1 >>

FillOffsetsChecked(raw, d, rowCount) ==
    IF rowCount = 0 THEN << >>
    ELSE LET filled == FillOffsets(raw, d, rowCount)
         IN  IF filled.full \/ Len(filled.offsets) # rowCount THEN Broken
             ELSE filled.offsets

-----------------------------------------------------------------------------
(* The profiles.                                                           *)

(* _chunk_count and csv_chunk_count.                                       *)
ChunkCount(n, chunkSize) ==
    IF n = 0 THEN 0
    ELSE IF chunkSize = NoChunkSize THEN 1
    ELSE (n + chunkSize - 1) \div chunkSize

NativeChunkCount(n, chunkSize) ==
    IF n = 0 THEN 0
    ELSE IF chunkSize = NoChunkSize THEN 1
    ELSE (n \div chunkSize) + (IF n % chunkSize # 0 THEN 1 ELSE 0)

TerminalNewline(raw) == raw # << >> /\ Last(raw) \in {"lf", "cr"}

Profile(raw, counts, offsets, chunks) ==
    [size |-> Len(raw), rows |-> Len(offsets), offsets |-> offsets,
     count |-> counts.count, open |-> counts.quoted,
     span |-> IF raw = << >> THEN 0 ELSE Max({counts.span, Len(raw) - counts.start}),
     terminal |-> TerminalNewline(raw), chunks |-> chunks]

ScanCsvBytes(raw, d, chunkSize) ==
    LET s == Scanned(raw, d)
    IN  Profile(raw, s, s.offsets, ChunkCount(Len(raw), chunkSize))

(* _row_anchors_from_scan_profile: the extent and the bytes of each row.   *)
RowEnd(profile, i) ==
    IF i < Len(profile.offsets) THEN profile.offsets[i + 1] ELSE profile.size

RowSpans(profile) ==
    [i \in 1 .. Len(profile.offsets) |-> RowEnd(profile, i) - profile.offsets[i]]

RowAnchors(raw, profile) ==
    [i \in 1 .. Len(profile.offsets) |->
        SubSeq(raw, profile.offsets[i] + 1, RowEnd(profile, i))]

-----------------------------------------------------------------------------
(* What the scanners are to compute, said byte by byte: whether byte p is  *)
(* escaped, and whether it lies in a quoted field (the parity of the       *)
(* quotes before it that are not escaped).                                 *)

States(raw, d) ==
    LET at[p \in 0 .. Len(raw)] ==
            IF p = 0 THEN [quoted |-> FALSE, escaped |-> FALSE]
            ELSE LET b == At(raw, p - 1)
                     s == at[p - 1]
                 IN  [quoted |-> IF b = "quote" /\ ~ s.escaped THEN ~ s.quoted ELSE s.quoted,
                      escaped |-> d.escape /\ s.quoted /\ ~ s.escaped /\ b = "escape"]
    IN  at

Positions(raw) == 0 .. Len(raw) - 1

(* The bytes that end a record: an unquoted LF, or CR without an LF.       *)
EndsRecord(raw, states, p) ==
    /\ ~ states[p].quoted
    /\ \/ At(raw, p) = "lf"
       \/ At(raw, p) = "cr" /\ ~ Next1(raw, p, "lf")

RecordStarts(raw, d) ==
    LET states == States(raw, d)
    IN  IF raw = << >> THEN {}
        ELSE {0} \cup {p + 1 : p \in {q \in Positions(raw) :
                                          EndsRecord(raw, states, q) /\ q + 1 < Len(raw)}}

Ascending(set) == SetToSortSeq(set, LAMBDA x, y : x < y)

-----------------------------------------------------------------------------
(***************************************************************************)
(* Where a UTF-8 text is cut into chunks: the Python planner               *)
(* (native/utf8.py), the native one (_native_index.c), and the check every *)
(* plan passes before it is used.  A text is a sequence of byte values,    *)
(* bounds are the ends of the chunks, and Invalid stands for the           *)
(* UnicodeDecodeError whatever its reason and place.                       *)
(***************************************************************************)
Invalid == << -1 >>

Byte(data, position) == data[position + 1]
IsContinuation(byte) == byte \in 128 .. 191

-----------------------------------------------------------------------------
(* _sequence_length: the bytes of the code point at position, 0 for none.  *)

Continued(data, position, offset) ==
    position + offset < Len(data) /\ IsContinuation(Byte(data, position + offset))

SequenceLength(data, position) ==
    LET lead == Byte(data, position)
        all(k) == \A offset \in 1 .. k - 1 : Continued(data, position, offset)
        second == Byte(data, position + 1)
    IN  CASE lead <= 127 -> 1
          [] lead \in 194 .. 223 -> IF all(2) THEN 2 ELSE 0
          [] lead = 224 -> IF all(3) /\ second >= 160 THEN 3 ELSE 0
          [] lead \in 225 .. 236 \cup 238 .. 239 -> IF all(3) THEN 3 ELSE 0
          [] lead = 237 -> IF all(3) /\ second <= 159 THEN 3 ELSE 0
          [] lead = 240 -> IF all(4) /\ second >= 144 THEN 4 ELSE 0
          [] lead \in 241 .. 243 -> IF all(4) THEN 4 ELSE 0
          [] lead = 244 -> IF all(4) /\ second <= 143 THEN 4 ELSE 0
          [] OTHER -> 0

(* utf8_width_nogil: the width the lead byte asks for, then the checks.    *)
ExpectedWidth(lead) ==
    CASE lead <= 127 -> 1
      [] lead \in 194 .. 223 -> 2
      [] lead \in 224 .. 239 -> 3
      [] lead \in 240 .. 244 -> 4
      [] OTHER -> 0

Utf8Width(data, position) ==
    LET lead == Byte(data, position)
        expected == ExpectedWidth(lead)
    IN  IF expected <= 1 THEN expected
        ELSE IF \/ Len(data) - position < expected
                \/ \E offset \in 1 .. expected - 1 :
                       ~ IsContinuation(Byte(data, position + offset))
                \/ lead = 224 /\ Byte(data, position + 1) < 160
                \/ lead = 237 /\ Byte(data, position + 1) > 159
                \/ lead = 240 /\ Byte(data, position + 1) < 144
                \/ lead = 244 /\ Byte(data, position + 1) > 143
             THEN 0 ELSE expected

-----------------------------------------------------------------------------
(* The planners.  Both walk the code points with the start of the chunk    *)
(* being filled; the native one writes to an array as long as the text.    *)

Bound(s, position) == [s EXCEPT !.bounds = Append(@, position), !.start = position]

PlanStep(width, chunkSize, s) ==
    LET cut == IF s.position > s.start /\ s.position + width - s.start > chunkSize
               THEN Bound(s, s.position) ELSE s
        moved == [cut EXCEPT !.position = @ + width]
    IN  IF moved.position - moved.start >= chunkSize
        THEN Bound(moved, moved.position) ELSE moved

PlanStart == [position |-> 0, start |-> 0, bounds |-> << >>, ok |-> TRUE]

Utf8ChunkBoundsPython(data, chunkSize) ==
    LET after[k \in 0 .. Len(data)] ==
            IF k = 0 THEN PlanStart
            ELSE LET s == after[k - 1]
                 IN  IF s.position >= Len(data) \/ ~ s.ok THEN s
                     ELSE LET width == SequenceLength(data, s.position)
                          IN  IF width = 0 THEN [s EXCEPT !.ok = FALSE]
                              ELSE PlanStep(width, chunkSize, s)
        end == after[Len(data)]
        whole == end.bounds # << >> /\ Last(end.bounds) = Len(data)
    IN  IF ~ end.ok THEN Invalid
        ELSE IF whole \/ data = << >> THEN end.bounds
        ELSE Append(end.bounds, Len(data))

NativePlanStep(width, chunkSize, capacity, s) ==
    LET cut == IF s.position > s.start /\ width > chunkSize - (s.position - s.start)
               THEN Bound(s, s.position) ELSE s
        moved == [cut EXCEPT !.position = @ + width]
        next == IF moved.position - moved.start >= chunkSize
                THEN Bound(moved, moved.position) ELSE moved
    IN  IF Len(next.bounds) > capacity THEN [s EXCEPT !.ok = FALSE] ELSE next

Utf8PlanBounds(data, chunkSize) ==
    LET after[k \in 0 .. Len(data)] ==
            IF k = 0 THEN PlanStart
            ELSE LET s == after[k - 1]
                 IN  IF s.position >= Len(data) \/ ~ s.ok THEN s
                     ELSE LET width == Utf8Width(data, s.position)
                          IN  IF width = 0 THEN [s EXCEPT !.ok = FALSE]
                              ELSE NativePlanStep(width, chunkSize, Len(data), s)
        end == after[Len(data)]
    IN  IF ~ end.ok \/ (end.position > end.start /\ Len(end.bounds) >= Len(data))
        THEN Invalid
        ELSE IF end.position > end.start THEN Append(end.bounds, end.position)
        ELSE end.bounds

-----------------------------------------------------------------------------
(* What UTF-8 is (RFC 3629): the ranges of the bytes of one code point.    *)
(* bytes.decode, which the package leaves to Python, accepts just these.   *)

WellFormed ==
    LET tail == 128 .. 191
    IN  { << 0 .. 127 >>,
          << 194 .. 223, tail >>,
          << {224}, 160 .. 191, tail >>,
          << 225 .. 236, tail, tail >>,
          << {237}, 128 .. 159, tail >>,
          << 238 .. 239, tail, tail >>,
          << {240}, 144 .. 191, tail, tail >>,
          << 241 .. 243, tail, tail, tail >>,
          << {244}, 128 .. 143, tail, tail >> }

IsCodePoint(bytes) ==
    \E form \in WellFormed :
        Len(form) = Len(bytes) /\ \A i \in DOMAIN form : bytes[i] \in form[i]

(* The starts of the code points of data, which decodes when its end is    *)
(* among them.                                                             *)
CodePointEnds(data) ==
    LET upto[p \in 0 .. Len(data)] ==
            IF p = 0 THEN {0}
            ELSE upto[p - 1] \cup
                 IF \E q \in upto[p - 1] : IsCodePoint(SubSeq(data, q + 1, p))
                 THEN {p} ELSE {}
    IN  upto[Len(data)]

Decodes(data) == Len(data) \in CodePointEnds(data)

Chunks(data, bounds) ==
    [i \in 1 .. Len(bounds) |->
        SubSeq(data, (IF i = 1 THEN 0 ELSE bounds[i - 1]) + 1, bounds[i])]

(* _validate_bounds. *)
ValidateBounds(data, bounds, chunkSize) ==
    /\ \A i \in 1 .. Len(bounds) :
           bounds[i] > (IF i = 1 THEN 0 ELSE bounds[i - 1]) /\ bounds[i] <= Len(data)
    /\ \A i \in 1 .. Len(bounds) :
           LET chunk == Chunks(data, bounds)[i]
           IN  /\ Decodes(chunk)
               /\ Len(chunk) > chunkSize => IsCodePoint(chunk)
    /\ (IF bounds = << >> THEN 0 ELSE Last(bounds)) = Len(data)

-----------------------------------------------------------------------------
(***************************************************************************)
(* The calls.                                                              *)
(***************************************************************************)
CONSTANTS
    MaxCsv,         \* the longest CSV source
    MaxMutable,     \* the longest CSV source in a bytearray
    MaxText,        \* the longest text
    TextBytes,      \* the byte values a text is made of
    MaxChunk        \* the largest chunk size

VARIABLES
    call,           \* the call: its kind, parameters and place
    buffer,         \* the caller's buffer
    taken,          \* the content it had when the call acquired it
    input,          \* the stable input, or the exporter itself
    counts,         \* what the first pass found
    result          \* what the call returns

ScanVars == << call, buffer, taken, input, counts, result >>

NotYet == << "nothing" >>

Sources(n) == UNION {[1 .. k -> ByteKinds] : k \in 0 .. n}
ByteTexts == UNION {[1 .. k -> TextBytes] : k \in 0 .. MaxText}

ScanInit ==
    /\ \/ \E kind \in {"scan", "rows"}, d \in Dialects, chunk \in 0 .. MaxChunk :
              /\ call = [kind |-> kind, dialect |-> d, chunk |-> chunk, at |-> "call"]
              /\ \/ /\ kind = "scan" \/ chunk = 0
                    /\ buffer \in [mutable : {FALSE}, bytes : Sources(MaxCsv)]
                 \/ /\ chunk = 0
                    /\ buffer \in [mutable : {TRUE}, bytes : Sources(MaxMutable)]
       \/ \E chunk \in 1 .. MaxChunk :
              /\ call = [kind |-> "utf8", dialect |-> NotYet, chunk |-> chunk, at |-> "call"]
              /\ buffer \in [mutable : {FALSE}, bytes : ByteTexts]
    /\ taken = NotYet
    /\ input = NotYet
    /\ counts = NotYet
    /\ result = NotYet

Goto(place) == call' = [call EXCEPT !.at = place]

(* Another thread stores a byte in the bytearray.                          *)
Mutate ==
    /\ buffer.mutable
    /\ call.at \in {"count", "fill"}
    /\ buffer.bytes = taken
    /\ \E i \in DOMAIN buffer.bytes, b \in ByteKinds :
           buffer' = [buffer EXCEPT !.bytes[i] = b]
    /\ UNCHANGED << call, taken, input, counts, result >>

(* Mutant: take any buffer without copying it.                             *)
ZeroCopy(b) == [alias |-> TRUE]

(* csv_stable_input_acquire and stable_input_acquire: exact bytes are held *)
(* as they are, any other buffer is copied under the lock.                 *)
StableInput(b) == IF b.mutable THEN [alias |-> FALSE, bytes |-> b.bytes] ELSE [alias |-> TRUE]

Acquire ==
    /\ call.at = "call"
    /\ taken' = buffer.bytes
    /\ input' = StableInput(buffer)
    /\ Goto(IF call.kind = "utf8" THEN "plan" ELSE "count")
    /\ UNCHANGED << buffer, counts, result >>

Data == IF input.alias THEN buffer.bytes ELSE input.bytes

(* The first pass: scan_counts, and the allocation of the offsets. *)
CountPass ==
    /\ call.at = "count"
    /\ counts' = LET s == Scanned(Data, call.dialect)
                 IN  [count |-> s.count, quoted |-> s.quoted, span |-> s.span,
                      start |-> s.start, rows |-> Len(s.offsets)]
    /\ Goto("fill")
    /\ UNCHANGED << buffer, taken, input, result >>

(* The second pass, and the dictionary the call returns: scan_bytes gives  *)
(* the profile, row_offsets the offsets with the spans.                    *)
FillPass ==
    /\ call.at = "fill"
    /\ LET offsets == FillOffsetsChecked(Data, call.dialect, counts.rows)
           profile == Profile(Data, counts, offsets,
                              NativeChunkCount(Len(Data), call.chunk))
       IN  result' = IF offsets = Broken THEN Broken
                     ELSE IF call.kind = "scan" THEN profile
                     ELSE [offsets |-> offsets, spans |-> RowSpans(profile)]
    /\ Goto("done")
    /\ UNCHANGED << buffer, taken, input, counts >>

(* utf8_chunk_bounds with the native module. *)
PlanBounds ==
    /\ call.at = "plan"
    /\ result' = Utf8PlanBounds(Data, call.chunk)
    /\ Goto("done")
    /\ UNCHANGED << buffer, taken, input, counts >>

ScanNext ==
    \/ Mutate
    \/ Acquire
    \/ CountPass
    \/ FillPass
    \/ PlanBounds

-----------------------------------------------------------------------------
Csv == call.kind \in {"scan", "rows"}

(* The three scanners find the same records: the offsets the import stores *)
(* (row_offsets.py), those of the scan profile (scanner.py), and those the *)
(* kernel's second pass writes in an array of the length the first pass    *)
(* counted, all begin where the byte by byte reading of the source says a  *)
(* record begins.                                                          *)
OffsetsAgree ==
    Csv /\ call.at = "call" /\ call.chunk = 0 =>
        LET raw == buffer.bytes
            d == call.dialect
            starts == Ascending(RecordStarts(raw, d))
        IN  /\ LogicalRecordOffsets(raw, d) = starts
            /\ Scanned(raw, d).offsets = starts
            /\ FillOffsetsChecked(raw, d, Len(starts)) = starts

(* The counts a scan reports are those of the bytes: each line end, quote, *)
(* delimiter and escape is counted once and in its class; the largest row  *)
(* span is the largest extent of a row; and the rows laid end to end are   *)
(* the source (scan_csv_bytes, _row_anchors_from_scan_profile).            *)
ProfileTrue ==
    Csv /\ call.at = "call" /\ ~ buffer.mutable =>
        LET raw == buffer.bytes
            profile == ScanCsvBytes(raw, call.dialect, call.chunk)
            states == States(raw, call.dialect)
            number(P(_)) == Cardinality({p \in Positions(raw) : P(p)})
            is(p, kind) == At(raw, p) = kind
            after(p, kind) == p > 0 /\ At(raw, p - 1) = kind /\ ~ states[p - 1].escaped
            spans == RowSpans(profile)
            rows == RowAnchors(raw, profile)
            joined[i \in 0 .. Len(rows)] == IF i = 0 THEN << >> ELSE joined[i - 1] \o rows[i]
        IN  /\ profile.count.quote = number(LAMBDA p : is(p, "quote") /\ ~ states[p].escaped)
            /\ profile.count.delimiter =
                   number(LAMBDA p : is(p, "delimiter") /\ ~ states[p].quoted)
            /\ profile.count.escape =
                   number(LAMBDA p : p + 1 < Len(raw) /\ states[p + 1].escaped)
            /\ profile.count.quotednl =
                   number(LAMBDA p : /\ states[p].quoted /\ ~ states[p].escaped
                                     /\ \/ is(p, "cr")
                                        \/ is(p, "lf") /\ ~ after(p, "cr"))
            /\ profile.count.lf + profile.count.cr + profile.count.crlf =
                   number(LAMBDA p : EndsRecord(raw, states, p))
            /\ profile.open = states[Len(raw)].quoted
            /\ raw # << >> => profile.span = Max({spans[i] : i \in DOMAIN spans})
            /\ joined[Len(rows)] = raw
            /\ call.chunk > 0 => /\ profile.chunks * call.chunk >= Len(raw)
                                 /\ (profile.chunks - 1) * call.chunk < Len(raw)

(* What a native call returns is the Python scan of one content, the one   *)
(* its buffer had when it was taken, whatever is stored in a bytearray     *)
(* while the passes run (the safety note of _csv_scan_kernel.c).           *)
NativeScanOfOneContent ==
    Csv /\ call.at = "done" =>
        LET expected == ScanCsvBytes(taken, call.dialect, call.chunk)
        IN  result = IF call.kind = "scan" THEN expected
                     ELSE [offsets |-> expected.offsets, spans |-> RowSpans(expected)]

(* Both planners accept exactly the texts that are UTF-8, agree on the     *)
(* bounds, and cut as late as the chunk size allows, so that a chunk is    *)
(* larger only when it is one code point; the check of the bounds, which   *)
(* would turn a wrong plan into an error, passes (native/utf8.py,          *)
(* utf8_plan_bounds_nogil).                                                *)
BoundsRight ==
    call.kind = "utf8" /\ call.at = "done" =>
        LET data == taken
            bounds == Utf8ChunkBoundsPython(data, call.chunk)
            chunks == Chunks(data, bounds)
            first(chunk) == Min({k \in 1 .. Len(chunk) : IsCodePoint(SubSeq(chunk, 1, k))})
        IN  /\ result = bounds
            /\ (bounds = Invalid) = ~ Decodes(data)
            /\ bounds # Invalid =>
                   /\ ValidateBounds(data, bounds, call.chunk)
                   /\ \A i \in 1 .. Len(chunks) - 1 :
                          Len(chunks[i]) + first(chunks[i + 1]) > call.chunk

(* The native kernels and their Python counterparts give the same answer,  *)
(* and it is the right one: record offsets, counts and chunk bounds.       *)
KernelsAgree ==
    OffsetsAgree /\ ProfileTrue /\ NativeScanOfOneContent /\ BoundsRight

=============================================================================
