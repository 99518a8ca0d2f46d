--------------------------- MODULE CsvGeneration ----------------------------
(***************************************************************************)
(* CSV generations (generation/csv.py): build_csv_generation_candidate     *)
(* turns a CSV source into the payloads of one generation, and             *)
(* load_csv_generation takes a leased generation apart and verifies it.    *)
(* Both find the rows with CSVRowBoundaryOracle, which reads one byte      *)
(* after the other and keeps nothing else between two blocks than between  *)
(* two bytes.                                                              *)
(*                                                                         *)
(* A byte is "delimiter", "quote", "escape", "cr", "lf" or any other       *)
(* value.  A root (bytes_root) is the content it is the hash of; the       *)
(* packed artifacts are the records they decode to.  Offsets count from 0. *)
(*                                                                         *)
(* A candidate is stored by AtomicGenerationStore, which takes payloads    *)
(* from anyone: the generation a reader leases may be put together from    *)
(* payloads of several candidates.                                         *)
(***************************************************************************)
EXTENDS Integers, SequencesExt, FiniteSetsExt

CONSTANTS
    Requests,       \* the arguments of builds
    Again,          \* the pairs of them that two builds are made with
    MaxSourceBytes, \* CSVGenerationLimits: bytes, chunk size, chunks, rows
    MaxChunkBytes,
    MaxChunks,
    MaxRows,
    MaxPayloads     \* GenerationLimits.max_payloads

VARIABLES
    work,           \* what is being done: idle, build, load, and the request
    oracle,         \* the CSVRowBoundaryOracle at work
    built,          \* the candidates built, in order
    lease,          \* the generation the reader opened last
    pinned,         \* is it pinned?
    view            \* and what load_csv_generation made of it

GenerationVars == << work, oracle, built, lease, pinned, view >>

Refused == [refused |-> TRUE]
NoLease == [closed |-> TRUE]
NotLoaded == [loaded |-> FALSE]

-----------------------------------------------------------------------------
(* CSVRowBoundaryOracle.  bad: an exception has left feed or finalize.     *)

FreshOracle ==
    [position |-> 0, rowOpen |-> FALSE, offsets |-> << >>, inQuotes |-> FALSE,
     pendingQuote |-> FALSE, pendingEscape |-> FALSE, pendingCr |-> FALSE,
     fieldStart |-> TRUE, afterQuote |-> FALSE, bad |-> FALSE]

OpenRow(o, start) ==
    IF o.rowOpen THEN o
    ELSE [o EXCEPT !.rowOpen = TRUE, !.offsets = Append(@, start)]

FinishRow(o) ==
    IF o.rowOpen
    THEN [o EXCEPT !.rowOpen = FALSE, !.fieldStart = TRUE, !.afterQuote = FALSE]
    ELSE [o EXCEPT !.bad = TRUE]

OutsideAfterClosedQuote(o, byte) ==
    CASE byte = "delimiter" -> [o EXCEPT !.afterQuote = FALSE, !.fieldStart = TRUE]
      [] byte = "cr"        -> [o EXCEPT !.pendingCr = TRUE]
      [] byte = "lf"        -> FinishRow(o)
      [] OTHER              -> [o EXCEPT !.bad = TRUE]

Outside(o, byte) ==
    IF o.afterQuote THEN OutsideAfterClosedQuote(o, byte)
    ELSE CASE o.fieldStart /\ byte = "quote" ->
                  [o EXCEPT !.inQuotes = TRUE, !.fieldStart = FALSE]
           [] byte = "delimiter" -> [o EXCEPT !.fieldStart = TRUE]
           [] byte = "cr"        -> [o EXCEPT !.pendingCr = TRUE]
           [] byte = "lf"        -> FinishRow(o)
           [] OTHER              -> [o EXCEPT !.fieldStart = FALSE]

CloseQuote(o) == [o EXCEPT !.pendingQuote = FALSE, !.inQuotes = FALSE, !.afterQuote = TRUE]

InQuotes(o, byte, d) ==
    IF o.pendingEscape THEN [o EXCEPT !.pendingEscape = FALSE]
    ELSE IF o.pendingQuote
    THEN IF d.doublequote /\ byte = "quote" THEN [o EXCEPT !.pendingQuote = FALSE]
         ELSE OutsideAfterClosedQuote(CloseQuote(o), byte)
    ELSE IF d.escape /\ byte = "escape" THEN [o EXCEPT !.pendingEscape = TRUE]
    ELSE IF byte # "quote" THEN o
    ELSE IF d.doublequote THEN [o EXCEPT !.pendingQuote = TRUE]
    ELSE CloseQuote(o)

(* One turn of the loop of feed. *)
FeedByte(o, byte, d) ==
    LET ended == IF o.pendingCr THEN FinishRow([o EXCEPT !.pendingCr = FALSE]) ELSE o
        next  == [ended EXCEPT !.position = @ + 1]
        open  == OpenRow(next, o.position)
    IN  IF next.bad \/ (o.pendingCr /\ byte = "lf") THEN next
        ELSE IF open.inQuotes THEN InQuotes(open, byte, d)
        ELSE Outside(open, byte)

Finalize(o) ==
    LET closed == IF o.pendingQuote THEN CloseQuote(o) ELSE o
    IN  IF o.pendingEscape \/ closed.inQuotes THEN [closed EXCEPT !.bad = TRUE]
        ELSE IF closed.pendingCr \/ closed.rowOpen
        THEN FinishRow([closed EXCEPT !.pendingCr = FALSE])
        ELSE closed

-----------------------------------------------------------------------------
(* The packed artifacts.  Packing checks what it packs; decoding packs     *)
(* again, so it accepts exactly what packing makes.                        *)

OffsetsPack(a) ==
    /\ \A i \in 1 .. Len(a.offsets) - 1 : a.offsets[i] < a.offsets[i + 1]
    /\ IF a.offsets = << >> THEN a.size = 0
       ELSE Head(a.offsets) = 0 /\ Last(a.offsets) < a.size

PackRowOffsets(source, offsets) ==
    [size |-> Len(source), root |-> source, offsets |-> offsets]

(* _select_anchor_indices: all rows, or limit of them spread evenly from   *)
(* the first to the last.                                                  *)
SelectAnchorIndices(rows, limit) ==
    LET count == Min({rows, limit})
    IN  [i \in 1 .. count |->
            IF count = rows THEN i - 1
            ELSE IF count = 1 THEN 0
            ELSE ((i - 1) * (rows - 1)) \div (count - 1)]

BuildRowAnchors(source, offsets, limit) ==
    LET indices == SelectAnchorIndices(Len(offsets), limit)
        start(row) == offsets[row + 1]
        end(row) == IF row + 1 < Len(offsets) THEN offsets[row + 2] ELSE Len(source)
    IN  [i \in DOMAIN indices |->
            [row |-> indices[i], start |-> start(indices[i]), end |-> end(indices[i]),
             root |-> SubSeq(source, start(indices[i]) + 1, end(indices[i]))]]

AnchorsPack(a) ==
    /\ a.rows > 0 => a.anchors # << >>
    /\ Len(a.anchors) <= a.rows
    /\ a.rows = 0 => a.size = 0
    /\ \A i \in DOMAIN a.anchors :
           /\ a.anchors[i].start < a.anchors[i].end
           /\ a.anchors[i].row < a.rows
           /\ a.anchors[i].end <= a.size
           /\ i > 1 => /\ a.anchors[i - 1].row < a.anchors[i].row
                       /\ a.anchors[i - 1].start < a.anchors[i].start

PackRowAnchors(source, offsets, anchors) ==
    [rows |-> Len(offsets), size |-> Len(source), root |-> source,
     offsetsRoot |-> PackRowOffsets(source, offsets), anchors |-> anchors]

(* _build_chunks.  A payload csv.chunk.n is named by its ordinal. *)
ChunkCount(size, width) == (size + width - 1) \div width

BuildChunks(source, width) ==
    [size |-> Len(source), root |-> source, width |-> width,
     chunks |-> [n \in 1 .. ChunkCount(Len(source), width) |->
        LET start == (n - 1) * width
            end == Min({start + width, Len(source)})
        IN  [name |-> n, start |-> start, end |-> end,
             root |-> SubSeq(source, start + 1, end)]]]

(* CSVChunkIndex.__post_init__ *)
ChunksCanonical(index) ==
    LET chunk == index.chunks
        total == Len(chunk)
    IN  /\ \A n \in 1 .. total :
               /\ chunk[n].name = n
               /\ chunk[n].start < chunk[n].end
               /\ chunk[n].start = IF n = 1 THEN 0 ELSE chunk[n - 1].end
               /\ chunk[n].end - chunk[n].start <= index.width
               /\ n < total => chunk[n].end - chunk[n].start = index.width
        /\ index.size = IF total = 0 THEN 0 ELSE chunk[total].end

-----------------------------------------------------------------------------
(* CSVGenerationBinding, and the candidate of a request whose rows start   *)
(* at offsets.                                                             *)

BindingCanonical(b) ==
    /\ b.chunkCount = ChunkCount(b.size, b.width)
    /\ (b.size = 0) = (b.rows = 0)
    /\ b.anchorCount = Min({b.rows, b.anchorLimit})

QualificationRoots(b) ==
    [binding |-> b, chunks |-> b.chunks, closure |-> b.closure, dialect |-> b.dialect,
     evidence |-> b.evidence, parser |-> b.parser, anchors |-> b.anchors,
     offsets |-> b.offsets, source |-> b.source]

ReferenceParser == "tds-csv-byte-row-oracle-v1"
Consumer == "tds-csv-generation-binding-v1"

Candidate(r, offsets) ==
    LET source == r.source
        index == BuildChunks(source, r.width)
        rows == PackRowOffsets(source, offsets)
        anchors == BuildRowAnchors(source, offsets, r.anchorLimit)
        sample == PackRowAnchors(source, offsets, anchors)
        binding == [namespace |-> r.namespace, parent |-> r.parent,
                    source |-> source, size |-> Len(source),
                    chunks |-> index, chunkCount |-> Len(index.chunks), width |-> r.width,
                    parser |-> ReferenceParser, dialect |-> r.dialect,
                    offsets |-> rows, rows |-> Len(offsets),
                    anchors |-> sample, anchorCount |-> Len(anchors),
                    anchorLimit |-> r.anchorLimit,
                    closure |-> r.closure, evidence |-> r.evidence]
    IN  [namespace |-> r.namespace, parent |-> r.parent,
         source |-> source, binding |-> binding, chunks |-> index,
         parser |-> ReferenceParser, dialect |-> r.dialect, offsets |-> rows,
         anchors |-> sample,
         chunk |-> [n \in DOMAIN index.chunks |-> index.chunks[n].root],
         authoritative |-> {"source"},
         qualifications |-> QualificationRoots(binding),
         consumer |-> Consumer]

(* What build_csv_generation_candidate refuses on its arguments alone, ... *)
FixedPayloads == 7

RequestBounded(r) ==
    /\ r.width <= MaxChunkBytes
    /\ Len(r.source) <= MaxSourceBytes
    /\ ChunkCount(Len(r.source), r.width) <= MaxChunks
    /\ ChunkCount(Len(r.source), r.width) + FixedPayloads <= MaxPayloads

(* ... and once it has the rows: the constructors check what they are      *)
(* given.                                                                  *)
CandidateBuilds(r, o) ==
    LET c == Candidate(r, o.offsets)
    IN  /\ ~ o.bad
        /\ o.position = Len(r.source)
        /\ Len(o.offsets) <= MaxRows
        /\ ChunksCanonical(c.chunks)
        /\ OffsetsPack(c.offsets)
        /\ AnchorsPack(c.anchors)
        /\ BindingCanonical(c.binding)

-----------------------------------------------------------------------------
(* load_csv_generation, up to the oracle.  The lease yields what the       *)
(* manifest names; a from_bytes accepts what the constructor would make.   *)

(* The payload roots of the manifest are those the binding names. *)
PayloadRootsBound(m) ==
    LET b == m.binding
    IN  /\ m.source = b.source
        /\ m.chunks = b.chunks
        /\ m.parser = b.parser
        /\ m.dialect = b.dialect
        /\ m.offsets = b.offsets
        /\ m.anchors = b.anchors

LineageBound(m) ==
    /\ m.binding.namespace = m.namespace
    /\ m.binding.parent = m.parent

ChunksBound(m) ==
    LET b == m.binding
        index == m.chunks
    IN  /\ ChunksCanonical(index)
        /\ index.root = b.source
        /\ index.size = b.size
        /\ index.width = b.width
        /\ Len(index.chunks) = b.chunkCount
        /\ DOMAIN m.chunk = {index.chunks[n].name : n \in DOMAIN index.chunks}
        /\ \A n \in DOMAIN index.chunks :
               m.chunk[index.chunks[n].name] = index.chunks[n].root

ChunksReconstruct(m) ==
    /\ Len(m.source) = m.binding.size
    /\ \A n \in DOMAIN m.chunks.chunks :
           LET c == m.chunks.chunks[n]
           IN  /\ Len(m.chunk[c.name]) = c.end - c.start
               /\ SubSeq(m.source, c.start + 1, c.end) = m.chunk[c.name]

RowsBound(m) ==
    LET b == m.binding
    IN  /\ OffsetsPack(m.offsets)
        /\ Len(m.offsets.offsets) = b.rows
        /\ m.offsets.size = b.size
        /\ m.offsets.root = b.source
        /\ AnchorsPack(m.anchors)
        /\ m.anchors.rows = b.rows
        /\ m.anchors.size = b.size
        /\ m.anchors.root = b.source
        /\ m.anchors.offsetsRoot = b.offsets
        /\ Len(m.anchors.anchors) = b.anchorCount

(* Mutant: the qualifications of the manifest are not compared. *)
LoadUnqualified(m) ==
    /\ m.authoritative = {"source"}
    /\ BindingCanonical(m.binding)
    /\ LineageBound(m)
    /\ PayloadRootsBound(m)
    /\ m.consumer = Consumer
    /\ m.parser = ReferenceParser
    /\ ChunksBound(m)
    /\ ChunksReconstruct(m)
    /\ RowsBound(m)

LoadAdmits(m) ==
    /\ m.authoritative = {"source"}
    /\ BindingCanonical(m.binding)
    /\ LineageBound(m)
    /\ PayloadRootsBound(m)
    /\ m.qualifications = QualificationRoots(m.binding)
    /\ m.consumer = Consumer
    /\ m.parser = ReferenceParser
    /\ ChunksBound(m)
    /\ ChunksReconstruct(m)
    /\ RowsBound(m)

(* After the oracle: the stored rows are the oracle's, the anchors theirs. *)
LoadVerifies(m, o) ==
    /\ ~ o.bad
    /\ o.offsets = m.offsets.offsets
    /\ m.anchors.anchors =
           BuildRowAnchors(m.source, m.offsets.offsets, m.binding.anchorLimit)

-----------------------------------------------------------------------------
GenerationInit ==
    /\ work = [at |-> "idle"]
    /\ oracle = FreshOracle
    /\ built = << >>
    /\ lease = NoLease
    /\ pinned = FALSE
    /\ view = NotLoaded

(* The loop that feeds the source to the oracle, in either operation. *)
Reads(source, d) ==
    /\ oracle.position < Len(source)
    /\ ~ oracle.bad
    /\ oracle' = FeedByte(oracle, source[oracle.position + 1], d)

HasRead(source) == oracle.position = Len(source) \/ oracle.bad

AtRest == work' = [at |-> "idle"] /\ oracle' = FreshOracle

BuildBegin ==
    /\ work.at = "idle"
    /\ Len(built) < 2
    /\ \E r \in IF built = << >> THEN Requests
                ELSE {pair[2] : pair \in {p \in Again : p[1] = built[1].request}} :
           /\ RequestBounded(r)
           /\ work' = [at |-> "build", request |-> r]
    /\ oracle' = FreshOracle
    /\ UNCHANGED << built, lease, pinned, view >>

BuildFeed ==
    /\ work.at = "build"
    /\ Reads(work.request.source, work.request.dialect)
    /\ UNCHANGED << work, built, lease, pinned, view >>

BuildEnd ==
    /\ work.at = "build"
    /\ HasRead(work.request.source)
    /\ LET r == work.request
           o == Finalize(oracle)
           generation == IF CandidateBuilds(r, o) THEN Candidate(r, o.offsets) ELSE Refused
       IN  built' = Append(built, [request |-> r, generation |-> generation])
    /\ AtRest
    /\ UNCHANGED << lease, pinned, view >>

(* The generations that can be put together from the candidates: their     *)
(* payloads, one by one, in any combination.                               *)
Candidates == {built[i].generation : i \in DOMAIN built} \ {Refused}

Fields == {"namespace", "parent", "source", "binding", "chunks", "dialect", "offsets", "anchors",
           "chunk", "qualifications"}

Mixed(a, b) == {[f \in DOMAIN a |-> IF f \in mixed THEN b[f] ELSE a[f]] :
                   mixed \in SUBSET {f \in Fields : a[f] # b[f]}}

Mixtures == UNION {Mixed(a, b) : a \in Candidates, b \in Candidates}

(* open_csv_generation: the store pins the generation, then it is loaded;  *)
(* a lease that does not load is closed.                                   *)
OpenBegin ==
    /\ work.at = "idle"
    /\ lease = NoLease
    /\ \E m \in Mixtures :
           /\ lease' = m
           /\ pinned' = LoadAdmits(m)
           /\ work' = IF LoadAdmits(m) THEN [at |-> "load"] ELSE work
           /\ view' = IF LoadAdmits(m) THEN NotLoaded ELSE Refused
    /\ oracle' = FreshOracle
    /\ UNCHANGED built

OpenFeed ==
    /\ work.at = "load"
    /\ Reads(lease.source, lease.dialect)
    /\ UNCHANGED << work, built, lease, pinned, view >>

OpenEnd ==
    /\ work.at = "load"
    /\ HasRead(lease.source)
    /\ pinned' = LoadVerifies(lease, Finalize(oracle))
    /\ view' = IF pinned'
               THEN [loaded |-> TRUE, source |-> lease.source,
                     offsets |-> lease.offsets.offsets, anchors |-> lease.anchors.anchors]
               ELSE Refused
    /\ AtRest
    /\ UNCHANGED << built, lease >>

(* The reader forgets a generation: CSVGenerationLease.close, or the       *)
(* exception of an open that failed.                                       *)
CloseLease ==
    /\ work.at = "idle"
    /\ lease # NoLease
    /\ lease' = NoLease
    /\ pinned' = FALSE
    /\ view' = NotLoaded
    /\ UNCHANGED << work, oracle, built >>

GenerationNext ==
    \/ BuildBegin \/ BuildFeed \/ BuildEnd
    \/ OpenBegin \/ OpenFeed \/ OpenEnd \/ CloseLease

-----------------------------------------------------------------------------
(* The rows of a source, read with lookahead: a quoted field ends at its   *)
(* first quote that is neither escaped nor doubled, any other field at the *)
(* next delimiter or line end, and a row at its line end.                  *)

Wrong == -1
AtEnd(s, i) == i > Len(s)
LineEnd(s, i) == ~ AtEnd(s, i) /\ s[i] \in {"cr", "lf"}
FieldEnds(s, i) == AtEnd(s, i) \/ LineEnd(s, i) \/ s[i] = "delimiter"

(* Where the field that starts at byte i ends. *)
FieldEnd(s, d, i) ==
    LET close[j \in 1 .. Len(s) + 2] ==
            CASE AtEnd(s, j) -> Wrong
              [] ~ AtEnd(s, j) /\ d.escape /\ s[j] = "escape" -> close[j + 2]
              [] ~ AtEnd(s, j) /\ s[j] = "quote" ->
                     IF d.doublequote /\ ~ AtEnd(s, j + 1) /\ s[j + 1] = "quote"
                     THEN close[j + 2] ELSE j
              [] OTHER -> close[j + 1]
        after == close[i + 1] + 1
    IN  IF AtEnd(s, i) \/ s[i] # "quote"
        THEN Min({j \in i .. Len(s) + 1 : FieldEnds(s, j)})
        ELSE IF after > 0 /\ FieldEnds(s, after) THEN after
        ELSE Wrong

Rows(s, d) ==
    LET width(i) == IF s[i] = "cr" /\ ~ AtEnd(s, i + 1) /\ s[i + 1] = "lf" THEN 2 ELSE 1
        rest[i \in 1 .. Len(s) + 1] ==    \* the rows that start after field i
            LET end == FieldEnd(s, d, i)
                next == end + width(end)
            IN  IF end = Wrong THEN << Wrong >>
                ELSE IF AtEnd(s, end) THEN << >>
                ELSE IF ~ LineEnd(s, end) THEN rest[end + 1]
                ELSE IF AtEnd(s, next) THEN << >>
                ELSE << next - 1 >> \o rest[next]
    IN  IF s = << >> THEN << >> ELSE << 0 >> \o rest[1]

(* The reading is a partition of the source: a build succeeds exactly on   *)
(* the sources the dialect can read, within the limit on rows, and stores  *)
(* the rows the reading with lookahead finds; packing never refuses what   *)
(* the oracle found (CSVRowBoundaryOracle, pack_row_offsets,               *)
(* pack_row_anchors, CSVGenerationBinding).                                *)
BuildsReadTheSource ==
    \A i \in DOMAIN built :
        LET r == built[i].request
            rows == Rows(r.source, r.dialect)
            readable == ~ Contains(rows, Wrong) /\ Len(rows) <= MaxRows
        IN  built[i].generation = IF readable THEN Candidate(r, rows) ELSE Refused

(* A generation put together from payloads of different builds is never    *)
(* loaded, and one whose payloads are all of one build always is           *)
(* (load_csv_generation); the pin is kept exactly when a view is given     *)
(* out (CSVGenerationLease).                                               *)
LoadsWholeBuilds ==
    /\ pinned = (work.at = "load" \/ ("loaded" \in DOMAIN view /\ view.loaded))
    /\ lease # NoLease /\ work.at = "idle" =>
           IF lease \in Candidates
           THEN view = [loaded |-> TRUE, source |-> lease.source,
                        offsets |-> Rows(lease.source, lease.dialect),
                        anchors |-> lease.anchors.anchors]
           ELSE view = Refused

(* What a generation holds is one build of its source, and what a reader   *)
(* is given of it is that build.                                           *)
GenerationsAreBuilds == BuildsReadTheSource /\ LoadsWholeBuilds

=============================================================================
