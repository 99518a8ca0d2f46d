---------------------------- MODULE CsvArtifacts ----------------------------
(***************************************************************************)
(* The durable artifact set of one managed CSV (csv_layer: manifest.py,    *)
(* validator.py, security.py, exporter.py, reload.py, storage_bridge.py).  *)
(*                                                                         *)
(* An import derives six artifacts from one source and writes them one by  *)
(* one, so a directory can hold artifacts of different sources.  What an   *)
(* artifact holds is determined by the source it was derived from: the     *)
(* model stores that source.  A digest is the digested value itself.       *)
(***************************************************************************)
EXTENDS Naturals, Sequences, FiniteSets

CONSTANTS
    Contents,   \* the sources: decoded text with its encoding
    NoArtifact, \* no entry under the artifact's key
    Source      \* the facts the layer computes of each source

(* rows, cols: what csv.reader counts under the detected dialect.          *)
(* offsets: the logical records the byte scanner counts.                   *)
(* lines: the newlines of the canonical export.                            *)
(* dialect: what detect_csv_dialect returns; header and confidence are its *)
(* has_header and its confidence, in ten-thousandths.                      *)
(* exact: encoding the decoded text gives the original bytes back.         *)
SourceFacts == [rows : Nat, cols : Nat, offsets : Nat, lines : Nat,
                dialect : STRING, header : BOOLEAN, confidence : 0 .. 10000,
                exact : BOOLEAN]

ASSUME ContentsAssumption ==
    /\ NoArtifact \notin Contents
    /\ \A c \in Contents : Source[c] \in SourceFacts

(* The order of the writes, of staging and of commit. *)
CoreOrder == << "raw", "dialect", "row_offsets", "content_hashes",
                "manifest", "import_report" >>

CoreNames == {"raw", "dialect", "row_offsets", "content_hashes",
              "manifest", "import_report"}

ArtifactSets == [CoreNames -> Contents \cup {NoArtifact}]

EmptySet == [n \in CoreNames |-> NoArtifact]

(* What an import of c derives. *)
BuildManifest(c) == [n \in CoreNames |-> c]

Present(s) == {n \in CoreNames : s[n] # NoArtifact}

-----------------------------------------------------------------------------
(* The checks.  Each is the set of the findings, named as in the code.  A  *)
(* check that could fail only together with another one (the size of a     *)
(* source whose digest is right) is left to that other one.                *)

Holding(findings) == {f \in DOMAIN findings : findings[f]}

(* csv.reader over the raw artifact under a dialect.  Under a dialect that *)
(* is not the source's own it counts something else.                       *)
ReaderCounts(c, dialect) ==
    IF dialect = Source[c].dialect
    THEN << Source[c].rows, Source[c].cols >>
    ELSE << Source[c].rows + 1, Source[c].cols + 1 >>

(* The digest of the raw artifact encoded as the manifest says. *)
RawDigestOk(s) == s["raw"] = s["manifest"] /\ Source[s["raw"]].exact

RawFindings(s, m) ==
    Holding([raw_artifact_not_text |-> s["raw"] = NoArtifact,
             raw_sha256_mismatch |-> ~ RawDigestOk(s)])

DialectFindings(s, m) ==
    Holding([dialect_artifact_not_json_object |-> s["dialect"] = NoArtifact,
             dialect_artifact_manifest_mismatch |->
                 /\ s["dialect"] # NoArtifact
                 /\ Source[s["dialect"]].dialect # Source[m].dialect])

(* The dialect the re-parse uses: the artifact's, or the manifest's. *)
ReparseDialect(s, m) ==
    Source[IF s["dialect"] = NoArtifact THEN m ELSE s["dialect"]].dialect

ReaderFindings(s, m) ==
    Holding([manifest_count_reader_mismatch |->
                 /\ s["raw"] # NoArtifact
                 /\ ReaderCounts(s["raw"], ReparseDialect(s, m)) #
                        << Source[m].rows, Source[m].cols >>])

(* The logical records the byte scanner finds under a dialect. *)
ScannedRows(c, dialect) ==
    IF dialect = Source[c].dialect THEN Source[c].offsets
    ELSE Source[c].offsets + 1

RowOffsetFindings(s, m) ==
    LET r == s["row_offsets"]
    IN  IF r = NoArtifact THEN {"row_offsets_artifact_not_json_object"}
        ELSE Holding([row_offsets_source_hash_mismatch |-> r # m,
                      row_offsets_source_actual_hash_mismatch |->
                          r # s["raw"] \/ ~ Source[r].exact,
                      row_offsets_row_count_mismatch |->
                          Source[r].offsets # Source[m].rows,
                      row_offsets_recompute_mismatch |->
                          \/ s["raw"] = NoArtifact
                          \/ ScannedRows(s["raw"], ReparseDialect(s, m)) #
                                 Source[r].offsets])

(* Mutant: the digest of the source is not compared. *)
ContentHashCountsOnly(s, m) ==
    Holding([content_hashes_artifact_not_json_object |->
                 s["content_hashes"] = NoArtifact])

ContentHashFindings(s, m) ==
    LET h == s["content_hashes"]
    IN  IF h = NoArtifact THEN {"content_hashes_artifact_not_json_object"}
        ELSE Holding([content_hashes_raw_sha256_mismatch |-> h # m,
                      content_hashes_row_count_mismatch |->
                          Source[h].offsets # Source[m].rows])

ImportReportFindings(s, m) ==
    LET i == s["import_report"]
    IN  IF i = NoArtifact THEN {"import_report_artifact_not_json_object"}
        ELSE Holding([import_report_raw_sha256_mismatch |-> i # m,
                      import_report_count_mismatch |->
                          \/ Source[i].rows # Source[m].rows
                          \/ Source[i].cols # Source[m].cols])

(* validate_csv_artifacts. *)
ValidateArtifacts(s) ==
    LET m == s["manifest"]
    IN  IF m = NoArtifact THEN {"manifest_unreadable"}
        ELSE UNION {RawFindings(s, m), DialectFindings(s, m),
                    ReaderFindings(s, m), RowOffsetFindings(s, m),
                    ContentHashFindings(s, m), ImportReportFindings(s, m)}

Valid(s) == ValidateArtifacts(s) = {}

RowOffsetsVerified(s) ==
    /\ s["manifest"] # NoArtifact
    /\ RowOffsetFindings(s, s["manifest"]) = {}

(* validate_csv_artifact_security: the key plan is a function of the id,   *)
(* so what can fail in a directory this code wrote is an entry that is not *)
(* there: the manifest, or a scan artifact of those asked for.             *)
ValidateSecurity(s, scanMissing) ==
    Holding([manifest_unreadable_for_security_envelope |->
                 s["manifest"] = NoArtifact,
             scan_unreadable_for_security_envelope |-> scanMissing # {}])

-----------------------------------------------------------------------------
(* Exports.  They raise when the manifest or the raw artifact is absent. *)

CanExport(s) == s["raw"] # NoArtifact /\ s["manifest"] # NoArtifact

(* prove_original_roundtrip: what the report says of the exported bytes. *)
ByteEquivalent(s) == RawDigestOk(s)

(* export_canonical_csv: the rows of the raw text under the manifest's     *)
(* dialect; as many lines as the reader finds rows.                        *)
CanonicalRows(s) ==
    ReaderCounts(s["raw"], Source[s["manifest"]].dialect)[1]

(* reload_csv_artifacts raises unless every artifact is there, and returns *)
(* the validation report with the objects.                                 *)
Reload(s) ==
    IF Present(s) = CoreNames THEN [loaded |-> s, findings |-> ValidateArtifacts(s)]
    ELSE [loaded |-> EmptySet, findings |-> {"reload_raises"}]

=============================================================================
