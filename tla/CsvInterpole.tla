---------------------------- MODULE CsvInterpole ----------------------------
(***************************************************************************)
(* The Interpole reports (interpole.py): a timeline of six stages over the *)
(* artifacts, the native storage commit and its revalidation; a vector of  *)
(* fifteen determinant signals measured from the stages; a ring with one   *)
(* node per stage, and a mirror comparison of the stored vector with a     *)
(* fresh one.  Floats are whole ten-thousandths here, rounded down.        *)
(***************************************************************************)
EXTENDS CsvStorageBridge, Integers

Unit == 10000

(* _clamp01 and _ratio. *)
Clamp(x) == IF x < 0 THEN 0 ELSE IF x > Unit THEN Unit ELSE x

Ratio(num, den, empty) == IF den <= 0 THEN empty ELSE Clamp((num * Unit) \div den)

Total(f) == FoldFunction(LAMBDA x, y : x + y, 0, f)

(* _average. *)
Average(f) ==
    IF DOMAIN f = {} THEN 0 ELSE Clamp(Total(f) \div Cardinality(DOMAIN f))

-----------------------------------------------------------------------------
(* The timeline. *)

StageOrder == << "evidence_baseline", "structure_baseline",
                 "canonical_export_baseline", "native_storage_commit_baseline",
                 "native_revalidation_baseline", "ir_readiness_baseline" >>

(* CSVInterpoleStage with its CSVInterpoleSignature: the hashes and the    *)
(* metrics it was taken from.  A hash that an earlier stage has is left    *)
(* out of the later one.                                                   *)
Stage(status, hashes, metrics) ==
    [status |-> status, hashes |-> hashes, metrics |-> metrics]

CanonicalLines(s) ==
    IF Source[s["raw"]].dialect = Source[s["manifest"]].dialect
    THEN Source[s["raw"]].lines ELSE Source[s["raw"]].lines + 1

(* The three stages over the artifacts; valid is the verdict of            *)
(* validate_csv_artifacts.                                                 *)
ArtifactStages(d, valid) ==
    LET m == d.art["manifest"]
    IN  [evidence_baseline |->
             Stage("ready", m, [rows |-> Source[m].rows, cols |-> Source[m].cols,
                                header |-> Source[m].header, artifacts |-> 6]),
         structure_baseline |->
             Stage(IF valid THEN "ready" ELSE "blocked",
                   << d.art["row_offsets"], d.art["content_hashes"],
                      Digest("dialect", d.art["dialect"]) >>,
                   [rows |-> Source[m].rows,
                    offsets |-> Source[d.art["row_offsets"]].offsets,
                    confidence |-> Source[m].confidence, valid |-> valid]),
         canonical_export_baseline |->
             Stage("ready", << m, d.art["raw"] >>,
                   [lines |-> CanonicalLines(Core(d)), materialized |-> FALSE])]

(* The three stages over the storage reports; clean says that the stored   *)
(* revalidation is clean and validates.                                    *)
StorageStages(d, valid, reval, clean) ==
    LET n == d.native.entries
        r == d.reval.fingerprint.entries
        wrote == CountOf(n, {"committed"})
    IN  [native_storage_commit_baseline |->
             Stage(IF d.native.status = "native_storage_committed" THEN "ready"
                   ELSE "blocked", d.native.tx,
                   [entries |-> Cardinality(DOMAIN n), committed |-> wrote,
                    writes |-> wrote, skipped |-> CountOf(n, {"skipped_optional"})]),
         native_revalidation_baseline |->
             Stage(IF clean /\ d.reval.errors = {} THEN "ready" ELSE "drifted",
                   d.reval.fingerprint,
                   [status |-> reval.status, stored |-> d.reval.status,
                    entries |-> Cardinality(DOMAIN r),
                    verified |-> CountOf(r, {"verified"}),
                    drift |-> CountOf(r, {"source_drift", "storage_drift", "proof_drift"}),
                    skipped |-> CountOf(r, {"skipped_optional"})]),
         ir_readiness_baseline |->
             Stage(IF valid /\ clean THEN "ready" ELSE "blocked",
                   d.art["manifest"],
                   [ready |-> valid /\ clean])]

(* CSVInterpoleTimelineReport; its fingerprint is over the stages. *)
TimelineReport(status, stages, errors) ==
    [status |-> status, stages |-> stages, errors |-> errors]

InvalidTimeline(error) == TimelineReport("invalid", << >>, {error})

(* The source_revalidation_fingerprint of a report. *)
SourceRevalidation(stages) ==
    IF DOMAIN stages = {} THEN NoArtifact
    ELSE stages["native_revalidation_baseline"].hashes

Timelined(d, reval, stages) ==
    LET errors == UNION {ValidateArtifacts(Core(d)), reval.errors,
            Holding([stored_revalidation_not_clean |->
                         d.reval.status \notin {"revalidated", "valid"},
                     stored_revalidation_fingerprint_mismatch |->
                         d.reval.fingerprint # reval.fingerprint,
                     interpole_stage |-> \E s \in DOMAIN stages :
                         stages[s].status # "ready"])}
    IN  TimelineReport(IF errors = {} THEN "interpole_ready" ELSE "drifted",
                       stages, errors)

(* prepare_csv_interpole_timeline; reval is ValidateRevalidation. *)
PrepareTimeline(d, reval) ==
    IF d.reval = NoArtifact
    THEN InvalidTimeline("native_storage_revalidation_report_unreadable")
    ELSE IF d.native = NoArtifact
    THEN InvalidTimeline("native_storage_commit_report_unreadable")
    ELSE IF Missing(d, CoreNames \ {"import_report"}) # {}
    THEN InvalidTimeline("interpole_stage_build_failed")
    ELSE LET valid == Valid(Core(d))
             clean == /\ reval.errors = {}
                      /\ d.reval.status \in {"revalidated", "valid"}
         IN  Timelined(d, reval, ArtifactStages(d, valid) @@
                                     StorageStages(d, valid, reval, clean))

CommittedTimeline(prepared) == [prepared EXCEPT !.status = "timeline_committed"]

(* validate_csv_interpole_timeline. *)
ValidateTimeline(d, fresh) ==
    IF d.timeline = NoArtifact
    THEN InvalidTimeline("interpole_timeline_report_unreadable")
    ELSE LET t == d.timeline
             errors == fresh.errors \cup
                 Holding([stored_interpole_timeline_not_committed |->
                              t.status \notin {"timeline_committed", "valid"},
                          interpole_timeline_fingerprint_drift |->
                              t.stages # fresh.stages,
                          interpole_source_revalidation_fingerprint_drift |->
                              SourceRevalidation(t.stages) #
                                  SourceRevalidation(fresh.stages)])
         IN  Validated(fresh, errors)

-----------------------------------------------------------------------------
(* The determinant vector. *)

(* _direction_for_magnitude. *)
Direction(m) == IF m >= 8750 THEN "strengthening" ELSE IF m >= 5000 THEN "stable"
                ELSE IF m > 0 THEN "weakening" ELSE "blocked"

(* CSVInterpoleDeterminantSignal with a direction of its own, and _signal. *)
SignalWith(stage, magnitude, confidence, weight, direction) ==
    [stage |-> stage, magnitude |-> Clamp(magnitude), confidence |-> confidence,
     weight |-> weight, direction |-> direction]

Signal(stage, magnitude, confidence, weight) ==
    SignalWith(stage, magnitude, confidence, weight, Direction(Clamp(magnitude)))

Full(holds) == IF holds THEN Unit ELSE 0

EvidenceSignals(m) ==
    LET density == m.rows * (IF m.cols = 0 THEN 1 ELSE m.cols)
        s == "evidence_baseline"
    IN  [artifact_shape_pressure |-> Signal(s, Full(m.artifacts = 6), Unit, 10000),
         evidence_volume_pressure |->
             SignalWith(s, Ratio(density, 1024, 0),
                        IF m.rows > 0 /\ m.cols > 0 THEN Unit ELSE 5000, 4500,
                        IF density > 0 THEN "stable" ELSE "blocked"),
         header_observation_pressure |->
             SignalWith(s, Full(m.header), 7500, 3500,
                        IF m.header THEN "stable" ELSE "neutral")]

StructureSignals(m) ==
    LET s == "structure_baseline"
    IN  [row_offset_alignment |-> Signal(s, Ratio(m.offsets, m.rows, 0), Unit, 10000),
         dialect_confidence_pressure |-> Signal(s, m.confidence, 9000, 8000),
         artifact_validation_pressure |-> Signal(s, Full(m.valid), Unit, 10000)]

CanonicalSignals(m, evidence) ==
    LET s == "canonical_export_baseline"
        expected == evidence.rows + (IF evidence.header THEN 1 ELSE 0)
    IN  [canonical_line_alignment |-> Signal(s, Ratio(m.lines, expected, 0), Unit, 8500),
         canonical_boundary_pressure |-> Signal(s, Full(~ m.materialized), 9000, 5000)]

NativeSignals(m) ==
    LET s == "native_storage_commit_baseline"
    IN  [native_commit_completion |->
             Signal(s, Ratio(m.committed, m.entries, 0), Unit, 10000),
         native_write_boundary_alignment |->
             Signal(s, Ratio(m.writes, m.committed, Unit), 9000, 6500)]

RevalidationSignals(m, status) ==
    LET s == "native_revalidation_baseline"
        n == IF m.entries = 0 THEN 1 ELSE m.entries
    IN  [native_revalidation_completion |->
             Signal(s, Ratio(m.verified, m.entries, 0), Unit, 10000),
         drift_absence_pressure |->
             Signal(s, IF status = "drifted" THEN 0
                       ELSE Unit - Ratio(m.drift, n, 0), Unit, 10000),
         optional_scan_skip_pressure |->
             SignalWith(s, Unit, 8000, 2500,
                        IF m.skipped > 0 THEN "neutral" ELSE "stable")]

ReadinessSignals(m) ==
    LET s == "ir_readiness_baseline"
    IN  [future_determinant_readiness |-> Signal(s, Full(m.ready), Unit, 10000),
         semantic_neutrality_lock |-> Signal(s, Unit, Unit, 10000)]

(* _build_determinant_signals. *)
DeterminantSignals(stages) ==
    IF stages = NoArtifact \/ DOMAIN stages = {} THEN << >>
    ELSE LET M(s) == stages[s].metrics
         IN  EvidenceSignals(M("evidence_baseline")) @@
             StructureSignals(M("structure_baseline")) @@
             CanonicalSignals(M("canonical_export_baseline"),
                              M("evidence_baseline")) @@
             NativeSignals(M("native_storage_commit_baseline")) @@
             RevalidationSignals(M("native_revalidation_baseline"),
                                 stages["native_revalidation_baseline"].status) @@
             ReadinessSignals(M("ir_readiness_baseline"))

Weighted(signal) == (signal.magnitude * signal.weight) \div Unit

(* _determinant_vector, with the ok of CSVInterpoleDeterminantVector.  Its *)
(* fingerprint is over the timeline and the signals measured from it; the  *)
(* vector of an invalid report has none.                                   *)
VectorOf(stages, signals) ==
    LET names == DOMAIN signals
        confidence == Average([n \in names |-> signals[n].confidence])
        weighted == Average([n \in names |-> Weighted(signals[n])])
        high == Average([n \in names |-> Full(signals[n].magnitude >= 8750)])
        gate == names \cap {"future_determinant_readiness",
                            "semantic_neutrality_lock", "drift_absence_pressure"}
    IN  [signals |-> signals, fingerprint |-> stages,
         stability |-> Clamp((weighted * 65 + confidence * 20 + high * 15) \div 100),
         readiness |-> Average([n \in gate |-> signals[n].magnitude]),
         ok |-> /\ names # {}
                /\ \A n \in names : signals[n].direction # "blocked"]

DeterminantVector(stages) == VectorOf(stages, DeterminantSignals(stages))

(* CSVInterpoleDeterminantVectorReport.  The vector is a function of the   *)
(* stages, so a report keeps those: they stand for the fingerprint of the  *)
(* vector and for the one of its source timeline.                          *)
VectorReport(status, stages, errors) ==
    [status |-> status, stages |-> stages, errors |-> errors]

InvalidVector(error) == VectorReport("invalid", NoArtifact, {error})

(* prepare_csv_interpole_determinant_vector; timeline is ValidateTimeline. *)
PrepareVector(d, timeline) ==
    IF d.timeline = NoArtifact
    THEN InvalidVector("interpole_timeline_report_unreadable")
    ELSE LET errors == timeline.errors \cup
                 Holding([stored_interpole_timeline_not_committed |->
                              d.timeline.status \notin {"timeline_committed", "valid"},
                          stored_interpole_timeline_fingerprint_mismatch |->
                              d.timeline.stages # timeline.stages,
                          interpole_determinant_vector_not_clean |->
                              ~ DeterminantVector(timeline.stages).ok])
         IN  VectorReport(IF errors = {} THEN "determinants_ready" ELSE "drifted",
                          timeline.stages, errors)

CommittedVector(prepared) == [prepared EXCEPT !.status = "determinants_committed"]

(* validate_csv_interpole_determinant_vector. *)
ValidateVector(d, fresh) ==
    IF d.vector = NoArtifact
    THEN InvalidVector("interpole_determinant_vector_report_unreadable")
    ELSE LET errors == fresh.errors \cup
                 Holding([stored_interpole_determinant_vector_not_committed |->
                              d.vector.status \notin {"determinants_committed", "valid"},
                          interpole_determinant_vector_fingerprint_drift |->
                              d.vector.stages # fresh.stages])
         IN  Validated(fresh, errors)

-----------------------------------------------------------------------------
(* The ring and its mirror. *)

(* _signal_metrics. *)
SignalMetrics(signals) ==
    LET names == DOMAIN signals
        magnitude == Average([n \in names |-> signals[n].magnitude])
    IN  [magnitude |-> magnitude,
         drift |-> IF "drift_absence_pressure" \in names
                   THEN Unit - signals["drift_absence_pressure"].magnitude ELSE 0,
         readiness |-> magnitude]

(* _ring_direction. *)
RingDirection(magnitude, drift) ==
    IF drift >= 2500 THEN "drifted" ELSE IF magnitude >= 8750 THEN "stable"
    ELSE IF magnitude >= 5000 THEN "watch" ELSE IF magnitude > 0 THEN "weakening"
    ELSE "blocked"

(* _timeline_ring_node with the metrics m of size signals; the status of a *)
(* node is its direction.                                                  *)
NodeOf(size, m) ==
    LET status == RingDirection(m.magnitude, m.drift)
    IN  [signals |-> size, status |-> status,
         magnitude |-> m.magnitude, drift |-> m.drift, readiness |-> m.readiness,
         hint |-> IF status = "stable" /\ m.readiness >= 8750 THEN "ir_ready"
                  ELSE IF status = "drifted" THEN "drift_confirmed"
                  ELSE IF status = "blocked" THEN "ir_blocked"
                  ELSE "semantic_watch"]

RingNode(signals) == NodeOf(Cardinality(DOMAIN signals), SignalMetrics(signals))

(* What the blocked and drifted counts of a ring leave of a                *)
(* CSVInterpoleTimelineRingNode.                                           *)
NodeClear(node) == node.status \notin {"blocked", "drifted"}

(* _timeline_ring of its nodes, with the ok of CSVInterpoleTimelineRing. *)
RingOf(nodes) ==
    [nodes |-> nodes,
     stability |-> Average([s \in DOMAIN nodes |-> nodes[s].magnitude]),
     readiness |-> Average([s \in DOMAIN nodes |-> nodes[s].readiness]),
     ok |-> /\ DOMAIN nodes # {}
            /\ \A s \in DOMAIN nodes : NodeClear(nodes[s])]

(* _signals_by_stage, and the ring with a node for each stage. *)
TimelineRing(vector) ==
    LET of(s) == {n \in DOMAIN vector.signals : vector.signals[n].stage = s}
    IN  RingOf([s \in {vector.signals[n].stage : n \in DOMAIN vector.signals} |->
                   RingNode([n \in of(s) |-> vector.signals[n]])])

Magnitude(x) == IF x < 0 THEN -x ELSE x

Blocking(feedback) ==
    IF "ir_ready" \in feedback THEN feedback ELSE feedback \cup {"ir_blocked"}

(* _mirror_delta of the stored vector and the fresh one. *)
MirrorDelta(previous, current, errors) ==
    LET stability == current.stability - previous.stability
        readiness == current.readiness - previous.readiness
        same == previous.fingerprint = current.fingerprint
        clean == errors = {}
        feedback == Holding(
            [drift_confirmed |-> ~ clean,
             inverse_mismatch |-> NoArtifact \in {previous.fingerprint,
                                                  current.fingerprint},
             determinant_conflict |->
                 Cardinality(DOMAIN current.signals) #
                     Cardinality(DOMAIN previous.signals),
             stable_progression |-> same /\ clean,
             strengthened_progression |-> ~ (same /\ clean) /\ readiness > 200 /\ clean,
             weakened_progression |->
                 /\ ~ (same /\ clean)
                 /\ ~ (readiness > 200 /\ clean)
                 /\ readiness < -200 \/ stability < -200,
             semantic_jump |-> Magnitude(stability) + Magnitude(readiness) > 5000,
             ir_ready |-> /\ current.ok
                          /\ clean
                          /\ current.stability >= 7500
                          /\ current.readiness >= 8750])
    IN  Blocking(feedback)

(* The ok of CSVInterpoleMirrorDelta. *)
MirrorOk(feedback) ==
    feedback \cap {"determinant_conflict", "semantic_jump", "inverse_mismatch",
                   "drift_confirmed", "ir_blocked"} = {}

(* CSVInterpoleTimelineRingReport: current and previous stand for the      *)
(* fingerprints of the ring and of the stored vector it was mirrored with. *)
RingReport(status, current, previous, feedback, errors) ==
    [status |-> status, current |-> current, previous |-> previous,
     feedback |-> feedback, errors |-> errors]

InvalidRing(error) ==
    RingReport("invalid", NoArtifact, NoArtifact, {"ir_blocked"}, {error})

RingOk(report) ==
    /\ report.status \in {"ring_ready", "ring_committed", "valid"}
    /\ report.errors = {}
    /\ TimelineRing(DeterminantVector(report.current)).ok
    /\ MirrorOk(report.feedback)

(* What is wrong with the stored vector, the fresh one or its ring, and    *)
(* the report with the mirror of the two.                                  *)
RingFindings(d, fresh, vector) ==
    fresh.errors \cup
    Holding([stored_interpole_determinant_vector_not_committed |->
                 d.vector.status \notin {"determinants_committed", "valid"},
             interpole_timeline_ring_vector_not_clean |-> ~ vector.ok,
             interpole_timeline_ring_not_clean |-> ~ TimelineRing(vector).ok])

Mirrored(d, fresh, found, mirror) ==
    LET errors == found \cup
            Holding([interpole_timeline_ring_inverse_check_failed |->
                         "inverse_mismatch" \in mirror,
                     interpole_timeline_ring_determinant_conflict |->
                         "determinant_conflict" \in mirror])
    IN  RingReport(IF errors = {} THEN "ring_ready" ELSE "drifted",
                   fresh.stages, d.vector.stages, mirror, errors)

MirroredWith(d, fresh, vector, found) ==
    Mirrored(d, fresh, found,
             MirrorDelta(DeterminantVector(d.vector.stages), vector, found))

RingOver(d, fresh, vector) ==
    MirroredWith(d, fresh, vector, RingFindings(d, fresh, vector))

(* prepare_csv_interpole_timeline_ring; fresh is ValidateVector. *)
PrepareRing(d, fresh) ==
    IF d.vector = NoArtifact
    THEN InvalidRing("interpole_determinant_vector_report_unreadable")
    ELSE RingOver(d, fresh, DeterminantVector(fresh.stages))

CommittedRing(prepared) == [prepared EXCEPT !.status = "ring_committed"]

(* validate_csv_interpole_timeline_ring. *)
ValidateRing(d, fresh) ==
    IF d.ring = NoArtifact
    THEN InvalidRing("interpole_timeline_ring_report_unreadable")
    ELSE LET r == d.ring
             errors == fresh.errors \cup
                 Holding([stored_interpole_timeline_ring_not_committed |->
                              r.status \notin {"ring_committed", "valid"},
                          interpole_timeline_ring_fingerprint_drift |->
                              r.current # fresh.current,
                          interpole_timeline_ring_mirror_fingerprint_drift |->
                              << r.previous, r.current, r.feedback >> #
                              << fresh.previous, fresh.current, fresh.feedback >>,
                          interpole_timeline_ring_source_vector_fingerprint_drift |->
                              r.previous # fresh.previous])
         IN  Validated(fresh, errors)

=============================================================================
