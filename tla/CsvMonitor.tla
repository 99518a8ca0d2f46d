----------------------------- MODULE CsvMonitor -----------------------------
(***************************************************************************)
(* The top of the CSV evidence chain: the browser monitor snapshot with    *)
(* its validation and replay (browser_monitor.py), and the handoff to the  *)
(* Semantic IR layer (semantic_handoff.py).                                *)
(*                                                                         *)
(* Evidence gathers, for one directory, the result of every validate_ call *)
(* of the chain, each computed from the ones below it.                     *)
(***************************************************************************)
EXTENDS CsvKernel

(* The evidence e so far, with the report validated next. *)
WithBridge(d, e) == e @@ [bridge |-> ValidateBridge(d, e.preflight)]

WithBinding(d, e) == e @@ [binding |-> BindingReport(d, e.preflight, e.bridge)]

WithFreshReplay(d, e) == e @@ [freshReplay |-> PrepareReplay(e.binding)]

WithReplay(d, e) == e @@ [replay |-> ValidateReplay(d, e.binding, e.freshReplay)]

WithNative(d, e) == e @@ [native |-> ValidateNative(d, e.binding, e.replay)]

WithFreshRevalidation(d, e) ==
    e @@ [freshReval |-> PrepareRevalidation(d, e.binding, e.replay, e.native)]

WithRevalidation(d, e) == e @@ [reval |-> ValidateRevalidation(d, e.freshReval)]

(* The storage reports of d, validated with chunk size k. *)
StorageEvidence(d, k) ==
    WithRevalidation(d, WithFreshRevalidation(d, WithNative(d, WithReplay(d,
        WithFreshReplay(d, WithBinding(d, WithBridge(d,
            [preflight |-> StoredPreflight(d, k)])))))))

(* A report of the Interpole chain, prepared afresh, and validated. *)
TimelineEvidence(d, fresh) ==
    [freshTimeline |-> fresh, timeline |-> ValidateTimeline(d, fresh)]

VectorEvidence(d, fresh) ==
    [freshVector |-> fresh, vector |-> ValidateVector(d, fresh)]

RingEvidence(d, fresh) == [freshRing |-> fresh, ring |-> ValidateRing(d, fresh)]

WithTimeline(d, e) == e @@ TimelineEvidence(d, PrepareTimeline(d, e.reval))

WithVector(d, e) == e @@ VectorEvidence(d, PrepareVector(d, e.timeline))

WithRing(d, e) == e @@ RingEvidence(d, PrepareRing(d, e.vector))

(* The storage evidence e with the Interpole reports above it. *)
InterpoleEvidence(d, e) == WithRing(d, WithVector(d, WithTimeline(d, e)))

ReadinessEvidence(d, fresh) ==
    [freshReadiness |-> fresh, readiness |-> ValidateReadiness(d, fresh)]

WithReadiness(d, k, e) == e @@ ReadinessEvidence(d, PrepareReadiness(d, k, e.ring))

(* The evidence up to the readiness contract. *)
ContractEvidence(d, k) ==
    WithReadiness(d, k, InterpoleEvidence(d, StorageEvidence(d, k)))

(* The kernel reports ask for the readiness with the default chunk size. *)
WithAdmission(d, k, e) ==
    e @@ [admission |-> IF k = DefaultChunk THEN e.readiness
                        ELSE ContractEvidence(d, DefaultChunk).readiness]

(* The scan report, then the row anchors and the gates, which validate     *)
(* their sources with the chunk sizes those were stored with.              *)
StoredChunk(report) == IF report = NoArtifact THEN NoChunk ELSE report.profile.chunk

WithScan(d, k, sidecar, e) ==
    e @@ [scanAsStored |->
              ValidateNativeScan(d, StoredChunk(d.scan), sidecar, e.admission),
          scan |-> ValidateNativeScan(d, k, sidecar, e.admission)]

WithAnchors(d, k, sidecar, e) ==
    e @@ [anchorsAsStored |-> ValidateNativeAnchors(d, StoredChunk(d.anchors),
                                                    sidecar, e.scanAsStored),
          anchors |-> ValidateNativeAnchors(d, k, sidecar, e.scanAsStored)]

GateEvidence(d, fresh) == [freshGates |-> fresh, gates |-> ValidateGates(d, fresh)]

WithGates(d, e) ==
    e @@ GateEvidence(d, PrepareGates(d, e.scanAsStored, e.anchorsAsStored))

Evidence(d, k, sidecar) ==
    WithGates(d, WithAnchors(d, k, sidecar, WithScan(d, k, sidecar,
        WithAdmission(d, k, ContractEvidence(d, k)))))

-----------------------------------------------------------------------------
(* The monitor snapshot.  What it displays is determined by the evidence   *)
(* it was prepared from: cards, nodes, lanes and rows are left out.        *)

RingState(ring) ==
    IF RingOk(ring)
    THEN LET nodes == TimelineRing(DeterminantVector(ring.current)).nodes
         IN  IF \E n \in Range(nodes) : n.status \in {"watch", "weakening"}
             THEN "watch" ELSE "stable"
    ELSE IF ring.status = "drifted" THEN "drifted" ELSE "blocked"

MirrorState(ring) ==
    IF MirrorOk(ring.feedback) THEN "coherent"
    ELSE IF "inverse_mismatch" \in ring.feedback THEN "inverse_mismatch"
    ELSE IF ring.status = "drifted" THEN "drifted" ELSE "blocked"

(* CSVInterpoleBrowserMonitorSnapshot. *)
Snapshot(status, ring, mirror, kernel, gates, shown, errors) ==
    [status |-> status, ring |-> ring, mirror |-> mirror, kernel |-> kernel,
     gates |-> gates, shown |-> shown, errors |-> errors]

InvalidSnapshot(error) ==
    Snapshot("invalid", "blocked", "blocked", "blocked", "failed", NoArtifact, {error})

(* _snapshot_status of the states shown and the errors found. *)
Judged(ring, mirror, kernel, gates, shown, errors) ==
    Snapshot(IF /\ errors = {}
                /\ ring \in {"stable", "watch"}
                /\ mirror = "coherent"
                /\ kernel = "ready"
                /\ gates = "passed" THEN "monitor_ready" ELSE "blocked",
             ring, mirror, kernel, gates, shown, errors)

MonitorSources(d) == {d.ring, d.vector, d.readiness, d.scan, d.anchors, d.gates}

(* prepare_csv_interpole_browser_monitor_snapshot; e is Evidence(d, k, _). *)
PrepareSnapshot(d, e) ==
    IF NoArtifact \in MonitorSources(d)
    THEN InvalidSnapshot("csv_interpole_monitor_sources_unreadable")
    ELSE Judged(RingState(e.ring), MirrorState(e.ring),
                IF e.readiness.errors = {} THEN "ready" ELSE "blocked",
                IF e.gates.errors = {} THEN "passed" ELSE "failed",
                << e.readiness.contract, e.ring.feedback, e.scan.profile,
                   e.gates.sources >>,
                UNION {e.ring.errors, e.vector.errors, e.readiness.errors,
                       e.scan.errors, e.anchors.errors, e.gates.errors})

(* validate_csv_interpole_browser_monitor_snapshot: the invalid snapshot   *)
(* lacks required cards and events; one that is merely blocked has them.   *)
ValidateSnapshot(s) ==
    Holding([required_card_missing |-> s.status = "invalid",
             ring_fingerprint_empty |->
                 s.status = "monitor_ready" /\ s.shown = NoArtifact,
             mirror_state_not_coherent |->
                 s.status = "monitor_ready" /\ s.mirror # "coherent",
             kernel_readiness_not_ready |->
                 s.status = "monitor_ready" /\ s.kernel # "ready",
             performance_gates_not_passed |->
                 s.status = "monitor_ready" /\ s.gates # "passed"])

(* replay_csv_interpole_browser_monitor_snapshot of source against fresh,  *)
(* the snapshot prepared now.                                              *)
ReplaySnapshot(source, fresh) ==
    IF ValidateSnapshot(source) # {}
    THEN ValidateSnapshot(source) \cup {"source_snapshot_invalid"}
    ELSE ValidateSnapshot(fresh) \cup
         Holding([snapshot_mismatch |-> source # fresh])

-----------------------------------------------------------------------------
(* The handoff.  Each chain is the set of its evidence that is blocked.    *)

ArtifactChain(d) ==
    Holding([core_artifact_integrity |-> ~ Valid(Core(d)),
             original_byte_identity |->
                 ~ CanExport(Core(d)) \/ ~ ByteEquivalent(Core(d)),
             artifact_security_envelope |-> ValidateSecurity(Core(d), {}) # {}])

DefaultOptions == [scan |-> FALSE, needScan |-> FALSE, tx |-> FALSE, needTx |-> FALSE]

StorageChain(d, k, e) ==
    Holding([storage_bridge_preflight |->
                 Preflight(d, DefaultOptions, k).status # "ready",
             storage_bridge_commit |-> e.bridge # {},
             storage_adapter_replay |-> e.replay.errors # {},
             native_storage_commit |-> e.native # {},
             native_storage_revalidation |-> e.reval.errors # {}])

InterpoleChain(e) ==
    Holding([interpole_timeline |-> e.timeline.errors # {},
             interpole_determinant_vector |-> e.vector.errors # {},
             interpole_timeline_ring |-> ~ RingOk(e.ring)])

KernelChain(e) ==
    Holding([kernel_readiness_contract |-> e.readiness.errors # {},
             native_scan_parity |-> e.scan.errors # {},
             native_row_anchor_parity |-> e.anchors.errors # {},
             kernel_performance_gates |-> e.gates.errors # {}])

(* The snapshot prepared now, and the replay of the one supplied, or of    *)
(* that one.  The display contract and the icon registry are constants of  *)
(* the package.                                                            *)
MonitorFindings(fresh, source) ==
    Holding([browser_monitor_snapshot |-> ValidateSnapshot(fresh) # {},
             browser_monitor_replay |-> ReplaySnapshot(source, fresh) # {}])

MonitorWith(fresh, supplied) ==
    MonitorFindings(fresh, IF supplied = NoArtifact THEN fresh ELSE supplied)

MonitorChain(d, e, supplied) == MonitorWith(PrepareSnapshot(d, e), supplied)

=============================================================================
