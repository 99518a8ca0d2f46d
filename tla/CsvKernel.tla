------------------------------ MODULE CsvKernel ------------------------------
(***************************************************************************)
(* The kernel reports above the timeline ring: the readiness contract      *)
(* (kernel.py), the native scan prototype (native_scan.py), the native row *)
(* anchors (native_row_anchor.py) and the performance gates                *)
(* (performance_gates.py).                                                 *)
(*                                                                         *)
(* sidecar says whether the native module _csv_scan_kernel can be imported *)
(* and runs.  What it computes is what the Python scanner computes, which  *)
(* module NativeScan is about.                                             *)
(***************************************************************************)
EXTENDS CsvInterpole

DefaultChunk == 7

-----------------------------------------------------------------------------
(* The readiness contract. *)

(* The status of a CSVKernelReadinessRequirement.  All that vary are       *)
(* required ones.                                                          *)
Requirement(holds) == IF holds THEN "ready" ELSE "blocked"

(* _requirements that are not constant: the status of each. *)
Requirements(scan, anchors, k, ringOk) ==
    [kernel_input_raw_bytes_contract |->
         Requirement("scan_raw_sha256_mismatch" \notin scan),
     scan_profile_output_contract |-> Requirement(scan = {}),
     row_offset_parity_contract |->
         Requirement("scan_row_offsets_mismatch" \notin scan),
     row_anchor_output_contract |-> Requirement(anchors = {}),
     chunk_boundary_state_contract |-> IF k = NoChunk THEN "guarded" ELSE "ready",
     interpole_ring_readiness_contract |-> Requirement(ringOk)]

(* CSVKernelReadinessReport.  Its contract fingerprint is over the input   *)
(* contract, the ring, the requirements and the chunk size.                *)
ReadinessReport(status, contract, errors) ==
    [status |-> status, contract |-> contract, errors |-> errors]

InvalidReadiness(error) == ReadinessReport("invalid", NoArtifact, {error})

(* _contract_fingerprint. *)
Contract(d, ring, requirements, k) ==
    [input |-> d.art["manifest"], requirements |-> requirements, chunk |-> k,
     ring |-> << ring.current, ring.previous, ring.feedback >>]

(* prepare_csv_kernel_readiness_contract; ring is ValidateRing. *)
PrepareReadiness(d, k, ring) ==
    IF d.ring = NoArtifact
    THEN InvalidReadiness("interpole_timeline_ring_report_unreadable")
    ELSE IF ~ CanScan(d)
    THEN InvalidReadiness("kernel_readiness_prepare_failed")
    ELSE LET profile == ScanProfile(d, k)
             scan == ScanParity(d, profile)
             anchors == RowAnchorParity(d, RowAnchorProfile(profile))
             requirements == Requirements(scan, anchors, k,
                                          ring.status = "valid" /\ ring.errors = {})
             errors == UNION {ring.errors, scan, anchors,
                 Holding([stored_interpole_timeline_ring_not_committed |->
                              d.ring.status \notin {"ring_committed", "valid"},
                          kernel_requirement |->
                              \E r \in DOMAIN requirements :
                                  requirements[r] = "blocked"])}
         IN  ReadinessReport(IF errors = {} THEN "kernel_contract_ready" ELSE "blocked",
                             Contract(d, ring, requirements, k), errors)

CommittedReadiness(prepared) ==
    [prepared EXCEPT !.status = "kernel_contract_committed"]

(* validate_csv_kernel_readiness_contract. *)
ValidateReadiness(d, fresh) ==
    IF d.readiness = NoArtifact
    THEN InvalidReadiness("kernel_readiness_report_unreadable")
    ELSE LET errors == fresh.errors \cup
                 Holding([stored_kernel_readiness_not_committed |->
                              d.readiness.status \notin
                                  {"kernel_contract_committed", "valid"},
                          kernel_readiness_contract_fingerprint_drift |->
                              d.readiness.contract # fresh.contract])
         IN  Validated(fresh, errors)

-----------------------------------------------------------------------------
(* The native scan prototype and the native row anchors. *)

(* What a caller asks for: native execution, and no fallback from it. *)
Requests == [use : BOOLEAN, force : BOOLEAN]

(* CSVNativeScanKernelReport.  source stands for the fingerprint of the    *)
(* readiness contract it was built on; profile is the profile scanned, its *)
(* own fingerprint and that of the reference.                              *)
ScanKernelReport(status, source, profile, request, used, errors) ==
    [status |-> status, source |-> source, profile |-> profile,
     request |-> request, used |-> used, errors |-> errors]

InvalidScan(request, error) ==
    ScanKernelReport("invalid", NoArtifact, NoArtifact, request, FALSE, {error})

(* CSVNativeRowAnchorKernelReport: source stands for the fingerprint of    *)
(* the native scan it was built on.                                        *)
AnchorKernelReport(status, source, profile, request, used, errors) ==
    [status |-> status, source |-> source, profile |-> profile,
     request |-> request, used |-> used, errors |-> errors]

InvalidAnchors(request, error) ==
    AnchorKernelReport("invalid", NoArtifact, NoArtifact, request, FALSE, {error})

(* _load_native_backend and what becomes of the request: a forced one      *)
(* fails closed, another falls back to the reference.                      *)
BackendErrors(request, sidecar) ==
    Holding([native_csv_scan_kernel_unavailable |->
                 request.use /\ request.force /\ ~ sidecar])

ProfileFindings(d, profile) ==
    Holding([raw_sha256_mismatch |-> ~ RawDigestOk(Core(d)),
             row_count_mismatch |-> profile.rows # Source[d.art["manifest"]].rows])

(* prepare_csv_native_scan_kernel_prototype.  readiness is validated with  *)
(* the default chunk size, whatever chunk size k the caller passes.        *)
PrepareNativeScan(d, k, request, sidecar, readiness) ==
    IF d.readiness = NoArtifact
    THEN InvalidScan(request, "kernel_readiness_contract_report_unreadable")
    ELSE IF ~ CanScan(d)
    THEN InvalidScan(request, "native_scan_prepare_failed")
    ELSE LET profile == ScanProfile(d, k)
             errors == UNION {readiness.errors, ScanParity(d, profile),
                 RowAnchorParity(d, RowAnchorProfile(profile)),
                 BackendErrors(request, sidecar), ProfileFindings(d, profile),
                 Holding([kernel_readiness_contract_not_committed |->
                              d.readiness.status \notin
                                  {"kernel_contract_committed", "valid"},
                          kernel_readiness_contract_validation_not_valid |->
                              readiness.status # "valid"])}
         IN  ScanKernelReport(IF errors = {} THEN "native_scan_ready" ELSE "blocked",
                          d.readiness.contract, profile, request,
                          request.use /\ sidecar, errors)

CommittedNativeScan(prepared) == [prepared EXCEPT !.status = "native_scan_committed"]

(* Mutant: the fresh profile is not compared with the stored one. *)
ValidateNativeScanFreshOnly(d, k, sidecar, readiness) ==
    IF d.scan = NoArtifact
    THEN InvalidScan([use |-> FALSE, force |-> FALSE],
                       "native_scan_kernel_report_unreadable")
    ELSE LET fresh == PrepareNativeScan(d, k, d.scan.request, sidecar, readiness)
         IN  [fresh EXCEPT !.status = IF fresh.errors = {} THEN "valid" ELSE "drifted"]

(* validate_csv_native_scan_kernel_prototype, with the request of the      *)
(* stored report.                                                          *)
ValidateNativeScan(d, k, sidecar, readiness) ==
    IF d.scan = NoArtifact
    THEN InvalidScan([use |-> FALSE, force |-> FALSE],
                       "native_scan_kernel_report_unreadable")
    ELSE LET fresh == PrepareNativeScan(d, k, d.scan.request, sidecar, readiness)
             errors == fresh.errors \cup
                 Holding([stored_native_scan_kernel_not_committed |->
                              d.scan.status \notin {"native_scan_committed", "valid"},
                          native_scan_source_contract_fingerprint_drift |->
                              d.scan.source # fresh.source,
                          native_scan_profile_fingerprint_drift |->
                              d.scan.profile # fresh.profile])
         IN  Validated(fresh, errors)

(* prepare_csv_native_row_anchor_kernel; scan is ValidateNativeScan with   *)
(* the chunk size of the stored scan report.                               *)
PrepareNativeAnchors(d, k, request, sidecar, scan) ==
    IF d.scan = NoArtifact
    THEN InvalidAnchors(request, "native_scan_kernel_report_unreadable")
    ELSE IF ~ CanScan(d)
    THEN InvalidAnchors(request, "native_row_anchor_prepare_failed")
    ELSE LET profile == ScanProfile(d, k)
             errors == UNION {scan.errors, ScanParity(d, profile),
                 RowAnchorParity(d, RowAnchorProfile(profile)),
                 BackendErrors(request, sidecar), ProfileFindings(d, profile),
                 Holding([native_scan_kernel_report_not_committed |->
                              d.scan.status \notin {"native_scan_committed", "valid"},
                          native_scan_kernel_validation_not_valid |->
                              scan.status # "valid"])}
         IN  AnchorKernelReport(IF errors = {} THEN "native_row_anchor_ready" ELSE "blocked",
                          d.scan.profile, RowAnchorProfile(profile), request,
                          request.use /\ sidecar, errors)

CommittedNativeAnchors(prepared) ==
    [prepared EXCEPT !.status = "native_row_anchor_committed"]

(* validate_csv_native_row_anchor_kernel. *)
ValidateNativeAnchors(d, k, sidecar, scan) ==
    IF d.anchors = NoArtifact
    THEN InvalidAnchors([use |-> FALSE, force |-> FALSE],
                       "native_row_anchor_kernel_report_unreadable")
    ELSE LET fresh == PrepareNativeAnchors(d, k, d.anchors.request, sidecar, scan)
             errors == fresh.errors \cup
                 Holding([stored_native_row_anchor_kernel_not_committed |->
                              d.anchors.status \notin
                                  {"native_row_anchor_committed", "valid"},
                          native_row_anchor_source_scan_fingerprint_drift |->
                              d.anchors.source # fresh.source,
                          native_row_anchor_fingerprint_drift |->
                              d.anchors.profile # fresh.profile])
         IN  Validated(fresh, errors)

-----------------------------------------------------------------------------
(* The performance gates. *)

(* The status of a CSVKernelPerformanceGate. *)
Gate(holds) == IF holds THEN "passed" ELSE "blocked"

(* The gates whose outcome depends on the directory.  The work budgets     *)
(* compare an estimate with a positive multiple of itself, and a source    *)
(* that is not empty has at least one chunk.                               *)
Gates(d, scan, anchors) ==
    [source_reports_committed |->
         Gate(/\ d.anchors.status \in {"native_row_anchor_committed", "valid"}
              /\ d.scan.status \in {"native_scan_committed", "valid"}),
     fresh_validation_valid |->
         Gate(anchors.status = "valid" /\ scan.status = "valid")]

(* CSVKernelPerformanceGateReport: its fingerprint is over the gates with  *)
(* the fingerprints of both sources.                                       *)
GateReport(status, gates, sources, errors) ==
    [status |-> status, gates |-> gates, sources |-> sources, errors |-> errors]

InvalidGates(error) == GateReport("invalid", << >>, NoArtifact, {error})

(* prepare_csv_kernel_performance_gates; scan and anchors are validated    *)
(* with the chunk sizes of their stored reports.                           *)
PrepareGates(d, scan, anchors) ==
    IF d.anchors = NoArtifact \/ d.scan = NoArtifact
    THEN InvalidGates("performance_gate_sources_unreadable")
    ELSE LET gates == Gates(d, scan, anchors)
             errors == UNION {anchors.errors, scan.errors,
                 Holding([gate_blocked |->
                     \E g \in DOMAIN gates : gates[g] = "blocked"])}
         IN  GateReport(IF errors = {} THEN "performance_gates_ready" ELSE "blocked",
                        gates, << d.anchors.profile, d.scan.profile >>, errors)

CommittedGates(prepared) ==
    [prepared EXCEPT !.status = "performance_gates_committed"]

(* validate_csv_kernel_performance_gate_report. *)
ValidateGates(d, fresh) ==
    IF d.gates = NoArtifact THEN InvalidGates("performance_gate_report_unreadable")
    ELSE LET errors == fresh.errors \cup
                 Holding([stored_performance_gate_report_not_committed |->
                              d.gates.status \notin
                                  {"performance_gates_committed", "valid"},
                          performance_gate_source_fingerprint_drift |->
                              d.gates.sources # fresh.sources,
                          performance_gate_fingerprint_drift |->
                              << d.gates.gates, d.gates.sources >> #
                              << fresh.gates, fresh.sources >>])
         IN  Validated(fresh, errors)

=============================================================================
