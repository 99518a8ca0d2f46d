-------------------------- MODULE CsvStorageBridge --------------------------
(***************************************************************************)
(* The storage side of the CSV evidence chain: the optional scan artifacts *)
(* (scan_artifacts.py), the bridge preflight (storage_bridge.py) and the   *)
(* bridge commit, the adapter binding, the simulated replay, the native    *)
(* storage commit and its revalidation (storage_adapter.py).               *)
(*                                                                         *)
(* A directory d is a record: art holds the artifacts by name, storage the *)
(* payloads under the storage entry keys, and every other field one stored *)
(* report, NoArtifact when there is none.  Everything here is a function   *)
(* of d; the chunk size k is the one the caller passes.  Every writer of   *)
(* this layer stores a payload with the kind and the provenance lane that  *)
(* the plan expects, so the checks of kinds and lanes are left out.        *)
(* A digest is what determines the digested payload.                       *)
(***************************************************************************)
EXTENDS CsvArtifacts, SequencesExt

CONSTANTS
    NoChunk    \* chunk_size = None

ScanOrder == << "scan_profile", "row_anchor_profile",
                "scan_materialization_report" >>

ScanNames == ToSet(ScanOrder)

(* _CSV_ADAPTER_ARTIFACT_REPLAY_ORDER. *)
ReplayOrder == CoreOrder \o ScanOrder \o << "transaction_report" >>

Names == ToSet(ReplayOrder)

(* The digest of the payload of an artifact.  A dialect artifact says      *)
(* nothing of the rest of its source.                                      *)
Digest(n, v) ==
    IF n = "dialect" THEN << Source[v].dialect, Source[v].header >> ELSE v

Core(d) == [n \in CoreNames |-> d.art[n]]

Missing(d, names) == {n \in names : d.art[n] = NoArtifact}

-----------------------------------------------------------------------------
(* Scan profiles and row anchors. *)

(* CSVScanProfile and CSVRowAnchorProfile: what a scan of the raw artifact *)
(* under the manifest's dialect finds, with the chunk size it was run by.  *)
ScanProfile(d, k) ==
    [of |-> d.art["raw"], dialect |-> Source[d.art["manifest"]].dialect,
     rows |-> ScannedRows(d.art["raw"], Source[d.art["manifest"]].dialect),
     chunk |-> k]

RowAnchorProfile(profile) == profile

(* _compare_scan_profile_to_artifacts. *)
ScanParity(d, profile) ==
    LET m == d.art["manifest"]
        r == d.art["row_offsets"]
    IN  Holding([scan_raw_sha256_mismatch |-> ~ RawDigestOk(Core(d)) \/ r # m,
                 scan_row_offsets_mismatch |-> profile.rows # Source[r].offsets,
                 scan_row_count_mismatch |->
                     \/ profile.rows # Source[m].rows
                     \/ Source[m].rows # Source[r].offsets])

(* _compare_row_anchors_to_artifacts. *)
RowAnchorParity(d, anchors) ==
    LET m == d.art["manifest"]
        r == d.art["row_offsets"]
    IN  Holding([anchor_raw_sha256_mismatch |-> ~ RawDigestOk(Core(d)) \/ r # m,
                 anchor_row_offsets_mismatch |-> anchors.rows # Source[r].offsets,
                 anchor_row_count_mismatch |->
                     \/ anchors.rows # Source[m].rows
                     \/ Source[m].rows # Source[r].offsets])

(* A scan raises unless the artifacts it reads are there. *)
CanScan(d) == Missing(d, {"raw", "manifest", "row_offsets"}) = {}

(* CSVScanArtifactReport of a materialization. *)
ScanReport(d, k, withAnchors) ==
    [of |-> ScanProfile(d, k), anchors |-> withAnchors]

(* What materialize_csv_scan_artifacts is going to write, if anything. *)
MaterializePlan(d, k, withAnchors) ==
    LET profile == ScanProfile(d, k)
    IN  IF \/ ScanParity(d, profile) # {}
           \/ withAnchors /\ RowAnchorParity(d, RowAnchorProfile(profile)) # {}
        THEN << >>
        ELSE << << "scan_profile", profile >> >> \o
             (IF withAnchors
              THEN << << "row_anchor_profile", RowAnchorProfile(profile) >> >>
              ELSE << >>) \o
             << << "scan_materialization_report",
                   ScanReport(d, k, withAnchors) >> >>

(* validate_materialized_csv_scan_artifacts with row anchors required, and *)
(* what the preflight makes of an exception.                               *)
ValidateScan(d, k) ==
    IF Missing(d, {"raw", "manifest", "scan_profile", "row_anchor_profile"}) # {}
    THEN {"scan_validation_unreadable"}
    ELSE LET fresh == ScanProfile(d, k)
             profile == d.art["scan_profile"]
             anchors == d.art["row_anchor_profile"]
         IN  Holding([materialized_scan_profile_mismatch |-> profile # fresh,
                      materialized_row_anchor_mismatch |->
                          anchors # RowAnchorProfile(fresh)])

-----------------------------------------------------------------------------
(* The preflight.  Options o say which optional artifacts are included and *)
(* which are required.                                                     *)

Options == [scan : BOOLEAN, needScan : BOOLEAN, tx : BOOLEAN, needTx : BOOLEAN]

(* csv_storage_bridge_plan. *)
Plan(o) ==
    CoreNames \cup (IF o.scan \/ o.needScan THEN ScanNames ELSE {})
              \cup (IF o.tx \/ o.needTx THEN {"transaction_report"} ELSE {})

(* The entries of the plan that are there: name and payload digest. *)
InspectEntries(d, o) ==
    [n \in Plan(o) \ Missing(d, Plan(o)) |-> Digest(n, d.art[n])]

(* The optional entries whose absence is an error. *)
RequiredOptions(o) ==
    (IF o.needScan THEN ScanNames ELSE {}) \cup
    (IF o.needTx THEN {"transaction_report"} ELSE {})

Preflight(d, o, k) ==
    LET errors == UNION {
            ValidateArtifacts(Core(d)),
            ValidateSecurity(Core(d),
                IF o.needScan THEN Missing(d, ScanNames) ELSE {}),
            IF o.needScan THEN ValidateScan(d, k) ELSE {},
            {"bridge_entry" : n \in Missing(d, CoreNames \cup RequiredOptions(o))}}
    IN  [entries |-> InspectEntries(d, o), plan |-> Plan(o), errors |-> errors,
         status |-> IF Missing(d, CoreNames) # {} THEN "partial"
                    ELSE IF errors # {} THEN "invalid" ELSE "ready"]

-----------------------------------------------------------------------------
(* The bridge commit. *)

(* CSVStorageBridgeCommitReport. *)
BridgeReport(pre, o, status) ==
    [status |-> status, plan |-> pre.plan, hashes |-> pre.entries,
     options |-> o, errors |-> pre.errors]

PrepareBridge(d, o, k) ==
    LET pre == Preflight(d, o, k)
    IN  BridgeReport(pre, o, IF pre.status = "ready" THEN "ready" ELSE "invalid")

CommittedBridge(prepared) == [prepared EXCEPT !.status = "committed"]

(* The preflight with the options of the stored commit report. *)
StoredPreflight(d, k) ==
    IF d.bridge = NoArtifact THEN NoArtifact ELSE Preflight(d, d.bridge.options, k)

(* validate_csv_storage_bridge_commit; pre is StoredPreflight. *)
ValidateBridge(d, pre) ==
    IF d.bridge = NoArtifact THEN {"commit_report_unreadable"}
    ELSE LET b == d.bridge
         IN  pre.errors \cup
             Holding([stored_report_not_committed |-> b.status # "committed",
                      artifact_key_plan_drift |-> b.plan # pre.plan,
                      payload_hash_drift |->
                          \E n \in DOMAIN b.hashes :
                              \/ n \notin DOMAIN pre.entries
                              \/ pre.entries[n] # b.hashes[n]])

-----------------------------------------------------------------------------
(* The adapter binding. *)

(* CSVStorageAdapterBinding: the digest in the bridge commit, the current  *)
(* one, and the verdict.                                                   *)
Binding(status, stored, current) ==
    [status |-> status, stored |-> stored, current |-> current]

(* _binding_from_entry. *)
BindingFromEntry(b, pre, n) ==
    LET stored == IF n \in DOMAIN b.hashes THEN b.hashes[n] ELSE NoArtifact
        optional == n \notin CoreNames
    IN  IF n \notin pre.plan THEN Binding("rejected", stored, NoArtifact)
        ELSE IF n \notin DOMAIN pre.entries
        THEN Binding(IF optional /\ stored = NoArtifact THEN "optional_missing"
                     ELSE "missing", stored, NoArtifact)
        ELSE IF stored # NoArtifact /\ pre.entries[n] # stored
        THEN Binding("drifted", stored, pre.entries[n])
        ELSE Binding("ready", stored, pre.entries[n])

BindingOf(d, bridge, bindings) ==
    [mode |-> "validation", bindings |-> bindings,
     errors |-> bridge \cup
         Holding([stored_report_not_committed |-> d.bridge.status # "committed",
                  binding_not_ready |->
                      \E n \in DOMAIN bindings : bindings[n].status \in
                          {"missing", "drifted", "rejected"}])]

(* validate_csv_storage_adapter_binding; pre is StoredPreflight, bridge is *)
(* ValidateBridge.                                                         *)
BindingReport(d, pre, bridge) ==
    IF d.bridge = NoArtifact
    THEN [mode |-> "invalid", bindings |-> << >>,
          errors |-> {"commit_report_unreadable"}]
    ELSE BindingOf(d, bridge, [n \in d.bridge.plan |->
                                  BindingFromEntry(d.bridge, pre, n)])

-----------------------------------------------------------------------------
(* The replay. *)

(* CSVStorageAdapterReplayStep. *)
Step(operation, status, n, sha) == << operation, status, n, sha >>

(* _build_replay_steps: the steps of one binding, then of all of them in   *)
(* the order of _ordered_adapter_artifact_items.                           *)
BindingSteps(n, b) ==
    LET sha == IF b.current # NoArtifact THEN b.current ELSE b.stored
    IN  CASE b.status = "ready" ->
                << Step("stage_payload", "staged", n, sha),
                   Step("verify_payload_hash", "planned", n, sha),
                   Step("commit_payload", "committed", n, sha) >>
          [] b.status = "optional_missing" ->
                << Step("skip_optional_payload", "skipped_optional", n, sha) >>
          [] b.status = "drifted" ->
                << Step("verify_payload_hash", "failed_hash_check", n, sha) >>
          [] OTHER ->
                << Step("validate_binding", "failed_binding_validation", n, sha) >>

BindingOrder(bindings) ==
    SelectSeq(ReplayOrder, LAMBDA n : n \in DOMAIN bindings)

StepsInOrder(order, bindings) ==
    FlattenSeq([i \in DOMAIN order |-> BindingSteps(order[i], bindings[order[i]])])

ReplaySteps(bindings) ==
    << Step("open_adapter_transaction", "planned", "", NoArtifact) >> \o
    StepsInOrder(BindingOrder(bindings), bindings) \o
    << Step("record_replay_result", "planned", "", NoArtifact) >>

(* _replay_transaction_id is over the bindings and _replay_fingerprint     *)
(* over the steps, which the bindings determine: one value stands for both.*)
ReplayTransactionId(bindings) == bindings

(* CSVStorageAdapterReplayReport. *)
ReplayReport(status, tx, errors) ==
    [status |-> status, tx |-> tx, errors |-> errors]

InvalidReplay(error) == ReplayReport("invalid", NoArtifact, {error})

(* What a validate_ call answers: the fresh report, with the errors found. *)
Validated(fresh, errors) ==
    [fresh EXCEPT !.status = IF errors = {} THEN "valid" ELSE "drifted",
                  !.errors = errors]

(* prepare_csv_storage_adapter_replay from a binding report. *)
PrepareReplay(binding) ==
    IF binding.mode = "invalid" THEN InvalidReplay("binding_report_invalid")
    ELSE LET errors == binding.errors \cup
                 Holding([replay_failed |->
                     \E step \in ToSet(ReplaySteps(binding.bindings)) : step[2] \in
                             {"failed_hash_check", "failed_binding_validation"}])
         IN  ReplayReport(IF errors = {} THEN "simulated" ELSE "invalid",
                          ReplayTransactionId(binding.bindings), errors)

CommittedReplay(prepared) == [prepared EXCEPT !.status = "replay_committed"]

(* validate_csv_storage_adapter_replay; fresh is PrepareReplay.  Without a *)
(* stored report it is the fresh replay that is judged.                    *)
ValidateReplay(d, binding, fresh) ==
    IF binding.mode = "invalid" \/ d.replay = NoArtifact THEN fresh
    ELSE Validated(fresh, fresh.errors \cup
             Holding([stored_replay_not_committed |->
                          d.replay.status # "replay_committed",
                      replay_transaction_drift |-> d.replay.tx # fresh.tx]))

-----------------------------------------------------------------------------
(* The native storage commit. *)

(* CSVNativeStorageCommitEntry: sha is the digest of the payload, stored   *)
(* the digest read back from storage.                                      *)
CommitEntryOf(status, sha, stored) ==
    [status |-> status, sha |-> sha, stored |-> stored]

(* Mutant: overwrite is not passed down to the entries. *)
CommitVerdictKeeps(d, n, b, overwrite) ==
    IF b.status = "optional_missing" THEN "skipped_optional"
    ELSE IF b.status # "ready" \/ d.art[n] = NoArtifact THEN "rejected"
    ELSE IF Digest(n, d.art[n]) # b.current THEN "rejected"
    ELSE IF d.storage[n] = NoArtifact THEN "write"
    ELSE IF Digest(n, d.storage[n]) = b.current THEN "already_present"
    ELSE "rejected"

(* What _commit_storage_binding answers for one binding before it writes;  *)
(* "write" when it goes on to write the payload.                           *)
CommitVerdict(d, n, b, overwrite) ==
    IF b.status = "optional_missing" THEN "skipped_optional"
    ELSE IF b.status # "ready" THEN "rejected"
    ELSE IF d.art[n] = NoArtifact THEN "rejected"
    ELSE IF Digest(n, d.art[n]) # b.current THEN "rejected"
    ELSE IF d.storage[n] = NoArtifact \/ overwrite THEN "write"
    ELSE IF Digest(n, d.storage[n]) = b.current THEN "already_present"
    ELSE "rejected"

(* The entry for a verdict other than "write"; for a write see Written. *)
EntryFor(d, n, b, verdict) ==
    CASE verdict = "skipped_optional" -> CommitEntryOf(verdict, NoArtifact, NoArtifact)
      [] verdict = "already_present" ->
            CommitEntryOf(verdict, b.current, Digest(n, d.storage[n]))
      [] OTHER -> CommitEntryOf(verdict,
                     IF b.current # NoArtifact THEN b.current ELSE b.stored,
                     NoArtifact)

(* The payload was written and read back. *)
Written(n, b, v) == CommitEntryOf("committed", b.current, Digest(n, v))

(* _storage_commit_counts. *)
CountOf(entries, statuses) ==
    Cardinality({n \in DOMAIN entries : entries[n].status \in statuses})

(* CSVNativeStorageCommitReport. *)
NativeReport(entries, replay) ==
    [status |-> IF CountOf(entries, {"rejected", "failed_write"}) = 0
                THEN "native_storage_committed" ELSE "invalid",
     entries |-> entries, tx |-> replay.tx]

(* The entry of commit_csv_native_storage_artifacts: a stored replay, a    *)
(* valid one, and a ready binding.                                         *)
NativeAdmitted(d, binding, replay) ==
    /\ d.replay # NoArtifact
    /\ replay.status \in {"simulated", "replay_committed", "valid"}
    /\ replay.errors = {}
    /\ binding.errors = {}

(* validate_csv_native_storage_commit. *)
ValidateNative(d, binding, replay) ==
    IF d.native = NoArtifact THEN {"native_storage_commit_report_unreadable"}
    ELSE LET r == d.native
             live == {n \in DOMAIN r.entries : r.entries[n].status # "skipped_optional"}
         IN  replay.errors \cup binding.errors \cup
             Holding([stored_native_commit_not_committed |->
                          r.status # "native_storage_committed",
                      native_storage_transaction_drift |-> r.tx # replay.tx,
                      storage_entry_binding_missing |->
                          ~ live \subseteq DOMAIN binding.bindings,
                      storage_entry_unreadable |->
                          \E n \in live : d.storage[n] = NoArtifact,
                      storage_payload_hash_drift |->
                          \E n \in live \cap DOMAIN binding.bindings :
                              /\ d.storage[n] # NoArtifact
                              /\ LET h == Digest(n, d.storage[n])
                                     c == binding.bindings[n].current
                                 IN  \/ h # r.entries[n].sha
                                     \/ c # NoArtifact /\ h # c])

-----------------------------------------------------------------------------
(* The revalidation guard. *)

(* CSVNativeStorageRevalidationEntry and _revalidation_entry_from_commit.  *)
RevalidationEntry(d, n, entry, bindings, proofOk) ==
    LET bound == n \in DOMAIN bindings
        b == bindings[n]
        bh == IF b.current # NoArtifact THEN b.current ELSE b.stored
        held == d.storage[n]
        verdict ==
            IF entry.status = "skipped_optional" THEN "skipped_optional"
            ELSE IF held = NoArtifact THEN "missing"
            ELSE IF Digest(n, held) # entry.sha THEN "storage_drift"
            ELSE IF ~ bound THEN "proof_drift"
            ELSE IF b.status = "missing" THEN "missing"
            ELSE IF \/ b.status \in {"drifted", "rejected"}
                    \/ bh # NoArtifact /\ bh # entry.sha THEN "source_drift"
            ELSE IF ~ proofOk THEN "proof_drift"
            ELSE "verified"
    IN  [status |-> verdict, committed |-> entry.sha,
         storage |-> IF held = NoArtifact THEN held ELSE Digest(n, held),
         proof |-> proofOk]

(* CSVNativeStorageRevalidationReport: the fingerprint is over the         *)
(* transaction, the entries and the errors found.                          *)
RevalidationReport(status, tx, entries, errors) ==
    [status |-> status, errors |-> errors,
     fingerprint |-> [tx |-> tx, entries |-> entries, errors |-> errors]]

Revalidated(d, found, entries) ==
    LET errors == found \cup
            Holding([stored_native_commit_not_committed |->
                         d.native.status # "native_storage_committed",
                     revalidation |-> CountOf(entries,
                         {"source_drift", "storage_drift", "proof_drift",
                          "missing", "rejected"}) # 0])
    IN  RevalidationReport(IF errors = {} THEN "revalidated" ELSE "drifted",
                           d.native.tx, entries, errors)

(* prepare_csv_native_storage_revalidation; native is ValidateNative. *)
PrepareRevalidation(d, binding, replay, native) ==
    IF d.native = NoArtifact
    THEN RevalidationReport("invalid", NoArtifact, << >>,
                            {"native_storage_commit_report_unreadable"})
    ELSE LET proofOk == native = {} /\ replay.errors = {} /\ binding.errors = {}
             entries == [n \in DOMAIN d.native.entries |->
                 RevalidationEntry(d, n, d.native.entries[n], binding.bindings,
                                   proofOk)]
         IN  Revalidated(d, UNION {replay.errors, binding.errors, native}, entries)

(* validate_csv_native_storage_revalidation. *)
ValidateRevalidation(d, fresh) ==
    IF d.reval = NoArtifact
    THEN RevalidationReport("invalid", NoArtifact, << >>,
                            {"native_storage_revalidation_report_unreadable"})
    ELSE LET errors == fresh.errors \cup
                 Holding([stored_revalidation_not_clean |->
                              d.reval.status \notin {"revalidated", "valid"},
                          revalidation_fingerprint_drift |->
                              d.reval.fingerprint # fresh.fingerprint,
                          revalidation_transaction_drift |->
                              d.reval.fingerprint.tx # fresh.fingerprint.tx])
         IN  Validated(fresh, errors)

=============================================================================
