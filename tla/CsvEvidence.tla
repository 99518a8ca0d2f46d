----------------------------- MODULE CsvEvidence -----------------------------
(***************************************************************************)
(* One managed CSV and the clients that build its evidence chain: an       *)
(* importer that writes the artifacts one by one, a pipeline client that   *)
(* prepares a report and then stores it, and a reader that runs the        *)
(* handoff, one chain after another, while the others write.               *)
(*                                                                         *)
(* A prepare or a validation is taken at one instant, the calls of one     *)
(* chain of the handoff too; between them, and between a prepare and the   *)
(* write of its report, anything may happen.                               *)
(***************************************************************************)
EXTENDS CsvMonitor

CONSTANTS
    BridgeOptions, \* the options a client may commit bridges with
    ScanRequests, \* what the native scan and the row anchors are asked for
    Chunks,       \* the chunk sizes the kernel reports are committed with
    MaxDisturbances \* imports, materializations, and writes that fail

VARIABLES
    d,        \* the directory
    options,  \* what the client commits bridges with
    sidecar,  \* whether the native module can be loaded
    imp,      \* the import in progress: << artifact, value >> still to write
    job,      \* the report commit in progress
    hand,     \* the handoff in progress
    imports, faults

vars == << d, options, sidecar, imp, job, hand, imports, faults >>

Reports == {"bridge", "replay", "native", "reval", "timeline", "vector", "ring",
            "readiness", "scan", "anchors", "gates"}

EmptyDirectory ==
    [art |-> [n \in Names |-> NoArtifact],
     storage |-> [n \in Names |-> NoArtifact]] @@ [r \in Reports |-> NoArtifact]

NoJob == [report |-> "none"]

NoHandoff == [chain |-> "idle"]

Init ==
    /\ d = EmptyDirectory
    /\ options \in BridgeOptions
    /\ sidecar = TRUE
    /\ imp = [writes |-> << >>, overwrite |-> FALSE]
    /\ job = NoJob
    /\ hand = NoHandoff
    /\ imports = 0 /\ faults = 0

-----------------------------------------------------------------------------
(* Imports and materializations: one write after another, and the first    *)
(* one that fails raises.                                                  *)

ImportBegin(c, overwrite) ==
    /\ imp.writes = << >>
    /\ imports + faults < MaxDisturbances
    /\ imports' = imports + 1
    /\ imp' = [writes |-> [i \in DOMAIN CoreOrder |-> << CoreOrder[i], c >>],
               overwrite |-> overwrite]
    /\ UNCHANGED << d, options, sidecar, job, hand, faults >>

(* Nothing else reads the scan artifacts: a client whose bridges leave     *)
(* them out materializes none.                                             *)
MaterializeBegin(k, withAnchors, overwrite) ==
    /\ options.scan \/ options.needScan
    /\ imp.writes = << >>
    /\ imports + faults < MaxDisturbances
    /\ CanScan(d)
    /\ imports' = imports + 1
    /\ imp' = [writes |-> MaterializePlan(d, k, withAnchors), overwrite |-> overwrite]
    /\ UNCHANGED << d, options, sidecar, job, hand, faults >>

ArtifactWrite ==
    LET n == Head(imp.writes)[1]
        free == d.art[n] = NoArtifact \/ imp.overwrite
    IN  /\ imp.writes # << >>
        /\ imp' = [imp EXCEPT !.writes = IF free THEN Tail(@) ELSE << >>]
        /\ d' = IF free THEN [d EXCEPT !.art[n] = Head(imp.writes)[2]] ELSE d
        /\ UNCHANGED << options, sidecar, job, hand, imports, faults >>

ArtifactFault ==
    /\ imp.writes # << >>
    /\ imports + faults < MaxDisturbances
    /\ faults' = faults + 1
    /\ imp' = [imp EXCEPT !.writes = << >>]
    /\ UNCHANGED << d, options, sidecar, job, hand, imports >>

(* The next process runs where the native module cannot be loaded. *)
SidecarLost ==
    /\ sidecar
    /\ job = NoJob
    /\ imports + faults < MaxDisturbances
    /\ sidecar' = FALSE
    /\ faults' = faults + 1
    /\ UNCHANGED << d, options, imp, job, hand, imports >>

-----------------------------------------------------------------------------
(* The commits of the reports. *)

(* The reports that a commit can be asked for now, with what it stores: it *)
(* stores nothing unless the prepared report is ok.  A call passes the     *)
(* options o, the chunk size k and the request q that its report has.      *)
Prepared(dir, e, r, o, k, q) ==
    CASE r = "bridge" ->
            LET p == PrepareBridge(dir, o, k)
            IN  IF p.status = "ready" THEN CommittedBridge(p) ELSE NoArtifact
      [] r = "replay" ->
            IF e.freshReplay.status = "simulated" THEN CommittedReplay(e.freshReplay)
            ELSE NoArtifact
      [] r = "reval" ->
            IF e.freshReval.status = "revalidated" THEN e.freshReval ELSE NoArtifact
      [] r = "timeline" ->
            IF e.freshTimeline.errors = {} THEN CommittedTimeline(e.freshTimeline)
            ELSE NoArtifact
      [] r = "vector" ->
            IF e.freshVector.errors = {} THEN CommittedVector(e.freshVector)
            ELSE NoArtifact
      [] r = "ring" ->
            IF RingOk(e.freshRing) THEN CommittedRing(e.freshRing) ELSE NoArtifact
      [] r = "readiness" ->
            IF e.freshReadiness.errors = {} THEN CommittedReadiness(e.freshReadiness)
            ELSE NoArtifact
      [] r = "scan" ->
            LET p == PrepareNativeScan(dir, k, q, sidecar, e.admission)
            IN  IF p.errors = {} THEN CommittedNativeScan(p) ELSE NoArtifact
      [] r = "anchors" ->
            LET p == PrepareNativeAnchors(dir, k, q, sidecar, e.scanAsStored)
            IN  IF p.errors = {} THEN CommittedNativeAnchors(p) ELSE NoArtifact
      [] r = "gates" ->
            IF e.freshGates.errors = {} THEN CommittedGates(e.freshGates)
            ELSE NoArtifact

(* The request a report takes; it does not matter to the others. *)
RequestsOf(r) ==
    IF r \in {"scan", "anchors"} THEN ScanRequests
    ELSE {[use |-> FALSE, force |-> FALSE]}

(* A commit with chunk size k prepares its report.  No other client stores *)
(* this report, so a call without overwrite that finds one does nothing:   *)
(* the calls here are those that are going to be let write.                *)
ReportBegin(k) ==
    /\ job = NoJob
    /\ \E e \in {Evidence(d, k, sidecar)} :
       \E r \in Reports \ {"native"} : \E q \in RequestsOf(r) :
       \E p \in {Prepared(d, e, r, options, k, q)} :
          /\ p # NoArtifact
          /\ job' = [report |-> r, value |-> p]
    /\ UNCHANGED << d, options, sidecar, imp, hand, imports, faults >>

ReportWrite ==
    /\ job.report \in Reports \ {"native"}
    /\ job' = NoJob
    /\ d' = [d EXCEPT ![job.report] = job.value]
    /\ UNCHANGED << options, sidecar, imp, hand, imports, faults >>

ReportFault ==
    /\ job # NoJob
    /\ imports + faults < MaxDisturbances
    /\ faults' = faults + 1
    /\ job' = NoJob
    /\ UNCHANGED << d, options, sidecar, imp, hand, imports >>

(* commit_csv_native_storage_artifacts: the payloads one by one, then the  *)
(* report.                                                                 *)
NativeBegin(overwrite) ==
    /\ job = NoJob
    /\ \E e \in {StorageEvidence(d, DefaultChunk)} :
          /\ NativeAdmitted(d, e.binding, e.replay)
          /\ job' = [report |-> "native", bindings |-> e.binding.bindings,
                     left |-> BindingOrder(e.binding.bindings), entries |-> << >>,
                     replay |-> e.replay, overwrite |-> overwrite]
    /\ UNCHANGED << d, options, sidecar, imp, hand, imports, faults >>

(* _commit_storage_binding; fails says that the write was refused. *)
NativeEntry(fails) ==
    LET n == Head(job.left)
        b == job.bindings[n]
        verdict == CommitVerdict(d, n, b, job.overwrite)
        entry == IF verdict # "write" THEN EntryFor(d, n, b, verdict)
                 ELSE IF fails THEN CommitEntryOf("failed_write", b.current, NoArtifact)
                 ELSE Written(n, b, d.art[n])
    IN  /\ job.report = "native"
        /\ job.left # << >>
        /\ fails => verdict = "write" /\ imports + faults < MaxDisturbances
        /\ faults' = IF fails THEN faults + 1 ELSE faults
        /\ job' = [job EXCEPT !.left = Tail(@), !.entries = @ @@ (n :> entry)]
        /\ d' = IF verdict = "write" /\ ~ fails
                THEN [d EXCEPT !.storage[n] = d.art[n]] ELSE d
        /\ UNCHANGED << options, sidecar, imp, hand, imports >>

NativeFinish ==
    LET report == NativeReport(job.entries, job.replay)
    IN  /\ job.report = "native"
        /\ job.left = << >>
        /\ job' = NoJob
        /\ d' = IF /\ report.status = "native_storage_committed"
                   /\ d.native = NoArtifact \/ job.overwrite
                THEN [d EXCEPT !.native = report] ELSE d
        /\ UNCHANGED << options, sidecar, imp, hand, imports, faults >>

-----------------------------------------------------------------------------
(* The handoff. *)

ChainOrder == << "artifact", "storage", "interpole", "kernel", "monitor" >>

ChainBlocked(dir, e, chain) ==
    CASE chain = "artifact" -> ArtifactChain(dir)
      [] chain = "storage" -> StorageChain(dir, DefaultChunk, e)
      [] chain = "interpole" -> InterpoleChain(e)
      [] chain = "kernel" -> KernelChain(e)
      [] chain = "monitor" -> MonitorChain(dir, e, NoArtifact)

(* Reports are never removed: a handoff begun before the last of them is   *)
(* stored finds it missing, or finds the directory changed.                *)
HandoffBegin ==
    /\ hand.chain = "idle"
    /\ d.gates # NoArtifact
    /\ hand' = [chain |-> "artifact", before |-> d]
    /\ UNCHANGED << d, options, sidecar, imp, job, imports, faults >>

(* Blocked evidence settles the verdict: the rest of the pass reads.      *)
HandoffChain ==
    LET i == CHOOSE j \in DOMAIN ChainOrder : ChainOrder[j] = hand.chain
    IN  /\ hand.chain \in ToSet(ChainOrder)
        /\ hand' = IF ChainBlocked(d, Evidence(d, DefaultChunk, sidecar),
                                   hand.chain) # {} THEN NoHandoff
                   ELSE [hand EXCEPT !.chain = IF i = Len(ChainOrder) THEN "closing"
                                               ELSE ChainOrder[i + 1]]
        /\ UNCHANGED << d, options, sidecar, imp, job, imports, faults >>

(* The directory is compared with what it was, and the report is made: it  *)
(* says ready if they agree.                                               *)
HandoffReady == hand.chain = "closing" /\ hand.before = d

HandoffEnd ==
    /\ hand.chain = "closing"
    /\ hand' = NoHandoff
    /\ UNCHANGED << d, options, sidecar, imp, job, imports, faults >>

Next ==
    \/ \E c \in Contents, o \in BOOLEAN : ImportBegin(c, o)
    \/ \E a, o \in BOOLEAN : MaterializeBegin(DefaultChunk, a, o)
    \/ ArtifactWrite
    \/ ArtifactFault
    \/ SidecarLost
    \/ \E k \in Chunks : ReportBegin(k)
    \/ ReportWrite
    \/ ReportFault
    \/ \E o \in BOOLEAN : NativeBegin(o)
    \/ \E f \in BOOLEAN : NativeEntry(f)
    \/ NativeFinish
    \/ HandoffBegin
    \/ HandoffChain
    \/ HandoffEnd

Spec == Init /\ [][Next]_vars

-----------------------------------------------------------------------------
(* Properties.  The handoff writes nothing: what is about the directory is *)
(* checked while there is none.                                            *)

(* The directory holds artifacts, payloads and stored reports, and a job   *)
(* holds a report that its prepare was content with.                       *)
TypeOK ==
    /\ \A n \in CoreNames : d.art[n] \in Contents \cup {NoArtifact}
    /\ \A n \in CoreNames : d.storage[n] \in Contents \cup {NoArtifact}
    /\ \A r \in Reports : d[r] # NoArtifact => d[r].status \in
           {"committed", "replay_committed", "native_storage_committed",
            "revalidated", "timeline_committed", "determinants_committed",
            "ring_committed", "kernel_contract_committed", "native_scan_committed",
            "native_row_anchor_committed", "performance_gates_committed"}
    /\ job.report \in Reports \cup {"none"}
    /\ imports + faults \in 0 .. MaxDisturbances

(* The whole chain validates: what a handoff that nothing disturbs says. *)
Ready(dir) ==
    \A e \in {Evidence(dir, DefaultChunk, sidecar)} :
        \A i \in DOMAIN ChainOrder : ChainBlocked(dir, e, ChainOrder[i]) = {}

(* What every report in the directory vouches for is the content c. *)
Describes(dir, c) ==
    /\ \A n \in CoreNames : Digest(n, dir.art[n]) = Digest(n, c)
    /\ \A n \in DOMAIN dir.bridge.hashes : dir.bridge.hashes[n] = Digest(n, dir.art[n])
    /\ \A n \in DOMAIN dir.native.entries :
           dir.native.entries[n].status # "skipped_optional" =>
               /\ Digest(n, dir.storage[n]) = Digest(n, dir.art[n])
               /\ dir.native.entries[n].sha = Digest(n, dir.art[n])
    /\ \A stages \in {dir.timeline.stages, dir.vector.stages, dir.ring.current} :
           stages["evidence_baseline"].hashes = c
    /\ dir.readiness.contract.input = c
    /\ dir.scan.profile.of = c /\ dir.anchors.profile.of = c

(* A directory whose whole chain validates speaks of one source: the       *)
(* artifacts, the payloads in storage and every report in between were     *)
(* taken from the same bytes, however the imports and the commits that     *)
(* wrote them interleaved.                                                 *)
ReadyIsOfOneSource ==
    hand.chain = "idle" /\ d.gates # NoArtifact /\ Ready(d) =>
        \E c \in Contents : Describes(d, c)

(* The validations of the chain, from the bottom to the top. *)
Ladder(dir, e) ==
    << Valid(Core(dir)), e.bridge = {}, e.binding.errors = {}, e.replay.errors = {},
       e.native = {}, e.reval.errors = {}, e.timeline.errors = {},
       e.vector.errors = {}, e.ring.errors = {}, e.admission.errors = {},
       e.scanAsStored.errors = {}, e.gates.errors = {} >>

(* A report validates only on top of reports that validate: a re-import or *)
(* a payload that drifted shows in every report above it, not only in the  *)
(* one that was taken from it.                                             *)
LadderIsMonotone ==
    /\ TypeOK
    /\ hand.chain = "idle" =>
           \A ladder \in {Ladder(d, Evidence(d, DefaultChunk, sidecar))} :
               \A i \in 2 .. Len(ladder) : ladder[i] => ladder[i - 1]

(* The validation of one report, with the chunk size k. *)
Validates(dir, e, r) ==
    CASE r = "bridge" -> e.bridge = {}
      [] r = "replay" -> e.replay.status = "valid"
      [] r = "native" -> e.native = {}
      [] r = "reval" -> e.reval.status = "valid"
      [] r = "timeline" -> e.timeline.status = "valid"
      [] r = "vector" -> e.vector.status = "valid"
      [] r = "ring" -> RingOk(e.ring)
      [] r = "readiness" -> e.readiness.status = "valid"
      [] r = "scan" -> e.scan.status = "valid"
      [] r = "anchors" -> e.anchors.status = "valid"
      [] r = "gates" -> e.gates.status = "valid"

(* The directory after a native commit with overwrite, and after the       *)
(* commit of any report, that nothing disturbs.                            *)
NativeRecommitted(dir, e) ==
    LET bindings == e.binding.bindings
        writes == {n \in DOMAIN bindings :
                      CommitVerdict(dir, n, bindings[n], TRUE) = "write"}
    IN  [dir EXCEPT
            !.storage = [n \in Names |-> IF n \in writes THEN dir.art[n] ELSE @[n]],
            !.native = NativeReport(
                [n \in DOMAIN bindings |->
                    IF n \in writes THEN Written(n, bindings[n], dir.art[n])
                    ELSE EntryFor(dir, n, bindings[n],
                                  CommitVerdict(dir, n, bindings[n], TRUE))],
                e.replay)]

Recommitted(dir, e, r) ==
    IF r = "native" THEN NativeRecommitted(dir, e)
    ELSE [dir EXCEPT ![r] = Prepared(dir, e, r, DefaultOptions, DefaultChunk,
                                     [use |-> FALSE, force |-> FALSE])]

Pipeline == << "bridge", "replay", "native", "reval", "timeline", "vector", "ring",
               "readiness", "scan", "anchors", "gates" >>

(* The lowest report of the pipeline that does not validate. *)
Lowest(e) ==
    SelectInSeq(Pipeline, LAMBDA r : ~ Validates(d, e, r))

(* Committing the report r again, with overwrite, makes it validate. *)
Repairable(e, r) ==
    \A again \in {Recommitted(d, e, r)} :
        /\ again[r] # NoArtifact
        /\ Validates(again, Evidence(again, DefaultChunk, sidecar), r)

Quiet == imp.writes = << >> /\ job = NoJob /\ hand.chain = "idle" /\ Valid(Core(d))

(* Whatever imports, commits and failures left behind, over valid          *)
(* artifacts the chain can be repaired from the bottom up: the lowest      *)
(* report that does not validate validates once it is committed again. The *)
(* one exception is a native commit that found payloads present: its       *)
(* report validates, and yet it may have to be committed again, with       *)
(* overwrite, before the vector is clean or the ring stable enough.        *)
RungsRepair ==
    Quiet =>
        \A e \in {Evidence(d, DefaultChunk, sidecar)} :
        \A r \in {Pipeline[i] : i \in {Lowest(e)} \ {0}} :
            \E repaired \in {r} \cup
                   IF /\ r \in {"vector", "ring"}
                      /\ CountOf(d.native.entries, {"already_present"}) > 0
                   THEN {"native"} ELSE {} :
                Repairable(e, repaired)

(* The chain of reports stands on what it reports on: no report validates  *)
(* above one that does not, and the lowest that does not can be repaired.  *)
LadderStands == LadderIsMonotone /\ RungsRepair

(* A handoff that reports ready is about a chain that is valid. It does    *)
(* not hold: the handoff reads the chain piece by piece, and an import and *)
(* another that undoes it in between change what the pieces see.           *)
HandoffProves ==
    HandoffReady => Ready(d)

=============================================================================
