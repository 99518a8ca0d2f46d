--------------------------- MODULE DriverPipeline ---------------------------
(***************************************************************************)
(* How a driver comes to be trusted, and to run: the foundry that tests    *)
(* and submits packages (drivers/foundry.py), the registry and its         *)
(* signature policy (registry.py, signature.py, manifest.py), the          *)
(* regression harness (regression.py), the review board (review.py) and    *)
(* the runtime manager that gates an execution (runtime_manager.py).       *)
(*                                                                         *)
(* Every call is one step: the package has no threads here.  The callers   *)
(* call in any order; a builder keeps the last test result, an admin the   *)
(* reports of the harness.  A managed run changes nothing: it is the       *)
(* operator ExecutePackage, evaluated in every state.                      *)
(***************************************************************************)
EXTENDS DriverVM

CONSTANTS
    Drafts,             \* the programs a builder writes
    Foreign,            \* packages read from bytes
    DriverIds, Signers, Secrets,
    SignedManifests,    \* the manifests signers sign
    DriverFixtures,     \* the inputs drivers are tested over
    FoundryPolicies,    \* [submission, authority, requireTest]
    RunCalls,           \* [in, rp]: the inputs and the RuntimeManagerPolicy of a run
    RegressCalls,       \* [cases, rp]: the same of a run of the harness
    ReviewCalls,        \* [action, reviewer, rv, withRegistry, apply]: reviews
    FoundryLimits,      \* [instructions, cost]
    MaxCases,           \* max_cases of the harness
    MaxDriverReports    \* bound on the reports an admin keeps

VARIABLES
    registry,           \* driver id -> DriverRecord
    policy,             \* SignaturePolicy: [secrets, revoked]
    lastTest,           \* the vm_result the builder holds: "none", "ok" or "failed"
    reports             \* the regression reports the admin holds

PipeVars == << registry, policy, lastTest, reports >>

-----------------------------------------------------------------------------
(* The registry. *)

Manifest(p) == [id |-> p.id, version |-> p.version, kind |-> p.kind, caps |-> p.caps]

(* Every package here declares the bounded safety class, the default. *)
ValidManifest(m) == m.version >= 1 /\ m.kind \in DriverClasses /\ m.caps # {}

NoManifest == Manifest(NoPackage)

NoSignature == [signer |-> "none", secret |-> 0, of |-> NoManifest]

NoRecord == [manifest |-> NoManifest, state |-> "none", signature |-> NoSignature,
             tested |-> FALSE]

Candidate(m, tested) == [NoRecord EXCEPT !.manifest = m, !.state = "candidate",
                                         !.tested = tested]

Known(id) == registry[id].state # "none"

(* Mutant: what is revoked is not looked up. *)
EvaluateForgets(m, sig) ==
    IF sig = NoSignature THEN "unsigned"
    ELSE IF policy.secrets[sig.signer] = 0 THEN "unknown_signer"
    ELSE IF sig.secret # policy.secrets[sig.signer] \/ sig.of # m THEN "bad_signature"
    ELSE "accept"

(* SignaturePolicy.evaluate; secret 0 is no secret. *)
Evaluate(m, sig) ==
    IF sig = NoSignature THEN "unsigned"
    ELSE IF sig \in policy.revoked THEN "revoked"
    ELSE IF policy.secrets[sig.signer] = 0 THEN "unknown_signer"
    ELSE IF sig.secret # policy.secrets[sig.signer] \/ sig.of # m THEN "bad_signature"
    ELSE "accept"

(* A registry call on id: it raises unless ok, and else stores record. *)
RegistryCall(id, ok, record) ==
    /\ registry' = IF ok THEN [registry EXCEPT ![id] = record] ELSE registry
    /\ UNCHANGED << lastTest, reports >>

InState(id, state) == [registry[id] EXCEPT !.state = state]

AddCandidate(m, tested) ==
    /\ RegistryCall(m.id, ValidManifest(m), Candidate(m, tested))
    /\ UNCHANGED policy

Approvable(id) == registry[id].state = "candidate" /\ registry[id].tested

Approve(id) ==
    /\ RegistryCall(id, Approvable(id), InState(id, "approved"))
    /\ UNCHANGED policy

AttachSignature(id, sig) ==
    /\ RegistryCall(id,
           registry[id].state = "approved" /\ Evaluate(registry[id].manifest, sig) = "accept",
           [InState(id, "signed") EXCEPT !.signature = sig])
    /\ UNCHANGED policy

(* Mutant: a retired driver is activated again by its signature. *)
ActivateRetired(id) ==
    /\ RegistryCall(id,
           /\ registry[id].state \in {"signed", "retired"}
           /\ Evaluate(registry[id].manifest, registry[id].signature) = "accept",
           InState(id, "active"))
    /\ UNCHANGED policy

Activate(id) ==
    /\ RegistryCall(id,
           /\ registry[id].state = "signed"
           /\ Evaluate(registry[id].manifest, registry[id].signature) = "accept",
           InState(id, "active"))
    /\ UNCHANGED policy

Retire(id) ==
    /\ RegistryCall(id, registry[id].state \notin {"none", "revoked"},
                    InState(id, "retired"))
    /\ UNCHANGED policy

Revoke(id) ==
    /\ RegistryCall(id, Known(id), InState(id, "revoked"))
    /\ policy' = IF Known(id) /\ registry[id].signature # NoSignature
                 THEN [policy EXCEPT !.revoked = @ \cup {registry[id].signature}]
                 ELSE policy

(* SignaturePolicy.approve_signer and revoke, called by whoever holds the policy. *)
ApproveSigner(signer, secret) ==
    /\ policy' = [policy EXCEPT !.secrets[signer] = secret]
    /\ UNCHANGED << registry, lastTest, reports >>

RevokeSignature(sig) ==
    /\ policy' = [policy EXCEPT !.revoked = @ \cup {sig}]
    /\ UNCHANGED << registry, lastTest, reports >>

-----------------------------------------------------------------------------
(* The foundry.  A result has the vm_result of the test, or none.          *)

NoTest == NotLoaded

FoundryResult(status, test) == [status |-> status, test |-> test]

TestDriver(p, in) ==
    IF ~ ValidateLoad(p, FoundryLimits) THEN FoundryResult("package_rejected", NoTest)
    ELSE LET run == Executed(p, in, FoundryLimits.cost)
         IN  FoundryResult(IF run.ok THEN "tested" ELSE "test_failed", run)

(* propose_driver: fixtures are {in}, or {} when none are given. *)
ProposeDriver(g, fixtures) ==
    IF ~ Compiles(g) THEN FoundryResult("source_rejected", NoTest)
    ELSE IF ~ AuditContract(Build(g)) THEN FoundryResult("package_rejected", NoTest)
    ELSE IF fixtures = {} THEN FoundryResult("accepted", NoTest)
    ELSE TestDriver(Build(g), CHOOSE in \in fixtures : TRUE)

Propose(g, fixtures) ==
    LET test == ProposeDriver(g, fixtures).test
    IN  /\ lastTest' = IF test = NoTest THEN lastTest ELSE IF test.ok THEN "ok" ELSE "failed"
        /\ UNCHANGED << registry, policy, reports >>

(* submit_candidate takes the test result the builder passes: it does not  *)
(* look at the package that result is of.                                  *)
Submit(p, fp) ==
    /\ RegistryCall(p.id,
           /\ fp.submission /\ ~ fp.authority
           /\ fp.requireTest => lastTest = "ok"
           /\ AuditContract(p)
           /\ ValidManifest(Manifest(p)),
           Candidate(Manifest(p), TRUE))
    /\ UNCHANGED policy

-----------------------------------------------------------------------------
(* The runtime manager. *)

Evidence(status, run, state, verdict, faults) ==
    LET ok == status = "executed"
    IN  [ok |-> ok, status |-> status, run |-> run, state |-> state, verdict |-> verdict,
         faults |-> faults,
         complete |-> run.ok /\ run.status = "halted" /\ Last(run.trace) = "HALT",
         recommendation |->
             IF ok THEN "candidate_ready"
             ELSE IF run # NoTest \/ status = "input_rejected" THEN "hold" ELSE "reject"]

Refuse(status, state, verdict, fault) ==
    Evidence(status, NoTest, state, verdict, << fault >>)

(* _capability_gate: "ok" or the code of the fault. *)
CapabilityGate(p, rp) ==
    IF p.kind \notin rp.classes THEN "runtime.policy.driver_class"
    ELSE IF p.caps \cap rp.denied # {} THEN "runtime.policy.denied_capability"
    ELSE IF ~ (p.caps \subseteq rp.allowed) THEN "runtime.policy.capability_not_allowed"
    ELSE "ok"

Gate(state, verdict, fault) == [state |-> state, verdict |-> verdict, fault |-> fault]

(* _registry_gate: the record is looked up under the driver id of the      *)
(* package, and compared with it in version and kind.                      *)
RegistryGate(p, rp) ==
    LET record == registry[p.id]
        verdict == Evaluate(record.manifest, record.signature)
    IN  IF ~ rp.needActive /\ ~ rp.needSignature THEN Gate("none", "none", "ok")
        ELSE IF ~ rp.registry THEN Gate("none", "none", "runtime.registry.required")
        ELSE IF ~ Known(p.id) THEN Gate("none", "none", "runtime.registry.unknown_driver")
        ELSE IF record.manifest.version # p.version
        THEN Gate(record.state, "none", "runtime.registry.version_mismatch")
        ELSE IF record.manifest.kind # p.kind
        THEN Gate(record.state, "none", "runtime.registry.kind_mismatch")
        ELSE IF rp.needActive /\ record.state # "active"
        THEN Gate(record.state, "none", "runtime.registry.not_active")
        ELSE IF rp.needSignature /\ verdict # "accept"
        THEN Gate(record.state, verdict, "runtime.signature.rejected")
        ELSE Gate(record.state, verdict, "ok")

StatusForVM(run) ==
    CASE run.status = "input_rejected" -> "input_rejected"
      [] run.status \in {"rejected", "not_loaded", "policy_rejected"} -> "policy_rejected"
      [] run.status = "internal_error" -> "internal_error"
      [] OTHER -> "runtime_faulted"

(* execute_package.  The VM's own limits are only met by its load, whose   *)
(* error the manager reports as internal.                                  *)
ExecutePackage(p, in, rp) ==
    LET capability == CapabilityGate(p, rp)
        gate == RegistryGate(p, rp)
        run == Executed(p, in, rp.limits.cost)
    IN  IF ~ in.wellFormed \/ Len(in.records) > rp.maxRecords
        THEN Refuse("input_rejected", "none", "none", "runtime.input_rejected")
        ELSE IF ~ AuditContract(p)
        THEN Refuse("package_rejected", "none", "none", "runtime.package_rejected")
        ELSE IF capability # "ok" THEN Refuse("policy_rejected", "none", "none", capability)
        ELSE IF gate.fault # "ok"
        THEN Refuse(IF gate.fault = "runtime.signature.rejected"
                    THEN "signature_rejected" ELSE "registry_rejected",
                    gate.state, gate.verdict, gate.fault)
        ELSE IF ~ ValidateLoad(p, rp.limits)
        THEN Refuse("internal_error", gate.state, gate.verdict, "runtime.internal_error")
        ELSE Evidence(IF run.ok THEN "executed" ELSE StatusForVM(run), run,
                      gate.state, gate.verdict, run.faults)

-----------------------------------------------------------------------------
(* The regression harness.  A case gives the values it expects of some of  *)
(* what the evidence shows.                                                *)

Shown(e) == [ok |-> e.ok, status |-> e.status, recommendation |-> e.recommendation,
             vm_status |-> IF e.run = NoTest THEN "none" ELSE e.run.status,
             emitted |-> Len(e.run.emitted), complete |-> e.complete,
             fault_codes |-> e.faults, evidence_hash |-> e]

CompareCase(case, e) ==
    {name \in DOMAIN case.expected : case.expected[name] # Shown(e)[name]}

Report(p, status, results) ==
    [id |-> p.id, version |-> p.version, status |-> status, ok |-> status = "passed",
     failed |-> Cardinality({k \in DOMAIN results : ~ results[k].passed}),
     runtimeOk |-> \A k \in DOMAIN results : results[k].ok,
     recommendation |-> IF status = "passed" THEN "batch_review_ready" ELSE "hold"]

(* run_package. *)
RunPackage(p, cases, rp) ==
    LET results == [k \in DOMAIN cases |->
                       LET e == ExecutePackage(p, cases[k].in, rp)
                       IN  [passed |-> CompareCase(cases[k], e) = {}, ok |-> e.ok]]
        ids == {cases[k].id : k \in DOMAIN cases}
    IN  IF cases = << >> \/ Len(cases) > MaxCases \/ Cardinality(ids) # Len(cases)
        THEN Report(p, "input_rejected", << >>)
        ELSE Report(p, IF \A k \in DOMAIN results : results[k].passed
                       THEN "passed" ELSE "failed", results)

Regress(p, cases, rp) ==
    /\ \E report \in {RunPackage(p, cases, rp)} :
           /\ Cardinality(reports \cup {report}) <= MaxDriverReports
           /\ reports' = reports \cup {report}
    /\ UNCHANGED << registry, policy, lastTest >>

-----------------------------------------------------------------------------
(* The review board. *)

(* _evidence_fault: "ok" or the code of the fault. *)
EvidenceFault(report, rv) ==
    IF rv.clean /\ ~ report.ok THEN "review.evidence.regression_not_clean"
    ELSE IF report.status = "input_rejected" THEN "review.evidence.input_rejected"
    ELSE IF rv.ready /\ report.recommendation # "batch_review_ready"
    THEN "review.evidence.not_batch_ready"
    ELSE IF report.failed > 0 THEN "review.evidence.failed_cases"
    ELSE IF rv.runtimeOk /\ ~ report.runtimeOk THEN "review.evidence.runtime_not_clean"
    ELSE "ok"

Decision(report, final, status, ok, before, after) ==
    [report |-> report, final |-> final, status |-> status, ok |-> ok,
     before |-> before, after |-> after]

(* _review_item against the registry reg: the decision. *)
ReviewItem(reg, report, action, rv, withRegistry, apply) ==
    LET record == reg[report.id]
        known == record.state # "none"
        before == IF withRegistry THEN record.state ELSE "none"
        fault == EvidenceFault(report, rv)
        Decided(final, status, ok) == Decision(report, final, status, ok, before, before)
    IN  IF withRegistry /\ ~ known /\ (rv.candidateOnly \/ apply)
        THEN Decided("hold", "registry_rejected", FALSE)
        ELSE IF fault # "ok"
        THEN IF action = "reject" \/ report.status = "input_rejected"
             THEN Decided("reject", "rejected", FALSE)
             ELSE IF action = "quarantine" THEN Decided("quarantine", "quarantined", TRUE)
             ELSE Decided("hold", "held", TRUE)
        ELSE IF action = "hold" THEN Decided("hold", "held", TRUE)
        ELSE IF action = "reject" THEN Decided("reject", "rejected", TRUE)
        ELSE IF action = "quarantine" THEN Decided("quarantine", "quarantined", TRUE)
        ELSE IF ~ apply THEN Decided("approve", "approval_ready", TRUE)
        ELSE IF ~ rv.approval \/ ~ withRegistry \/ record.state # "candidate"
                \/ ~ record.tested
        THEN Decided("approve", "registry_rejected", FALSE)
        ELSE Decision(report, "approve", "registry_approved", TRUE, before, "approved")

(* _validate_batch: not empty, not too long, by an allowed reviewer, and   *)
(* no driver version twice.                                                *)
ValidBatch(batch, reviewer, rv) ==
    /\ batch # << >> /\ Len(batch) <= rv.maxItems
    /\ reviewer \in rv.reviewers
    /\ \A m, n \in DOMAIN batch :
           batch[m].id = batch[n].id /\ batch[m].version = batch[n].version => m = n

(* The decisions of a batch, one after the other, and the registry after   *)
(* the first k of them.                                                    *)
ReviewBatch(batch, action, rv, withRegistry, apply) ==
    LET after[k \in 0 .. Len(batch)] ==
            IF k = 0 THEN [reg |-> registry, decisions |-> << >>]
            ELSE LET so == after[k - 1]
                     d == ReviewItem(so.reg, batch[k], action, rv, withRegistry, apply)
                 IN  [reg |-> IF d.status = "registry_approved"
                              THEN [so.reg EXCEPT ![batch[k].id].state = "approved"]
                              ELSE so.reg,
                      decisions |-> Append(so.decisions, d)]
    IN  after[Len(batch)]

Review(batch, action, reviewer, rv, withRegistry, apply) ==
    /\ ValidBatch(batch, reviewer, rv)
    /\ registry' = ReviewBatch(batch, action, rv, withRegistry, apply).reg
    /\ UNCHANGED << policy, lastTest, reports >>

-----------------------------------------------------------------------------
PipePackages == {Build(g) : g \in {h \in Drafts : Compiles(h)}} \cup Foreign

Signatures == [signer : Signers, secret : Secrets, of : SignedManifests]

Batches == {<< >>} \cup {<< r >> : r \in reports}
               \cup {<< r, s >> : r \in reports, s \in reports}

PipeInit ==
    /\ registry = [id \in DriverIds |-> NoRecord]
    /\ policy = [secrets |-> [s \in Signers |-> 0], revoked |-> {}]
    /\ lastTest = "none"
    /\ reports = {}

PipeNext ==
    \/ \E g \in Drafts, fixtures \in {{}} \cup {{in} : in \in DriverFixtures} :
           Propose(g, fixtures)
    \/ \E p \in PipePackages :
           \/ AddCandidate(Manifest(p), FALSE)
           \/ \E fp \in FoundryPolicies : Submit(p, fp)
           \/ \E c \in RegressCalls : Regress(p, c.cases, c.rp)
    \/ \E id \in DriverIds :
           \/ Approve(id) \/ Activate(id) \/ Retire(id) \/ Revoke(id)
           \/ \E sig \in Signatures : AttachSignature(id, sig)
    \/ \E s \in Signers, secret \in Secrets : ApproveSigner(s, secret)
    \/ \E sig \in Signatures : RevokeSignature(sig)
    \/ \E batch \in Batches, c \in ReviewCalls :
           Review(batch, c.action, c.reviewer, c.rv, c.withRegistry, c.apply)

-----------------------------------------------------------------------------
(* A driver that is approved has a test report; one that is signed or      *)
(* active carries a signature over its own manifest, whoever was asked in  *)
(* between to replace, retire, revoke, approve or review it.               *)
TrustIsEarned ==
    \A id \in DOMAIN registry :
        LET r == registry[id]
        IN  /\ r.state \in {"approved", "signed", "active"} => r.tested
            /\ r.state \in {"signed", "active"} => r.signature.of = r.manifest
            /\ r.state \in {"candidate", "approved"} => r.signature = NoSignature

(* Whenever a driver would run: under a policy that asks for an active     *)
(* driver and an accepted signature, it runs on a signature nobody has     *)
(* revoked, made with the signer's present secret over a manifest of its   *)
(* id, version and kind; no instruction of a driver the policy denies is   *)
(* executed; and evidence that is ok is of a run that halted.              *)
RunsOnLivingTrust ==
    \A p \in {q \in PipePackages : q.id \in DOMAIN registry}, c \in RunCalls :
        \A e \in {ExecutePackage(p, c.in, c.rp)}, r \in {registry[p.id]} :
            /\ e.run # NoTest /\ c.rp.needActive /\ c.rp.needSignature =>
                   /\ r.state = "active" /\ r.tested
                   /\ r.signature \notin policy.revoked
                   /\ r.signature.secret = policy.secrets[r.signature.signer]
                   /\ r.signature.of.id = p.id
                   /\ r.signature.of.version = p.version
                   /\ r.signature.of.kind = p.kind
            /\ e.ok <=> e.complete
            /\ e.ok <=> e.recommendation = "candidate_ready"
            /\ p.caps \cap c.rp.denied # {} => e.run = NoTest

(* What may follow a state of a driver: nothing leads back into trust but  *)
(* a new candidacy, and a revoked driver is not even retired.              *)
Follows ==
    [none |-> {"candidate"}, candidate |-> {"candidate", "approved", "retired", "revoked"},
     approved |-> {"candidate", "signed", "retired", "revoked"},
     signed |-> {"candidate", "active", "retired", "revoked"},
     active |-> {"candidate", "retired", "revoked"},
     retired |-> {"candidate", "retired", "revoked"},
     revoked |-> {"candidate", "revoked"}]

(* Every change of a driver, by whichever caller, is one of Follows; a     *)
(* candidacy starts without a signature, and a revoked signature stays so. *)
LifecycleForward ==
    [][/\ \A id \in DOMAIN registry :
              registry'[id] # registry[id] =>
                  /\ registry'[id].state \in Follows[registry[id].state]
                  /\ registry'[id].state = "candidate" =>
                         registry'[id].signature = NoSignature
       /\ policy.revoked \subseteq policy'.revoked]_PipeVars

(* Whatever batch the board is given, it touches nothing but tested        *)
(* candidates, which it approves, and only on a report without a failed    *)
(* case or a failed run; each of its decisions names the state the         *)
(* registry had when its turn came, so that of two versions of a driver in *)
(* one batch at most one is approved.                                      *)
BoardApprovesOnly ==
    \A batch \in Batches, c \in ReviewCalls :
        LET done == ReviewBatch(batch, c.action, c.rv, c.withRegistry, c.apply)
            ds == done.decisions
            Approved(id) == {k \in DOMAIN ds :
                                ds[k].status = "registry_approved" /\ ds[k].report.id = id}
        IN  ValidBatch(batch, c.reviewer, c.rv) =>
            \A id \in DOMAIN registry :
                /\ Approved(id) = {} => done.reg[id] = registry[id]
                /\ Approved(id) # {} =>
                       /\ registry[id].state = "candidate" /\ registry[id].tested
                       /\ done.reg[id] = [registry[id] EXCEPT !.state = "approved"]
                       /\ Cardinality(Approved(id)) = 1
                /\ \A k \in Approved(id) :
                       /\ ds[k].report.failed = 0 /\ ds[k].report.runtimeOk
                       /\ \A j \in DOMAIN ds :
                              j > k /\ ds[j].report.id = id => ds[j].before = "approved"

(* Trust in a driver is earned step by step and is alive when it is used:  *)
(* in the registry, in the runtime manager and before the review board.    *)
TrustHolds == TrustIsEarned /\ RunsOnLivingTrust /\ BoardApprovesOnly

=============================================================================
