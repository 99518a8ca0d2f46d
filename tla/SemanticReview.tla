--------------------------- MODULE SemanticReview ---------------------------
(***************************************************************************)
(* Reviewers of a Semantic IR candidate.  They call the functions of       *)
(* SemanticBatch on a live directory, keep the values these return, and    *)
(* pass them back in, in any order: a ledger may be extended twice, from   *)
(* two places, or be an edited copy.                                       *)
(*                                                                         *)
(* A call reads the directory several times, and other threads write       *)
(* between the reads: Begin takes the first fingerprint, each Read one     *)
(* more look, and the call's own return the last fingerprint.              *)
(***************************************************************************)
EXTENDS SemanticBatch

CONSTANTS
    DeclarationLists, Requests, RequestLists, BatchAuthorizations,
                     \* the inputs
    Releases,        \* the installed releases, in order
    Versions,        \* 0 .. the last version of a CSV
    MaxWrites,       \* bound on the writes and upgrades by others
    TightLimit,      \* a payload limit below the largest one
    MaxCandidates, MaxLedgers, MaxReceipts, MaxBlocked
                     \* bounds on what reviewers hold, and on how many
                     \* ledgers of it are blocked; a blocked candidate
                     \* or receipt ends a behaviour

VARIABLES
    dir,         \* CSV id -> [version, prov]
    release,     \* index in Releases of the one installed
    handoff,     \* the last handoff report a reviewer kept
    candidates,  \* the candidates reviewers hold
    ledgers,     \* the ledgers they hold
    copies,      \* edited copies of ledgers
    receipts,    \* the batch receipts they hold
    call,        \* the call in progress
    writes       \* writes made

held == << handoff, candidates, ledgers, copies, receipts >>
vars == << dir, release, held, call, writes >>

Rel == Releases[release]

Idle == [op |-> "idle"]

(* The looks at the directory between the two fingerprints: the evidence,  *)
(* and for a batch the fingerprint after its preflight.                    *)
Reads(op) == IF op = "batch" THEN 2 ELSE 1

Init ==
    /\ dir = [id \in CsvIds |-> [version |-> IF id = "x" THEN 1 ELSE 0, prov |-> 0]]
    /\ release = 1
    /\ handoff = NoHandoff
    /\ candidates = {} /\ ledgers = {} /\ copies = {} /\ receipts = {}
    /\ call = Idle
    /\ writes = 0

-----------------------------------------------------------------------------
(* The calls. *)

Begin(op, args) ==
    /\ call = Idle
    /\ \A v \in candidates \cup receipts : v.errors = {}
    /\ Cardinality({l \in ledgers : l.errors # {}}) <= MaxBlocked
    /\ call' = [op |-> op, args |-> args, before |-> dir, sees |-> << >>]
    /\ UNCHANGED << dir, release, held, writes >>

BeginHandoff(id) ==
    /\ handoff = NoHandoff
    /\ Begin("handoff", [id |-> id])

BeginCandidate(id, decls, optIn, supplied) ==
    /\ Cardinality(candidates) < MaxCandidates
    /\ Begin("candidate", [id |-> id, decls |-> decls, optIn |-> optIn,
                           supplied |-> supplied])

BeginTransition(id, c, request, prior, limit) ==
    /\ Cardinality(ledgers \cup copies) < MaxLedgers
    /\ Begin("transition", [id |-> id, c |-> c, request |-> request, prior |-> prior,
                            limit |-> limit])

BeginBatch(id, c, items, auth, prior, limit) ==
    /\ Cardinality(receipts) < MaxReceipts
    /\ Begin("batch", [id |-> id, c |-> c, items |-> items, auth |-> auth,
                       prior |-> prior, limit |-> limit])

Look ==
    /\ call # Idle
    /\ Len(call.sees) < Reads(call.op)
    /\ call' = [call EXCEPT !.sees = Append(@, dir)]
    /\ UNCHANGED << dir, release, held, writes >>

Returning(op) == call.op = op /\ Len(call.sees) = Reads(op)

ReturnHandoff ==
    /\ Returning("handoff")
    /\ handoff' = PrepareHandoff(call.args.id, Rel, call.before, call.sees[1], dir)
    /\ UNCHANGED << candidates, ledgers, copies, receipts >>

ReturnCandidate ==
    /\ Returning("candidate")
    /\ candidates' = candidates \cup
           {PrepareCandidate(call.args.id, call.args.decls, call.args.optIn,
                             call.args.supplied, PayloadLimit, Rel,
                             call.before, call.sees[1], dir)}
    /\ UNCHANGED << handoff, ledgers, copies, receipts >>

ReturnTransition ==
    /\ Returning("transition")
    /\ ledgers' = ledgers \cup
           {PrepareTransition(call.args.id, call.args.c, call.args.request,
                              call.args.prior, call.args.limit, Rel,
                              call.before, call.sees[1], dir)}
    /\ UNCHANGED << handoff, candidates, copies, receipts >>

ReturnBatch ==
    /\ Returning("batch")
    /\ receipts' = receipts \cup
           {PrepareBatch(call.args.id, call.args.c, call.args.items, "batch",
                         call.args.auth, call.args.prior, call.args.limit, Rel,
                         call.before, call.sees[1], call.sees[2], dir)}
    /\ UNCHANGED << handoff, candidates, ledgers, copies >>

Return ==
    /\ ReturnHandoff \/ ReturnCandidate \/ ReturnTransition \/ ReturnBatch
    /\ call' = Idle
    /\ UNCHANGED << dir, release, writes >>

(* The ledger of an accepted batch is kept like any other. *)
KeepResult(r) ==
    /\ call = Idle
    /\ r.errors = {}
    /\ r.result \notin ledgers
    /\ Cardinality(ledgers \cup copies) < MaxLedgers
    /\ ledgers' = ledgers \cup {r.result}
    /\ UNCHANGED << dir, release, handoff, candidates, copies, receipts, call, writes >>

-----------------------------------------------------------------------------
(* What others do. *)

(* The artifacts of a CSV are imported, or rebuilt. *)
Rewrite(id) ==
    /\ writes < MaxWrites
    /\ dir[id].version + 1 \in Versions
    /\ dir' = [dir EXCEPT ![id].version = @ + 1]
    /\ writes' = writes + 1
    /\ UNCHANGED << release, held, call >>

(* The same values are written again, with another provenance. *)
Touch(id) ==
    /\ writes < MaxWrites
    /\ dir[id].version # 0
    /\ dir' = [dir EXCEPT ![id].prov = @ + 1]
    /\ writes' = writes + 1
    /\ UNCHANGED << release, held, call >>

(* The next release is installed between two calls. *)
Upgrade ==
    /\ call = Idle
    /\ writes < MaxWrites
    /\ release < Len(Releases)
    /\ release' = release + 1
    /\ writes' = writes + 1
    /\ UNCHANGED << dir, held, call >>

(* Copies of a ledger that someone changed: the last record dropped, the   *)
(* first dropped, a state set by hand, two records exchanged.              *)
Edits(l) ==
    IF l.history = << >> THEN {}
    ELSE {[l EXCEPT !.history = Front(@)],
          [l EXCEPT !.history = Tail(@)],
          [l EXCEPT !.states = [i \in DOMAIN @ |-> [@[i] EXCEPT !.state = "validated"]]],
          [l EXCEPT !.history = Reverse(@)]}

Edit(l) ==
    /\ call = Idle
    /\ Cardinality(ledgers \cup copies) < MaxLedgers
    /\ copies' \in {copies \cup {e} : e \in Edits(l) \ (ledgers \cup copies)}
    /\ UNCHANGED << dir, release, handoff, candidates, ledgers, receipts, call, writes >>

-----------------------------------------------------------------------------
PriorChoices == ledgers \cup copies \cup {NoLedger}

(* Of the arguments of one call at most one is out of the ordinary. *)
Next ==
    \/ \E id \in {"x", ""} : BeginHandoff(id)
    \/ \E decls \in DeclarationLists, supplied \in {NoHandoff, handoff} :
           BeginCandidate("x", decls, TRUE, supplied)
    \/ \E decls \in DeclarationLists : \/ BeginCandidate("x", decls, FALSE, NoHandoff)
                                      \/ BeginCandidate("", decls, TRUE, NoHandoff)
                                      \/ BeginCandidate("xy", decls, TRUE, NoHandoff)
    \/ \E c \in candidates, request \in Requests :
           \/ \E prior \in PriorChoices :
                  BeginTransition("x", c, request, prior, LifecycleLimit)
           \/ \E prior \in ledgers : BeginTransition("x", c, request, prior, TightLimit)
           \/ BeginTransition("", c, request, NoLedger, LifecycleLimit)
    \/ \E c \in candidates, items \in RequestLists, auth \in BatchAuthorizations :
           \/ /\ BatchAuthorizationOk(auth)
              /\ \/ \E prior \in PriorChoices :
                        BeginBatch("x", c, items, auth, prior, BatchLimit)
                 \/ BeginBatch("x", c, items, auth, NoLedger, TightLimit)
                 \/ BeginBatch("", c, items, auth, NoLedger, BatchLimit)
           \/ /\ ~ BatchAuthorizationOk(auth)
              /\ BeginBatch("x", c, items, auth, NoLedger, BatchLimit)
    \/ Look
    \/ Return
    \/ \E r \in receipts : KeepResult(r)
    \/ \E id \in CsvIds : Rewrite(id) \/ Touch(id)
    \/ Upgrade
    \/ \E l \in ledgers : Edit(l)

Spec == Init /\ [][Next]_vars

-----------------------------------------------------------------------------
(* What reviewers hold changes only when a call returns: what is said of   *)
(* it is checked between calls.                                            *)
BetweenCalls == call = Idle

VersionsIn(entries) == [j \in DOMAIN entries |-> entries[j].version]

(* The kinds of the values reviewers hold. *)
TypeOK ==
    /\ dir \in [CsvIds -> [version : Versions, prov : 0 .. MaxWrites]]
    /\ release \in DOMAIN Releases
    /\ \A c \in candidates :
           /\ Len(c.props) <= MaxPropositions
           /\ c.props = << >> => c.errors # {}
    /\ \A l \in ledgers : Len(l.history) <= MaxTransitions
    /\ \A r \in receipts : r.errors # {} => r.records = << >>
    /\ call.op \in {"idle", "handoff", "candidate", "transition", "batch"}
    /\ writes \in 0 .. MaxWrites

(* Whatever others write between the reads of a call, a ready candidate,   *)
(* ledger or receipt is of one state of the directory: the evidence it is  *)
(* bound to is that of the state its two fingerprints show, and is ready.  *)
ReadyIsOfOneState ==
    /\ \A c \in candidates : CandidateOk(c) =>
           /\ c.closure.before = VersionsIn(c.before)
           /\ c.raw = c.before[c.csv].version
           /\ BlockedEvidence[c.raw] = {}
    /\ \A l \in ledgers : LedgerOk(l) =>
           l.candidate.closure.before = VersionsIn(l.before)
    /\ \A r \in receipts : ReceiptOk(r) =>
           r.batch.candidate.closure.before = VersionsIn(r.before)

IsLineage(l, c) ==
    \A i \in DOMAIN c.props :
        LET p == c.props[i].decl.id
            recs == SelectSeq(l.history, LAMBDA rec : rec.request.prop = p)
            current == Head(StateOf(l.states, p))
        IN  /\ current.count = Len(recs)
            /\ current.state = IF recs = << >> THEN "proposed" ELSE Last(recs).request.to
            /\ \A k \in DOMAIN recs :
                   /\ recs[k].request.from =
                          IF k = 1 THEN "proposed" ELSE recs[k - 1].request.to
                   /\ recs[k].request.to = "contested" => k = Len(recs)

(* A ledger that validates, edited or not, is a lineage: the records of    *)
(* each proposition lead by allowed transitions from proposed to its       *)
(* current state, and nothing follows contested                            *)
(* (validate_csv_semantic_ir_lifecycle).                                   *)
ValidIsLineage ==
    BetweenCalls =>
        \A l \in ledgers \cup copies, c \in candidates :
            ValidateLifecycle(l, c) = {} => IsLineage(l, c)

OneByOne(r) ==
    LET items == r.batch.items
        single[i \in 0 .. Len(items)] ==
            IF i = 0 THEN IF r.batch.supplied THEN r.batch.source ELSE NoLedger
            ELSE PrepareTransition(r.csv, r.batch.candidate, items[i], single[i - 1],
                                   LifecycleLimit, r.rel, r.before, r.before, r.before)
    IN  single[Len(items)]

(* An accepted batch does what its transitions do one by one, in order,    *)
(* from the same source: the preflight against the state at the start of   *)
(* the batch admits nothing that the single calls would refuse             *)
(* (semantic_ir_lifecycle_batch.py).                                       *)
BatchIsSingles ==
    BetweenCalls =>
        \A r \in receipts : ReceiptOk(r) =>
            \A single \in {OneByOne(r)} :
                /\ LedgerOk(single)
                /\ single.states = r.result.states
                /\ single.history = r.result.history

(* What the prepare functions return as ready passes the validators, which *)
(* are written separately and also read copies from elsewhere.             *)
PreparedValidates ==
    /\ \A c \in candidates : CandidateOk(c) => ValidateCandidate(c) = {}
    /\ \A l \in ledgers : LedgerOk(l) => ValidateLifecycle(l, l.candidate) = {}
    /\ \A r \in receipts : ReceiptOk(r) /\ r.rel = Rel =>
           ValidateBatch(r, r.batch.candidate,
                         IF r.batch.supplied THEN r.batch.source ELSE NoLedger, Rel) = {}

(* Replay tells whether a ready value is current.  A ledger replays as     *)
(* long as the values under the keys containing the CSV id are those its   *)
(* candidate was built on; a receipt only while provenance is the same     *)
(* too.                                                                    *)
ReplayIsCurrency ==
    /\ \A l \in ledgers : LedgerOk(l) /\ l.candidate.rel = Rel =>
           (ReplayLifecycle("x", l.candidate, l, Rel, dir,
                            [i \in DOMAIN l.history |-> dir], dir) = {}
            <=> Files(dir, "x") = l.candidate.closure.before)
    /\ \A r \in receipts : ReceiptOk(r) /\ r.rel = Rel =>
           (ReplayBatch("x", r.batch.candidate, r,
                        IF r.batch.supplied THEN r.batch.source ELSE NoLedger,
                        Rel, dir, dir, dir) = {}
            <=> Entries(dir, "x") = r.before)

(* Preparing, validating and replaying agree, though each is written on    *)
(* its own: what is ready validates, and replays exactly while it is       *)
(* current.                                                                *)
ChecksAgree == TypeOK /\ (BetweenCalls => PreparedValidates /\ ReplayIsCurrency)

(* The ways to one result agree: a batch and its transitions one by one,   *)
(* and preparing, validating and replaying.                                *)
PathsAgree == BatchIsSingles /\ ChecksAgree

(* A candidate of an earlier compatible release whose CSV has not changed  *)
(* is accepted for a batch (_replay_candidate_once). It does not hold: the *)
(* handoff closure in the comparison contains the release.                 *)
CompatibleReplay ==
    \A c \in candidates :
        CandidateOk(c) /\ c.csv = "x" /\ Entries(dir, "x") = c.before =>
            ReplayCandidateOnce("x", c, Rel, dir) = {}

=============================================================================
