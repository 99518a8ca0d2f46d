---------------------------- MODULE SemanticBatch ----------------------------
(***************************************************************************)
(* The atomic batch review of lifecycle transitions                        *)
(* (csv_layer/semantic_ir_lifecycle_batch.py): the envelope, the receipt,  *)
(* its preparation, validation and replay.                                 *)
(***************************************************************************)
EXTENDS SemanticLifecycle

CONSTANTS
    MaxBatch,   \* CSV_SEMANTIC_IR_MAX_BATCH_TRANSITIONS
    BatchLimit  \* the largest payload limit of a batch

BatchAuthorizationOk(auth) ==
    /\ ValidId(auth.id)
    /\ auth.scope = "review_transition_batch"
    /\ auth.explicit

(* CSVSemanticIRTransitionBatch, the envelope.  source is the ledger the   *)
(* batch starts from, or the candidate when there is none.                 *)
Batch(batchId, id, candidate, source, supplied, auth, items, limit) ==
    [batch |-> batchId, csv |-> id, candidate |-> candidate, source |-> source,
     supplied |-> supplied, auth |-> auth, items |-> items, limit |-> limit]

BatchPayload(b) == Len(b.items)

ItemTransitions(items) == [i \in DOMAIN items |-> items[i].transition]

ItemPropositions(items) == [i \in DOMAIN items |-> items[i].prop]

ItemAuthorizations(items) == [i \in DOMAIN items |-> items[i].auth.id]

BatchOk(b) ==
    /\ ValidId(b.batch)
    /\ ValidId(b.csv)
    /\ b.candidate # NoCandidate
    /\ b.candidate.raw # 0
    /\ BatchAuthorizationOk(b.auth)
    /\ b.items # << >>
    /\ Len(b.items) <= MaxBatch
    /\ \A i \in DOMAIN b.items : RequestOk(b.items[i])
    /\ Duplicates(ItemTransitions(b.items)) = {}
    /\ Duplicates(ItemPropositions(b.items)) = {}
    /\ Duplicates(ItemAuthorizations(b.items)) = {}
    /\ BatchPayload(b) <= b.limit

(* CSVSemanticIRBatchReceipt: result is the ledger, records those the      *)
(* batch appended; a batch is accepted when it has no errors.              *)
Receipt(id, rel, b, result, records, replayed, before, after, limit, errors) ==
    [csv |-> id, rel |-> rel, batch |-> b, result |-> result, records |-> records,
     replayed |-> replayed, before |-> Entries(before, id),
     after |-> Entries(after, id), limit |-> limit, errors |-> errors]

ReceiptPayload(r) == Len(r.batch.items) + Len(r.records)

LastOf(history, n) == SubSeq(history, Len(history) - n + 1, Len(history))

ReceiptOk(r) ==
    /\ r.errors = {}
    /\ BatchOk(r.batch)
    /\ r.result # NoLedger
    /\ LedgerOk(r.result)
    /\ Len(r.records) = Len(r.batch.items)
    /\ Len(r.result.history) >= Len(r.records)
    /\ LastOf(r.result.history, Len(r.records)) = r.records
    /\ r.replayed
    /\ r.before = r.after
    /\ ReceiptPayload(r) <= r.limit

-----------------------------------------------------------------------------
(* _replay_candidate_once: a candidate of an earlier compatible release is *)
(* rebuilt and compared without the release of the candidate.  Its closure *)
(* still holds the release of the handoff.                                 *)
CompatibleProjection(c) == [ReplayProjection(c) EXCEPT !.rel = ""]

CompatibleFindings(c, rebuilt) ==
    rebuilt.errors \cup
    Holding([semantic_ir_compatible_replay_mismatch |->
                 CompatibleProjection(c) # CompatibleProjection(rebuilt)])

ReplayCandidateOnce(id, c, rel, seen) ==
    CASE c.rel = rel -> ReplayCandidate(id, c, rel, seen, seen, seen)
      [] c.rel # rel /\ c.rel \notin Compatible ->
             {"semantic_ir_source_candidate_release_incompatible"}
      [] OTHER ->
             CompatibleFindings(c, PrepareCandidate(id, Declarations(c), TRUE, NoHandoff,
                                                    c.limit, rel, seen, seen, seen))

(* The checks on the envelope as a whole. *)
EnvelopeFindings(b, history, limit) ==
    Holding([transition_batch_id_invalid |-> ~ ValidId(b.batch),
             transition_batch_authorization_invalid |-> ~ BatchAuthorizationOk(b.auth),
             transition_batch_empty |-> b.items = << >>,
             transition_batch_count_exceeded |-> Len(b.items) > MaxBatch,
             semantic_ir_transition_count_exceeded |->
                 Len(history) + Len(b.items) > MaxTransitions,
             transition_batch_payload_too_large |-> BatchPayload(b) > limit,
             transition_batch_duplicate_transition_id |->
                 Duplicates(ItemTransitions(b.items)) # {},
             transition_batch_duplicate_proposition_id |->
                 Duplicates(ItemPropositions(b.items)) # {},
             transition_batch_duplicate_authorization_id |->
                 Duplicates(ItemAuthorizations(b.items)) # {}])

(* Mutant: items are preflighted against the states of the candidate. *)
ItemFindingsOfCandidate(request, states, history) ==
    RequestFindings(request,
                    [i \in DOMAIN states |-> [states[i] EXCEPT !.state = "proposed"]],
                    history) \cup
    Holding([batch_item_invalid |-> ~ RequestOk(request)])

(* The preflight of one item against the states and the history the batch  *)
(* starts from.  Unlike a single transition, it refuses an authorization   *)
(* the history has used.                                                   *)
ItemFindings(request, states, history) ==
    RequestFindings(request, states, history) \cup
    Holding([batch_item_invalid |-> ~ RequestOk(request),
             duplicate_authorization_id_in_source_lifecycle |->
                 \E i \in DOMAIN history : history[i].request.auth.id = request.auth.id])

(* _append_prevalidated_transition, for every item in order. *)
AppendAll(c, states, history, items) ==
    LET run[i \in 0 .. Len(items)] ==
            IF i = 0 THEN [states |-> states, history |-> history]
            ELSE LET was == run[i - 1]
                     rec == NextRecord(c, was.states, was.history, items[i])
                 IN  [states |-> Advance(was.states, rec),
                      history |-> Append(was.history, rec)]
    IN  run[Len(items)]

(* The preflight of batch b from start, over all of its items. *)
PreflightFindings(id, b, start, before, flight) ==
    UNION {start.errors, EnvelopeFindings(b, start.history, b.limit),
           UNION {ItemFindings(item, start.states, start.history) :
                      item \in ToSet(b.items)},
           Holding([semantic_ir_transition_batch_mutated_tds_directory_state |->
                        Entries(before, id) # Entries(flight, id)])}

(* A blocked receipt returns the prior ledger, if that was looked at. *)
BlockedReceipt(id, rel, b, prior, start, before, at, errors) ==
    Receipt(id, rel, b, IF start.replayed THEN prior ELSE NoLedger, << >>,
            start.replayed, before, at, b.limit, errors)

(* What stands in the way of the receipt made. *)
LateFindings(made) ==
    Holding([semantic_ir_transition_batch_mutated_tds_directory_state |->
                 made.before # made.after,
             semantic_ir_lifecycle_payload_too_large |-> ~ LedgerOk(made.result),
             transition_batch_receipt_invalid |-> ~ ReceiptOk(made)])

(* The receipt of a batch whose items were all applied. *)
AppliedReceipt(id, rel, b, run, before, after) ==
    Receipt(id, rel, b,
            Ledger(id, rel, b.candidate, run.states, run.history, before, after,
                   AtMost(b.limit, LifecycleLimit), {}),
            LastOf(run.history, Len(b.items)), TRUE, before, after, b.limit, {})

Settled(id, rel, b, prior, start, before, after, made) ==
    IF LateFindings(made) = {} THEN made
    ELSE BlockedReceipt(id, rel, b, prior, start, before, after, LateFindings(made))

BatchFrom(id, rel, b, prior, start, before, flight, after) ==
    LET errors == PreflightFindings(id, b, start, before, flight)
    IN  IF errors # {}
        THEN BlockedReceipt(id, rel, b, prior, start, before, flight, errors)
        ELSE Settled(id, rel, b, prior, start, before, after,
                     AppliedReceipt(id, rel, b,
                                    AppendAll(b.candidate, start.states, start.history,
                                              b.items),
                                    before, after))

(* The envelope names the ledger the batch starts from. *)
BatchStarted(id, c, items, batchId, auth, prior, limit, rel, before, flight, after, start) ==
    BatchFrom(id, rel,
              Batch(batchId, id, c, IF start.used THEN prior ELSE c, prior # NoLedger,
                    auth, items, limit),
              prior, start, before, flight, after)

(* prepare_csv_semantic_ir_transition_batch: seen is what the replay of    *)
(* the candidate reads, flight the fingerprint after the preflight.        *)
PrepareBatch(id, c, items, batchId, auth, prior, limit, rel, before, seen, flight, after) ==
    LET bound == AtMost(limit, BatchLimit)
    IN  IF ~ ValidId(id)
        THEN Receipt(id, rel,
                     Batch(batchId, id, NoCandidate, NoCandidate, prior # NoLedger, auth,
                           items, bound),
                     NoLedger, << >>, FALSE, before, before, bound, {"csv_id_unsafe"})
        ELSE BatchStarted(id, c, items, batchId, auth, prior, bound, rel, before, flight,
                          after, Start(id, c, prior,
                                       ReplayCandidateOnce(id, c, rel, seen)))

(* validate_csv_semantic_ir_transition_batch, in release rel, with the     *)
(* candidate and the source ledger (NoLedger when none is supplied).       *)
ValidateBatch(r, c, prior, rel) ==
    Holding([transition_batch_release_version_mismatch |-> r.rel # rel,
             transition_batch_receipt_payload_too_large |-> ReceiptPayload(r) > r.limit,
             transition_batch_receipt_payload_limit_unbounded |-> r.limit > BatchLimit,
             transition_batch_input_envelope_invalid |-> ~ BatchOk(r.batch),
             transition_batch_directory_state_changed |-> r.before # r.after,
             transition_batch_source_candidate |->
                 ValidateCandidate(c) # {} \/ ~ CandidateOk(c),
             transition_batch_source_candidate_fingerprint_mismatch |->
                 r.batch.candidate # c,
             transition_batch_source_lifecycle |->
                 prior # NoLedger /\ (ValidateLifecycle(prior, c) # {} \/ ~ LedgerOk(prior)),
             transition_batch_source_lifecycle_fingerprint_mismatch |->
                 prior # NoLedger /\ r.batch.source # prior,
             transition_batch_source_lifecycle_required_for_validation |->
                 prior = NoLedger /\ r.batch.supplied]) \cup
    IF r.errors # {}
    THEN Holding([transition_batch_blocked_contains_accepted_transitions |->
                      r.records # << >>])
    ELSE IF r.result = NoLedger THEN {"transition_batch_result_lifecycle_missing"}
    ELSE ValidateLifecycle(r.result, c) \cup
         LET n == Len(r.batch.items)
             tail == LastOf(r.result.history, AtMost(n, Len(r.result.history)))
         IN  Holding([transition_batch_result_lifecycle_invalid |-> ~ LedgerOk(r.result),
                      transition_batch_result_transition_fingerprints_mismatch |->
                          tail # r.records,
                      transition_batch_result_order_mismatch |->
                          TransitionIds(tail) # ItemTransitions(r.batch.items)])

(* Equality of the receipts' fingerprints. *)
SameReceipt(r, again) == r = again

(* replay_csv_semantic_ir_transition_batch: the whole receipt is compared, *)
(* with the fingerprints of the directory.                                 *)
ReplayBatch(id, c, r, prior, rel, before, seen, after) ==
    LET valid == ValidateBatch(r, c, prior, rel)
        again == PrepareBatch(id, c, r.batch.items, r.batch.batch, r.batch.auth, prior,
                              r.limit, rel, seen, seen, seen, seen)
    IN  CASE ~ ValidId(id) -> {"csv_id_unsafe"}
          [] ValidId(id) /\ valid # {} -> valid
          [] OTHER ->
                 Holding([transition_batch_replay_receipt_fingerprint_mismatch |->
                              ~ SameReceipt(r, again),
                          transition_batch_replay_mutated_tds_directory_state |->
                              Entries(before, id) # Entries(after, id)])

=============================================================================
