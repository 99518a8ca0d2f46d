-------------------------- MODULE SemanticLifecycle --------------------------
(***************************************************************************)
(* The lifecycle ledger of a Semantic IR candidate                         *)
(* (csv_layer/semantic_ir_lifecycle.py): single authorized transitions,    *)
(* the validation of a ledger and its replay.                              *)
(*                                                                         *)
(* A ledger is a value: preparing a transition returns a new one and       *)
(* stores nothing.                                                         *)
(***************************************************************************)
EXTENDS SemanticIR

CONSTANTS
    MaxTransitions,  \* CSV_SEMANTIC_IR_MAX_TRANSITIONS
    LifecycleLimit   \* the largest payload limit of a ledger

LifecycleStates == {"proposed", "validated", "contested"}

AllowedTransitions == { << "proposed", "validated" >>, << "proposed", "contested" >>,
                        << "validated", "contested" >> }

(* _required_scope. *)
RequiredScope(toState) ==
    CASE toState = "validated" -> "validate_proposition"
      [] toState = "contested" -> "contest_proposition"
      [] OTHER -> ""

(* A request is [transition, prop, from, to, reason, auth], an             *)
(* authorization [id, scope, explicit].                                    *)
AuthorizationOk(auth) ==
    /\ ValidId(auth.id)
    /\ auth.scope \in {"validate_proposition", "contest_proposition"}
    /\ auth.explicit

RequestOk(request) ==
    /\ ValidId(request.transition)
    /\ ValidId(request.prop)
    /\ << request.from, request.to >> \in AllowedTransitions
    /\ request.reason # ""
    /\ AuthorizationOk(request.auth)
    /\ request.auth.scope = RequiredScope(request.to)

(* CSVSemanticIRTransitionRecord.  The fingerprint of a record is the      *)
(* record; previous and propPrevious are those of the last record of the   *)
(* ledger and of the last one of the same proposition.                     *)
Record(seq, request, candidate, previous, propPrevious) ==
    [seq |-> seq, request |-> request, candidate |-> candidate,
     previous |-> previous, propPrevious |-> propPrevious]

RecordOk(rec) == rec.seq > 0 /\ RequestOk(rec.request)

(* CSVSemanticIRLifecycleState: the state of one proposition, with its     *)
(* last record, that record's predecessor, and how many there are.         *)
(* NoRecord stands for the fingerprint of the candidate, the predecessor   *)
(* of the first record.                                                    *)
NoRecord == [seq |-> 0]

State(prop, state, previous, last, count) ==
    [prop |-> prop, state |-> state, previous |-> previous, last |-> last,
     count |-> count]

InitialStates(c) ==
    [i \in DOMAIN c.props |-> State(c.props[i].decl.id, "proposed", NoRecord, NoRecord, 0)]

StateOf(states, prop) == SelectSeq(states, LAMBDA s : s.prop = prop)

TransitionIds(history) == [i \in DOMAIN history |-> history[i].request.transition]

(* CSVSemanticIRLifecycle; its fingerprint is the ledger itself. *)
Ledger(id, rel, candidate, states, history, before, after, limit, errors) ==
    [csv |-> id, rel |-> rel, candidate |-> candidate, states |-> states,
     history |-> history, before |-> Entries(before, id), after |-> Entries(after, id),
     limit |-> limit, errors |-> errors]

NoLedger == [csv |-> ""]

NoCandidate == [csv |-> ""]

(* The payload grows with the propositions and with the history. *)
LedgerPayload(l) == Len(l.states) + Len(l.history)

LedgerOk(l) ==
    /\ l.errors = {}
    /\ l.rel \in Compatible
    /\ l.states # << >>
    /\ Duplicates([i \in DOMAIN l.states |-> l.states[i].prop]) = {}
    /\ l.history # << >>
    /\ Len(l.history) <= MaxTransitions
    /\ Duplicates(TransitionIds(l.history)) = {}
    /\ \A i \in DOMAIN l.history : RecordOk(l.history[i])
    /\ l.before = l.after
    /\ LedgerPayload(l) <= l.limit

-----------------------------------------------------------------------------
(* Validation walks the history over a working copy of the initial states. *)

(* One record against the working states and the record before it.         *)
RecordFindings(rec, i, l, working, previous) ==
    LET found == StateOf(working, rec.request.prop)
    IN  Holding([sequence_mismatch |-> rec.seq # i,
                 invalid |-> ~ RecordOk(rec),
                 predecessor_fingerprint_mismatch |-> rec.previous # previous,
                 source_candidate_fingerprint_mismatch |-> rec.candidate # l.candidate,
                 proposition_not_found |-> found = << >>,
                 proposition_predecessor_fingerprint_mismatch |->
                     found # << >> /\ rec.propPrevious # Head(found).last,
                 state_lineage_mismatch |->
                     found # << >> /\ rec.request.from # Head(found).state])

(* What a record makes of the working states. *)
Advance(working, rec) ==
    [i \in DOMAIN working |->
        IF working[i].prop = rec.request.prop
        THEN State(rec.request.prop, rec.request.to, working[i].last, rec,
                   working[i].count + 1)
        ELSE working[i]]

(* The working states after the first i records, from states. *)
Walked(states, history) ==
    LET walk[i \in 0 .. Len(history)] ==
            IF i = 0 THEN states ELSE Advance(walk[i - 1], history[i])
    IN  walk

(* Mutant: only how often each proposition has moved is compared. *)
CountsDiffer(states, derived) ==
    {<< s.prop, s.count >> : s \in ToSet(states)} #
        {<< s.prop, s.count >> : s \in ToSet(derived)}

(* The current states against those the history leads to. *)
StatesDiffer(states, derived) == ToSet(states) # ToSet(derived)

(* validate_csv_semantic_ir_lifecycle with its source candidate; a blocked *)
(* ledger is not valid.                                                    *)
ValidateLifecycle(l, c) ==
    LET walk == Walked(InitialStates(c), l.history)
        Previous(i) == IF i = 1 THEN NoRecord ELSE l.history[i - 1]
    IN  Holding([semantic_ir_lifecycle_release_version_mismatch |->
                     l.rel \notin Compatible,
                 semantic_ir_lifecycle_payload_too_large |-> LedgerPayload(l) > l.limit,
                 semantic_ir_lifecycle_payload_limit_unbounded |->
                     l.limit > LifecycleLimit,
                 semantic_ir_lifecycle_history_empty |-> l.history = << >>,
                 semantic_ir_transition_count_exceeded |->
                     Len(l.history) > MaxTransitions,
                 semantic_ir_lifecycle_contains_errors |-> l.errors # {},
                 semantic_ir_lifecycle_directory_state_changed |-> l.before # l.after,
                 semantic_ir_lifecycle_source_candidate |->
                     ValidateCandidate(c) # {} \/ ~ CandidateOk(c),
                 semantic_ir_lifecycle_source_candidate_fingerprint_mismatch |->
                     l.candidate # c,
                 semantic_ir_lifecycle_source_candidate_csv_id_mismatch |-> l.csv # c.csv,
                 semantic_ir_lifecycle_duplicate_transition_id |->
                     Duplicates(TransitionIds(l.history)) # {},
                 semantic_ir_lifecycle_duplicate_state_proposition_id |->
                     Duplicates([i \in DOMAIN l.states |-> l.states[i].prop]) # {},
                 semantic_ir_lifecycle_state_set_mismatch |->
                     {s.prop : s \in ToSet(l.states)} # ToSet(PropositionIds(c.props)),
                 semantic_ir_lifecycle_current_state_mismatch |->
                     StatesDiffer(l.states, walk[Len(l.history)])]) \cup
        UNION {RecordFindings(l.history[i], i, l, walk[i - 1], Previous(i)) :
                   i \in DOMAIN l.history}

-----------------------------------------------------------------------------
(* The prior ledger of a transition or of a batch, if one is supplied.     *)
PriorFindings(id, c, prior) ==
    IF prior = NoLedger THEN {}
    ELSE ValidateLifecycle(prior, c) \cup prior.errors \cup
         Holding([semantic_ir_source_lifecycle_not_ready |-> ~ LedgerOk(prior),
                  semantic_ir_source_lifecycle_csv_id_mismatch |-> prior.csv # id])

(* The checks on the candidate before it is replayed. *)
SourceFindings(id, c) ==
    ValidateCandidate(c) \cup c.errors \cup
    Holding([semantic_ir_source_candidate_not_ready |-> ~ CandidateOk(c),
             semantic_ir_source_candidate_csv_id_mismatch |-> c.csv # id])

(* The checks on a request that a transition and a batch item share. *)
RequestFindings(request, states, history) ==
    LET found == StateOf(states, request.prop)
    IN  Holding([transition_id_invalid |-> ~ ValidId(request.transition),
                 proposition_id_invalid |-> ~ ValidId(request.prop),
                 transition_not_admitted |->
                     << request.from, request.to >> \notin AllowedTransitions,
                 reason_invalid |-> request.reason = "",
                 authorization_invalid |-> ~ AuthorizationOk(request.auth),
                 authorization_scope_mismatch |->
                     request.auth.scope # RequiredScope(request.to),
                 duplicate_transition_id |->
                     request.transition \in ToSet(TransitionIds(history)),
                 proposition_not_found |-> found = << >>,
                 predecessor_state_mismatch |->
                     found # << >> /\ Head(found).state # request.from])

(* The record of an admitted request: _make_transition_record. *)
NextRecord(c, states, history, request) ==
    Record(Len(history) + 1, request, c,
           IF history = << >> THEN NoRecord ELSE Last(history),
           Head(StateOf(states, request.prop)).last)

(* The findings, or if there are none those of the next check. *)
Unless(found, more) == IF found # {} THEN found ELSE more

(* What a transition or a batch starts from: found holds the findings on   *)
(* the candidate and its replay, priorErrors those on the prior ledger,    *)
(* which is used only if there are none.                                   *)
StartOf(c, prior, found, priorErrors) ==
    LET used == prior # NoLedger /\ found = {} /\ priorErrors = {}
    IN  [errors |-> found \cup priorErrors, replayed |-> found = {}, used |-> used,
         states |-> IF used THEN prior.states
                    ELSE IF CandidateOk(c) THEN InitialStates(c) ELSE << >>,
         history |-> IF used THEN prior.history ELSE << >>]

StartAfter(id, c, prior, found) ==
    StartOf(c, prior, found,
            IF found # {} THEN {} ELSE PriorFindings(id, c, prior))

(* replay holds what the replay of the candidate finds. *)
Start(id, c, prior, replay) ==
    StartAfter(id, c, prior, Unless(SourceFindings(id, c), replay))

(* A ledger that outgrew its limit is blocked. *)
Bounded(made) ==
    [made EXCEPT !.errors =
        Holding([semantic_ir_lifecycle_payload_too_large |->
                     LedgerPayload(made) > made.limit])]

(* One transition from start: what is wrong with the request, and the      *)
(* ledger.  Blocked, it keeps the states and history it started from,      *)
(* except that one too large carries the new ones.                         *)
TransitionFindings(id, request, start, before, after) ==
    start.errors \cup
    RequestFindings(request, start.states, start.history) \cup
    Holding([semantic_ir_transition_count_exceeded |->
                 Len(start.history) >= MaxTransitions,
             semantic_ir_lifecycle_mutated_tds_directory_state |->
                 Entries(before, id) # Entries(after, id)])

Transition(id, c, request, limit, rel, before, after, start) ==
    LET errors == TransitionFindings(id, request, start, before, after)
        rec == NextRecord(c, start.states, start.history, request)
    IN  IF errors # {}
        THEN Ledger(id, rel, c, start.states, start.history, before, after, limit, errors)
        ELSE Bounded(Ledger(id, rel, c, Advance(start.states, rec),
                            Append(start.history, rec), before, after, limit, {}))

(* prepare_csv_semantic_ir_transition; seen is the state the replay of the *)
(* candidate reads.                                                        *)
PrepareTransition(id, c, request, prior, limit, rel, before, seen, after) ==
    LET bound == AtMost(limit, LifecycleLimit)
    IN  IF ~ ValidId(id)
        THEN Ledger(id, rel, NoCandidate, << >>, << >>, before, before, bound,
                    {"csv_id_unsafe"})
        ELSE Transition(id, c, request, bound, rel, before, after,
                        Start(id, c, prior,
                              ReplayCandidate(id, c, rel, seen, seen, seen)))

(* replay_csv_semantic_ir_lifecycle: every record is prepared again from   *)
(* nothing, until one is refused; sees holds the state each of them reads. *)
Rebuilt(id, c, l, rel, sees) ==
    LET rebuild[i \in 0 .. Len(l.history)] ==
            IF i = 0 THEN NoLedger
            ELSE IF i > 1 /\ ~ LedgerOk(rebuild[i - 1]) THEN rebuild[i - 1]
            ELSE PrepareTransition(id, c, l.history[i].request, rebuild[i - 1],
                                   l.limit, rel, sees[i], sees[i], sees[i])
    IN  rebuild[Len(l.history)]

ReplayFindings(l, rebuilt) ==
    rebuilt.errors \cup
    Holding([semantic_ir_lifecycle_replay_mismatch |->
                 ReplayProjection(l) # ReplayProjection(rebuilt)])

ReplayLifecycle(id, c, l, rel, before, sees, after) ==
    ValidateLifecycle(l, c) \cup
    IF l.history = << >> THEN {"semantic_ir_lifecycle_replay_history_empty"}
    ELSE ReplayFindings(l, Rebuilt(id, c, l, rel, sees)) \cup
         Holding([semantic_ir_lifecycle_replay_mutated_tds_directory_state |->
                      Entries(before, id) # Entries(after, id)])

=============================================================================
