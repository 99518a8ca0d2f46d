----------------------------- MODULE SemanticIR -----------------------------
(***************************************************************************)
(* The handoff report and the Semantic IR candidate built on it            *)
(* (csv_layer: semantic_handoff.py, semantic_ir.py).                       *)
(*                                                                         *)
(* A directory is a function from CSV ids to the version of the artifacts  *)
(* of that CSV and their provenance; version 0 is a CSV that is not there. *)
(* Which evidence of a version is blocked is what module CsvEvidence       *)
(* computes; here it is a constant.  A fingerprint is the content it is    *)
(* the fingerprint of, and a payload is measured in the items it grows by. *)
(*                                                                         *)
(* Every function of this layer reads the directory several times.  The    *)
(* operators take the states those reads saw: before and after, of the two *)
(* fingerprints, and seen, of the evidence in between.                     *)
(***************************************************************************)
EXTENDS Naturals, Sequences, FiniteSets, SequencesExt

CONSTANTS
    CsvIds,          \* the ids of the CSVs in the directory
    Containing,      \* of an id: the CSVs whose keys contain it
    EvidenceNames,   \* the evidence a handoff must carry
    BlockedEvidence, \* of a version: its evidence that is not ready
    Compatible,      \* the releases whose candidates and ledgers are readable
    MaxPropositions, \* CSV_SEMANTIC_IR_MAX_PROPOSITIONS
    PayloadLimit     \* the largest payload limit a caller can ask for

(* A key contains the id of its own CSV, and every key the empty string.   *)
ASSUME ContainingAssumption ==
    /\ "" \notin CsvIds
    /\ Containing \in [CsvIds \cup {""} -> SUBSET CsvIds]
    /\ \A id \in CsvIds : id \in Containing[id]
    /\ Containing[""] = CsvIds

ValidId(id) == id # ""

Holding(findings) == {f \in DOMAIN findings : findings[f]}

AtMost(limit, bound) == IF limit < bound THEN limit ELSE bound

(* _directory_state_fingerprint of the handoff reads the values under the  *)
(* keys that contain the id, that of the IR their provenance as well.      *)
Files(d, id) == [j \in Containing[id] |-> d[j].version]

Entries(d, id) == [j \in Containing[id] |-> d[j]]

-----------------------------------------------------------------------------
(* CSVSemanticIRHandoffReport. *)
Handoff(id, rel, raw, evidence, before, after, errors) ==
    [csv |-> id, rel |-> rel, raw |-> raw, evidence |-> evidence,
     before |-> Files(before, id), after |-> Files(after, id), errors |-> errors]

BlockedHandoff(id, rel, before, after, error) ==
    Handoff(id, rel, 0, {}, before, after, {error})

(* prepare_csv_semantic_ir_handoff. *)
PrepareHandoff(id, rel, before, seen, after) ==
    IF ~ ValidId(id)
    THEN BlockedHandoff(id, rel, before, after, "csv_id_unsafe")
    ELSE Handoff(id, rel, seen[id].version, EvidenceNames, before, after,
                 BlockedEvidence[seen[id].version] \cup
                 Holding([csv_handoff_mutated_tds_directory_state |->
                              Files(before, id) # Files(after, id)]))

HandoffOk(h) == h.evidence = EvidenceNames /\ h.errors = {}

(* validate_csv_semantic_ir_handoff, in release rel.  A blocked handoff    *)
(* with all its evidence is valid.                                         *)
ValidateHandoff(h, rel) ==
    Holding([required_evidence_missing |-> h.evidence # EvidenceNames,
             suite_release_version_mismatch |-> h.rel # rel,
             raw_sha256_invalid |-> h.raw = 0,
             directory_state_changed |-> h.before # h.after])

UsableHandoff(h, rel) == ValidateHandoff(h, rel) = {} /\ HandoffOk(h)

-----------------------------------------------------------------------------
(* A declaration is [id, meaning, state, evidence]; its kind, scope,       *)
(* locator, predicate and object are its meaning, "" when one is invalid.  *)

PropositionStates == {"proposed", "validated", "contested", "superseded", "committed"}

AcceptedStates == {"proposed"}

(* _validate_declaration against the handoff h. *)
DeclarationFindings(decl, h) ==
    Holding([proposition_id_invalid |-> ~ ValidId(decl.id),
             meaning_invalid |-> decl.meaning = "",
             state_unknown |-> decl.state \notin PropositionStates,
             state_not_admitted_in_foundation |->
                 decl.state \in PropositionStates \ AcceptedStates,
             evidence_names_empty |-> decl.evidence = << >>,
             evidence_reference_count_exceeded |->
                 Len(decl.evidence) > Cardinality(EvidenceNames),
             duplicate_evidence_names |->
                 Cardinality(ToSet(decl.evidence)) # Len(decl.evidence),
             evidence_name_unknown |-> ~ ToSet(decl.evidence) \subseteq EvidenceNames,
             evidence_not_ready |-> ToSet(decl.evidence) \cap h.errors # {}])

(* CSVSemanticIRProposition: its evidence references carry the closure.    *)
Proposition(decl, h) == [decl |-> decl, closure |-> h]

PropositionIds(props) == [i \in DOMAIN props |-> props[i].decl.id]

Duplicates(s) == {v \in ToSet(s) : Cardinality({i \in DOMAIN s : s[i] = v}) > 1}

(* CSVSemanticIRCandidate.  Everything but the payload size is what the    *)
(* fingerprint covers (_candidate_projection).                             *)
Candidate(id, rel, h, raw, props, before, after, limit, errors) ==
    [csv |-> id, rel |-> rel, closure |-> h, raw |-> raw, props |-> props,
     before |-> Entries(before, id), after |-> Entries(after, id),
     limit |-> limit, errors |-> errors]

NoHandoff == [csv |-> ""]

BlockedCandidate(id, rel, before, after, limit, errors) ==
    Candidate(id, rel, NoHandoff, 0, << >>, before, after, limit, errors)

CandidatePayload(c) == Len(c.props)

CandidateOk(c) ==
    /\ c.rel \in Compatible
    /\ c.props # << >>
    /\ Len(c.props) <= MaxPropositions
    /\ Duplicates(PropositionIds(c.props)) = {}
    /\ c.before = c.after
    /\ CandidatePayload(c) <= c.limit
    /\ c.errors = {}

(* The findings on the handoff prepared now, and on the one supplied as    *)
(* the snapshot the caller expects.                                        *)
HandoffFindings(h, supplied, rel) ==
    Holding([semantic_ir_handoff |-> ~ UsableHandoff(h, rel)]) \cup
    IF supplied = NoHandoff THEN {}
    ELSE IF ~ UsableHandoff(supplied, rel)
         THEN ValidateHandoff(supplied, rel) \cup supplied.errors
    ELSE Holding([semantic_ir_source_handoff_csv_id_mismatch |->
                      supplied.csv # h.csv,
                  semantic_ir_source_handoff_stale_or_drifted |-> supplied # h])

(* Only the first MaxPropositions declarations are looked at. *)
Considered(decls) == SubSeq(decls, 1, AtMost(Len(decls), MaxPropositions))

(* The propositions of the declarations with no finding, and what keeps    *)
(* the candidate from being ready.                                         *)
Resolved(decls, h) ==
    LET clean == SelectSeq(Considered(decls), LAMBDA x : DeclarationFindings(x, h) = {})
    IN  [i \in DOMAIN clean |-> Proposition(clean[i], h)]

CandidateFindings(decls, h, before, after, id) ==
    UNION {DeclarationFindings(decl, h) : decl \in ToSet(Considered(decls))} \cup
    Holding([semantic_ir_declarations_empty |-> decls = << >>,
             semantic_ir_proposition_count_exceeded |-> Len(decls) > MaxPropositions,
             duplicate_proposition_id |->
                 Duplicates(PropositionIds(Resolved(decls, h))) # {},
             semantic_ir_candidate_mutated_tds_directory_state |->
                 Entries(before, id) # Entries(after, id)])

(* Mutant: a supplied handoff stands for the current one. *)
SuppliedHandoff(id, rel, seen, supplied) ==
    IF supplied # NoHandoff THEN supplied ELSE PrepareHandoff(id, rel, seen, seen, seen)

(* The handoff is always prepared again, also when one is supplied.        *)
CurrentHandoff(id, rel, seen, supplied) == PrepareHandoff(id, rel, seen, seen, seen)

(* prepare_csv_semantic_ir_candidate. *)
PrepareCandidate(id, decls, optIn, supplied, limit, rel, before, seen, after) ==
    LET bound == AtMost(limit, PayloadLimit)
        h == CurrentHandoff(id, rel, seen, supplied)
        handoffErrors == HandoffFindings(h, supplied, rel)
        made == Candidate(id, rel, h, h.raw, Resolved(decls, h), before, after, bound,
                          CandidateFindings(decls, h, before, after, id))
    IN  CASE ~ ValidId(id) ->
                 BlockedCandidate(id, rel, before, before, bound, {"csv_id_unsafe"})
          [] ValidId(id) /\ ~ optIn ->
                 BlockedCandidate(id, rel, before, after, bound,
                                  {"semantic_ir_explicit_opt_in_required"})
          [] ValidId(id) /\ optIn /\ handoffErrors # {} ->
                 [BlockedCandidate(id, rel, before, after, bound, handoffErrors)
                      EXCEPT !.closure = h, !.raw = h.raw]
          [] OTHER ->
                 [made EXCEPT !.errors = @ \cup
                      Holding([semantic_ir_payload_too_large |->
                                   CandidatePayload(made) > bound])]

(* validate_csv_semantic_ir_candidate: a blocked candidate is not valid.   *)
ValidateCandidate(c) ==
    Holding([duplicate_proposition_id |-> Duplicates(PropositionIds(c.props)) # {},
             suite_release_version_mismatch |-> c.rel \notin Compatible,
             semantic_ir_payload_too_large |-> CandidatePayload(c) > c.limit,
             semantic_ir_payload_limit_unbounded |-> c.limit > PayloadLimit,
             semantic_ir_candidate_contains_errors |-> c.errors # {},
             semantic_ir_candidate_empty |-> c.props = << >>,
             semantic_ir_proposition_count_exceeded |-> Len(c.props) > MaxPropositions,
             semantic_ir_raw_sha256_invalid |-> c.raw = 0,
             semantic_ir_directory_state_changed |-> c.before # c.after,
             handoff_fingerprint_mismatch |->
                 \E i \in DOMAIN c.props : c.props[i].closure # c.closure])

Declarations(c) == [i \in DOMAIN c.props |-> c.props[i].decl]

(* _replay_projection: without the two fingerprints of the directory.      *)
ReplayProjection(r) == [r EXCEPT !.before = << >>, !.after = << >>]

(* replay_csv_semantic_ir_candidate, in release rel.  The candidate is     *)
(* rebuilt inside one read, whose own fingerprints frame it.               *)
ReplayCandidate(id, c, rel, before, seen, after) ==
    LET rebuilt == PrepareCandidate(id, Declarations(c), TRUE, NoHandoff, c.limit,
                                    rel, seen, seen, seen)
    IN  ValidateCandidate(c) \cup rebuilt.errors \cup
        Holding([semantic_ir_replay_mismatch |->
                     ReplayProjection(c) # ReplayProjection(rebuilt),
                 semantic_ir_replay_mutated_tds_directory_state |->
                     Entries(before, id) # Entries(after, id)])

=============================================================================
