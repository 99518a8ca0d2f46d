-------------------------- MODULE EaglegateDecoding --------------------------
(***************************************************************************)
(* Eaglegate's decoding loops: the target alone, the speculative reference *)
(* (exactness_runtime.py), and the runtime adapter (adapter_runtime.py),   *)
(* whose operations adapter_contract.py orders and whose trace it          *)
(* validates.  A proposer suggests tokens; only the target commits.        *)
(*                                                                         *)
(* Each decode is one thread.  A step of the adapter is one operation of   *)
(* its contract with the trace event that records it.  What the proposer   *)
(* answers at a position, and which calls fail, is any choice: no position *)
(* is proposed for twice.  Roots stand for what they are computed from.    *)
(***************************************************************************)
EXTENDS Integers, Sequences

CONSTANTS
    Tokens,
    Requests,   \* what is asked: see RequestType
    Proposals   \* what a proposer may answer

(* The arguments of a run, in the ranges require_int accepts: the target's *)
(* tokens, where the request is cancelled (-1: it is not), whether epoch   *)
(* and identity are the runtime's, and the limits.                         *)
RequestType(r) ==
    /\ r.path \in {"target_only", "speculative_reference", "adapter"}
    /\ r.target \in Seq(Tokens)
    /\ r.cancel \in -1 .. Len(r.target)
    /\ r.epoch \in BOOLEAN
    /\ r.identity \in BOOLEAN
    /\ r.max_candidate_tokens \in Nat \ {0}
    /\ r.max_trace_events \in Nat \ {0}
    /\ r.deadline_ticks \in Nat \ {0}

ASSUME RequestAssumption ==
    /\ \A r \in Requests : RequestType(r)
    /\ Proposals \subseteq Seq(Tokens)

VARIABLES
    request,
    committed,          \* the ledger: tokens committed
    reservations,       \* the reservations it has out
    next_reservation,   \* the next one's number
    target_only,        \* has the reference stopped asking the proposer?
    calls,              \* calls of the proposer
    trace_state,        \* the adapter: state of the trace builder
    events,             \* and its events
    ticks,              \* operations charged to the deadline
    reservation,        \* the reservation in hand, 0 if none
    proposal,           \* the tokens proposed
    accepted,           \* how many of them the target accepts
    fallback,           \* the fault being handled
    status              \* running, returned, raised

local == << reservation, proposal, accepted >>
ledger == << committed, reservations, next_reservation >>
trace == << trace_state, events >>
gateVars == << request, ledger, target_only, calls, trace, ticks, local, fallback, status >>

NoFallback == [fault |-> "none", resume |-> TRUE]

target == request.target
position == Len(committed)
Boundary == IF request.cancel = -1 THEN Len(target) ELSE request.cancel

GateInit ==
    /\ request \in Requests
    /\ committed = << >>
    /\ reservations = {}
    /\ next_reservation = 1
    /\ target_only = (request.path = "target_only" \/ ~ request.epoch)
    /\ calls = 0
    /\ trace_state = "new"
    /\ events = << >>
    /\ ticks = 0
    /\ reservation = 0
    /\ proposal = << >>
    /\ accepted = 0
    /\ fallback = NoFallback
    /\ status = "running"

-----------------------------------------------------------------------------
(* ReferenceKVLedger.                                                      *)
Commit(n) == committed' = committed \o SubSeq(target, position + 1, position + n)

Reserve == /\ next_reservation' = next_reservation + 1
           /\ reservations' = reservations \cup {next_reservation}

ReleaseHeld == reservations' = reservations \ {reservation}

(* The tokens of p before the first that is not the target's.              *)
IsAccepted(p, n) ==
    /\ \A i \in 1 .. n : p[i] = target[position + i]
    /\ n < Len(p) => p[n + 1] # target[position + n + 1]

FirstOf(p, n) == IF Len(p) <= n THEN p ELSE SubSeq(p, 1, n)

-----------------------------------------------------------------------------
(* run_target_only, and run_speculative_reference, which goes on like it   *)
(* after the first failure.                                                *)
Reference == request.path # "adapter" /\ status = "running"

AdapterUnused == UNCHANGED << request, trace, ticks, local, fallback >>

TargetStep ==
    /\ Reference
    /\ target_only
    /\ position < Boundary
    /\ Commit(1)
    /\ AdapterUnused
    /\ UNCHANGED << reservations, next_reservation, target_only, calls, status >>

(* The proposer raises, or has nothing for this position.                  *)
GiveUp ==
    /\ Reference
    /\ ~ target_only
    /\ position < Boundary
    /\ calls' = calls + 1
    /\ target_only' = TRUE
    /\ AdapterUnused
    /\ UNCHANGED << ledger, status >>

(* A round: the reservation is released in the same call.                  *)
Round(p, n) ==
    LET candidate == FirstOf(p, Boundary - position)
        corrected == IF n < Len(candidate) THEN n + 1 ELSE n
    IN  /\ Reference
        /\ ~ target_only
        /\ position < Boundary
        /\ candidate # << >>
        /\ n <= Len(candidate)
        /\ IsAccepted(candidate, n)
        /\ calls' = calls + 1
        /\ next_reservation' = next_reservation + 1
        /\ Commit(corrected)
        /\ AdapterUnused
        /\ UNCHANGED << reservations, target_only, status >>

ReferenceReturn ==
    /\ Reference
    /\ position >= Boundary
    /\ status' = "returned"
    /\ AdapterUnused
    /\ UNCHANGED << ledger, target_only, calls >>

-----------------------------------------------------------------------------
(* ADAPTER_ALLOWED_TRANSITIONS.                                            *)
Allowed ==
    { << "new", "pin", "pinned" >>, << "new", "fallback", "fallback" >>,
      << "pinned", "reserve", "reserved" >>, << "pinned", "fallback", "fallback" >>,
      << "pinned", "close", "closed" >>, << "reserved", "propose", "proposed" >>,
      << "reserved", "cancel", "cancelled" >>, << "proposed", "verify", "verified" >>,
      << "proposed", "cancel", "cancelled" >>, << "verified", "rewind", "rewound" >>,
      << "verified", "commit", "committed" >>, << "verified", "cancel", "cancelled" >>,
      << "rewound", "commit", "committed" >>, << "rewound", "cancel", "cancelled" >>,
      << "committed", "release", "released" >>, << "cancelled", "release", "released" >>,
      << "released", "reserve", "reserved" >>, << "released", "fallback", "fallback" >>,
      << "released", "close", "closed" >>, << "fallback", "close", "closed" >> }

OfReservation == {"reserve", "propose", "verify", "rewind", "commit", "cancel", "release"}
Counted == {"reserve", "propose", "rewind", "commit"}
Uncounted == {"pin", "cancel", "release", "fallback", "close"}

(* AdapterTraceEvent.__post_init__.                                        *)
Wellformed(e) ==
    /\ (e.operation = "commit") = (e.authority = "target-runtime")
    /\ (e.operation = "fallback") = (e.fault # "none")
    /\ (e.operation \in OfReservation) = (e.reservation_id # 0)
    /\ e.operation \in Counted => e.token_count > 0
    /\ e.operation \in Uncounted => e.token_count = 0

(* The event that made the reservation which event i finds active.         *)
Active(s, i) ==
    {j \in 1 .. i - 1 :
        /\ s[j].operation = "reserve"
        /\ \A k \in j + 1 .. i - 1 : s[k].operation # "release"}

(* The pass of EaglegateAdapterTrace.__post_init__ over its events.        *)
Chained(s, i) ==
    /\ s[i].state_before = IF i = 1 THEN "new" ELSE s[i - 1].state_after
    /\ << s[i].state_before, s[i].operation, s[i].state_after >> \in Allowed
    /\ IF s[i].operation \in OfReservation \ {"reserve"}
       THEN \E j \in Active(s, i) : s[j].reservation_id = s[i].reservation_id
       ELSE Active(s, i) = {}

TraceValid(s) ==
    /\ s # << >>
    /\ \A i \in 1 .. Len(s) : Wellformed(s[i]) /\ Chained(s, i)
    /\ s[Len(s)].state_after = "closed"
    /\ Active(s, Len(s) + 1) = {}

(* AdapterTraceBuilder.record: an event too many, or one out of order,     *)
(* raises, whatever has already been done.                                 *)
Record(operation, after, count, id, fault) ==
    LET event == [ operation |-> operation,
                   state_before |-> trace_state,
                   state_after |-> after,
                   token_count |-> count,
                   reservation_id |-> id,
                   authority |-> IF operation = "commit" THEN "target-runtime" ELSE "",
                   fault |-> fault ]
    IN  IF /\ Len(events) < request.max_trace_events
           /\ << trace_state, operation, after >> \in Allowed
           /\ Wellformed(event)
        THEN /\ events' = Append(events, event)
             /\ trace_state' = after
             /\ status' = status
        ELSE /\ status' = "raised"
             /\ UNCHANGED trace

-----------------------------------------------------------------------------
(* run_adapter_conformance_reference.                                      *)
Adapter == request.path = "adapter" /\ status = "running"

InOrder == Adapter /\ fallback = NoFallback

ReferenceUnused == UNCHANGED << request, target_only >>

(* DeterministicOperationClock.consume.                                    *)
InTime == ticks + 1 <= request.deadline_ticks

Charge == ticks' = ticks + 1

FallBack(fault, resume) ==
    /\ fallback' = [fault |-> fault, resume |-> resume]
    /\ UNCHANGED << trace, status >>

AtLoop == trace_state \in {"pinned", "released"}

More == position < Len(target)

CancelDue == request.cancel # -1 /\ position >= request.cancel

Preflight ==
    /\ InOrder
    /\ trace_state = "new"
    /\ IF ~ request.epoch
       THEN FallBack("epoch_mismatch", TRUE) /\ UNCHANGED ticks
       ELSE IF ~ request.identity
       THEN FallBack("identity_mismatch", TRUE) /\ UNCHANGED ticks
       ELSE /\ InTime
            /\ Charge
            /\ Record("pin", "pinned", 0, 0, "none")
            /\ UNCHANGED fallback
    /\ ReferenceUnused
    /\ UNCHANGED << ledger, calls, local >>

(* The clock refuses the operation that comes next.                        *)
DeadlineExceeded ==
    /\ InOrder
    /\ \/ AtLoop /\ More
       \/ trace_state \in {"new", "reserved", "verified", "rewound"}
       \/ trace_state = "proposed" /\ ~ CancelDue
    /\ trace_state = "new" => request.epoch /\ request.identity
    /\ ~ InTime
    /\ FallBack("deadline_exceeded", TRUE)
    /\ ReferenceUnused
    /\ UNCHANGED << ledger, calls, ticks, local >>

CloseComplete ==
    /\ InOrder
    /\ AtLoop
    /\ ~ More
    /\ Record("close", "closed", 0, 0, "none")
    /\ ReferenceUnused
    /\ UNCHANGED << ledger, calls, ticks, local, fallback >>

(* Mutant: the proposer may go past the boundary.                          *)
ExtentToEnd == Len(target) - position

(* A cancelled request is still asked for at its boundary.                 *)
CandidateExtent ==
    LET extent == Len(target) - position
        allowed == request.cancel - position
    IN  IF request.cancel # -1 /\ position < request.cancel /\ allowed < extent
        THEN allowed ELSE extent

CandidateSlots ==
    IF request.max_candidate_tokens < CandidateExtent
    THEN request.max_candidate_tokens ELSE CandidateExtent

AskReservation(exhausted) ==
    /\ InOrder
    /\ AtLoop
    /\ More
    /\ InTime
    /\ Charge
    /\ IF exhausted
       THEN FallBack("resource_exhausted", TRUE) /\ UNCHANGED << ledger, reservation >>
       ELSE /\ Reserve
            /\ reservation' = next_reservation
            /\ Record("reserve", "reserved", CandidateSlots, next_reservation, "none")
            /\ UNCHANGED << committed, fallback >>
    /\ ReferenceUnused
    /\ UNCHANGED << calls, proposal, accepted >>

(* p is << >> too where the proposer raises.                               *)
Propose(p) ==
    LET candidate == FirstOf(p, CandidateSlots)
    IN  /\ InOrder
        /\ trace_state = "reserved"
        /\ InTime
        /\ Charge
        /\ calls' = calls + 1
        /\ IF candidate = << >>
           THEN FallBack("proposer_failure", TRUE) /\ UNCHANGED proposal
           ELSE /\ proposal' = candidate
                /\ Record("propose", "proposed", Len(candidate), reservation, "none")
                /\ UNCHANGED fallback
        /\ ReferenceUnused
        /\ UNCHANGED << ledger, reservation, accepted >>

CancelRequest ==
    /\ InOrder
    /\ trace_state = "proposed"
    /\ CancelDue
    /\ FallBack("request_cancelled", FALSE)
    /\ ReferenceUnused
    /\ UNCHANGED << ledger, calls, ticks, local >>

VerifierFails ==
    /\ InOrder
    /\ trace_state = "proposed"
    /\ ~ CancelDue
    /\ InTime
    /\ Charge
    /\ FallBack("verifier_failure", TRUE)
    /\ ReferenceUnused
    /\ UNCHANGED << ledger, calls, local >>

Verify(n) ==
    /\ InOrder
    /\ trace_state = "proposed"
    /\ ~ CancelDue
    /\ InTime
    /\ Charge
    /\ IF position + Len(proposal) > Len(target)
       THEN status' = "raised" /\ UNCHANGED << trace, accepted >>
       ELSE /\ n <= Len(proposal)
            /\ IsAccepted(proposal, n)
            /\ accepted' = n
            /\ Record("verify", "verified", n, reservation, "none")
    /\ ReferenceUnused
    /\ UNCHANGED << ledger, calls, reservation, proposal, fallback >>

Rejected == Len(proposal) - accepted

Rewind ==
    /\ InOrder
    /\ trace_state = "verified"
    /\ Rejected > 0
    /\ InTime
    /\ Charge
    /\ Record("rewind", "rewound", Rejected, reservation, "none")
    /\ ReferenceUnused
    /\ UNCHANGED << ledger, calls, local, fallback >>

CommitLength == IF Rejected > 0 THEN accepted + 1 ELSE accepted

CommitVerified ==
    /\ InOrder
    /\ trace_state \in {"verified", "rewound"}
    /\ trace_state = "verified" => Rejected = 0
    /\ InTime
    /\ Charge
    /\ Commit(CommitLength)
    /\ Record("commit", "committed", CommitLength, reservation, "none")
    /\ ReferenceUnused
    /\ UNCHANGED << reservations, next_reservation, calls, local, fallback >>

ReleaseCommitted ==
    /\ InOrder
    /\ trace_state = "committed"
    /\ ReleaseHeld
    /\ Record("release", "released", 0, reservation, "none")
    /\ reservation' = 0
    /\ ReferenceUnused
    /\ UNCHANGED << committed, next_reservation, calls, ticks, proposal, accepted, fallback >>

-----------------------------------------------------------------------------
(* finish_fallback, an operation at a time.                                *)
InFallback == Adapter /\ fallback # NoFallback

CancelHeld ==
    /\ InFallback
    /\ reservation # 0
    /\ trace_state # "cancelled"
    /\ Record("cancel", "cancelled", 0, reservation, "none")
    /\ ReferenceUnused
    /\ UNCHANGED << ledger, calls, ticks, local, fallback >>

ReleaseCancelled ==
    /\ InFallback
    /\ trace_state = "cancelled"
    /\ ReleaseHeld
    /\ Record("release", "released", 0, reservation, "none")
    /\ reservation' = 0
    /\ ReferenceUnused
    /\ UNCHANGED << committed, next_reservation, calls, ticks, proposal, accepted, fallback >>

(* Mutant: the reservation in hand is not cancelled first.                 *)
FallBackAtOnce ==
    /\ InFallback
    /\ trace_state \notin {"fallback", "closed"}
    /\ Record("fallback", "fallback", 0, 0, fallback.fault)
    /\ ReferenceUnused
    /\ UNCHANGED << ledger, calls, ticks, local, fallback >>

EnterFallback ==
    /\ InFallback
    /\ reservation = 0
    /\ trace_state \notin {"fallback", "closed"}
    /\ Record("fallback", "fallback", 0, 0, fallback.fault)
    /\ ReferenceUnused
    /\ UNCHANGED << ledger, calls, ticks, local, fallback >>

CloseFallback ==
    /\ InFallback
    /\ trace_state = "fallback"
    /\ IF fallback.resume
       THEN Commit(Boundary - position)
       ELSE UNCHANGED committed
    /\ Record("close", "closed", 0, 0, "none")
    /\ ReferenceUnused
    /\ UNCHANGED << reservations, next_reservation, calls, ticks, local, fallback >>

(* trace.finish and the outcome.                                           *)
AdapterReturn ==
    /\ Adapter
    /\ trace_state = "closed"
    /\ status' = IF TraceValid(events) THEN "returned" ELSE "raised"
    /\ ReferenceUnused
    /\ UNCHANGED << ledger, calls, trace, ticks, local, fallback >>

GateNext ==
    \/ TargetStep
    \/ GiveUp
    \/ \E p \in Proposals : \E n \in 0 .. Len(p) : Round(p, n)
    \/ ReferenceReturn
    \/ Preflight
    \/ DeadlineExceeded
    \/ CloseComplete
    \/ \E exhausted \in BOOLEAN : AskReservation(exhausted)
    \/ \E p \in Proposals : Propose(p)
    \/ CancelRequest
    \/ VerifierFails
    \/ \E n \in 0 .. Len(proposal) : Verify(n)
    \/ Rewind
    \/ CommitVerified
    \/ ReleaseCommitted
    \/ CancelHeld
    \/ ReleaseCancelled
    \/ EnterFallback
    \/ CloseFallback
    \/ AdapterReturn

GateSpec == GateInit /\ [][GateNext]_gateVars

-----------------------------------------------------------------------------
(* Every decode, whichever loop it takes, wherever the proposer, the       *)
(* verifier, the deadline or a cancellation interrupts it, commits the     *)
(* target's own tokens in order and returns with all of them up to its     *)
(* boundary and no reservation held (_paired_check of adapter_suite.py).   *)
Promise == INSTANCE TargetDecoding WITH
    wanted <- SubSeq(request.target, 1, Boundary),
    output <- committed,
    holding <- (reservations # {}),
    outcome <- status

DecodesAsTarget == Promise!Spec

(* The contract and the loop agree: the adapter raises only where the      *)
(* trace is full, a closed trace is one the validator accepts, and where   *)
(* epoch or identity are not the runtime's the proposer is never asked.    *)
TracesAccepted ==
    /\ status = "raised" => Len(events) = request.max_trace_events
    /\ trace_state = "closed" => TraceValid(events)
    /\ ~ (request.epoch /\ (request.identity \/ request.path # "adapter")) => calls = 0

=============================================================================
