---------------------------- MODULE FrozenStore -----------------------------
(***************************************************************************)
(* ImmutableGenerationStore (generation_store.py): complete images, each   *)
(* in a directory of its own, and the pointer CURRENT.  The store takes no *)
(* locks.  A step is a system call or a read of the directory that other   *)
(* processes and crashes may come between; files are durable once written. *)
(*                                                                         *)
(* A generation is its identifier, which begins with the time: 1 is the    *)
(* oldest.  A process whose operation fails, at a checkpoint or because    *)
(* it dies, stops where it is; both are Stop.                              *)
(***************************************************************************)
EXTENDS Integers, SequencesExt, FiniteSetsExt

CONSTANTS
    Procs,
    MaxGen,         \* how many generations are begun
    Keeps,          \* the retentions asked of prune
    MaxOps,         \* how many operations are called
    MaxStops,       \* how many operations stop half way
    MaxDamage       \* how many files are damaged

VARIABLES
    gen,            \* the directory of each generation: absent, being written
                    \* (dir, data), whole, damaged, in the trash, or deleted
    parent,         \* and the parent its metadata names
    current,        \* CURRENT: a generation, None, or Malformed
    pins,           \* the markers in pins/
    plan,           \* CLEANUP.json: a sequence of generations, or None
    run,            \* what each process is doing
    ops,            \* counters
    stops, damage,
    dropped,        \* has a plan been written over one not finished?
    together,       \* have two operations ever been under way at once?
    promoted        \* the generations CURRENT has named

tally == << ops, stops, damage, dropped, together, promoted >>
StoreVars == << gen, parent, current, pins, plan, run, tally >>

None == 0
Malformed == -1
Gens == 1 .. MaxGen
Resting == [op |-> "none"]

StoreInit ==
    /\ gen = [g \in Gens |-> "absent"]
    /\ parent = [g \in Gens |-> None]
    /\ current = None
    /\ pins = {}
    /\ plan = << >>
    /\ run = [p \in Procs |-> Resting]
    /\ ops = 0
    /\ stops = 0
    /\ damage = 0
    /\ dropped = FALSE
    /\ together = FALSE
    /\ promoted = {}

-----------------------------------------------------------------------------
(* verify, list_generations(valid_only) and _candidate_ids_newest_first:   *)
(* incomplete and damaged generations are rejected, and left alone.        *)
Verifies(g) == g \in Gens /\ gen[g] = "whole"

ValidGens == {g \in Gens : Verifies(g)}

NewestFirst(set) == SetToSortSeq(set, LAMBDA x, y : x > y)

Newest(set, n) == {g \in set : Cardinality({h \in set : h > g}) < n}

(* _protected_generation_ids; reading a malformed CURRENT raises. *)
ProtectedGens(keep) == Newest(ValidGens, keep) \cup {current} \cup pins

At1(p, op, at) == run[p].op = op /\ run[p].at = at
Now1(p, new) == run' = [run EXCEPT ![p] = new]

Start(p, new) ==
    /\ run[p] = Resting
    /\ Now1(p, new)
    /\ ops < MaxOps
    /\ ops' = ops + 1
    /\ together' = (together \/ \E q \in Procs : run[q] # Resting)

-----------------------------------------------------------------------------
(* _commit_chunks. *)

BeginCommit(p) ==
    /\ current # Malformed
    /\ \E g \in Gens :
           /\ gen[g] = "absent" /\ \A h \in 1 .. g - 1 : gen[h] # "absent"
           /\ gen' = [gen EXCEPT ![g] = "dir"]
           /\ \E keep \in {None} \cup Keeps :
                  Start(p, [op |-> "commit", at |-> "data", g |-> g, parent |-> current,
                            keep |-> keep])
    /\ UNCHANGED << parent, current, pins, plan, stops, damage, dropped, promoted >>

WriteImage(p) ==
    /\ At1(p, "commit", "data")
    /\ gen' = [gen EXCEPT ![run[p].g] = "data"]
    /\ Now1(p, [run[p] EXCEPT !.at = "meta"])
    /\ UNCHANGED << parent, current, pins, plan, tally >>

WriteIntegrity(p) ==
    /\ At1(p, "commit", "meta")
    /\ gen' = [gen EXCEPT ![run[p].g] = "whole"]
    /\ parent' = [parent EXCEPT ![run[p].g] = run[p].parent]
    /\ Now1(p, [run[p] EXCEPT !.at = "verify"])
    /\ UNCHANGED << current, pins, plan, tally >>

VerifyCommit(p) ==
    /\ At1(p, "commit", "verify")
    /\ Now1(p, IF Verifies(run[p].g) THEN [run[p] EXCEPT !.at = "promote"] ELSE Resting)
    /\ UNCHANGED << gen, parent, current, pins, plan, tally >>

(* _replace_current, then with immediate cleanup _prune of the policy's    *)
(* retention.                                                              *)
Promote(p) ==
    /\ At1(p, "commit", "promote")
    /\ current' = run[p].g
    /\ promoted' = promoted \cup {run[p].g}
    /\ Now1(p, IF run[p].keep = None THEN Resting
               ELSE [op |-> "prune", at |-> "list", keep |-> run[p].keep])
    /\ UNCHANGED << gen, parent, pins, plan, stops, damage, dropped, together, ops >>

-----------------------------------------------------------------------------
(* recover_report: CURRENT when it verifies, else the newest generation    *)
(* that does; CURRENT is replaced only when repair is asked for.           *)
Recover(p) ==
    /\ ~ Verifies(current)
    /\ ValidGens # {}
    /\ Start(p, [op |-> "recover", at |-> "repair", g |-> Max(ValidGens)])
    /\ UNCHANGED << gen, parent, current, pins, plan, stops, damage, dropped, promoted >>

RepairCurrent(p) ==
    /\ At1(p, "recover", "repair")
    /\ current' = run[p].g
    /\ promoted' = promoted \cup {run[p].g}
    /\ Now1(p, Resting)
    /\ UNCHANGED << gen, parent, pins, plan, stops, damage, dropped, together, ops >>

-----------------------------------------------------------------------------
Pin(p, g) ==
    /\ Verifies(g)
    /\ Start(p, [op |-> "pin", at |-> "marker", g |-> g])
    /\ UNCHANGED << gen, parent, current, pins, plan, stops, damage, dropped, promoted >>

WriteMarker(p) ==
    /\ At1(p, "pin", "marker")
    /\ pins' = pins \cup {run[p].g}
    /\ Now1(p, Resting)
    /\ UNCHANGED << gen, parent, current, plan, tally >>

(* unpin, acknowledged. *)
Unpin(p, g) ==
    /\ run[p] = Resting
    /\ g \in pins
    /\ pins' = pins \ {g}
    /\ UNCHANGED << gen, parent, current, plan, run, tally >>

-----------------------------------------------------------------------------
(* _prune, acknowledged: the valid generations are listed, then the        *)
(* protected ones, and the others are written to the plan.                 *)
Prune(p, keep) ==
    /\ Start(p, [op |-> "prune", at |-> "list", keep |-> keep])
    /\ UNCHANGED << gen, parent, current, pins, plan, stops, damage, dropped, promoted >>

ListValid(p) ==
    /\ At1(p, "prune", "list")
    /\ Now1(p, [run[p] EXCEPT !.at = "plan"] @@ [valid |-> ValidGens])
    /\ UNCHANGED << gen, parent, current, pins, plan, tally >>

Candidates(p) == NewestFirst(run[p].valid \ ProtectedGens(run[p].keep))

WritePlan(p) ==
    /\ At1(p, "prune", "plan")
    /\ LET candidates == Candidates(p)
       IN  IF current = Malformed \/ candidates = << >>
           THEN UNCHANGED << plan, dropped >> /\ Now1(p, Resting)
           ELSE /\ plan' = candidates
                /\ dropped' = (dropped \/ plan # << >>)
                /\ Now1(p, [op |-> "cleanup", at |-> "check", left |-> candidates,
                            seen |-> damage])
    /\ UNCHANGED << gen, parent, current, pins, ops, stops, damage, together, promoted >>

(* resume_cleanup: the plan an interrupted cleanup left. *)
ResumeCleanup(p) ==
    /\ plan # << >>
    /\ Start(p, [op |-> "cleanup", at |-> "check", left |-> plan, seen |-> damage])
    /\ UNCHANGED << gen, parent, current, pins, plan, stops, damage, dropped, promoted >>

(* Mutant: the plan is carried out as it was written. *)
SpareNone(g) == FALSE

(* _execute_cleanup_plan looks again at each candidate.                    *)
Spared(g) == g \in ProtectedGens(1)

CheckCandidate(p) ==
    /\ At1(p, "cleanup", "check")
    /\ run[p].left # << >>
    /\ Now1(p, IF current = Malformed THEN Resting
               ELSE IF Spared(Head(run[p].left)) THEN [run[p] EXCEPT !.left = Tail(@)]
               ELSE [run[p] EXCEPT !.at = "quarantine", !.seen = damage])
    /\ UNCHANGED << gen, parent, current, pins, plan, tally >>

(* _delete_generation_restartable: to the trash, then away.  A candidate   *)
(* that is not there was deleted before.                                   *)
Quarantine(p) ==
    /\ At1(p, "cleanup", "quarantine")
    /\ LET g == Head(run[p].left)
       IN  IF gen[g] \in {"whole", "damaged"}
           THEN gen' = [gen EXCEPT ![g] = "trash"]
           ELSE gen' = gen
    /\ Now1(p, [run[p] EXCEPT !.at = "delete"])
    /\ UNCHANGED << parent, current, pins, plan, tally >>

DeleteTrash(p) ==
    /\ At1(p, "cleanup", "delete")
    /\ LET g == Head(run[p].left)
       IN  gen' = IF gen[g] = "trash" THEN [gen EXCEPT ![g] = "deleted"] ELSE gen
    /\ Now1(p, [run[p] EXCEPT !.at = "check", !.left = Tail(@)])
    /\ UNCHANGED << parent, current, pins, plan, tally >>

(* Mutant: the plan is removed before it is carried out. *)
RemovePlanFirst(p) ==
    /\ At1(p, "cleanup", "check")
    /\ plan' = << >>
    /\ IF run[p].left = << >> THEN Now1(p, Resting) ELSE UNCHANGED run
    /\ UNCHANGED << gen, parent, current, pins, tally >>

RemovePlan(p) ==
    /\ At1(p, "cleanup", "check")
    /\ run[p].left = << >>
    /\ plan' = << >>
    /\ Now1(p, Resting)
    /\ UNCHANGED << gen, parent, current, pins, tally >>

-----------------------------------------------------------------------------
(* A failure at a checkpoint, or the death of the process.                 *)
Stop(p) ==
    /\ run[p] # Resting
    /\ stops < MaxStops
    /\ stops' = stops + 1
    /\ Now1(p, Resting)
    /\ UNCHANGED << gen, parent, current, pins, plan, damage, dropped, together, ops, promoted >>

(* The medium damages a generation, or CURRENT. *)
Damage ==
    /\ damage < MaxDamage
    /\ damage' = damage + 1
    /\ \/ \E g \in ValidGens : gen' = [gen EXCEPT ![g] = "damaged"] /\ UNCHANGED current
       \/ current # None /\ current' = Malformed /\ UNCHANGED gen
    /\ UNCHANGED << parent, pins, plan, run, stops, dropped, together, ops, promoted >>

StoreNext ==
    \/ Damage
    \/ \E p \in Procs :
           \/ BeginCommit(p) \/ WriteImage(p) \/ WriteIntegrity(p)
           \/ VerifyCommit(p) \/ Promote(p)
           \/ Recover(p) \/ RepairCurrent(p)
           \/ \E g \in Gens : Pin(p, g) \/ Unpin(p, g)
           \/ WriteMarker(p)
           \/ \E keep \in Keeps : Prune(p, keep)
           \/ ListValid(p) \/ WritePlan(p) \/ ResumeCleanup(p)
           \/ CheckCandidate(p) \/ Quarantine(p) \/ DeleteTrash(p) \/ RemovePlan(p)
           \/ Stop(p)

-----------------------------------------------------------------------------
(* While operations do not overlap and nothing is damaged, CURRENT names a *)
(* complete generation as soon as one was committed, and every pinned      *)
(* generation is there, whatever operation stopped half way and whatever   *)
(* plan of an earlier cleanup was resumed (_replace_current, pin,          *)
(* _execute_cleanup_plan).                                                 *)
PointerAndPinsHold ==
    ~ together /\ damage = 0 =>
        /\ promoted # {} => Verifies(current)
        /\ \A g \in pins : Verifies(g)

(* Cleanup never takes the newest complete generation, not even when       *)
(* several cleanups, commits and recoveries run at once, nor when an older *)
(* plan is resumed after the generations it spared were damaged: something *)
(* to recover always remains (the recheck of _execute_cleanup_plan with    *)
(* keep=1).  Damage that comes between the recheck and the deletion is     *)
(* beyond it.                                                              *)
CleanupKeepsNewest ==
    [][\A p \in Procs :
           /\ run[p].op = "cleanup"
           /\ damage = 0 \/ (~ together /\ run[p].seen = damage)
           => \A g \in Gens : gen[g] = "whole" /\ gen'[g] = "trash" =>
                  \E h \in Gens : h > g /\ gen'[h] = "whole"]_StoreVars

(* A generation in the trash is under a plan that will delete it: what     *)
(* stopped between the two steps is finished by resume_cleanup, unless     *)
(* cleanups overlapped or a later prune wrote its plan over the unfinished *)
(* one (_delete_generation_restartable, _write_cleanup_plan).              *)
TrashIsPlanned ==
    ~ together /\ ~ dropped /\ damage = 0 =>
        \A g \in Gens : gen[g] = "trash" => Contains(plan, g)

(* The metadata links each generation to the one that was CURRENT, so that *)
(* the generations that do not overlap form one chain in the order of      *)
(* their identifiers, one whose commit stopped and that recovery promoted  *)
(* included (_commit_chunks, recover_report).                              *)
CommitsFormOneChain ==
    ~ together /\ damage = 0 =>
        \A g \in promoted :
            parent[g] = LET older == {h \in promoted : h < g}
                        IN  IF older = {} THEN None ELSE Max(older)

(* The frozen store stays in order through every operation that stops half *)
(* way: CURRENT and the pins name complete generations, the generations    *)
(* form one chain, and what is in the trash will be deleted.               *)
StoreInOrder == PointerAndPinsHold /\ TrashIsPlanned /\ CommitsFormOneChain

=============================================================================
