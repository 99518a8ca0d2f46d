---------------------------- MODULE SegmentStore ----------------------------
(***************************************************************************)
(* ImmutableSegmentStore of segment_store.py.                              *)
(*                                                                         *)
(* A generation is a directory with a manifest that names content-         *)
(* addressed segment files; SEGMENT_CURRENT names one generation.          *)
(* Commits, deletions and garbage collection exclude one another with a    *)
(* lock directory, which outlives the process that made it.  Recovery      *)
(* looks for a generation before it takes that lock.                       *)
(*                                                                         *)
(* Generation identifiers begin with the time they were made at under the  *)
(* lock: they are numbered here in that order.  The bytes of a commit are  *)
(* abstracted to the set of segments they are cut into.                    *)
(***************************************************************************)
EXTENDS Integers, FiniteSets

CONSTANTS
    Processes,        \* processes with the store open
    Segments,         \* segment contents
    None,             \* no process: the lock directory does not exist
    Orphan,           \* the lock directory was left by a process that died
    MaxGenerations,   \* bound: generations made in a behaviour
    MaxFailures,      \* bound: exceptions, crashes and damaged files
    Damageable,       \* the segments whose file may be damaged
    ExclusiveRecovery \* does recover_current run while nothing else does?

ASSUME SegmentsAssumption ==
    /\ Damageable \subseteq Segments
    /\ None \notin Processes
    /\ Orphan \notin Processes
    /\ None # Orphan
    /\ MaxGenerations \in Nat
    /\ MaxFailures \in Nat
    /\ ExclusiveRecovery \in BOOLEAN

VARIABLES
    pc,         \* where each process is in its operation
    task,       \* the operation each process is in
    gen,        \* its generation_id
    todo,       \* the segments it has left to store or to sweep
    seen,       \* the segments of its manifest; the damage it has scanned
    lockdir,    \* .segment-mutation.lock: who made it
    generation, \* segment-generations/: what is in each directory
    refs,       \* the segments each manifest names
    last,       \* the last identifier given out
    files,      \* segments/: the files
    damaged,    \* the files whose bytes do not match their name
    current,    \* SEGMENT_CURRENT, 0 if there is none
    failures    \* exceptions, crashes and damaged files so far

(* The local variables of the operations. *)
locals == << task, gen, todo, seen >>

(* What is on disk. *)
disk == << generation, refs, last, files, damaged, current >>

vars == << pc, locals, lockdir, disk, failures >>

Ids == 1 .. MaxGenerations

Tasks == {"none", "commit", "delete", "collect", "recover", "raised"}

Steps == {"idle", "make", "store", "publish", "check", "remove", "scan",
          "sweep", "list", "relock", "repair", "unlock"}

TypeOK ==
    /\ pc \in [Processes -> Steps]
    /\ task \in [Processes -> Tasks]
    /\ gen \in [Processes -> 0 .. MaxGenerations]
    /\ todo \in [Processes -> SUBSET Segments]
    /\ seen \in [Processes -> SUBSET Segments]
    /\ lockdir \in Processes \cup {None, Orphan}
    /\ generation \in [Ids -> {"absent", "incomplete", "complete"}]
    /\ refs \in [Ids -> SUBSET Segments]
    /\ last \in 0 .. MaxGenerations
    /\ files \in SUBSET Segments
    /\ damaged \in SUBSET Segments
    /\ current \in 0 .. MaxGenerations
    /\ failures \in Nat

Init ==
    /\ pc = [p \in Processes |-> "idle"]
    /\ task = [p \in Processes |-> "none"]
    /\ gen = [p \in Processes |-> 0]
    /\ todo = [p \in Processes |-> {}]
    /\ seen = [p \in Processes |-> {}]
    /\ lockdir = None
    /\ generation = [g \in Ids |-> "absent"]
    /\ refs = [g \in Ids |-> {}]
    /\ last = 0
    /\ files = {}
    /\ damaged = {}
    /\ current = 0
    /\ failures = 0

(* verify: the manifest is there, and so is every segment with its bytes. *)
Verifies(g) ==
    /\ g \in Ids
    /\ generation[g] = "complete"
    /\ refs[g] \subseteq files \ damaged

(* _reference_scan: the directories that do not verify, and the segments   *)
(* of the ones that do.                                                    *)
Invalid == {g \in Ids : generation[g] # "absent" /\ ~ Verifies(g)}

(* Mutant: only the current generation is looked at. *)
ReferencedByCurrent == IF Verifies(current) THEN refs[current] ELSE {}

Referenced == UNION {refs[g] : g \in {h \in Ids : Verifies(h)}}

(* Does another process stay out of p's way as the recovery policy asks? *)
Undisturbed(p, kind) ==
    ExclusiveRecovery =>
        \A q \in Processes \ {p} :
            pc[q] # "idle" => kind # "recover" /\ task[q] # "recover"

-----------------------------------------------------------------------------
(* _mutation_lock.  When the directory exists the operation raises before  *)
(* it has changed anything.                                                *)

LockDirFree == lockdir = None

Goto(p, step) == pc' = [pc EXCEPT ![p] = step]

Start(p, kind, step, g, content) ==
    /\ pc[p] = "idle"
    /\ Undisturbed(p, kind)
    /\ Goto(p, step)
    /\ task' = [task EXCEPT ![p] = kind]
    /\ gen' = [gen EXCEPT ![p] = g]
    /\ todo' = [todo EXCEPT ![p] = content]
    /\ seen' = [seen EXCEPT ![p] = content]

(* The operation is over: its local variables are gone. *)
Stop(p) ==
    /\ Goto(p, "idle")
    /\ task' = [task EXCEPT ![p] = "none"]
    /\ gen' = [gen EXCEPT ![p] = 0]
    /\ todo' = [todo EXCEPT ![p] = {}]
    /\ seen' = [seen EXCEPT ![p] = {}]

(* An exception on its way out of the with block. *)
Abort(p) ==
    /\ Goto(p, "unlock")
    /\ task' = [task EXCEPT ![p] = "raised"]
    /\ UNCHANGED << gen, todo, seen >>

(* Leaving the with block, by return or by exception, removes the lock. *)
Unlock(p) ==
    /\ pc[p] = "unlock"
    /\ lockdir' = None
    /\ Stop(p)
    /\ UNCHANGED << disk, failures >>

-----------------------------------------------------------------------------
(* commit_stream *)

CommitBegin(p, content) ==
    /\ LockDirFree
    /\ last < MaxGenerations
    /\ Start(p, "commit", "make", 0, content)
    /\ lockdir' = p
    /\ UNCHANGED << disk, failures >>

(* A new identifier, and its directory. *)
MakeGeneration(p) ==
    /\ pc[p] = "make"
    /\ last' = last + 1
    /\ generation' = [generation EXCEPT ![last + 1] = "incomplete"]
    /\ gen' = [gen EXCEPT ![p] = last + 1]
    /\ Goto(p, "store")
    /\ UNCHANGED << task, todo, seen, lockdir, refs, files, damaged, current,
                    failures >>

(* _store_segment: an existing file is verified and reused. *)
StoreSegment(p, s) ==
    /\ pc[p] = "store"
    /\ s \in todo[p]
    /\ IF s \in damaged
         THEN Abort(p) /\ UNCHANGED files
         ELSE /\ files' = files \cup {s}
              /\ todo' = [todo EXCEPT ![p] = @ \ {s}]
              /\ UNCHANGED << pc, task, gen, seen >>
    /\ UNCHANGED << lockdir, generation, refs, last, damaged, current, failures >>

(* The manifest is written once, whole: a partial one does not verify. *)
WriteManifest(p) ==
    /\ pc[p] = "store"
    /\ todo[p] = {}
    /\ generation' = [generation EXCEPT ![gen[p]] = "complete"]
    /\ refs' = [refs EXCEPT ![gen[p]] = seen[p]]
    /\ Goto(p, "publish")
    /\ UNCHANGED << locals, lockdir, last, files, damaged, current, failures >>

(* verify, then _replace_current. *)
Publish(p) ==
    /\ pc[p] = "publish"
    /\ IF Verifies(gen[p])
         THEN current' = gen[p] /\ Goto(p, "unlock") /\ UNCHANGED locals
         ELSE Abort(p) /\ UNCHANGED current
    /\ UNCHANGED << lockdir, generation, refs, last, files, damaged, failures >>

-----------------------------------------------------------------------------
(* delete_generation *)

DeleteBegin(p, g) ==
    /\ LockDirFree
    /\ Start(p, "delete", "check", g, {})
    /\ lockdir' = p
    /\ UNCHANGED << disk, failures >>

(* The current generation, and one that does not verify, stay. *)
DeleteManifest(p) ==
    /\ pc[p] = "check"
    /\ IF gen[p] # current /\ Verifies(gen[p])
         THEN /\ generation' = [generation EXCEPT ![gen[p]] = "incomplete"]
              /\ Goto(p, "remove")
              /\ UNCHANGED locals
         ELSE Abort(p) /\ UNCHANGED generation
    /\ UNCHANGED << lockdir, refs, last, files, damaged, current, failures >>

RemoveDirectory(p) ==
    /\ pc[p] = "remove"
    /\ generation' = [generation EXCEPT ![gen[p]] = "absent"]
    /\ Goto(p, "unlock")
    /\ UNCHANGED << locals, lockdir, refs, last, files, damaged, current,
                    failures >>

-----------------------------------------------------------------------------
(* collect_unreferenced_segments(dry_run=False); the dry run only reports. *)

CollectBegin(p) ==
    /\ LockDirFree
    /\ Start(p, "collect", "scan", 0, {})
    /\ lockdir' = p
    /\ UNCHANGED << disk, failures >>

(* A generation that does not verify blocks the collection. *)
CollectScan(p) ==
    /\ pc[p] = "scan"
    /\ IF Invalid = {}
         THEN /\ todo' = [todo EXCEPT ![p] = files \ Referenced]
              /\ seen' = [seen EXCEPT ![p] = damaged]
              /\ Goto(p, "sweep")
         ELSE /\ Goto(p, "unlock")
              /\ UNCHANGED << todo, seen >>
    /\ UNCHANGED << task, gen, lockdir, disk, failures >>

(* Mutant: the generations are not verified again for each candidate. *)
SweepAsScanned(p, s) ==
    /\ pc[p] = "sweep"
    /\ s \in todo[p]
    /\ todo' = [todo EXCEPT ![p] = @ \ {s}]
    /\ files' = files \ {s}
    /\ damaged' = damaged \ {s}
    /\ UNCHANGED << pc, task, gen, seen, lockdir, generation, refs, last, current,
                    failures >>

(* Each candidate is looked up again before its file is removed, and a     *)
(* candidate whose file changed since the scan is kept.                    *)
Sweep(p, s) ==
    /\ pc[p] = "sweep"
    /\ s \in todo[p]
    /\ IF Invalid # {}
         THEN /\ todo' = [todo EXCEPT ![p] = {}]
              /\ UNCHANGED << files, damaged >>
         ELSE /\ todo' = [todo EXCEPT ![p] = @ \ {s}]
              /\ IF s \notin Referenced /\ (s \in damaged <=> s \in seen[p])
                   THEN files' = files \ {s} /\ damaged' = damaged \ {s}
                   ELSE UNCHANGED << files, damaged >>
    /\ UNCHANGED << pc, task, gen, seen, lockdir, generation, refs, last, current,
                    failures >>

CollectEnd(p) ==
    /\ pc[p] = "sweep"
    /\ todo[p] = {}
    /\ Goto(p, "unlock")
    /\ UNCHANGED << locals, lockdir, disk, failures >>

-----------------------------------------------------------------------------
(* recover_current *)

(* A current generation that verifies is returned as it is; otherwise the  *)
(* directories are listed.                                                 *)
RecoverBegin(p) ==
    /\ ~ Verifies(current)
    /\ Start(p, "recover", "list", last, {})
    /\ UNCHANGED << lockdir, disk, failures >>

(* Mutant: they are verified oldest first. *)
RecoverListOldest(p) ==
    /\ pc[p] = "list"
    /\ IF \A g \in Ids : ~ Verifies(g)
         THEN Stop(p)
         ELSE /\ gen' = [gen EXCEPT ![p] =
                           CHOOSE g \in Ids : Verifies(g)
                                 /\ \A h \in 1 .. g - 1 : ~ Verifies(h)]
              /\ Goto(p, "relock")
              /\ UNCHANGED << task, todo, seen >>
    /\ UNCHANGED << lockdir, disk, failures >>

(* They are verified one by one, newest first; the newest that verifies is *)
(* selected.  When none does, recovery fails.                              *)
RecoverList(p) ==
    /\ pc[p] = "list"
    /\ IF gen[p] = 0
         THEN Stop(p)
         ELSE IF Verifies(gen[p])
                THEN Goto(p, "relock") /\ UNCHANGED locals
                ELSE /\ gen' = [gen EXCEPT ![p] = @ - 1]
                     /\ UNCHANGED << pc, task, todo, seen >>
    /\ UNCHANGED << lockdir, disk, failures >>

RecoverLock(p) ==
    /\ pc[p] = "relock"
    /\ IF LockDirFree
         THEN lockdir' = p /\ Goto(p, "repair") /\ UNCHANGED locals
         ELSE Stop(p) /\ UNCHANGED lockdir
    /\ UNCHANGED << disk, failures >>

(* The selection is written as it was made before the lock was taken. *)
RecoverReplace(p) ==
    /\ pc[p] = "repair"
    /\ current' = gen[p]
    /\ Goto(p, "unlock")
    /\ UNCHANGED << locals, lockdir, generation, refs, last, files, damaged,
                    failures >>

-----------------------------------------------------------------------------
(* Failures. *)

Fail == failures < MaxFailures /\ failures' = failures + 1

(* An exception inside the with block: what was written stays. *)
Raise(p) ==
    /\ Fail
    /\ lockdir = p
    /\ pc[p] # "unlock"
    /\ Abort(p)
    /\ UNCHANGED << lockdir, disk >>

(* The process dies: its lock directory stays. *)
Crash(p) ==
    /\ Fail
    /\ pc[p] # "idle"
    /\ Stop(p)
    /\ lockdir' = IF lockdir = p THEN Orphan ELSE lockdir
    /\ UNCHANGED disk

(* An operator removes the lock of a process known to be dead. *)
RemoveOrphan ==
    /\ lockdir = Orphan
    /\ lockdir' = None
    /\ UNCHANGED << pc, locals, disk, failures >>

(* A segment file is damaged on the medium. *)
Damage(s) ==
    /\ Fail
    /\ s \in files \ damaged
    /\ damaged' = damaged \cup {s}
    /\ UNCHANGED << pc, locals, lockdir, generation, refs, last, files, current >>

Next ==
    \/ \E p \in Processes :
          \/ \E content \in SUBSET Segments \ {{}} : CommitBegin(p, content)
          \/ MakeGeneration(p)
          \/ \E s \in Segments : StoreSegment(p, s) \/ Sweep(p, s)
          \/ WriteManifest(p)
          \/ Publish(p)
          \/ \E g \in Ids : DeleteBegin(p, g)
          \/ DeleteManifest(p)
          \/ RemoveDirectory(p)
          \/ CollectBegin(p)
          \/ CollectScan(p)
          \/ CollectEnd(p)
          \/ RecoverBegin(p)
          \/ RecoverList(p)
          \/ RecoverLock(p)
          \/ RecoverReplace(p)
          \/ Unlock(p)
          \/ Raise(p)
          \/ Crash(p)
    \/ RemoveOrphan
    \/ \E s \in Damageable : Damage(s)

Spec == Init /\ [][Next]_vars

-----------------------------------------------------------------------------

(* Garbage collection, deduplication and deletion, in any order and with   *)
(* any of them cut short, never take a segment file from a generation      *)
(* whose manifest is in place.                                             *)
RetainedIntact ==
    \A g \in Ids : generation[g] = "complete" => refs[g] \subseteq files

(* SEGMENT_CURRENT is only ever replaced by a generation that is complete: *)
(* its directory, its manifest and all of its segment files exist.  What   *)
(* commit publishes verified at that moment, and recovery leaves a         *)
(* generation only when it does not verify, for the newest that does: an   *)
(* acknowledged commit stays current until a later one replaces it.        *)
PublicationsStand ==
    [][current' # current =>
          /\ generation[current'] = "complete"
          /\ refs[current'] \subseteq files
          /\ \/ Verifies(current') /\ \E p \in Processes : pc[p] = "publish"
             \/ ~ Verifies(current) /\ \A g \in Ids : g > current' => ~ Verifies(g)]_vars

(* While a generation does not verify its references are not known, and    *)
(* collection removes nothing: what is removed is a segment that no        *)
(* directory under segment-generations/ can name.                          *)
CollectFailsClosed ==
    [][\A s \in files \ files' : Invalid = {} /\ s \notin Referenced]_vars

(* Why RetainedIntact holds: the steps that change files or manifests are  *)
(* the lock holder's, and what a commit has stored is there until its      *)
(* manifest names it.                                                      *)
Mutating == {"make", "store", "publish", "check", "remove", "scan", "sweep",
             "repair", "unlock"}

MutationsLocked ==
    \A p \in Processes :
        /\ pc[p] \in Mutating => lockdir = p
        /\ pc[p] = "make" => last < MaxGenerations
        /\ pc[p] \in {"store", "publish", "check", "remove"} => gen[p] \in Ids
        /\ pc[p] \in {"make", "store"} => seen[p] \ todo[p] \subseteq files

(* Segments left by a failed commit "are reclaimed only by GC": after a    *)
(* collection that ran to its end, no unreferenced file is left. It does   *)
(* not hold: the directory the failed commit leaves blocks every later     *)
(* collection.                                                             *)
CollectReclaims ==
    \A p \in Processes :
        pc[p] = "unlock" /\ task[p] = "collect" => files \subseteq Referenced

=============================================================================
