-------------------------- MODULE ControlledStorage --------------------------
(***************************************************************************)
(* ControlledStorage of storage_activation.py, with the operations of      *)
(* GuaranteedStorageBridge (guaranteed_storage.py) that it calls.          *)
(*                                                                         *)
(* STORAGE_MODE.json says where the data is: in a legacy mount, that is    *)
(* flushed file by file, or in the current generation of the segment       *)
(* store.  Qualification copies the mount into a generation and writes a   *)
(* receipt, activation makes that generation authoritative, and rollback   *)
(* makes a new mount out of the current generation.                        *)
(*                                                                         *)
(* The data is the version of every file of the image; the n-th commit     *)
(* writes version n.  The segment store appears as its contract: under     *)
(* the mutation lock a generation is published whole or not at all         *)
(* (SegmentStore).                                                         *)
(***************************************************************************)
EXTENDS Integers, FiniteSets

CONSTANTS
    Committers,     \* processes that call commit_filesystem
    Admins,         \* processes that qualify, activate and roll back
    Files,          \* the files of a mount
    None,           \* no process, no mount
    Orphan,         \* the mutation lock was left by a process that died
    MaxCommits,     \* bound: commits begun
    MaxGenerations, \* bound: segment generations published
    MaxMounts,      \* bound: legacy mounts
    MaxFailures,    \* bound: exceptions and crashes
    Quiescent       \* do activation and rollback run while nothing else does?

ASSUME ControlAssumption ==
    /\ Committers \cap Admins = {}
    /\ None \notin Committers \cup Admins
    /\ Orphan \notin Committers \cup Admins
    /\ None # Orphan
    /\ MaxCommits \in Nat
    /\ None \notin [Files -> 0 .. MaxCommits]
    /\ MaxGenerations \in Nat
    /\ MaxMounts \in Nat \ {0}
    /\ MaxFailures \in Nat
    /\ Quiescent \in BOOLEAN

VARIABLES
    pc,       \* where each process is in its operation
    task,     \* the operation each process is in
    record,   \* the mode record its status() returned
    gen,      \* the generation it works on
    prior,    \* the pointer its qualification replaced
    before,   \* its first snapshot of the mount
    again,    \* the snapshot commit_mount_segmented takes
    todo,     \* the files it has left to flush
    version,  \* the commit it makes
    dest,     \* the mount its rollback made
    mode,     \* STORAGE_MODE.json
    mounts,   \* the legacy mounts: the version of each file
    images,   \* the image each generation holds
    last,     \* the last generation published
    current,  \* SEGMENT_CURRENT, 0 if there is none
    receipts, \* activation-qualifications/
    lockdir,  \* .segment-mutation.lock: who made it
    begun,    \* commits begun
    acked,    \* the last commit that returned
    failures  \* exceptions and crashes so far

locals == << task, record, gen, prior, before, again, todo, version, dest >>

disk == << mode, mounts, images, last, current, receipts >>

vars == << pc, locals, disk, lockdir, begun, acked, failures >>

Processes == Committers \cup Admins

Ids == 1 .. MaxGenerations

Image == [Files -> 0 .. MaxCommits]

Mounts == 1 .. MaxMounts

(* STORAGE_MODE.json.  A receipt is named by the generation it is about. *)
ModeRecord == [mode : {"legacy", "segmented"},
               revision : Nat,
               mount : Mounts,
               qualification : 0 .. MaxGenerations,
               generation : 0 .. MaxGenerations]

Qualification == [mount : Mounts, generation : Ids, inventory : Image]

Tasks == {"none", "commit", "qualify", "activate", "rollback"}

Steps == {"idle", "status", "flush", "snapshot", "copy", "lock", "store",
          "archive", "check", "compare", "receipt", "restore", "repoint",
          "revalidate", "materialize", "publish", "unlock"}

Blank == [f \in Files |-> 0]

TypeOK ==
    /\ pc \in [Processes -> Steps]
    /\ task \in [Processes -> Tasks]
    /\ record \in [Processes -> ModeRecord]
    /\ gen \in [Processes -> 0 .. MaxGenerations]
    /\ prior \in [Processes -> 0 .. MaxGenerations]
    /\ before \in [Processes -> Image]
    /\ again \in [Processes -> Image]
    /\ todo \in [Processes -> SUBSET Files]
    /\ version \in [Processes -> 0 .. MaxCommits]
    /\ dest \in [Processes -> 0 .. MaxMounts]
    /\ mode \in ModeRecord
    /\ mounts \in [Mounts -> Image \cup {None}]
    /\ images \in [Ids -> Image]
    /\ last \in 0 .. MaxGenerations
    /\ current \in 0 .. last
    /\ receipts \in SUBSET Qualification
    /\ lockdir \in Processes \cup {None, Orphan}
    /\ begun \in 0 .. MaxCommits
    /\ acked \in 0 .. begun
    /\ failures \in 0 .. MaxFailures

(* Without a mode record the default mount is authoritative. *)
DefaultState == [mode |-> "legacy", revision |-> 0, mount |-> 1,
                 qualification |-> 0, generation |-> 0]

Init ==
    /\ pc = [p \in Processes |-> "idle"]
    /\ task = [p \in Processes |-> "none"]
    /\ record = [p \in Processes |-> DefaultState]
    /\ gen = [p \in Processes |-> 0]
    /\ prior = [p \in Processes |-> 0]
    /\ before = [p \in Processes |-> Blank]
    /\ again = [p \in Processes |-> Blank]
    /\ todo = [p \in Processes |-> {}]
    /\ version = [p \in Processes |-> 0]
    /\ dest = [p \in Processes |-> 0]
    /\ mode = DefaultState
    /\ mounts = [m \in Mounts |-> IF m = 1 THEN Blank ELSE None]
    /\ images = [g \in Ids |-> Blank]
    /\ last = 0
    /\ current = 0
    /\ receipts = {}
    /\ lockdir = None
    /\ begun = 0
    /\ acked = 0
    /\ failures = 0

(* What active_mount yields: the data as a reader sees it. *)
ActiveMount ==
    IF mode.mode = "legacy" THEN mounts[mode.mount] ELSE images[current]

(* status() of a segmented mode record: the receipt is there and matches,  *)
(* and there is a current generation.                                      *)
StatusReads(m) ==
    /\ \E r \in receipts : r.generation = m.qualification
                           /\ r.generation = m.generation
    /\ current # 0

Goto(p, step) == pc' = [pc EXCEPT ![p] = step]

(* The operation is over: its local variables are gone. *)
Stop(p) ==
    /\ Goto(p, "idle")
    /\ task' = [task EXCEPT ![p] = "none"]
    /\ record' = [record EXCEPT ![p] = DefaultState]
    /\ gen' = [gen EXCEPT ![p] = 0]
    /\ prior' = [prior EXCEPT ![p] = 0]
    /\ before' = [before EXCEPT ![p] = Blank]
    /\ again' = [again EXCEPT ![p] = Blank]
    /\ todo' = [todo EXCEPT ![p] = {}]
    /\ version' = [version EXCEPT ![p] = 0]
    /\ dest' = [dest EXCEPT ![p] = 0]

Release(p) == lockdir' = IF lockdir = p THEN None ELSE lockdir

(* An exception leaves the operation and the mutation lock. *)
Abandon(p) == Stop(p) /\ Release(p)

Undisturbed(p, kind) ==
    LET Moves(k) == k \in {"activate", "rollback"}
    IN  Quiescent => \A q \in Processes \ {p} :
                        pc[q] # "idle" => ~ Moves(kind) /\ ~ Moves(task[q])

Source(p) == mounts[record[p].mount]

-----------------------------------------------------------------------------
(* Every operation begins with status(): the mode record is read here, the *)
(* pointer of the segment store in a step of its own.  An operation that   *)
(* the mode does not allow raises and changes nothing.                     *)

Begin(p, kind, step) ==
    /\ pc[p] = "idle"
    /\ Undisturbed(p, kind)
    /\ Goto(p, IF mode.mode = "legacy" THEN step ELSE "status")
    /\ task' = [task EXCEPT ![p] = kind]
    /\ record' = [record EXCEPT ![p] = mode]
    /\ UNCHANGED << gen, prior, before, again, dest, disk, lockdir, acked,
                    failures >>

CommitBegin(p) ==
    /\ begun < MaxCommits
    /\ Begin(p, "commit", "flush")
    /\ begun' = begun + 1
    /\ version' = [version EXCEPT ![p] = begun + 1]
    /\ todo' = [todo EXCEPT ![p] = Files]

QualifyBegin(p) ==
    /\ mode.mode = "legacy"
    /\ Begin(p, "qualify", "snapshot")
    /\ UNCHANGED << todo, version, begun >>

ActivateBegin(p) ==
    /\ mode.mode = "legacy"
    /\ receipts # {}
    /\ Begin(p, "activate", "snapshot")
    /\ UNCHANGED << todo, version, begun >>

RollbackBegin(p) ==
    /\ mode.mode = "segmented"
    /\ Begin(p, "rollback", "status")
    /\ UNCHANGED << todo, version, begun >>

(* The rest of status() in segmented mode. *)
ReadStatus(p) ==
    /\ pc[p] = "status"
    /\ IF StatusReads(record[p])
       THEN /\ Goto(p, "lock")
            /\ gen' = [gen EXCEPT ![p] = current]
            /\ UNCHANGED << task, record, prior, before, again, todo,
                            version, dest >>
       ELSE Stop(p)
    /\ UNCHANGED << disk, lockdir, begun, acked, failures >>

(* The mutation lock.  Where it is taken the operation raises. *)
TakeLock(p) ==
    /\ pc[p] \in {"lock", "restore"}
    /\ IF lockdir = None
       THEN /\ lockdir' = p
            /\ Goto(p, IF pc[p] = "restore" THEN "repoint"
                       ELSE CASE task[p] = "commit"   -> "store"
                              [] task[p] = "qualify"  -> "archive"
                              [] task[p] = "activate" -> "revalidate"
                              [] OTHER                -> "materialize")
            /\ UNCHANGED locals
       ELSE Stop(p) /\ UNCHANGED lockdir
    /\ UNCHANGED << disk, begun, acked, failures >>

(* Mutant: a flush is acknowledged while workers still write. *)
ReturnEarly(p) ==
    /\ pc[p] \in {"unlock", "flush"}
    /\ Abandon(p)
    /\ acked' = IF task[p] = "commit" THEN version[p] ELSE acked
    /\ UNCHANGED << disk, begun, failures >>

(* The operation returns; a commit is acknowledged. *)
Return(p) ==
    /\ \/ pc[p] = "unlock"
       \/ pc[p] = "flush" /\ todo[p] = {}
    /\ Abandon(p)
    /\ acked' = IF task[p] = "commit" THEN version[p] ELSE acked
    /\ UNCHANGED << disk, begun, failures >>

-----------------------------------------------------------------------------
(* commit_filesystem.  In legacy mode the files of the mount are replaced  *)
(* one by one, by parallel workers; in segmented mode the image is staged  *)
(* in private and stored under the lock as a new current generation.       *)

Flush(p) ==
    /\ pc[p] = "flush"
    /\ \E f \in todo[p] :
        /\ todo' = [todo EXCEPT ![p] = @ \ {f}]
        /\ mounts' = [mounts EXCEPT ![record[p].mount][f] = version[p]]
    /\ UNCHANGED << pc, task, record, gen, prior, before, again, version,
                    dest, mode, images, last, current, receipts, lockdir,
                    begun, acked, failures >>

(* A new generation becomes current. *)
StoreImage(image) ==
    /\ last < MaxGenerations
    /\ last' = last + 1
    /\ images' = [images EXCEPT ![last + 1] = image]
    /\ current' = last + 1

Store(p) ==
    /\ pc[p] = "store"
    /\ StoreImage([f \in Files |-> version[p]])
    /\ Goto(p, "unlock")
    /\ UNCHANGED << locals, mode, mounts, receipts, lockdir, begun, acked,
                    failures >>

-----------------------------------------------------------------------------
(* qualify_activation and activate. *)

(* The snapshot of the mount; activate compares it with its receipt. *)
Snapshot(p) ==
    /\ pc[p] = "snapshot"
    /\ \/ /\ task[p] = "qualify"
          /\ Goto(p, "copy")
          /\ before' = [before EXCEPT ![p] = Source(p)]
          /\ UNCHANGED << task, record, gen, prior, again, todo, version,
                          dest >>
       \/ /\ task[p] = "activate"
          /\ \E r \in receipts :
                IF r.mount = record[p].mount /\ r.inventory = Source(p)
                THEN /\ Goto(p, "lock")
                     /\ before' = [before EXCEPT ![p] = Source(p)]
                     /\ gen' = [gen EXCEPT ![p] = r.generation]
                     /\ UNCHANGED << task, record, prior, again, todo,
                                     version, dest >>
                ELSE Stop(p)
    /\ UNCHANGED << disk, lockdir, begun, acked, failures >>

(* commit_mount_segmented: its own snapshot, ... *)
Copy(p) ==
    /\ pc[p] = "copy"
    /\ Goto(p, "lock")
    /\ again' = [again EXCEPT ![p] = Source(p)]
    /\ UNCHANGED << task, record, gen, prior, before, todo, version, dest,
                    disk, lockdir, begun, acked, failures >>

(* ... the generation, published before the source is looked at again, ... *)
Archive(p) ==
    /\ pc[p] = "archive"
    /\ StoreImage(Source(p))
    /\ gen' = [gen EXCEPT ![p] = last + 1]
    /\ prior' = [prior EXCEPT ![p] = current]
    /\ Goto(p, "check")
    /\ UNCHANGED << task, record, before, again, todo, version, dest, mode,
                    mounts, receipts, lockdir, begun, acked, failures >>

(* ... and taken back when the source has changed. *)
CheckSource(p) ==
    /\ pc[p] = "check"
    /\ IF Source(p) = again[p]
       THEN /\ Goto(p, "compare")
            /\ Release(p)
            /\ UNCHANGED << locals, current >>
       ELSE Abandon(p) /\ current' = prior[p]
    /\ UNCHANGED << mode, mounts, images, last, receipts, begun, acked,
                    failures >>

(* Mutant: the reconstruction is compared with the source as it is now. *)
EquivalentToSource(p) == images[gen[p]] = Source(p)

(* _compare_mounts: the reconstruction is the snapshot, and so is still    *)
(* the source.                                                             *)
Equivalent(p) == images[gen[p]] = before[p] /\ Source(p) = before[p]

Compare(p) ==
    /\ pc[p] = "compare"
    /\ Goto(p, IF Equivalent(p) THEN "receipt" ELSE "restore")
    /\ UNCHANGED << locals, disk, lockdir, begun, acked, failures >>

WriteReceipt(p) ==
    /\ pc[p] = "receipt"
    /\ receipts' = receipts \cup {[mount |-> record[p].mount,
                                   generation |-> gen[p],
                                   inventory |-> before[p]]}
    /\ Stop(p)
    /\ UNCHANGED << mode, mounts, images, last, current, lockdir, begun,
                    acked, failures >>

(* _restore_segment_pointer, after a qualification that failed. *)
Repoint(p) ==
    /\ pc[p] = "repoint"
    /\ current' = IF current = gen[p] THEN prior[p] ELSE current
    /\ Abandon(p)
    /\ UNCHANGED << mode, mounts, images, last, receipts, begun, acked,
                    failures >>

(* The proofs activate repeats under the lock. *)
Revalidate(p) ==
    /\ pc[p] = "revalidate"
    /\ IF current = gen[p] /\ Equivalent(p)
       THEN Goto(p, "publish") /\ UNCHANGED << locals, lockdir >>
       ELSE Abandon(p)
    /\ UNCHANGED << disk, begun, acked, failures >>

(* rollback_to_legacy: a new mount is made under the lock. *)
FreeMounts == {m \in Mounts : mounts[m] = None}

(* Mutant: the inventory of the new mount is not verified. *)
MaterializeUnverified(p) ==
    /\ pc[p] = "materialize"
    /\ FreeMounts # {}
    /\ LET m == CHOOSE n \in FreeMounts : TRUE
       IN  /\ \E f \in Files :
                mounts' = [mounts EXCEPT ![m] =
                                [images[current] EXCEPT ![f] = 0]]
           /\ dest' = [dest EXCEPT ![p] = m]
    /\ Goto(p, "publish")
    /\ UNCHANGED << task, record, gen, prior, before, again, todo, version,
                    mode, images, last, current, receipts, lockdir, begun,
                    acked, failures >>

Materialize(p) ==
    /\ pc[p] = "materialize"
    /\ FreeMounts # {}
    /\ IF current = gen[p]
       THEN /\ LET m == CHOOSE n \in FreeMounts : TRUE
               IN  /\ mounts' = [mounts EXCEPT ![m] = images[gen[p]]]
                   /\ dest' = [dest EXCEPT ![p] = m]
            /\ Goto(p, "publish")
            /\ UNCHANGED << task, record, gen, prior, before, again, todo,
                            version, lockdir >>
       ELSE Abandon(p) /\ UNCHANGED mounts
    /\ UNCHANGED << mode, images, last, current, receipts, begun, acked,
                    failures >>

(* The mode record is replaced: what the operation read of it when it      *)
(* began is what the new one is made from.                                 *)
PublishMode(p) ==
    /\ pc[p] = "publish"
    /\ mode' = IF task[p] = "activate"
               THEN [mode |-> "segmented",
                     revision |-> record[p].revision + 1,
                     mount |-> record[p].mount,
                     qualification |-> gen[p],
                     generation |-> gen[p]]
               ELSE [mode |-> "legacy",
                     revision |-> record[p].revision + 1,
                     mount |-> dest[p],
                     qualification |-> record[p].qualification,
                     generation |-> gen[p]]
    /\ Goto(p, "unlock")
    /\ UNCHANGED << locals, mounts, images, last, current, receipts,
                    lockdir, begun, acked, failures >>

-----------------------------------------------------------------------------
(* An exception at any step.  A qualification that has its generation      *)
(* goes on to restore the pointer, a rollback removes the mount it made.   *)
Raise(p) ==
    /\ pc[p] \notin {"idle", "unlock"}
    /\ failures < MaxFailures
    /\ failures' = failures + 1
    /\ IF pc[p] \in {"compare", "receipt"}
       THEN Goto(p, "restore") /\ UNCHANGED << locals, lockdir >>
       ELSE Abandon(p)
    /\ mounts' = [m \in Mounts |-> IF m = dest[p] THEN None ELSE mounts[m]]
    /\ UNCHANGED << mode, images, last, current, receipts, begun, acked >>

(* The process dies; its lock directory and its files stay. *)
Crash(p) ==
    /\ pc[p] # "idle"
    /\ failures < MaxFailures
    /\ failures' = failures + 1
    /\ Stop(p)
    /\ lockdir' = IF lockdir = p THEN Orphan ELSE lockdir
    /\ UNCHANGED << disk, begun, acked >>

(* An operator removes the lock directory of a dead process. *)
RemoveOrphan ==
    /\ lockdir = Orphan
    /\ lockdir' = None
    /\ UNCHANGED << pc, locals, disk, begun, acked, failures >>

Next ==
    \/ \E p \in Committers : CommitBegin(p)
    \/ \E p \in Admins :
        \/ QualifyBegin(p)
        \/ ActivateBegin(p)
        \/ RollbackBegin(p)
    \/ \E p \in Processes :
        \/ ReadStatus(p)
        \/ TakeLock(p)
        \/ Return(p)
        \/ Flush(p)
        \/ Store(p)
        \/ Snapshot(p)
        \/ Copy(p)
        \/ Archive(p)
        \/ CheckSource(p)
        \/ Compare(p)
        \/ WriteReceipt(p)
        \/ Repoint(p)
        \/ Revalidate(p)
        \/ Materialize(p)
        \/ PublishMode(p)
        \/ Raise(p)
        \/ Crash(p)
    \/ RemoveOrphan

Spec == Init /\ [][Next]_vars

-----------------------------------------------------------------------------
(* What active_mount yields holds every commit that has returned: no       *)
(* activation, rollback, failed qualification or crash hides a version     *)
(* that commit_filesystem has acknowledged.                                *)
AcknowledgedVisible ==
    \A f \in Files : ActiveMount[f] >= acked

(* A change of the mode record moves authority and not the data:           *)
(* active_mount yields the same image before activate or                   *)
(* rollback_to_legacy replaces STORAGE_MODE.json and after it.  And in     *)
(* segmented mode a commit shows at once or not at all: active_mount never *)
(* yields a part of a commit that failed or that is still running.         *)
ImagesMoveWhole ==
    [][/\ mode' # mode => ActiveMount' = ActiveMount
       /\ mode.mode = "segmented" /\ mode' = mode /\ ActiveMount' # ActiveMount
          => \A f, g \in Files : ActiveMount'[f] = ActiveMount'[g]]_vars

(* A receipt proves what it says: the generation it names holds exactly    *)
(* the inventory that was fingerprinted, whatever commit_filesystem wrote  *)
(* to the mount while qualify_activation ran.                              *)
ReceiptsTrue ==
    \A r \in receipts : images[r.generation] = r.inventory

(* In segmented mode status() finds the receipt and the current generation *)
(* that it demands, so that no operation locks itself out of the store.    *)
StatusAvailable == mode.mode = "segmented" => StatusReads(mode)

(* No activation, rollback, failed qualification or crash hides a commit   *)
(* that has returned or locks the store out of its own status.             *)
CommitsStayVisible == TypeOK /\ AcknowledgedVisible /\ StatusAvailable

=============================================================================
