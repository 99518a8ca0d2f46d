------------------------ MODULE GenerationAuthority ------------------------
(***************************************************************************)
(* The Generation Authority: AtomicGenerationStore of                      *)
(* generation/generation_store.py, for one namespace.                      *)
(*                                                                         *)
(* A generation is an immutable, content-addressed directory.  What a      *)
(* namespace serves is decided by two files: publication.jsonl, an         *)
(* append-only chain of publication records, and CURRENT, the head.  Every *)
(* mutation runs under the namespace lock, a kernel advisory lock that     *)
(* dies with its process, and starts by recovering the two files.          *)
(*                                                                         *)
(* Roots are hashes.  A record root binds its predecessor's, so a head     *)
(* root commits to the whole log up to its record: a head is modelled by   *)
(* the sequence of records it commits to, the absent CURRENT by << >>.     *)
(***************************************************************************)
EXTENDS Naturals, Sequences, FiniteSets, Functions

CONSTANTS
    Stores,       \* store instances, each in a process of its own
    Threads,      \* threads that call them
    StoreOf,      \* the store instance a thread calls
    Generations,  \* generation roots
    Foreign,      \* the generations whose manifest names another namespace
    Parent,       \* manifest.parent_generation_root of every generation
    Leases,       \* GenerationLease objects
    None,         \* Python's None
    MaxRecords,   \* limits.max_publication_records
    MaxPins,      \* limits.max_reader_pins
    MaxFailures,  \* bound: exceptions and process crashes in a behaviour
    SharedLeases  \* may a thread close a lease that another one opened?

ASSUME StoresAssumption == StoreOf \in [Threads -> Stores]

ASSUME GenerationsAssumption ==
    /\ Foreign \subseteq Generations
    /\ Parent \in [Generations -> Generations \cup {None}]
    /\ None \notin Generations
    /\ None \notin Threads
    /\ None \notin Leases
    /\ IsFiniteSet(Leases)

ASSUME BoundsAssumption ==
    /\ MaxRecords \in Nat
    /\ MaxPins \in Nat
    /\ MaxFailures \in Nat
    /\ SharedLeases \in BOOLEAN

VARIABLES
    pc,           \* where each thread is in its operation
    op,           \* the operation's arguments
    mutex,        \* store._mutex: the thread that holds it
    lock,         \* the namespace LOCK file: the thread that holds it
    materialized, \* generations/: directories that verify
    retired,      \* generations with a 004-retired.json receipt
    log,          \* publication.jsonl: its complete records
    torn,         \* publication.jsonl: does it end in a partial record?
    head,         \* CURRENT
    pins,         \* store._pins, equal to the references of store._pin_locks
    lease,        \* open leases
    known,        \* the last head each caller was given
    failures      \* exceptions and crashes so far

vars == << pc, op, mutex, lock, materialized, retired, log, torn, head, pins,
           lease, known, failures >>

(* What a thread holds while it runs an operation. *)
locking == << mutex, lock >>

-----------------------------------------------------------------------------

Records == [action : {"publish", "rollback"},
            gen    : Generations,
            prev   : Generations \cup {None}]

Kinds == {"none", "publish", "rollback", "retire", "pin", "recover", "close",
          "head"}

Operations == [kind  : Kinds,
               gen   : Generations \cup {None},
               head  : Seq(Records),
               lease : Leases \cup {None}]

NoOp == [kind |-> "none", gen |-> None, head |-> << >>, lease |-> None]

(* The steps of an operation, in the order in which it passes them. *)
Steps == {"idle", "materialize", "staged", "mutex", "flock", "repairlog",
          "repairhead", "decide", "appending", "writehead", "ack", "close",
          "readlog"}

OpenLeases == [store : Stores, gen : Generations, owner : Threads, seq : Nat]

ASSUME LeasesAssumption == None \notin OpenLeases

(* The generation a log, or a head, leaves current. *)
CurrentRoot(records) ==
    IF records = << >> THEN None ELSE records[Len(records)].gen

IsPrefixOf(a, b) ==
    Len(a) <= Len(b) /\ \A i \in 1 .. Len(a) : a[i] = b[i]

(* The loop over the records that pin and rollback run. *)
Published(g, records) ==
    \E i \in 1 .. Len(records) :
        records[i].action = "publish" /\ records[i].gen = g

(* The records that _read_publication_records and _recover_locked accept:  *)
(* a contiguous chain of generations that verify, in which a publication   *)
(* extends its manifest's parent and a rollback returns to a generation    *)
(* published before it.                                                    *)
Recoverable(records) ==
    \A i \in 1 .. Len(records) :
        /\ records[i].gen \in materialized \ Foreign
        /\ records[i].prev = IF i = 1 THEN None ELSE records[i - 1].gen
        /\ records[i].action = "publish" =>
              Parent[records[i].gen] = records[i].prev
        /\ records[i].action = "rollback" =>
              \E j \in 1 .. i - 1 :
                  records[j].action = "publish" /\ records[j].gen = records[i].gen

(* sum(self._pins.values()) *)
PinCount(s) == FoldFunction(+, 0, pins[s])

(* The pin file's shared lock is held by every store with a pin on g. *)
PinLocked(g) == \E s \in Stores : pins[s][g] > 0

TypeOK ==
    /\ pc \in [Threads -> Steps]
    /\ op \in [Threads -> Operations]
    /\ mutex \in [Stores -> Threads \cup {None}]
    /\ lock \in Threads \cup {None}
    /\ materialized \in SUBSET Generations
    /\ retired \in SUBSET Generations
    /\ log \in Seq(Records)
    /\ torn \in BOOLEAN
    /\ head \in Seq(Records)
    /\ pins \in [Stores -> [Generations -> Nat]]
    /\ lease \in [Leases -> OpenLeases \cup {None}]
    /\ known \in [Threads -> Seq(Records)]
    /\ failures \in Nat

Init ==
    /\ pc = [t \in Threads |-> "idle"]
    /\ op = [t \in Threads |-> NoOp]
    /\ mutex = [s \in Stores |-> None]
    /\ lock = None
    /\ materialized = Foreign
    /\ retired = {}
    /\ log = << >>
    /\ torn = FALSE
    /\ head = << >>
    /\ pins = [s \in Stores |-> [g \in Generations |-> 0]]
    /\ lease = [l \in Leases |-> None]
    /\ known = [t \in Threads |-> << >>]
    /\ failures = 0

-----------------------------------------------------------------------------
(* Starting an operation.  A caller compares-and-swaps on the head it was  *)
(* last given, which may be stale by now.                                  *)

Start(t, step, operation) ==
    /\ pc[t] = "idle"
    /\ pc' = [pc EXCEPT ![t] = step]
    /\ op' = [op EXCEPT ![t] = operation]

(* publish(candidate, expected_head_root): the namespace is the manifest's. *)
PublishBegin(t, g) ==
    /\ g \notin Foreign
    /\ Start(t, "materialize", [kind |-> "publish", gen |-> g,
                                head |-> known[t], lease |-> None])
    /\ UNCHANGED << locking, materialized, retired, log, torn, head, pins,
                    lease, known, failures >>

(* rollback(), retire() and recover(); rollback needs an expected head. *)
LockedBegin(t, k, g) ==
    /\ k = "rollback" => known[t] # << >>
    /\ (k = "recover") = (g = None)
    /\ Start(t, "mutex", [kind |-> k, gen |-> g,
                          head |-> known[t], lease |-> None])
    /\ UNCHANGED << locking, materialized, retired, log, torn, head, pins,
                    lease, known, failures >>

(* pin(namespace, generation_root=None); l is the lease it will return. *)
PinBegin(t, g, l) ==
    /\ lease[l] = None
    /\ \A u \in Threads : op[u].lease # l
    /\ Start(t, "mutex", [kind |-> "pin", gen |-> g,
                          head |-> << >>, lease |-> l])
    /\ UNCHANGED << locking, materialized, retired, log, torn, head, pins,
                    lease, known, failures >>

-----------------------------------------------------------------------------
(* _materialize_generation, which publish runs before it takes any lock.   *)

(* An existing generation is verified and reused; otherwise the payload    *)
(* objects and a private staging directory are written and verified.       *)
Materialize(t) ==
    /\ pc[t] = "materialize"
    /\ pc' = [pc EXCEPT ![t] =
                 IF op[t].gen \in materialized THEN "mutex" ELSE "staged"]
    /\ UNCHANGED << op, locking, materialized, retired, log, torn, head, pins,
                    lease, known, failures >>

(* os.replace(stage_dir, generation_dir), or the reuse of the directory    *)
(* another publisher installed first.                                      *)
Install(t) ==
    /\ pc[t] = "staged"
    /\ materialized' = materialized \cup {op[t].gen}
    /\ pc' = [pc EXCEPT ![t] = "mutex"]
    /\ UNCHANGED << op, locking, retired, log, torn, head, pins, lease, known,
                    failures >>

-----------------------------------------------------------------------------
(* _namespace_lock: the store's mutex, then the LOCK file, polled while    *)
(* the mutex is held.                                                      *)

EnterMutex(t) ==
    /\ pc[t] = "mutex"
    /\ mutex[StoreOf[t]] = None
    /\ mutex' = [mutex EXCEPT ![StoreOf[t]] = t]
    /\ pc' = [pc EXCEPT ![t] = "flock"]
    /\ UNCHANGED << op, lock, materialized, retired, log, torn, head, pins,
                    lease, known, failures >>

(* pin() takes the lock without recovering. *)
TakeLock(t) ==
    /\ pc[t] = "flock"
    /\ lock = None
    /\ lock' = t
    /\ pc' = [pc EXCEPT ![t] =
                 IF op[t].kind = "pin" THEN "decide" ELSE "repairlog"]
    /\ UNCHANGED << op, mutex, materialized, retired, log, torn, head, pins,
                    lease, known, failures >>

(* The operation returns or raises: what the thread holds is released. *)
Return(t) ==
    /\ pc' = [pc EXCEPT ![t] = "idle"]
    /\ op' = [op EXCEPT ![t] = NoOp]
    /\ lock' = IF lock = t THEN None ELSE lock
    /\ mutex' = [s \in Stores |-> IF mutex[s] = t THEN None ELSE mutex[s]]

(* The LOCK file stayed busy for lock_attempts attempts. *)
GiveUp(t) ==
    /\ pc[t] = "flock"
    /\ lock # None
    /\ Return(t)
    /\ UNCHANGED << materialized, retired, log, torn, head, pins, lease, known,
                    failures >>

-----------------------------------------------------------------------------
(* _recover_locked, in its two durable steps. *)

(* Mutant: a record that CURRENT does not name yet is cut off as well. *)
DropUncommitted(t) ==
    /\ pc[t] = "repairlog"
    /\ log' = head
    /\ torn' = FALSE
    /\ pc' = [pc EXCEPT ![t] = "repairhead"]
    /\ UNCHANGED << op, locking, materialized, retired, head, pins, lease,
                    known, failures >>

(* The records are validated, and a torn tail is cut off by rewriting the  *)
(* log with the complete records.                                          *)
RepairLog(t) ==
    /\ pc[t] = "repairlog"
    /\ IF Recoverable(log)
         THEN /\ torn' = FALSE
              /\ pc' = [pc EXCEPT ![t] = "repairhead"]
              /\ UNCHANGED << op, locking >>
         ELSE /\ Return(t)
              /\ UNCHANGED torn
    /\ UNCHANGED << materialized, retired, log, head, pins, lease, known,
                    failures >>

(* Mutant: an existing CURRENT is taken to be good. *)
KeepHead(t) ==
    /\ pc[t] = "repairhead"
    /\ head' = IF head = << >> THEN log ELSE head
    /\ pc' = [pc EXCEPT ![t] = "decide"]
    /\ UNCHANGED << op, locking, materialized, retired, log, torn, pins, lease,
                    known, failures >>

(* Mutant: recovery starts over until CURRENT agrees, and never writes it. *)
AwaitHead(t) ==
    /\ pc[t] = "repairhead"
    /\ pc' = [pc EXCEPT ![t] = IF head = log THEN "decide" ELSE "repairlog"]
    /\ UNCHANGED << op, locking, materialized, retired, log, torn, head, pins,
                    lease, known, failures >>

(* CURRENT is replaced by, or removed for, the head the log ends with. *)
RepairHead(t) ==
    /\ pc[t] = "repairhead"
    /\ head' = log
    /\ pc' = [pc EXCEPT ![t] = "decide"]
    /\ UNCHANGED << op, locking, materialized, retired, log, torn, pins, lease,
                    known, failures >>

-----------------------------------------------------------------------------
(* What the operations check under the lock. *)

(* Mutant: publish compares the head and not the manifest's parent. *)
PublishAnyParent(t) ==
    /\ log = op[t].head
    /\ Len(log) < MaxRecords

PublishAdmissible(t) ==
    /\ log = op[t].head
    /\ Parent[op[t].gen] = CurrentRoot(log)
    /\ Len(log) < MaxRecords

(* Mutant: rollback does not ask whether its target was retired. *)
RollbackToRetired(t) ==
    /\ log = op[t].head
    /\ op[t].gen \in materialized \ Foreign
    /\ Published(op[t].gen, log)
    /\ Len(log) < MaxRecords

RollbackAdmissible(t) ==
    /\ log = op[t].head
    /\ op[t].gen \in materialized \ Foreign
    /\ op[t].gen \notin retired
    /\ Published(op[t].gen, log)
    /\ Len(log) < MaxRecords

(* Mutant: retire looks at the pins of its own store only. *)
RetireIfUnpinnedHere(t) ==
    /\ CurrentRoot(log) # op[t].gen
    /\ op[t].gen \in materialized \ Foreign
    /\ op[t].gen \in retired \/ pins[StoreOf[t]][op[t].gen] = 0

(* Retiring a retired generation again returns its receipt. *)
RetireAdmissible(t) ==
    /\ CurrentRoot(log) # op[t].gen
    /\ op[t].gen \in materialized \ Foreign
    /\ op[t].gen \in retired \/ ~ PinLocked(op[t].gen)

(* current_head reads the log only when there is a CURRENT; reading it     *)
(* fails on a torn tail.                                                   *)
PinTarget(t) == IF op[t].gen = None THEN CurrentRoot(head) ELSE op[t].gen

PinAdmissible(t) ==
    /\ PinCount(StoreOf[t]) < MaxPins
    /\ head = << >> \/ head = log
    /\ ~ torn
    /\ PinTarget(t) # None
    /\ Published(PinTarget(t), log)
    /\ PinTarget(t) \in materialized \ Foreign
    /\ PinTarget(t) \notin retired

Admissible(t) ==
    \/ op[t].kind = "publish" /\ PublishAdmissible(t)
    \/ op[t].kind = "rollback" /\ RollbackAdmissible(t)
    \/ op[t].kind = "retire" /\ RetireAdmissible(t)
    \/ op[t].kind = "pin" /\ PinAdmissible(t)
    \/ op[t].kind = "recover"

(* A conflict or a store error is raised; nothing was changed. *)
Reject(t) ==
    /\ pc[t] = "decide"
    /\ ~ Admissible(t)
    /\ Return(t)
    /\ UNCHANGED << materialized, retired, log, torn, head, pins, lease, known,
                    failures >>

-----------------------------------------------------------------------------
(* publish and rollback: append the record, then replace CURRENT. *)

(* The record that publish and rollback build from the recovered head. *)
NewRecord(t) ==
    [action |-> op[t].kind, gen |-> op[t].gen, prev |-> CurrentRoot(log)]

(* The record's line is on its way to the file. *)
AppendBegin(t) ==
    /\ pc[t] = "decide"
    /\ op[t].kind \in {"publish", "rollback"}
    /\ Admissible(t)
    /\ torn' = TRUE
    /\ pc' = [pc EXCEPT ![t] = "appending"]
    /\ UNCHANGED << op, locking, materialized, retired, log, head, pins, lease,
                    known, failures >>

AppendEnd(t) ==
    /\ pc[t] = "appending"
    /\ log' = Append(log, NewRecord(t))
    /\ torn' = FALSE
    /\ pc' = [pc EXCEPT ![t] = "writehead"]
    /\ UNCHANGED << op, locking, materialized, retired, head, pins, lease,
                    known, failures >>

WriteHead(t) ==
    /\ pc[t] = "writehead"
    /\ head' = log
    /\ pc' = [pc EXCEPT ![t] = "ack"]
    /\ UNCHANGED << op, locking, materialized, retired, log, torn, pins, lease,
                    known, failures >>

(* The caller is given the PublicationResult. *)
Acknowledge(t) ==
    /\ pc[t] = "ack"
    /\ known' = [known EXCEPT ![t] = head]
    /\ Return(t)
    /\ UNCHANGED << materialized, retired, log, torn, head, pins, lease,
                    failures >>

-----------------------------------------------------------------------------
(* The operations that end where they decide. *)

(* The caller is given the RecoveryResult. *)
Recovered(t) ==
    /\ pc[t] = "decide"
    /\ op[t].kind = "recover"
    /\ known' = [known EXCEPT ![t] = log]
    /\ Return(t)
    /\ UNCHANGED << materialized, retired, log, torn, head, pins, lease,
                    failures >>

(* The exclusive lock on the pin file is tried once and held while the     *)
(* receipt is written.                                                     *)
Retire(t) ==
    /\ pc[t] = "decide"
    /\ op[t].kind = "retire"
    /\ Admissible(t)
    /\ retired' = retired \cup {op[t].gen}
    /\ Return(t)
    /\ UNCHANGED << materialized, log, torn, head, pins, lease, known,
                    failures >>

Pin(t) ==
    /\ pc[t] = "decide"
    /\ op[t].kind = "pin"
    /\ Admissible(t)
    /\ pins' = [pins EXCEPT ![StoreOf[t]][PinTarget(t)] = @ + 1]
    /\ lease' = [lease EXCEPT ![op[t].lease] =
                    [store |-> StoreOf[t], gen |-> PinTarget(t), owner |-> t,
                     seq |-> Len(head)]]
    /\ Return(t)
    /\ UNCHANGED << materialized, retired, log, torn, head, known, failures >>

-----------------------------------------------------------------------------
(* GenerationLease.close *)

(* The test of _closed, which no lock protects. *)
CloseBegin(t, l) ==
    /\ lease[l] # None
    /\ lease[l].store = StoreOf[t]
    /\ SharedLeases \/ lease[l].owner = t
    /\ Start(t, "close", [kind |-> "close", gen |-> lease[l].gen,
                          head |-> << >>, lease |-> l])
    /\ UNCHANGED << locking, materialized, retired, log, torn, head, pins,
                    lease, known, failures >>

(* _release_pin under the mutex, then _closed = True.  Releasing a pin     *)
(* lock that is no longer held raises, and changes nothing.                *)
CloseRelease(t) ==
    /\ pc[t] = "close"
    /\ mutex[StoreOf[t]] = None
    /\ pins' = [pins EXCEPT ![StoreOf[t]][op[t].gen] = IF @ > 0 THEN @ - 1 ELSE 0]
    /\ lease' = [lease EXCEPT ![op[t].lease] = None]
    /\ Return(t)
    /\ UNCHANGED << materialized, retired, log, torn, head, known, failures >>

-----------------------------------------------------------------------------
(* current_head, which takes no lock: CURRENT is read first, the log after. *)

(* Without a CURRENT, current_head returns None. *)
ReadCurrent(t) ==
    /\ head # << >>
    /\ Start(t, "readlog", [kind |-> "head", gen |-> None,
                            head |-> head, lease |-> None])
    /\ UNCHANGED << locking, materialized, retired, log, torn, head, pins,
                    lease, known, failures >>

(* The head is returned if it is still the last record of an intact log;   *)
(* otherwise an integrity failure is raised.                               *)
ReadLog(t) ==
    /\ pc[t] = "readlog"
    /\ known' = [known EXCEPT ![t] =
                    IF ~ torn /\ log = op[t].head THEN op[t].head ELSE @]
    /\ Return(t)
    /\ UNCHANGED << materialized, retired, log, torn, head, pins, lease,
                    failures >>

-----------------------------------------------------------------------------
(* Failures. *)

(* An exception at a failure boundary (a full disk, an injected fault):    *)
(* the locks are released on the way out, the files stay as they are.      *)
Raise(t) ==
    /\ failures < MaxFailures
    /\ pc[t] \in {"materialize", "staged", "repairlog", "repairhead", "decide",
                   "appending", "writehead", "ack"}
    /\ failures' = failures + 1
    /\ Return(t)
    /\ UNCHANGED << materialized, retired, log, torn, head, pins, lease, known >>

(* The process of store s dies: the kernel drops its locks, its leases and *)
(* its operations are gone, the files stay as they are.  A new process     *)
(* opens the store.                                                        *)
Crash(s) ==
    /\ failures < MaxFailures
    /\ failures' = failures + 1
    /\ pc' = [t \in Threads |-> IF StoreOf[t] = s THEN "idle" ELSE pc[t]]
    /\ op' = [t \in Threads |-> IF StoreOf[t] = s THEN NoOp ELSE op[t]]
    /\ mutex' = [mutex EXCEPT ![s] = None]
    /\ lock' = IF lock # None /\ StoreOf[lock] = s THEN None ELSE lock
    /\ pins' = [pins EXCEPT ![s] = [g \in Generations |-> 0]]
    /\ lease' = [l \in Leases |->
                    IF lease[l] # None /\ lease[l].store = s THEN None ELSE lease[l]]
    /\ UNCHANGED << materialized, retired, log, torn, head, known >>

-----------------------------------------------------------------------------

(* What a thread does to finish the operation it is in. *)
Proceed(t) ==
    \/ Materialize(t)
    \/ Install(t)
    \/ EnterMutex(t)
    \/ TakeLock(t)
    \/ GiveUp(t)
    \/ RepairLog(t)
    \/ RepairHead(t)
    \/ Reject(t)
    \/ AppendBegin(t)
    \/ AppendEnd(t)
    \/ WriteHead(t)
    \/ Acknowledge(t)
    \/ Recovered(t)
    \/ Retire(t)
    \/ Pin(t)
    \/ CloseRelease(t)
    \/ ReadLog(t)

Begin(t) ==
    \/ \E g \in Generations : PublishBegin(t, g)
    \/ \E k \in {"rollback", "retire", "recover"}, g \in Generations \cup {None} :
           LockedBegin(t, k, g)
    \/ \E g \in Generations \cup {None}, l \in Leases : PinBegin(t, g, l)
    \/ \E l \in Leases : CloseBegin(t, l)
    \/ ReadCurrent(t)

Next ==
    \/ \E t \in Threads : Begin(t) \/ Proceed(t) \/ Raise(t)
    \/ \E s \in Stores : Crash(s)

Spec == Init /\ [][Next]_vars

(* A thread that is inside the store keeps running: every wait in it is a  *)
(* bounded number of attempts or the wait for a mutex whose holder runs.   *)
FairSpec == Spec /\ \A t \in Threads : WF_vars(Proceed(t))

-----------------------------------------------------------------------------

(* The log is always one that recovery accepts, whatever died in the middle *)
(* of an append: no crash or exception makes _recover_locked fail closed,   *)
(* which would block every later publish, rollback and retire.              *)
LogRecoverable == Recoverable(log)

(* CURRENT commits to a prefix of the log that lags by at most the record   *)
(* whose writer has not replaced CURRENT yet, and every head a caller was   *)
(* ever given is still a prefix of CURRENT: an acknowledged publication is  *)
(* never lost, reordered or replaced, across recoveries included.           *)
HeadsCommitted ==
    /\ IsPrefixOf(head, log)
    /\ Len(log) <= Len(head) + 1
    /\ \A t \in Threads : IsPrefixOf(known[t], head)

(* A generation under an open lease is not retired, and it is one that the *)
(* namespace published: the pin lock and the checks under the namespace    *)
(* lock keep retire() away from readers in every process.                  *)
LeasesProtect ==
    \A l \in Leases :
        lease[l] # None =>
            /\ lease[l].gen \notin retired
            /\ Published(lease[l].gen, log)
            /\ lease[l].seq <= Len(head)

(* A generation that rollback made current cannot have been retired, even  *)
(* when the rollback died before it replaced CURRENT.                      *)
RollbackTargetLive ==
    log # << >> /\ log[Len(log)].action = "rollback" =>
        CurrentRoot(log) \notin retired

-----------------------------------------------------------------------------
(* Why the properties hold: what is true of a thread at each of its steps. *)

Critical == {"repairlog", "repairhead", "decide", "appending", "writehead",
             "ack"}

(* The namespace lock and the mutex are held where the code relies on them. *)
LocksHeld ==
    \A t \in Threads :
        /\ pc[t] \in Critical => lock = t
        /\ pc[t] \in Critical \cup {"flock"} => mutex[StoreOf[t]] = t

(* Which operations pass which steps, and that a generation is installed   *)
(* before its publication asks for a lock.                                 *)
StepsMatch ==
    \A t \in Threads :
        /\ pc[t] = "idle" => op[t] = NoOp
        /\ pc[t] \in {"materialize", "staged"} => op[t].kind = "publish"
        /\ pc[t] \in {"mutex", "flock", "decide"} =>
              op[t].kind \in {"publish", "rollback", "retire", "pin", "recover"}
        /\ pc[t] \in {"repairlog", "repairhead"} =>
              op[t].kind \in {"publish", "rollback", "retire", "recover"}
        /\ pc[t] \in {"appending", "writehead", "ack"} =>
              op[t].kind \in {"publish", "rollback"}
        /\ pc[t] = "close" => op[t].kind = "close"
        /\ pc[t] = "readlog" => op[t].kind = "head"
        /\ op[t].kind = "publish" => op[t].gen \in Generations \ Foreign
        /\ op[t].kind \in {"rollback", "retire", "close"} =>
              op[t].gen \in Generations
        /\ op[t].kind \in {"pin", "close"} => op[t].lease \in Leases
        /\ op[t].kind = "publish" /\ pc[t] \notin {"materialize", "staged"} =>
              op[t].gen \in materialized

(* After recovery CURRENT and the log agree, and what was checked under    *)
(* the lock is still true when the record is written.                      *)
ChecksStand ==
    \A t \in Threads :
        /\ pc[t] = "decide" /\ op[t].kind # "pin" => head = log
        /\ pc[t] = "appending" =>
              /\ head = log
              /\ op[t].gen \in materialized \ Foreign
              /\ op[t].kind = "publish" => Parent[op[t].gen] = CurrentRoot(log)
              /\ op[t].kind = "rollback" =>
                    op[t].gen \notin retired /\ Published(op[t].gen, log)

(* The CURRENT that current_head read is part of every later one. *)
ReadsStand ==
    \A t \in Threads : pc[t] = "readlog" => IsPrefixOf(op[t].head, head)

LeasesOn(s, g) ==
    {l \in Leases : lease[l] # None /\ lease[l].store = s /\ lease[l].gen = g}

(* A lease has one thread at work on it: the one that opens it, or its owner. *)
WorksOnLease(t) ==
    /\ op[t].kind = "pin" => lease[op[t].lease] = None
    /\ op[t].kind = "close" =>
          /\ lease[op[t].lease] # None
          /\ lease[op[t].lease].store = StoreOf[t]
          /\ lease[op[t].lease].gen = op[t].gen
          /\ lease[op[t].lease].owner = t

PinsDistinct ==
    \A t, u \in Threads :
        t # u /\ op[t].kind = "pin" /\ op[u].kind = "pin" =>
            op[t].lease # op[u].lease

LeaseWorkers == PinsDistinct /\ \A t \in Threads : WorksOnLease(t)

(* A store counts its open leases. *)
PinsCountLeases ==
    \A s \in Stores, g \in Generations :
        pins[s][g] = Cardinality(LeasesOn(s, g))

-----------------------------------------------------------------------------
(* The generation under each lease, as the ledger has it. *)
Held == [l \in Leases |-> IF lease[l] = None THEN None ELSE lease[l].gen]

(* The namespace behaves like the ledger: a record counts from the moment   *)
(* its line is complete, whether its writer lives to replace CURRENT or not. *)
Ledger == INSTANCE GenerationLedger WITH chain <- log, held <- Held

LedgerSpec == Ledger!Spec

(* What the repository's own bounded state model asserts at its end: the   *)
(* generation that CURRENT names is not retired. It does not hold: publish *)
(* does not ask whether the generation it publishes again is retired.      *)
CurrentNotRetired == CurrentRoot(head) \notin retired

(* When every thread is inside the store, one of them gets out: no order   *)
(* of the mutex, the namespace lock and the repairs of _recover_locked,    *)
(* whatever died before, leaves them all waiting or repairing for ever.    *)
SomeOperationReturns ==
    (\A t \in Threads : pc[t] # "idle") ~> (\E t \in Threads : pc[t] = "idle")

=============================================================================
