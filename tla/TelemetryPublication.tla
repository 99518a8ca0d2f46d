------------------------ MODULE TelemetryPublication ------------------------
(***************************************************************************)
(* Snapshots on their way out of the engine: TelemetryManager assembles    *)
(* and publishes them, one TelemetryPublisherThread at a time makes the    *)
(* cadence (telemetry.py), WorkspaceTelemetryPublisher writes each         *)
(* publication to a file that WorkspaceTelemetrySource reads from another  *)
(* process (admin/workspace.py).                                           *)
(*                                                                         *)
(* What is done under a lock without waiting is one step.  A snapshot is   *)
(* the number of observations it counts and the level it was taken at;     *)
(* samplers run outside the lock and only add to it.  An inode is known    *)
(* by the publication that made it.  A fault is an exception the code      *)
(* passes on: a payload that cannot be encoded or is too large, a mount    *)
(* that cannot be written, a thread that cannot be started.  A manager     *)
(* that is not the source of the workspace publisher is left alone.        *)
(***************************************************************************)
EXTENDS Integers

CONSTANTS
    Callers,        \* threads of the application
    Workers,        \* publisher threads it may create
    Sources,        \* what the workspace publisher is attached to:
                    \* "manager", or "other" with a snapshot method only
    Levels,         \* telemetry levels; 0 is OFF
    Attempts,       \* how often the reader tries to open the file (4)
    MaxObserved, MaxEpoch, MaxSequence, MaxCalls,
    MaxFaults       \* faults and restarts together

VARIABLES
    source,
    level,          \* TelemetryManager: level
    observed,       \* its counters
    cached,         \* _last_snapshot
    published,      \* _published_snapshot
    epoch,          \* _snapshot_epoch
    cadence,        \* _snapshot_publisher_owner
    thread,         \* each publisher thread: is it new, alive or ended,
                    \* told to stop, and has it the workspace as its sink
    at,             \* where each thread is
    making,         \* the publisher a caller is starting
    taken,          \* the snapshot it works on
    lifecycle,      \* WorkspaceTelemetryPublisher: _lifecycle_lock
    attached,       \* _manager_publisher or _thread
    publishing,     \* _publish_lock
    sequence,       \* _sequence
    identity,       \* _start_identity
    file,           \* the snapshot file
    reader,         \* WorkspaceTelemetrySource: where it is
    lstat, tries,   \* the inode it saw, its attempts
    envelope,       \* the last envelope it returned
    tally           \* calls and faults so far

Nobody == "nobody"
Nothing == [epoch |-> -1, observed |-> 0, level |-> 0]
NoFile == [identity |-> 0, sequence |-> 0, snapshot |-> Nothing]
Fresh == [life |-> "new", stop |-> FALSE, sink |-> FALSE]
Over == [Fresh EXCEPT !.life = "ended"]

manager == << level, observed, cached, published, epoch, cadence >>
workspace == << lifecycle, attached, publishing, sequence, identity >>
observer == << reader, lstat, tries, envelope >>
telemetryVars == << source, manager, thread, at, making, taken, workspace, file, observer, tally >>

TelemetryInit ==
    /\ source \in Sources
    /\ level \in Levels
    /\ observed = 0
    /\ cached = Nothing
    /\ published = Nothing
    /\ epoch = 0
    /\ cadence = Nobody
    /\ thread = [t \in Workers |-> Fresh]
    /\ at = [t \in Callers \cup Workers |-> "idle"]
    /\ making = [c \in Callers |-> Nobody]
    /\ taken = [t \in Callers \cup Workers |-> Nothing]
    /\ lifecycle = Nobody
    /\ attached = Nobody
    /\ publishing = Nobody
    /\ sequence = 0
    /\ identity = 1
    /\ file = NoFile
    /\ reader = "idle"
    /\ lstat = NoFile
    /\ tries = 0
    /\ envelope = NoFile
    /\ tally = [calls |-> 0, faults |-> 0]

Count(what) == tally' = [tally EXCEPT ![what] = @ + 1]
Call(c) == c \in Callers /\ at[c] = "idle" /\ tally.calls < MaxCalls /\ Count("calls")
Fault == tally.faults < MaxFaults /\ Count("faults")
Go(t, place) == at' = [at EXCEPT ![t] = place]
Drop(t) == taken' = [taken EXCEPT ![t] = Nothing]

-----------------------------------------------------------------------------
(* TelemetryManager: record_*, incr, set_component and the like, which do  *)
(* nothing when telemetry is off.                                          *)
Observe ==
    /\ level # 0
    /\ observed < MaxObserved
    /\ observed' = observed + 1
    /\ UNCHANGED << source, level, cached, published, epoch, cadence, thread, at,
                    making, taken, workspace, file, observer, tally >>

(* set_level; register_sampler and register_index_sampler drop the cached  *)
(* snapshot in the same way.                                               *)
SetLevel(c, l) ==
    /\ Call(c)
    /\ source = "manager"
    /\ level' = l
    /\ cached' = Nothing
    /\ UNCHANGED << source, observed, published, epoch, cadence, thread, at, making,
                    taken, workspace, file, observer >>

(* snapshot(), first part: the counters and the level, under the lock.     *)
Captured == [epoch |-> epoch, observed |-> observed, level |-> level]

(* snapshot() or latest_snapshot() of a caller that finds nothing fresh.   *)
Ask(c) ==
    /\ Call(c)
    /\ source = "manager"
    /\ taken' = [taken EXCEPT ![c] = Captured]
    /\ Go(c, "assemble")
    /\ UNCHANGED << source, manager, thread, making, workspace, file, observer >>

(* snapshot(), last part, after the samplers.                              *)
Assembled(t) ==
    LET snap == [taken[t] EXCEPT !.epoch = epoch]
    IN  /\ cached' = snap
        /\ published' = IF published = Nothing THEN snap ELSE published
        /\ taken' = [taken EXCEPT ![t] = IF t \in Callers THEN Nothing ELSE snap]

Assemble(t) ==
    /\ at[t] = "assemble"
    /\ Assembled(t)
    /\ Go(t, IF t \in Callers THEN "idle" ELSE "publish")
    /\ UNCHANGED << source, level, observed, epoch, cadence, thread, making, workspace, file,
                    observer, tally >>

-----------------------------------------------------------------------------
(* TelemetryPublisherThread.start: a new publisher takes the cadence of    *)
(* the manager, or raises where another has it.                            *)
Claimable(t) == cadence \in {Nobody, t}

Make(c, t, sink) ==
    /\ thread[t].life = "new"
    /\ thread' = [thread EXCEPT ![t] = [life |-> "made", stop |-> FALSE, sink |-> sink]]
    /\ making' = [making EXCEPT ![c] = t]
    /\ Go(c, "spawn")

(* A publisher the application makes for itself.                           *)
StartOwn(c, t) ==
    /\ Call(c)
    /\ source = "manager"
    /\ Claimable(t)
    /\ cadence' = t
    /\ Make(c, t, FALSE)
    /\ UNCHANGED << source, level, observed, cached, published, epoch, taken,
                    workspace, file, observer >>

Running == attached # Nobody /\ thread[attached].life = "alive"

(* WorkspaceTelemetryPublisher.start: all of it under the lifecycle lock.  *)
StartWorkspace(c, t) ==
    /\ Call(c)
    /\ lifecycle = Nobody
    /\ ~ Running
    /\ source = "manager" => Claimable(t)
    /\ cadence' = IF source = "manager" THEN t ELSE cadence
    /\ lifecycle' = c
    /\ Make(c, t, TRUE)
    /\ UNCHANGED << source, level, observed, cached, published, epoch, taken, attached,
                    publishing, sequence, identity, file, observer >>

(* The thread runs from here on; the attribute is set after it.            *)
Spawn(c) ==
    LET t == making[c]
    IN  /\ at[c] = "spawn"
        /\ thread' = [thread EXCEPT ![t].life = "alive"]
        /\ at' = [at EXCEPT ![t] = "loop", ![c] = IF thread[t].sink THEN "attach" ELSE "idle"]
        /\ making' = [making EXCEPT ![c] = IF thread[t].sink THEN t ELSE Nobody]
        /\ UNCHANGED << source, manager, taken, workspace, file, observer, tally >>

(* Mutant: the cadence is kept.                                            *)
KeepCadence(t) == UNCHANGED cadence

Released(t) == cadence' = IF cadence = t THEN Nobody ELSE cadence

(* No thread can be started: the cadence is given back.                    *)
SpawnFails(c) ==
    LET t == making[c]
    IN  /\ at[c] = "spawn"
        /\ Fault
        /\ Released(t)
        /\ thread' = [thread EXCEPT ![t] = Over]
        /\ lifecycle' = IF lifecycle = c THEN Nobody ELSE lifecycle
        /\ making' = [making EXCEPT ![c] = Nobody]
        /\ Go(c, "idle")
        /\ UNCHANGED << source, level, observed, cached, published, epoch, taken, attached,
                        publishing, sequence, identity, file, observer >>

Attach(c) ==
    /\ at[c] = "attach"
    /\ attached' = making[c]
    /\ lifecycle' = Nobody
    /\ making' = [making EXCEPT ![c] = Nobody]
    /\ Go(c, "idle")
    /\ UNCHANGED << source, manager, thread, taken, publishing, sequence, identity, file,
                    observer, tally >>

(* stop(), of either: the flag; the join is outside the lock and may time  *)
(* out.                                                                    *)
StopPublisher(c, t) ==
    /\ Call(c)
    /\ thread[t].life \in {"made", "alive"}
    /\ thread[t].sink => lifecycle = Nobody /\ attached = t
    /\ thread' = [thread EXCEPT ![t].stop = TRUE]
    /\ UNCHANGED << source, manager, at, making, taken, workspace, file, observer >>

(* TelemetryPublisherThread._run, and _run of a workspace publisher whose  *)
(* source is no manager.                                                   *)
Assembles(t) == source = "manager" \/ ~ thread[t].sink

Loop(t) ==
    /\ at[t] = "loop"
    /\ taken' = [taken EXCEPT ![t] = IF Assembles(t) THEN Captured ELSE Nothing]
    /\ Go(t, IF thread[t].stop THEN "leave" ELSE IF Assembles(t) THEN "assemble" ELSE "lock")
    /\ UNCHANGED << source, manager, thread, making, workspace, file, observer, tally >>

(* snapshot() raises: record_error, and on.                                *)
AssembleFails(t) ==
    /\ at[t] = "assemble"
    /\ t \in Workers
    /\ Fault
    /\ Drop(t)
    /\ Go(t, "loop")
    /\ UNCHANGED << source, manager, thread, making, workspace, file, observer >>

(* publish_snapshot.                                                       *)
PublishSnapshot(t) ==
    /\ at[t] = "publish"
    /\ epoch < MaxEpoch
    /\ epoch' = epoch + 1
    /\ published' = [taken[t] EXCEPT !.epoch = epoch']
    /\ Go(t, "deliver")
    /\ UNCHANGED << source, level, observed, cached, cadence, thread, making, taken,
                    workspace, file, observer, tally >>

Deliver(t) ==
    /\ at[t] = "deliver"
    /\ taken' = [taken EXCEPT ![t] = IF thread[t].sink THEN published ELSE Nothing]
    /\ Go(t, IF thread[t].sink THEN "lock" ELSE "loop")
    /\ UNCHANGED << source, manager, thread, making, workspace, file, observer, tally >>

Leave(t) ==
    /\ at[t] = "leave"
    /\ Released(t)
    /\ Go(t, "ending")
    /\ UNCHANGED << source, level, observed, cached, published, epoch, thread, making,
                    taken, workspace, file, observer, tally >>

(* Only now is_alive() is false.                                           *)
End(t) ==
    /\ at[t] = "ending"
    /\ thread' = [thread EXCEPT ![t] = Over]
    /\ Go(t, "ended")
    /\ UNCHANGED << source, manager, making, taken, workspace, file, observer, tally >>

-----------------------------------------------------------------------------
(* WorkspaceTelemetryPublisher.publish, of a caller or of the sink: all of *)
(* it under the publish lock.                                              *)
PublishCall(c) ==
    /\ Call(c)
    /\ Go(c, "lock")
    /\ UNCHANGED << source, manager, thread, making, taken, workspace, file, observer >>

Done(t) == Go(t, IF t \in Callers THEN "idle" ELSE "loop")

(* Mutant: the manager's cache is exported, not what it has published.     *)
PayloadOfCache(t) == IF source = "other" THEN [Captured EXCEPT !.epoch = 1]
                     ELSE IF t \in Callers THEN cached ELSE taken[t]

(* _snapshot_from_source: nothing is assembled for it.  Another source     *)
(* answers with what it counts.                                            *)
Payload(t) == IF source = "other" THEN [Captured EXCEPT !.epoch = 1]
              ELSE IF t \in Callers THEN published ELSE taken[t]

PublishEnter(t) ==
    /\ at[t] = "lock"
    /\ publishing = Nobody
    /\ sequence < MaxSequence
    /\ taken' = [taken EXCEPT ![t] = Payload(t)]
    /\ IF Payload(t) = Nothing
       THEN Done(t) /\ UNCHANGED << publishing, sequence >>
       ELSE publishing' = t /\ sequence' = sequence + 1 /\ Go(t, "replace")
    /\ UNCHANGED << source, manager, thread, making, lifecycle, attached, identity, file,
                    observer, tally >>

(* The payload is refused before a number is used, or, too large, gives    *)
(* its number back.                                                        *)
PublishRefused(t) ==
    /\ at[t] = "lock"
    /\ publishing = Nobody
    /\ Fault
    /\ Drop(t)
    /\ Done(t)
    /\ UNCHANGED << source, manager, thread, making, workspace, file, observer >>

(* _prepare_publish_directory and _atomic_write: the temporary file has a  *)
(* name of its own, and is removed where its write or the replace fails.   *)
WriteFails(t) ==
    /\ at[t] = "replace"
    /\ Fault
    /\ publishing' = Nobody
    /\ Drop(t)
    /\ Done(t)
    /\ UNCHANGED << source, manager, thread, making, lifecycle, attached, sequence,
                    identity, file, observer >>

Replace(t) ==
    /\ at[t] = "replace"
    /\ file' = [identity |-> identity, sequence |-> sequence, snapshot |-> taken[t]]
    /\ publishing' = Nobody
    /\ Drop(t)
    /\ Done(t)
    /\ UNCHANGED << source, manager, thread, making, lifecycle, attached, sequence,
                    identity, observer, tally >>

(* The process dies, or forks, and a publisher of a new identity follows.  *)
Restart ==
    /\ Fault
    /\ observed' = 0
    /\ cached' = Nothing
    /\ published' = Nothing
    /\ epoch' = 0
    /\ cadence' = Nobody
    /\ thread' = [t \in Workers |-> Fresh]
    /\ at' = [t \in Callers \cup Workers |-> "idle"]
    /\ making' = [c \in Callers |-> Nobody]
    /\ taken' = [t \in Callers \cup Workers |-> Nothing]
    /\ lifecycle' = Nobody
    /\ attached' = Nobody
    /\ publishing' = Nobody
    /\ sequence' = 0
    /\ identity' = identity + 1
    /\ UNCHANGED << source, level, file, observer >>

-----------------------------------------------------------------------------
(* WorkspaceTelemetrySource.read_envelope and _open_bounded_regular: what  *)
(* is opened must be what was looked at; a file once there stays there.    *)
Look ==
    /\ reader \in {"idle", "again"}
    /\ file # NoFile
    /\ lstat' = file
    /\ tries' = tries + 1
    /\ reader' = "open"
    /\ UNCHANGED << source, manager, thread, at, making, taken, workspace, file,
                    envelope, tally >>

Open ==
    /\ reader = "open"
    /\ envelope' = IF file = lstat THEN file ELSE envelope
    /\ reader' = IF file # lstat /\ tries < Attempts THEN "again" ELSE "idle"
    /\ lstat' = NoFile
    /\ tries' = IF reader' = "again" THEN tries ELSE 0
    /\ UNCHANGED << source, manager, thread, at, making, taken, workspace, file, tally >>

TelemetryNext ==
    \/ Observe
    \/ \E c \in Callers : \E l \in Levels : SetLevel(c, l)
    \/ \E c \in Callers : \E t \in Workers : StartOwn(c, t) \/ StartWorkspace(c, t) \/ StopPublisher(c, t)
    \/ \E c \in Callers : Ask(c) \/ Spawn(c) \/ SpawnFails(c) \/ Attach(c) \/ PublishCall(c)
    \/ \E t \in Workers : \/ Loop(t) \/ AssembleFails(t) \/ PublishSnapshot(t)
                          \/ Deliver(t) \/ Leave(t) \/ End(t)
    \/ \E t \in Callers \cup Workers : \/ Assemble(t) \/ PublishEnter(t) \/ PublishRefused(t)
                                       \/ WriteFails(t) \/ Replace(t)
    \/ Restart
    \/ Look
    \/ Open

TelemetrySpec == TelemetryInit /\ [][TelemetryNext]_telemetryVars

-----------------------------------------------------------------------------
InLoop(t) == at[t] \notin {"idle", "ending", "ended"}

(* The manager's cadence has one owner.  A thread in its loop has it, so   *)
(* no two do; whoever has it is in its loop or being started, so it is     *)
(* never left behind by a thread that ended or never ran; and the          *)
(* workspace has one thread at work.                                       *)
OnePublisher ==
    /\ \A t \in Workers : InLoop(t) /\ Assembles(t) => cadence = t
    /\ cadence # Nobody => InLoop(cadence) \/ thread[cadence].life = "made"
    /\ \A t, u \in Workers : /\ thread[t].sink /\ thread[t].life \in {"made", "alive"}
                             /\ thread[u].sink /\ thread[u].life \in {"made", "alive"}
                             => t = u

(* a is an earlier publication of one owner than b, and counts no more.    *)
Precedes(a, b) ==
    /\ a.epoch <= b.epoch
    /\ a.epoch > 0 => a.observed <= b.observed

Follows(old, new) ==
    \/ old.identity < new.identity
    \/ /\ old.identity = new.identity
       /\ old.sequence < new.sequence
       /\ Precedes(old.snapshot, new.snapshot)

(* Publications go forward: what the manager publishes, what the file      *)
(* holds and what a reader is given is never followed by an older          *)
(* snapshot of the same owner, and sequence numbers do not repeat.         *)
PublicationsInOrder ==
    [][ /\ published' # published /\ identity' = identity => Precedes(published, published')
        /\ file' # file => Follows(file, file')
        /\ envelope' # envelope => Follows(envelope, envelope') ]_telemetryVars

(* It does not hold that the cached snapshot is of the current level: one  *)
(* assembled across set_level is cached after it.                          *)
CacheIsCurrent == cached # Nothing => cached.level = level

=============================================================================
