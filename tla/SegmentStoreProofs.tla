------------------------- MODULE SegmentStoreProofs -------------------------
(***************************************************************************)
(* What holds of the segment store for any number of processes, segments,  *)
(* generations and failures, recoveries at any time included.              *)
(***************************************************************************)
EXTENDS SegmentStore, TLAPS

SegmentsInv == TypeOK /\ MutationsLocked /\ RetainedIntact

LEMMA InitInv == Init => SegmentsInv
BY SegmentsAssumption
   DEF Init, SegmentsInv, TypeOK, MutationsLocked, RetainedIntact, Mutating,
       Steps, Tasks, Ids

(* A segment that Sweep removes belongs to no manifest: every directory    *)
(* verifies, so the references are all known.                              *)
LEMMA SweepSpares ==
    ASSUME TypeOK, Invalid = {}, NEW s, s \notin Referenced,
           NEW g \in Ids, generation[g] = "complete"
    PROVE  s \notin refs[g]
<1>1. Verifies(g)
  BY Zenon DEF Invalid
<1> QED
  BY <1>1, Zenon DEF Referenced

LEMMA TypeInduction ==
    ASSUME TypeOK, MutationsLocked, [Next]_vars
    PROVE  TypeOK'
<1> USE SegmentsAssumption DEF TypeOK, Goto, Steps, Tasks, disk, locals
<1>1. ASSUME NEW p \in Processes, NEW content \in SUBSET Segments \ {{}},
             CommitBegin(p, content)
      PROVE  TypeOK'
  BY <1>1 DEF CommitBegin, Start
<1>2. ASSUME NEW p \in Processes, MakeGeneration(p)
      PROVE  TypeOK'
  BY <1>2 DEF MakeGeneration, MutationsLocked, Ids
<1>3. ASSUME NEW p \in Processes, NEW s \in Segments, StoreSegment(p, s) \/ Sweep(p, s)
      PROVE  TypeOK'
  BY <1>3 DEF StoreSegment, Sweep, Abort
<1>5. ASSUME NEW p \in Processes, WriteManifest(p) \/ Publish(p)
      PROVE  TypeOK'
  BY <1>5 DEF WriteManifest, Publish, Abort
<1>7. ASSUME NEW p \in Processes, NEW g \in Ids, DeleteBegin(p, g)
      PROVE  TypeOK'
  BY <1>7 DEF DeleteBegin, Start, Ids
<1>8. ASSUME NEW p \in Processes, DeleteManifest(p) \/ RemoveDirectory(p) \/ CollectEnd(p)
      PROVE  TypeOK'
  BY <1>8, Zenon DEF DeleteManifest, RemoveDirectory, CollectEnd, Abort
<1>10. ASSUME NEW p \in Processes, CollectBegin(p) \/ RecoverBegin(p)
       PROVE  TypeOK'
  BY <1>10 DEF CollectBegin, RecoverBegin, Start
<1>11. ASSUME NEW p \in Processes, CollectScan(p)
       PROVE  TypeOK'
  BY <1>11 DEF CollectScan
<1>13. ASSUME NEW p \in Processes, RecoverList(p)
       PROVE  TypeOK'
  BY <1>13 DEF RecoverList, Stop
<1>14. ASSUME NEW p \in Processes, RecoverLock(p) \/ RecoverReplace(p) \/ Unlock(p)
       PROVE  TypeOK'
  BY <1>14 DEF RecoverLock, RecoverReplace, Unlock, Stop
<1>15. ASSUME NEW p \in Processes, Raise(p) \/ Crash(p)
       PROVE  TypeOK'
  BY <1>15 DEF Raise, Crash, Fail, Stop, Abort
<1>16. CASE RemoveOrphan \/ \E s \in Damageable : Damage(s)
  BY <1>16 DEF RemoveOrphan, Damage, Fail
<1>17. CASE UNCHANGED vars
  BY <1>17, Zenon DEF vars
<1> QED
  BY Zenon, <1>1, <1>2, <1>3, <1>5, <1>7, <1>8, <1>10, <1>11, <1>13, <1>14, <1>15, <1>16,
     <1>17 DEF Next


(* Only the process that made the lock directory is inside a mutation. *)
LEMMA LocksInduction ==
    ASSUME TypeOK, MutationsLocked, [Next]_vars
    PROVE  MutationsLocked'
<1> USE SegmentsAssumption DEF TypeOK, MutationsLocked, Mutating, Goto, Ids, LockDirFree, disk, locals
<1>1. ASSUME NEW p \in Processes, NEW content \in SUBSET Segments \ {{}},
             CommitBegin(p, content)
      PROVE  MutationsLocked'
  BY <1>1, Zenon DEF CommitBegin, Start
<1>2. ASSUME NEW p \in Processes, MakeGeneration(p)
      PROVE  MutationsLocked'
  BY <1>2 DEF MakeGeneration
<1>3. ASSUME NEW p \in Processes, NEW s \in Segments, StoreSegment(p, s)
      PROVE  MutationsLocked'
  BY <1>3 DEF StoreSegment, Abort
<1>4. ASSUME NEW p \in Processes, NEW s \in Segments, Sweep(p, s)
      PROVE  MutationsLocked'
  BY <1>4 DEF Sweep
<1>5. ASSUME NEW p \in Processes, WriteManifest(p)
      PROVE  MutationsLocked'
  BY <1>5, Zenon DEF WriteManifest
<1>6. ASSUME NEW p \in Processes, Publish(p)
      PROVE  MutationsLocked'
  BY <1>6 DEF Publish, Abort
<1>7. ASSUME NEW p \in Processes, NEW g \in Ids, DeleteBegin(p, g)
      PROVE  MutationsLocked'
  BY <1>7, Zenon DEF DeleteBegin, Start
<1>8. ASSUME NEW p \in Processes, DeleteManifest(p)
      PROVE  MutationsLocked'
  BY <1>8 DEF DeleteManifest, Abort
<1>9. ASSUME NEW p \in Processes, RemoveDirectory(p) \/ CollectEnd(p)
      PROVE  MutationsLocked'
  BY <1>9, Zenon DEF RemoveDirectory, CollectEnd
<1>10. ASSUME NEW p \in Processes, CollectBegin(p) \/ RecoverBegin(p)
      PROVE  MutationsLocked'
  BY <1>10 DEF CollectBegin, RecoverBegin, Start
<1>11. ASSUME NEW p \in Processes, CollectScan(p)
      PROVE  MutationsLocked'
  BY <1>11, Zenon DEF CollectScan
<1>12. ASSUME NEW p \in Processes, RecoverList(p)
      PROVE  MutationsLocked'
  BY <1>12 DEF RecoverList, Stop
<1>13. ASSUME NEW p \in Processes, RecoverLock(p) \/ RecoverReplace(p)
      PROVE  MutationsLocked'
  BY <1>13 DEF RecoverLock, RecoverReplace, Stop
<1>14. ASSUME NEW p \in Processes, Unlock(p) \/ Raise(p) \/ Crash(p)
      PROVE  MutationsLocked'
  BY <1>14, ZenonT(60) DEF Unlock, Raise, Crash, Fail, Stop, Abort
<1>15. CASE RemoveOrphan \/ \E s \in Damageable : Damage(s)
  BY <1>15, Zenon DEF RemoveOrphan, Damage, Fail
<1>16. CASE UNCHANGED vars
  BY <1>16, Zenon DEF vars
<1> QED
  BY <1>1, <1>2, <1>3, <1>4, <1>5, <1>6, <1>7, <1>8, <1>9, <1>10, <1>11, <1>12, <1>13, <1>14, <1>15, <1>16, Zenon
     DEF Next

(* No step takes a segment from a manifest that is in place. *)
LEMMA IntactInduction ==
    ASSUME SegmentsInv, [Next]_vars
    PROVE  RetainedIntact'
<1> USE SegmentsAssumption DEF SegmentsInv, TypeOK, MutationsLocked, RetainedIntact, Goto, disk, locals
<1>1. ASSUME NEW p \in Processes, NEW content \in SUBSET Segments \ {{}},
             CommitBegin(p, content)
      PROVE  RetainedIntact'
  BY <1>1, Zenon DEF CommitBegin, Start
<1>2. ASSUME NEW p \in Processes, MakeGeneration(p)
      PROVE  RetainedIntact'
  BY <1>2, Zenon DEF MakeGeneration
<1>3. ASSUME NEW p \in Processes, NEW s \in Segments, StoreSegment(p, s)
      PROVE  RetainedIntact'
  BY <1>3, Zenon DEF StoreSegment, Abort
<1>4. ASSUME NEW p \in Processes, NEW s \in Segments, Sweep(p, s)
      PROVE  RetainedIntact'
  BY <1>4, SweepSpares, Zenon DEF Sweep
<1>5. ASSUME NEW p \in Processes, WriteManifest(p)
      PROVE  RetainedIntact'
  BY <1>5, Zenon DEF WriteManifest
<1>6. ASSUME NEW p \in Processes, Publish(p)
      PROVE  RetainedIntact'
  BY <1>6, Zenon DEF Publish, Abort
<1>7. ASSUME NEW p \in Processes, NEW g \in Ids, DeleteBegin(p, g)
      PROVE  RetainedIntact'
  BY <1>7, Zenon DEF DeleteBegin, Start
<1>8. ASSUME NEW p \in Processes, DeleteManifest(p)
      PROVE  RetainedIntact'
  BY <1>8, Zenon DEF DeleteManifest, Abort
<1>9. ASSUME NEW p \in Processes, RemoveDirectory(p) \/ CollectEnd(p)
      PROVE  RetainedIntact'
  BY <1>9, Zenon DEF RemoveDirectory, CollectEnd
<1>10. ASSUME NEW p \in Processes, CollectBegin(p) \/ RecoverBegin(p)
      PROVE  RetainedIntact'
  BY <1>10, Zenon DEF CollectBegin, RecoverBegin, Start
<1>11. ASSUME NEW p \in Processes, CollectScan(p)
      PROVE  RetainedIntact'
  BY <1>11, Zenon DEF CollectScan
<1>12. ASSUME NEW p \in Processes, RecoverList(p)
      PROVE  RetainedIntact'
  BY <1>12, Zenon DEF RecoverList, Stop
<1>13. ASSUME NEW p \in Processes, RecoverLock(p) \/ RecoverReplace(p)
      PROVE  RetainedIntact'
  BY <1>13, Zenon DEF RecoverLock, RecoverReplace, Stop
<1>14. ASSUME NEW p \in Processes, Unlock(p) \/ Raise(p) \/ Crash(p)
      PROVE  RetainedIntact'
  BY <1>14, Zenon DEF Unlock, Raise, Crash, Fail, Stop, Abort
<1>15. CASE RemoveOrphan \/ \E s \in Damageable : Damage(s)
  BY <1>15, Zenon DEF RemoveOrphan, Damage, Fail
<1>16. CASE UNCHANGED vars
  BY <1>16, Zenon DEF vars
<1> QED
  BY <1>1, <1>2, <1>3, <1>4, <1>5, <1>6, <1>7, <1>8, <1>9, <1>10, <1>11, <1>12, <1>13, <1>14, <1>15, <1>16, Zenon
     DEF Next

(* The type invariant of the segment store. *)
THEOREM SegmentTypes == Spec => []TypeOK
<1>1. SegmentsInv /\ [Next]_vars => SegmentsInv'
  BY TypeInduction, LocksInduction, IntactInduction, Zenon DEF SegmentsInv
<1> QED
  BY <1>1, InitInv, PTL DEF Spec, SegmentsInv

(* Commits, deletions, collections and recoveries of any number of         *)
(* processes, with exceptions, crashes and damaged files among them, never *)
(* take a segment file from a generation whose manifest is in place.       *)
THEOREM RetainedStayIntact == Spec => []RetainedIntact
<1>1. SegmentsInv /\ [Next]_vars => SegmentsInv'
  BY TypeInduction, LocksInduction, IntactInduction, Zenon DEF SegmentsInv
<1> QED
  BY <1>1, InitInv, PTL DEF Spec, SegmentsInv

(* Only collection removes segment files, and each of them after a scan of *)
(* its own: every directory verified, and none named the segment.          *)
LEMMA RemovalsScanned ==
    ASSUME TypeOK, [Next]_vars, NEW s \in files \ files'
    PROVE  Invalid = {} /\ s \notin Referenced
<1> USE DEF TypeOK, disk, locals
<1>1. ASSUME NEW p \in Processes, NEW r \in Segments, Sweep(p, r)
      PROVE  Invalid = {} /\ s \notin Referenced
  BY <1>1, Zenon DEF Sweep
<1>2. ASSUME NEW p \in Processes,
             \/ \E content \in SUBSET Segments \ {{}} : CommitBegin(p, content)
             \/ MakeGeneration(p)
             \/ \E r \in Segments : StoreSegment(p, r)
             \/ WriteManifest(p)
             \/ Publish(p)
             \/ \E g \in Ids : DeleteBegin(p, g)
             \/ DeleteManifest(p)
             \/ RemoveDirectory(p)
      PROVE  FALSE
  BY <1>2, Zenon
     DEF CommitBegin, MakeGeneration, StoreSegment, WriteManifest, Publish, DeleteBegin,
              DeleteManifest, RemoveDirectory
<1>3. ASSUME NEW p \in Processes,
             \/ CollectBegin(p)
             \/ CollectScan(p)
             \/ CollectEnd(p)
             \/ RecoverBegin(p)
             \/ RecoverList(p)
             \/ RecoverLock(p)
             \/ RecoverReplace(p)
             \/ Unlock(p)
             \/ Raise(p)
             \/ Crash(p)
      PROVE  FALSE
  BY <1>3, Zenon
     DEF CollectBegin, CollectScan, CollectEnd, RecoverBegin, RecoverList, RecoverLock,
              RecoverReplace, Unlock, Raise, Crash
<1>4. CASE RemoveOrphan \/ (\E r \in Damageable : Damage(r)) \/ UNCHANGED vars
  BY <1>4, Zenon DEF RemoveOrphan, Damage, vars
<1> QED
  BY <1>1, <1>2, <1>3, <1>4, Zenon DEF Next

(* Whatever else is going on, what collect_unreferenced_segments removes   *)
(* is named by no directory, and while one does not verify it removes      *)
(* nothing.                                                                *)
THEOREM CollectionFailsClosed == Spec => CollectFailsClosed
<1>1. SegmentsInv /\ [Next]_vars => SegmentsInv'
  BY TypeInduction, LocksInduction, IntactInduction, Zenon DEF SegmentsInv
<1>2. SegmentsInv /\ [Next]_vars
         => [\A s \in files \ files' : Invalid = {} /\ s \notin Referenced]_vars
  BY RemovalsScanned, Zenon DEF SegmentsInv
<1> QED
  BY <1>1, <1>2, InitInv, PTL DEF Spec, CollectFailsClosed

-----------------------------------------------------------------------------
(* Whoever made the lock directory and lives is inside its with block. *)
HolderInside == \A p \in Processes : lockdir = p => pc[p] \in Mutating

LEMMA HolderInduction ==
    ASSUME TypeOK, HolderInside, [Next]_vars
    PROVE  HolderInside'
<1> USE SegmentsAssumption DEF TypeOK, HolderInside, Mutating, Goto, LockDirFree, disk, locals
<1>1. ASSUME NEW p \in Processes,
             \/ \E content \in SUBSET Segments \ {{}} : CommitBegin(p, content)
             \/ \E g \in Ids : DeleteBegin(p, g)
             \/ CollectBegin(p)
             \/ RecoverBegin(p)
      PROVE  HolderInside'
  BY <1>1 DEF CommitBegin, DeleteBegin, CollectBegin, RecoverBegin, Start
<1>2. ASSUME NEW p \in Processes, NEW s \in Segments, StoreSegment(p, s) \/ Sweep(p, s)
      PROVE  HolderInside'
  BY <1>2, Zenon DEF StoreSegment, Sweep, Abort
<1>3. ASSUME NEW p \in Processes,
             MakeGeneration(p) \/ WriteManifest(p) \/ Publish(p) \/ DeleteManifest(p)
             \/ RemoveDirectory(p)
      PROVE  HolderInside'
  BY <1>3, Zenon
     DEF MakeGeneration, WriteManifest, Publish, DeleteManifest, RemoveDirectory, Abort
<1>4. ASSUME NEW p \in Processes,
             CollectScan(p) \/ CollectEnd(p) \/ RecoverList(p) \/ RecoverLock(p)
             \/ RecoverReplace(p)
      PROVE  HolderInside'
  BY <1>4 DEF CollectScan, CollectEnd, RecoverList, RecoverLock, RecoverReplace, Stop
<1>5. ASSUME NEW p \in Processes, Unlock(p) \/ Raise(p) \/ Crash(p)
      PROVE  HolderInside'
  BY <1>5 DEF Unlock, Raise, Crash, Stop, Abort
<1>6. CASE RemoveOrphan \/ (\E s \in Damageable : Damage(s)) \/ UNCHANGED vars
  BY <1>6, Zenon DEF RemoveOrphan, Damage, vars
<1> QED
  BY <1>1, <1>2, <1>3, <1>4, <1>5, <1>6, Zenon DEF Next

(* Where recover_current runs while no other operation does: identifiers   *)
(* not given out yet have no directory, and a recovery that has come down  *)
(* to a generation has found that neither the current one nor any newer    *)
(* one verifies.                                                           *)
Recovering == {"list", "relock", "repair"}

RecoveryInv ==
    /\ \A g \in Ids : g > last => generation[g] = "absent"
    /\ \A p \in Processes :
        /\ pc[p] \in {"store", "publish"} => gen[p] \in 1 .. last
        /\ pc[p] \in Recovering =>
              /\ task[p] = "recover"
              /\ \A q \in Processes \ {p} : pc[q] = "idle"
              /\ ~ Verifies(current)
              /\ \A g \in Ids : g > gen[p] => ~ Verifies(g)
        /\ pc[p] \in {"relock", "repair"} => gen[p] \in Ids /\ generation[gen[p]] = "complete"

LEMMA InitRecovery == Init => HolderInside /\ RecoveryInv
BY SegmentsAssumption DEF Init, HolderInside, RecoveryInv, Recovering, Ids

(* A step of an operation other than recovery: nobody is recovering, and   *)
(* it remains to look at the identifiers.                                  *)
LEMMA MutationRecovery ==
    ASSUME TypeOK, RecoveryInv, NEW p \in Processes,
           pc[p] \notin Recovering \cup {"idle"},
           pc'[p] \notin Recovering,
           \A q \in Processes \ {p} : pc'[q] = pc[q] /\ gen'[q] = gen[q],
           last' >= last, last' \in Nat,
           \A g \in Ids : g > last' => generation'[g] = "absent",
           pc'[p] \in {"store", "publish"} => gen'[p] \in 1 .. last'
    PROVE  RecoveryInv'
BY DEF RecoveryInv, Recovering, TypeOK, Ids

(* An operation begins while nobody is recovering. *)
LEMMA StartRecovery ==
    ASSUME TypeOK, RecoveryInv, ExclusiveRecovery, NEW p \in Processes,
           NEW kind \in Tasks \ {"recover"}, NEW step \in {"make", "check", "scan"},
           NEW g, NEW content, Start(p, kind, step, g, content), UNCHANGED disk
    PROVE  RecoveryInv'
<1>1. \A q \in Processes \ {p} : pc[q] \notin Recovering
  BY Zenon DEF Start, Undisturbed, RecoveryInv, Recovering
<1> QED
  BY <1>1 DEF Start, Goto, RecoveryInv, Recovering, TypeOK, disk

(* An operation that ends, or raises, makes no claim. *)
LEMMA LeaveRecovery ==
    ASSUME TypeOK, RecoveryInv, NEW p \in Processes, pc[p] # "idle", Stop(p) \/ Abort(p),
           UNCHANGED disk
    PROVE  RecoveryInv'
BY DEF Stop, Abort, Goto, RecoveryInv, Recovering, TypeOK, disk, Verifies

LEMMA RecoveryInduction ==
    ASSUME SegmentsInv, HolderInside, RecoveryInv, ExclusiveRecovery, [Next]_vars
    PROVE  RecoveryInv'
<1> USE SegmentsAssumption DEF SegmentsInv, Goto, disk, locals
<1>1. ASSUME NEW p \in Processes, NEW content \in SUBSET Segments \ {{}},
             CommitBegin(p, content)
      PROVE  RecoveryInv'
  BY <1>1, StartRecovery, Zenon DEF CommitBegin, Tasks
<1>2. ASSUME NEW p \in Processes, MakeGeneration(p)
      PROVE  RecoveryInv'
  BY <1>2, MutationRecovery
     DEF MakeGeneration, TypeOK, RecoveryInv, MutationsLocked, Recovering, Ids
<1>3. ASSUME NEW p \in Processes, NEW s \in Segments, StoreSegment(p, s)
      PROVE  RecoveryInv'
  <2>1. CASE s \in damaged
    BY <1>3, <2>1, LeaveRecovery, Zenon DEF StoreSegment
  <2>2. CASE s \notin damaged
    BY <1>3, <2>2, MutationRecovery DEF StoreSegment, TypeOK, RecoveryInv, Recovering
  <2> QED
    BY <2>1, <2>2, Zenon
<1>4. ASSUME NEW p \in Processes, NEW s \in Segments, Sweep(p, s)
      PROVE  RecoveryInv'
  BY <1>4, MutationRecovery DEF Sweep, TypeOK, RecoveryInv, Recovering
<1>5. ASSUME NEW p \in Processes, WriteManifest(p)
      PROVE  RecoveryInv'
  BY <1>5, MutationRecovery DEF WriteManifest, TypeOK, RecoveryInv, Recovering, Ids
<1>6. ASSUME NEW p \in Processes, Publish(p)
      PROVE  RecoveryInv'
  <2>1. CASE Verifies(gen[p])
    BY <1>6, <2>1, MutationRecovery DEF Publish, TypeOK, RecoveryInv, Recovering
  <2>2. CASE ~ Verifies(gen[p])
    BY <1>6, <2>2, LeaveRecovery, Zenon DEF Publish
  <2> QED
    BY <2>1, <2>2, Zenon
<1>7. ASSUME NEW p \in Processes, NEW g \in Ids, DeleteBegin(p, g)
      PROVE  RecoveryInv'
  BY <1>7, StartRecovery, Zenon DEF DeleteBegin, Tasks
<1>8. ASSUME NEW p \in Processes, DeleteManifest(p)
      PROVE  RecoveryInv'
  <2>1. CASE gen[p] # current /\ Verifies(gen[p])
    BY <1>8, <2>1, MutationRecovery
       DEF DeleteManifest, TypeOK, RecoveryInv, Recovering, Verifies, Ids
  <2>2. CASE ~ (gen[p] # current /\ Verifies(gen[p]))
    BY <1>8, <2>2, LeaveRecovery, Zenon DEF DeleteManifest
  <2> QED
    BY <2>1, <2>2, Zenon
<1>9. ASSUME NEW p \in Processes, RemoveDirectory(p) \/ CollectEnd(p) \/ CollectScan(p)
      PROVE  RecoveryInv'
  BY <1>9, MutationRecovery
     DEF RemoveDirectory, CollectEnd, CollectScan, TypeOK, RecoveryInv, Recovering, Ids
<1>10. ASSUME NEW p \in Processes, CollectBegin(p)
      PROVE  RecoveryInv'
  BY <1>10, StartRecovery, Zenon DEF CollectBegin, Tasks
<1>11. ASSUME NEW p \in Processes, RecoverBegin(p)
      PROVE  RecoveryInv'
  BY <1>11 DEF RecoverBegin, Start, Undisturbed, Verifies, TypeOK, RecoveryInv, Recovering, Ids
<1>12. ASSUME NEW p \in Processes, RecoverList(p)
      PROVE  RecoveryInv'
  <2>1. CASE gen[p] = 0
    BY <1>12, <2>1, LeaveRecovery, Zenon DEF RecoverList
  <2>2. CASE gen[p] # 0 /\ Verifies(gen[p])
    BY <1>12, <2>2 DEF RecoverList, Verifies, TypeOK, RecoveryInv, Recovering, Ids
  <2>3. CASE gen[p] # 0 /\ ~ Verifies(gen[p])
    <3>1. gen'[p] = gen[p] - 1 /\ gen[p] \in Nat
      BY <1>12, <2>3 DEF RecoverList, TypeOK
    <3>2. \A g \in Ids : g > gen'[p] => ~ Verifies(g)
      BY <1>12, <2>3, <3>1 DEF RecoverList, RecoveryInv, Recovering, Ids
    <3> QED
      BY <1>12, <2>3, <3>2 DEF RecoverList, Verifies, TypeOK, RecoveryInv, Recovering
  <2> QED
    BY <2>1, <2>2, <2>3, Zenon
<1>13. ASSUME NEW p \in Processes, RecoverLock(p)
      PROVE  RecoveryInv'
  <2>1. CASE LockDirFree
    BY <1>13, <2>1 DEF RecoverLock, Verifies, TypeOK, RecoveryInv, Recovering
  <2>2. CASE ~ LockDirFree
    BY <1>13, <2>2, LeaveRecovery, Zenon DEF RecoverLock
  <2> QED
    BY <2>1, <2>2, Zenon
<1>14. ASSUME NEW p \in Processes, RecoverReplace(p)
      PROVE  RecoveryInv'
  BY <1>14 DEF RecoverReplace, TypeOK, RecoveryInv, Recovering
<1>15. ASSUME NEW p \in Processes, Unlock(p) \/ Raise(p) \/ Crash(p)
      PROVE  RecoveryInv'
  BY <1>15, LeaveRecovery, Zenon DEF Unlock, Raise, Crash, HolderInside, Mutating
<1>16. CASE RemoveOrphan \/ \E s \in Damageable : Damage(s)
  BY <1>16, SMTT(30) DEF RemoveOrphan, Damage, Verifies, TypeOK, RecoveryInv, Recovering
<1>17. CASE UNCHANGED vars
  BY <1>17, Zenon DEF vars, Verifies, RecoveryInv, Recovering
<1> QED
  BY Zenon, <1>1, <1>2, <1>3, <1>4, <1>5, <1>6, <1>7, <1>8, <1>9, <1>10, <1>11, <1>12, <1>13,
     <1>14,
     <1>15, <1>16, <1>17 DEF Next

(* What a step that replaces SEGMENT_CURRENT has established. *)
LEMMA PublicationStep ==
    ASSUME SegmentsInv, RecoveryInv, [Next]_vars, current' # current
    PROVE  /\ generation[current'] = "complete"
           /\ refs[current'] \subseteq files
           /\ \/ Verifies(current') /\ \E p \in Processes : pc[p] = "publish"
              \/ ~ Verifies(current) /\ \A g \in Ids : g > current' => ~ Verifies(g)
<1> DEFINE Stands ==
      /\ generation[current'] = "complete"
      /\ refs[current'] \subseteq files
      /\ \/ Verifies(current') /\ \E p \in Processes : pc[p] = "publish"
         \/ ~ Verifies(current) /\ \A g \in Ids : g > current' => ~ Verifies(g)
<1> USE DEF SegmentsInv, disk, locals
<1>1. ASSUME NEW p \in Processes, Publish(p)
      PROVE  Stands
  BY <1>1, Zenon DEF Publish, Verifies
<1>2. ASSUME NEW p \in Processes, RecoverReplace(p)
      PROVE  Stands
  BY <1>2, Zenon DEF RecoverReplace, RecoveryInv, Recovering, RetainedIntact
<1>3. ASSUME NEW p \in Processes,
             \/ \E content \in SUBSET Segments \ {{}} : CommitBegin(p, content)
             \/ MakeGeneration(p)
             \/ \E r \in Segments : StoreSegment(p, r) \/ Sweep(p, r)
             \/ WriteManifest(p)
             \/ \E g \in Ids : DeleteBegin(p, g)
             \/ DeleteManifest(p)
             \/ RemoveDirectory(p)
      PROVE  FALSE
  BY <1>3, Zenon DEF CommitBegin, MakeGeneration, StoreSegment, Sweep, WriteManifest, DeleteBegin,
              DeleteManifest, RemoveDirectory
<1>4. ASSUME NEW p \in Processes,
             \/ CollectBegin(p)
             \/ CollectScan(p)
             \/ CollectEnd(p)
             \/ RecoverBegin(p)
             \/ RecoverList(p)
             \/ RecoverLock(p)
             \/ Unlock(p)
             \/ Raise(p)
             \/ Crash(p)
      PROVE  FALSE
  BY <1>4, Zenon
     DEF CollectBegin, CollectScan, CollectEnd, RecoverBegin, RecoverList, RecoverLock,
              Unlock, Raise, Crash
<1>5. CASE RemoveOrphan \/ (\E r \in Damageable : Damage(r)) \/ UNCHANGED vars
  BY <1>5, Zenon DEF RemoveOrphan, Damage, vars
<1> QED
  BY <1>1, <1>2, <1>3, <1>4, <1>5, Zenon DEF Next

(* Where recovery runs alone, as its documentation asks: SEGMENT_CURRENT   *)
(* moves to a complete generation only, by a commit that has verified it,  *)
(* or by a recovery, away from a generation that does not verify and to    *)
(* the newest that does.                                                   *)
THEOREM PublicationsStayCurrent ==
    ASSUME ExclusiveRecovery
    PROVE  Spec => PublicationsStand
<1>1. SegmentsInv /\ HolderInside /\ RecoveryInv /\ [Next]_vars
         => SegmentsInv' /\ HolderInside' /\ RecoveryInv'
  BY HolderInduction, TypeInduction, LocksInduction, IntactInduction, RecoveryInduction, Zenon
     DEF SegmentsInv
<1>2. SegmentsInv /\ RecoveryInv /\ [Next]_vars
         => [current' # current =>
               /\ generation[current'] = "complete"
               /\ refs[current'] \subseteq files
               /\ \/ Verifies(current') /\ \E p \in Processes : pc[p] = "publish"
                  \/ ~ Verifies(current) /\ \A g \in Ids : g > current' => ~ Verifies(g)]_vars
  BY PublicationStep, Zenon
<1> QED
  BY <1>1, <1>2, InitInv, InitRecovery, PTL DEF Spec, PublicationsStand

=============================================================================
