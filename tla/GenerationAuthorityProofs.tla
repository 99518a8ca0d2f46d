--------------------- MODULE GenerationAuthorityProofs ---------------------
(***************************************************************************)
(* What holds of the Generation Authority for any number of processes,     *)
(* threads, generations, records, leases and failures.  The second half:   *)
(* what the leases protect when every lease is closed by the thread that   *)
(* opened it, and that the Generation Authority then implements the ledger *)
(* of GenerationLedger.                                                    *)
(***************************************************************************)
EXTENDS GenerationAuthority, TLAPS, FiniteSetTheorems

(* The generation a log ends with, if it has records, is a generation. *)
LEMMA CurrentRootType ==
    ASSUME NEW records \in Seq(Records)
    PROVE  CurrentRoot(records) \in Generations \cup {None}
<1>1. CASE records = << >>
  BY <1>1, Zenon DEF CurrentRoot
<1>2. CASE records # << >>
  <2>1. Len(records) \in 1 .. Len(records)
    BY <1>2
  <2>2. records[Len(records)] \in Records
    BY <2>1
  <2> QED
    BY <1>2, <2>2, Zenon DEF CurrentRoot, Records
<1> QED
  BY <1>1, <1>2, Zenon

(* The record that publish and rollback append is a record: the generation *)
(* of both operations is one, and so is the one the log ends with.         *)
LEMMA NewRecordType ==
    ASSUME TypeOK, StepsMatch, NEW t \in Threads,
           op[t].kind \in {"publish", "rollback"}
    PROVE  NewRecord(t) \in Records
<1>1. op[t].gen \in Generations
  BY Zenon DEF StepsMatch
<1>2. CurrentRoot(log) \in Generations \cup {None}
  BY CurrentRootType, Zenon DEF TypeOK
<1> QED
  BY <1>1, <1>2, Zenon DEF NewRecord, Records

(* The lease that pin returns is one. *)
LEMMA NewLeaseType ==
    ASSUME TypeOK, NEW t \in Threads, NEW g \in Generations
    PROVE  /\ [store |-> StoreOf[t], gen |-> g, owner |-> t, seq |-> Len(head)]
                 \in OpenLeases
           /\ [store |-> StoreOf[t], gen |-> g, owner |-> t, seq |-> Len(head)]
                 # None
<1>1. Len(head) \in Nat
  BY DEF TypeOK
<1>2. [store |-> StoreOf[t], gen |-> g, owner |-> t, seq |-> Len(head)]
          \in OpenLeases
  BY <1>1, StoresAssumption, Zenon DEF OpenLeases
<1> QED
  BY <1>2, LeasesAssumption, Zenon

LEMMA NoOpType == NoOp \in Operations
BY DEF NoOp, Operations, Kinds

(* Returning keeps the types and leaves the thread idle. *)
LEMMA ReturnType ==
    ASSUME TypeOK, StepsMatch, NEW t \in Threads, Return(t),
           materialized \subseteq materialized'
    PROVE  /\ pc' \in [Threads -> Steps]
           /\ op' \in [Threads -> Operations]
           /\ mutex' \in [Stores -> Threads \cup {None}]
           /\ lock' \in Threads \cup {None}
           /\ StepsMatch'
<1>1. pc' \in [Threads -> Steps]
  BY Zenon DEF Return, TypeOK, Steps
<1>2. op' \in [Threads -> Operations]
  BY NoOpType, Zenon DEF Return, TypeOK
<1>3. mutex' \in [Stores -> Threads \cup {None}]
  BY Zenon DEF Return, TypeOK
<1>4. lock' \in Threads \cup {None}
  BY Zenon DEF Return, TypeOK
<1>5. StepsMatch'
  <2>1. \A u \in Threads : IF u = t THEN pc'[u] = "idle" /\ op'[u] = NoOp
                                    ELSE pc'[u] = pc[u] /\ op'[u] = op[u]
    BY Zenon DEF Return, TypeOK
  <2> QED
    BY <2>1 DEF StepsMatch, NoOp
<1> QED
  BY <1>1, <1>2, <1>3, <1>4, <1>5, Zenon

(* Every variable keeps its type, and every thread is at a step that its   *)
(* operation has.                                                          *)
LEMMA TypeInduction ==
    TypeOK /\ StepsMatch /\ [Next]_vars => TypeOK' /\ StepsMatch'
<1> SUFFICES ASSUME TypeOK, StepsMatch, [Next]_vars
             PROVE  TypeOK' /\ StepsMatch'
  BY Zenon
<1>1. ASSUME NEW t \in Threads, NEW g \in Generations, PublishBegin(t, g)
      PROVE  TypeOK' /\ StepsMatch'
  BY <1>1 DEF PublishBegin, Start, Steps, Kinds,
        Operations, NoOp, TypeOK, StepsMatch, locking
<1>2. ASSUME NEW t \in Threads, NEW k \in {"rollback", "retire", "recover"},
             NEW g \in Generations \cup {None}, LockedBegin(t, k, g)
      PROVE  TypeOK' /\ StepsMatch'
  BY <1>2 DEF LockedBegin, Start, Steps, Kinds,
        Operations, NoOp, TypeOK, StepsMatch, locking
<1>3. ASSUME NEW t \in Threads, NEW g \in Generations \cup {None},
             NEW l \in Leases, PinBegin(t, g, l)
      PROVE  TypeOK' /\ StepsMatch'
  BY <1>3 DEF PinBegin, Start, Steps, Kinds,
        Operations, NoOp, TypeOK, StepsMatch, locking
<1>4. ASSUME NEW t \in Threads, NEW l \in Leases, CloseBegin(t, l)
      PROVE  TypeOK' /\ StepsMatch'
  <2>1. lease[l].gen \in Generations
    BY <1>4, Zenon DEF CloseBegin, TypeOK, OpenLeases
  <2> QED
    BY <1>4, <2>1 DEF CloseBegin, Start, Steps, Kinds, Operations, NoOp,
          TypeOK, StepsMatch, locking
<1>5. ASSUME NEW t \in Threads, ReadCurrent(t)
      PROVE  TypeOK' /\ StepsMatch'
  BY <1>5 DEF ReadCurrent, Start, Steps, Kinds,
        Operations, NoOp, TypeOK, StepsMatch, locking
<1>6. ASSUME NEW t \in Threads, Materialize(t)
      PROVE  TypeOK' /\ StepsMatch'
  BY <1>6 DEF Materialize, Steps, TypeOK, StepsMatch, locking
<1>7. ASSUME NEW t \in Threads, Install(t)
      PROVE  TypeOK' /\ StepsMatch'
  BY <1>7 DEF Install, Steps, TypeOK, StepsMatch, locking
<1>8. ASSUME NEW t \in Threads, EnterMutex(t)
      PROVE  TypeOK' /\ StepsMatch'
  BY <1>8, ZenonT(30) DEF EnterMutex, Steps, TypeOK, StepsMatch, locking
<1>9. ASSUME NEW t \in Threads, TakeLock(t)
      PROVE  TypeOK' /\ StepsMatch'
  BY <1>9 DEF TakeLock, Steps, TypeOK, StepsMatch, locking
<1>10. ASSUME NEW t \in Threads, GiveUp(t)
      PROVE  TypeOK' /\ StepsMatch'
  BY <1>10, ReturnType, Zenon DEF GiveUp, TypeOK
<1>11. ASSUME NEW t \in Threads, Reject(t)
      PROVE  TypeOK' /\ StepsMatch'
  BY <1>11, ReturnType, Zenon DEF Reject, TypeOK
<1>12. ASSUME NEW t \in Threads, Raise(t)
      PROVE  TypeOK' /\ StepsMatch'
  BY <1>12, ReturnType DEF Raise, TypeOK
<1>13. ASSUME NEW t \in Threads, RepairLog(t)
      PROVE  TypeOK' /\ StepsMatch'
  <2>1. CASE Recoverable(log)
    <3>1. TypeOK'
      BY <1>13, <2>1, Zenon DEF RepairLog, Steps, TypeOK, locking
    <3>2. StepsMatch'
      <4>1. \A u \in Threads : pc'[u] = IF u = t THEN "repairhead" ELSE pc[u]
        BY <1>13, <2>1, Zenon DEF RepairLog, TypeOK
      <4>2. pc[t] = "repairlog" /\ op' = op /\ materialized' = materialized
        BY <1>13, <2>1, Zenon DEF RepairLog
      <4> QED
        BY <4>1, <4>2, Zenon DEF StepsMatch
    <3> QED
      BY <3>1, <3>2, Zenon
  <2>2. CASE ~ Recoverable(log)
    BY <1>13, <2>2, ReturnType, Zenon DEF RepairLog, TypeOK
  <2> QED
    BY <2>1, <2>2, Zenon
<1>14. ASSUME NEW t \in Threads, RepairHead(t)
      PROVE  TypeOK' /\ StepsMatch'
  BY <1>14 DEF RepairHead, Steps, TypeOK, StepsMatch, locking
<1>15. ASSUME NEW t \in Threads, AppendBegin(t)
      PROVE  TypeOK' /\ StepsMatch'
  BY <1>15 DEF AppendBegin, Steps, TypeOK, StepsMatch, locking
<1>16. ASSUME NEW t \in Threads, AppendEnd(t)
      PROVE  TypeOK' /\ StepsMatch'
  <2>1. NewRecord(t) \in Records
    BY <1>16, NewRecordType, Zenon DEF AppendEnd, StepsMatch
  <2>2. log' \in Seq(Records)
    BY <1>16, <2>1 DEF AppendEnd, TypeOK
  <2> QED
    BY <1>16, <2>2, ZenonT(30) DEF AppendEnd, Steps, TypeOK, StepsMatch, locking
<1>17. ASSUME NEW t \in Threads, WriteHead(t)
      PROVE  TypeOK' /\ StepsMatch'
  BY <1>17 DEF WriteHead, Steps, TypeOK, StepsMatch, locking
<1>18. ASSUME NEW t \in Threads, Acknowledge(t)
      PROVE  TypeOK' /\ StepsMatch'
  BY <1>18, ReturnType, Zenon DEF Acknowledge, TypeOK
<1>19. ASSUME NEW t \in Threads, Recovered(t)
      PROVE  TypeOK' /\ StepsMatch'
  BY <1>19, ReturnType, Zenon DEF Recovered, TypeOK
<1>20. ASSUME NEW t \in Threads, ReadLog(t)
      PROVE  TypeOK' /\ StepsMatch'
  <2>1. op[t].head \in Seq(Records)
    BY Zenon DEF TypeOK, Operations
  <2> QED
    BY <1>20, <2>1, ReturnType, Zenon DEF ReadLog, TypeOK
<1>21. ASSUME NEW t \in Threads, Retire(t)
      PROVE  TypeOK' /\ StepsMatch'
  <2>1. op[t].gen \in Generations
    BY <1>21, Zenon DEF Retire, StepsMatch
  <2> QED
    BY <1>21, <2>1, ReturnType, Zenon DEF Retire, TypeOK
<1>22. ASSUME NEW t \in Threads, Pin(t)
      PROVE  TypeOK' /\ StepsMatch'
  <2>1. PinTarget(t) \in Generations /\ op[t].lease \in Leases
    BY <1>22, Zenon DEF Pin, Admissible, PinAdmissible, TypeOK, StepsMatch
  <2>2. [store |-> StoreOf[t], gen |-> PinTarget(t), owner |-> t,
         seq |-> Len(head)] \in OpenLeases
    BY <2>1, NewLeaseType, Zenon
  <2>3. lease' \in [Leases -> OpenLeases \cup {None}]
    BY <1>22, <2>1, <2>2, Zenon DEF Pin, TypeOK
  <2>4. pins' \in [Stores -> [Generations -> Nat]]
    BY <1>22, <2>1, StoresAssumption DEF Pin, TypeOK
  <2> QED
    BY <1>22, <2>3, <2>4, ReturnType, Zenon DEF Pin, TypeOK
<1>23. ASSUME NEW t \in Threads, CloseRelease(t)
      PROVE  TypeOK' /\ StepsMatch'
  <2>1. op[t].gen \in Generations /\ op[t].lease \in Leases
    BY <1>23, Zenon DEF CloseRelease, StepsMatch
  <2>2. pins' \in [Stores -> [Generations -> Nat]]
    BY <1>23, <2>1, StoresAssumption DEF CloseRelease, TypeOK
  <2>3. lease' \in [Leases -> OpenLeases \cup {None}]
    BY <1>23, <2>1, StoresAssumption, Zenon DEF CloseRelease, TypeOK
  <2> QED
    BY <1>23, <2>2, <2>3, ReturnType, Zenon DEF CloseRelease, TypeOK
<1>24. ASSUME NEW s \in Stores, Crash(s)
      PROVE  TypeOK' /\ StepsMatch'
  <2>1. TypeOK'
    BY <1>24, NoOpType DEF Crash, Steps, TypeOK
  <2>2. StepsMatch'
    BY <1>24, Zenon DEF Crash, StepsMatch, NoOp, TypeOK
  <2> QED
    BY <2>1, <2>2, Zenon
<1>25. CASE UNCHANGED vars
  BY <1>25, Zenon DEF vars, TypeOK, StepsMatch
<1> QED
  BY Zenon, <1>1, <1>2, <1>3, <1>4, <1>5, <1>6, <1>7, <1>8, <1>9, <1>10, <1>11,
     <1>12, <1>13, <1>14, <1>15, <1>16, <1>17, <1>18, <1>19, <1>20, <1>21,
     <1>22, <1>23, <1>24, <1>25
     DEF Next, Begin, Proceed

LEMMA InitType == Init => TypeOK /\ StepsMatch
<1> SUFFICES ASSUME Init PROVE TypeOK /\ StepsMatch
  BY Zenon
<1>1. << >> \in Seq(Records)
  OBVIOUS
<1>2. TypeOK
  BY <1>1, NoOpType, GenerationsAssumption, Zenon DEF Init, TypeOK, Steps
<1>3. StepsMatch
  BY Zenon DEF Init, StepsMatch, NoOp
<1> QED
  BY <1>2, <1>3, Zenon

(* In every reachable state each variable has its type, and each thread is *)
(* at a step of the operation it runs (all methods of the store).          *)
THEOREM TypeCorrect == Spec => [](TypeOK /\ StepsMatch)
BY InitType, TypeInduction, PTL DEF Spec

-----------------------------------------------------------------------------
(* What a step may do to the files, and who may take it. *)

(* Generations and receipts only accumulate; only an append changes the    *)
(* records, only a repair or a publication CURRENT, only retire receipts.  *)
LEMMA FilesFrame ==
    ASSUME [Next]_vars
    PROVE  /\ materialized \subseteq materialized'
           /\ retired \subseteq retired'
           /\ log' = log \/ \E t \in Threads : AppendEnd(t)
           /\ head' = head \/ \E t \in Threads : RepairHead(t) \/ WriteHead(t)
           /\ retired' = retired \/ \E t \in Threads : Retire(t)
<1> DEFINE Same == UNCHANGED << materialized, retired, log, head >>
<1>1. ASSUME NEW t \in Threads, Begin(t)
      PROVE  Same
  BY <1>1, Zenon DEF Begin, PublishBegin, LockedBegin, PinBegin, CloseBegin,
              ReadCurrent
<1>2. ASSUME NEW t \in Threads,
             Materialize(t) \/ EnterMutex(t) \/ TakeLock(t) \/ GiveUp(t)
                 \/ RepairLog(t) \/ Reject(t) \/ AppendBegin(t)
      PROVE  Same
  BY <1>2, Zenon DEF Materialize, EnterMutex, TakeLock, GiveUp, RepairLog, Reject,
              AppendBegin
<1>3. ASSUME NEW t \in Threads,
             Acknowledge(t) \/ Recovered(t) \/ Pin(t) \/ CloseRelease(t)
                 \/ ReadLog(t) \/ Raise(t)
      PROVE  Same
  BY <1>3, Zenon DEF Acknowledge, Recovered, Pin, CloseRelease, ReadLog, Raise
<1>4. ASSUME NEW t \in Threads, Install(t)
      PROVE  UNCHANGED << retired, log, head >> /\ materialized \subseteq materialized'
  BY <1>4, Zenon DEF Install
<1>5. ASSUME NEW t \in Threads, AppendEnd(t)
      PROVE  UNCHANGED << materialized, retired, head >>
  BY <1>5, Zenon DEF AppendEnd
<1>6. ASSUME NEW t \in Threads, RepairHead(t) \/ WriteHead(t)
      PROVE  UNCHANGED << materialized, retired, log >>
  BY <1>6, Zenon DEF RepairHead, WriteHead
<1>7. ASSUME NEW t \in Threads, Retire(t)
      PROVE  UNCHANGED << materialized, log, head >> /\ retired \subseteq retired'
  BY <1>7, Zenon DEF Retire
<1>8. ASSUME (\E s \in Stores : Crash(s)) \/ UNCHANGED vars
      PROVE  Same
  BY <1>8, Zenon DEF Crash, vars
<1> QED
  BY <1>1, <1>2, <1>3, <1>4, <1>5, <1>6, <1>7, <1>8, Zenon DEF Next, Proceed

(* A step leaves a thread where it is, is the thread's own, or makes it    *)
(* idle because its process died.                                          *)
LEMMA ThreadFrame ==
    ASSUME TypeOK, [Next]_vars, NEW u \in Threads
    PROVE  \/ pc'[u] = pc[u] /\ op'[u] = op[u]
           \/ pc'[u] = "idle" /\ op'[u] = NoOp
           \/ Begin(u) \/ Proceed(u) \/ Raise(u)
<1>1. CASE UNCHANGED vars
  BY <1>1, Zenon DEF vars
<1>2. ASSUME NEW s \in Stores, Crash(s)
      PROVE  \/ pc'[u] = pc[u] /\ op'[u] = op[u]
             \/ pc'[u] = "idle" /\ op'[u] = NoOp
  BY <1>2, Zenon DEF Crash
<1>3. ASSUME NEW t \in Threads, Begin(t), t # u
      PROVE  pc'[u] = pc[u] /\ op'[u] = op[u]
  <2>1. PICK step, operation : Start(t, step, operation)
    BY <1>3, Zenon DEF Begin, PublishBegin, LockedBegin, PinBegin, CloseBegin,
                ReadCurrent
  <2> QED
    BY <1>3, <2>1, Zenon DEF Start, TypeOK
<1>4. ASSUME NEW t \in Threads, Proceed(t) \/ Raise(t), t # u
      PROVE  pc'[u] = pc[u] /\ op'[u] = op[u]
  BY ZenonT(30), <1>4 DEF Proceed, Materialize, Install, EnterMutex, TakeLock, GiveUp,
              RepairLog, RepairHead, Reject, AppendBegin, AppendEnd, WriteHead,
              Acknowledge, Recovered, Retire, Pin, CloseRelease, ReadLog, Raise,
              Return, TypeOK
<1> QED
  BY <1>1, <1>2, <1>3, <1>4, Zenon DEF Next

(* The namespace lock and the mutex protect the steps that need them. *)
LEMMA LocksInduction ==
    TypeOK /\ StepsMatch /\ LocksHeld /\ [Next]_vars => LocksHeld'
<1> SUFFICES ASSUME TypeOK, StepsMatch, LocksHeld, [Next]_vars
             PROVE  LocksHeld'
  BY Zenon
<1>1. ASSUME NEW t \in Threads, Begin(t)
      PROVE  LocksHeld'
  <2>1. PICK step \in {"materialize", "mutex", "close", "readlog"} :
            \E operation : Start(t, step, operation)
    BY <1>1, Zenon DEF Begin, PublishBegin, LockedBegin, PinBegin, CloseBegin,
                ReadCurrent
  <2>2. UNCHANGED locking
    BY <1>1, Zenon DEF Begin, PublishBegin, LockedBegin, PinBegin, CloseBegin,
                ReadCurrent
  <2> QED
    BY <2>1, <2>2, Zenon DEF Start, LocksHeld, Critical, TypeOK, locking
<1>2. ASSUME NEW t \in Threads, Materialize(t) \/ Install(t)
      PROVE  LocksHeld'
  BY <1>2, Zenon DEF Materialize, Install, LocksHeld, Critical, TypeOK, locking
<1>3. ASSUME NEW t \in Threads, EnterMutex(t)
      PROVE  LocksHeld'
  BY <1>3, StoresAssumption, GenerationsAssumption, Zenon
     DEF EnterMutex, LocksHeld, Critical, TypeOK
<1>4. ASSUME NEW t \in Threads, TakeLock(t)
      PROVE  LocksHeld'
  BY <1>4, StoresAssumption, GenerationsAssumption, Zenon
     DEF TakeLock, LocksHeld, Critical, TypeOK
<1>5. ASSUME NEW t \in Threads, Return(t)
      PROVE  LocksHeld'
  BY <1>5, StoresAssumption, GenerationsAssumption, ZenonT(30)
     DEF Return, LocksHeld, Critical, TypeOK
<1>6. ASSUME NEW t \in Threads,
             RepairLog(t) \/ RepairHead(t) \/ AppendBegin(t) \/ AppendEnd(t)
                 \/ WriteHead(t)
      PROVE  LocksHeld'
  BY <1>5, <1>6, Zenon DEF RepairLog, RepairHead, AppendBegin, AppendEnd, WriteHead,
                    LocksHeld, Critical, TypeOK, locking
<1>7. ASSUME NEW s \in Stores, Crash(s)
      PROVE  LocksHeld'
  BY <1>7, StoresAssumption, GenerationsAssumption, Zenon
     DEF Crash, LocksHeld, Critical, TypeOK
<1>8. CASE UNCHANGED vars
  BY <1>8, Zenon DEF vars, LocksHeld
<1> QED
  BY <1>1, <1>2, <1>3, <1>4, <1>5, <1>6, <1>7, <1>8, ZenonT(30)
     DEF Next, Proceed, GiveUp, Reject, Acknowledge, Recovered, Retire, Pin,
         CloseRelease, ReadLog, Raise

(* While a thread is at a step under the namespace lock, the records,      *)
(* CURRENT and the receipts change by its own hand or not at all.          *)
LEMMA OwnFiles ==
    ASSUME LocksHeld, [Next]_vars, NEW u \in Threads, pc[u] \in Critical
    PROVE  /\ log' = log \/ AppendEnd(u)
           /\ head' = head \/ RepairHead(u) \/ WriteHead(u)
           /\ retired' = retired \/ Retire(u)
BY FilesFrame, Zenon DEF LocksHeld, Critical, AppendEnd, RepairHead, WriteHead, Retire

-----------------------------------------------------------------------------
(* The log, CURRENT and what callers know of them. *)

LEMMA PrefixTransitive ==
    ASSUME NEW a \in Seq(Records), NEW b \in Seq(Records), NEW c \in Seq(Records),
           IsPrefixOf(a, b), IsPrefixOf(b, c)
    PROVE  IsPrefixOf(a, c)
BY SMTT(30) DEF IsPrefixOf

(* What every locked operation relies on, and what it leaves behind. *)
FilesInv ==
    /\ TypeOK
    /\ StepsMatch
    /\ LocksHeld
    /\ ChecksStand
    /\ ReadsStand
    /\ LogRecoverable
    /\ HeadsCommitted
    /\ RollbackTargetLive

LEMMA ChecksInduction ==
    ASSUME FilesInv, [Next]_vars
    PROVE  ChecksStand'
<1> USE DEF FilesInv
<1> SUFFICES ASSUME NEW u \in Threads
             PROVE  /\ pc'[u] = "decide" /\ op'[u].kind # "pin" => head' = log'
                    /\ pc'[u] = "appending" =>
                         /\ head' = log'
                         /\ op'[u].gen \in materialized' \ Foreign
                         /\ op'[u].kind = "publish" =>
                               Parent[op'[u].gen] = CurrentRoot(log')
                         /\ op'[u].kind = "rollback" =>
                               /\ op'[u].gen \notin retired'
                               /\ Published(op'[u].gen, log')
  BY Zenon DEF ChecksStand, CurrentRoot, Published
<1>1. CASE pc'[u] = pc[u] /\ op'[u] = op[u] /\ pc[u] \in {"decide", "appending"}
  <2>1. pc[u] \in Critical
    BY <1>1, Zenon DEF Critical
  <2>2. log' = log /\ head' = head /\ (retired' = retired \/ pc[u] = "decide")
    <3>1. ~ AppendEnd(u) /\ ~ RepairHead(u) /\ ~ WriteHead(u)
      BY <1>1, Zenon DEF AppendEnd, RepairHead, WriteHead, TypeOK
    <3>2. ~ Retire(u) \/ pc[u] = "decide"
      BY Zenon DEF Retire
    <3> QED
      BY <2>1, <3>1, <3>2, OwnFiles, Zenon
  <2>3. materialized \subseteq materialized'
    BY FilesFrame, Zenon
  <2> QED
    BY <1>1, <2>2, <2>3, Zenon DEF ChecksStand
<1>2. CASE RepairHead(u)
  BY <1>2, Zenon DEF RepairHead, TypeOK
<1>3. CASE AppendBegin(u)
  <2>1. head = log
    BY <1>3, Zenon DEF AppendBegin, ChecksStand
  <2>2. CASE op[u].kind = "publish"
    <3>1. op[u].gen \in materialized \ Foreign
      BY <1>3, <2>2, Zenon DEF AppendBegin, StepsMatch
    <3> QED
      BY <1>3, <2>1, <2>2, <3>1, Zenon
         DEF AppendBegin, Admissible, PublishAdmissible, TypeOK
  <2>3. CASE op[u].kind = "rollback"
    BY <1>3, <2>1, <2>3, Zenon DEF AppendBegin, Admissible, RollbackAdmissible, TypeOK
  <2> QED
    BY <1>3, <2>2, <2>3, Zenon DEF AppendBegin
<1>4. CASE TakeLock(u)
  BY <1>4, Zenon DEF TakeLock, TypeOK
<1>5. CASE pc'[u] \notin {"decide", "appending"}
  BY <1>5, Zenon
<1>6. ASSUME Begin(u)
      PROVE  pc'[u] \notin {"decide", "appending"}
  BY <1>6, Zenon DEF Begin, PublishBegin, LockedBegin, PinBegin, CloseBegin,
              ReadCurrent, Start, TypeOK
<1>7. ASSUME Proceed(u) \/ Raise(u), ~ RepairHead(u), ~ AppendBegin(u),
             ~ TakeLock(u)
      PROVE  pc'[u] \notin {"decide", "appending"}
  BY <1>7, Zenon DEF Proceed, Materialize, Install, EnterMutex, GiveUp, RepairLog,
              Reject, AppendEnd, WriteHead, Acknowledge, Recovered, Retire, Pin,
              CloseRelease, ReadLog, Raise, Return, TypeOK
<1> QED
  BY <1>1, <1>2, <1>3, <1>4, <1>5, <1>6, <1>7, ThreadFrame, Zenon

(* CURRENT only moves forward along the log, and no record is lost. *)
LEMMA HeadGrows ==
    ASSUME FilesInv, [Next]_vars
    PROVE  /\ IsPrefixOf(head', log')
           /\ Len(log') <= Len(head') + 1
           /\ IsPrefixOf(head, head')
<1> USE DEF FilesInv
<1>1. IsPrefixOf(head, head)
  BY DEF IsPrefixOf, TypeOK
<1>2. CASE log' = log /\ head' = head
  BY <1>1, <1>2, Zenon DEF HeadsCommitted
<1>3. ASSUME NEW t \in Threads, AppendEnd(t)
      PROVE  IsPrefixOf(head', log') /\ Len(log') <= Len(head') + 1 /\ head' = head
  <2>1. head = log /\ NewRecord(t) \in Records
    BY <1>3, NewRecordType, Zenon DEF AppendEnd, ChecksStand, StepsMatch
  <2>2. log' = Append(log, NewRecord(t)) /\ head' = head
    BY <1>3, Zenon DEF AppendEnd
  <2> QED
    BY <2>1, <2>2, SMTT(30) DEF IsPrefixOf, TypeOK
<1>4. ASSUME NEW t \in Threads, RepairHead(t) \/ WriteHead(t)
      PROVE  log' = log /\ head' = log
  BY <1>4, Zenon DEF RepairHead, WriteHead
<1>5. IsPrefixOf(log, log) /\ Len(log) <= Len(log) + 1
  BY DEF IsPrefixOf, TypeOK
<1> QED
  BY <1>1, <1>2, <1>3, <1>4, <1>5, FilesFrame, Zenon DEF HeadsCommitted

LEMMA HeadsInduction ==
    ASSUME FilesInv, [Next]_vars
    PROVE  HeadsCommitted' /\ ReadsStand'
<1> USE DEF FilesInv
<1>0. TypeOK' /\ StepsMatch'
  BY TypeInduction, Zenon
<1>1. IsPrefixOf(head, head) /\ IsPrefixOf(head, head')
  <2>1. IsPrefixOf(head, head)
    BY DEF IsPrefixOf, TypeOK
  <2> QED
    BY <2>1, HeadGrows, Zenon
<1>2. ASSUME NEW u \in Threads
      PROVE  IsPrefixOf(known'[u], head)
  <2>1. CASE known' = known
    BY <2>1, Zenon DEF HeadsCommitted
  <2>2. ASSUME NEW t \in Threads, Acknowledge(t)
        PROVE  IsPrefixOf(known'[u], head)
    BY <1>1, <2>2, Zenon DEF Acknowledge, HeadsCommitted, TypeOK
  <2>3. ASSUME NEW t \in Threads, Recovered(t)
        PROVE  IsPrefixOf(known'[u], head)
    BY <1>1, <2>3, Zenon DEF Recovered, ChecksStand, HeadsCommitted, TypeOK
  <2>4. ASSUME NEW t \in Threads, ReadLog(t)
        PROVE  IsPrefixOf(known'[u], head)
    BY <1>1, <2>4, Zenon DEF ReadLog, ReadsStand, HeadsCommitted, TypeOK
  <2> QED
    BY <2>1, <2>2, <2>3, <2>4, ZenonT(30)
       DEF Next, Begin, Proceed, vars, PublishBegin, LockedBegin, PinBegin,
           CloseBegin, ReadCurrent, Materialize, Install, EnterMutex, TakeLock,
           GiveUp, RepairLog, RepairHead, Reject, AppendBegin, AppendEnd,
           WriteHead, Retire, Pin, CloseRelease, Raise, Crash
<1>3. ASSUME NEW u \in Threads
      PROVE  IsPrefixOf(known'[u], head')
  <2>1. known'[u] \in Seq(Records) /\ head \in Seq(Records) /\ head' \in Seq(Records)
    BY <1>0, Zenon DEF TypeOK
  <2> QED
    BY <1>1, <1>2, <2>1, PrefixTransitive, Zenon
<1>4. ASSUME NEW u \in Threads, pc'[u] = "readlog"
      PROVE  IsPrefixOf(op'[u].head, head')
  <2>1. IsPrefixOf(op'[u].head, head)
    <3>1. CASE pc'[u] = pc[u] /\ op'[u] = op[u]
      BY <1>4, <3>1, Zenon DEF ReadsStand
    <3>2. CASE ReadCurrent(u)
      BY <1>1, <3>2, Zenon DEF ReadCurrent, Start, TypeOK
    <3>3. CASE Begin(u) /\ ~ ReadCurrent(u)
      BY <1>4, <3>3, Zenon DEF Begin, PublishBegin, LockedBegin, PinBegin, CloseBegin,
                        Start, TypeOK
    <3>4. CASE Proceed(u) \/ Raise(u)
      BY <1>4, <3>4, ZenonT(30)
         DEF Proceed, Materialize, Install, EnterMutex, TakeLock, GiveUp,
             RepairLog, RepairHead, Reject, AppendBegin, AppendEnd, WriteHead,
             Acknowledge, Recovered, Retire, Pin, CloseRelease, ReadLog, Raise,
             Return, TypeOK
    <3> QED
      BY <1>4, <3>1, <3>2, <3>3, <3>4, ThreadFrame, Zenon
  <2>2. op'[u].head \in Seq(Records) /\ head \in Seq(Records) /\ head' \in Seq(Records)
    BY <1>0, Zenon DEF TypeOK, Operations
  <2> QED
    BY <1>1, <2>1, <2>2, PrefixTransitive, Zenon
<1> QED
  BY <1>3, <1>4, HeadGrows, Zenon DEF HeadsCommitted, ReadsStand, IsPrefixOf

LEMMA AppendedRecord ==
    ASSUME NEW records \in Seq(Records), NEW r \in Records
    PROVE  /\ Append(records, r) # << >>
           /\ Len(Append(records, r)) = Len(records) + 1
           /\ Append(records, r)[Len(records) + 1] = r
           /\ \A i \in 1 .. Len(records) : Append(records, r)[i] = records[i]
OBVIOUS

(* The record appended to a log that recovery accepts is one it accepts. *)
LEMMA RecoverableInduction ==
    ASSUME FilesInv, [Next]_vars
    PROVE  LogRecoverable'
<1> USE DEF FilesInv
<1>0. materialized \subseteq materialized'
  BY FilesFrame, Zenon
<1>1. CASE log' = log
  BY <1>0, <1>1, Zenon DEF LogRecoverable, Recoverable
<1>2. ASSUME NEW t \in Threads, AppendEnd(t)
      PROVE  LogRecoverable'
  <2> DEFINE r == NewRecord(t)
             n == Len(log)
  <2>1. /\ log \in Seq(Records) /\ n \in Nat
        /\ op[t].gen \in materialized \ Foreign
        /\ op[t].kind = "publish" => Parent[op[t].gen] = CurrentRoot(log)
        /\ op[t].kind = "rollback" => Published(op[t].gen, log)
    <3>1. log \in Seq(Records)
      BY Zenon DEF TypeOK
    <3> QED
      BY <1>2, <3>1 DEF AppendEnd, ChecksStand
  <2>2. /\ r \in Records
        /\ r.action = op[t].kind /\ r.gen = op[t].gen /\ r.prev = CurrentRoot(log)
    BY <1>2, NewRecordType, Zenon DEF AppendEnd, StepsMatch, NewRecord
  <2>3. log' = Append(log, r)
    BY <1>2, Zenon DEF AppendEnd
  <2> HIDE DEF r
  <2>4. /\ Len(log') = n + 1
        /\ log'[n + 1] = r
        /\ \A i \in 1 .. n : log'[i] = log[i]
    BY <2>1, <2>2, <2>3, AppendedRecord, Zenon
  <2>5. ASSUME NEW i \in 1 .. n
        PROVE  /\ log'[i].gen \in materialized' \ Foreign
               /\ log'[i].prev = IF i = 1 THEN None ELSE log'[i - 1].gen
               /\ log'[i].action = "publish" => Parent[log'[i].gen] = log'[i].prev
               /\ log'[i].action = "rollback" =>
                     \E j \in 1 .. i - 1 :
                         log'[j].action = "publish" /\ log'[j].gen = log'[i].gen
    <3>1. /\ log[i].gen \in materialized \ Foreign
          /\ log[i].prev = IF i = 1 THEN None ELSE log[i - 1].gen
          /\ log[i].action = "publish" => Parent[log[i].gen] = log[i].prev
          /\ log[i].action = "rollback" =>
                \E j \in 1 .. i - 1 :
                    log[j].action = "publish" /\ log[j].gen = log[i].gen
      BY Zenon DEF LogRecoverable, Recoverable
    <3>2. \A j \in 1 .. i - 1 : j \in 1 .. n /\ log'[j] = log[j]
      BY <2>1, <2>4
    <3>3. i = 1 \/ i - 1 \in 1 .. i - 1
      BY <2>1, SMTT(30)
    <3> QED
      BY <1>0, <2>4, <3>1, <3>2, <3>3, Zenon
  <2>6. /\ r.gen \in materialized' \ Foreign
        /\ r.prev = IF n + 1 = 1 THEN None ELSE log'[n].gen
        /\ r.action = "publish" => Parent[r.gen] = r.prev
    <3>1. r.prev = IF n + 1 = 1 THEN None ELSE log'[n].gen
      <4>1. CASE n = 0
        <5>1. log = << >>
          BY <2>1, <4>1
        <5> QED
          BY <2>2, <4>1, <5>1 DEF CurrentRoot
      <4>2. CASE n # 0
        <5>1. n \in 1 .. n /\ log # << >> /\ n + 1 # 1
          BY <2>1, <4>2
        <5> QED
          BY <2>2, <2>4, <5>1, Zenon DEF CurrentRoot
      <4> QED
        BY <4>1, <4>2, Zenon
    <3> QED
      BY <1>0, <2>1, <2>2, <3>1, Zenon
  <2>7. r.action = "rollback" =>
            \E j \in 1 .. n : log'[j].action = "publish" /\ log'[j].gen = r.gen
    BY <2>1, <2>2, <2>4, Zenon DEF Published
  <2>8. ASSUME NEW i \in 1 .. Len(log')
        PROVE  /\ log'[i].gen \in materialized' \ Foreign
               /\ log'[i].prev = IF i = 1 THEN None ELSE log'[i - 1].gen
               /\ log'[i].action = "publish" => Parent[log'[i].gen] = log'[i].prev
               /\ log'[i].action = "rollback" =>
                     \E j \in 1 .. i - 1 :
                         log'[j].action = "publish" /\ log'[j].gen = log'[i].gen
    <3>1. CASE i \in 1 .. n
      BY <2>5, <3>1, Zenon
    <3>2. CASE i = n + 1
      BY <2>1, <2>4, <2>6, <2>7, <3>2, SMTT(30)
    <3>3. i \in 1 .. n \/ i = n + 1
      BY <2>1, <2>4
    <3> QED
      BY <3>1, <3>2, <3>3, Zenon
  <2> QED
    BY <2>8, Zenon DEF LogRecoverable, Recoverable
<1> QED
  BY <1>1, <1>2, FilesFrame, Zenon

(* Rollback checked that its target is not retired, and retire spares the  *)
(* generation the log ends with.                                           *)
LEMMA RollbackInduction ==
    ASSUME FilesInv, [Next]_vars
    PROVE  RollbackTargetLive'
<1> USE DEF FilesInv
<1>1. CASE log' = log /\ retired' = retired
  BY <1>1, Zenon DEF RollbackTargetLive, CurrentRoot
<1>2. ASSUME NEW t \in Threads, Retire(t)
      PROVE  RollbackTargetLive'
  <2>1. CurrentRoot(log) # op[t].gen
    BY <1>2, Zenon DEF Retire, Admissible, RetireAdmissible
  <2>2. log' = log /\ retired' = retired \cup {op[t].gen}
    BY <1>2, Zenon DEF Retire
  <2> QED
    BY <2>1, <2>2, Zenon DEF RollbackTargetLive, CurrentRoot
<1>3. ASSUME NEW t \in Threads, AppendEnd(t)
      PROVE  RollbackTargetLive'
  <2>1. /\ NewRecord(t) \in Records
        /\ NewRecord(t).action = op[t].kind
        /\ NewRecord(t).gen = op[t].gen
    BY <1>3, NewRecordType, Zenon DEF AppendEnd, StepsMatch, NewRecord
  <2>2. log' = Append(log, NewRecord(t)) /\ retired' = retired
    BY <1>3, Zenon DEF AppendEnd
  <2>3. log'[Len(log')] = NewRecord(t) /\ log' # << >>
    <3>1. log \in Seq(Records)
      BY Zenon DEF TypeOK
    <3>2. Len(log') = Len(log) + 1
      BY <2>1, <2>2, <3>1, AppendedRecord, Zenon
    <3> QED
      BY <2>1, <2>2, <3>1, <3>2, AppendedRecord, Zenon
  <2>4. op[t].kind = "rollback" => op[t].gen \notin retired
    BY <1>3, Zenon DEF AppendEnd, ChecksStand
  <2> QED
    BY <2>1, <2>2, <2>3, <2>4, Zenon DEF RollbackTargetLive, CurrentRoot
<1> QED
  BY <1>1, <1>2, <1>3, FilesFrame, Zenon

THEOREM FilesInvariant == Spec => []FilesInv
<1>1. Init => FilesInv
  <2> SUFFICES ASSUME Init PROVE FilesInv
    BY Zenon
  <2>1. TypeOK /\ StepsMatch
    BY InitType, Zenon
  <2>2. LocksHeld /\ ChecksStand /\ ReadsStand
    BY Zenon DEF Init, LocksHeld, ChecksStand, ReadsStand, Critical
  <2>3. LogRecoverable /\ HeadsCommitted /\ RollbackTargetLive
    BY DEF Init, LogRecoverable, Recoverable, HeadsCommitted, IsPrefixOf,
           RollbackTargetLive
  <2> QED
    BY <2>1, <2>2, <2>3, Zenon DEF FilesInv
<1>2. FilesInv /\ [Next]_vars => FilesInv'
  BY Zenon, TypeInduction, LocksInduction, ChecksInduction, HeadsInduction,
     RecoverableInduction, RollbackInduction DEF FilesInv
<1> QED
  BY <1>1, <1>2, PTL DEF Spec

(* No crash, exception or interleaving makes _recover_locked refuse the    *)
(* publication log.                                                        *)
THEOREM LogStaysRecoverable == Spec => []LogRecoverable
BY FilesInvariant, PTL DEF FilesInv

(* CURRENT is at most one record behind the log and every head that a      *)
(* caller of publish, rollback, recover or current_head was given is still *)
(* part of it.                                                             *)
THEOREM AcknowledgedHeadsStand == Spec => []HeadsCommitted
BY FilesInvariant, PTL DEF FilesInv

(* rollback never makes a retired generation current, and retire never     *)
(* takes the target of the last rollback.                                  *)
THEOREM RollbackTargetsStayLive == Spec => []RollbackTargetLive
BY FilesInvariant, PTL DEF FilesInv

-----------------------------------------------------------------------------
LEMMA LeasesOnFinite ==
    ASSUME NEW s, NEW g
    PROVE  IsFiniteSet(LeasesOn(s, g)) /\ Cardinality(LeasesOn(s, g)) \in Nat
BY FS_Subset, FS_CardinalityType, GenerationsAssumption, Zenon DEF LeasesOn

(* Only these steps touch pins and leases. *)
LEMMA LeaseFrame ==
    ASSUME [Next]_vars
    PROVE  \/ pins' = pins /\ lease' = lease
           \/ \E t \in Threads : Pin(t) \/ CloseRelease(t)
           \/ \E s \in Stores : Crash(s)
<1>1. ASSUME NEW t \in Threads, Begin(t)
      PROVE  pins' = pins /\ lease' = lease
  BY ZenonT(30), <1>1 DEF Begin, PublishBegin, LockedBegin, PinBegin, CloseBegin,
              ReadCurrent
<1>2. ASSUME NEW t \in Threads, Proceed(t) \/ Raise(t), ~ Pin(t),
             ~ CloseRelease(t)
      PROVE  pins' = pins /\ lease' = lease
  BY <1>2, Zenon DEF Proceed, Materialize, Install, EnterMutex, TakeLock, GiveUp,
              RepairLog, RepairHead, Reject, AppendBegin, AppendEnd, WriteHead,
              Acknowledge, Recovered, Retire, ReadLog, Raise
<1> QED
  BY <1>1, <1>2, Zenon DEF Next, vars

(* pin() adds its lease to the ones its store counts for the generation. *)
LEMMA PinCounts ==
    ASSUME FilesInv, LeaseWorkers, PinsCountLeases, NEW t \in Threads, Pin(t),
           NEW s \in Stores, NEW g \in Generations
    PROVE  pins'[s][g] = Cardinality(LeasesOn(s, g)')
<1> USE DEF FilesInv
<1> DEFINE l == op[t].lease
           new == [store |-> StoreOf[t], gen |-> PinTarget(t), owner |-> t,
                   seq |-> Len(head)]
<1>1. l \in Leases /\ lease[l] = None /\ PinTarget(t) \in Generations
  BY Zenon DEF Pin, StepsMatch, LeaseWorkers, WorksOnLease, Admissible, PinAdmissible, TypeOK
<1>2. lease' = [lease EXCEPT ![l] = new]
  BY Zenon DEF Pin
<1>3. new # None
  BY <1>1, NewLeaseType, ZenonT(30)
<1>4. CASE s = StoreOf[t] /\ g = PinTarget(t)
  <2>1. LeasesOn(s, g)' = LeasesOn(s, g) \cup {l}
    <3>1. \A k \in Leases : lease'[k] = IF k = l THEN new ELSE lease[k]
      BY <1>1, <1>2, Zenon DEF TypeOK
    <3>2. new.store = s /\ new.gen = g
      BY <1>4, Zenon
    <3> HIDE DEF new
    <3> QED
      BY <1>1, <1>3, <3>1, <3>2, Zenon DEF LeasesOn
  <2>2. l \notin LeasesOn(s, g)
    BY <1>1, Zenon DEF LeasesOn
  <2>3. pins'[s][g] = pins[s][g] + 1
    BY <1>4, Zenon DEF Pin, TypeOK
  <2>4. Cardinality(LeasesOn(s, g) \cup {l}) = Cardinality(LeasesOn(s, g)) + 1
    BY <2>2, LeasesOnFinite, FS_AddElement, Zenon
  <2> QED
    BY <2>1, <2>3, <2>4, Zenon DEF PinsCountLeases
<1>5. CASE ~ (s = StoreOf[t] /\ g = PinTarget(t))
  <2>1. LeasesOn(s, g)' = LeasesOn(s, g)
    BY <1>1, <1>2, <1>5, Zenon DEF LeasesOn, TypeOK
  <2>2. pins'[s][g] = pins[s][g]
    BY <1>1, <1>5, Zenon DEF Pin, TypeOK
  <2> QED
    BY <2>1, <2>2, Zenon DEF PinsCountLeases
<1> QED
  BY <1>4, <1>5, Zenon

(* close() takes its lease away from them. *)
LEMMA CloseCounts ==
    ASSUME FilesInv, LeaseWorkers, PinsCountLeases, NEW t \in Threads, CloseRelease(t),
           NEW s \in Stores, NEW g \in Generations
    PROVE  pins'[s][g] = Cardinality(LeasesOn(s, g)')
<1> USE DEF FilesInv
<1> DEFINE l == op[t].lease
<1>1. /\ l \in Leases /\ lease[l] # None
      /\ lease[l].store = StoreOf[t] /\ lease[l].gen = op[t].gen
      /\ op[t].gen \in Generations
  BY Zenon DEF CloseRelease, StepsMatch, LeaseWorkers, WorksOnLease
<1>2. lease' = [lease EXCEPT ![l] = None]
  BY Zenon DEF CloseRelease
<1>3. CASE s = StoreOf[t] /\ g = op[t].gen
  <2>1. LeasesOn(s, g)' = LeasesOn(s, g) \ {l} /\ l \in LeasesOn(s, g)
    BY <1>1, <1>2, <1>3, Zenon DEF LeasesOn, TypeOK
  <2>2. Cardinality(LeasesOn(s, g)) # 0
    BY <2>1, LeasesOnFinite, FS_EmptySet, Zenon
  <2>3. pins[s][g] > 0
    <3>1. pins[s][g] = Cardinality(LeasesOn(s, g))
      BY Zenon DEF PinsCountLeases
    <3> QED
      BY <2>2, <3>1, LeasesOnFinite
  <2>4. pins'[s][g] = pins[s][g] - 1
    BY <1>3, <2>3, Zenon DEF CloseRelease, TypeOK
  <2>5. Cardinality(LeasesOn(s, g) \ {l}) = Cardinality(LeasesOn(s, g)) - 1
    BY <2>1, LeasesOnFinite, FS_RemoveElement, ZenonT(30)
  <2> QED
    BY <2>1, <2>4, <2>5, Zenon DEF PinsCountLeases
<1>4. CASE ~ (s = StoreOf[t] /\ g = op[t].gen)
  <2>1. LeasesOn(s, g)' = LeasesOn(s, g)
    BY <1>1, <1>2, <1>4, Zenon DEF LeasesOn, TypeOK
  <2>2. pins'[s][g] = pins[s][g]
    BY <1>1, <1>4, Zenon DEF CloseRelease, TypeOK
  <2> QED
    BY <2>1, <2>2, Zenon DEF PinsCountLeases
<1> QED
  BY <1>3, <1>4, Zenon

(* A process takes its leases and its pins with it. *)
LEMMA CrashCounts ==
    ASSUME FilesInv, LeaseWorkers, PinsCountLeases, NEW dead \in Stores, Crash(dead),
           NEW s \in Stores, NEW g \in Generations
    PROVE  pins'[s][g] = Cardinality(LeasesOn(s, g)')
<1> USE DEF FilesInv
<1>1. CASE s = dead
  <2>1. LeasesOn(s, g)' = {}
    BY <1>1, Zenon DEF Crash, LeasesOn, TypeOK
  <2> QED
    BY <1>1, <2>1, FS_EmptySet, Zenon DEF Crash, TypeOK
<1>2. CASE s # dead
  <2>1. LeasesOn(s, g)' = LeasesOn(s, g)
    BY <1>2, Zenon DEF Crash, LeasesOn, TypeOK
  <2> QED
    BY <1>2, <2>1, Zenon DEF Crash, PinsCountLeases, TypeOK
<1> QED
  BY <1>1, <1>2, Zenon

(* What holds of a thread and its lease holds while both are left alone. *)
LEMMA WorkerStays ==
    ASSUME NEW u \in Threads, WorksOnLease(u), op'[u] = op[u],
           op[u].kind \in {"pin", "close"} =>
               lease'[op[u].lease] = lease[op[u].lease]
    PROVE  WorksOnLease(u)'
BY Zenon DEF WorksOnLease

LEMMA DistinctStays ==
    ASSUME PinsDistinct,
           \A u \in Threads : op'[u] = op[u] \/ op'[u].kind # "pin"
    PROVE  PinsDistinct'
BY Zenon DEF PinsDistinct

LEMMA WorkersInduction ==
    ASSUME SharedLeases = FALSE, FilesInv, LeaseWorkers, [Next]_vars
    PROVE  LeaseWorkers'
<1> USE DEF FilesInv
<1>1. /\ PinsDistinct
      /\ \A u \in Threads : WorksOnLease(u)
      /\ \A u \in Threads :
            op[u].kind \in {"pin", "close"} => op[u].lease \in Leases
  BY Zenon DEF LeaseWorkers, StepsMatch
<1>2. ASSUME NEW t \in Threads, op'[t].kind \notin {"pin", "close"},
             \A u \in Threads : u # t => op'[u] = op[u],
             lease' = lease
      PROVE  LeaseWorkers'
  <2>1. PinsDistinct'
    BY <1>1, <1>2, DistinctStays, Zenon
  <2>2. ASSUME NEW u \in Threads PROVE WorksOnLease(u)'
    <3>1. CASE u = t
      BY <1>2, <3>1, Zenon DEF WorksOnLease
    <3>2. CASE u # t
      BY <1>1, <1>2, <3>2, WorkerStays, Zenon
    <3> QED
      BY <3>1, <3>2, Zenon
  <2> QED
    BY <2>1, <2>2, Zenon DEF LeaseWorkers
<1>3. ASSUME NEW t \in Threads,
             \/ \E g \in Generations : PublishBegin(t, g)
             \/ \E k \in {"rollback", "retire", "recover"},
                    g \in Generations \cup {None} : LockedBegin(t, k, g)
             \/ ReadCurrent(t)
      PROVE  LeaseWorkers'
  <2> DEFINE Stays == /\ op'[t].kind \notin {"pin", "close"}
                      /\ \A u \in Threads : u # t => op'[u] = op[u]
                      /\ lease' = lease
  <2>1. ASSUME NEW g \in Generations, PublishBegin(t, g) PROVE Stays
    BY <2>1, Zenon DEF PublishBegin, Start, TypeOK
  <2>2. ASSUME NEW k \in {"rollback", "retire", "recover"},
               NEW g \in Generations \cup {None}, LockedBegin(t, k, g)
        PROVE  Stays
    BY <2>2, Zenon DEF LockedBegin, Start, TypeOK
  <2>3. ASSUME ReadCurrent(t) PROVE Stays
    BY <2>3, Zenon DEF ReadCurrent, Start, TypeOK
  <2>4. Stays
    BY <1>3, <2>1, <2>2, <2>3, Zenon
  <2> QED
    BY <1>2, <2>4, Zenon
<1>4. ASSUME NEW t \in Threads, NEW g \in Generations \cup {None},
             NEW l \in Leases, PinBegin(t, g, l)
      PROVE  LeaseWorkers'
  <2>1. \A u \in Threads : IF u = t THEN op'[u].kind = "pin" /\ op'[u].lease = l
                                    ELSE op'[u] = op[u] /\ op[u].lease # l
    BY <1>4, Zenon DEF PinBegin, Start, TypeOK
  <2>2. lease' = lease /\ lease[l] = None
    BY <1>4, Zenon DEF PinBegin
  <2>3. PinsDistinct'
    BY <1>1, <2>1, Zenon DEF PinsDistinct
  <2>4. ASSUME NEW u \in Threads PROVE WorksOnLease(u)'
    <3>1. CASE u = t
      BY <2>1, <2>2, <3>1, Zenon DEF WorksOnLease
    <3>2. CASE u # t
      BY <1>1, <2>1, <2>2, <3>2, WorkerStays, Zenon
    <3> QED
      BY <3>1, <3>2, Zenon
  <2> QED
    BY <2>3, <2>4, Zenon DEF LeaseWorkers
<1>5. ASSUME NEW t \in Threads, NEW l \in Leases, CloseBegin(t, l)
      PROVE  LeaseWorkers'
  <2>1. \A u \in Threads : IF u = t THEN /\ op'[u].kind = "close"
                                         /\ op'[u].lease = l
                                         /\ op'[u].gen = lease[l].gen
                                    ELSE op'[u] = op[u]
    BY <1>5, Zenon DEF CloseBegin, Start, TypeOK
  <2>2. /\ lease' = lease /\ lease[l] # None
        /\ lease[l].store = StoreOf[t] /\ lease[l].owner = t
    BY <1>5, Zenon DEF CloseBegin
  <2>3. PinsDistinct'
    BY <1>1, <2>1, DistinctStays, Zenon
  <2>4. ASSUME NEW u \in Threads PROVE WorksOnLease(u)'
    <3>1. CASE u = t
      BY <2>1, <2>2, <3>1, Zenon DEF WorksOnLease
    <3>2. CASE u # t
      BY <1>1, <2>1, <2>2, <3>2, WorkerStays, Zenon
    <3> QED
      BY <3>1, <3>2, Zenon
  <2> QED
    BY <2>3, <2>4, Zenon DEF LeaseWorkers
<1>6. ASSUME NEW t \in Threads, Return(t)
      PROVE  /\ op'[t].kind = "none"
             /\ \A u \in Threads : u # t => op'[u] = op[u]
  BY <1>6, Zenon DEF Return, NoOp, TypeOK
<1>7. ASSUME op' = op, lease' = lease
      PROVE  LeaseWorkers'
  BY <1>1, <1>7, Zenon DEF LeaseWorkers, PinsDistinct, WorksOnLease
<1>8. ASSUME NEW t \in Threads, Pin(t) \/ CloseRelease(t)
      PROVE  LeaseWorkers'
  <2>1. Return(t) /\ op[t].kind \in {"pin", "close"}
    BY <1>8, Zenon DEF Pin, CloseRelease, StepsMatch
  <2>2. \A l \in Leases : l # op[t].lease => lease'[l] = lease[l]
    BY <1>8, ZenonT(30) DEF Pin, CloseRelease, TypeOK
  <2>3. ASSUME NEW u \in Threads, u # t, op[u].kind \in {"pin", "close"},
               op[u].lease = op[t].lease
        PROVE  FALSE
    BY <1>1, <2>1, <2>3, Zenon DEF PinsDistinct, WorksOnLease
  <2>4. PinsDistinct'
    BY <1>1, <1>6, <2>1, DistinctStays, Zenon
  <2>5. ASSUME NEW u \in Threads PROVE WorksOnLease(u)'
    <3>1. CASE u = t
      BY <1>6, <2>1, <3>1, Zenon DEF WorksOnLease
    <3>2. CASE u # t
      BY <1>1, <1>6, <2>1, <2>2, <2>3, <3>2, WorkerStays, Zenon
    <3> QED
      BY <3>1, <3>2, Zenon
  <2> QED
    BY <2>4, <2>5, Zenon DEF LeaseWorkers
<1>9. ASSUME NEW s \in Stores, Crash(s)
      PROVE  LeaseWorkers'
  <2>1. \A u \in Threads : IF StoreOf[u] = s THEN op'[u].kind = "none"
                                            ELSE op'[u] = op[u]
    BY <1>9, Zenon DEF Crash, NoOp
  <2>2. \A l \in Leases : IF lease[l] # None /\ lease[l].store = s
                          THEN lease'[l] = None ELSE lease'[l] = lease[l]
    BY <1>9, Zenon DEF Crash
  <2>3. PinsDistinct'
    BY <1>1, <2>1, DistinctStays, Zenon
  <2>4. ASSUME NEW u \in Threads PROVE WorksOnLease(u)'
    <3>1. CASE StoreOf[u] = s
      BY <2>1, <3>1, Zenon DEF WorksOnLease
    <3>2. CASE StoreOf[u] # s
      <4>1. op[u].kind \in {"pin", "close"} =>
                lease'[op[u].lease] = lease[op[u].lease]
        BY <1>1, <2>2, <3>2, Zenon DEF WorksOnLease
      <4> QED
        BY <1>1, <2>1, <3>2, <4>1, WorkerStays, Zenon
    <3> QED
      BY <3>1, <3>2, Zenon
  <2> QED
    BY <2>3, <2>4, Zenon DEF LeaseWorkers
<1>10. ASSUME NEW t \in Threads,
              GiveUp(t) \/ Reject(t) \/ Acknowledge(t) \/ Recovered(t)
                  \/ Retire(t) \/ ReadLog(t) \/ Raise(t)
       PROVE  LeaseWorkers'
  BY <1>2, <1>6, <1>10, ZenonT(30)
     DEF GiveUp, Reject, Acknowledge, Recovered, Retire, ReadLog, Raise
<1>11. ASSUME NEW t \in Threads,
              Materialize(t) \/ Install(t) \/ EnterMutex(t) \/ TakeLock(t)
                  \/ RepairLog(t) \/ RepairHead(t) \/ AppendBegin(t)
                  \/ AppendEnd(t) \/ WriteHead(t)
       PROVE  LeaseWorkers'
  BY <1>2, <1>6, <1>7, <1>11, ZenonT(30)
     DEF Materialize, Install, EnterMutex, TakeLock, RepairLog, RepairHead,
         AppendBegin, AppendEnd, WriteHead
<1> QED
  BY <1>3, <1>4, <1>5, <1>7, <1>8, <1>9, <1>10, <1>11, Zenon
     DEF Next, Begin, Proceed, vars

(* A lease is counted as long as it is open, so retire(), which finds no   *)
(* pin, finds no lease; and what was published stays published.            *)
LeaseInv == FilesInv /\ LeaseWorkers /\ PinsCountLeases /\ LeasesProtect

LEMMA PublishedStays ==
    ASSUME FilesInv, [Next]_vars, NEW g \in Generations, Published(g, log)
    PROVE  Published(g, log')
<1> USE DEF FilesInv
<1>1. CASE log' = log
  BY <1>1, Zenon
<1>2. ASSUME NEW t \in Threads, AppendEnd(t)
      PROVE  Published(g, log')
  <2>1. NewRecord(t) \in Records
    BY <1>2, NewRecordType, ZenonT(30) DEF AppendEnd, StepsMatch
  <2>2. /\ log \in Seq(Records)
        /\ log' = Append(log, NewRecord(t))
    BY <1>2, Zenon DEF AppendEnd, TypeOK
  <2>3. /\ Len(log') = Len(log) + 1
        /\ \A i \in 1 .. Len(log) : log'[i] = log[i]
    BY <2>1, <2>2, AppendedRecord, Zenon
  <2>4. Len(log) \in Nat
    BY <2>2
  <2> QED
    BY <2>3, <2>4 DEF Published
<1> QED
  BY <1>1, <1>2, FilesFrame, Zenon

LEMMA ProtectInduction ==
    ASSUME LeaseInv, [Next]_vars
    PROVE  LeasesProtect'
<1> USE DEF LeaseInv
<1> SUFFICES ASSUME NEW l \in Leases, lease'[l] # None
             PROVE  /\ lease'[l].gen \notin retired'
                    /\ Published(lease'[l].gen, log')
                    /\ lease'[l].seq <= Len(head')
  BY ZenonT(30) DEF LeasesProtect, Published
<1>1. head \in Seq(Records) /\ head' \in Seq(Records) /\ Len(head) <= Len(head')
  BY HeadGrows, TypeInduction, ZenonT(30) DEF IsPrefixOf, FilesInv, TypeOK
<1>2. CASE lease'[l] = lease[l]
  <2>1. /\ lease[l] \in OpenLeases
        /\ lease[l].gen \notin retired
        /\ Published(lease[l].gen, log)
        /\ lease[l].seq <= Len(head)
    BY <1>2, Zenon DEF LeasesProtect, FilesInv, TypeOK
  <2>2. lease[l].gen \in Generations /\ lease[l].store \in Stores
            /\ lease[l].seq \in Nat
    BY <2>1, Zenon DEF OpenLeases
  <2>3. lease[l].gen \notin retired'
    <3>1. ASSUME NEW t \in Threads, Retire(t)
          PROVE  lease[l].gen \notin retired'
      <4>1. retired' = retired \cup {op[t].gen}
        BY <3>1, Zenon DEF Retire
      <4>2. CASE op[t].gen \in retired
        BY <2>1, <4>1, <4>2, Zenon
      <4>3. CASE ~ PinLocked(op[t].gen) /\ lease[l].gen = op[t].gen
        <5>1. l \in LeasesOn(lease[l].store, lease[l].gen)
          BY <1>2, Zenon DEF LeasesOn
        <5>2. Cardinality(LeasesOn(lease[l].store, lease[l].gen)) > 0
          BY <5>1, LeasesOnFinite, FS_EmptySet, SMTT(30)
        <5> QED
          BY <2>2, <4>3, <5>2, Zenon DEF PinLocked, PinsCountLeases
      <4>4. op[t].gen \in retired \/ ~ PinLocked(op[t].gen)
        BY <3>1, Zenon DEF Retire, Admissible, RetireAdmissible
      <4>5. CASE lease[l].gen # op[t].gen
        BY <2>1, <4>1, <4>5, Zenon
      <4> QED
        BY <4>2, <4>3, <4>4, <4>5, Zenon
    <3> QED
      BY <2>1, <3>1, FilesFrame, ZenonT(30)
  <2> QED
    <3>1. Published(lease[l].gen, log')
      BY <2>1, <2>2, PublishedStays, Zenon
    <3>2. lease[l].seq <= Len(head')
      <4>1. Len(head) \in Nat /\ Len(head') \in Nat
        BY <1>1
      <4> QED
        BY <1>1, <2>1, <2>2, <4>1
    <3> QED
      BY <1>2, <2>3, <3>1, <3>2, ZenonT(30)
<1>3. ASSUME NEW t \in Threads, Pin(t), lease'[l] # lease[l]
      PROVE  /\ lease'[l].gen \notin retired'
             /\ Published(lease'[l].gen, log')
             /\ lease'[l].seq <= Len(head')
  <2>1. lease'[l].gen = PinTarget(t) /\ lease'[l].seq = Len(head)
    BY <1>3, Zenon DEF Pin, FilesInv, TypeOK
  <2>2. PinTarget(t) \notin retired /\ Published(PinTarget(t), log)
    BY <1>3, Zenon DEF Pin, Admissible, PinAdmissible
  <2> QED
    BY <1>1, <1>3, <2>1, <2>2, SMTT(30) DEF Pin
<1>4. ASSUME \/ \E t \in Threads : CloseRelease(t)
             \/ \E s \in Stores : Crash(s)
      PROVE  lease'[l] = lease[l]
  BY <1>4, Zenon DEF CloseRelease, Crash, FilesInv, TypeOK
<1> QED
  BY <1>2, <1>3, <1>4, LeaseFrame, ZenonT(30)

(* The lease invariant holds throughout, when each owner closes its leases. *)
THEOREM LeaseInvariant ==
    ASSUME SharedLeases = FALSE
    PROVE  Spec => []LeaseInv
<1>1. Init => LeaseWorkers /\ PinsCountLeases /\ LeasesProtect
  <2> SUFFICES ASSUME Init
               PROVE  LeaseWorkers /\ PinsCountLeases /\ LeasesProtect
    BY Zenon
  <2>1. LeaseWorkers /\ LeasesProtect
    BY Zenon DEF Init, LeaseWorkers, WorksOnLease, PinsDistinct, LeasesProtect, NoOp
  <2>2. \A s \in Stores, g \in Generations : LeasesOn(s, g) = {}
    BY Zenon DEF Init, LeasesOn
  <2>3. PinsCountLeases
    BY <2>2, FS_EmptySet, ZenonT(30) DEF Init, PinsCountLeases
  <2> QED
    BY <2>1, <2>3, Zenon
<1>2. LeaseInv /\ [Next]_vars =>
          LeaseWorkers' /\ PinsCountLeases' /\ LeasesProtect'
  <2> SUFFICES ASSUME LeaseInv, [Next]_vars
               PROVE  LeaseWorkers' /\ PinsCountLeases' /\ LeasesProtect'
    BY Zenon
  <2>1. LeaseWorkers'
    BY WorkersInduction, Zenon DEF LeaseInv
  <2>2. PinsCountLeases'
    <3>1. CASE pins' = pins /\ lease' = lease
      <4>1. \A s \in Stores, g \in Generations : LeasesOn(s, g)' = LeasesOn(s, g)
        BY <3>1, Zenon DEF LeasesOn
      <4> QED
        BY <3>1, <4>1, Zenon DEF LeaseInv, PinsCountLeases
    <3> QED
      BY <3>1, LeaseFrame, PinCounts, CloseCounts, CrashCounts, Zenon
         DEF LeaseInv, PinsCountLeases
  <2> QED
    BY <2>1, <2>2, ProtectInduction, Zenon
<1> QED
  BY <1>1, <1>2, FilesInvariant, PTL DEF Spec, LeaseInv

(* When every lease is closed by its owner, a generation under an open     *)
(* lease is never retired: retire() and pin() exclude each other across    *)
(* any number of processes.                                                *)
THEOREM LeasesProtectReaders ==
    ASSUME SharedLeases = FALSE
    PROVE  Spec => []LeasesProtect
BY LeaseInvariant, PTL DEF LeaseInv

-----------------------------------------------------------------------------
(* A record counts for the ledger when its line is complete. *)
LEMMA AppendImplements ==
    ASSUME FilesInv, NEW t \in Threads, AppendEnd(t)
    PROVE  Ledger!Publish(op[t].gen) \/ Ledger!Rollback(op[t].gen)
<1> USE DEF FilesInv
<1>1. /\ op[t].kind \in {"publish", "rollback"}
      /\ op[t].kind = "publish" => Parent[op[t].gen] = CurrentRoot(log)
      /\ op[t].kind = "rollback" =>
            op[t].gen \notin retired /\ Published(op[t].gen, log)
  BY ZenonT(30) DEF AppendEnd, StepsMatch, ChecksStand
<1>2. /\ log' = Append(log, [action |-> op[t].kind, gen |-> op[t].gen,
                             prev |-> CurrentRoot(log)])
      /\ UNCHANGED << retired, lease >>
  BY Zenon DEF AppendEnd, NewRecord
<1>3. CASE op[t].kind = "publish"
  BY <1>1, <1>2, <1>3, Zenon DEF Ledger!Publish, Ledger!Extend, Ledger!Current,
                          CurrentRoot, Held
<1>4. CASE op[t].kind = "rollback"
  BY <1>1, <1>2, <1>4, Zenon DEF Ledger!Rollback, Ledger!Extend, Ledger!Current,
                          Ledger!WasPublished, CurrentRoot, Published, Held
<1> QED
  BY <1>1, <1>3, <1>4, Zenon

(* A receipt that retire writes is one the ledger allows, or is there already. *)
LEMMA RetireImplements ==
    ASSUME LeaseInv, NEW t \in Threads, Retire(t)
    PROVE  Ledger!Retire(op[t].gen) \/ UNCHANGED Ledger!vars
<1> USE DEF LeaseInv
<1>1. /\ op[t].gen \in Generations
      /\ CurrentRoot(log) # op[t].gen
      /\ op[t].gen \in retired \/ ~ PinLocked(op[t].gen)
  BY ZenonT(30) DEF Retire, Admissible, RetireAdmissible, FilesInv, StepsMatch
<1>2. retired' = retired \cup {op[t].gen} /\ log' = log /\ lease' = lease
  BY ZenonT(30) DEF Retire
<1>3. CASE op[t].gen \in retired
  BY <1>2, <1>3, Zenon DEF Ledger!vars, Held
<1>4. CASE ~ PinLocked(op[t].gen)
  <2>1. ASSUME NEW l \in Leases, lease[l] # None, lease[l].gen = op[t].gen
        PROVE  FALSE
    <3>1. lease[l].store \in Stores
      BY <2>1, Zenon DEF FilesInv, TypeOK, OpenLeases
    <3>2. l \in LeasesOn(lease[l].store, op[t].gen)
      BY <2>1, Zenon DEF LeasesOn
    <3>3. Cardinality(LeasesOn(lease[l].store, op[t].gen)) > 0
      BY <3>2, LeasesOnFinite, FS_EmptySet
    <3> QED
      BY <1>1, <1>4, <3>1, <3>3, Zenon DEF PinLocked, PinsCountLeases
  <2> QED
    <3>1. \A l \in Leases : Held[l] # op[t].gen
      BY <1>1, <2>1, GenerationsAssumption, Zenon DEF Held
    <3> QED
      BY <1>1, <1>2, <3>1, Zenon DEF Ledger!Retire, Ledger!Current, CurrentRoot, Held
<1> QED
  BY <1>1, <1>3, <1>4, Zenon

LEMMA LeaseStepsImplement ==
    ASSUME LeaseInv, [Next]_vars, log' = log, retired' = retired
    PROVE  [Ledger!Next]_(Ledger!vars)
<1> USE DEF LeaseInv
<1>1. CASE lease' = lease
  BY <1>1, Zenon DEF Ledger!vars, Held
<1>2. ASSUME NEW t \in Threads, Pin(t)
      PROVE  Ledger!Next
  <2>1. PICK l \in Leases : l = op[t].lease /\ lease[l] = None
    BY <1>2, Zenon DEF Pin, FilesInv, StepsMatch, LeaseWorkers, WorksOnLease
  <2>2. PICK g \in Generations :
            g = PinTarget(t) /\ Published(g, log) /\ g \notin retired
    BY <1>2, Zenon DEF Pin, Admissible, PinAdmissible, FilesInv, TypeOK
  <2> DEFINE new == [store |-> StoreOf[t], gen |-> g, owner |-> t, seq |-> Len(head)]
  <2>3. \A k \in Leases : lease'[k] = IF k = l THEN new ELSE lease[k]
    BY <1>2, <2>1, <2>2, Zenon DEF Pin, FilesInv, TypeOK
  <2>4. lease'[l] # None /\ lease'[l].gen = g
    <3>1. new # None /\ new.gen = g
      BY NewLeaseType, Zenon DEF FilesInv
    <3> HIDE DEF new
    <3> QED
      BY <2>3, <3>1, Zenon
  <2>5. Held' = [Held EXCEPT ![l] = g]
    BY <2>1, <2>3, <2>4, Zenon DEF Held
  <2>6. Ledger!Lease(l, g)
    <3>1. Held[l] = None
      BY <2>1, Zenon DEF Held
    <3> QED
      BY <2>2, <2>5, <3>1, Zenon DEF Ledger!Lease, Ledger!WasPublished, Published
  <2> QED
    BY <2>6, Zenon DEF Ledger!Next
<1>3. ASSUME NEW t \in Threads, CloseRelease(t)
      PROVE  Ledger!Next
  <2>1. PICK closed \in SUBSET Leases : closed = {op[t].lease}
    BY <1>3, Zenon DEF CloseRelease, FilesInv, StepsMatch
  <2>2. Held' = [k \in Leases |-> IF k \in closed THEN None ELSE Held[k]]
    BY <1>3, <2>1, Zenon DEF CloseRelease, Held, FilesInv, TypeOK
  <2>3. Ledger!Release(closed)
    BY <2>2, Zenon DEF Ledger!Release
  <2> QED
    BY <2>3, Zenon DEF Ledger!Next
<1>4. ASSUME NEW s \in Stores, Crash(s)
      PROVE  Ledger!Next
  <2>1. PICK dead \in SUBSET Leases :
            dead = {l \in Leases : lease[l] # None /\ lease[l].store = s}
    BY Zenon
  <2>2. Held' = [k \in Leases |-> IF k \in dead THEN None ELSE Held[k]]
    BY <1>4, <2>1, Zenon DEF Crash, Held, FilesInv, TypeOK
  <2>3. Ledger!Release(dead)
    BY <2>2, Zenon DEF Ledger!Release
  <2> QED
    BY <2>3, Zenon DEF Ledger!Next
<1> QED
  BY <1>1, <1>2, <1>3, <1>4, LeaseFrame, Zenon

(* With leases closed by their owners, the store with its files, locks,    *)
(* processes, crashes and repairs behaves like the ledger: each of its     *)
(* steps is a step of the ledger or none.                                  *)
THEOREM StoreImplementsLedger ==
    ASSUME SharedLeases = FALSE
    PROVE  Spec => LedgerSpec
<1>1. Init => Ledger!Init
  BY Zenon DEF Init, Ledger!Init, Held
<1>2. LeaseInv /\ [Next]_vars => [Ledger!Next]_(Ledger!vars)
  <2> SUFFICES ASSUME LeaseInv, [Next]_vars
               PROVE  [Ledger!Next]_(Ledger!vars)
    BY Zenon
  <2>1. ASSUME NEW t \in Threads, AppendEnd(t)
        PROVE  Ledger!Next
    <3>1. op[t].gen \in Generations
      BY <2>1, Zenon DEF AppendEnd, LeaseInv, FilesInv, StepsMatch
    <3> QED
      BY <2>1, <3>1, AppendImplements, Zenon DEF LeaseInv, Ledger!Next
  <2>2. ASSUME NEW t \in Threads, Retire(t)
        PROVE  [Ledger!Next]_(Ledger!vars)
    <3>1. op[t].gen \in Generations
      BY <2>2, Zenon DEF Retire, LeaseInv, FilesInv, StepsMatch
    <3> QED
      BY <2>2, <3>1, RetireImplements, Zenon DEF Ledger!Next
  <2> QED
    BY <2>1, <2>2, FilesFrame, LeaseStepsImplement, Zenon
<1> QED
  BY <1>1, <1>2, LeaseInvariant, PTL DEF Spec, LedgerSpec, Ledger!Spec

=============================================================================
