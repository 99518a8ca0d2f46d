----------------------- MODULE ControlledStorageProofs -----------------------
(***************************************************************************)
(* What holds of activation control for any number of processes, files,    *)
(* commits, generations and failures, however its operations overlap.  The *)
(* second half: activation and rollback that run alone move authority and  *)
(* not the data, and hide no acknowledged commit.                          *)
(***************************************************************************)
EXTENDS ControlledStorage, TLAPS

(* The generations published so far are numbered 1 .. last, whatever names *)
(* one names one of them, and a receipt about to be written is true.       *)
ReceiptInv ==
    /\ pc \in [Processes -> Steps]
    /\ gen \in [Processes -> Nat]
    /\ prior \in [Processes -> Nat]
    /\ DOMAIN before = Processes
    /\ DOMAIN images = Ids
    /\ last \in Nat
    /\ current \in 0 .. last
    /\ \A p \in Processes :
        /\ gen[p] <= last
        /\ prior[p] <= last
        /\ pc[p] \in {"check", "compare", "receipt"} => gen[p] > 0
        /\ pc[p] = "receipt" => images[gen[p]] = before[p]
    /\ last <= MaxGenerations
    /\ \A r \in receipts : r.generation \in 1 .. last
    /\ ReceiptsTrue

LEMMA InitReceipts == Init => ReceiptInv
BY ControlAssumption DEF Init, ReceiptInv, ReceiptsTrue, Steps, Ids

(* An operation that ends leaves no claim behind. *)
LEMMA StopReceipts ==
    ASSUME ReceiptInv, NEW p \in Processes, Stop(p),
           UNCHANGED << images, last, receipts >>, current' \in 0 .. last
    PROVE  ReceiptInv'
<1>1. /\ pc' = [pc EXCEPT ![p] = "idle"]
      /\ gen' = [gen EXCEPT ![p] = 0]
      /\ prior' = [prior EXCEPT ![p] = 0]
      /\ before' = [before EXCEPT ![p] = Blank]
  BY Zenon DEF Stop, Goto
<1> HIDE DEF Stop
<1> QED
  BY <1>1 DEF ReceiptInv, ReceiptsTrue, Steps, Ids

(* A step within an operation, with the claims it has already made. *)
LEMMA GotoReceipts ==
    ASSUME ReceiptInv, NEW p \in Processes, NEW step \in Steps,
           Goto(p, step),
           step \in {"check", "compare", "receipt"} => gen[p] > 0,
           step = "receipt" => images[gen[p]] = before[p],
           UNCHANGED << gen, prior, before, images, last, current, receipts >>
    PROVE  ReceiptInv'
BY Zenon DEF Goto, ReceiptInv, ReceiptsTrue, Steps, Ids

(* Published images stay as they are: a step only adds one at last + 1. *)
LEMMA ReceiptInduction ==
    ASSUME ReceiptInv, [Next]_vars
    PROVE  ReceiptInv'
<1> USE ControlAssumption DEF disk, locals
<1>0. current \in 0 .. last /\ \A p \in Processes : prior[p] \in 0 .. last
  BY DEF ReceiptInv
<1>1. ASSUME NEW p \in Processes, CommitBegin(p) \/ QualifyBegin(p) \/ ActivateBegin(p) \/ RollbackBegin(p)
      PROVE  ReceiptInv'
  BY <1>1, GotoReceipts, Zenon
     DEF CommitBegin, QualifyBegin, ActivateBegin, RollbackBegin, Begin, Steps
<1>2. ASSUME NEW p \in Processes, ReadStatus(p)
      PROVE  ReceiptInv'
  <2>1. CASE Stop(p)
    BY <1>0, <1>2, <2>1, StopReceipts, Zenon DEF ReadStatus
  <2>2. CASE Goto(p, "lock") /\ gen' = [gen EXCEPT ![p] = current] /\ UNCHANGED << prior, before >>
    BY <1>2, <2>2 DEF ReadStatus, Goto, ReceiptInv, ReceiptsTrue, Steps, Ids
  <2> QED
    BY <1>2, <2>1, <2>2, Zenon DEF ReadStatus
<1>3. ASSUME NEW p \in Processes, TakeLock(p)
      PROVE  ReceiptInv'
  <2>1. CASE Stop(p)
    BY <1>0, <1>3, <2>1, StopReceipts, Zenon DEF TakeLock
  <2>2. CASE \E step \in {"repoint", "store", "archive", "revalidate", "materialize"} : Goto(p, step)
    BY <1>3, <2>1, <2>2, GotoReceipts, Zenon DEF TakeLock, Steps
  <2> QED
    BY <1>3, <2>1, <2>2, Zenon DEF TakeLock
<1>4. ASSUME NEW p \in Processes, Return(p)
      PROVE  ReceiptInv'
  BY <1>0, <1>4, StopReceipts, Zenon DEF Return, Abandon
<1>5. ASSUME NEW p \in Processes, Flush(p)
      PROVE  ReceiptInv'
  BY <1>5, Zenon DEF Flush, ReceiptInv, ReceiptsTrue
<1>6. ASSUME NEW p \in Processes, Store(p)
      PROVE  ReceiptInv'
  BY <1>6 DEF Store, StoreImage, Goto, ReceiptInv, ReceiptsTrue, Steps, Ids
<1>7. ASSUME NEW p \in Processes, Snapshot(p)
      PROVE  ReceiptInv'
  <2>1. CASE Stop(p)
    BY <1>0, <1>7, <2>1, StopReceipts, Zenon DEF Snapshot
  <2>2. CASE /\ Goto(p, "copy")
             /\ before' = [before EXCEPT ![p] = Source(p)]
             /\ UNCHANGED << gen, prior >>
    BY <1>7, <2>2, Zenon DEF Snapshot, Goto, ReceiptInv, ReceiptsTrue, Steps, Ids
  <2>3. ASSUME NEW r \in receipts,
               /\ Goto(p, "lock")
               /\ before' = [before EXCEPT ![p] = Source(p)]
               /\ gen' = [gen EXCEPT ![p] = r.generation]
               /\ UNCHANGED prior
        PROVE  ReceiptInv'
    BY <1>7, <2>3 DEF Snapshot, Goto, ReceiptInv, ReceiptsTrue, Steps, Ids
  <2> QED
    BY <1>7, <2>1, <2>2, <2>3, Zenon DEF Snapshot
<1>8. ASSUME NEW p \in Processes, Copy(p)
      PROVE  ReceiptInv'
  BY <1>8, GotoReceipts, Zenon DEF Copy, Steps
<1>9. ASSUME NEW p \in Processes, Archive(p)
      PROVE  ReceiptInv'
  BY <1>9 DEF Archive, StoreImage, Goto, ReceiptInv, ReceiptsTrue, Steps, Ids
<1>10. ASSUME NEW p \in Processes, CheckSource(p)
       PROVE  ReceiptInv'
  <2>1. gen[p] > 0
    BY <1>10, Zenon DEF CheckSource, ReceiptInv
  <2> QED
    BY <1>0, <1>10, <2>1, StopReceipts, GotoReceipts, Zenon DEF CheckSource, Abandon, Steps
<1>11. ASSUME NEW p \in Processes, Compare(p)
       PROVE  ReceiptInv'
  <2>1. gen[p] > 0
    BY <1>11, Zenon DEF Compare, ReceiptInv
  <2> QED
    BY <1>11, <2>1, GotoReceipts, Zenon DEF Compare, Equivalent, Steps
<1>12. ASSUME NEW p \in Processes, WriteReceipt(p)
       PROVE  ReceiptInv'
  <2>1. /\ pc' = [pc EXCEPT ![p] = "idle"]
        /\ gen' = [gen EXCEPT ![p] = 0]
        /\ prior' = [prior EXCEPT ![p] = 0]
        /\ before' = [before EXCEPT ![p] = Blank]
    BY <1>12, Zenon DEF WriteReceipt, Stop, Goto
  <2> QED
    BY <1>12, <2>1 DEF WriteReceipt, ReceiptInv, ReceiptsTrue, Steps, Ids
<1>13. ASSUME NEW p \in Processes, Repoint(p)
       PROVE  ReceiptInv'
  BY <1>0, <1>13, StopReceipts, Zenon DEF Repoint, Abandon
<1>14. ASSUME NEW p \in Processes, Revalidate(p) \/ PublishMode(p)
       PROVE  ReceiptInv'
  BY <1>0, <1>14, StopReceipts, GotoReceipts, Zenon DEF Revalidate, PublishMode, Abandon, Steps
<1>15. ASSUME NEW p \in Processes, Materialize(p)
       PROVE  ReceiptInv'
  BY <1>0, <1>15, StopReceipts, GotoReceipts, Zenon DEF Materialize, Abandon, Steps
<1>16. ASSUME NEW p \in Processes, Raise(p) \/ Crash(p)
       PROVE  ReceiptInv'
  BY <1>0, <1>16, StopReceipts, GotoReceipts, Zenon DEF Raise, Crash, Abandon, Steps
<1>17. CASE RemoveOrphan \/ UNCHANGED vars
  BY <1>17, Zenon DEF RemoveOrphan, vars, ReceiptInv, ReceiptsTrue
<1> QED
  BY Zenon, <1>1, <1>2, <1>3, <1>4, <1>5, <1>6, <1>7, <1>8, <1>9, <1>10, <1>11,
     <1>12, <1>13, <1>14, <1>15, <1>16, <1>17 DEF Next, Processes

(* Whatever commits, activations, rollbacks and other qualifications       *)
(* overlap a qualify_activation, and wherever they fail, the generation    *)
(* that a receipt names holds the inventory that the receipt states.       *)
THEOREM ReceiptsStayTrue == Spec => []ReceiptsTrue
<1>1. ReceiptInv => ReceiptsTrue
  BY Zenon DEF ReceiptInv
<1> QED
  BY <1>1, InitReceipts, ReceiptInduction, PTL DEF Spec

-----------------------------------------------------------------------------
(* The mounts that a mode record names, or that an operation has read in   *)
(* one, are there; the mount that a rollback has made and not published is *)
(* its own, so that it may be removed.                                     *)
MountsKept ==
    /\ mounts[1] # None
    /\ mounts[mode.mount] # None
    /\ \A p \in Processes :
        /\ mounts[record[p].mount] # None
        /\ dest[p] # 0 => pc[p] \in {"publish", "unlock"} /\ mounts[dest[p]] # None
        /\ pc[p] = "publish" => task[p] = "activate" \/ dest[p] # 0
        /\ pc[p] = "publish" /\ dest[p] # 0 =>
              /\ dest[p] \notin {1, mode.mount}
              /\ \A q \in Processes : record[q].mount # dest[p]
              /\ \A q \in Processes \ {p} : dest[q] # dest[p]

(* The steps that only one operation takes, and a rollback at work has a   *)
(* generation.                                                             *)
StagesKept ==
    \A p \in Processes :
        /\ pc[p] # "idle" => task[p] # "none"
        /\ pc[p] = "copy" => task[p] = "qualify"
        /\ pc[p] = "revalidate" => task[p] = "activate"
        /\ pc[p] = "lock" /\ task[p] = "rollback" => gen[p] > 0
        /\ pc[p] = "materialize" => gen[p] > 0

TypeInv ==
    /\ ReceiptInv
    /\ TypeOK
    /\ MountsKept
    /\ StagesKept
    /\ \A p \in Processes : version[p] <= begun

LEMMA InitTypes == Init => TypeInv
<1>1. Init => TypeOK
  BY ControlAssumption
     DEF Init, TypeOK, DefaultState, ModeRecord, Mounts, Image, Blank, Ids, Steps, Tasks
<1>2. Init => MountsKept
  BY ControlAssumption DEF Init, MountsKept, DefaultState, Mounts, Blank, Image
<1> QED
  BY <1>1, <1>2, InitReceipts DEF Init, TypeInv, StagesKept, TypeOK

(* What names a mount names one of the mounts. *)
LEMMA MountsNamed ==
    ASSUME TypeOK
    PROVE  /\ 1 \in Mounts /\ mode.mount \in Mounts
           /\ \A p \in Processes : record[p].mount \in Mounts
           /\ \A p \in Processes : dest[p] # 0 => dest[p] \in Mounts
<1>1. 1 \in Mounts
  BY ControlAssumption DEF Mounts
<1>2. mode.mount \in Mounts /\ \A p \in Processes : record[p].mount \in Mounts
  BY Zenon DEF TypeOK, ModeRecord
<1>3. \A p \in Processes : dest[p] # 0 => dest[p] \in Mounts
  BY ControlAssumption DEF TypeOK, Mounts
<1> QED
  BY <1>1, <1>2, <1>3, Zenon

(* What an operation has read of a mount is an image. *)
LEMMA SourceTyped ==
    ASSUME TypeInv, NEW p \in Processes
    PROVE  Source(p) \in Image
BY ControlAssumption, Zenon DEF TypeInv, TypeOK, MountsKept, Source, ModeRecord, Image

(* An operation that ends. *)
LEMMA StopTypes ==
    ASSUME TypeInv, ReceiptInv', NEW p \in Processes, Stop(p),
           mounts' \in [Mounts -> Image \cup {None}],
           \A m \in Mounts : mounts'[m] = mounts[m] \/ (m = dest[p] /\ pc[p] = "publish"),
           UNCHANGED << mode, images, last >>,
           receipts' \in SUBSET Qualification,
           lockdir' \in Processes \cup {None, Orphan},
           begun' = begun, acked' \in 0 .. begun, failures' \in 0 .. MaxFailures
    PROVE  TypeInv'
<1> USE ControlAssumption
<1>1. /\ pc' = [pc EXCEPT ![p] = "idle"]
      /\ task' = [task EXCEPT ![p] = "none"]
      /\ record' = [record EXCEPT ![p] = DefaultState]
      /\ gen' = [gen EXCEPT ![p] = 0]
      /\ prior' = [prior EXCEPT ![p] = 0]
      /\ before' = [before EXCEPT ![p] = Blank]
      /\ again' = [again EXCEPT ![p] = Blank]
      /\ todo' = [todo EXCEPT ![p] = {}]
      /\ version' = [version EXCEPT ![p] = 0]
      /\ dest' = [dest EXCEPT ![p] = 0]
  BY Zenon DEF Stop, Goto
<1>2. DefaultState \in ModeRecord /\ DefaultState.mount = 1
  BY DEF DefaultState, ModeRecord, Mounts
<1>3. Blank \in Image
  BY DEF Blank, Image
<1>4. TypeOK'
  <2>1. /\ pc' \in [Processes -> Steps]
        /\ task' \in [Processes -> Tasks]
        /\ record' \in [Processes -> ModeRecord]
        /\ gen' \in [Processes -> 0 .. MaxGenerations]
        /\ prior' \in [Processes -> 0 .. MaxGenerations]
    BY <1>1, <1>2 DEF TypeInv, TypeOK, Steps, Tasks
  <2>2. /\ before' \in [Processes -> Image]
        /\ again' \in [Processes -> Image]
        /\ todo' \in [Processes -> SUBSET Files]
        /\ version' \in [Processes -> 0 .. MaxCommits]
        /\ dest' \in [Processes -> 0 .. MaxMounts]
    BY <1>1, <1>3 DEF TypeInv, TypeOK
  <2> QED
    BY <2>1, <2>2, Zenon DEF TypeInv, TypeOK, ReceiptInv
<1>5. MountsKept'
  <2>1. /\ 1 \in Mounts /\ mode.mount \in Mounts
        /\ \A q \in Processes : record[q].mount \in Mounts
        /\ \A q \in Processes : dest[q] # 0 => dest[q] \in Mounts
    BY MountsNamed, Zenon DEF TypeInv
  <2>2. mounts'[1] # None /\ mounts'[mode.mount] # None
    BY <2>1 DEF TypeInv, MountsKept, Mounts
  <2>3. ASSUME NEW q \in Processes
        PROVE  mounts'[record'[q].mount] # None
    <3>1. CASE q = p
      BY <1>1, <1>2, <2>2, <3>1, Zenon DEF TypeInv, TypeOK
    <3>2. CASE q # p
      <4>1. record'[q] = record[q] /\ mounts[record[q].mount] # None
        BY <1>1, <3>2, Zenon DEF TypeInv, TypeOK, MountsKept
      <4>2. pc[p] = "publish" => record[q].mount # dest[p]
        BY <2>1 DEF TypeInv, MountsKept, Mounts
      <4> QED
        BY <2>1, <4>1, <4>2, Zenon
    <3> QED
      BY <3>1, <3>2, Zenon
  <2>4. ASSUME NEW q \in Processes, dest'[q] # 0
        PROVE  pc'[q] \in {"publish", "unlock"} /\ mounts'[dest'[q]] # None
    BY <1>1, <2>1, <2>4 DEF TypeInv, TypeOK, MountsKept, Mounts
  <2>5. ASSUME NEW q \in Processes, pc'[q] = "publish"
        PROVE  /\ task'[q] = "activate" \/ dest'[q] # 0
               /\ dest'[q] # 0 =>
                    /\ dest'[q] \notin {1, mode.mount}
                    /\ \A r \in Processes : record'[r].mount # dest'[q]
                    /\ \A r \in Processes \ {q} : dest'[r] # dest'[q]
    BY <1>1, <1>2, <2>5, Zenon DEF TypeInv, TypeOK, MountsKept
  <2> QED
    BY <2>2, <2>3, <2>4, <2>5, Zenon DEF MountsKept
<1>6. StagesKept'
  BY <1>1, Zenon DEF TypeInv, TypeOK, StagesKept
<1> QED
  BY <1>1, <1>4, <1>5, <1>6 DEF TypeInv, TypeOK

(* A step within an operation that makes no mount and publishes none. *)
LEMMA StepTypes ==
    ASSUME TypeInv, ReceiptInv', NEW p \in Processes, NEW step \in Steps, Goto(p, step),
           pc[p] \notin {"idle", "publish", "unlock"}, step # "idle",
           step = "copy" => task[p] = "qualify",
           step \in {"publish", "revalidate"} => task[p] = "activate",
           step = "lock" /\ task[p] = "rollback" => gen'[p] > 0,
           step = "materialize" => gen'[p] > 0,
           \A q \in Processes \ {p} : gen'[q] = gen[q],
           UNCHANGED << task, record, version, dest, mode, mounts, begun, acked >>,
           gen' \in [Processes -> 0 .. MaxGenerations],
           prior' \in [Processes -> 0 .. MaxGenerations],
           before' \in [Processes -> Image], again' \in [Processes -> Image],
           todo' \in [Processes -> SUBSET Files],
           images' \in [Ids -> Image], last' \in 0 .. MaxGenerations, receipts' = receipts,
           lockdir' \in Processes \cup {None, Orphan}, failures' \in 0 .. MaxFailures
    PROVE  TypeInv'
<1>1. pc' = [pc EXCEPT ![p] = step] /\ pc \in [Processes -> Steps] /\ pc' \in [Processes -> Steps]
  BY Zenon DEF Goto, TypeInv, TypeOK
<1>2. TypeOK'
  BY <1>1, Zenon DEF TypeInv, TypeOK, ReceiptInv
<1>3. MountsKept'
  BY <1>1, Zenon DEF TypeInv, MountsKept
<1>4. StagesKept'
  BY <1>1, Zenon DEF TypeInv, StagesKept
<1> QED
  BY <1>1, <1>2, <1>3, <1>4, Zenon DEF TypeInv

LEMMA TypesInduction ==
    ASSUME TypeInv, [Next]_vars
    PROVE  TypeInv'
<1> USE ControlAssumption DEF disk, locals
<1>0. ReceiptInv'
  BY ReceiptInduction, Zenon DEF TypeInv
<1>a. /\ TypeOK
      /\ \A p \in Processes : Source(p) \in Image
  BY SourceTyped, Zenon DEF TypeInv
<1>1. ASSUME NEW p \in Processes, CommitBegin(p) \/ QualifyBegin(p) \/ ActivateBegin(p) \/ RollbackBegin(p)
      PROVE  TypeInv'
  <2>1. PICK kind \in Tasks \ {"none"}, step \in {"flush", "snapshot", "status"} :
             Begin(p, kind, step)
    BY <1>1, Zenon DEF CommitBegin, QualifyBegin, ActivateBegin, RollbackBegin, Tasks, Steps
  <2>2. PICK place \in {"flush", "snapshot", "status"} :
             pc' = [pc EXCEPT ![p] = place] /\ pc[p] = "idle"
    BY <2>1, Zenon DEF Begin, Goto
  <2>3. /\ record' = [record EXCEPT ![p] = mode]
        /\ task' = [task EXCEPT ![p] = kind]
        /\ UNCHANGED << gen, prior, before, again, dest, disk, lockdir, acked, failures >>
    BY <2>1, Zenon DEF Begin
  <2>4. \/ UNCHANGED << todo, version, begun >>
        \/ /\ begun < MaxCommits
           /\ begun' = begun + 1
           /\ version' = [version EXCEPT ![p] = begun + 1]
           /\ todo' = [todo EXCEPT ![p] = Files]
    BY <1>1, Zenon DEF CommitBegin, QualifyBegin, ActivateBegin, RollbackBegin
  <2>5. TypeOK'
    BY <1>a, <2>2, <2>3, <2>4 DEF TypeOK, Steps
  <2>6. MountsKept'
    BY <1>a, <2>2, <2>3, Zenon DEF TypeInv, TypeOK, MountsKept
  <2>7. \A q \in Processes : version'[q] <= begun'
    BY <1>a, <2>4 DEF TypeInv, TypeOK
  <2>8. StagesKept'
    BY <1>a, <2>2, <2>3, Zenon DEF TypeInv, TypeOK, StagesKept
  <2> QED
    BY <1>0, <2>5, <2>6, <2>7, <2>8, Zenon DEF TypeInv
<1>2. ASSUME NEW p \in Processes, Flush(p)
      PROVE  TypeInv'
  <2>1. PICK f \in todo[p] :
             /\ todo' = [todo EXCEPT ![p] = @ \ {f}]
             /\ mounts' = [mounts EXCEPT ![record[p].mount][f] = version[p]]
    BY <1>2, Zenon DEF Flush
  <2>2. record[p].mount \in Mounts /\ mounts[record[p].mount] \in Image
    BY <1>a, Zenon DEF TypeOK, ModeRecord, Source
  <2>3. f \in Files /\ version[p] \in 0 .. MaxCommits
    BY <1>a, Zenon DEF TypeOK
  <2>4. [mounts[record[p].mount] EXCEPT ![f] = version[p]] \in Image
    BY <2>2, <2>3, Zenon DEF Image
  <2>5. /\ mounts' \in [Mounts -> Image \cup {None}]
        /\ \A m \in Mounts : mounts'[m] = mounts[m] \/ mounts'[m] \in Image
    BY <1>a, <2>1, <2>2, <2>4, Zenon DEF TypeOK
  <2>6. TypeOK'
    BY <1>2, <1>a, <2>1, <2>5, Zenon DEF Flush, TypeOK
  <2>7. /\ 1 \in Mounts /\ mode.mount \in Mounts
        /\ \A q \in Processes : record[q].mount \in Mounts
        /\ \A q \in Processes : dest[q] # 0 => dest[q] \in Mounts
    BY <1>a, MountsNamed, Zenon
  <2>8. \A m \in Mounts : mounts[m] # None => mounts'[m] # None
    BY <2>5, Zenon DEF Image
  <2>9. MountsKept'
    BY <1>2, <2>7, <2>8, Zenon DEF Flush, TypeInv, MountsKept
  <2> QED
    BY <1>0, <1>2, <2>6, <2>9, Zenon DEF Flush, TypeInv, StagesKept
<1>3. ASSUME NEW p \in Processes, ReadStatus(p) \/ TakeLock(p)
      PROVE  TypeInv'
  <2>1. CASE Stop(p)
    BY <1>0, <1>3, <1>a, <2>1, StopTypes, Zenon DEF ReadStatus, TakeLock, TypeOK
  <2>2. CASE ReadStatus(p) /\ ~ Stop(p)
    <3>1. gen'[p] > 0 /\ gen' \in [Processes -> 0 .. MaxGenerations]
      BY <1>a, <2>2 DEF ReadStatus, StatusReads, TypeOK
    <3> QED
      BY <1>0, <1>a, <2>2, <3>1, StepTypes, Zenon DEF ReadStatus, TypeOK, Steps
  <2>3. CASE TakeLock(p) /\ ~ Stop(p)
    <3>1. PICK step \in {"repoint", "store", "archive", "revalidate", "materialize"} :
               /\ Goto(p, step)
               /\ step = "revalidate" => task[p] = "activate"
               /\ step = "materialize" => gen[p] > 0
      BY <1>a, <2>3, Zenon DEF TakeLock, TypeInv, TypeOK, Tasks, StagesKept
    <3> QED
      BY <1>0, <1>a, <2>3, <3>1, StepTypes, Zenon DEF TakeLock, TypeOK, Steps
  <2> QED
    BY <1>3, <2>1, <2>2, <2>3, Zenon
<1>4. ASSUME NEW p \in Processes, Return(p)
      PROVE  TypeInv'
  BY <1>0, <1>4, <1>a, StopTypes DEF Return, Abandon, Release, TypeInv, TypeOK
<1>5. ASSUME NEW p \in Processes, Store(p) \/ Archive(p)
      PROVE  TypeInv'
  <2>1. PICK image \in Image : StoreImage(image)
    BY <1>5, <1>a, Zenon DEF Store, Archive, Image, TypeOK
  <2>2. images' \in [Ids -> Image] /\ last' \in 0 .. MaxGenerations
    BY <1>a, <2>1 DEF StoreImage, TypeOK, Ids
  <2>3. current \in 0 .. MaxGenerations /\ last + 1 \in 0 .. MaxGenerations
    BY <1>a, <2>1 DEF StoreImage, TypeOK
  <2>4. CASE Store(p)
    BY <1>0, <1>a, <2>2, <2>4, StepTypes, Zenon DEF Store, TypeOK, Steps
  <2>5. CASE Archive(p)
    BY <1>0, <1>a, <2>2, <2>3, <2>5, StepTypes, Zenon DEF Archive, TypeOK, Steps
  <2> QED
    BY <1>5, <2>4, <2>5, Zenon
<1>6. ASSUME NEW p \in Processes, Snapshot(p)
      PROVE  TypeInv'
  <2>1. CASE Stop(p)
    BY <1>0, <1>6, <1>a, <2>1, StopTypes, Zenon DEF Snapshot, TypeOK
  <2>2. CASE /\ task[p] = "qualify"
             /\ Goto(p, "copy")
             /\ before' = [before EXCEPT ![p] = Source(p)]
             /\ UNCHANGED << task, record, gen, prior, again, todo, version, dest >>
    BY <1>0, <1>6, <1>a, <2>2, StepTypes, Zenon DEF Snapshot, TypeOK, Steps
  <2>3. ASSUME NEW r \in receipts,
               /\ Goto(p, "lock")
               /\ before' = [before EXCEPT ![p] = Source(p)]
               /\ gen' = [gen EXCEPT ![p] = r.generation]
               /\ UNCHANGED << task, record, prior, again, todo, version, dest >>
        PROVE  TypeInv'
    <3>1. r.generation \in 0 .. MaxGenerations
      BY <1>a DEF TypeOK, Qualification, Ids
    <3> QED
      BY <1>0, <1>6, <1>a, <2>3, <3>1, StepTypes, Zenon DEF Snapshot, TypeOK, Steps
  <2> QED
    BY <1>6, <2>1, <2>2, <2>3, Zenon DEF Snapshot
<1>7. ASSUME NEW p \in Processes, Copy(p) \/ Compare(p)
      PROVE  TypeInv'
  <2>1. CASE Copy(p)
    <3>1. pc[p] = "copy" /\ task[p] = "qualify"
      BY <2>1, Zenon DEF Copy, TypeInv, StagesKept
    <3> QED
      BY <1>0, <1>a, <2>1, <3>1, StepTypes, Zenon DEF Copy, TypeOK, Steps
  <2>2. CASE Compare(p)
    BY <1>0, <1>a, <2>2, StepTypes, Zenon DEF Compare, TypeOK, Steps
  <2> QED
    BY <1>7, <2>1, <2>2, Zenon
<1>8. ASSUME NEW p \in Processes, CheckSource(p)
      PROVE  TypeInv'
  BY <1>0, <1>8, <1>a, StepTypes, StopTypes, Zenon
     DEF CheckSource, Abandon, Release, TypeOK, Steps
<1>9. ASSUME NEW p \in Processes, WriteReceipt(p)
      PROVE  TypeInv'
  <2>1. gen[p] \in Ids
    BY <1>9, <1>a, SMTT(30) DEF WriteReceipt, TypeInv, ReceiptInv, TypeOK, Ids
  <2>2. [mount |-> record[p].mount, generation |-> gen[p], inventory |-> before[p]] \in Qualification
    BY <1>a, <2>1, MountsNamed, Zenon DEF Qualification, TypeOK
  <2> QED
    BY <1>0, <1>9, <1>a, <2>2, StopTypes, Zenon DEF WriteReceipt, TypeOK
<1>10. ASSUME NEW p \in Processes, Repoint(p)
       PROVE  TypeInv'
  BY <1>0, <1>10, <1>a, StopTypes, Zenon DEF Repoint, Abandon, Release, TypeOK
<1>11. ASSUME NEW p \in Processes, Revalidate(p)
       PROVE  TypeInv'
  <2>1. pc[p] = "revalidate" /\ task[p] = "activate"
    BY <1>11, Zenon DEF Revalidate, TypeInv, StagesKept
  <2>2. CASE Stop(p)
    BY <1>0, <1>11, <1>a, <2>2, StopTypes, Zenon DEF Revalidate, Abandon, Release, TypeOK
  <2>3. CASE ~ Stop(p)
    BY <1>0, <1>11, <1>a, <2>1, <2>3, StepTypes, Zenon DEF Revalidate, Abandon, TypeOK, Steps
  <2> QED
    BY <2>2, <2>3, Zenon
<1>12. ASSUME NEW p \in Processes, Materialize(p)
       PROVE  TypeInv'
  <2>1. CASE current # gen[p]
    BY <1>0, <1>12, <1>a, <2>1, StopTypes, Zenon DEF Materialize, Abandon, Release, TypeOK
  <2>2. CASE current = gen[p]
    <3>1. PICK m \in Mounts :
               /\ mounts[m] = None
               /\ mounts' = [mounts EXCEPT ![m] = images[gen[p]]]
               /\ dest' = [dest EXCEPT ![p] = m]
      BY <1>12, <2>2, Zenon DEF Materialize, FreeMounts
    <3>2. images[gen[p]] \in Image
      BY <1>12, <1>a, <2>2 DEF Materialize, TypeInv, StagesKept, TypeOK, Ids
    <3>3. /\ pc' = [pc EXCEPT ![p] = "publish"]
          /\ UNCHANGED << task, record, gen, prior, before, again, todo, version, lockdir, mode,
                          images, last, current, receipts, begun, acked, failures >>
      BY <1>12, <2>2, Zenon DEF Materialize, Goto
    <3>4. m \in 1 .. MaxMounts
      BY Zenon DEF Mounts
    <3>5. TypeOK'
      BY <1>a, <3>1, <3>2, <3>3, <3>4 DEF TypeOK, Steps
    <3>6. /\ m # 1 /\ m # mode.mount
          /\ \A q \in Processes : record[q].mount # m
          /\ \A q \in Processes : dest[q] # m
      BY <3>1 DEF TypeInv, MountsKept, Mounts
    <3>7. \A n \in Mounts : mounts[n] # None => mounts'[n] # None
      BY <1>a, <3>1, Zenon DEF TypeOK
    <3>8. mounts'[m] # None
      BY <1>a, <3>1, <3>2, Zenon DEF TypeOK, Image
    <3>a. pc \in [Processes -> Steps] /\ dest \in [Processes -> 0 .. MaxMounts]
      BY <1>a, Zenon DEF TypeOK
    <3>b. /\ pc'[p] = "publish" /\ dest'[p] = m /\ m # 0
          /\ \A q \in Processes \ {p} : pc'[q] = pc[q] /\ dest'[q] = dest[q]
      BY <3>1, <3>3, <3>4, <3>a, SMTT(30)
    <3>9. MountsKept'
      BY <3>3, <3>6, <3>7, <3>8, <3>b, MountsNamed DEF TypeInv, MountsKept
    <3> QED
      BY <1>0, <1>12, <1>a, <3>3, <3>5, <3>9, Zenon DEF Materialize, TypeInv, TypeOK, StagesKept
  <2> QED
    BY <2>1, <2>2, Zenon
<1>13. ASSUME NEW p \in Processes, PublishMode(p)
       PROVE  TypeInv'
  <2>1. /\ pc[p] = "publish"
        /\ pc' = [pc EXCEPT ![p] = "unlock"]
        /\ UNCHANGED << locals, mounts, images, last, current, receipts, lockdir, begun, acked,
                        failures >>
    BY <1>13, Zenon DEF PublishMode, Goto
  <2>2. CASE task[p] = "activate"
    <3>1. mode' = [mode |-> "segmented", revision |-> record[p].revision + 1,
                   mount |-> record[p].mount, qualification |-> gen[p], generation |-> gen[p]]
      BY <1>13, <2>2, Zenon DEF PublishMode
    <3>2. mode' \in ModeRecord /\ mode'.mount = record[p].mount
      BY <1>a, <3>1, SMTT(30) DEF ModeRecord, TypeOK
    <3>3. TypeOK'
      BY <1>a, <2>1, <3>2, Zenon DEF TypeOK, Steps
    <3>4. MountsKept'
      BY <1>a, <2>1, <3>2, Zenon DEF TypeInv, TypeOK, MountsKept
    <3> QED
      BY <1>0, <1>a, <2>1, <3>3, <3>4, Zenon DEF TypeInv, TypeOK, StagesKept
  <2>3. CASE task[p] # "activate"
    <3>1. mode' = [mode |-> "legacy", revision |-> record[p].revision + 1, mount |-> dest[p],
                   qualification |-> record[p].qualification, generation |-> gen[p]]
      BY <1>13, <2>3, Zenon DEF PublishMode
    <3>2. dest[p] # 0 /\ dest[p] \in Mounts
      BY <1>a, <2>1, <2>3, MountsNamed, Zenon DEF TypeInv, MountsKept
    <3>3. mode' \in ModeRecord /\ mode'.mount = dest[p]
      BY <1>a, <3>1, <3>2, SMTT(30) DEF ModeRecord, TypeOK
    <3>4. TypeOK'
      BY <1>a, <2>1, <3>3, Zenon DEF TypeOK, Steps
    <3>5. MountsKept'
      BY <1>a, <2>1, <3>2, <3>3, Zenon DEF TypeInv, TypeOK, MountsKept
    <3> QED
      BY <1>0, <1>a, <2>1, <3>4, <3>5, Zenon DEF TypeInv, TypeOK, StagesKept
  <2> QED
    BY <2>2, <2>3, Zenon
<1>14. ASSUME NEW p \in Processes, Raise(p)
       PROVE  TypeInv'
  <2>1. mounts' = [m \in Mounts |-> IF m = dest[p] THEN None ELSE mounts[m]]
    BY <1>14, Zenon DEF Raise
  <2>2. mounts' \in [Mounts -> Image \cup {None}]
    BY <1>a, <2>1, Zenon DEF TypeOK
  <2>3. failures' \in 0 .. MaxFailures
    BY <1>14, <1>a, SMTT(30) DEF Raise, TypeOK
  <2>4. CASE pc[p] \in {"compare", "receipt"}
    <3>1. dest[p] = 0
      BY <2>4, Zenon DEF TypeInv, MountsKept
    <3>2. mounts' = mounts
      BY <1>a, <2>1, <3>1, SMTT(30) DEF TypeOK, Mounts
    <3> QED
      BY <1>0, <1>14, <1>a, <2>3, <2>4, <3>2, StepTypes, SMTT(30) DEF Raise, TypeOK, Steps
  <2>5. CASE pc[p] \notin {"compare", "receipt"}
    <3>1. \A m \in Mounts : mounts'[m] = mounts[m] \/ (m = dest[p] /\ pc[p] = "publish")
      BY <1>14, <1>a, <2>1 DEF Raise, TypeInv, MountsKept, Mounts
    <3> QED
      BY <1>0, <1>14, <1>a, <2>2, <2>3, <2>5, <3>1, StopTypes, Zenon
         DEF Raise, Abandon, Release, TypeOK
  <2> QED
    BY <2>4, <2>5, Zenon
<1>15. ASSUME NEW p \in Processes, Crash(p)
       PROVE  TypeInv'
  BY <1>0, <1>15, <1>a, StopTypes DEF Crash, TypeOK
<1>16. CASE RemoveOrphan \/ UNCHANGED vars
  <2>1. /\ UNCHANGED << pc, task, record, gen, prior, before, again, todo, version, dest >>
        /\ UNCHANGED << mode, mounts, images, last, current, receipts, begun, acked, failures >>
        /\ lockdir' \in Processes \cup {None, Orphan}
    BY <1>16, <1>a, Zenon DEF RemoveOrphan, vars, TypeOK
  <2>2. TypeOK'
    BY <1>a, <2>1, Zenon DEF TypeOK
  <2>3. MountsKept' /\ StagesKept'
    BY <2>1, Zenon DEF TypeInv, MountsKept, StagesKept
  <2> QED
    BY <1>0, <2>1, <2>2, <2>3, Zenon DEF TypeInv
<1> QED
  BY Zenon, <1>1, <1>2, <1>3, <1>4, <1>5, <1>6, <1>7, <1>8, <1>9, <1>10, <1>11, <1>12, <1>13,
     <1>14,
     <1>15, <1>16 DEF Next, Processes

(* Whatever overlaps and fails, the mount that STORAGE_MODE.json names and *)
(* the mounts that operations work on exist, the pointer names a published *)
(* generation, and a commit is acknowledged only after it has begun.       *)
THEOREM ControlTypes == Spec => []TypeOK
<1>1. TypeInv => TypeOK
  BY Zenon DEF TypeInv
<1> QED
  BY <1>1, InitTypes, TypesInduction, PTL DEF Spec

-----------------------------------------------------------------------------
(* An activation or a rollback is under way. *)
Moving(p) == pc[p] # "idle" /\ task[p] \in {"activate", "rollback"}

(* Where activation and rollback run alone: an operation works by the mode *)
(* record that is in place, each of its steps belongs to one mode, and     *)
(* what an activation or a rollback is about to publish is the data that   *)
(* readers see already.                                                    *)
QuietAt(p) ==
    /\ Moving(p) => \A q \in Processes \ {p} : pc[q] = "idle"
    /\ pc[p] \notin {"idle", "unlock"} => record[p] = mode
    /\ pc[p] = "unlock" => Moving(p) \/ (task[p] = "commit" /\ mode.mode = "segmented")
    /\ pc[p] = "flush" => task[p] = "commit" /\ mode.mode = "legacy"
    /\ pc[p] = "store" => task[p] = "commit" /\ mode.mode = "segmented"
    /\ pc[p] \in {"copy", "archive", "check", "compare", "receipt", "restore", "repoint"}
          => task[p] = "qualify" /\ mode.mode = "legacy"
    /\ pc[p] = "snapshot" => task[p] \in {"qualify", "activate"} /\ mode.mode = "legacy"
    /\ pc[p] = "status" => task[p] \in {"commit", "rollback"} /\ mode.mode = "segmented"
    /\ pc[p] = "lock" => \/ task[p] \in {"commit", "rollback"} /\ mode.mode = "segmented"
                         \/ task[p] \in {"qualify", "activate"} /\ mode.mode = "legacy"
    /\ pc[p] = "revalidate" => task[p] = "activate" /\ mode.mode = "legacy"
    /\ pc[p] = "materialize" => task[p] = "rollback" /\ mode.mode = "segmented"
    /\ pc[p] \in {"lock", "revalidate", "publish"} /\ task[p] = "activate"
          => \E r \in receipts : r.generation = gen[p]
    /\ pc[p] = "publish" =>
          /\ current = gen[p]
          /\ gen[p] > 0
          /\ \/ /\ task[p] = "activate" /\ mode.mode = "legacy"
                /\ images[current] = mounts[mode.mount]
             \/ /\ task[p] = "rollback" /\ mode.mode = "segmented"
                /\ mounts[dest[p]] = images[current]

QuietInv == StatusAvailable /\ \A p \in Processes : QuietAt(p)

LEMMA InitQuiet == Init => QuietInv
BY DEF Init, QuietInv, QuietAt, Moving, StatusAvailable, DefaultState

(* While an operation takes a step nobody else is activating or rolling    *)
(* back, and it remains to look at that operation.                         *)
LEMMA QuietStep ==
    ASSUME TypeInv, QuietInv, NEW p \in Processes,
           \A q \in Processes \ {p} : ~ Moving(q),
           \A q \in Processes \ {p} : /\ pc'[q] = pc[q] /\ task'[q] = task[q]
                                      /\ record'[q] = record[q] /\ gen'[q] = gen[q],
           mode' = mode, receipts \subseteq receipts',
           mode.mode = "segmented" => current' # 0,
           QuietAt(p)'
    PROVE  QuietInv'
<1>1. StatusAvailable'
  BY Zenon DEF QuietInv, StatusAvailable, StatusReads
<1>2. ASSUME NEW q \in Processes \ {p}
      PROVE  QuietAt(q)'
  <2>1. ~ Moving(q) /\ ~ Moving(q)' /\ QuietAt(q)
    BY <1>2, Zenon DEF Moving, QuietInv
  <2> QED
    BY <1>2, <2>1, Zenon DEF QuietAt, Moving
<1> QED
  BY <1>1, <1>2, Zenon DEF QuietInv

(* Who is under way is not disturbed. *)
LEMMA OthersQuiet ==
    ASSUME QuietInv, NEW p \in Processes, pc[p] # "idle"
    PROVE  \A q \in Processes \ {p} : ~ Moving(q)
BY Zenon DEF QuietInv, QuietAt

(* An operation that ends. *)
LEMMA QuietStop ==
    ASSUME TypeInv, QuietInv, NEW p \in Processes, pc[p] # "idle", Stop(p),
           mode' = mode, receipts \subseteq receipts',
           mode.mode = "segmented" => current' # 0
    PROVE  QuietInv'
<1>1. /\ pc' = [pc EXCEPT ![p] = "idle"]
      /\ task' = [task EXCEPT ![p] = "none"]
      /\ record' = [record EXCEPT ![p] = DefaultState]
      /\ gen' = [gen EXCEPT ![p] = 0]
  BY Zenon DEF Stop, Goto
<1>2. QuietAt(p)'
  BY <1>1, Zenon DEF QuietAt, Moving, TypeInv, TypeOK
<1> QED
  BY <1>1, <1>2, OthersQuiet, QuietStep, Zenon DEF TypeInv, TypeOK

(* A step within an operation that changes neither the mode record nor the *)
(* pointer.                                                                *)
LEMMA QuietGoto ==
    ASSUME TypeInv, QuietInv, NEW p \in Processes, pc[p] # "idle", NEW step \in Steps,
           Goto(p, step), UNCHANGED << task, record, mode, receipts, current >>,
           \A q \in Processes \ {p} : gen'[q] = gen[q],
           QuietAt(p)'
    PROVE  QuietInv'
<1>1. mode.mode = "segmented" => current' # 0
  BY Zenon DEF QuietInv, StatusAvailable, StatusReads
<1> QED
  BY <1>1, OthersQuiet, QuietStep, Zenon DEF Goto, TypeInv, TypeOK

LEMMA QuietInduction ==
    ASSUME TypeInv, QuietInv, Quiescent, [Next]_vars
    PROVE  QuietInv'
<1> USE DEF disk, locals
<1>a. mode.mode = "segmented" => current # 0
  BY Zenon DEF QuietInv, StatusAvailable, StatusReads
<1>b. /\ pc \in [Processes -> Steps]
      /\ task \in [Processes -> Tasks]
      /\ record \in [Processes -> ModeRecord]
      /\ gen \in [Processes -> 0 .. MaxGenerations]
      /\ dest \in [Processes -> 0 .. MaxMounts]
      /\ mode \in ModeRecord
  BY Zenon DEF TypeInv, TypeOK
<1>c. \A p \in Processes : QuietAt(p)
  BY Zenon DEF QuietInv
<1>1. ASSUME NEW p \in Processes, CommitBegin(p) \/ QualifyBegin(p) \/ ActivateBegin(p) \/ RollbackBegin(p)
      PROVE  QuietInv'
  <2>1. PICK kind \in Tasks \ {"none"}, step \in {"flush", "snapshot", "status"} :
             /\ Begin(p, kind, step)
             /\ mode.mode = "legacy" /\ step = "flush" => kind = "commit"
             /\ mode.mode = "legacy" /\ step = "snapshot" => kind \in {"qualify", "activate"}
             /\ step = "status" \/ mode.mode # "legacy" => kind \in {"commit", "rollback"}
             /\ step = "status" => mode.mode = "segmented"
    BY <1>1, Zenon DEF CommitBegin, QualifyBegin, ActivateBegin, RollbackBegin, Tasks
  <2>2. /\ pc' = [pc EXCEPT ![p] = IF mode.mode = "legacy" THEN step ELSE "status"]
        /\ task' = [task EXCEPT ![p] = kind]
        /\ record' = [record EXCEPT ![p] = mode]
        /\ UNCHANGED << gen, mode, receipts, current >>
    BY <2>1, Zenon DEF Begin, Goto
  <2>3. \A q \in Processes \ {p} :
            pc[q] # "idle" => kind \notin {"activate", "rollback"} /\ task[q] \notin {"activate", "rollback"}
    BY <2>1, Zenon DEF Begin, Undisturbed
  <2>4. mode.mode \in {"legacy", "segmented"}
    BY <1>b, Zenon DEF ModeRecord
  <2>5. QuietAt(p)'
    BY <1>b, <2>1, <2>2, <2>3, <2>4, Zenon DEF QuietAt, Moving
  <2>6. \A q \in Processes \ {p} : ~ Moving(q)
    BY <2>3, Zenon DEF Moving
  <2> QED
    BY <1>a, <1>b, <2>2, <2>5, <2>6, QuietStep, Zenon
<1>2. ASSUME NEW p \in Processes, ReadStatus(p)
      PROVE  QuietInv'
  <2>1. CASE Stop(p)
    BY <1>2, <1>a, <2>1, QuietStop, Zenon DEF ReadStatus
  <2>2. CASE ~ Stop(p)
    <3>1. /\ pc[p] = "status" /\ Goto(p, "lock")
          /\ gen' = [gen EXCEPT ![p] = current]
          /\ UNCHANGED << task, record, mode, receipts, current >>
      BY <1>2, <2>2, Zenon DEF ReadStatus
    <3>2. QuietAt(p)'
      BY <1>b, <1>c, <3>1, Zenon DEF QuietAt, Moving, Goto
    <3> QED
      BY <1>b, <3>1, <3>2, QuietGoto, Zenon DEF Steps
  <2> QED
    BY <2>1, <2>2, Zenon
<1>3. ASSUME NEW p \in Processes, TakeLock(p)
      PROVE  QuietInv'
  <2>1. CASE Stop(p)
    BY <1>3, <1>a, <2>1, QuietStop, Zenon DEF TakeLock
  <2>2. CASE ~ Stop(p)
    <3>0. /\ pc[p] \in {"lock", "restore"}
          /\ Goto(p, IF pc[p] = "restore" THEN "repoint"
                     ELSE CASE task[p] = "commit"   -> "store"
                            [] task[p] = "qualify"  -> "archive"
                            [] task[p] = "activate" -> "revalidate"
                            [] OTHER                -> "materialize")
      BY <1>3, <2>2, Zenon DEF TakeLock
    <3>1. PICK step \in {"repoint", "store", "archive", "revalidate", "materialize"} :
               /\ Goto(p, step)
               /\ \/ pc[p] = "restore" /\ step = "repoint"
                  \/ pc[p] = "lock" /\ task[p] = "commit" /\ step = "store"
                  \/ pc[p] = "lock" /\ task[p] = "qualify" /\ step = "archive"
                  \/ pc[p] = "lock" /\ task[p] = "activate" /\ step = "revalidate"
                  \/ pc[p] = "lock" /\ task[p] \notin {"commit", "qualify", "activate"} /\ step = "materialize"
      <4>1. CASE pc[p] = "restore"
        BY <3>0, <4>1, Zenon
      <4>2. CASE pc[p] = "lock" /\ task[p] = "commit"
        BY <3>0, <4>2, Zenon
      <4>3. CASE pc[p] = "lock" /\ task[p] = "qualify"
        BY <3>0, <4>3, Zenon
      <4>4. CASE pc[p] = "lock" /\ task[p] = "activate"
        BY <3>0, <4>4, Zenon
      <4>5. CASE pc[p] = "lock" /\ task[p] \notin {"commit", "qualify", "activate"}
        BY <3>0, <4>5, Zenon
      <4> QED
        BY <3>0, <4>1, <4>2, <4>3, <4>4, <4>5, Zenon
    <3>a. UNCHANGED locals
      BY <1>3, <2>2, Zenon DEF TakeLock
    <3>b. UNCHANGED disk
      BY <1>3, Zenon DEF TakeLock
    <3>2. UNCHANGED << task, record, gen, dest, mode, receipts, current, images, mounts >>
      BY <3>a, <3>b, Zenon
    <3>3. QuietAt(p)'
      BY <1>b, <1>c, <3>1, <3>2, Zenon DEF QuietAt, Moving, Goto
    <3> QED
      BY <1>b, <3>1, <3>2, <3>3, QuietGoto, Zenon DEF Steps
  <2> QED
    BY <2>1, <2>2, Zenon
<1>4. ASSUME NEW p \in Processes, Return(p)
      PROVE  QuietInv'
  BY <1>4, <1>a, QuietStop, Zenon DEF Return, Abandon
<1>5. ASSUME NEW p \in Processes, Flush(p)
      PROVE  QuietInv'
  <2>1. pc[p] = "flush" /\ UNCHANGED << pc, task, record, gen, dest, mode, receipts, current, images >>
    BY <1>5, Zenon DEF Flush
  <2>2. QuietAt(p)'
    BY <1>c, <2>1, Zenon DEF QuietAt, Moving
  <2> QED
    BY <1>a, <2>1, <2>2, OthersQuiet, QuietStep, Zenon
<1>6. ASSUME NEW p \in Processes, Store(p)
      PROVE  QuietInv'
  <2>1. /\ pc[p] = "store" /\ Goto(p, "unlock") /\ current' = last + 1
        /\ UNCHANGED << task, record, gen, dest, mode, receipts >>
    BY <1>6, Zenon DEF Store, StoreImage
  <2>2. QuietAt(p)'
    BY <1>b, <1>c, <2>1, Zenon DEF QuietAt, Moving, Goto
  <2>3. current' # 0
    BY <2>1 DEF TypeInv, TypeOK
  <2> QED
    BY <1>b, <2>1, <2>2, <2>3, OthersQuiet, QuietStep, Zenon DEF Goto
<1>7. ASSUME NEW p \in Processes, Snapshot(p)
      PROVE  QuietInv'
  <2>1. CASE Stop(p)
    BY <1>7, <1>a, <2>1, QuietStop, Zenon DEF Snapshot
  <2>2. CASE ~ Stop(p)
    <3>1. /\ pc[p] = "snapshot"
          /\ UNCHANGED << task, record, dest, mode, receipts, current, images, mounts >>
          /\ \/ task[p] = "qualify" /\ Goto(p, "copy") /\ gen' = gen
             \/ /\ task[p] = "activate" /\ Goto(p, "lock")
                /\ \E r \in receipts : gen' = [gen EXCEPT ![p] = r.generation]
      BY <1>7, <2>2, Zenon DEF Snapshot
    <3>2. QuietAt(p)'
      BY <1>b, <1>c, <3>1 DEF QuietAt, Moving, Goto
    <3>3. \A q \in Processes \ {p} : gen'[q] = gen[q]
      BY <1>b, <3>1, Zenon
    <3> QED
      BY <1>b, <3>1, <3>2, <3>3, QuietGoto, Zenon DEF Steps
  <2> QED
    BY <2>1, <2>2, Zenon
<1>8. ASSUME NEW p \in Processes, Copy(p) \/ Compare(p)
      PROVE  QuietInv'
  <2>1. PICK step \in {"lock", "receipt", "restore"} :
             /\ pc[p] \in {"copy", "compare"} /\ Goto(p, step)
             /\ UNCHANGED << task, record, gen, dest, mode, receipts, current, images, mounts >>
    BY <1>8, Zenon DEF Copy, Compare
  <2>2. QuietAt(p)'
    BY <1>b, <1>c, <2>1, Zenon DEF QuietAt, Moving, Goto
  <2> QED
    BY <1>b, <2>1, <2>2, QuietGoto, Zenon DEF Steps
<1>9. ASSUME NEW p \in Processes, Archive(p)
      PROVE  QuietInv'
  <2>1. /\ pc[p] = "archive" /\ Goto(p, "check")
        /\ gen' = [gen EXCEPT ![p] = last + 1]
        /\ UNCHANGED << task, record, dest, mode, receipts, mounts >>
    BY <1>9, Zenon DEF Archive
  <2>2. QuietAt(p)' /\ mode.mode = "legacy"
    BY <1>b, <1>c, <2>1, Zenon DEF QuietAt, Moving, Goto
  <2> QED
    BY <1>b, <2>1, <2>2, OthersQuiet, QuietStep, Zenon DEF Goto
<1>10. ASSUME NEW p \in Processes, CheckSource(p)
       PROVE  QuietInv'
  <2>1. pc[p] = "check" /\ mode.mode = "legacy" /\ UNCHANGED << mode, receipts, images, mounts >>
    BY <1>10, <1>c, Zenon DEF CheckSource, QuietAt
  <2>2. CASE Stop(p)
    BY <2>1, <2>2, QuietStop, Zenon
  <2>3. CASE ~ Stop(p)
    <3>1. Goto(p, "compare") /\ UNCHANGED << task, record, gen, dest, current >>
      BY <1>10, <2>3, Zenon DEF CheckSource, Abandon
    <3>2. QuietAt(p)'
      BY <1>b, <1>c, <2>1, <3>1, Zenon DEF QuietAt, Moving, Goto
    <3> QED
      BY <1>b, <2>1, <3>1, <3>2, QuietGoto, Zenon DEF Steps
  <2> QED
    BY <2>2, <2>3, Zenon
<1>11. ASSUME NEW p \in Processes, WriteReceipt(p) \/ Repoint(p)
       PROVE  QuietInv'
  <2>1. pc[p] \in {"receipt", "repoint"} /\ Stop(p) /\ mode' = mode /\ receipts \subseteq receipts'
    BY <1>11, Zenon DEF WriteReceipt, Repoint, Abandon
  <2>2. mode.mode = "legacy"
    BY <1>c, <2>1, Zenon DEF QuietAt
  <2> QED
    BY <2>1, <2>2, QuietStop, Zenon
<1>12. ASSUME NEW p \in Processes, Revalidate(p)
       PROVE  QuietInv'
  <2>1. CASE Stop(p)
    BY <1>12, <1>a, <2>1, QuietStop, Zenon DEF Revalidate
  <2>2. CASE ~ Stop(p)
    <3>1. /\ pc[p] = "revalidate" /\ Goto(p, "publish") /\ current = gen[p]
          /\ images[gen[p]] = mounts[record[p].mount]
          /\ UNCHANGED << task, record, gen, dest, mode, receipts, current, images, mounts >>
      BY <1>12, <2>2, Zenon DEF Revalidate, Abandon, Equivalent, Source
    <3>2. record[p] = mode /\ task[p] = "activate" /\ mode.mode = "legacy"
      BY <1>c, <3>1, Zenon DEF QuietAt
    <3>3. PICK r \in receipts : r.generation = gen[p]
      BY <1>c, <3>1, <3>2, Zenon DEF QuietAt
    <3>4. gen[p] > 0
      BY <3>3 DEF TypeInv, TypeOK, Qualification, Ids
    <3>5. QuietAt(p)'
      BY <1>b, <1>c, <3>1, <3>2, <3>3, <3>4, Zenon DEF QuietAt, Moving, Goto
    <3> QED
      BY <1>b, <3>1, <3>5, QuietGoto, Zenon DEF Steps
  <2> QED
    BY <2>1, <2>2, Zenon
<1>13. ASSUME NEW p \in Processes, Materialize(p)
       PROVE  QuietInv'
  <2>1. CASE Stop(p)
    BY <1>13, <1>a, <2>1, QuietStop, Zenon DEF Materialize
  <2>2. CASE ~ Stop(p)
    <3>1. PICK m \in FreeMounts :
               /\ pc[p] = "materialize" /\ Goto(p, "publish") /\ current = gen[p]
               /\ mounts' = [mounts EXCEPT ![m] = images[gen[p]]]
               /\ dest' = [dest EXCEPT ![p] = m]
               /\ UNCHANGED << task, record, gen, mode, receipts, current, images >>
      BY <1>13, <2>2, Zenon DEF Materialize, Abandon
    <3>2. task[p] = "rollback" /\ mode.mode = "segmented"
      BY <1>c, <3>1, Zenon DEF QuietAt
    <3>3. gen[p] > 0
      BY <1>a, <1>b, <3>1, <3>2 DEF TypeInv, TypeOK
    <3>4. m \in Mounts /\ mounts'[m] = images[gen[p]] /\ dest'[p] = m
      BY <1>b, <3>1, Zenon DEF FreeMounts, TypeInv, TypeOK
    <3>5. QuietAt(p)'
      BY <1>b, <1>c, <3>1, <3>2, <3>3, <3>4, Zenon DEF QuietAt, Moving, Goto
    <3> QED
      BY <1>b, <3>1, <3>5, QuietGoto, Zenon DEF Steps
  <2> QED
    BY <2>1, <2>2, Zenon
<1>14. ASSUME NEW p \in Processes, PublishMode(p)
       PROVE  QuietInv'
  <2>1. /\ pc[p] = "publish" /\ Goto(p, "unlock")
        /\ UNCHANGED << task, record, gen, dest, receipts, current, images, mounts >>
    BY <1>14, Zenon DEF PublishMode
  <2>2. Moving(p) /\ current = gen[p] /\ gen[p] > 0
    BY <1>c, <2>1, Zenon DEF QuietAt, Moving
  <2>3. \A q \in Processes \ {p} : pc'[q] = "idle"
    BY <1>b, <1>c, <2>1, <2>2, Zenon DEF QuietAt, Goto
  <2>4. \A q \in Processes \ {p} : QuietAt(q)'
    BY <2>3, Zenon DEF QuietAt, Moving
  <2>5. QuietAt(p)'
    BY <1>b, <2>1, <2>2, <2>3, Zenon DEF QuietAt, Moving, Goto
  <2>6. StatusAvailable'
    <3>1. CASE task[p] = "activate"
      <4>1. PICK r \in receipts : r.generation = gen[p]
        BY <1>c, <2>1, <3>1, Zenon DEF QuietAt
      <4>2. mode'.qualification = gen[p] /\ mode'.generation = gen[p]
        BY <1>14, <3>1, Zenon DEF PublishMode
      <4>3. current' # 0
        BY <1>b, <2>1, <2>2
      <4> QED
        BY <2>1, <4>1, <4>2, <4>3, Zenon DEF StatusAvailable, StatusReads
    <3>2. CASE task[p] # "activate"
      BY <1>14, <3>2, Zenon DEF PublishMode, StatusAvailable
    <3> QED
      BY <3>1, <3>2, Zenon
  <2> QED
    BY <2>4, <2>5, <2>6, Zenon DEF QuietInv
<1>15. ASSUME NEW p \in Processes, Raise(p) \/ Crash(p)
       PROVE  QuietInv'
  <2>1. CASE Stop(p)
    BY <1>15, <1>a, <2>1, QuietStop, Zenon DEF Raise, Crash
  <2>2. CASE ~ Stop(p)
    <3>1. /\ pc[p] \in {"compare", "receipt"} /\ Goto(p, "restore")
          /\ UNCHANGED << task, record, gen, dest, mode, receipts, current, images >>
      BY <1>15, <2>2, Zenon DEF Raise, Crash, Abandon
    <3>2. QuietAt(p)'
      BY <1>b, <1>c, <3>1, Zenon DEF QuietAt, Moving, Goto
    <3> QED
      BY <1>b, <3>1, <3>2, QuietGoto, Zenon DEF Steps
  <2> QED
    BY <2>1, <2>2, Zenon
<1>16. CASE RemoveOrphan \/ UNCHANGED vars
  <2>1. UNCHANGED << pc, task, record, gen, dest, mode, receipts, current, images, mounts >>
    BY <1>16, Zenon DEF RemoveOrphan, vars
  <2> QED
    <3>1. StatusAvailable'
      BY <2>1, Zenon DEF QuietInv, StatusAvailable, StatusReads
    <3>2. ASSUME NEW p \in Processes
          PROVE  QuietAt(p)'
      BY <1>c, <2>1, Zenon DEF QuietAt, Moving
    <3> QED
      BY <3>1, <3>2, Zenon DEF QuietInv
<1> QED
  BY Zenon, <1>1, <1>2, <1>3, <1>4, <1>5, <1>6, <1>7, <1>8, <1>9, <1>10, <1>11, <1>12,
     <1>13, <1>14, <1>15, <1>16 DEF Next, Processes

-----------------------------------------------------------------------------
(* Only a flush of the legacy mount and a commit into the segment store    *)
(* change what a reader sees.                                              *)
LEMMA ActiveStep ==
    ASSUME TypeInv, QuietInv, [Next]_vars
    PROVE  \/ ActiveMount' = ActiveMount
           \/ \E p \in Processes : Flush(p) \/ Store(p)
<1> USE DEF disk, locals
<1> SUFFICES ASSUME ~ \E p \in Processes : Flush(p) \/ Store(p)
             PROVE  ActiveMount' = ActiveMount
  BY Zenon
<1>a. /\ current \in 0 .. last
      /\ last \in 0 .. MaxGenerations
      /\ images \in [Ids -> Image]
      /\ mounts \in [Mounts -> Image \cup {None}]
      /\ mode \in ModeRecord
      /\ dest \in [Processes -> 0 .. MaxMounts]
  BY Zenon DEF TypeInv, TypeOK
<1>b. \A p \in Processes : QuietAt(p)
  BY Zenon DEF QuietInv
<1>1. CASE UNCHANGED << mode, mounts, images, current >>
  BY <1>1, Zenon DEF ActiveMount
<1>2. ASSUME NEW p \in Processes, Archive(p) \/ CheckSource(p) \/ Repoint(p)
      PROVE  ActiveMount' = ActiveMount
  <2>1. mode.mode = "legacy" /\ UNCHANGED << mode, mounts >>
    BY <1>2, <1>b, Zenon DEF Archive, CheckSource, Repoint, QuietAt
  <2> QED
    BY <2>1, Zenon DEF ActiveMount
<1>3. ASSUME NEW p \in Processes, Materialize(p)
      PROVE  ActiveMount' = ActiveMount
  <2>1. mode.mode = "segmented" /\ UNCHANGED << mode, images, current >>
    BY <1>3, <1>b, Zenon DEF Materialize, QuietAt
  <2> QED
    BY <2>1, Zenon DEF ActiveMount
<1>4. ASSUME NEW p \in Processes, PublishMode(p)
      PROVE  ActiveMount' = ActiveMount
  <2>1. pc[p] = "publish" /\ UNCHANGED << mounts, images, current >>
    BY <1>4, Zenon DEF PublishMode
  <2>2. CASE task[p] = "activate"
    <3>1. mode.mode = "legacy" /\ images[current] = mounts[mode.mount]
      BY <1>b, <2>1, <2>2, Zenon DEF QuietAt
    <3>2. mode'.mode = "segmented"
      BY <1>4, <2>2, Zenon DEF PublishMode
    <3> QED
      BY <2>1, <3>1, <3>2, Zenon DEF ActiveMount
  <2>3. CASE task[p] # "activate"
    <3>1. mode.mode = "segmented" /\ mounts[dest[p]] = images[current]
      BY <1>b, <2>1, <2>3, Zenon DEF QuietAt
    <3>2. mode'.mode = "legacy" /\ mode'.mount = dest[p]
      BY <1>4, <2>3, Zenon DEF PublishMode
    <3> QED
      BY <2>1, <3>1, <3>2, Zenon DEF ActiveMount
  <2> QED
    BY <2>2, <2>3, Zenon
<1>5. ASSUME NEW p \in Processes, Raise(p)
      PROVE  ActiveMount' = ActiveMount
  <2>1. /\ UNCHANGED << mode, images, current >>
        /\ mounts' = [m \in Mounts |-> IF m = dest[p] THEN None ELSE mounts[m]]
    BY <1>5, Zenon DEF Raise
  <2>2. mode.mount \in Mounts /\ mode.mount # dest[p]
    BY <1>5, <1>a DEF ModeRecord, Mounts, TypeInv, MountsKept, Raise
  <2>3. mounts'[mode.mount] = mounts[mode.mount]
    BY <2>1, <2>2, Zenon
  <2> QED
    BY <2>1, <2>3, Zenon DEF ActiveMount
<1>6. ASSUME NEW p \in Processes,
             \/ CommitBegin(p) \/ QualifyBegin(p) \/ ActivateBegin(p) \/ RollbackBegin(p)
             \/ ReadStatus(p) \/ TakeLock(p) \/ Return(p) \/ Snapshot(p) \/ Copy(p) \/ Compare(p)
             \/ WriteReceipt(p) \/ Revalidate(p) \/ Crash(p)
      PROVE  UNCHANGED << mode, mounts, images, current >>
  BY <1>6, Zenon DEF CommitBegin, QualifyBegin, ActivateBegin, RollbackBegin, Begin, ReadStatus,
              TakeLock, Return, Snapshot, Copy, Compare, WriteReceipt, Revalidate, Crash
<1>7. CASE RemoveOrphan \/ UNCHANGED vars
  BY <1>1, <1>7, Zenon DEF RemoveOrphan, vars
<1> QED
  BY <1>1, <1>2, <1>3, <1>4, <1>5, <1>6, <1>7, Zenon DEF Next, Processes

(* Where activation and rollback run alone, replacing STORAGE_MODE.json    *)
(* moves authority and not the data, and in segmented mode a commit shows  *)
(* at once or not at all, whatever raises or dies on the way.              *)
THEOREM ActivationMovesWhole == ASSUME Quiescent PROVE Spec => ImagesMoveWhole
<1> DEFINE Whole ==
        /\ mode' # mode => ActiveMount' = ActiveMount
        /\ mode.mode = "segmented" /\ mode' = mode /\ ActiveMount' # ActiveMount
           => \A f, g \in Files : ActiveMount'[f] = ActiveMount'[g]
<1>1. Init => TypeInv /\ QuietInv
  BY InitTypes, InitQuiet, Zenon
<1>2. TypeInv /\ QuietInv /\ [Next]_vars => TypeInv' /\ QuietInv'
  BY TypesInduction, QuietInduction, Zenon
<1>3. ASSUME TypeInv, QuietInv, [Next]_vars
      PROVE  Whole
  <2>1. CASE ActiveMount' = ActiveMount
    BY <2>1, Zenon
  <2>2. ASSUME NEW p \in Processes, Flush(p)
        PROVE  Whole
    <3>1. mode' = mode /\ mode.mode = "legacy"
      BY <1>3, <2>2, Zenon DEF Flush, QuietInv, QuietAt
    <3> QED
      BY <3>1, Zenon
  <2>3. ASSUME NEW p \in Processes, Store(p)
        PROVE  Whole
    <3>1. /\ mode' = mode /\ current' = last + 1 /\ last < MaxGenerations
          /\ images' = [images EXCEPT ![last + 1] = [f \in Files |-> version[p]]]
      BY <2>3, Zenon DEF Store, StoreImage
    <3>a. last \in 0 .. MaxGenerations /\ images \in [Ids -> Image]
      BY <1>3, Zenon DEF TypeInv, TypeOK
    <3>2. last + 1 \in Ids
      BY <3>1, <3>a, ControlAssumption DEF Ids
    <3>3. images'[current'] = [f \in Files |-> version[p]]
      BY <3>1, <3>2, <3>a, Zenon
    <3>4. mode.mode = "segmented" => ActiveMount' = [f \in Files |-> version[p]]
      BY <3>1, <3>3, Zenon DEF ActiveMount
    <3> QED
      BY <3>1, <3>4, Zenon
  <2> QED
    BY <1>3, <2>1, <2>2, <2>3, ActiveStep, Zenon
<1>4. TypeInv /\ QuietInv /\ [Next]_vars => [Whole]_vars
  BY <1>3, Zenon
<1> QED
  BY <1>1, <1>2, <1>4, PTL DEF Spec, ImagesMoveWhole

-----------------------------------------------------------------------------
(* The commits of the program come one after another. *)
SoleCommitter == \A p, q \in Committers : p = q

(* What has been written of the commit that is under way is what a reader  *)
(* sees, and no acknowledged commit is newer.                              *)
VisibleAt(p) ==
    /\ pc[p] # "idle" /\ task[p] = "commit" => p \in Committers /\ version[p] >= acked
    /\ pc[p] = "flush" => \A f \in Files \ todo[p] : ActiveMount[f] >= version[p]
    /\ pc[p] = "unlock" /\ task[p] = "commit" => \A f \in Files : ActiveMount[f] >= version[p]

VisibleInv == AcknowledgedVisible /\ \A p \in Processes : VisibleAt(p)

LEMMA InitVisible == Init => VisibleInv
BY ControlAssumption
   DEF Init, VisibleInv, VisibleAt, AcknowledgedVisible, ActiveMount, DefaultState, Blank, Mounts

(* A step that neither writes to what a reader sees nor acknowledges. *)
LEMMA VisibleStep ==
    ASSUME VisibleInv, ActiveMount' = ActiveMount, acked' = acked,
           \A q \in Processes :
              \/ pc'[q] = "idle"
              \/ task'[q] # "commit" /\ pc'[q] # "flush"
              \/ /\ pc[q] # "idle" /\ task'[q] = task[q] /\ version'[q] = version[q]
                 /\ pc'[q] \notin {"flush", "unlock"}
              \/ /\ pc'[q] = pc[q] /\ task'[q] = task[q]
                 /\ version'[q] = version[q] /\ todo'[q] = todo[q]
    PROVE  VisibleInv'
<1>1. AcknowledgedVisible'
  BY Zenon DEF VisibleInv, AcknowledgedVisible
<1>2. ASSUME NEW q \in Processes
      PROVE  VisibleAt(q)'
  <2>1. VisibleAt(q)
    BY Zenon DEF VisibleInv
  <2>2. CASE pc'[q] = "idle" \/ (task'[q] # "commit" /\ pc'[q] # "flush")
    BY <2>2, Zenon DEF VisibleAt
  <2>3. CASE /\ pc[q] # "idle" /\ task'[q] = task[q] /\ version'[q] = version[q]
             /\ pc'[q] \notin {"flush", "unlock"}
    BY <2>1, <2>3, Zenon DEF VisibleAt
  <2>4. CASE /\ pc'[q] = pc[q] /\ task'[q] = task[q]
             /\ version'[q] = version[q] /\ todo'[q] = todo[q]
    BY <2>1, <2>4, Zenon DEF VisibleAt
  <2> QED
    BY <2>2, <2>3, <2>4, Zenon
<1> QED
  BY <1>1, <1>2, Zenon DEF VisibleInv

(* A step of the only commit: nobody else is at a commit. *)
LEMMA VisibleCommit ==
    ASSUME VisibleInv, QuietInv, SoleCommitter, NEW p \in Committers,
           \A q \in Processes \ {p} : pc'[q] = pc[q] /\ task'[q] = task[q],
           AcknowledgedVisible', VisibleAt(p)'
    PROVE  VisibleInv'
<1>1. ASSUME NEW q \in Processes \ {p}
      PROVE  VisibleAt(q)'
  <2>1. VisibleAt(q) /\ QuietAt(q)
    BY <1>1, Zenon DEF VisibleInv, QuietInv
  <2>2. ~ (pc[q] # "idle" /\ task[q] = "commit")
    BY <1>1, <2>1, Zenon DEF VisibleAt, SoleCommitter
  <2>3. pc[q] # "flush"
    BY <2>1, <2>2, Zenon DEF QuietAt
  <2> QED
    BY <1>1, <2>2, <2>3, Zenon DEF VisibleAt
<1> QED
  BY <1>1, Zenon DEF VisibleInv, Processes

LEMMA VisibleInduction ==
    ASSUME TypeInv, QuietInv, VisibleInv, SoleCommitter, [Next]_vars
    PROVE  VisibleInv'
<1> USE DEF disk, locals
<1>a. /\ pc \in [Processes -> Steps]
      /\ task \in [Processes -> Tasks]
      /\ todo \in [Processes -> SUBSET Files]
      /\ version \in [Processes -> 0 .. MaxCommits]
      /\ mounts \in [Mounts -> Image \cup {None}]
      /\ images \in [Ids -> Image]
      /\ acked \in Nat /\ begun \in Nat /\ acked <= begun
  BY DEF TypeInv, TypeOK
<1>b. \A p \in Processes : QuietAt(p) /\ VisibleAt(p)
  BY Zenon DEF QuietInv, VisibleInv
<1>c. \A f \in Files : ActiveMount[f] >= acked
  BY Zenon DEF VisibleInv, AcknowledgedVisible
<1>1. ASSUME NEW p \in Processes, Flush(p)
      PROVE  VisibleInv'
  <2>1. PICK f \in todo[p] :
             /\ todo' = [todo EXCEPT ![p] = @ \ {f}]
             /\ mounts' = [mounts EXCEPT ![record[p].mount][f] = version[p]]
             /\ pc[p] = "flush"
             /\ UNCHANGED << pc, task, version, mode, images, current, acked >>
    BY <1>1, Zenon DEF Flush
  <2>2. task[p] = "commit" /\ mode.mode = "legacy" /\ record[p] = mode
    BY <1>b, <2>1, Zenon DEF QuietAt
  <2>3. p \in Committers /\ version[p] >= acked
        /\ \A g \in Files \ todo[p] : ActiveMount[g] >= version[p]
    BY <1>b, <2>1, <2>2, Zenon DEF VisibleAt
  <2>4. mode.mount \in Mounts /\ mounts[mode.mount] \in Image
    BY <1>a, Zenon DEF TypeInv, TypeOK, MountsKept, ModeRecord
  <2>5. mounts'[mode.mount] = [mounts[mode.mount] EXCEPT ![f] = version[p]]
    BY <1>a, <2>1, <2>2, <2>4, Zenon
  <2>6. ActiveMount \in Image /\ ActiveMount' = [ActiveMount EXCEPT ![f] = version[p]]
    BY <2>1, <2>2, <2>4, <2>5, Zenon DEF ActiveMount
  <2>7. \A g \in Files : ActiveMount'[g] = IF g = f THEN version[p] ELSE ActiveMount[g]
    BY <2>6, Zenon DEF Image
  <2>8. AcknowledgedVisible'
    BY <1>c, <2>1, <2>3, <2>7, Zenon DEF AcknowledgedVisible
  <2>9. version[p] >= version[p] /\ todo'[p] = todo[p] \ {f}
    BY <1>a, <2>1
  <2>10. VisibleAt(p)'
    BY <2>1, <2>3, <2>7, <2>9, Zenon DEF VisibleAt
  <2> QED
    BY <2>1, <2>3, <2>8, <2>10, VisibleCommit, Zenon
<1>2. ASSUME NEW p \in Processes, Store(p)
      PROVE  VisibleInv'
  <2>1. /\ current' = last + 1 /\ last < MaxGenerations
        /\ images' = [images EXCEPT ![last + 1] = [f \in Files |-> version[p]]]
        /\ pc[p] = "store" /\ Goto(p, "unlock")
        /\ UNCHANGED << task, version, todo, mode, mounts, acked >>
    BY <1>2, Zenon DEF Store, StoreImage
  <2>2. task[p] = "commit" /\ mode.mode = "segmented"
    BY <1>b, <2>1, Zenon DEF QuietAt
  <2>3. p \in Committers /\ version[p] >= acked
    BY <1>b, <2>1, <2>2, Zenon DEF VisibleAt
  <2>4. last + 1 \in Ids
    <3>1. last \in 0 .. MaxGenerations
      BY Zenon DEF TypeInv, TypeOK
    <3> QED
      BY <2>1, <3>1, ControlAssumption DEF Ids
  <2>5. images'[current'] = [f \in Files |-> version[p]]
    BY <1>a, <2>1, <2>4, Zenon
  <2>6. ActiveMount' = [f \in Files |-> version[p]]
    BY <2>1, <2>2, <2>5, Zenon DEF ActiveMount
  <2>7. \A f \in Files : ActiveMount'[f] = version[p]
    BY <2>6, Zenon
  <2>8. AcknowledgedVisible'
    BY <2>1, <2>3, <2>7, Zenon DEF AcknowledgedVisible
  <2>9. version[p] >= version[p] /\ pc'[p] = "unlock"
    BY <1>a, <2>1 DEF Goto
  <2>10. VisibleAt(p)'
    BY <2>1, <2>3, <2>7, <2>9, Zenon DEF VisibleAt
  <2> QED
    BY <1>a, <2>1, <2>3, <2>8, <2>10, VisibleCommit, Zenon DEF Goto
<1>3. ASSUME NEW p \in Committers, CommitBegin(p)
      PROVE  VisibleInv'
  <2>0. p \in Processes
    BY Zenon DEF Processes
  <2>1. /\ pc' = [pc EXCEPT ![p] = IF mode.mode = "legacy" THEN "flush" ELSE "status"]
        /\ task' = [task EXCEPT ![p] = "commit"]
        /\ version' = [version EXCEPT ![p] = begun + 1]
        /\ todo' = [todo EXCEPT ![p] = Files]
        /\ UNCHANGED << mode, mounts, images, current, acked >>
    BY <1>3, Zenon DEF CommitBegin, Begin, Goto
  <2>2. ActiveMount' = ActiveMount
    BY <2>1, Zenon DEF ActiveMount
  <2>3. AcknowledgedVisible'
    BY <1>c, <2>1, <2>2, Zenon DEF AcknowledgedVisible
  <2>4. pc'[p] # "unlock" /\ todo'[p] = Files /\ version'[p] >= acked
    BY <1>a, <2>0, <2>1
  <2>5. VisibleAt(p)'
    BY <2>1, <2>4, Zenon DEF VisibleAt
  <2> QED
    BY <1>a, <2>0, <2>1, <2>3, <2>5, VisibleCommit, Zenon
<1>4. ASSUME NEW p \in Processes, Return(p)
      PROVE  VisibleInv'
  <2>1. /\ pc' = [pc EXCEPT ![p] = "idle"] /\ task' = [task EXCEPT ![p] = "none"]
        /\ version' = [version EXCEPT ![p] = 0] /\ todo' = [todo EXCEPT ![p] = {}]
        /\ pc[p] = "unlock" \/ (pc[p] = "flush" /\ todo[p] = {})
        /\ acked' = IF task[p] = "commit" THEN version[p] ELSE acked
        /\ UNCHANGED << mode, mounts, images, current >>
    BY <1>4, Zenon DEF Return, Abandon, Stop, Goto
  <2>2. ActiveMount' = ActiveMount
    BY <2>1, Zenon DEF ActiveMount
  <2>3. CASE task[p] = "commit"
    <3>1. p \in Committers /\ \A f \in Files : ActiveMount[f] >= version[p]
      BY <1>b, <2>1, <2>3, Zenon DEF VisibleAt
    <3>2. AcknowledgedVisible'
      BY <2>1, <2>2, <2>3, <3>1, Zenon DEF AcknowledgedVisible
    <3>3. VisibleAt(p)'
      BY <1>a, <2>1, Zenon DEF VisibleAt
    <3> QED
      BY <1>a, <2>1, <3>1, <3>2, <3>3, VisibleCommit, Zenon
  <2>4. CASE task[p] # "commit"
    BY <1>a, <2>1, <2>2, <2>4, VisibleStep, Zenon
  <2> QED
    BY <2>3, <2>4, Zenon
<1>5. ASSUME NEW p \in Processes, QualifyBegin(p) \/ ActivateBegin(p) \/ RollbackBegin(p)
      PROVE  /\ acked' = acked
             /\ \A q \in Processes :
                  \/ task'[q] # "commit" /\ pc'[q] # "flush"
                  \/ /\ pc'[q] = pc[q] /\ task'[q] = task[q]
                     /\ version'[q] = version[q] /\ todo'[q] = todo[q]
  BY <1>5, <1>a, Zenon DEF QualifyBegin, ActivateBegin, RollbackBegin, Begin, Goto
<1>6. ASSUME NEW p \in Processes,
             \/ ReadStatus(p) \/ TakeLock(p) \/ Snapshot(p) \/ Copy(p) \/ Archive(p)
             \/ CheckSource(p) \/ Compare(p) \/ WriteReceipt(p) \/ Repoint(p) \/ Revalidate(p)
             \/ Materialize(p) \/ Raise(p) \/ Crash(p)
      PROVE  /\ acked' = acked
             /\ \A q \in Processes :
                  \/ pc'[q] = "idle"
                  \/ /\ pc[q] # "idle" /\ task'[q] = task[q] /\ version'[q] = version[q]
                     /\ pc'[q] \notin {"flush", "unlock"}
                  \/ /\ pc'[q] = pc[q] /\ task'[q] = task[q]
                     /\ version'[q] = version[q] /\ todo'[q] = todo[q]
  <2>1. CASE Stop(p)
    <3>1. acked' = acked
      BY <1>6, Zenon DEF ReadStatus, TakeLock, Snapshot, Copy, Archive, CheckSource, Compare,
                  WriteReceipt, Repoint, Revalidate, Materialize, Raise, Crash
    <3> QED
      BY <1>a, <2>1, <3>1, Zenon DEF Stop, Goto
  <2>2. CASE ~ Stop(p)
    <3>1. /\ pc[p] # "idle"
          /\ UNCHANGED << task, version, todo, acked >>
          /\ \E step \in Steps \ {"flush", "unlock"} : Goto(p, step)
      BY <1>6, <2>2, Zenon
         DEF ReadStatus, TakeLock, Snapshot, Copy, Archive, CheckSource, Compare,
                  WriteReceipt, Repoint, Revalidate, Materialize, Raise, Crash, Abandon, Steps
    <3> QED
      BY <1>a, <3>1, Zenon DEF Goto
  <2> QED
    BY <2>1, <2>2, Zenon
<1>7. ASSUME NEW p \in Processes, PublishMode(p)
      PROVE  /\ acked' = acked
             /\ \A q \in Processes :
                  \/ task'[q] # "commit" /\ pc'[q] # "flush"
                  \/ /\ pc'[q] = pc[q] /\ task'[q] = task[q]
                     /\ version'[q] = version[q] /\ todo'[q] = todo[q]
  <2>1. task[p] # "commit"
    BY <1>7, <1>b, Zenon DEF PublishMode, QuietAt
  <2> QED
    BY <1>7, <1>a, <2>1, Zenon DEF PublishMode, Goto
<1>8. CASE RemoveOrphan \/ UNCHANGED vars
  <2>1. UNCHANGED << pc, task, version, todo, mode, mounts, images, current, acked >>
    BY <1>8, Zenon DEF RemoveOrphan, vars
  <2> QED
    BY <2>1, VisibleStep, Zenon DEF ActiveMount
<1>9. CASE ActiveMount' = ActiveMount
  BY <1>3, <1>4, <1>5, <1>6, <1>7, <1>8, <1>9, <1>1, <1>2, VisibleStep, Zenon DEF Next, Processes
<1> QED
  BY <1>1, <1>2, <1>9, ActiveStep, Zenon

(* Where activation and rollback run alone and the program commits one     *)
(* image after another, what active_mount yields holds every commit that   *)
(* has returned and status() finds what it demands, across qualifications, *)
(* activations, rollbacks, exceptions and crashes.                         *)
THEOREM CommitsRemainVisible ==
    ASSUME Quiescent, SoleCommitter PROVE Spec => []CommitsStayVisible
<1>1. Init => TypeInv /\ QuietInv /\ VisibleInv
  BY InitTypes, InitQuiet, InitVisible, Zenon
<1>2. TypeInv /\ QuietInv /\ VisibleInv /\ [Next]_vars => TypeInv' /\ QuietInv' /\ VisibleInv'
  BY TypesInduction, QuietInduction, VisibleInduction, Zenon
<1>3. TypeInv /\ QuietInv /\ VisibleInv => CommitsStayVisible
  BY Zenon DEF TypeInv, QuietInv, VisibleInv, CommitsStayVisible
<1> QED
  BY <1>1, <1>2, <1>3, PTL DEF Spec

=============================================================================
