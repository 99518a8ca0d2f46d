--------------------------- MODULE CsvTransaction ---------------------------
(***************************************************************************)
(* Imports (importer.py) and staged transactions (transaction.py) of one   *)
(* CSV.  A transaction stages the six core artifacts under keys of its     *)
(* own, copies them to the final keys one by one, validates the final set  *)
(* and then deletes the staged one; recovery looks at the final set first. *)
(*                                                                         *)
(* Several threads may work on one directory: every write and every delete *)
(* loop is a step, and any write may fail, MaxFaults times.                *)
(***************************************************************************)
EXTENDS CsvArtifacts

CONSTANTS
    Callers,   \* threads that import and run transactions
    Txs,       \* transaction ids
    NoTx,      \* no transaction
    MaxFaults, \* bound: writes that fail
    MaxCalls   \* bound: calls that write

ASSUME TransactionAssumption ==
    /\ NoTx \notin Txs
    /\ MaxFaults \in Nat
    /\ MaxCalls \in Nat

VARIABLES
    final,    \* the final core artifacts
    staged,   \* the staged core artifacts of each transaction
    reported, \* the transactions with a staged transaction_report
    latest,   \* status of the latest_transaction_report
    call,     \* what each caller is doing, or what its last call returned
    calls,    \* calls begun so far
    faults    \* writes that failed so far

directory == << final, staged, reported, latest >>

vars == << directory, call, calls, faults >>

(* Statuses with which CSVArtifactTransactionReport.ok may hold. *)
OkStatuses == {"staged", "valid", "committed", "complete", "empty",
               "recovered_complete", "recoverable_staged"}

Results == OkStatuses \cup
    {"none", "imported", "raised", "invalid", "partial_staged",
     "partial_final", "partial_unrecoverable"}

Calls == [op : {"none", "import", "begin", "commit"}, at : 1 .. 7,
          content : Contents \cup {NoArtifact}, tx : Txs \cup {NoTx},
          overwrite : BOOLEAN, cleanup : BOOLEAN, result : Results]

Returned(result) ==
    [op |-> "none", at |-> 1, content |-> NoArtifact, tx |-> NoTx,
     overwrite |-> FALSE, cleanup |-> FALSE, result |-> result]

(* Artifacts are those of some content; a call is at one of its writes.    *)
TypeOK ==
    /\ final \in ArtifactSets
    /\ staged \in [Txs -> ArtifactSets]
    /\ reported \subseteq Txs
    /\ latest \in {"none", "committed", "partial_final"}
    /\ call \in [Callers -> Calls]
    /\ calls \in 0 .. MaxCalls
    /\ faults \in 0 .. MaxFaults

Init ==
    /\ final = EmptySet
    /\ staged = [t \in Txs |-> EmptySet]
    /\ reported = {}
    /\ latest = "none"
    /\ call = [p \in Callers |-> Returned("none")]
    /\ calls = 0
    /\ faults = 0

-----------------------------------------------------------------------------
(* What validate_csv_artifact_transaction finds in a staged set. *)
StagedFindings(s) ==
    LET m == s["manifest"]
    IN  IF Present(s) # CoreNames THEN {"staged_artifacts_missing"}
        ELSE Holding([staged_raw_sha256_mismatch |-> ~ RawDigestOk(s),
                      staged_dialect_manifest_mismatch |->
                          Source[s["dialect"]].dialect # Source[m].dialect,
                      staged_row_offsets_source_hash_mismatch |->
                          s["row_offsets"] # m,
                      staged_row_offsets_row_count_mismatch |->
                          Source[s["row_offsets"]].offsets # Source[m].rows,
                      staged_content_hashes_raw_sha256_mismatch |->
                          s["content_hashes"] # m,
                      staged_import_report_raw_sha256_mismatch |->
                          s["import_report"] # m])

StagedValid(s) == StagedFindings(s) = {}

(* detect_partial_csv_artifacts. *)
DetectPartial(s) ==
    IF Present(s) = {} THEN "empty"
    ELSE IF Present(s) # CoreNames THEN "partial"
    ELSE IF Valid(s) THEN "complete"
    ELSE "partial_final"

-----------------------------------------------------------------------------
(* A write of the TDS directory succeeds when the key is free or the call  *)
(* overwrites; it can fail for reasons of the directory's own.             *)

CanWrite(s, n, overwrite) == s[n] = NoArtifact \/ overwrite

Fault == faults < MaxFaults /\ faults' = faults + 1

Idle(p) == call[p].op = "none" /\ calls < MaxCalls

(* The call goes on with the next artifact. *)
Advance(p) == call' = [call EXCEPT ![p].at = @ + 1]

Return(p, result) == call' = [call EXCEPT ![p] = Returned(result)]

Enter(p, op, c, t, ow, cl) ==
    call' = [call EXCEPT ![p] = [op |-> op, at |-> 1, content |-> c, tx |-> t,
                                 overwrite |-> ow, cleanup |-> cl,
                                 result |-> "none"]]

-----------------------------------------------------------------------------
(* import_csv_bytes. *)

Import(p, c, ow) ==
    /\ Idle(p)
    /\ Enter(p, "import", c, NoTx, ow, FALSE)
    /\ calls' = calls + 1
    /\ UNCHANGED << directory, faults >>

ImportWrite(p) ==
    LET n == CoreOrder[call[p].at]
    IN  /\ call[p].op = "import"
        /\ \/ /\ CanWrite(final, n, call[p].overwrite)
              /\ final' = [final EXCEPT ![n] = call[p].content]
              /\ IF call[p].at < Len(CoreOrder) THEN Advance(p)
                 ELSE Return(p, "imported")
              /\ UNCHANGED faults
           \/ /\ \/ ~ CanWrite(final, n, call[p].overwrite) /\ UNCHANGED faults
                 \/ Fault
              /\ Return(p, "raised")
              /\ UNCHANGED final
        /\ UNCHANGED << staged, reported, latest, calls >>

-----------------------------------------------------------------------------
(* begin_csv_artifact_transaction. *)

(* _delete_present: the staged artifacts and the staged report. *)
DeletePresent(t) ==
    /\ staged' = [staged EXCEPT ![t] = EmptySet]
    /\ reported' = reported \ {t}

BeginTransaction(p, c, t, ow, cl) ==
    /\ Idle(p)
    /\ calls' = calls + 1
    /\ IF Present(final) # {} /\ ~ ow
       THEN Return(p, "invalid") /\ UNCHANGED << staged, reported >>
       ELSE /\ Enter(p, "begin", c, t, ow, cl)
            /\ IF cl THEN DeletePresent(t) ELSE UNCHANGED << staged, reported >>
    /\ UNCHANGED << final, latest, faults >>

StageWrite(p) ==
    LET n == CoreOrder[call[p].at]
        t == call[p].tx
        ow == call[p].overwrite \/ call[p].cleanup
    IN  /\ call[p].op = "begin"
        /\ call[p].at <= Len(CoreOrder)
        /\ \/ /\ CanWrite(staged[t], n, ow)
              /\ staged' = [staged EXCEPT ![t][n] = call[p].content]
              /\ Advance(p)
              /\ UNCHANGED faults
           \/ /\ \/ ~ CanWrite(staged[t], n, ow) /\ UNCHANGED faults
                 \/ Fault
              /\ Return(p, "partial_staged")
              /\ UNCHANGED staged
        /\ UNCHANGED << final, reported, latest, calls >>

StageReport(p) ==
    /\ call[p].op = "begin"
    /\ call[p].at > Len(CoreOrder)
    /\ \/ /\ reported' = reported \cup {call[p].tx}
          /\ Return(p, "staged")
          /\ UNCHANGED faults
       \/ /\ Fault
          /\ Return(p, "partial_staged")
          /\ UNCHANGED reported
    /\ UNCHANGED << final, staged, latest, calls >>

-----------------------------------------------------------------------------
(* commit_csv_artifact_transaction. *)

CommitEntry(p, t, ow, cl) ==
    IF \/ ~ StagedValid(staged[t])
       \/ Present(final) # {} /\ ~ ow
    THEN Return(p, "invalid")
    ELSE Enter(p, "commit", NoArtifact, t, ow, cl)

CommitTransaction(p, t, ow, cl) ==
    /\ Idle(p)
    /\ calls' = calls + 1
    /\ CommitEntry(p, t, ow, cl)
    /\ UNCHANGED << directory, faults >>

(* Mutant: the staged set is deleted whatever the final validation says. *)
FinishAndClean(p, all, s, failed) ==
    LET status == IF all /\ Valid(s) THEN "committed" ELSE "partial_final"
    IN  /\ IF call[p].cleanup THEN DeletePresent(call[p].tx)
           ELSE UNCHANGED << staged, reported >>
        /\ latest' = status
        /\ Return(p, status)
        /\ faults' = failed

(* The tail of the commit, once the copies are over: all says whether all  *)
(* six were copied, failed counts the writes that failed so far.  The      *)
(* report is written over the previous one; if that write fails the call   *)
(* raises, with the staged set already deleted.                            *)
FinishCommit(p, all, s, failed) ==
    LET status == IF all /\ Valid(s) THEN "committed" ELSE "partial_final"
    IN  /\ IF status = "committed" /\ call[p].cleanup
           THEN DeletePresent(call[p].tx)
           ELSE UNCHANGED << staged, reported >>
        /\ \/ /\ latest' = status
              /\ Return(p, status)
              /\ faults' = failed
           \/ /\ failed < MaxFaults
              /\ faults' = failed + 1
              /\ Return(p, "raised")
              /\ UNCHANGED latest

CommitCopy(p) ==
    LET n == CoreOrder[call[p].at]
        t == call[p].tx
    IN  /\ call[p].op = "commit"
        /\ call[p].at <= Len(CoreOrder)
        /\ staged[t][n] # NoArtifact
        /\ CanWrite(final, n, call[p].overwrite)
        /\ final' = [final EXCEPT ![n] = staged[t][n]]
        /\ Advance(p)
        /\ UNCHANGED << staged, reported, latest, calls, faults >>

CommitStop(p) ==
    LET n == CoreOrder[call[p].at]
        t == call[p].tx
    IN  /\ call[p].op = "commit"
        /\ call[p].at <= Len(CoreOrder)
        /\ \/ /\ \/ staged[t][n] = NoArtifact
                 \/ ~ CanWrite(final, n, call[p].overwrite)
              /\ FinishCommit(p, FALSE, final, faults)
           \/ /\ faults < MaxFaults
              /\ FinishCommit(p, FALSE, final, faults + 1)
        /\ UNCHANGED << final, calls >>

CommitDone(p) ==
    /\ call[p].op = "commit"
    /\ call[p].at > Len(CoreOrder)
    /\ FinishCommit(p, TRUE, final, faults)
    /\ UNCHANGED << final, calls >>

-----------------------------------------------------------------------------
(* recover_csv_artifact_transaction; commit says whether commit_staged is  *)
(* set.  A staged set is committed over whatever partial set there is.     *)
RecoverTransaction(p, t, commit, ow, cl) ==
    /\ Idle(p)
    /\ calls' = calls + 1
    /\ \/ /\ DetectPartial(final) = "complete"
          /\ IF cl THEN DeletePresent(t) ELSE UNCHANGED << staged, reported >>
          /\ Return(p, "recovered_complete")
       \/ /\ DetectPartial(final) # "complete"
          /\ \/ /\ ~ StagedValid(staged[t])
                /\ Return(p, "partial_unrecoverable")
             \/ /\ StagedValid(staged[t])
                /\ commit
                /\ CommitEntry(p, t, ow \/ Present(final) # {}, cl)
             \/ /\ StagedValid(staged[t])
                /\ ~ commit
                /\ Return(p, "recoverable_staged")
          /\ UNCHANGED << staged, reported >>
    /\ UNCHANGED << final, latest, faults >>

-----------------------------------------------------------------------------
Next ==
    \E p \in Callers :
        \/ \E c \in Contents, ow \in BOOLEAN : Import(p, c, ow)
        \/ ImportWrite(p)
        \/ \E c \in Contents, t \in Txs, ow \in BOOLEAN, cl \in BOOLEAN :
               BeginTransaction(p, c, t, ow, cl)
        \/ StageWrite(p)
        \/ StageReport(p)
        \/ \E t \in Txs, ow \in BOOLEAN, cl \in BOOLEAN :
               CommitTransaction(p, t, ow, cl)
        \/ CommitCopy(p)
        \/ CommitStop(p)
        \/ CommitDone(p)
        \/ \E t \in Txs, commit \in BOOLEAN, ow \in BOOLEAN, cl \in BOOLEAN :
               RecoverTransaction(p, t, commit, ow, cl)

Spec == Init /\ [][Next]_vars

-----------------------------------------------------------------------------
(* One source for the whole set.  Two sources may have the same dialect    *)
(* artifact; the byte scanner and csv.reader agree on the rows.            *)
Whole(s) ==
    \E c \in Contents :
        /\ \A n \in CoreNames \ {"dialect"} : s[n] = c
        /\ s["dialect"] # NoArtifact
        /\ Source[s["dialect"]].dialect = Source[c].dialect
        /\ Source[c].exact
        /\ Source[c].offsets = Source[c].rows

Exports(s) ==
    /\ CanExport(s)
    /\ ByteEquivalent(s)
    /\ CanonicalRows(s) = Source[s["manifest"]].rows
    /\ Reload(s).findings = {}

(* However imports, commits and recoveries of several threads interleave   *)
(* and fail, a final set that validate_csv_artifacts accepts (and so one   *)
(* that detect_partial_csv_artifacts calls complete) was derived from one  *)
(* source; it can be reloaded, its export is byte equivalent to the source *)
(* and the canonical export has the manifest's rows.                       *)
(* validate_csv_artifact_transaction makes fewer checks than the validator *)
(* of the final set, yet what it admits the final validation accepts:      *)
(* copying an admitted stage onto the final keys never ends in             *)
(* partial_final by itself.                                                *)
ValidatedIsWhole ==
    /\ TypeOK
    /\ Valid(final) => Whole(final) /\ Exports(final)
    /\ \A t \in Txs : StagedValid(staged[t]) => Valid(staged[t])

(* A staged set that could repair the final one is destroyed only by       *)
(* staging again under the same transaction id, or when the final set is   *)
(* whole: a commit that stops half way, or that copies over an interleaved *)
(* import, leaves what recovery needs.                                     *)
StagedKept ==
    [][\A t \in Txs :
          StagedValid(staged[t]) /\ ~ StagedValid(staged'[t]) =>
              \/ Valid(final')
              \/ \E p \in Callers : call'[p].op = "begin" /\ call'[p].tx = t]_vars

(* The docstring of recover_csv_artifact_transaction says that by default  *)
(* it is read-only. It does not hold: over a final set that is complete it *)
(* deletes the staged keys.                                                *)
DefaultRecoveryReadOnly ==
    [][\A p \in Callers, t \in Txs :
          RecoverTransaction(p, t, FALSE, FALSE, TRUE) =>
              UNCHANGED directory]_vars

=============================================================================
