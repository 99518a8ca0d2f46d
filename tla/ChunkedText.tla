---------------------------- MODULE ChunkedText -----------------------------
(***************************************************************************)
(* Texts stored in chunks: write_text_chunked, read_text and delete_entry  *)
(* of a directory (tds_filesystem.py).  Each entry is written, read and    *)
(* deleted under the directory's lock; the operations here are sequences   *)
(* of those, and are not atomic.  A text is the sequence of its chunks, a  *)
(* manifest holds what its checksums and its hash determine, the text.     *)
(***************************************************************************)
EXTENDS Integers, SequencesExt

CONSTANTS
    Threads,
    Names,          \* the names of texts
    Texts,          \* sequences of one or more chunks
    MaxWrites,      \* how many writes and deletions are called
    MaxFaults       \* how many of the entry writes may raise

VARIABLES
    hash,           \* the adler32 of each name
    manifest,       \* the entry of each name: the text of its manifest
    chunk,          \* the chunk entries, by prefix and index
    op,             \* what each thread is doing
    writes, faults, \* counters
    written,        \* every text a manifest of the name was ever stored for
    clash,          \* have two writes shared a prefix?
    partial,        \* the prefixes a failed write has touched
    removed         \* the prefixes whose manifest was deleted

TextVars == << hash, manifest, chunk, op, writes, faults, written, clash, partial, removed >>

Absent == << >>         \* no manifest
Gone == "gone"          \* no chunk
MaxParts == 2
NoOp == [kind |-> "idle"]

TextInit ==
    /\ hash \in [Names -> {1, 2}]
    /\ manifest = [n \in Names |-> Absent]
    /\ chunk = [c \in {1, 2} \X (1 .. MaxParts) |-> Gone]
    /\ op = [t \in Threads |-> NoOp]
    /\ writes = 0
    /\ faults = 0
    /\ written = [n \in Names |-> {}]
    /\ clash = FALSE
    /\ partial = {}
    /\ removed = {}

(* _text_chunk_prefix: names of one adler32 share their chunk names. *)
Prefix(name) == hash[name]

Now(t, new) == op' = [op EXCEPT ![t] = new]

Writing(t) == op[t].kind = "write"

-----------------------------------------------------------------------------
(* write_text_chunked: is the name taken? *)
Write(t, name, text, overwrite) ==
    /\ op[t] = NoOp
    /\ writes < MaxWrites
    /\ writes' = writes + 1
    /\ IF manifest[name] # Absent /\ ~ overwrite THEN Now(t, [kind |-> "refused"])
       ELSE Now(t, [kind |-> "write", name |-> name, text |-> text, prior |-> 0, i |-> 1,
                     at |-> IF manifest[name] = Absent THEN "chunk" ELSE "prior"])
    /\ clash' = (clash \/ \/ \E u \in Threads : Writing(u) /\ hash[op[u].name] = hash[name]
                          \/ \E n \in Names \ {name} :
                                 hash[n] = hash[name] /\ written[n] # {})
    /\ UNCHANGED << hash, manifest, chunk, faults, written, partial, removed >>

(* Mutant: the chunks of the manifest to be replaced are left where they are. *)
LeavePrior(name) == 0

(* The chunks of the manifest that is to be replaced. *)
PriorChunks(name) == Len(manifest[name])

(* Reading it fails when the name was deleted meanwhile, and is given up. *)
ReadPrior(t) ==
    /\ Writing(t)
    /\ op[t].at = "prior"
    /\ LET prior == PriorChunks(op[t].name)
       IN  Now(t, [op[t] EXCEPT !.at = IF prior = 0 THEN "chunk" ELSE "delete",
                                 !.prior = prior])
    /\ UNCHANGED << hash, manifest, chunk, writes, faults, written, clash, partial, removed >>

(* Each chunk is deleted, when it is there. *)
DeletePrior(t) ==
    /\ Writing(t)
    /\ op[t].at = "delete"
    /\ chunk' = [chunk EXCEPT ![Prefix(op[t].name), op[t].i] = Gone]
    /\ Now(t, IF op[t].i = op[t].prior THEN [op[t] EXCEPT !.at = "chunk", !.i = 1]
               ELSE [op[t] EXCEPT !.i = @ + 1])
    /\ UNCHANGED << hash, manifest, writes, faults, written, clash, partial, removed >>

WriteChunk(t) ==
    /\ Writing(t)
    /\ op[t].at = "chunk"
    /\ LET i == op[t].i
       IN  /\ chunk' = [chunk EXCEPT ![Prefix(op[t].name), i] = op[t].text[i]]
           /\ Now(t, [op[t] EXCEPT !.at = IF i = Len(op[t].text) THEN "manifest" ELSE @,
                                    !.i = i + 1])
    /\ UNCHANGED << hash, manifest, writes, faults, written, clash, partial, removed >>

WriteManifest(t) ==
    /\ Writing(t)
    /\ op[t].at = "manifest"
    /\ manifest' = [manifest EXCEPT ![op[t].name] = op[t].text]
    /\ written' = [written EXCEPT ![op[t].name] = @ \cup {op[t].text}]
    /\ Now(t, NoOp)
    /\ UNCHANGED << hash, chunk, writes, faults, clash, partial, removed >>

(* _write_entry raises: the call returns where it is. *)
FailWrite(t) ==
    /\ Writing(t)
    /\ op[t].at \in {"chunk", "manifest"}
    /\ faults < MaxFaults
    /\ faults' = faults + 1
    /\ partial' = partial \cup {hash[op[t].name]}
    /\ Now(t, NoOp)
    /\ UNCHANGED << hash, manifest, chunk, writes, written, clash, removed >>

(* delete_entry of a text deletes its manifest, and leaves its chunks. *)
DeleteText(name) ==
    /\ manifest[name] # Absent
    /\ writes < MaxWrites
    /\ writes' = writes + 1
    /\ manifest' = [manifest EXCEPT ![name] = Absent]
    /\ removed' = removed \cup {hash[name]}
    /\ UNCHANGED << hash, chunk, op, faults, written, clash, partial >>

-----------------------------------------------------------------------------
(* read_text: the manifest, each chunk, then the checksums and the hash. *)

ReadManifest(t, name) ==
    /\ op[t] = NoOp
    /\ manifest[name] # Absent
    /\ Now(t, [kind |-> "read", name |-> name, expected |-> manifest[name], parts |-> << >>])
    /\ UNCHANGED << hash, manifest, chunk, writes, faults, written, clash, partial, removed >>

ReadChunk(t) ==
    /\ op[t].kind = "read"
    /\ Len(op[t].parts) < Len(op[t].expected)
    /\ LET part == chunk[Prefix(op[t].name), Len(op[t].parts) + 1]
       IN  IF part = Gone THEN Now(t, [kind |-> "failed"])
           ELSE Now(t, [op[t] EXCEPT !.parts = Append(@, part)])
    /\ UNCHANGED << hash, manifest, chunk, writes, faults, written, clash, partial, removed >>

Verified(expected, parts) == parts = expected

FinishRead(t) ==
    /\ op[t].kind = "read"
    /\ Len(op[t].parts) = Len(op[t].expected)
    /\ Now(t, IF Verified(op[t].expected, op[t].parts)
               THEN [kind |-> "text", name |-> op[t].name, text |-> op[t].parts]
               ELSE [kind |-> "failed"])
    /\ UNCHANGED << hash, manifest, chunk, writes, faults, written, clash, partial, removed >>

ReturnText(t) ==
    /\ op[t].kind \in {"text", "failed", "refused"}
    /\ Now(t, NoOp)
    /\ UNCHANGED << hash, manifest, chunk, writes, faults, written, clash, partial, removed >>

TextNext ==
    \/ \E name \in Names : DeleteText(name)
    \/ \E t \in Threads :
           \/ \E name \in Names, text \in Texts, overwrite \in BOOLEAN :
                  Write(t, name, text, overwrite)
           \/ \E name \in Names : ReadManifest(t, name)
           \/ ReadPrior(t) \/ DeletePrior(t)
           \/ WriteChunk(t) \/ WriteManifest(t) \/ FailWrite(t)
           \/ ReadChunk(t) \/ FinishRead(t) \/ ReturnText(t)

-----------------------------------------------------------------------------
(* A read returns a text that was written whole under that name, never     *)
(* the chunks of two, whatever writes of the same or of a colliding name   *)
(* run beside it (read_text, tds_filesystem.py).                           *)
ReadsWhole ==
    \A t \in Threads : op[t].kind = "text" => op[t].text \in written[op[t].name]

Quiet(name) ==
    /\ ~ clash
    /\ hash[name] \notin partial
    /\ \A t \in Threads : Writing(t) => hash[op[t].name] # hash[name]

(* Once the writes of a name have returned, and none failed or met another *)
(* of its prefix, its chunks are those of its manifest and no others: the  *)
(* last text reads back, and a shorter text leaves nothing of a longer one *)
(* behind unless delete_entry took its manifest away (write_text_chunked). *)
StoredReadsBack ==
    \A name \in Names :
        Quiet(name) /\ manifest[name] # Absent =>
            \A i \in 1 .. MaxParts :
                IF i <= Len(manifest[name])
                THEN chunk[hash[name], i] = manifest[name][i]
                ELSE hash[name] \in removed \/ chunk[hash[name], i] = Gone

(* A chunked text is read whole or not at all, and reads back once its     *)
(* writes have returned.                                                   *)
TextsKept == ReadsWhole /\ StoredReadsBack

=============================================================================
