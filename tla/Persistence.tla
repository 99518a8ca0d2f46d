---------------------------- MODULE Persistence -----------------------------
(***************************************************************************)
(* The .tds file of one directory node: TDSWriter, TDSReader, the loading  *)
(* of TDSPersistence and its lazy entries (tds_persistence.py).            *)
(*                                                                         *)
(* A flush freezes the entries, writes them to a shadow file, renames it   *)
(* over the data file, and then does the same with the sidecar that holds  *)
(* the hash and the codec of every entry.  All flushes of a node use the   *)
(* same two temporary names.  A reader maps the data file and accepts a    *)
(* sidecar with the time stamp and the size of the data.                   *)
(*                                                                         *)
(* A datum is a number, given out once.  A time stamp is the number of the *)
(* flush, and the content of a file is the time stamp of the snapshot it   *)
(* holds, with a flag for bytes of an older content left behind its end.   *)
(* A file made by flush e is the inode e, whatever is written to it later. *)
(***************************************************************************)
EXTENDS Integers, SequencesExt

CONSTANTS
    Flushers,    \* threads that flush the node
    Names,       \* names of entries of the node itself, "top"
    SubNames,    \* names of entries of its child directory, "sub"
    MaxData,     \* bound: data written in a behaviour
    MaxFlushes,  \* bound: flushes that reach the disk
    MaxFaults    \* bound: crashes and I/O errors

ASSUME PersistenceAssumption ==
    /\ MaxData \in Nat
    /\ MaxFlushes \in Nat
    /\ MaxFaults \in Nat

VARIABLES
    mem,      \* the entries of the two directories in memory
    data,     \* data given out so far
    snaps,    \* the snapshot of every flush: sequence of SnapshotSlot
    path,     \* the inode each file name leads to, 0 if there is none
    file,     \* the content of each data inode
    side,     \* the content of each sidecar inode
    job,      \* what each flusher is doing
    reader,   \* the TDSReader
    opening,  \* the TDSReader under construction: open, reload or load_node
    batch,    \* the read_many in progress
    lock,     \* who holds TDSReader._lock: "none", "reload" or "batch"
    faults,   \* crashes and I/O errors so far
    split,    \* has a flush stopped between its two renames?
    overlap   \* have two flushes run at once?

memory == << mem, data >>
disk == << path, file, side >>
reading == << reader, opening, batch, lock >>
history == << faults, split, overlap >>
vars == << memory, snaps, disk, job, reading, history >>

Keys == ({"top"} \X Names) \cup ({"sub"} \X SubNames)
ShortName(key) == key[2]
Epochs == 1 .. MaxFlushes

(* Every second datum is stored compressed with a codec that is not the    *)
(* default one; data differ in length.                                     *)
CodecOf(d) == IF d % 2 = 0 THEN "lz" ELSE ""
LengthOf(d) == 1 + ((d \div 2) % 2)

Missing == 0    \* no entry, no hash
Lazy == -1      \* a _LazyEntry that has not been read
Failed == -2    \* a _LazyEntry whose data is the TDSResult of a failed read
Garbage == -3   \* bytes that are no entry

Absent == [data |-> Missing, hash |-> Missing, codec |-> ""]
Entry(d) == [data |-> d, hash |-> d, codec |-> CodecOf(d)]
LazyEntry(hash, codec) == [data |-> Lazy, hash |-> hash, codec |-> codec]

Empty == [epoch |-> 0, tail |-> FALSE]
Idle == [pc |-> "idle", kind |-> "node", slots |-> << >>, epoch |-> 0, fd |-> 0]
Closed == [open |-> FALSE, lazy |-> FALSE, inode |-> 0, epoch |-> 0, meta |-> 0]
NotOpening == [pc |-> "idle", purpose |-> "open", inode |-> 0, epoch |-> 0]
NoBatch == [pc |-> "idle", todo |-> {}, got |-> {}]

Init ==
    /\ mem = [k \in Keys |-> Absent]
    /\ data = 0
    /\ snaps = << >>
    /\ path = [p \in {"data", "shadow", "meta", "metatmp"} |-> 0]
    /\ file = [e \in Epochs |-> Empty]
    /\ side = [e \in Epochs |-> Empty]
    /\ job = [f \in Flushers |-> Idle]
    /\ reader = Closed
    /\ opening = NotOpening
    /\ batch = NoBatch
    /\ lock = "none"
    /\ faults = 0
    /\ split = FALSE
    /\ overlap = FALSE

-----------------------------------------------------------------------------
(* Files.                                                                  *)

(* The bytes a snapshot takes: its payloads and a record of the index for  *)
(* each.  The sidecar grows with its entries, one per short name.          *)
Size(e) ==
    LET upto[i \in 0 .. Len(snaps[e])] ==
            IF i = 0 THEN 0 ELSE upto[i - 1] + LengthOf(snaps[e][i].value) + 1
    IN  upto[Len(snaps[e])]

Offset(e, i) ==
    LET upto[j \in 0 .. i - 1] ==
            IF j = 0 THEN 0 ELSE upto[j - 1] + LengthOf(snaps[e][j].value)
    IN  upto[i - 1]

SideSize(e) == Cardinality({ShortName(snaps[e][i].key) : i \in 1 .. Len(snaps[e])})

(* The content of a file after snapshot e is written from its start: what  *)
(* was longer keeps its end.                                               *)
Written(e, old, shorter) ==
    [epoch |-> e, tail |-> old.epoch # 0 /\ (old.tail \/ shorter)]

(* The sidecar entry of a short name: the last slot of that name wins.     *)
SideEntry(e, name) ==
    LET named == {i \in 1 .. Len(snaps[e]) : ShortName(snaps[e][i].key) = name}
    IN  snaps[e][CHOOSE i \in named : \A j \in named : j <= i]

SideNames(e) == {ShortName(snaps[e][i].key) : i \in 1 .. Len(snaps[e])}

(* _meta_for_slot: by slot key, or else by short name.                     *)
MetaFor(e, key) ==
    IF ShortName(key) \in SideNames(e)
    THEN [hash |-> SideEntry(e, ShortName(key)).hash,
          codec |-> SideEntry(e, ShortName(key)).codec]
    ELSE [hash |-> Missing, codec |-> ""]

(* _parse_file_header: there is a whole header.                            *)
HeaderParses(content) == content.epoch # 0

(* SlotIndex.from_bytes: the declared records fill the index to its end.   *)
IndexParses(content) == ~ content.tail

(* _open up to the sidecar.                                                *)
DataOpens(content) == HeaderParses(content) /\ IndexParses(content)

(* _load_sidecar: it parses and has the epoch and size of the data.        *)
SidecarOk(inode, epoch) ==
    /\ inode # 0
    /\ side[inode].epoch = epoch
    /\ ~ side[inode].tail

(* _stored_payload: the bytes now at the place the i-th slot of snapshot   *)
(* epoch had, in a file with the given content.                            *)
StoredPayload(content, epoch, i) ==
    IF content.epoch = epoch THEN snaps[epoch][i].value
    ELSE LET there == {j \in 1 .. Len(snaps[content.epoch]) :
                         /\ Offset(content.epoch, j) = Offset(epoch, i)
                         /\ LengthOf(snaps[content.epoch][j].value) =
                                LengthOf(snaps[epoch][i].value)}
         IN  IF there = {} THEN Garbage
             ELSE snaps[content.epoch][CHOOSE j \in there : TRUE].value

(* _plain_payload_for_hash: the index says whether to decompress.  A       *)
(* payload taken for another kind of payload is neither.                   *)
PlainPayload(stored, slot, codec) ==
    IF CodecOf(slot.value) # ""
    THEN IF CodecOf(stored) = codec /\ stored # Garbage THEN stored ELSE Failed
    ELSE IF CodecOf(stored) = "" THEN stored ELSE Garbage

(* _validate_payload_hash: nothing is compared without a hash.             *)
HashAgrees(plain, hash) == hash = Missing \/ hash = plain

(* _read_snapshot. *)
ReadSnapshot(stored, slot, codec, hash) ==
    LET plain == PlainPayload(stored, slot, codec)
    IN  IF HashAgrees(plain, hash) THEN plain ELSE Failed

(* read(name, codec, content_hash) of the i-th slot of an open reader.     *)
ReadWith(r, i, codec, hash) ==
    ReadSnapshot(StoredPayload(file[r.inode], r.epoch, i), snaps[r.epoch][i], codec, hash)

(* read(name): codec and hash are those of the reader's sidecar.           *)
Read(r, i) ==
    LET meta == MetaFor(r.meta, snaps[r.epoch][i].key)
    IN  ReadWith(r, i, meta.codec, meta.hash)

-----------------------------------------------------------------------------
(* Entries in memory.                                                      *)

(* The slot a lazy entry of that name reads: load_node puts the entries of *)
(* the index one after the other under their short names.                  *)
LazySlot(name) ==
    LET slots == snaps[reader.epoch]
    IN  CHOOSE i \in 1 .. Len(slots) :
            /\ ShortName(slots[i].key) = name
            /\ \A j \in i + 1 .. Len(slots) : ShortName(slots[j].key) # name

(* entry.data of a _LazyEntry: a closed reader raises and leaves it lazy.  *)
Loaded(k) ==
    IF mem[k].data = Lazy /\ reader.lazy
    THEN [mem[k] EXCEPT !.data =
              ReadWith(reader, LazySlot(ShortName(k)), mem[k].codec, mem[k].hash)]
    ELSE mem[k]

(* _write_entry and delete_entry, under the directory's lock.              *)
WriteEntry(k) ==
    /\ data < MaxData
    /\ data' = data + 1
    /\ mem' = [mem EXCEPT ![k] = Entry(data + 1)]
    /\ UNCHANGED << snaps, disk, job, reading, history >>

DeleteEntry(k) ==
    /\ mem[k] # Absent
    /\ mem' = [mem EXCEPT ![k] = Absent]
    /\ UNCHANGED << data, snaps, disk, job, reading, history >>

ReadEntry(k) ==
    /\ mem[k].data = Lazy
    /\ reader.lazy
    /\ mem' = [mem EXCEPT ![k] = Loaded(k)]
    /\ UNCHANGED << data, snaps, disk, job, reading, history >>

-----------------------------------------------------------------------------
(* TDSWriter: write (kind "tree", or "node" without recursion) and         *)
(* write_parallel ("node").                                                *)

KeysOf(node) ==
    LET names == IF node = "top" THEN Names ELSE SubNames
    IN  [i \in 1 .. Cardinality(names) |-> << node, SetToSeq(names)[i] >>]

(* _snapshot_slot of every entry of a node, with the hash and codec the    *)
(* entry carries.                                                          *)
SnapshotSlots(node) ==
    LET present == SelectSeq(KeysOf(node), LAMBDA k : mem[k] # Absent)
    IN  [i \in 1 .. Len(present) |->
            [key |-> present[i], value |-> Loaded(present[i]).data,
             hash |-> mem[present[i]].hash, codec |-> mem[present[i]].codec]]

(* Serialising a TDSResult, or an entry whose reader is closed, raises.    *)
Serialises(slots) == \A i \in 1 .. Len(slots) : slots[i].value > 0

ReadAll(node) == [k \in Keys |-> IF k[1] = node THEN Loaded(k) ELSE mem[k]]

(* _finalise, up to the shadow file: the header takes the time stamp.      *)
Finalise(f, kind, slots) ==
    /\ snaps' = Append(snaps, slots)
    /\ job' = [job EXCEPT ![f] = [pc |-> "open", kind |-> kind, slots |-> << >>,
                                  epoch |-> Len(snaps) + 1, fd |-> 0]]

Walking == {f \in Flushers : job[f].pc = "walk"}

(* The walk of the node itself.                                            *)
Flush(f, kind) ==
    /\ job[f] = Idle
    /\ Len(snaps) + Cardinality(Walking) < MaxFlushes
    /\ mem' = ReadAll("top")
    /\ overlap' = (overlap \/ \E g \in Flushers : job[g] # Idle)
    /\ IF ~ Serialises(SnapshotSlots("top"))
       THEN UNCHANGED << snaps, job >>
       ELSE IF kind = "node" THEN Finalise(f, kind, SnapshotSlots("top"))
       ELSE /\ job' = [job EXCEPT ![f] = [Idle EXCEPT !.pc = "walk", !.kind = kind,
                                               !.slots = SnapshotSlots("top")]]
            /\ UNCHANGED snaps
    /\ UNCHANGED << data, disk, reading, faults, split >>

(* The walk of the child directory, under a lock of its own.               *)
WalkChild(f) ==
    /\ job[f].pc = "walk"
    /\ Finalise(f, job[f].kind, job[f].slots \o SnapshotSlots("sub"))
    /\ UNCHANGED << memory, disk, reading, history >>

Goto(f, pc) == job' = [job EXCEPT ![f].pc = pc]

(* Mutant: the temporary file is opened without O_TRUNC.                   *)
OpenUntruncated(f, name, contents, next) ==
    LET inode == IF path[name] = 0 THEN job[f].epoch ELSE path[name]
    IN  /\ path' = [path EXCEPT ![name] = inode]
        /\ UNCHANGED contents
        /\ job' = [job EXCEPT ![f].pc = next, ![f].fd = inode]

(* open_binary_fd with O_CREAT and O_TRUNC, on a name that another flusher *)
(* may have open: the content of its inode, and the descriptor.            *)
OpenTemporary(f, name, contents, next) ==
    LET inode == IF path[name] = 0 THEN job[f].epoch ELSE path[name]
    IN  /\ path' = [path EXCEPT ![name] = inode]
        /\ contents' = [contents EXCEPT ![inode] = Empty]
        /\ job' = [job EXCEPT ![f].pc = next, ![f].fd = inode]

(* The data: written and synced, renamed, and the directory synced.        *)
OpenShadow(f) ==
    /\ job[f].pc = "open"
    /\ OpenTemporary(f, "shadow", file, "write")
    /\ UNCHANGED << memory, snaps, side, reading, history >>

WriteShadow(f) ==
    /\ job[f].pc = "write"
    /\ file' = [file EXCEPT ![job[f].fd] = Written(job[f].epoch, @, Size(job[f].epoch) < Size(@.epoch))]
    /\ Goto(f, "replace")
    /\ UNCHANGED << memory, snaps, path, side, reading, history >>

ReplaceData(f) ==
    /\ job[f].pc = "replace"
    /\ path.shadow # 0
    /\ path' = [path EXCEPT !.data = path.shadow, !.shadow = 0]
    /\ Goto(f, "mopen")
    /\ UNCHANGED << memory, snaps, file, side, reading, history >>

(* The sidecar, in the same way.                                           *)
OpenMeta(f) ==
    /\ job[f].pc = "mopen"
    /\ OpenTemporary(f, "metatmp", side, "mwrite")
    /\ UNCHANGED << memory, snaps, file, reading, history >>

WriteMeta(f) ==
    /\ job[f].pc = "mwrite"
    /\ side' = [side EXCEPT ![job[f].fd] = Written(job[f].epoch, @, SideSize(job[f].epoch) < SideSize(@.epoch))]
    /\ Goto(f, "mreplace")
    /\ UNCHANGED << memory, snaps, path, file, reading, history >>

ReplaceMeta(f) ==
    /\ job[f].pc = "mreplace"
    /\ path.metatmp # 0
    /\ path' = [path EXCEPT !.meta = path.metatmp, !.metatmp = 0]
    /\ job' = [job EXCEPT ![f] = Idle]
    /\ split' = FALSE
    /\ UNCHANGED << memory, snaps, file, side, reading, faults, overlap >>

DataSteps == {"open", "write", "replace"}
MetaSteps == {"mopen", "mwrite", "mreplace"}

(* An I/O error, or a rename whose temporary file another flusher renamed  *)
(* or removed: the handler removes the temporary name and raises.  A write *)
(* that fails may have written a part.                                     *)
Torn(e) == [epoch |-> e, tail |-> TRUE]

FailData(f) ==
    /\ job[f].pc \in DataSteps
    /\ IF job[f].pc = "replace" /\ path.shadow = 0 THEN UNCHANGED faults
       ELSE faults < MaxFaults /\ faults' = faults + 1
    /\ path' = [path EXCEPT !.shadow = 0]
    /\ IF job[f].pc = "write"
       THEN file' = [file EXCEPT ![job[f].fd] = Torn(job[f].epoch)]
       ELSE UNCHANGED file
    /\ job' = [job EXCEPT ![f] = Idle]
    /\ UNCHANGED << memory, snaps, side, reading, split, overlap >>

FailMeta(f) ==
    /\ job[f].pc \in MetaSteps
    /\ IF job[f].pc = "mreplace" /\ path.metatmp = 0 THEN UNCHANGED faults
       ELSE faults < MaxFaults /\ faults' = faults + 1
    /\ path' = [path EXCEPT !.metatmp = 0]
    /\ IF job[f].pc = "mwrite"
       THEN side' = [side EXCEPT ![job[f].fd] = Torn(job[f].epoch)]
       ELSE UNCHANGED side
    /\ job' = [job EXCEPT ![f] = Idle]
    /\ split' = TRUE
    /\ UNCHANGED << memory, snaps, file, reading, overlap >>

(* The process ends; the files stay as they are.                           *)
Crash ==
    /\ faults < MaxFaults
    /\ faults' = faults + 1
    /\ mem' = [k \in Keys |-> Absent]
    /\ job' = [f \in Flushers |-> Idle]
    /\ reader' = Closed
    /\ opening' = NotOpening
    /\ batch' = NoBatch
    /\ lock' = "none"
    /\ split' = (split \/ \E f \in Flushers : job[f].pc \in MetaSteps)
    /\ UNCHANGED << data, snaps, disk, overlap >>

-----------------------------------------------------------------------------
(* TDSReader.                                                              *)

(* The construction of a reader: a new one, the replacement that reload    *)
(* validates under the reader's lock, or the one of load_node.             *)
MayOpen(purpose) ==
    CASE purpose = "open" -> ~ reader.open
      [] purpose = "reload" -> reader.open /\ ~ reader.lazy /\ lock = "none"
      [] purpose = "load" -> ~ reader.open /\ \A k \in Keys : mem[k] = Absent

OpenData(purpose) ==
    /\ opening.pc = "idle"
    /\ MayOpen(purpose)
    /\ path.data # 0
    /\ DataOpens(file[path.data])
    /\ opening' = [pc |-> "sidecar", purpose |-> purpose, inode |-> path.data,
                   epoch |-> file[path.data].epoch]
    /\ lock' = IF purpose = "reload" THEN "reload" ELSE lock
    /\ UNCHANGED << memory, snaps, disk, job, reader, batch, history >>

(* The new reader takes the place of the old one, whole.                   *)
Published ==
    [open |-> TRUE, lazy |-> opening.purpose = "load", inode |-> opening.inode,
     epoch |-> opening.epoch, meta |-> opening.epoch]

LoadSidecar ==
    /\ opening.pc = "sidecar"
    /\ IF SidecarOk(path.meta, opening.epoch)
       THEN /\ reader' = Published
            /\ opening' = IF opening.purpose = "load"
                          THEN [opening EXCEPT !.pc = "entries"] ELSE NotOpening
       ELSE /\ opening' = NotOpening
            /\ UNCHANGED reader
    /\ lock' = IF opening.purpose = "reload" THEN "none" ELSE lock
    /\ UNCHANGED << memory, snaps, disk, job, batch, history >>

(* The rest of load_node: it reads the sidecar file again, whatever is     *)
(* there now, and makes a lazy entry for every record of the index.        *)
SecondSidecar ==
    IF path.meta # 0 /\ side[path.meta].epoch # 0 /\ ~ side[path.meta].tail
    THEN side[path.meta].epoch ELSE 0

LazyFor(name) ==
    IF SecondSidecar # 0 /\ name \in SideNames(SecondSidecar)
    THEN LazyEntry(SideEntry(SecondSidecar, name).hash, SideEntry(SecondSidecar, name).codec)
    ELSE LazyEntry(Missing, "")

LoadEntries ==
    /\ opening.pc = "entries"
    /\ mem' = [k \in Keys |-> IF k[1] = "top" /\ k[2] \in SideNames(reader.epoch)
                              THEN LazyFor(k[2]) ELSE mem[k]]
    /\ opening' = NotOpening
    /\ UNCHANGED << data, snaps, disk, job, reader, batch, lock, history >>

(* close, close_reader, unmount.                                           *)
CloseReader ==
    /\ reader.open
    /\ opening.pc # "entries"
    /\ lock = "none"
    /\ reader' = Closed
    /\ UNCHANGED << memory, snaps, disk, job, opening, batch, lock, history >>

(* Mutant: read_many binds without the lock.                               *)
ReadManyUnlocked(keys) ==
    /\ batch.pc = "idle"
    /\ reader.open
    /\ lock = "none"
    /\ batch' = [pc |-> "bind", todo |-> keys, got |-> {}]
    /\ UNCHANGED << memory, snaps, disk, job, reader, opening, lock, history >>

(* read_many: every record, metadata entry and payload is bound under the  *)
(* lock; a name that is not in the index raises.                           *)
ReadMany(keys) ==
    /\ batch.pc = "idle"
    /\ reader.open
    /\ lock = "none"
    /\ batch' = [pc |-> "bind", todo |-> keys, got |-> {}]
    /\ lock' = "batch"
    /\ UNCHANGED << memory, snaps, disk, job, reader, opening, history >>

Bind(k) ==
    /\ batch.pc = "bind"
    /\ k \in batch.todo
    /\ LET at == {i \in 1 .. IF reader.open THEN Len(snaps[reader.epoch]) ELSE 0 :
                     snaps[reader.epoch][i].key = k}
       IN  batch' = IF at = {} THEN [NoBatch EXCEPT !.pc = "done"]
                    ELSE [batch EXCEPT
                            !.todo = @ \ {k},
                            !.got = @ \cup {[key |-> k, epoch |-> reader.epoch,
                                             value |-> Read(reader, CHOOSE i \in at : TRUE)]}]
    /\ UNCHANGED << memory, snaps, disk, job, reader, opening, lock, history >>

FinishBatch ==
    /\ batch.pc \in {"bind", "done"}
    /\ batch.todo = {}
    /\ batch' = NoBatch
    /\ lock' = "none"
    /\ UNCHANGED << memory, snaps, disk, job, reader, opening, history >>

FlushStep(f) ==
    \/ \E kind \in {"node", "tree"} : Flush(f, kind)
    \/ WalkChild(f)
    \/ OpenShadow(f) \/ WriteShadow(f) \/ ReplaceData(f) \/ FailData(f)
    \/ OpenMeta(f) \/ WriteMeta(f) \/ ReplaceMeta(f) \/ FailMeta(f)

Next ==
    \/ \E k \in Keys : WriteEntry(k) \/ DeleteEntry(k) \/ ReadEntry(k) \/ Bind(k)
    \/ \E f \in Flushers : FlushStep(f)
    \/ Crash
    \/ \E purpose \in {"open", "reload", "load"} : OpenData(purpose)
    \/ LoadSidecar
    \/ LoadEntries
    \/ CloseReader
    \/ ReadMany(Keys)
    \/ FinishBatch

Spec == Init /\ [][Next]_vars

-----------------------------------------------------------------------------
(* Properties.                                                             *)

EntryType == [data : -3 .. MaxData, hash : 0 .. MaxData, codec : {"", "lz"}]
ContentType == [epoch : 0 .. MaxFlushes, tail : BOOLEAN]

(* Every variable has its type. *)
TypeOK ==
    /\ mem \in [Keys -> EntryType]
    /\ data \in 0 .. MaxData
    /\ Len(snaps) <= MaxFlushes
    /\ path \in [{"data", "shadow", "meta", "metatmp"} -> 0 .. MaxFlushes]
    /\ file \in [Epochs -> ContentType]
    /\ side \in [Epochs -> ContentType]
    /\ reader.epoch <= Len(snaps)
    /\ lock \in {"none", "reload", "batch"}
    /\ lock = "reload" => opening.pc = "sidecar" /\ opening.purpose = "reload"

(* What a reader returns is what the entry held in the snapshot the reader *)
(* has open, or a failure: also when another flusher writes into the file  *)
(* that is mapped, and for entries that share a short name.                *)
ReadsTrue ==
    reader.open =>
        \A i \in 1 .. Len(snaps[reader.epoch]) :
            Read(reader, i) \in {snaps[reader.epoch][i].value, Failed}

(* Entries of one snapshot with the same short name share a sidecar entry. *)
Distinct(e) == SideSize(e) = Len(snaps[e])

ReadsBack(r) ==
    \A i \in 1 .. Len(snaps[r.epoch]) : Read(r, i) = snaps[r.epoch][i].value

(* Once flushed, the node can be read back, entry for entry, at any time   *)
(* but between the two renames of a flush, as long as no flush has stopped *)
(* there and flushes run one at a time.  In particular a flush that fails  *)
(* or is cut short before it renames the data leaves the last one in place *)
(* and what it left behind does not disturb the next.                      *)
SnapshotReadable ==
    /\ path.data # 0
    /\ ~ split
    /\ ~ overlap
    /\ \A f \in Flushers : job[f].pc \notin MetaSteps
    => LET content == file[path.data]
       IN  /\ DataOpens(content)
           /\ SidecarOk(path.meta, content.epoch)
           /\ Distinct(content.epoch) =>
                 ReadsBack([inode |-> path.data, epoch |-> content.epoch,
                            meta |-> content.epoch])

(* A reader that is open reads every entry of its snapshot, whatever is    *)
(* flushed meanwhile, and also after a reload that failed, as long as      *)
(* flushes run one at a time.                                              *)
OpenReaderReads ==
    reader.open /\ ~ overlap /\ Distinct(reader.epoch) => ReadsBack(reader)

(* What one read_many returns comes from one snapshot, although the reader *)
(* can be reloaded by another thread.                                      *)
BatchOneSnapshot == \A x, y \in batch.got : x.epoch = y.epoch

(* A lazy entry of load_node yields the datum its slot had in the snapshot *)
(* that was loaded.  It fails only if the sidecar was replaced between the *)
(* two times it was read, as long as flushes run one at a time.            *)
LazyReadsBack ==
    ~ overlap /\ reader.lazy /\ Distinct(reader.epoch) =>
        \A k \in Keys : mem[k].data = Lazy =>
            LET slot == snaps[reader.epoch][LazySlot(ShortName(k))]
            IN  \/ Loaded(k).data = slot.value
                \/ Loaded(k).data = Failed /\ mem[k].hash # slot.hash

(* Readers return what was flushed, whatever is flushed or reloaded beside *)
(* them: one by one, in batches and through lazy entries.                  *)
ReadersTrue ==
    TypeOK /\ ReadsTrue /\ OpenReaderReads /\ BatchOneSnapshot /\ LazyReadsBack

(* The writer's promise: a node that has been flushed can be opened again  *)
(* whenever no flush is at work, with the old snapshot or the new one. TLC *)
(* refutes it: a flush that stops between its two renames leaves the new   *)
(* data under the old sidecar (_finalise).                                 *)
FlushAtomic ==
    path.data # 0 /\ (\A f \in Flushers : job[f] = Idle)
        => DataOpens(file[path.data]) /\ SidecarOk(path.meta, file[path.data].epoch)

=============================================================================
