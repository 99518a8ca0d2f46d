----------------------------- MODULE EntryIndex -----------------------------
(***************************************************************************)
(* The index of a directory's entries (index.py) over either of its two    *)
(* backends: the native table with its Python-side entry tables            *)
(* (backends/native_index.py), or the sharded Python one                   *)
(* (backends/python_index.py).  A third use, "raw", is a caller of the     *)
(* native table itself, who may ask for particular handles.                *)
(*                                                                         *)
(* A directory changes its index only while it holds its own lock, so      *)
(* there is one writer; it reads its index without that lock, so a reader  *)
(* runs beside the writer.  The native table and the entry tables have     *)
(* different locks: each operation is one step per lock it takes.          *)
(***************************************************************************)
EXTENDS NativeIndex, FiniteSets, TLC

CONSTANTS
    Entries,        \* what is stored under a key
    Default,        \* what a read of a missing key answers
    InitialCapacity,\* of the native table, 1024 in the code
    Shards,         \* number of shards of the Python backend
    Batches,        \* the lists of keys that put_many and pop_many are given
    Requests,       \* the handles a raw caller asks for; 0 asks for any
    Faults,         \* the allocations that may be refused, besides "none"
    Blobs,          \* the byte strings of packed lookups
    Cuts            \* the lists of spans packed lookups cut them into

VARIABLES
    backend,    \* "native", "python" or "raw", EntryIndex._impl
    table,      \* the native table
    maps,       \* [shard -> its map from keys to handles], Python backend
    nextHandle, \* Python backend
    values,     \* map from handles to entries
    keys,       \* map from handles to keys, native backend
    held,       \* what a raw caller keeps: a reference with its key, or a
                \* frozen copy with the contents it was taken from
    failed,     \* an allocation was refused to the writer
    w,          \* the writer
    r,          \* the reader
    contents    \* auxiliary: the map from keys to handles that the index is

vars == << backend, table, maps, nextHandle, values, keys, held, failed, w, r,
           contents >>

EmptyMap == [x \in {} |-> x]

Without(f, S) == [x \in DOMAIN f \ S |-> f[x]]

ShardOf(k) == Hash[k] % Shards

Idle == [pc |-> "idle"]

Nothing == [kind |-> "nothing"]

Init ==
    /\ backend \in {"native", "python", "raw"}
    /\ table = NewTable(InitialCapacity)
    /\ maps = [s \in 0..(Shards - 1) |-> EmptyMap]
    /\ nextHandle = 1
    /\ values = EmptyMap
    /\ keys = EmptyMap
    /\ held = Nothing
    /\ failed = FALSE
    /\ w = Idle
    /\ r = Idle
    /\ contents = EmptyMap

-----------------------------------------------------------------------------
(* The handle of a key, by either backend, for a native table t and maps m *)
(* of the shards: get_handle.                                              *)
HandleIn(t, m, k) ==
    IF backend # "python" THEN Lookup(t, k)
    ELSE IF k \in DOMAIN m[ShardOf(k)] THEN m[ShardOf(k)][k] ELSE -1

(* What contains answers TRUE for, and __len__ counts.                     *)
PresentIn(t, m) == {k \in Keys : HandleIn(t, m, k) > 0}

Present == PresentIn(table, maps)

ContentsOf(t, m) == [k \in PresentIn(t, m) |-> HandleIn(t, m, k)]

EntryAt(vals, h) == IF h \in DOMAIN vals THEN vals[h] ELSE Default

(* What a read of k that happened at once would answer.                    *)
ValueNow(k) == EntryAt(values, HandleIn(table, maps, k))

(* A reader under way notes what could have been answered meanwhile: seen  *)
(* and stable are auxiliary to the specification.                          *)
Witnessed ==
    r' = IF r.pc = "value"
         THEN [r EXCEPT !.seen =
                  @ \cup {EntryAt(values', HandleIn(table', maps', r.key))}]
         ELSE IF r.pc = "listing"
         THEN [r EXCEPT !.stable = @ \cap PresentIn(table', maps')]
         ELSE r

-----------------------------------------------------------------------------
(* The writer, native backend.  put and put_many: the native table first,  *)
(* then the entry tables under the backend's lock.  put is the batch of    *)
(* one.  A batch that fails raises, and leaves what it had put.            *)

Store(ks, es, hs) ==
    LET last(h) == Max({i \in 1..Len(hs) : hs[i] = h})
    IN  /\ values' = [h \in ToSet(hs) |-> es[last(h)]] @@ values
        /\ keys' = [h \in ToSet(hs) |-> ks[last(h)]] @@ keys

PutNative(ks, es, fails) ==
    /\ backend = "native"
    /\ w.pc = "idle"
    /\ \E put \in {PutHandles(table, ks, fails)} :
           /\ table' = put.t
           /\ w' = IF put.rc = "ok"
                   THEN [pc |-> "store", ks |-> ks, es |-> es, hs |-> put.handles]
                   ELSE Idle
           /\ failed' = (failed \/ put.rc # "ok")
    /\ UNCHANGED << backend, maps, nextHandle, values, keys, held >>
    /\ Witnessed

PutStore ==
    /\ w.pc = "store"
    /\ Store(w.ks, w.es, w.hs)
    /\ w' = Idle
    /\ UNCHANGED << backend, table, maps, nextHandle, held, failed >>
    /\ Witnessed

(* pop and pop_many. *)
PopNative(ks) ==
    /\ backend = "native"
    /\ w.pc = "idle"
    /\ \E pop \in {PopHandles(table, ks)} :
       LET found == {h \in ToSet(pop.handles) : h > 0}
       IN  /\ table' = pop.t
           /\ w' = IF found = {} THEN Idle ELSE [pc |-> "drop", hs |-> found]
    /\ UNCHANGED << backend, maps, nextHandle, values, keys, held, failed >>
    /\ Witnessed

PopDrop ==
    /\ w.pc = "drop"
    /\ values' = Without(values, w.hs)
    /\ keys' = Without(keys, w.hs)
    /\ w' = Idle
    /\ UNCHANGED << backend, table, maps, nextHandle, held, failed >>
    /\ Witnessed

-----------------------------------------------------------------------------
(* The writer, Python backend: put and pop hold the shard's lock and the   *)
(* lock of the entry table together.  The facade's put_many and pop_many   *)
(* are loops over them.                                                    *)

PutPython(k, e) ==
    LET s == ShardOf(k)
        h == IF k \in DOMAIN maps[s] THEN maps[s][k] ELSE nextHandle
    IN  /\ backend = "python"
        /\ nextHandle' = IF h = nextHandle THEN nextHandle + 1 ELSE nextHandle
        /\ nextHandle' <= MaxHandle
        /\ maps' = [maps EXCEPT ![s] = (k :> h) @@ @]
        /\ values' = (h :> e) @@ values
        /\ UNCHANGED << backend, table, keys, held, failed, w >>
        /\ Witnessed

PopPython(k) ==
    LET s == ShardOf(k)
    IN  /\ backend = "python"
        /\ k \in DOMAIN maps[s]
        /\ maps' = [maps EXCEPT ![s] = Without(@, {k})]
        /\ values' = Without(values, {maps[s][k]})
        /\ UNCHANGED << backend, table, nextHandle, keys, held, failed, w >>
        /\ Witnessed

-----------------------------------------------------------------------------
(* A caller of the native table itself.                                    *)

PutRaw(k, requested, fail) ==
    /\ backend = "raw"
    /\ table' = PutHandle(table, k, requested, fail).t
    /\ UNCHANGED << backend, maps, nextHandle, values, keys, held, failed, w, r >>

PopRaw(k) ==
    /\ backend = "raw"
    /\ table' = PopHandle(table, k).t
    /\ UNCHANGED << backend, maps, nextHandle, values, keys, held, failed, w, r >>

(* freeze, and get_handle_ref of a key that is there.                      *)
FreezeHandles ==
    /\ backend = "raw"
    /\ held = Nothing
    /\ held' = [kind |-> "frozen", view |-> Freeze(table), of |-> contents]
    /\ UNCHANGED << backend, table, maps, nextHandle, values, keys, failed, w, r >>

TakeRef(k) ==
    /\ backend = "raw"
    /\ held = Nothing
    /\ GetHandleRef(table, k) # NoRef
    /\ held' = [kind |-> "ref", to |-> GetHandleRef(table, k), key |-> k]
    /\ UNCHANGED << backend, table, maps, nextHandle, values, keys, failed, w, r >>

-----------------------------------------------------------------------------
(* Mutant: the reader looks the handle up in the Python key map. *)
GetHandleFromKeys(k) ==
    /\ backend # "raw"
    /\ r.pc = "idle"
    /\ \E h \in DOMAIN keys :
          /\ keys[h] = k
          /\ r' = [pc |-> "value", key |-> k, h |-> h, seen |-> {ValueNow(k)}]
    /\ UNCHANGED << backend, table, maps, nextHandle, values, keys, held, failed, w >>

(* The reader.  get: the handle, then the entry under another lock.        *)

GetHandle(k) ==
    /\ backend # "raw"
    /\ r.pc = "idle"
    /\ r' = IF HandleIn(table, maps, k) < 0 THEN Idle
            ELSE [pc |-> "value", key |-> k, h |-> HandleIn(table, maps, k),
                  seen |-> {ValueNow(k)}]
    /\ UNCHANGED << backend, table, maps, nextHandle, values, keys, held, failed, w >>

GetValue ==
    /\ r.pc = "value"
    /\ r' = [pc |-> "read", answer |-> EntryAt(values, r.h), seen |-> r.seen]
    /\ UNCHANGED << backend, table, maps, nextHandle, values, keys, held, failed, w >>

(* items of the Python backend: shard by shard, then the entries.  items   *)
(* of the native one is a single step under the backend's lock.            *)
ListFirst ==
    /\ backend = "python"
    /\ r.pc = "idle"
    /\ r' = [pc |-> "listing", shard |-> 0, pairs |-> EmptyMap, stable |-> Present]
    /\ UNCHANGED << backend, table, maps, nextHandle, values, keys, held, failed, w >>

ListShard ==
    /\ r.pc = "listing"
    /\ r.shard < Shards
    /\ r' = [r EXCEPT !.shard = @ + 1, !.pairs = maps[r.shard] @@ @]
    /\ UNCHANGED << backend, table, maps, nextHandle, values, keys, held, failed, w >>

ListValues ==
    /\ r.pc = "listing"
    /\ r.shard = Shards
    /\ LET there == {k \in DOMAIN r.pairs : r.pairs[k] \in DOMAIN values}
       IN  r' = [pc |-> "listed", stable |-> r.stable,
                 items |-> [k \in there |-> values[r.pairs[k]]],
                 now |-> [k \in Present |-> ValueNow(k)]]
    /\ UNCHANGED << backend, table, maps, nextHandle, values, keys, held, failed, w >>

Return ==
    /\ r.pc \in {"read", "listed"}
    /\ r' = Idle
    /\ UNCHANGED << backend, table, maps, nextHandle, values, keys, held, failed, w >>

(* At most one allocation of a batch is refused: it ends there.            *)
Refusals(n) ==
    {[i \in 1..n |-> "none"]} \cup
    {[i \in 1..n |-> IF i = j THEN f ELSE "none"] : j \in 1..n, f \in Faults}

Step ==
    \/ \E ks \in Batches :
          \/ \E es \in [1..Len(ks) -> Entries], fails \in Refusals(Len(ks)) :
                PutNative(ks, es, fails)
          \/ PopNative(ks)
    \/ PutStore
    \/ PopDrop
    \/ \E k \in UNION {ToSet(ks) : ks \in Batches} :
          \/ \E e \in Entries : PutPython(k, e)
          \/ PopPython(k)
          \/ GetHandle(k)
    \/ \E k \in Keys :
          \/ \E h \in Requests, f \in Faults \cup {"none"} : PutRaw(k, h, f)
          \/ PopRaw(k)
          \/ TakeRef(k)
    \/ FreezeHandles
    \/ GetValue
    \/ ListFirst
    \/ ListShard
    \/ ListValues
    \/ Return

Next == Step /\ contents' = ContentsOf(table', maps')

Spec == Init /\ [][Next]_vars

-----------------------------------------------------------------------------
(* Every variable has its type; capacities are the doublings of the least. *)
TypeOK ==
    /\ backend \in {"native", "python", "raw"}
    /\ table.cap \in {MinCapacity * 2^j : j \in 0..MaxEpoch}
    /\ DOMAIN table.slots = 0..(table.cap - 1)
    /\ table.next \in 0..MaxHandle
    /\ table.epoch \in 1..MaxEpoch
    /\ DOMAIN values \subseteq 1..MaxHandle
    /\ nextHandle \in 1..MaxHandle
    /\ w.pc \in {"idle", "store", "drop"}
    /\ r.pc \in {"idle", "value", "read", "listing", "listed"}

(* The bookkeeping of the table: the counters count, and an empty slot     *)
(* always remains, which is what ends the search for a missing key         *)
(* (find_slot, maybe_resize).                                              *)
CountersTrue ==
    LET tombs == {i \in DOMAIN table.slots : table.slots[i].state = "tomb"}
    IN  /\ table.size = Cardinality(Full(table))
        /\ table.tombstones = Cardinality(tombs)
        /\ \E i \in DOMAIN table.slots : table.slots[i].state = "empty"

HM == INSTANCE HandleMap WITH
          map <- contents,
          mark <- IF backend = "python" THEN nextHandle
                  ELSE IF table.next = 0 THEN MaxHandle + 1 ELSE table.next

(* Through collisions, pops and doublings, the table remains a map: no key *)
(* is lost from its probe sequence or stored twice, a key keeps its handle *)
(* until it is popped, and no handle is given out again.  Both backends    *)
(* implement HandleMap (put, pop, maybe_resize, python_index.py).          *)
ImplementsHandleMap == HM!Spec

(* Every stored key is where a search ends, and the probe length that the  *)
(* statistics report for it is the number of slots that search visits.     *)
ProbesTrue ==
    \A i \in Full(table) :
        LET k == table.slots[i].key
        IN  /\ FindSlot(table.slots, table.cap, k) = [found |-> TRUE, idx |-> i]
            /\ ProbeAt(Hash[k], table.cap, ProbeLength(table, i) - 1) = i

(* A key always fits the block it was copied to, however blocks went       *)
(* through the pool: the comment in key_alloc calls it the TinyKeyPool     *)
(* safety invariant.                                                       *)
KeysFitBlocks ==
    \A i \in Full(table) : Len(table.slots[i].key) <= table.slots[i].block

(* A reference resolves to its handle exactly as long as its key has kept  *)
(* it and the table has not been rehashed: never to another key's, and     *)
(* never to nothing while both hold (resolve_handle_ref).                  *)
RefsTrue ==
    held.kind = "ref" =>
        LET answer == ResolveHandleRef(table, held.to)
        IN  IF Lookup(table, held.key) = held.to.handle /\ table.epoch = held.to.epoch
            THEN answer = held.to.handle
            ELSE answer = -1

FrozenAnswer(k) == IF k \in DOMAIN held.of THEN held.of[k] ELSE -1

PackedTrue(blob, ks) ==
    LET offsets == [i \in 1..(Len(ks) + 1) |-> Len(FlattenSeq(SubSeq(ks, 1, i - 1)))]
        answer == LookupPacked(held.view, blob, offsets, Len(ks))
    IN  IF FlattenSeq(ks) = blob /\ \A i \in 1..Len(ks) : ks[i] # << >>
        THEN answer = [i \in 1..Len(ks) |-> FrozenAnswer(ks[i])]
        ELSE Len(FlattenSeq(ks)) = Len(blob) \/ answer = << "refused" >>

(* A frozen copy answers what the index held when it was taken, whatever   *)
(* was put, popped or rehashed since; and a packed lookup is accepted      *)
(* exactly when its offsets cut the bytes into non-empty keys, and then    *)
(* answers for each what a lookup of that key alone answers (freeze,       *)
(* lookup_packed).                                                         *)
FrozenIsSnapshot ==
    held.kind = "frozen" =>
        /\ \A k \in Keys : FrozenLookup(held.view, k) = FrozenAnswer(k)
        /\ \A blob \in Blobs, ks \in Cuts : PackedTrue(blob, ks)

(* A read beside the writer answers what the key held at some moment of    *)
(* the read, though it takes the handle and the entry under two different  *)
(* locks: never an entry of another key, or one that was replaced before   *)
(* the read began (get of both backends).                                  *)
ReadsLinearizable == r.pc = "read" => r.answer \in r.seen

(* A listing of the Python backend, which visits its shards one at a time, *)
(* shows only entries that are there when it ends, and misses no key that  *)
(* was there all along.                                                    *)
ListingTrue ==
    r.pc = "listed" =>
        /\ r.stable \subseteq DOMAIN r.items
        /\ \A k \in DOMAIN r.items : k \in DOMAIN r.now /\ r.items[k] = r.now[k]

(* Between operations the entry tables hold no entry of a key that is not  *)
(* in the native table, and unless an allocation failed they hold one for  *)
(* every key that is: keys(), items() and contains() agree.                *)
EntryTablesAgree ==
    backend = "native" /\ w.pc = "idle" =>
        /\ DOMAIN keys = DOMAIN values
        /\ \A h \in DOMAIN keys : Lookup(table, keys[h]) = h
        /\ ~ failed => \A k \in Present : Lookup(table, k) \in DOMAIN values

(* The table of the native index and what was taken from it are true to    *)
(* its contents: counters, probe lengths, key blocks, references and       *)
(* frozen copies.                                                          *)
TableTrue ==
    /\ TypeOK /\ CountersTrue /\ ProbesTrue /\ KeysFitBlocks
    /\ RefsTrue /\ FrozenIsSnapshot

(* Beside one writer, reads and listings answer for entries that were      *)
(* there, and between operations the native table and the entry tables     *)
(* agree (both backends).                                                  *)
EntriesTrue == ReadsLinearizable /\ ListingTrue /\ EntryTablesAgree

(* The handle table and the entries behind it are true at every step.      *)
IndexTrue == TableTrue /\ EntriesTrue

=============================================================================
