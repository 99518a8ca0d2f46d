---------------------------- MODULE NativeIndex -----------------------------
(***************************************************************************)
(* The table of the native index (_native_index.c): open addressing with   *)
(* triangular probing, tombstones, doubling, monotonic handles, references *)
(* to slots, a pool for small keys, and frozen read-only copies.           *)
(*                                                                         *)
(* A table is a record, and an operation is an operator on it: every       *)
(* operation runs under the table's read-write lock.  Keys are sequences   *)
(* of bytes, because key lengths matter to the pool and key spans to the   *)
(* packed lookup.                                                          *)
(***************************************************************************)
EXTENDS Integers, Sequences, SequencesExt, FiniteSetsExt

CONSTANTS
    Keys,           \* the keys in use, non-empty sequences of bytes
    Hash,           \* [Keys -> Nat], fnv1a64
    MinCapacity,    \* the smallest capacity, 16 in the code
    BlockSize,      \* capacity of a pooled key block, 128 in the code
    MaxHandle,      \* INT64_MAX
    MaxGeneration,  \* UINT32_MAX
    MaxEpoch        \* UINT64_MAX

ASSUME NativeIndexAssumption ==
    /\ Hash \in [Keys -> Nat]
    /\ MinCapacity \in Nat \ {0}
    /\ \A k \in Keys : k # << >>

(* Slot.  block is the capacity of the allocation that key points to.      *)
EmptySlot == [state |-> "empty", key |-> << >>, handle |-> 0, gen |-> 0, block |-> 0]

Unused(cap) == [i \in 0..(cap - 1) |-> EmptySlot]

(* round_pow2_checked: the least doubling of the minimum that holds n.     *)
RoundPow2(n) == Min({c \in {MinCapacity * 2^j : j \in 0..n} : c >= n})

(* The slot a probe for hash h visits after p steps.                       *)
ProbeAt(h, cap, p) == (h + (p * (p + 1)) \div 2) % cap

(* find_slot stops at the first empty slot or the key's own, and a miss    *)
(* answers the first tombstone on the way, if there is one.                *)
(* path is the sequence of slots a probe may visit, stop the place of the  *)
(* one it stops at, or the length of the path plus one.                    *)
Holds(slot, key) == slot.state = "full" /\ slot.key = key

FoundAt(slots, path, stop, key) ==
    LET tomb == SelectInSubSeq(path, 1, stop - 1, LAMBDA i : slots[i].state = "tomb")
        found == stop <= Len(path) /\ Holds(slots[path[stop]], key)
    IN  [found |-> found,
         idx |-> IF ~ found /\ tomb # 0 THEN path[tomb]
                 ELSE IF stop <= Len(path) THEN path[stop] ELSE -1]

Along(slots, path, key) ==
    FoundAt(slots, path,
            Min({Len(path) + 1} \cup
                {p \in DOMAIN path : \/ slots[path[p]].state = "empty"
                                     \/ Holds(slots[path[p]], key)}),
            key)

FindSlot(slots, cap, key) ==
    Along(slots, [p \in 1..cap |-> ProbeAt(Hash[key], cap, p - 1)], key)

-----------------------------------------------------------------------------
(* The key pool: free is the stack of pooled blocks, by their capacities.  *)

(* key_alloc: a small key takes a pooled block, or a new one of the pool's *)
(* block size.                                                             *)
KeyAlloc(t, len) ==
    IF len > BlockSize THEN [t |-> t, block |-> len]
    ELSE IF t.free = << >> THEN [t |-> t, block |-> BlockSize]
    ELSE [t |-> [t EXCEPT !.free = Tail(@)], block |-> Head(t.free)]

(* key_free: it knows the key's length, not the block's capacity.          *)
KeyFree(t, slot) ==
    IF Len(slot.key) > BlockSize THEN t
    ELSE [t EXCEPT !.free = << slot.block >> \o @]

-----------------------------------------------------------------------------
(* NativeHandleIndex_new and NativeHandleIndex_init. *)
NewTable(capacity) ==
    [cap |-> RoundPow2(capacity), slots |-> Unused(RoundPow2(capacity)),
     size |-> 0, tombstones |-> 0, next |-> 1, epoch |-> 1, free |-> << >>]

(* The full slots of a table in index order, placed one by one in a fresh  *)
(* table of another capacity: the loop of resize_index and of freeze.      *)
Rehash(slots, cap, newcap) ==
    LET upto[i \in 0..cap] ==
            IF i = 0 THEN Unused(newcap)
            ELSE LET new == upto[i - 1]
                     slot == slots[i - 1]
                 IN  IF slot.state # "full" THEN new
                     ELSE [new EXCEPT ![FindSlot(new, newcap, slot.key).idx] = slot]
    IN  upto[cap]

(* maybe_resize and resize_index.  noMemory: the new table is refused.     *)
Threshold(cap) == (cap \div 10) * 7 + ((cap % 10) * 7 + 9) \div 10

Crowded(t) == t.size + t.tombstones >= Threshold(t.cap)

Resized(t) ==
    LET newcap == RoundPow2(2 * t.cap)
    IN  [t EXCEPT !.cap = newcap, !.slots = Rehash(t.slots, t.cap, newcap),
                  !.tombstones = 0, !.epoch = @ + 1]

MaybeResize(t, noMemory) ==
    IF ~ Crowded(t) THEN [t |-> t, rc |-> "ok"]
    ELSE IF t.epoch = MaxEpoch THEN [t |-> t, rc |-> "epoch exhausted"]
    ELSE IF noMemory THEN [t |-> t, rc |-> "no memory"]
    ELSE [t |-> Resized(t), rc |-> "ok"]

(* The handles.  next is 0 once the last handle is given out.              *)
After(handle) == IF handle = MaxHandle THEN 0 ELSE handle + 1

HandleInUse(t, handle) ==
    \E i \in DOMAIN t.slots : t.slots[i].state = "full" /\ t.slots[i].handle = handle

LowestFreeHandle(t) == Min({h \in 1..MaxHandle : ~ HandleInUse(t, h)})

(* Mutant: a freed handle is given out again. *)
RecycledHandle(t, requested) ==
    [rc |-> "ok", handle |-> IF requested = 0 THEN LowestFreeHandle(t) ELSE requested]

(* allocate_monotonic_handle_locked, and its explicit counterpart.         *)
TakeHandle(t, requested) ==
    LET taken == IF requested = 0 THEN t.next ELSE requested
    IN  [rc |-> IF t.next = 0 THEN "handles exhausted"
                ELSE IF HandleInUse(t, requested) THEN "handle in use"
                ELSE IF taken < t.next THEN "below mark"
                ELSE "ok",
         handle |-> taken]

-----------------------------------------------------------------------------
(* put_handle_locked.  fail is the allocation that the system refuses, if  *)
(* any: "table" in resize_index or "key" in key_alloc.  What the operation *)
(* had done by then stays done: the table stays resized, the handle taken. *)
Answer(t, rc, handle) == [t |-> t, rc |-> rc, handle |-> handle]

(* The key gets the slot old at idx, with its block and its handle. *)
Filled(alloc, key, idx, old, handle) ==
    Answer([alloc.t EXCEPT
               !.slots[idx] = [state |-> "full", key |-> key, handle |-> handle,
                               gen |-> old.gen + 1, block |-> alloc.block],
               !.tombstones = @ - (IF old.state = "tomb" THEN 1 ELSE 0),
               !.size = @ + 1], "ok", handle)

PutAt(t, key, fail, idx, take) ==
    LET charged == [t EXCEPT !.next = After(take.handle)]
    IN  IF idx < 0 THEN Answer(t, "full", 0)
        ELSE IF t.slots[idx].gen = MaxGeneration THEN Answer(t, "generation exhausted", 0)
        ELSE IF take.rc # "ok" THEN Answer(t, take.rc, 0)
        ELSE IF fail = "key" THEN Answer(charged, "no memory", 0)
        ELSE Filled(KeyAlloc(charged, Len(key)), key, idx, t.slots[idx], take.handle)

PutAfter(t, resize, key, requested, fail) ==
    IF resize.rc # "ok" THEN Answer(t, resize.rc, 0)
    ELSE PutAt(resize.t, key, fail,
               FindSlot(resize.t.slots, resize.t.cap, key).idx,
               TakeHandle(resize.t, requested))

PutNew(t, key, requested, fail) ==
    PutAfter(t, MaybeResize(t, fail = "table"), key, requested, fail)

PutFound(t, f, key, requested, fail) ==
    IF requested < 0 THEN Answer(t, "negative handle", 0)
    ELSE IF f.idx < 0 THEN Answer(t, "full", 0)
    ELSE IF ~ f.found THEN PutNew(t, key, requested, fail)
    ELSE IF requested > 0 /\ requested # t.slots[f.idx].handle
    THEN Answer(t, "handle immutable", 0)
    ELSE Answer(t, "ok", t.slots[f.idx].handle)

PutHandle(t, key, requested, fail) ==
    PutFound(t, FindSlot(t.slots, t.cap, key), key, requested, fail)

(* put_handles_nogil: the batch stops at its first error.  fails gives the *)
(* refused allocation of each key.                                         *)
Appended(handles, p) == [t |-> p.t, rc |-> p.rc, handles |-> Append(handles, p.handle)]

PutHandles(t, keys, fails) ==
    LET upto[i \in 0..Len(keys)] ==
            IF i = 0 THEN [t |-> t, rc |-> "ok", handles |-> << >>]
            ELSE IF upto[i - 1].rc # "ok" THEN upto[i - 1]
            ELSE Appended(upto[i - 1].handles,
                          PutHandle(upto[i - 1].t, keys[i], 0, fails[i]))
    IN  upto[Len(keys)]

(* lookup_handle_locked. *)
HandleAt(slots, f) == IF f.found THEN slots[f.idx].handle ELSE -1

Lookup(t, key) == HandleAt(t.slots, FindSlot(t.slots, t.cap, key))

(* The slot a pop leaves: its generation stays.                            *)
PoppedSlot(slot) == [EmptySlot EXCEPT !.state = "tomb", !.gen = slot.gen]

(* pop_handle_locked. *)
PopFound(t, f) ==
    LET slot == t.slots[f.idx]
    IN  IF ~ f.found THEN Answer(t, "ok", -1)
        ELSE Answer([KeyFree(t, slot) EXCEPT !.slots[f.idx] = PoppedSlot(slot),
                                             !.size = @ - 1,
                                             !.tombstones = @ + 1],
                    "ok", slot.handle)

PopHandle(t, key) == PopFound(t, FindSlot(t.slots, t.cap, key))

(* pop_handles_nogil. *)
PopHandles(t, keys) ==
    LET upto[i \in 0..Len(keys)] ==
            IF i = 0 THEN [t |-> t, rc |-> "ok", handles |-> << >>]
            ELSE Appended(upto[i - 1].handles, PopHandle(upto[i - 1].t, keys[i]))
    IN  upto[Len(keys)]

-----------------------------------------------------------------------------
(* References: NativeHandleIndex_get_handle_ref, and its resolution.       *)

NoRef == [epoch |-> 0, slot |-> 0, gen |-> 0, handle |-> -1]

RefTo(t, f) ==
    IF ~ f.found THEN NoRef
    ELSE [epoch |-> t.epoch, slot |-> f.idx,
          gen |-> t.slots[f.idx].gen, handle |-> t.slots[f.idx].handle]

GetHandleRef(t, key) == RefTo(t, FindSlot(t.slots, t.cap, key))

ResolveHandleRef(t, ref) ==
    IF /\ ref.epoch = t.epoch
       /\ ref.slot < t.cap
       /\ t.slots[ref.slot].state = "full"
       /\ t.slots[ref.slot].gen = ref.gen
       /\ t.slots[ref.slot].handle = ref.handle
    THEN ref.handle ELSE -1

-----------------------------------------------------------------------------
(* Frozen copies: frozen_capacity_for_size, and NativeHandleIndex_freeze.  *)

FrozenCapacity(size) == RoundPow2(Max({2 * size, MinCapacity}))

Freeze(t) ==
    LET cap == FrozenCapacity(t.size)
    IN  [cap |-> cap, size |-> t.size, epoch |-> t.epoch,
         slots |-> Rehash(t.slots, t.cap, cap)]

(* frozen_lookup_handle_nogil; also for byte strings that are no keys.     *)
FrozenLookup(f, key) ==
    IF key \notin Keys THEN -1 ELSE Lookup(f, key)

(* validate_packed_offsets: offsets is the list of count + 1 numbers.      *)
OffsetsValid(offsets, total) ==
    /\ Len(offsets) >= 1
    /\ offsets[1] = 0
    /\ \A i \in 2..Len(offsets) :
          offsets[i] > offsets[i - 1] /\ offsets[i] <= total
    /\ offsets[Len(offsets)] = total

(* NativeFrozenHandleIndex_lookup_packed, with an output of room entries.  *)
LookupPacked(f, blob, offsets, room) ==
    IF ~ OffsetsValid(offsets, Len(blob)) \/ room # Len(offsets) - 1
    THEN << "refused" >>
    ELSE [i \in 1..room |-> FrozenLookup(f, SubSeq(blob, offsets[i] + 1, offsets[i + 1]))]

-----------------------------------------------------------------------------
(* stats_scan_nogil: the longest probe, by probe_length_for_slot, which    *)
(* walks from the slot's own hash until it meets the slot.                 *)
ProbeLength(t, i) ==
    LET at(p) == ProbeAt(Hash[t.slots[i].key], t.cap, p)
        stops == {p \in 0..(t.cap - 1) : at(p) = i \/ t.slots[at(p)].state = "empty"}
    IN  IF stops = {} THEN t.cap ELSE Min(stops) + 1

Full(t) == {i \in DOMAIN t.slots : t.slots[i].state = "full"}

MaxProbe(t) == Max({0} \cup {ProbeLength(t, i) : i \in Full(t)})

=============================================================================
