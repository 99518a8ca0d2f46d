---------------------------- MODULE TDSDirectory ----------------------------
(***************************************************************************)
(* The entries of one TDSDirectory of tds_filesystem.py and its            *)
(* VariableControl of variables.py, used by several threads.               *)
(*                                                                         *)
(* An entry is in the index (under the directory's lock) and may also be   *)
(* in the hot-entry registry, which has a lock of its own and is updated   *)
(* after the directory's lock is released.  Reads go through the Bloom     *)
(* filter and the registry before they look at the index.  Variables can   *)
(* be locked, and a variable can have a chain of stalk increments, each    *)
(* holding what the one before it held and something new.                  *)
(*                                                                         *)
(* A datum is a number, given out once; a value is the set of data merged  *)
(* into it, and {} stands for no entry.  The name <<b, 0>> is the variable *)
(* b, and <<b, i>> its i-th increment, the name f"{b}_{i:04d}".            *)
(***************************************************************************)
EXTENDS Integers, FiniteSets

CONSTANTS
    Threads,     \* threads that use the directory
    Bases,       \* names of variables and other entries
    None,        \* no thread: the chain lock is free
    MaxChain,    \* bound: increments of a chain
    MaxData,     \* bound: data written in a behaviour
    Uses         \* the ways the directory is used:
                 \*   variables   the variables used
                 \*   operations  the operations the threads call
                 \*   increments  are increments called by their own names?
                 \*   exclusive   is a variable used by one thread at a time?
                 \*   capacity    entries the registry holds
                 \*   chain, data bounds, within MaxChain and MaxData

Names == Bases \X (0 .. MaxChain)

(* The calls that bring a datum, and the calls that take the chain lock.   *)
(* "write" is write and editvar with overwrite, "editnew" editvar without. *)
Writes == {"write", "text", "overtext", "add", "editnew", "append", "reset"}
Chained == {"add", "lock", "unlock", "append", "clear", "reset"}
Stalks == {"append", "clear", "reset"}

ASSUME DirectoryAssumption ==
    /\ None \notin Threads
    /\ MaxChain \in Nat
    /\ MaxData \in Nat
    /\ \A u \in Uses :
           /\ u.variables \subseteq Bases
           /\ u.operations \subseteq Writes \cup Chained \cup {"read", "delete"}
           /\ u.increments \in BOOLEAN /\ u.exclusive \in BOOLEAN
           /\ u.capacity \in Nat \ {0}
           /\ u.chain \in 0 .. MaxChain /\ u.data \in 0 .. MaxData

VARIABLES
    use,       \* the way the directory is used
    index,     \* EntryIndex: the value of each name
    registry,  \* HybridRegistry: the value it holds of each name
    bloom,     \* BloomFilter: the names it may hold
    locked,    \* VariableControl.lockvars: the names marked True
    active,    \* VariableControl.stalkvars: the variables with a chain
    latest,    \* latest_index of each chain
    holder,    \* the thread that holds the chain lock of a name
    data,      \* data given out so far
    pc,        \* where each thread is in its operation
    op,        \* the operation it is in
    name,      \* the name it was called with
    target,    \* the name it is reading, writing or deleting
    value,     \* the value it carries
    found      \* the entry its read has found in the index

shared == << index, registry, bloom, locked, active, latest >>
locals == << op, name, target, value, found >>
vars == << use, shared, holder, data, pc, locals >>

Values == SUBSET (1 .. MaxData)
Base(n) == n[1]
Increment(b, i) == << b, i >>
Busy(t) == pc[t] # "idle"
InUse(n) == \E t \in Threads : Busy(t) /\ Base(name[t]) = Base(n)

(* The names calls other than stalkvar are made with. *)
Direct == use.variables \X (IF use.increments THEN 0 .. use.chain ELSE {0})

Init ==
    /\ use \in Uses
    /\ index = [n \in Names |-> {}]
    /\ registry = [n \in Names |-> {}]
    /\ bloom = {}
    /\ locked = {}
    /\ active = {}
    /\ latest = [b \in Bases |-> 0]
    /\ holder = [n \in Names |-> None]
    /\ data = 0
    /\ pc = [t \in Threads |-> "idle"]
    /\ op = [t \in Threads |-> "read"]
    /\ \E b \in use.variables : name = [t \in Threads |-> << b, 0 >>]
    /\ target = name
    /\ value = [t \in Threads |-> {}]
    /\ found = [t \in Threads |-> {}]

-----------------------------------------------------------------------------
(* The names the registry holds. *)
Held == {n \in Names : registry[n] # {}}

(* Mutant: an entry that is held is kept, as with setdefault. *)
RegistryPutDefault(n, v) ==
    \/ n \in Held /\ UNCHANGED registry
    \/ /\ n \notin Held /\ Cardinality(Held) < use.capacity
       /\ registry' = [registry EXCEPT ![n] = v]
    \/ /\ n \notin Held /\ Cardinality(Held) = use.capacity
       /\ \E m \in Held : registry' = [registry EXCEPT ![m] = {}, ![n] = v]

(* HybridRegistry.put.  In a full registry the entry with the lowest score *)
(* makes room; scores decay with time, so it can be any of them.           *)
RegistryPut(n, v) ==
    \/ /\ n \in Held \/ Cardinality(Held) < use.capacity
       /\ registry' = [registry EXCEPT ![n] = v]
    \/ /\ n \notin Held /\ Cardinality(Held) = use.capacity
       /\ \E m \in Held : registry' = [registry EXCEPT ![m] = {}, ![n] = v]

-----------------------------------------------------------------------------
Goto(t, place) == pc' = [pc EXCEPT ![t] = place]
At(t, place) == pc[t] = place

(* The call is over: by return or by an exception, the chain lock is       *)
(* released.  Locals are forgotten.                                        *)
Return(t) ==
    /\ Goto(t, "idle")
    /\ holder' = [n \in Names |-> IF holder[n] = t THEN None ELSE holder[n]]
    /\ target' = [target EXCEPT ![t] = name[t]]
    /\ value' = [value EXCEPT ![t] = {}]
    /\ found' = [found EXCEPT ![t] = {}]
    /\ UNCHANGED << op, name >>

(* The appends to a chain that have been called. *)
Appending(b) ==
    Cardinality({t \in Threads : Busy(t) /\ op[t] = "append" /\ Base(name[t]) = b})

(* A call is made.  stalkvar is called with the name of a variable. *)
Call(t, o, n) ==
    /\ At(t, "idle")
    /\ n \in IF o \in Stalks THEN use.variables \X {0} ELSE Direct
    /\ use.exclusive => ~InUse(n)
    /\ o \in Writes => data < use.data
    /\ o = "append" => latest[Base(n)] + Appending(Base(n)) < use.chain
    /\ data' = IF o \in Writes THEN data + 1 ELSE data
    /\ value' = [value EXCEPT ![t] = IF o \in Writes THEN {data + 1} ELSE {}]
    /\ op' = [op EXCEPT ![t] = o]
    /\ name' = [name EXCEPT ![t] = n]
    /\ target' = [target EXCEPT ![t] = n]
    /\ Goto(t, IF o = "read" THEN "look" ELSE IF o \in Chained THEN "acquire" ELSE "check")
    /\ UNCHANGED << shared, holder, found >>

(* with self._chain_lock(name). *)
Acquire(t) ==
    /\ At(t, "acquire")
    /\ holder[name[t]] = None
    /\ holder' = [holder EXCEPT ![name[t]] = t]
    /\ Goto(t, "check")
    /\ UNCHANGED << shared, data, locals >>

-----------------------------------------------------------------------------
(* What each operation looks at before it changes anything. *)

(* write_result, editvar and delete_result look at the mark only, and      *)
(* without the chain lock.                                                 *)
CheckMark(t) ==
    /\ At(t, "check")
    /\ op[t] \in {"write", "editnew", "delete"}
    /\ UNCHANGED << shared, data >>
    /\ IF name[t] \in locked
       THEN Return(t)
       ELSE /\ Goto(t, CASE op[t] = "editnew" -> "exists"
                         [] op[t] = "delete" -> "pop"
                         [] OTHER -> "put")
            /\ UNCHANGED << holder, locals >>

(* addvar, write_text, write_json, editvar without overwrite. *)
CheckAbsent(t) ==
    /\ \/ At(t, "check") /\ op[t] \in {"add", "text", "overtext"}
       \/ At(t, "exists")
    /\ UNCHANGED << shared, data >>
    /\ IF index[name[t]] # {} /\ op[t] # "overtext"
       THEN Return(t)
       ELSE Goto(t, "put") /\ UNCHANGED << holder, locals >>

(* _lockvar_locked. *)
CheckPresent(t) ==
    /\ At(t, "check")
    /\ op[t] \in {"lock", "unlock"}
    /\ UNCHANGED << shared, data >>
    /\ IF index[name[t]] = {}
       THEN Return(t)
       ELSE Goto(t, "mark") /\ UNCHANGED << holder, locals >>

Mark(t) ==
    /\ At(t, "mark")
    /\ locked' = IF op[t] = "lock" THEN locked \cup {name[t]}
                                   ELSE locked \ {name[t]}
    /\ Return(t)
    /\ UNCHANGED << index, registry, bloom, active, latest, data >>

(* stalkvar("~b"): the chain is begun, if there is none, before its last   *)
(* value is read.                                                          *)
CheckAppend(t) ==
    LET b == Base(name[t]) IN
    /\ At(t, "check")
    /\ op[t] = "append"
    /\ UNCHANGED << index, registry, bloom, locked, data >>
    /\ IF name[t] \in locked \/ index[name[t]] = {}
       THEN Return(t) /\ UNCHANGED << active, latest >>
       ELSE /\ active' = active \cup {b}
            /\ latest' = [latest EXCEPT ![b] = IF b \in active THEN @ ELSE 0]
            /\ target' = [target EXCEPT ![t] = Increment(b, latest'[b])]
            /\ Goto(t, "look")
            /\ UNCHANGED << holder, op, name, value, found >>

(* Mutant: the mark is not looked at. *)
CheckClearUnmarked(t) ==
    /\ At(t, "check")
    /\ op[t] \in {"clear", "reset"}
    /\ target' = [target EXCEPT ![t] = Increment(Base(name[t]), 1)]
    /\ Goto(t, "sweep")
    /\ UNCHANGED << shared, holder, data, op, name, value, found >>

(* stalkvar("b"): the increments are deleted one after the other. *)
CheckClear(t) ==
    /\ At(t, "check")
    /\ op[t] \in {"clear", "reset"}
    /\ UNCHANGED << shared, data >>
    /\ IF name[t] \in locked
       THEN Return(t)
       ELSE /\ target' = [target EXCEPT ![t] = Increment(Base(name[t]), 1)]
            /\ Goto(t, "sweep")
            /\ UNCHANGED << holder, op, name, value, found >>

-----------------------------------------------------------------------------
(* read_value, by itself and within stalkvar. *)

(* Mutant: the new datum replaces what the chain held. *)
FoundAlone(t, v) ==
    IF op[t] = "read"
    THEN Return(t)
    ELSE Goto(t, "extend") /\ UNCHANGED << holder, locals >>

(* The read has found v: it is returned, or merged with the new datum. *)
Found(t, v) ==
    IF op[t] = "read"
    THEN Return(t)
    ELSE /\ value' = [value EXCEPT ![t] = @ \cup v]
         /\ Goto(t, "extend")
         /\ UNCHANGED << holder, op, name, target, found >>

(* The Bloom filter and the registry.  A name the filter does not have     *)
(* raises KeyError, unless the filter answers for other names.             *)
LookInRegistry(t) ==
    LET n == target[t] IN
    /\ At(t, "look")
    /\ UNCHANGED << shared, data >>
    /\ \/ n \notin bloom /\ Return(t)
       \/ n \in Held /\ Found(t, registry[n])
       \/ n \notin Held /\ Goto(t, "lookup") /\ UNCHANGED << holder, locals >>

(* The index, under the directory's lock.  What is found is put into the   *)
(* registry after the lock is released.                                    *)
LookInIndex(t) ==
    LET n == target[t] IN
    /\ At(t, "lookup")
    /\ UNCHANGED << shared, data >>
    /\ IF index[n] = {}
       THEN Return(t)
       ELSE /\ found' = [found EXCEPT ![t] = index[n]]
            /\ Goto(t, "recache")
            /\ UNCHANGED << holder, op, name, target, value >>

Recache(t) ==
    /\ At(t, "recache")
    /\ RegistryPut(target[t], found[t])
    /\ Found(t, found[t])
    /\ UNCHANGED << index, bloom, locked, active, latest, data >>

-----------------------------------------------------------------------------
(* stalkvar("~b") chooses the name of the next increment. *)
Extend(t) ==
    LET b == Base(name[t])
        next == Increment(b, latest[b] + 1)
    IN
    /\ At(t, "extend")
    /\ UNCHANGED << shared, data >>
    /\ IF index[next] # {}
       THEN Return(t)
       ELSE /\ target' = [target EXCEPT ![t] = next]
            /\ Goto(t, "put")
            /\ UNCHANGED << holder, op, name, value, found >>

(* _write_entry: the index and the filter under the directory's lock ... *)
Put(t) ==
    /\ At(t, "put")
    /\ index' = [index EXCEPT ![target[t]] = value[t]]
    /\ bloom' = bloom \cup {target[t]}
    /\ Goto(t, "cache")
    /\ UNCHANGED << registry, locked, active, latest, holder, data, locals >>

(* ... then the registry.  stalkvar notes its new increment at the end. *)
Cache(t) ==
    LET b == Base(name[t]) IN
    /\ At(t, "cache")
    /\ RegistryPut(target[t], value[t])
    /\ latest' = IF op[t] = "append" THEN [latest EXCEPT ![b] = @ + 1] ELSE latest
    /\ Return(t)
    /\ UNCHANGED << index, bloom, locked, active, data >>

(* The value fails its schema or cannot be serialized: nothing is stored. *)
PutRaises(t) ==
    /\ At(t, "put")
    /\ Return(t)
    /\ UNCHANGED << shared, data >>

-----------------------------------------------------------------------------
(* delete_entry: the index under the directory's lock, then the registry. *)
Pop(t) ==
    /\ At(t, "pop")
    /\ index' = [index EXCEPT ![target[t]] = {}]
    /\ Goto(t, "uncache")
    /\ UNCHANGED << registry, bloom, locked, active, latest, holder, data, locals >>

(* _clear_chain goes on to the next increment; delete_result to the mark. *)
Uncache(t) ==
    LET n == target[t] IN
    /\ At(t, "uncache")
    /\ registry' = [registry EXCEPT ![n] = {}]
    /\ IF op[t] = "delete"
       THEN Goto(t, "unmark") /\ UNCHANGED target
       ELSE /\ target' = [target EXCEPT ![t] = Increment(Base(n), n[2] + 1)]
            /\ Goto(t, "sweep")
    /\ UNCHANGED << index, bloom, locked, active, latest, holder, data, op, name, value, found >>

Unmark(t) ==
    /\ At(t, "unmark")
    /\ locked' = locked \ {name[t]}
    /\ Return(t)
    /\ UNCHANGED << index, registry, bloom, active, latest, data >>

(* One turn of the loop of _clear_chain: an increment that is missing is   *)
(* skipped.                                                                *)
Sweep(t) ==
    LET n == target[t]
        b == Base(name[t])
    IN
    /\ At(t, "sweep")
    /\ b \in active /\ n[2] <= latest[b]
    /\ IF index[n] # {}
       THEN Goto(t, "pop") /\ UNCHANGED target
       ELSE /\ target' = [target EXCEPT ![t] = Increment(b, n[2] + 1)]
            /\ UNCHANGED pc
    /\ UNCHANGED << shared, holder, data, op, name, value, found >>

(* The end of the loop, after the given number of increments. *)
SweptFrom(t, last) ==
    LET b == Base(name[t]) IN
    /\ At(t, "sweep")
    /\ b \in active => target[t][2] > last
    /\ active' = active \ {b}
    /\ latest' = [latest EXCEPT ![b] = 0]
    /\ IF op[t] = "clear"
       THEN Return(t)
       ELSE /\ target' = [target EXCEPT ![t] = name[t]]
            /\ Goto(t, "put")
            /\ UNCHANGED << holder, op, name, value, found >>
    /\ UNCHANGED << index, registry, bloom, locked, data >>

(* The chain is forgotten; then the variable is replaced or kept. *)
Swept(t) == SweptFrom(t, latest[Base(name[t])])

-----------------------------------------------------------------------------
Step(t) ==
    \/ Acquire(t)
    \/ CheckMark(t) \/ CheckAbsent(t) \/ CheckPresent(t) \/ Mark(t)
    \/ CheckAppend(t) \/ CheckClear(t)
    \/ LookInRegistry(t) \/ LookInIndex(t) \/ Recache(t)
    \/ Extend(t) \/ Put(t) \/ Cache(t) \/ PutRaises(t)
    \/ Pop(t) \/ Uncache(t) \/ Unmark(t) \/ Sweep(t) \/ Swept(t)

Next ==
    /\ UNCHANGED use
    /\ \E t \in Threads :
           \/ \E o \in use.operations, n \in Names : Call(t, o, n)
           \/ Step(t)

Spec == Init /\ [][Next]_vars

-----------------------------------------------------------------------------
Places == {"idle", "acquire", "check", "exists", "mark", "look", "lookup",
           "recache", "extend", "put", "cache", "pop", "uncache", "unmark",
           "sweep"}

(* Every variable has its type; the registry holds no more entries than    *)
(* HybridRegistry(capacity=...) allows, and a chain is as long as its      *)
(* latest_index says only while stalkvars has it.                          *)
TypeOK ==
    /\ index \in [Names -> Values]
    /\ registry \in [Names -> Values]
    /\ Cardinality(Held) <= use.capacity
    /\ bloom \subseteq Names
    /\ locked \subseteq Names
    /\ active \subseteq Bases
    /\ latest \in [Bases -> 0 .. use.chain]
    /\ \A b \in Bases : latest[b] > 0 => b \in active
    /\ holder \in [Names -> Threads \cup {None}]
    /\ data \in 0 .. use.data
    /\ pc \in [Threads -> Places]
    /\ op \in [Threads -> Writes \cup Chained \cup {"read", "delete"}]
    /\ name \in [Threads -> Names]
    /\ target \in [Threads -> Bases \X (0 .. MaxChain + 1)]
    /\ value \in [Threads -> Values]
    /\ found \in [Threads -> Values]

(* What read_value returns when nothing else runs. *)
Reads(n) ==
    IF n \notin bloom THEN {} ELSE IF n \in Held THEN registry[n] ELSE index[n]

(* Where a variable is used by one thread at a time: once the calls on it  *)
(* have returned, a read through the filter and the registry returns what  *)
(* the index holds (read_value, _write_entry, delete_entry,                *)
(* HybridRegistry.put and its evictions).                                  *)
ReadsAreCurrent ==
    use.exclusive => \A n \in Names : ~InUse(n) => Reads(n) = index[n]

(* Once the calls on a deleted entry have returned, a read misses it:      *)
(* read(...).code == "READ_MISSING" after delete_entry. It does not hold   *)
(* for calls that overlap: Cache or Recache can come after Uncache.        *)
DeletedReadsMissing ==
    \A n \in Names : ~InUse(n) /\ index[n] = {} => Reads(n) = {}

(* write_text without overwrite never replaces an entry: "Duplicate text   *)
(* names return structured feedback unless overwrite=True." It does not    *)
(* hold for calls that overlap: the check and the write are two steps.     *)
TextNeverReplaces ==
    [][\A t \in Threads :
         Put(t) /\ op[t] = "text" => index[target[t]] = {}]_vars

(* While nobody holds the chain lock of a variable, its increments are     *)
(* exactly those that its StalkState counts (stalkvar, _clear_chain),      *)
(* unless they are written or deleted by their own names.                  *)
ChainIntact ==
    ~use.increments =>
        \A b \in Bases :
            holder[Increment(b, 0)] = None =>
                \A i \in 1 .. MaxChain :
                    index[Increment(b, i)] # {} <=> b \in active /\ i <= latest[b]

(* Every increment holds all that the increment before it holds, and more: *)
(* no append to a chain is lost, whatever else is appended, edited or      *)
(* cleared meanwhile (_merge_values of the latest value and the new one).  *)
AppendsKept ==
    ~use.increments =>
        \A b \in Bases, i \in 1 .. MaxChain - 1 :
            LET this == index[Increment(b, i)]
                next == index[Increment(b, i + 1)]
            IN  this # {} /\ next # {} => this \subseteq next /\ this # next

(* No append to a chain is lost and no increment left over.                *)
ChainsKept == TypeOK /\ ChainIntact /\ AppendsKept

(* What is looked at under the chain lock still holds at the write: addvar *)
(* never replaces a value that came after its existence check              *)
(* (_addvar_locked); and while a variable is locked its chain stands, as   *)
(* no append, clear or reset that looked at the mark before lockvar set it *)
(* lands afterwards.  (write, editvar and delete look at the mark without  *)
(* the chain lock, and may.)                                               *)
ChecksStillHold ==
    [][/\ \A t \in Threads :
              Put(t) /\ op[t] = "add" => index[target[t]] = {}
       /\ \A b \in Bases :
              Increment(b, 0) \in locked =>
                  /\ active' \cap {b} = active \cap {b}
                  /\ latest'[b] = latest[b]
                  /\ \A i \in 1 .. MaxChain :
                         index'[Increment(b, i)] = index[Increment(b, i)]]_vars

=============================================================================
