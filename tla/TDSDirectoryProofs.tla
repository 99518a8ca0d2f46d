------------------------- MODULE TDSDirectoryProofs -------------------------
(***************************************************************************)
(* The theorems about a directory.  The chains have room for the appends   *)
(* that have been called, and the registry for what it holds; what was     *)
(* checked under the chain lock still holds when it is acted on.  With     *)
(* what DirectoryChainProofs says of a step this is inductive.             *)
(***************************************************************************)
EXTENDS DirectoryChainProofs, FiniteSetTheorems

(* Every append that has been called has room in its chain. *)
Appenders(b) == {t \in Threads : Busy(t) /\ op[t] = "append" /\ Base(name[t]) = b}

RoomInv ==
    \A b \in Bases :
        /\ IsFiniteSet(Appenders(b))
        /\ latest[b] + Cardinality(Appenders(b)) <= use.chain
        /\ latest[b] > 0 => b \in active

LEMMA InitRoom == Init => RoomInv
<1> SUFFICES ASSUME Init, NEW b \in Bases
             PROVE  IsFiniteSet(Appenders(b)) /\ latest[b] + Cardinality(Appenders(b)) <= use.chain
                    /\ (latest[b] > 0 => b \in active)
  BY Zenon DEF RoomInv
<1>1. Appenders(b) = {} /\ latest[b] = 0
  BY Zenon DEF Init, Appenders, Busy
<1>2. use.chain \in Nat
  BY DirectoryAssumption DEF Init
<1> QED
  BY <1>1, <1>2, FS_EmptySet

(* Where no append is called and no chain grows, there is as much room. *)
LEMMA RoomKept ==
    ASSUME ControlInv, RoomInv, use' = use, latest' \in [Bases -> Nat],
           \A b \in Bases : Appenders(b)' \subseteq Appenders(b),
           \A b \in Bases : latest'[b] <= latest[b] /\ (latest'[b] > 0 => b \in active')
    PROVE  RoomInv'
<1> SUFFICES ASSUME NEW b \in Bases
             PROVE  /\ IsFiniteSet(Appenders(b)') /\ (latest'[b] > 0 => b \in active')
                    /\ latest'[b] + Cardinality(Appenders(b)') <= use'.chain
  BY Zenon DEF RoomInv
<1>1. IsFiniteSet(Appenders(b)) /\ latest[b] + Cardinality(Appenders(b)) <= use.chain
  BY Zenon DEF RoomInv
<1>2. IsFiniteSet(Appenders(b)') /\ Cardinality(Appenders(b)') <= Cardinality(Appenders(b))
  BY <1>1, FS_Subset, Zenon
<1>3. Cardinality(Appenders(b)) \in Nat /\ Cardinality(Appenders(b)') \in Nat
  BY <1>1, <1>2, FS_CardinalityType, Zenon
<1>4. latest[b] \in Nat /\ latest'[b] \in Nat /\ use.chain \in Nat
  BY DirectoryAssumption DEF ControlInv
<1> QED
  BY <1>1, <1>2, <1>3, <1>4

LEMMA RoomInduction ==
    ASSUME ControlInv, ControlInv', RoomInv, [Next]_vars
    PROVE  RoomInv'
<1> USE DEF shared, locals, At
<1>0. /\ latest \in [Bases -> Nat] /\ latest' \in [Bases -> Nat]
      /\ \A b \in Bases : latest[b] > 0 => b \in active
      /\ \A t \in Threads : Base(name[t]) \in Bases
  BY NameParts, Zenon DEF ControlInv, RoomInv, Base
<1>1. CASE UNCHANGED vars
  <2>1. UNCHANGED << use, latest, active, pc, op, name >>
    BY <1>1, Zenon DEF vars
  <2>2. \A b \in Bases : Appenders(b)' \subseteq Appenders(b)
    BY <2>1, Zenon DEF Appenders, Busy
  <2> QED
    BY <1>0, <2>1, <2>2, RoomKept
<1>2. ASSUME NEW t \in Threads, NEW o \in use.operations, NEW n \in Names, Call(t, o, n), use' = use
      PROVE  RoomInv'
  <2>1. /\ pc[t] = "idle" /\ UNCHANGED << active, latest >>
        /\ op' = [op EXCEPT ![t] = o] /\ name' = [name EXCEPT ![t] = n]
        /\ \A s \in Threads \ {t} : pc'[s] = pc[s]
        /\ pc'[t] # "idle"
        /\ o = "append" => latest[Base(n)] + Appending(Base(n)) < use.chain
    BY <1>2, Zenon DEF Call, Goto, ControlInv
  <2>2. /\ op'[t] = o /\ name'[t] = n
        /\ \A s \in Threads \ {t} : op'[s] = op[s] /\ name'[s] = name[s]
    BY <2>1, Zenon DEF ControlInv
  <2>3. \A b \in Bases : ~ (o = "append" /\ b = Base(n)) => Appenders(b)' \subseteq Appenders(b)
    BY <2>1, <2>2, Zenon DEF Appenders, Busy
  <2>4. CASE o # "append"
    BY <1>0, <1>2, <2>1, <2>3, <2>4, RoomKept
  <2>5. CASE o = "append"
    <3>1. Appenders(Base(n))' = Appenders(Base(n)) \cup {t} /\ t \notin Appenders(Base(n))
      BY <2>1, <2>2, <2>5, Zenon DEF Appenders, Busy
    <3>2. Appending(Base(n)) = Cardinality(Appenders(Base(n)))
      BY Zenon DEF Appending, Appenders
    <3>3. Base(n) \in Bases
      BY NameParts, Zenon DEF Base
    <3>4. IsFiniteSet(Appenders(Base(n))) /\ Cardinality(Appenders(Base(n))) \in Nat
      BY <3>3, FS_CardinalityType, Zenon DEF RoomInv
    <3>5. /\ IsFiniteSet(Appenders(Base(n))')
          /\ Cardinality(Appenders(Base(n))') = Cardinality(Appenders(Base(n))) + 1
      BY <3>1, <3>4, FS_AddElement
    <3>6. latest'[Base(n)] + Cardinality(Appenders(Base(n))') <= use'.chain
      <4>1. latest[Base(n)] \in Nat /\ use.chain \in Nat
        BY <1>0, <3>3, DirectoryAssumption DEF ControlInv
      <4> QED
        BY <1>2, <2>1, <2>5, <3>2, <3>4, <3>5, <4>1
    <3>7. ASSUME NEW b \in Bases, b # Base(n)
          PROVE  IsFiniteSet(Appenders(b)') /\ latest'[b] + Cardinality(Appenders(b)') <= use'.chain
      <4>1. Appenders(b)' = Appenders(b)
        BY <2>1, <2>2, <3>7, SMTT(30) DEF Appenders, Busy
      <4> QED
        BY <1>2, <2>1, <4>1, Zenon DEF RoomInv
    <3> QED
      BY <1>0, <2>1, <3>5, <3>6, <3>7, Zenon DEF RoomInv
  <2> QED
    BY <2>4, <2>5, Zenon
<1>3. ASSUME NEW t \in Threads, Step(t), use' = use
      PROVE  RoomInv'
  <2>1. /\ UNCHANGED << op, name >> /\ pc[t] # "idle" /\ \A s \in Threads \ {t} : pc'[s] = pc[s]
    BY <1>3, StepShape, Zenon DEF ControlInv
  <2>2. \A b \in Bases : Appenders(b)' \subseteq Appenders(b)
    BY <2>1, Zenon DEF Appenders, Busy
  <2>3. CASE UNCHANGED << active, latest >>
    BY <1>0, <1>3, <2>2, <2>3, RoomKept
  <2>4. CASE CheckAppend(t) \/ Swept(t)
    <3>1. \A b \in Bases : latest'[b] <= latest[b] /\ (latest'[b] > 0 => b \in active')
      <4>1. CASE UNCHANGED << active, latest >>
        BY <1>0, <4>1
      <4>2. CASE ~ UNCHANGED << active, latest >>
        <5>1. \/ /\ active' = active \cup {Base(name[t])}
                 /\ latest' = [latest EXCEPT ![Base(name[t])] = IF Base(name[t]) \in active THEN @ ELSE 0]
              \/ /\ active' = active \ {Base(name[t])}
                 /\ latest' = [latest EXCEPT ![Base(name[t])] = 0]
          BY <2>4, <4>2, Zenon DEF CheckAppend, Swept, SweptFrom
        <5> QED
          BY <1>0, <5>1
      <4> QED
        BY <4>1, <4>2, Zenon
    <3> QED
      BY <1>0, <1>3, <2>2, <3>1, RoomKept, Zenon
  <2>5. CASE Cache(t) /\ op[t] = "append"
    <3>0. PICK b \in Bases : b = Base(name[t])
      BY <1>0, Zenon
    <3>1. /\ pc[t] = "cache" /\ pc'[t] = "idle" /\ active' = active
          /\ latest' = [latest EXCEPT ![b] = @ + 1]
      BY <2>5, <3>0, Zenon DEF Cache, Return, Goto, ControlInv
    <3>2. b \in active /\ b \in Bases
      BY <3>0, <2>5, <3>1, Zenon DEF ControlInv, TargetFits
    <3>3. Appenders(b)' = Appenders(b) \ {t} /\ t \in Appenders(b)
      BY <2>1, <2>5, <3>0, <3>1, Zenon DEF Appenders, Busy
    <3>4. IsFiniteSet(Appenders(b)) /\ Cardinality(Appenders(b)) \in Nat
          /\ latest[b] + Cardinality(Appenders(b)) <= use.chain
      BY <3>2, FS_CardinalityType, Zenon DEF RoomInv
    <3>5. IsFiniteSet(Appenders(b)') /\ Cardinality(Appenders(b)') = Cardinality(Appenders(b)) - 1
      BY <3>3, <3>4, FS_RemoveElement
    <3>6. latest'[b] = latest[b] + 1 /\ \A c \in Bases \ {b} : latest'[c] = latest[c]
      BY <1>0, <3>1, <3>2, Zenon
    <3>7. latest'[b] + Cardinality(Appenders(b)') <= use'.chain
      BY <1>0, <1>3, <3>2, <3>4, <3>5, <3>6
    <3>8. ASSUME NEW c \in Bases, c # b
          PROVE  IsFiniteSet(Appenders(c)') /\ latest'[c] + Cardinality(Appenders(c)') <= use'.chain
      <4>1. Appenders(c)' = Appenders(c)
        BY <2>1, <3>0, <3>1, <3>8, Zenon DEF Appenders, Busy
      <4> QED
        BY <1>3, <3>6, <3>8, <4>1, Zenon DEF RoomInv
    <3>9. \A c \in Bases : latest'[c] > 0 => c \in active'
      BY <1>0, <3>1, <3>2, <3>6, Zenon
    <3>10. \A c \in Bases : IsFiniteSet(Appenders(c)') /\ latest'[c] + Cardinality(Appenders(c)') <= use'.chain
      BY <3>5, <3>7, <3>8, Zenon
    <3> QED
      BY <3>9, <3>10, Zenon DEF RoomInv
  <2> QED
    BY <1>3, <2>3, <2>4, <2>5, Zenon
       DEF Step, Acquire, CheckMark, CheckAbsent, CheckPresent, Mark, CheckClear, LookInRegistry,
           LookInIndex, Recache, Extend, Put, Cache, PutRaises, Pop, Uncache, Unmark, Sweep
<1> QED
  BY <1>1, <1>2, <1>3, Zenon DEF Next

(* The name an operation is at is a name: no chain outgrows its bound. *)
LEMMA TargetNamed ==
    ASSUME ControlInv, RoomInv, NEW t \in Threads
    PROVE  /\ target[t] \in Bases \X (0 .. MaxChain + 1)
           /\ pc[t] \in {"look", "lookup", "recache", "put", "cache", "pop", "uncache"}
                 => target[t] \in Names
           /\ pc[t] = "sweep" /\ target[t][2] <= latest[Base(name[t])] => target[t] \in Names
           /\ pc[t] = "extend" => Increment(Base(name[t]), latest[Base(name[t])] + 1) \in Names
<1>1. PICK b \in Bases : b = Base(name[t])
  BY NameParts, Zenon DEF ControlInv, Base
<1>2. latest[b] \in Nat /\ use.chain \in 0 .. MaxChain /\ MaxChain \in Nat
  BY DirectoryAssumption, Zenon DEF ControlInv
<1>3. IsFiniteSet(Appenders(b)) /\ latest[b] + Cardinality(Appenders(b)) <= use.chain
      /\ Cardinality(Appenders(b)) \in Nat
  BY FS_CardinalityType, Zenon DEF RoomInv
<1>4. latest[b] <= use.chain
  BY <1>2, <1>3
<1>5. op[t] = "append" /\ pc[t] # "idle" => latest[b] + 1 <= use.chain
  <2>1. op[t] = "append" /\ pc[t] # "idle" => Appenders(b) # {}
    BY <1>1, Zenon DEF Appenders, Busy
  <2>2. Appenders(b) # {} => Cardinality(Appenders(b)) # 0
    BY <1>3, FS_EmptySet, Zenon
  <2> QED
    BY <1>2, <1>3, <2>1, <2>2
<1>6. /\ name[t] \in Names /\ target[t] \in Bases \X Nat /\ PlaceFits(t) /\ TargetFits(t)
      /\ target[t][2] \in Nat /\ target[t] = << b, target[t][2] >> /\ name[t][2] \in 0 .. MaxChain
  <2>1. name[t] \in Names /\ target[t] \in Bases \X Nat /\ PlaceFits(t) /\ TargetFits(t)
    BY Zenon DEF ControlInv
  <2>2. Base(target[t]) = b
    BY <1>1, <2>1, Zenon DEF TargetFits
  <2> QED
    BY <2>1, <2>2, NameParts, Zenon DEF Base
<1>7. \A i \in 0 .. MaxChain : << b, i >> \in Names
  BY Zenon DEF Names
<1>8. pc[t] \in {"look", "lookup", "recache", "put", "cache", "pop", "uncache"} => target[t] \in Names
  <2>1. CASE op[t] \notin Stalks
    BY <1>6, <2>1, Zenon DEF TargetFits
  <2>2. CASE op[t] = "append"
    BY <1>1, <1>2, <1>4, <1>5, <1>6, <1>7, <2>2, SMTT(30) DEF TargetFits, PlaceFits
  <2>3. CASE op[t] \in {"clear", "reset"}
    BY <1>1, <1>2, <1>4, <1>6, <1>7, <2>3, SMTT(30) DEF TargetFits, PlaceFits, Writes
  <2> QED
    BY <2>1, <2>2, <2>3, Zenon DEF Stalks
<1>9. pc[t] = "sweep" /\ target[t][2] <= latest[b] => target[t] \in Names
  BY <1>2, <1>4, <1>6, <1>7
<1>10. pc[t] = "extend" => Increment(b, latest[b] + 1) \in Names
  BY <1>2, <1>5, <1>6, <1>7 DEF PlaceFits, Increment
<1>11. target[t][2] <= MaxChain + 1
  <2>1. CASE op[t] \notin Stalks \/ pc[t] \in {"idle", "acquire", "check"}
    BY <1>2, <1>6, <2>1 DEF TargetFits
  <2>2. CASE pc[t] = "sweep"
    BY <1>1, <1>2, <1>4, <1>6, <2>2 DEF TargetFits
  <2>3. CASE pc[t] \in {"look", "lookup", "recache", "put", "cache", "pop", "uncache"}
    BY <1>2, <1>8, <2>3, NameParts
  <2>4. CASE pc[t] = "extend"
    BY <1>1, <1>2, <1>4, <1>6, <2>4, SMTT(30) DEF TargetFits, PlaceFits
  <2> QED
    BY <1>6, <2>1, <2>2, <2>3, <2>4, Zenon DEF PlaceFits, ControlInv, Places, Stalks
<1> QED
  BY <1>1, <1>6, <1>8, <1>9, <1>10, <1>11

LEMMA NamesFit == ControlInv /\ RoomInv => NamedInv
<1> SUFFICES ASSUME ControlInv, RoomInv PROVE NamedInv
  BY Zenon
<1>1. ASSUME NEW b \in Bases
      PROVE  latest[b] <= MaxChain
  <2>1. latest[b] \in Nat /\ Cardinality(Appenders(b)) \in Nat /\ use.chain \in 0 .. MaxChain
        /\ latest[b] + Cardinality(Appenders(b)) <= use.chain
    BY FS_CardinalityType, DirectoryAssumption, Zenon DEF ControlInv, RoomInv
  <2> QED
    BY <2>1, DirectoryAssumption
<1> QED
  BY <1>1, TargetNamed, Zenon DEF NamedInv

-----------------------------------------------------------------------------
(* The registry stays within its capacity. *)
CapacityInv == IsFiniteSet(Held) /\ Cardinality(Held) <= use.capacity

(* HybridRegistry.put drops an entry where there is no room for another. *)
LEMMA RegistryPutFits ==
    ASSUME registry \in [Names -> Given], CapacityInv, use \in Uses, NEW n \in Names, NEW v \in Given, RegistryPut(n, v)
    PROVE  IsFiniteSet(Held') /\ Cardinality(Held') <= use.capacity
<1>0. registry \in [Names -> Given] /\ {} \in Given /\ use.capacity \in Nat
  BY DirectoryAssumption, Zenon DEF Given
<1>1. IsFiniteSet(Held) /\ Cardinality(Held) <= use.capacity /\ Cardinality(Held) \in Nat
  BY FS_CardinalityType, Zenon DEF CapacityInv
<1>2. CASE (n \in Held \/ Cardinality(Held) < use.capacity) /\ registry' = [registry EXCEPT ![n] = v]
  <2>1. Held' \subseteq Held \cup {n}
    BY <1>0, <1>2, Zenon DEF Held
  <2>2. IsFiniteSet(Held \cup {n}) /\ Cardinality(Held \cup {n}) <= use.capacity
        /\ Cardinality(Held \cup {n}) \in Nat
    <3>1. CASE n \in Held
      <4>1. Held \cup {n} = Held
        BY <3>1, Zenon
      <4> QED
        BY <1>1, <4>1, Zenon
    <3>2. CASE n \notin Held
      <4>1. IsFiniteSet(Held \cup {n}) /\ Cardinality(Held \cup {n}) = Cardinality(Held) + 1
        BY <1>1, <3>2, FS_AddElement, Zenon
      <4> QED
        BY <1>0, <1>1, <1>2, <3>2, <4>1
    <3> QED
      BY <3>1, <3>2, Zenon
  <2>3. IsFiniteSet(Held') /\ Cardinality(Held') <= Cardinality(Held \cup {n}) /\ Cardinality(Held') \in Nat
    BY <2>1, <2>2, FS_Subset, FS_CardinalityType, Zenon
  <2>4. Cardinality(Held') <= use.capacity
    BY <1>0, <2>2, <2>3
  <2> QED
    BY <2>3, <2>4, Zenon
<1>3. CASE ~ (n \in Held \/ Cardinality(Held) < use.capacity)
  <2>1. PICK m \in Held : registry' = [registry EXCEPT ![m] = {}, ![n] = v]
    BY <1>3, Zenon DEF RegistryPut
  <2>2. n \notin Held /\ m \in Names /\ m # n
    BY <1>3, Zenon DEF Held
  <2>3. registry' \in [Names -> Given] /\ registry'[n] = v /\ registry'[m] = {}
        /\ \A k \in Names \ {n, m} : registry'[k] = registry[k]
    BY <1>0, <2>1, <2>2, Zenon
  <2>4. Held' \subseteq (Held \ {m}) \cup {n}
    BY <2>2, <2>3, Zenon DEF Held
  <2>5. IsFiniteSet(Held \ {m}) /\ Cardinality(Held \ {m}) = Cardinality(Held) - 1
    BY <1>1, FS_RemoveElement, Zenon
  <2>6. IsFiniteSet((Held \ {m}) \cup {n}) /\ Cardinality((Held \ {m}) \cup {n}) = Cardinality(Held \ {m}) + 1
    BY <2>2, <2>5, FS_AddElement, Zenon
  <2>7. IsFiniteSet(Held') /\ Cardinality(Held') <= Cardinality((Held \ {m}) \cup {n}) /\ Cardinality(Held') \in Nat
    BY <2>4, <2>6, FS_Subset, FS_CardinalityType, Zenon
  <2>8. Cardinality(Held') <= use.capacity
    BY <1>0, <1>1, <2>5, <2>6, <2>7
  <2> QED
    BY <2>7, <2>8, Zenon
<1> QED
  BY <1>0, <1>1, <1>2, <1>3 DEF RegistryPut

LEMMA InitCapacity == Init => CapacityInv
<1> SUFFICES ASSUME Init PROVE CapacityInv
  BY Zenon
<1>1. Held = {} /\ IsFiniteSet({}) /\ Cardinality({}) = 0
  BY FS_EmptySet, Zenon DEF Init, Held
<1>2. use.capacity \in Nat
  BY DirectoryAssumption, Zenon DEF Init
<1> QED
  BY <1>1, <1>2 DEF CapacityInv

LEMMA CapacityInduction ==
    ASSUME DirectoryInv, CapacityInv, [Next]_vars
    PROVE  CapacityInv'
<1>0. registry \in [Names -> Given] /\ use \in Uses /\ value \in [Threads -> Given] /\ found \in [Threads -> Given]
  BY Zenon DEF DirectoryInv, ControlInv, DataInv
<1>1. CASE registry' = registry /\ use' = use
  BY <1>1, Zenon DEF CapacityInv, Held
<1>2. ASSUME NEW t \in Threads, Recache(t) \/ Cache(t), use' = use
      PROVE  CapacityInv'
  <2>1. PICK v \in Given : RegistryPut(target[t], v) /\ target[t] \in Names
    BY <1>0, <1>2, Zenon DEF Recache, Cache, At, DirectoryInv, NamedInv
  <2> QED
    BY <1>0, <1>2, <2>1, RegistryPutFits, Zenon DEF CapacityInv
<1>3. ASSUME NEW t \in Threads, Uncache(t), use' = use
      PROVE  CapacityInv'
  <2>1. Held' \subseteq Held
    BY <1>0, <1>3, Zenon DEF Uncache, At, Held
  <2>2. /\ IsFiniteSet(Held') /\ Cardinality(Held') <= Cardinality(Held) /\ Cardinality(Held') \in Nat
        /\ Cardinality(Held) \in Nat /\ Cardinality(Held) <= use.capacity /\ use.capacity \in Nat
    BY <1>0, <2>1, FS_Subset, FS_CardinalityType, DirectoryAssumption, Zenon DEF CapacityInv
  <2> QED
    BY <1>3, <2>2 DEF CapacityInv
<1>4. ASSUME NEW t \in Threads, Step(t), use' = use
      PROVE  registry' = registry \/ Recache(t) \/ Cache(t) \/ Uncache(t)
  BY <1>4, Zenon
     DEF Step, Acquire, CheckMark, CheckAbsent, CheckPresent, Mark, CheckAppend, CheckClear, Extend,
         LookInRegistry, LookInIndex, Put, Pop, PutRaises, Unmark, Sweep, Swept, SweptFrom, shared
<1>5. CASE UNCHANGED vars
  BY <1>1, <1>5, Zenon DEF vars, shared
<1>6. ASSUME NEW t \in Threads, NEW o \in use.operations, NEW n \in Names, Call(t, o, n)
      PROVE  registry' = registry
  BY <1>6, Zenon DEF Call, shared
<1> QED
  BY <1>1, <1>2, <1>3, <1>4, <1>5, <1>6, Zenon DEF Next

-----------------------------------------------------------------------------
(* What is checked under the chain lock.  A stalkvar call that goes on has *)
(* seen no mark, and an addvar that goes on has seen no entry.             *)
CheckInv ==
    /\ \A t \in Threads : Busy(t) => op[t] \in use.operations
    /\ \A t \in Threads :
           op[t] \in Stalks /\ pc[t] \notin {"idle", "acquire", "check"} => name[t] \notin locked
    /\ use.increments => locked = {}
    /\ \A t \in Threads : op[t] = "add" /\ pc[t] = "put" => index[name[t]] = {}

(* Increments are marked where they are not used by their own names, and   *)
(* addvar is used with no unserialized writer of the same entries: write,  *)
(* write_text and editvar do not take the chain lock.                      *)
ChainLocked ==
    \A u \in Uses :
        /\ "lock" \in u.operations => ~ u.increments
        /\ "add" \in u.operations /\ ~ u.exclusive
              => ~ u.increments /\ u.operations \cap {"write", "text", "overtext", "editnew"} = {}

LEMMA InitCheck == Init => CheckInv
BY Zenon DEF Init, CheckInv, Busy

LEMMA CheckStep ==
    ASSUME ChainLocked, DirectoryInv, CallInv, CheckInv, NEW t \in Threads, Step(t), use' = use
    PROVE  CheckInv'
<1>0. ControlInv /\ use \in Uses /\ name \in [Threads -> Names] /\ index \in [Names -> Given]
  BY Zenon DEF DirectoryInv, ControlInv, DataInv
<1>1. /\ UNCHANGED << op, name >> /\ Busy(t)
      /\ \A s \in Threads \ {t} : pc'[s] = pc[s] /\ target'[s] = target[s]
  BY StepShape, StepLocals, Zenon DEF DirectoryInv, ControlInv, Busy
<1>2. \A s \in Threads : Busy(s)' => op'[s] \in use'.operations
  BY <1>1, Zenon DEF CheckInv, Busy
<1>3. use.increments => locked' = {}
  BY <1>0, <1>1, StepMarks DEF CheckInv, ChainLocked
<1>4. ASSUME NEW s \in Threads, op[s] \in Stalks, pc'[s] \notin {"idle", "acquire", "check"}
      PROVE  name[s] \notin locked'
  <2>1. name[s] \notin locked
    <3>1. CASE s # t
      BY <1>1, <1>4, <3>1, Zenon DEF CheckInv
    <3>2. CASE s = t /\ pc[t] \in {"acquire", "check"}
      BY <1>4, <3>2, StepChain, Zenon
    <3>3. CASE s = t /\ pc[t] \notin {"acquire", "check"}
      BY <1>1, <1>4, <3>3, Zenon DEF CheckInv, Busy
    <3> QED
      BY <3>1, <3>2, <3>3, Zenon
  <2>2. ~ (pc[t] = "mark" /\ op[t] = "lock" /\ name[s] = name[t])
    <3>1. ASSUME pc[t] = "mark", op[t] = "lock", name[s] = name[t]
          PROVE  FALSE
      <4>1. s # t /\ Inside(t)
        BY <1>4, <3>1, Zenon DEF Inside, Stalks, Chained
      <4>2. Inside(s)
        BY <1>1, <1>4, <4>1, Zenon DEF Inside, Stalks, Chained
      <4> QED
        BY <1>0, <3>1, <4>1, <4>2, OneInside, Zenon
    <3> QED
      BY <3>1, Zenon
  <2> QED
    BY <2>1, <2>2, StepMarks, Zenon
<1>5. ASSUME NEW s \in Threads, op[s] = "add", pc'[s] = "put"
      PROVE  index'[name[s]] = {}
  <2>1. CASE s = t
    BY <1>5, <2>1, StepChain, Zenon
  <2>2. CASE s # t
    <3>1. index[name[s]] = {} /\ name[s] \in Names /\ pc[s] = "put"
      BY <1>0, <1>1, <1>5, <2>2, Zenon DEF CheckInv
    <3>2. ASSUME index'[name[s]] # {}
          PROVE  FALSE
      <4>1. pc[t] = "put" /\ target[t] = name[s]
        BY <1>0, <3>1, <3>2, StepIndex, Zenon
      <4>2. PlaceFits(t) /\ TargetFits(t) /\ Base(name[s]) = Base(name[t])
        BY <1>0, <4>1, Zenon DEF ControlInv, TargetFits
      <4>3. ~ use.exclusive
        BY <1>1, <2>2, <3>1, <4>2, Zenon DEF CallInv, Busy
      <4>4. /\ ~ use.increments /\ use.operations \cap {"write", "text", "overtext", "editnew"} = {}
            /\ op[t] \in use.operations
        BY <1>0, <1>1, <1>5, <3>1, <4>3, Zenon DEF CheckInv, ChainLocked, Busy
      <4>5. op[t] \in {"add", "append", "reset"}
        BY <4>1, <4>2, <4>4, Zenon DEF PlaceFits, Writes
      <4>6. op[t] # "append"
        <5>1. name[s][2] = 0 /\ latest[Base(name[t])] \in Nat
          BY <1>0, <4>4, NameParts, Zenon DEF CallInv, ControlInv, Base
        <5> QED
          BY <4>1, <4>2, <5>1 DEF TargetFits
      <4>7. name[t] = name[s]
        BY <4>1, <4>2, <4>5, <4>6, Zenon DEF TargetFits, Stalks
      <4>8. Inside(t) /\ Inside(s)
        BY <1>5, <3>1, <4>1, <4>5, Zenon DEF Inside, Chained
      <4> QED
        BY <1>0, <2>2, <4>7, <4>8, OneInside, Zenon
    <3> QED
      BY <3>2, Zenon
  <2> QED
    BY <2>1, <2>2, Zenon
<1> QED
  BY <1>1, <1>2, <1>3, <1>4, <1>5, Zenon DEF CheckInv

LEMMA CheckInduction ==
    ASSUME ChainLocked, DirectoryInv, CallInv, CheckInv, [Next]_vars
    PROVE  CheckInv'
<1>1. CASE UNCHANGED vars
  BY <1>1, Zenon DEF vars, shared, locals, CheckInv, Busy
<1>2. ASSUME NEW t \in Threads, NEW o \in use.operations, NEW n \in Names, Call(t, o, n), use' = use
      PROVE  CheckInv'
  <2>1. /\ pc[t] = "idle" /\ op'[t] = o /\ UNCHANGED << index, locked >>
        /\ pc'[t] = IF o = "read" THEN "look" ELSE IF o \in Chained THEN "acquire" ELSE "check"
        /\ \A s \in Threads \ {t} : pc'[s] = pc[s] /\ op'[s] = op[s] /\ name'[s] = name[s]
    BY <1>2, Zenon DEF Call, At, Goto, shared, DirectoryInv, ControlInv
  <2> QED
    BY <1>2, <2>1, Zenon DEF CheckInv, Busy, Stalks
<1>3. ASSUME NEW t \in Threads, Step(t), use' = use
      PROVE  CheckInv'
  BY <1>3, CheckStep, Zenon
<1> QED
  BY <1>1, <1>2, <1>3, Zenon DEF Next

(* What a step may change, given the checks made before it. *)
Heeded ==
    /\ \A t \in Threads : Put(t) /\ op[t] = "add" => index[target[t]] = {}
    /\ \A b \in Bases :
           Increment(b, 0) \in locked =>
               /\ active' \cap {b} = active \cap {b}
               /\ latest'[b] = latest[b]
               /\ \A i \in 1 .. MaxChain : index'[Increment(b, i)] = index[Increment(b, i)]

LEMMA HeededStep ==
    ASSUME DirectoryInv, CallInv, CheckInv, NEW t \in Threads, Step(t), NEW b \in Bases,
           Increment(b, 0) \in locked
    PROVE  /\ active' \cap {b} = active \cap {b} /\ latest'[b] = latest[b]
           /\ \A i \in 1 .. MaxChain : index'[Increment(b, i)] = index[Increment(b, i)]
<1>0. /\ PlaceFits(t) /\ TargetFits(t) /\ name[t] = << Base(name[t]), name[t][2] >>
      /\ index \in [Names -> Given] /\ locked \subseteq Names
  BY NameParts, Zenon DEF DirectoryInv, ControlInv, DataInv, Base
<1>1. ~ (b = Base(name[t]) /\ op[t] \in Stalks /\ name[t] \notin locked)
  BY <1>0, Zenon DEF PlaceFits, Increment
<1>2. latest'[b] = latest[b] /\ (b \in active' <=> b \in active)
  BY <1>1, StepChain, Zenon DEF CheckInv
<1>3. ASSUME NEW i \in 1 .. MaxChain, index'[Increment(b, i)] # index[Increment(b, i)]
      PROVE  FALSE
  <2>0. Increment(b, i) \in Names
    BY DirectoryAssumption DEF Increment, Names
  <2>1. target[t] = Increment(b, i) /\ pc[t] \in {"put", "pop"}
    BY <1>0, <1>3, <2>0, StepIndex, Zenon
  <2>2. ~ use.increments
    BY Zenon DEF CheckInv
  <2>3. target[t] # name[t] /\ Base(name[t]) = b
    BY <1>0, <2>1, <2>2, SMTT(30) DEF CallInv, Increment, TargetFits, Base
  <2>4. op[t] \in Stalks
    BY <1>0, <2>3, Zenon DEF TargetFits
  <2> QED
    BY <1>1, <2>1, <2>3, <2>4, Zenon DEF CheckInv
<1> QED
  BY <1>2, <1>3, Zenon

-----------------------------------------------------------------------------
(* All of it together is inductive. *)
WholeInv == DirectoryInv /\ RoomInv /\ CapacityInv

LEMMA WholeInduction ==
    /\ Init => WholeInv
    /\ WholeInv /\ [Next]_vars => WholeInv'
<1>1. Init => WholeInv
  BY InitControl, InitRoom, InitData, InitCapacity, NamesFit, Zenon DEF WholeInv, DirectoryInv
<1>2. ASSUME WholeInv, [Next]_vars
      PROVE  WholeInv'
  <2>1. ControlInv' /\ DataInv' /\ CapacityInv'
    BY <1>2, ControlInduction, DataInduction, CapacityInduction, Zenon DEF WholeInv, DirectoryInv
  <2>2. RoomInv'
    BY <1>2, <2>1, RoomInduction, Zenon DEF WholeInv, DirectoryInv
  <2>3. (ControlInv /\ RoomInv => NamedInv)'
    BY NamesFit, PTL
  <2> QED
    BY <2>1, <2>2, <2>3, Zenon DEF WholeInv, DirectoryInv
<1> QED
  BY <1>1, <1>2, Zenon

LEMMA DirectoryTypes == WholeInv => TypeOK
<1> SUFFICES ASSUME WholeInv PROVE TypeOK
  BY Zenon
<1>1. ControlInv /\ RoomInv /\ DataInv /\ CapacityInv
  BY Zenon DEF WholeInv, DirectoryInv
<1>2. use.chain \in Nat /\ use.data \in 0 .. MaxData /\ MaxData \in Nat
  BY <1>1, DirectoryAssumption DEF ControlInv
<1>3. Given \subseteq Values
  BY <1>1, <1>2 DEF Given, Values, DataInv
<1>4. /\ index \in [Names -> Values] /\ registry \in [Names -> Values]
      /\ value \in [Threads -> Values] /\ found \in [Threads -> Values]
  BY <1>1, <1>3, Zenon DEF DataInv
<1>5. ASSUME NEW b \in Bases
      PROVE  latest[b] \in 0 .. use.chain
  <2>1. latest[b] \in Nat /\ Cardinality(Appenders(b)) \in Nat
        /\ latest[b] + Cardinality(Appenders(b)) <= use.chain
    BY <1>1, FS_CardinalityType, Zenon DEF ControlInv, RoomInv
  <2> QED
    BY <1>2, <2>1
<1>6. latest \in [Bases -> 0 .. use.chain] /\ \A b \in Bases : latest[b] > 0 => b \in active
  BY <1>1, <1>5, Zenon DEF ControlInv, RoomInv
<1>7. target \in [Threads -> Bases \X (0 .. MaxChain + 1)]
  BY <1>1, TargetNamed, Zenon DEF ControlInv
<1> QED
  BY <1>1, <1>4, <1>6, <1>7, Zenon DEF TypeOK, ControlInv, DataInv, CapacityInv

(* The directory's index, registry, filter, marks and chains keep their    *)
(* types under any use; the registry never holds more entries than its     *)
(* capacity, and no chain is counted that stalkvars does not have.         *)
THEOREM DirectoryTypeCorrect == Spec => []TypeOK
<1>1. Spec => []WholeInv
  BY WholeInduction, PTL DEF Spec
<1> QED
  BY <1>1, DirectoryTypes, PTL

(* Where a variable is used by one thread at a time, a read through the    *)
(* Bloom filter and the registry returns what the index holds, for any     *)
(* number of threads, variables and entries of the registry (read_value,   *)
(* _write_entry, delete_entry, HybridRegistry.put).                        *)
THEOREM ReadsStayCurrent == Spec => []ReadsAreCurrent
<1>1. DirectoryInv /\ CurrentInv => ReadsAreCurrent
  <2> SUFFICES ASSUME DirectoryInv, CurrentInv, use.exclusive, NEW n \in Names, ~ InUse(n)
               PROVE  Reads(n) = index[n]
    BY Zenon DEF ReadsAreCurrent
  <2>1. ~ \E t \in Threads : pc[t] \in {"cache", "uncache"} /\ target[t] = n
    BY Zenon DEF InUse, Busy, DirectoryInv, ControlInv, TargetFits
  <2>2. registry[n] \in {{}, index[n]}
    BY <2>1, Zenon DEF CurrentInv, Cached, Private
  <2> QED
    BY <2>2, Zenon DEF Reads, Held, CurrentInv
<1>2. Init => WholeInv /\ CallInv /\ CurrentInv
  BY WholeInduction, InitCall, InitCurrent, Zenon
<1>3. WholeInv /\ CallInv /\ CurrentInv /\ [Next]_vars => (WholeInv /\ CallInv /\ CurrentInv)'
  BY WholeInduction, CallInduction, CurrentInduction, Zenon DEF WholeInv
<1> QED
  BY <1>1, <1>2, <1>3, PTL DEF Spec, WholeInv

(* What is looked at under the chain lock still holds at the write, for    *)
(* any number of threads and variables: addvar replaces no value, and no   *)
(* append, clear or reset of stalkvar lands on a chain after lockvar has   *)
(* marked its variable.                                                    *)
THEOREM ChecksHoldAtWrites ==
    ASSUME ChainLocked
    PROVE  Spec => ChecksStillHold
<1>1. Init => WholeInv /\ CallInv /\ CheckInv
  BY WholeInduction, InitCall, InitCheck, Zenon
<1>2. WholeInv /\ CallInv /\ CheckInv /\ [Next]_vars => (WholeInv /\ CallInv /\ CheckInv)'
  BY WholeInduction, CallInduction, CheckInduction, Zenon DEF WholeInv
<1>3. DirectoryInv /\ CallInv /\ CheckInv /\ [Next]_vars => [Heeded]_vars
  <2> SUFFICES ASSUME DirectoryInv, CallInv, CheckInv, Next
               PROVE  Heeded
    BY Zenon
  <2>1. ASSUME NEW t \in Threads, Put(t), op[t] = "add"
        PROVE  index[target[t]] = {}
    BY <2>1, Zenon DEF Put, At, CheckInv, DirectoryInv, ControlInv, TargetFits, Stalks
  <2>2. ASSUME NEW b \in Bases, Increment(b, 0) \in locked
        PROVE  /\ active' \cap {b} = active \cap {b} /\ latest'[b] = latest[b]
               /\ \A i \in 1 .. MaxChain : index'[Increment(b, i)] = index[Increment(b, i)]
    <3>1. CASE UNCHANGED shared
      BY <3>1, Zenon DEF shared
    <3>2. ASSUME NEW t \in Threads, Step(t)
          PROVE  /\ active' \cap {b} = active \cap {b} /\ latest'[b] = latest[b]
                 /\ \A i \in 1 .. MaxChain : index'[Increment(b, i)] = index[Increment(b, i)]
      BY <2>2, <3>2, HeededStep, Zenon
    <3> QED
      BY <3>1, <3>2, Zenon DEF Next, Call
  <2> QED
    BY <2>1, <2>2, Zenon DEF Heeded
<1> QED
  BY <1>1, <1>2, <1>3, PTL DEF Spec, ChecksStillHold, Heeded, WholeInv

(* Whatever any number of threads call, other than on increments by their  *)
(* own names, no append to a chain of stalk increments is lost and no      *)
(* increment is left over: while nobody holds the chain lock of a variable *)
(* its increments are those StalkState counts, and each holds all that the *)
(* one before it holds and more (stalkvar, _clear_chain, _merge_values).   *)
THEOREM ChainsStayKept == Spec => []ChainsKept
<1>1. Init => WholeInv /\ ChainsInv
  BY WholeInduction, InitCall, InitCurrent, InitCount, InitTail, Zenon
     DEF WholeInv, ChainsInv, FreshInv, Init
<1>2. WholeInv /\ ChainsInv /\ [Next]_vars => (WholeInv /\ ChainsInv)'
  <2> SUFFICES ASSUME WholeInv, ChainsInv, [Next]_vars
               PROVE  WholeInv' /\ ChainsInv'
    BY Zenon
  <2>1. WholeInv' /\ DirectoryInv'
    BY WholeInduction, Zenon DEF WholeInv
  <2>2. CallInv' /\ CurrentInv' /\ FreshInv' /\ CountInv' /\ TailInv'
    BY <2>1, CallInduction, CurrentInduction, FreshInduction, CountInduction, TailInduction, Zenon
       DEF ChainsInv
  <2> QED
    BY <2>1, <2>2, Zenon DEF ChainsInv
<1>3. WholeInv /\ ChainsInv => ChainsKept
  BY DirectoryTypes, ChainsFollow, Zenon DEF ChainsKept
<1> QED
  BY <1>1, <1>2, <1>3, PTL DEF Spec

=============================================================================
