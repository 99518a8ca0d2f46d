------------------------ MODULE DirectoryChainProofs ------------------------
(***************************************************************************)
(* The threads of a directory: where each is in its operation, who holds   *)
(* which chain lock, and what a step of each may change; and what they may *)
(* count on: the registry and the index agree, and the chains are kept     *)
(* whole.  Everything is for any number of threads, variables, increments  *)
(* and data, and for any use of the directory.                             *)
(***************************************************************************)
EXTENDS TDSDirectory, TLAPS

(* A thread that is inside with self._chain_lock(name). *)
Inside(t) == op[t] \in Chained /\ pc[t] \notin {"idle", "acquire"}

(* The chain lock of a name is held by the one thread that is inside. *)
LocksHeld ==
    /\ \A t \in Threads : Inside(t) => holder[name[t]] = t
    /\ \A n \in Names : holder[n] # None => name[holder[n]] = n /\ Inside(holder[n])

(* The operations a place in the code belongs to. *)
PlaceFits(t) ==
    /\ pc[t] = "acquire" => op[t] \in Chained
    /\ pc[t] = "exists" => op[t] = "editnew"
    /\ pc[t] = "mark" => op[t] \in {"lock", "unlock"}
    /\ pc[t] \in {"look", "lookup", "recache"} => op[t] \in {"read", "append"}
    /\ pc[t] = "extend" => op[t] = "append"
    /\ pc[t] \in {"put", "cache"} => op[t] \in Writes
    /\ pc[t] \in {"pop", "uncache"} => op[t] \in {"delete", "clear", "reset"}
    /\ pc[t] = "unmark" => op[t] = "delete"
    /\ pc[t] = "sweep" => op[t] \in {"clear", "reset"}
    /\ op[t] \in Stalks => name[t][2] = 0

(* The entry a thread is at, by what it does: an append reads the last     *)
(* increment and writes the next, a clear goes through the increments.     *)
TargetFits(t) ==
    LET b == Base(name[t]) IN
    /\ Base(target[t]) = b
    /\ op[t] \notin Stalks \/ pc[t] \in {"idle", "acquire", "check"} => target[t] = name[t]
    /\ op[t] = "append" /\ pc[t] \in {"look", "lookup", "recache", "extend"}
          => target[t][2] = latest[b]
    /\ op[t] = "append" /\ pc[t] \in {"look", "lookup", "recache", "extend", "put", "cache"}
          => b \in active
    /\ op[t] = "append" /\ pc[t] \in {"put", "cache"} => target[t][2] = latest[b] + 1
    /\ pc[t] = "sweep" => target[t][2] > 0 /\ (target[t][2] <= latest[b] + 1 \/ target[t][2] = 1)
    /\ op[t] \in {"clear", "reset"} /\ pc[t] \in {"pop", "uncache"}
          => b \in active /\ target[t][2] \in 1 .. latest[b]
    /\ op[t] = "reset" /\ pc[t] \in {"put", "cache"} => target[t] = name[t] /\ b \notin active

ControlInv ==
    /\ use \in Uses
    /\ active \subseteq Bases
    /\ latest \in [Bases -> Nat]
    /\ holder \in [Names -> Threads \cup {None}]
    /\ pc \in [Threads -> Places]
    /\ op \in [Threads -> Writes \cup Chained \cup {"read", "delete"}]
    /\ name \in [Threads -> Names]
    /\ target \in [Threads -> Bases \X Nat]
    /\ LocksHeld
    /\ \A t \in Threads : PlaceFits(t) /\ TargetFits(t)

LEMMA NameParts ==
    /\ \A n \in Names : n = << n[1], n[2] >> /\ n[1] \in Bases /\ n[2] \in 0 .. MaxChain
    /\ \A n \in Bases \X Nat : n = << n[1], n[2] >> /\ n[1] \in Bases /\ n[2] \in Nat
    /\ \A n \in Names : n \in Bases \X Nat
BY DirectoryAssumption DEF Names

LEMMA InitControl == Init => ControlInv
<1> SUFFICES ASSUME Init PROVE ControlInv
  BY Zenon
<1>1. PICK b \in use.variables : name = [t \in Threads |-> << b, 0 >>]
  BY Zenon DEF Init
<1>2. b \in Bases /\ use \in Uses
  BY <1>1, DirectoryAssumption, Zenon DEF Init
<1>3. << b, 0 >> \in Names
  BY <1>2, DirectoryAssumption DEF Names
<1>4. name \in [Threads -> Names] /\ target = name /\ target \in [Threads -> Bases \X Nat]
  BY <1>1, <1>3, NameParts, Zenon DEF Init
<1>5. /\ \A t \in Threads : pc[t] = "idle" /\ op[t] = "read"
      /\ \A n \in Names : holder[n] = None
  BY Zenon DEF Init
<1>6. /\ pc \in [Threads -> Places] /\ op \in [Threads -> Writes \cup Chained \cup {"read", "delete"}]
      /\ holder \in [Names -> Threads \cup {None}]
      /\ active \subseteq Bases /\ latest \in [Bases -> Nat]
  BY Zenon DEF Init, Places
<1>7. LocksHeld
  BY <1>5, Zenon DEF LocksHeld, Inside
<1>8. \A t \in Threads : PlaceFits(t) /\ TargetFits(t)
  BY <1>4, <1>5, Zenon DEF PlaceFits, TargetFits, Stalks
<1> QED
  BY <1>2, <1>4, <1>6, <1>7, <1>8, Zenon DEF ControlInv

(* A step of a thread within its call.  Only a thread that is inside the   *)
(* chain lock of a variable changes what is noted of its chain.            *)
LEMMA ControlStep ==
    ASSUME ControlInv, NEW t \in Threads, NEW place \in Places \ {"acquire"},
           pc[t] \notin {"idle", "acquire"}, pc' = [pc EXCEPT ![t] = place],
           UNCHANGED << use, op, name >>,
           \A n \in Names : holder'[n] = IF place = "idle" /\ holder[n] = t THEN None ELSE holder[n],
           holder' \in [Names -> Threads \cup {None}],
           target' \in [Threads -> Bases \X Nat],
           \A s \in Threads \ {t} : target'[s] = target[s],
           active' \subseteq Bases, latest' \in [Bases -> Nat],
           \A b \in Bases : \/ latest'[b] = latest[b] /\ (b \in active' <=> b \in active)
                            \/ op[t] \in Stalks /\ b = Base(name[t]),
           PlaceFits(t)', TargetFits(t)'
    PROVE  ControlInv'
<1>1. /\ pc' \in [Threads -> Places] /\ pc'[t] = place
      /\ \A s \in Threads \ {t} : pc'[s] = pc[s]
  BY Zenon DEF ControlInv
<1>2. LocksHeld'
  <2>1. ASSUME NEW s \in Threads, Inside(s)'
        PROVE  holder'[name'[s]] = s
    <3>1. Inside(s) /\ name[s] \in Names
      BY <1>1, <2>1, Zenon DEF Inside, ControlInv
    <3>2. holder[name[s]] = s
      BY <3>1, Zenon DEF ControlInv, LocksHeld
    <3> QED
      BY <1>1, <2>1, <3>1, <3>2, Zenon DEF Inside
  <2>2. ASSUME NEW n \in Names, holder'[n] # None
        PROVE  /\ name'[holder'[n]] = n
               /\ op'[holder'[n]] \in Chained /\ pc'[holder'[n]] \notin {"idle", "acquire"}
    <3>1. holder'[n] = holder[n] /\ holder[n] \in Threads /\ (holder[n] = t => place # "idle")
      BY <2>2, Zenon DEF ControlInv
    <3>2. name[holder[n]] = n /\ Inside(holder[n])
      BY <2>2, <3>1, Zenon DEF ControlInv, LocksHeld
    <3> QED
      BY <1>1, <3>1, <3>2, Zenon DEF Inside
  <2> QED
    BY <2>1, <2>2, Zenon DEF LocksHeld, Inside
<1>3. ASSUME NEW s \in Threads \ {t}
      PROVE  PlaceFits(s)' /\ TargetFits(s)'
  <2>1. PlaceFits(s) /\ TargetFits(s) /\ name[s] \in Names /\ name[t] \in Names
    BY Zenon DEF ControlInv
  <2>2. PlaceFits(s)'
    BY <1>1, <2>1, Zenon DEF PlaceFits
  <2>3. CASE op[s] \in Stalks /\ Inside(s) /\ op[t] \in Stalks /\ Base(name[s]) = Base(name[t])
    <3>0. name[s][2] = 0 /\ name[t][2] = 0
      BY <2>1, <2>3, Zenon DEF PlaceFits, ControlInv
    <3>1. name[s] = name[t]
      BY <2>1, <2>3, <3>0, NameParts DEF Base
    <3>2. holder[name[s]] = s /\ holder[name[t]] = t
      BY <2>3, Zenon DEF ControlInv, LocksHeld, Inside, Stalks, Chained
    <3> QED
      BY <3>1, <3>2, Zenon
  <2>4. CASE ~ (op[s] \in Stalks /\ Inside(s) /\ op[t] \in Stalks /\ Base(name[s]) = Base(name[t]))
    <3>1. Base(name[s]) \in Bases
      BY <2>1, NameParts, Zenon DEF Base
    <3>2. CASE op[s] \in Stalks /\ Inside(s)
      <4>1. /\ latest'[Base(name[s])] = latest[Base(name[s])]
            /\ Base(name[s]) \in active' <=> Base(name[s]) \in active
        BY <2>4, <3>1, <3>2, Zenon
      <4> QED
        BY <1>1, <2>1, <2>2, <4>1, Zenon DEF TargetFits
    <3>3. CASE ~ (op[s] \in Stalks /\ Inside(s))
      <4>1. pc[s] \in {"idle", "acquire"} \/ op[s] \notin Stalks
        BY <3>3, Zenon DEF Inside, Stalks, Chained
      <4> QED
        BY <1>1, <2>1, <2>2, <4>1, Zenon DEF TargetFits, PlaceFits, Stalks
    <3> QED
      BY <3>2, <3>3, Zenon
  <2> QED
    BY <2>2, <2>3, <2>4, Zenon
<1> QED
  BY <1>1, <1>2, <1>3, Zenon DEF ControlInv

(* A call that ends. *)
LEMMA ControlReturn ==
    ASSUME ControlInv, NEW t \in Threads, pc[t] \notin {"idle", "acquire"}, Return(t), use' = use,
           active' \subseteq Bases, latest' \in [Bases -> Nat],
           \A b \in Bases : \/ latest'[b] = latest[b] /\ (b \in active' <=> b \in active)
                            \/ op[t] \in Stalks /\ b = Base(name[t])
    PROVE  ControlInv'
<1>1. /\ pc' = [pc EXCEPT ![t] = "idle"] /\ pc'[t] = "idle"
      /\ UNCHANGED << op, name >>
      /\ target' = [target EXCEPT ![t] = name[t]] /\ target'[t] = name[t]
  BY Zenon DEF Return, Goto, ControlInv
<1>2. /\ \A n \in Names : holder'[n] = IF holder[n] = t THEN None ELSE holder[n]
      /\ holder' \in [Names -> Threads \cup {None}]
  BY Zenon DEF Return, ControlInv
<1>3. target' \in [Threads -> Bases \X Nat] /\ \A s \in Threads \ {t} : target'[s] = target[s]
  BY <1>1, NameParts, Zenon DEF ControlInv
<1>4. PlaceFits(t)' /\ TargetFits(t)'
  BY <1>1, Zenon DEF PlaceFits, TargetFits, ControlInv
<1> QED
  BY <1>1, <1>2, <1>3, <1>4, ControlStep, Zenon DEF Places

(* A call that goes on, and leaves what is noted of the chains. *)
LEMMA ControlGoto ==
    ASSUME ControlInv, NEW t \in Threads, NEW place \in Places \ {"acquire", "idle"},
           pc[t] \notin {"idle", "acquire"}, Goto(t, place),
           UNCHANGED << use, holder, op, name, active, latest >>,
           NEW n \in Bases \X Nat, target' = [target EXCEPT ![t] = n],
           PlaceFits(t)', TargetFits(t)'
    PROVE  ControlInv'
<1>1. target' \in [Threads -> Bases \X Nat] /\ \A s \in Threads \ {t} : target'[s] = target[s]
  BY Zenon DEF ControlInv
<1>2. \A m \in Names : holder'[m] = IF place = "idle" /\ holder[m] = t THEN None ELSE holder[m]
  BY Zenon
<1> QED
  BY <1>1, <1>2, ControlStep, Zenon DEF Goto, ControlInv

LEMMA ControlCall ==
    ASSUME ControlInv, NEW t \in Threads, NEW o \in use.operations, NEW n \in Names, Call(t, o, n),
           use' = use
    PROVE  ControlInv'
<1> DEFINE place == IF o = "read" THEN "look" ELSE IF o \in Chained THEN "acquire" ELSE "check"
<1>1. /\ pc[t] = "idle" /\ pc' = [pc EXCEPT ![t] = place]
      /\ op' = [op EXCEPT ![t] = o] /\ name' = [name EXCEPT ![t] = n]
      /\ target' = [target EXCEPT ![t] = n]
      /\ UNCHANGED << holder, active, latest >>
      /\ o \in Stalks => n \in use.variables \X {0}
  BY Zenon DEF Call, At, Goto, shared
<1>2. place \in Places /\ o \in Writes \cup Chained \cup {"read", "delete"} /\ n \in Bases \X Nat
  BY DirectoryAssumption, NameParts, Zenon DEF Places, ControlInv
<1>3. /\ pc' \in [Threads -> Places] /\ pc'[t] = place
      /\ op' \in [Threads -> Writes \cup Chained \cup {"read", "delete"}] /\ op'[t] = o
      /\ name' \in [Threads -> Names] /\ name'[t] = n
      /\ target' \in [Threads -> Bases \X Nat] /\ target'[t] = n
      /\ \A s \in Threads \ {t} : /\ pc'[s] = pc[s] /\ op'[s] = op[s]
                                  /\ name'[s] = name[s] /\ target'[s] = target[s]
  BY <1>1, <1>2, Zenon DEF ControlInv
<1>4. ~ Inside(t) /\ ~ Inside(t)'
  BY <1>1, <1>3, Zenon DEF Inside, Chained
<1>5. \A s \in Threads \ {t} : Inside(s)' <=> Inside(s)
  BY <1>3, Zenon DEF Inside
<1>6. LocksHeld'
  <2>1. \A s \in Threads : Inside(s)' => holder'[name'[s]] = s
    BY <1>1, <1>3, <1>4, <1>5 DEF ControlInv, LocksHeld
  <2>2. ASSUME NEW m \in Names, holder'[m] # None
        PROVE  /\ name'[holder'[m]] = m
               /\ op'[holder'[m]] \in Chained /\ pc'[holder'[m]] \notin {"idle", "acquire"}
    <3>1. holder[m] \in Threads \ {t} /\ name[holder[m]] = m /\ Inside(holder[m])
      BY <1>1, <1>4, <2>2 DEF ControlInv, LocksHeld
    <3> QED
      BY <1>1, <1>3, <3>1, Zenon DEF Inside
  <2> QED
    BY <2>1, <2>2, Zenon DEF LocksHeld, Inside
<1>7. \A s \in Threads \ {t} : PlaceFits(s)' /\ TargetFits(s)'
  BY <1>1, <1>3 DEF ControlInv, PlaceFits, TargetFits
<1>8. o \in Stalks => n[2] = 0
  BY <1>1, Zenon
<1>9. PlaceFits(t)' /\ TargetFits(t)'
  BY <1>3, <1>8, Zenon DEF PlaceFits, TargetFits, Chained, Stalks
<1> QED
  BY <1>1, <1>3, <1>6, <1>7, <1>9, Zenon DEF ControlInv

LEMMA ControlAcquire ==
    ASSUME ControlInv, NEW t \in Threads, Acquire(t), use' = use
    PROVE  ControlInv'
<1>1. /\ pc[t] = "acquire" /\ holder[name[t]] = None /\ name[t] \in Names
      /\ holder' = [holder EXCEPT ![name[t]] = t]
      /\ pc' = [pc EXCEPT ![t] = "check"]
      /\ UNCHANGED << active, latest, op, name, target >>
  BY Zenon DEF Acquire, At, Goto, shared, locals, ControlInv
<1>2. /\ pc' \in [Threads -> Places] /\ pc'[t] = "check"
      /\ holder' \in [Names -> Threads \cup {None}] /\ holder'[name[t]] = t
      /\ \A s \in Threads \ {t} : pc'[s] = pc[s]
      /\ \A n \in Names \ {name[t]} : holder'[n] = holder[n]
      /\ op[t] \in Chained
  BY <1>1, Zenon DEF ControlInv, Places, PlaceFits
<1>3. LocksHeld'
  <2>1. ASSUME NEW s \in Threads, Inside(s)'
        PROVE  holder'[name'[s]] = s
    <3>1. s # t => Inside(s) /\ holder[name[s]] = s /\ name[s] \in Names
      BY <1>1, <1>2, <2>1, Zenon DEF Inside, ControlInv, LocksHeld
    <3>2. s \in Threads /\ s # None
      BY DirectoryAssumption, Zenon
    <3> QED
      BY <1>1, <1>2, <3>1, <3>2, Zenon
  <2>2. ASSUME NEW n \in Names, holder'[n] # None
        PROVE  /\ name'[holder'[n]] = n
               /\ op'[holder'[n]] \in Chained /\ pc'[holder'[n]] \notin {"idle", "acquire"}
    <3>1. CASE n = name[t]
      BY <1>1, <1>2, <3>1, Zenon
    <3>2. CASE n # name[t]
      <4>1. holder'[n] = holder[n] /\ name[holder[n]] = n /\ Inside(holder[n]) /\ holder[n] \in Threads
        BY <1>2, <2>2, <3>2 DEF ControlInv, LocksHeld
      <4> QED
        BY <1>1, <1>2, <4>1, Zenon DEF Inside
    <3> QED
      BY <3>1, <3>2, Zenon
  <2> QED
    BY <2>1, <2>2, Zenon DEF LocksHeld, Inside
<1>4. \A s \in Threads \ {t} : PlaceFits(s)' /\ TargetFits(s)'
  BY <1>1, <1>2 DEF ControlInv, PlaceFits, TargetFits
<1>5. PlaceFits(t) /\ TargetFits(t)
  BY Zenon DEF ControlInv
<1>6. PlaceFits(t)' /\ TargetFits(t)'
  BY <1>1, <1>2, <1>5, Zenon DEF PlaceFits, TargetFits
<1> QED
  BY <1>1, <1>2, <1>3, <1>4, <1>6, Zenon DEF ControlInv

LEMMA ControlKeep ==
    ASSUME ControlInv, NEW t \in Threads, NEW place \in Places \ {"acquire", "idle"},
           pc[t] \notin {"idle", "acquire"}, Goto(t, place),
           UNCHANGED << use, holder, op, name, active, latest, target >>,
           PlaceFits(t)', TargetFits(t)'
    PROVE  ControlInv'
<1>1. target' = [target EXCEPT ![t] = target[t]] /\ target[t] \in Bases \X Nat
  BY Zenon DEF ControlInv
<1> QED
  BY <1>1, ControlGoto, Zenon

LEMMA ControlInduction ==
    ASSUME ControlInv, [Next]_vars
    PROVE  ControlInv'
<1> USE DEF shared, locals, At
<1>a. CASE UNCHANGED vars
  <2>1. UNCHANGED << use, active, latest, holder, pc, op, name, target >>
    BY <1>a, Zenon DEF vars
  <2> QED
    BY <2>1 DEF ControlInv, LocksHeld, Inside, PlaceFits, TargetFits
<1>b. ASSUME NEW t \in Threads, NEW o \in use.operations, NEW n \in Names, Call(t, o, n), use' = use
      PROVE  ControlInv'
  BY <1>b, ControlCall, Zenon
<1>c. ASSUME NEW t \in Threads, Step(t), use' = use
      PROVE  ControlInv'
  <2>a. /\ pc \in [Threads -> Places] /\ active \subseteq Bases /\ latest \in [Bases -> Nat]
        /\ PlaceFits(t) /\ TargetFits(t)
        /\ \A place : Goto(t, place) => pc'[t] = place
    BY Zenon DEF ControlInv, Goto
  <2>b. /\ Base(name[t]) \in Bases /\ name[t] = << Base(name[t]), name[t][2] >>
        /\ target[t] \in Bases \X Nat /\ target[t][2] \in Nat
    BY NameParts, Zenon DEF ControlInv, Base
  <2>c. \A i \in Nat : Increment(Base(name[t]), i) \in Bases \X Nat
    BY <2>b, Zenon DEF Increment
  <2>1. CASE Acquire(t)
    BY <1>c, <2>1, ControlAcquire, Zenon
  <2>2. CASE Return(t) /\ UNCHANGED << active, latest >> /\ pc[t] \notin {"idle", "acquire"}
    BY <1>c, <2>a, <2>2, ControlReturn, Zenon
  <2>3. CASE CheckMark(t)
    <3>1. CASE Return(t)
      BY <2>2, <2>3, <3>1, Zenon DEF CheckMark
    <3>2. CASE ~ Return(t)
      <4>1. PICK place \in {"exists", "pop", "put"} :
               /\ pc[t] = "check" /\ op[t] \in {"write", "editnew", "delete"} /\ Goto(t, place)
               /\ op[t] = "editnew" <=> place = "exists"
               /\ op[t] = "delete" <=> place = "pop"
               /\ UNCHANGED << holder, op, name, active, latest, target >>
        BY <2>3, <3>2, Zenon DEF CheckMark
      <4>2. PlaceFits(t)' /\ TargetFits(t)'
        BY <2>a, <4>1, Zenon DEF PlaceFits, TargetFits, Writes, Stalks
      <4> QED
        BY <1>c, <4>1, <4>2, ControlKeep, Zenon DEF Places
    <3> QED
      BY <3>1, <3>2, Zenon
  <2>4. CASE CheckAbsent(t)
    <3>1. CASE Return(t)
      BY <2>2, <2>4, <3>1, Zenon DEF CheckAbsent
    <3>2. CASE ~ Return(t)
      <4>1. /\ (pc[t] = "check" /\ op[t] \in {"add", "text", "overtext"}) \/ pc[t] = "exists"
            /\ Goto(t, "put") /\ UNCHANGED << holder, op, name, active, latest, target >>
        BY <2>4, <3>2, Zenon DEF CheckAbsent
      <4>2. PlaceFits(t)' /\ TargetFits(t)'
        BY <2>a, <4>1, Zenon DEF PlaceFits, TargetFits, Writes, Stalks
      <4> QED
        BY <1>c, <4>1, <4>2, ControlKeep, Zenon DEF Places
    <3> QED
      BY <3>1, <3>2, Zenon
  <2>5. CASE CheckPresent(t)
    <3>1. CASE Return(t)
      BY <2>2, <2>5, <3>1, Zenon DEF CheckPresent
    <3>2. CASE ~ Return(t)
      <4>1. /\ pc[t] = "check" /\ op[t] \in {"lock", "unlock"}
            /\ Goto(t, "mark") /\ UNCHANGED << holder, op, name, active, latest, target >>
        BY <2>5, <3>2, Zenon DEF CheckPresent
      <4>2. PlaceFits(t)' /\ TargetFits(t)'
        BY <2>a, <4>1, Zenon DEF PlaceFits, TargetFits, Stalks
      <4> QED
        BY <1>c, <4>1, <4>2, ControlKeep, Zenon DEF Places
    <3> QED
      BY <3>1, <3>2, Zenon
  <2>6. CASE Mark(t) \/ PutRaises(t) \/ Unmark(t)
    BY <2>2, <2>6, Zenon DEF Mark, PutRaises, Unmark
  <2>7. CASE CheckAppend(t)
    <3>1. CASE Return(t)
      BY <2>a, <2>b, <1>c, <2>7, <3>1, ControlReturn DEF CheckAppend, Stalks
    <3>2. CASE ~ Return(t)
      <4> DEFINE b == Base(name[t])
      <4>1. /\ pc[t] = "check" /\ op[t] = "append" /\ Goto(t, "look")
            /\ active' = active \cup {b}
            /\ latest' = [latest EXCEPT ![b] = IF b \in active THEN @ ELSE 0]
            /\ target' = [target EXCEPT ![t] = Increment(b, latest'[b])]
            /\ UNCHANGED << holder, op, name >>
        BY <2>7, <3>2, Zenon DEF CheckAppend
      <4>2. active' \subseteq Bases /\ latest' \in [Bases -> Nat] /\ b \in active' /\ latest'[b] \in Nat
        BY <2>a, <2>b, <4>1, Zenon
      <4>3. \A c \in Bases : \/ latest'[c] = latest[c] /\ (c \in active' <=> c \in active)
                             \/ op[t] \in Stalks /\ c = b
        BY <2>a, <2>b, <4>1, Zenon DEF Stalks
      <4>4. /\ target' \in [Threads -> Bases \X Nat] /\ target'[t] = << b, latest'[b] >>
            /\ \A s \in Threads \ {t} : target'[s] = target[s]
        BY <2>c, <4>1, <4>2, Zenon DEF ControlInv, Increment
      <4>5. PlaceFits(t)' /\ TargetFits(t)'
        BY <2>a, <4>1, <4>2, <4>4 DEF PlaceFits, TargetFits, Stalks, Base
      <4>6. /\ pc' = [pc EXCEPT ![t] = "look"] /\ "look" \in Places \ {"acquire"}
            /\ holder' \in [Names -> Threads \cup {None}]
            /\ \A n \in Names : holder'[n] = IF "look" = "idle" /\ holder[n] = t THEN None ELSE holder[n]
        BY <4>1, Zenon DEF Places, Goto, ControlInv
      <4> QED
        BY <1>c, <4>1, <4>2, <4>3, <4>4, <4>5, <4>6, ControlStep, Zenon
    <3> QED
      BY <3>1, <3>2, Zenon
  <2>8. CASE CheckClear(t)
    <3>1. CASE Return(t)
      BY <2>2, <2>8, <3>1, Zenon DEF CheckClear
    <3>2. CASE ~ Return(t)
      <4>0. Increment(Base(name[t]), 1) \in Bases \X Nat
        BY <2>c, Zenon
      <4>1. /\ pc[t] = "check" /\ op[t] \in {"clear", "reset"} /\ Goto(t, "sweep")
            /\ target' = [target EXCEPT ![t] = Increment(Base(name[t]), 1)]
            /\ UNCHANGED << holder, op, name, active, latest >>
        BY <2>8, <3>2, Zenon DEF CheckClear
      <4>2. target'[t] = << Base(name[t]), 1 >>
        BY <4>1, Zenon DEF ControlInv, Increment
      <4>3. PlaceFits(t)' /\ TargetFits(t)'
        BY <2>a, <2>b, <4>1, <4>2, SMTT(30) DEF PlaceFits, TargetFits, Stalks, Base
      <4> QED
        BY <1>c, <4>0, <4>1, <4>3, ControlGoto, Zenon DEF Places
    <3> QED
      BY <3>1, <3>2, Zenon
  <2>9. CASE LookInRegistry(t) \/ LookInIndex(t) \/ Recache(t)
    <3>1. CASE Return(t)
      BY <2>2, <2>9, <3>1, Zenon DEF LookInRegistry, LookInIndex, Recache
    <3>2. CASE ~ Return(t)
      <4>1. PICK place \in {"lookup", "recache", "extend"} :
               /\ pc[t] \in {"look", "lookup", "recache"} /\ Goto(t, place)
               /\ place = "extend" => op[t] # "read"
               /\ UNCHANGED << holder, op, name, active, latest, target >>
        BY <2>9, <3>2, Zenon DEF LookInRegistry, LookInIndex, Recache, Found
      <4>2. PlaceFits(t)' /\ TargetFits(t)'
        BY <2>a, <4>1, Zenon DEF PlaceFits, TargetFits, Stalks
      <4> QED
        BY <1>c, <4>1, <4>2, ControlKeep, Zenon DEF Places
    <3> QED
      BY <3>1, <3>2, Zenon
  <2>10. CASE Extend(t)
    <3>1. CASE Return(t)
      BY <2>2, <2>10, <3>1, Zenon DEF Extend
    <3>2. CASE ~ Return(t)
      <4> DEFINE n == Increment(Base(name[t]), latest[Base(name[t])] + 1)
      <4>0. n \in Bases \X Nat /\ n[2] = latest[Base(name[t])] + 1 /\ Base(n) = Base(name[t])
        BY <2>a, <2>b, <2>c, SMTT(30) DEF Increment, Base
      <4>1. /\ pc[t] = "extend" /\ Goto(t, "put")
            /\ target' = [target EXCEPT ![t] = n]
            /\ UNCHANGED << holder, op, name, active, latest >>
        BY <2>10, <3>2, Zenon DEF Extend
      <4>2. target'[t] = n
        BY <4>1, Zenon DEF ControlInv
      <4>3. PlaceFits(t)' /\ TargetFits(t)'
        BY <2>a, <4>0, <4>1, <4>2, Zenon DEF PlaceFits, TargetFits, Stalks, Writes
      <4> HIDE DEF n
      <4> QED
        BY <1>c, <4>0, <4>1, <4>3, ControlGoto, Zenon DEF Places
    <3> QED
      BY <3>1, <3>2, Zenon
  <2>11. CASE Put(t) \/ Pop(t)
    <3>1. /\ (pc[t] = "put" /\ Goto(t, "cache")) \/ (pc[t] = "pop" /\ Goto(t, "uncache"))
          /\ UNCHANGED << holder, op, name, active, latest, target >>
      BY <2>11, Zenon DEF Put, Pop
    <3>2. PlaceFits(t)' /\ TargetFits(t)'
      BY <2>a, <3>1, Zenon DEF PlaceFits, TargetFits, Stalks
    <3> QED
      BY <1>c, <3>1, <3>2, ControlKeep, Zenon DEF Places
  <2>12. CASE Cache(t)
    <3>1. /\ Return(t) /\ active' = active /\ pc[t] = "cache"
          /\ latest' = IF op[t] = "append" THEN [latest EXCEPT ![Base(name[t])] = @ + 1] ELSE latest
      BY <2>12, Zenon DEF Cache
    <3>2. latest' \in [Bases -> Nat]
      BY <2>a, <2>b, <3>1
    <3>3. \A c \in Bases : latest'[c] = latest[c] \/ (op[t] \in Stalks /\ c = Base(name[t]))
      BY <2>a, <2>b, <3>1, Zenon DEF Stalks
    <3> QED
      BY <1>c, <2>a, <3>1, <3>2, <3>3, ControlReturn, Zenon
  <2>13. CASE Uncache(t) \/ Sweep(t)
    <3>0. /\ pc[t] \in {"uncache", "sweep"} /\ UNCHANGED << holder, op, name, active, latest >>
          /\ pc[t] = "sweep" => Base(name[t]) \in active /\ target[t][2] <= latest[Base(name[t])]
      BY <2>13, Zenon DEF Uncache, Sweep
    <3>1. CASE target' = target
      <4>1. PICK place \in {"pop", "unmark"} :
               /\ Goto(t, place)
               /\ place = "unmark" => pc[t] = "uncache" /\ op[t] = "delete"
               /\ place = "pop" => pc[t] = "sweep"
        BY <2>13, <2>a, <2>b, <3>1, SMTT(30) DEF Uncache, Sweep, Increment, ControlInv
      <4>2. PlaceFits(t)' /\ TargetFits(t)'
        BY <2>a, <2>b, <3>0, <3>1, <4>1 DEF PlaceFits, TargetFits, Stalks
      <4> QED
        BY <1>c, <3>0, <3>1, <4>1, <4>2, ControlKeep, Zenon DEF Places
    <3>2. CASE target' # target
      <4> DEFINE n == Increment(Base(name[t]), target[t][2] + 1)
      <4>0. n \in Bases \X Nat /\ n[2] = target[t][2] + 1 /\ Base(n) = Base(name[t])
        BY <2>b, <2>c, SMTT(30) DEF Increment, Base
      <4>1. /\ target' = [target EXCEPT ![t] = n] /\ Goto(t, "sweep")
            /\ pc[t] = "uncache" => op[t] # "delete"
        <5>1. Base(target[t]) = Base(name[t])
          BY <2>a, Zenon DEF TargetFits
        <5>2. pc[t] = "sweep" /\ pc' = pc => Goto(t, "sweep")
          BY <2>a, Zenon DEF Goto
        <5> QED
          BY <2>13, <3>2, <5>1, <5>2, Zenon DEF Uncache, Sweep
      <4>2. target'[t] = n
        BY <4>1, Zenon DEF ControlInv
      <4>3. PlaceFits(t)' /\ TargetFits(t)'
        <5>1. /\ op[t] \in {"clear", "reset"} /\ pc'[t] = "sweep"
              /\ target[t][2] \in 1 .. latest[Base(name[t])]
          BY <2>a, <2>b, <3>0, <4>1, SMTT(30) DEF PlaceFits, TargetFits
        <5>2. PlaceFits(t)'
          BY <2>a, <3>0, <5>1, Zenon DEF PlaceFits, Stalks
        <5>3. /\ Base(target'[t]) = Base(name[t])
              /\ target'[t][2] > 0 /\ target'[t][2] <= latest[Base(name[t])] + 1
          BY <2>a, <2>b, <4>0, <4>2, <5>1
        <5> QED
          BY <3>0, <5>1, <5>2, <5>3, Zenon DEF TargetFits, Stalks
      <4> HIDE DEF n
      <4> QED
        BY <1>c, <3>0, <4>0, <4>1, <4>3, ControlGoto, Zenon DEF Places
    <3> QED
      BY <3>1, <3>2, Zenon
  <2>14. CASE Swept(t)
    <3> DEFINE b == Base(name[t])
    <3>0. /\ pc[t] = "sweep" /\ active' = active \ {b} /\ latest' = [latest EXCEPT ![b] = 0]
          /\ op[t] \in {"clear", "reset"}
      BY <2>14, <2>a, Zenon DEF Swept, SweptFrom, PlaceFits
    <3>1. /\ active' \subseteq Bases /\ latest' \in [Bases -> Nat]
          /\ \A c \in Bases : \/ latest'[c] = latest[c] /\ (c \in active' <=> c \in active)
                              \/ op[t] \in Stalks /\ c = b
      BY <2>a, <2>b, <3>0, Zenon DEF Stalks
    <3>2. CASE Return(t)
      BY <1>c, <3>0, <3>1, <3>2, ControlReturn, Zenon
    <3>3. CASE ~ Return(t)
      <4>1. /\ op[t] # "clear" /\ target' = [target EXCEPT ![t] = name[t]] /\ Goto(t, "put")
            /\ UNCHANGED << holder, op, name >>
        BY <2>14, <3>3, Zenon DEF Swept, SweptFrom
      <4>2. /\ target'[t] = name[t] /\ target' \in [Threads -> Bases \X Nat]
            /\ \A s \in Threads \ {t} : target'[s] = target[s]
        BY <4>1, NameParts, Zenon DEF ControlInv
      <4>3. PlaceFits(t)' /\ TargetFits(t)'
        BY <2>a, <3>0, <4>1, <4>2, Zenon DEF PlaceFits, TargetFits, Stalks, Writes
      <4>4. /\ pc' = [pc EXCEPT ![t] = "put"] /\ "put" \in Places \ {"acquire"}
            /\ holder' \in [Names -> Threads \cup {None}]
            /\ \A n \in Names : holder'[n] = IF "put" = "idle" /\ holder[n] = t THEN None ELSE holder[n]
        BY <4>1, Zenon DEF Places, Goto, ControlInv
      <4> QED
        BY <1>c, <3>0, <3>1, <4>1, <4>2, <4>3, <4>4, ControlStep, Zenon
    <3> QED
      BY <3>2, <3>3, Zenon
  <2> QED
    BY <1>c, <2>1, <2>3, <2>4, <2>5, <2>6, <2>7, <2>8, <2>9, <2>10, <2>11, <2>12, <2>13, <2>14,
       Zenon
       DEF Step
<1> QED
  BY <1>a, <1>b, <1>c, Zenon DEF Next

-----------------------------------------------------------------------------
(* Entries and the values they have. *)

(* What a step of a call leaves alone. *)
LEMMA StepShape ==
    ASSUME NEW t \in Threads, Step(t), pc \in [Threads -> Places]
    PROVE  /\ UNCHANGED << op, name, data >> /\ pc[t] # "idle"
           /\ \A s \in Threads \ {t} : pc'[s] = pc[s]
<1> USE DEF shared, locals, At, Goto, Return
<1>1. CASE Acquire(t) \/ CheckMark(t) \/ CheckAbsent(t) \/ CheckPresent(t) \/ Mark(t)
  BY <1>1, Zenon DEF Acquire, CheckMark, CheckAbsent, CheckPresent, Mark
<1>2. CASE CheckAppend(t) \/ CheckClear(t) \/ Extend(t) \/ Put(t) \/ Cache(t) \/ PutRaises(t)
  BY <1>2, Zenon DEF CheckAppend, CheckClear, Extend, Put, Cache, PutRaises
<1>3. CASE LookInRegistry(t) \/ LookInIndex(t) \/ Recache(t)
  BY <1>3, Zenon DEF LookInRegistry, LookInIndex, Recache, Found
<1>4. CASE Pop(t) \/ Uncache(t) \/ Unmark(t) \/ Sweep(t) \/ Swept(t)
  BY <1>4, Zenon DEF Pop, Uncache, Unmark, Sweep, Swept, SweptFrom
<1> QED
  BY <1>1, <1>2, <1>3, <1>4, Zenon DEF Step

(* Data are numbered as they are given out. *)
Given == SUBSET (1 .. data)

DataInv ==
    /\ data \in 0 .. use.data
    /\ index \in [Names -> Given]
    /\ registry \in [Names -> Given]
    /\ bloom \subseteq Names
    /\ locked \subseteq Names
    /\ value \in [Threads -> Given]
    /\ found \in [Threads -> Given]

(* The entry an operation is at has a name: no chain outgrows its bound. *)
NamedInv ==
    /\ \A b \in Bases : latest[b] <= MaxChain
    /\ \A t \in Threads :
           LET b == Base(name[t]) IN
           /\ pc[t] \in {"look", "lookup", "recache", "put", "cache", "pop", "uncache"}
                 => target[t] \in Names
           /\ pc[t] = "sweep" /\ target[t][2] <= latest[b] => target[t] \in Names
           /\ pc[t] = "extend" => Increment(b, latest[b] + 1) \in Names

(* What the steps are taken from. *)
DirectoryInv == ControlInv /\ NamedInv /\ DataInv

(* HybridRegistry.put touches no other entry than to drop one. *)
LEMMA RegistryPutKeeps ==
    ASSUME NEW n \in Names, NEW v \in Given, registry \in [Names -> Given], RegistryPut(n, v)
    PROVE  /\ registry' \in [Names -> Given] /\ registry'[n] = v
           /\ \A m \in Names \ {n} : registry'[m] \in {{}, registry[m]}
<1>0. {} \in Given
  BY Zenon DEF Given
<1>1. CASE registry' = [registry EXCEPT ![n] = v]
  BY <1>1, Zenon
<1>2. CASE ~ (registry' = [registry EXCEPT ![n] = v])
  <2>1. PICK m \in Names : m # n /\ registry' = [registry EXCEPT ![m] = {}, ![n] = v]
    BY <1>2, Zenon DEF RegistryPut, Held
  <2> QED
    BY <1>0, <2>1, Zenon
<1> QED
  BY <1>1, <1>2, Zenon

LEMMA InitData == Init => DataInv
<1> SUFFICES ASSUME Init PROVE DataInv
  BY Zenon
<1>1. data \in 0 .. use.data /\ {} \in Given
  BY DirectoryAssumption DEF Init, Given
<1> QED
  BY <1>1, Zenon DEF Init, DataInv

LEMMA DataInduction ==
    ASSUME DirectoryInv, [Next]_vars
    PROVE  DataInv'
<1> USE DEF shared, locals, At
<1>0. /\ {} \in Given /\ use \in Uses /\ data \in Nat /\ use.data \in Nat
      /\ index \in [Names -> Given] /\ registry \in [Names -> Given]
      /\ value \in [Threads -> Given] /\ found \in [Threads -> Given]
  BY DirectoryAssumption DEF DirectoryInv, ControlInv, DataInv, Given
<1>1. CASE UNCHANGED vars
  <2>1. UNCHANGED << use, index, registry, bloom, locked, data, value, found >>
    BY <1>1, Zenon DEF vars
  <2> QED
    BY <2>1, Zenon DEF DirectoryInv, DataInv, Given
<1>2. ASSUME NEW t \in Threads, NEW o \in use.operations, NEW n \in Names, Call(t, o, n), use' = use
      PROVE  DataInv'
  <2>1. /\ UNCHANGED << index, registry, bloom, locked, found >>
        /\ o \in Writes => data < use.data
        /\ data' = IF o \in Writes THEN data + 1 ELSE data
        /\ value' = [value EXCEPT ![t] = IF o \in Writes THEN {data + 1} ELSE {}]
    BY <1>2, Zenon DEF Call
  <2>2. data' \in 0 .. use'.data /\ Given \subseteq Given'
    BY <1>0, <1>2, <2>1, SMTT(30) DEF DirectoryInv, DataInv, Given
  <2>3. (IF o \in Writes THEN {data + 1} ELSE {}) \in Given'
    BY <1>0, <2>1 DEF Given
  <2>4. value' \in [Threads -> Given']
    BY <1>0, <2>1, <2>2, <2>3, Zenon
  <2>5. found' \in [Threads -> Given'] /\ index' \in [Names -> Given'] /\ registry' \in [Names -> Given']
    BY <1>0, <2>1, <2>2, Zenon
  <2> QED
    BY <1>2, <2>1, <2>2, <2>4, <2>5, Zenon DEF DirectoryInv, DataInv
<1>3. ASSUME NEW t \in Threads, Step(t), use' = use
      PROVE  DataInv'
  <2>1. data' = data /\ pc[t] # "idle" /\ Given' = Given
    BY <1>3, StepShape, Zenon DEF DirectoryInv, ControlInv, Given
  <2>2. name[t] \in Names /\ value[t] \in Given /\ found[t] \in Given
        /\ (pc[t] \in {"look", "lookup", "recache", "put", "cache", "pop", "uncache"} => target[t] \in Names)
    BY <1>0, Zenon DEF DirectoryInv, NamedInv, ControlInv
  <2>3. \A v \in Given, w \in Given : v \cup w \in Given
    BY Zenon DEF Given
  <2>4. value' \in [Threads -> Given] /\ found' \in [Threads -> Given]
    <3>1. CASE Return(t) \/ UNCHANGED << value, found >>
      <4>1. \/ value' = value /\ found' = found
            \/ value' = [value EXCEPT ![t] = {}] /\ found' = [found EXCEPT ![t] = {}]
        BY <3>1, Zenon DEF Return
      <4> QED
        BY <1>0, <4>1, Zenon
    <3>2. CASE LookInIndex(t) /\ ~ Return(t)
      <4>1. value' = value /\ found' = [found EXCEPT ![t] = index[target[t]]] /\ index[target[t]] \in Given
        BY <1>0, <2>2, <3>2, Zenon DEF LookInIndex
      <4> QED
        BY <1>0, <4>1, Zenon
    <3>3. CASE (LookInRegistry(t) \/ Recache(t)) /\ ~ Return(t)
      <4>1. PICK v \in Given : UNCHANGED << value, found >>
                               \/ (value' = [value EXCEPT ![t] = @ \cup v] /\ found' = found)
        BY <1>0, <2>2, <3>3, Zenon DEF LookInRegistry, Recache, Found
      <4> QED
        BY <1>0, <2>2, <2>3, <4>1, Zenon
    <3> QED
      BY <1>3, <3>1, <3>2, <3>3, Zenon
         DEF Step, Acquire, CheckMark, CheckAbsent, CheckPresent, Mark, CheckAppend, CheckClear, Extend,
             Put, Cache, PutRaises, Pop, Uncache, Unmark, Sweep, Swept, SweptFrom
  <2>5. index' \in [Names -> Given] /\ bloom' \subseteq Names
    <3>1. CASE UNCHANGED << index, bloom >>
      BY <1>0, <3>1, Zenon DEF DirectoryInv, DataInv
    <3>2. CASE Put(t) \/ Pop(t)
      <4>1. PICK v \in Given : index' = [index EXCEPT ![target[t]] = v]
        BY <1>0, <2>2, <3>2, Zenon DEF Put, Pop
      <4>2. bloom' \subseteq bloom \cup {target[t]} /\ target[t] \in Names
        BY <2>2, <3>2, Zenon DEF Put, Pop
      <4> QED
        BY <1>0, <4>1, <4>2, Zenon DEF DirectoryInv, DataInv
    <3> QED
      BY <1>3, <3>1, <3>2, Zenon
         DEF Step, Acquire, CheckMark, CheckAbsent, CheckPresent, Mark, CheckAppend, CheckClear, Extend,
             LookInRegistry, LookInIndex, Recache, Cache, PutRaises, Uncache, Unmark, Sweep, Swept, SweptFrom
  <2>6. locked' \subseteq Names
    <3>1. \/ locked' = locked \/ locked' = locked \cup {name[t]} \/ locked' = locked \ {name[t]}
      BY <1>3, Zenon
         DEF Step, Acquire, CheckMark, CheckAbsent, CheckPresent, Mark, CheckAppend, CheckClear, Extend,
             LookInRegistry, LookInIndex, Recache, Cache, Put, Pop, PutRaises, Uncache, Unmark, Sweep,
             Swept, SweptFrom
    <3> QED
      BY <2>2, <3>1, Zenon DEF DirectoryInv, DataInv
  <2>7. registry' \in [Names -> Given]
    <3>1. CASE registry' = registry
      BY <1>0, <3>1, Zenon
    <3>2. CASE Recache(t) \/ Cache(t)
      <4>1. PICK v \in Given : RegistryPut(target[t], v) /\ target[t] \in Names
        BY <2>2, <3>2, Zenon DEF Recache, Cache
      <4> QED
        BY <1>0, <4>1, RegistryPutKeeps, Zenon
    <3>3. CASE Uncache(t)
      BY <1>0, <3>3, Zenon DEF Uncache
    <3> QED
      BY <1>3, <3>1, <3>2, <3>3, Zenon
         DEF Step, Acquire, CheckMark, CheckAbsent, CheckPresent, Mark, CheckAppend, CheckClear, Extend,
             LookInRegistry, LookInIndex, Put, Pop, PutRaises, Unmark, Sweep, Swept, SweptFrom
  <2> QED
    BY <1>0, <1>3, <2>1, <2>4, <2>5, <2>6, <2>7, Zenon DEF DirectoryInv, DataInv
<1> QED
  BY <1>1, <1>2, <1>3, Zenon DEF Next

-----------------------------------------------------------------------------
(* What one step of a thread does. *)

LEMMA StepLocals ==
    ASSUME DirectoryInv, NEW t \in Threads, Step(t)
    PROVE  \A s \in Threads \ {t} : /\ target'[s] = target[s] /\ value'[s] = value[s]
                                    /\ found'[s] = found[s]
<1> USE DEF shared, locals
<1>0. /\ target \in [Threads -> Bases \X Nat] /\ value \in [Threads -> Given] /\ found \in [Threads -> Given]
  BY Zenon DEF DirectoryInv, ControlInv, DataInv
<1>1. /\ \/ target' = target
         \/ \E n : target' = [target EXCEPT ![t] = n]
      /\ \/ value' = value
         \/ \E v : value' = [value EXCEPT ![t] = v]
      /\ \/ found' = found
         \/ \E v : found' = [found EXCEPT ![t] = v]
  <2>1. CASE Return(t)
    BY <2>1, Zenon DEF Return
  <2>2. CASE ~ Return(t)
    <3>1. CASE Acquire(t) \/ CheckMark(t) \/ CheckAbsent(t) \/ CheckPresent(t) \/ Mark(t)
      BY <2>2, <3>1, Zenon DEF Acquire, CheckMark, CheckAbsent, CheckPresent, Mark
    <3>2. CASE CheckAppend(t) \/ CheckClear(t) \/ Extend(t) \/ Put(t) \/ Cache(t) \/ PutRaises(t)
      BY <2>2, <3>2, Zenon DEF CheckAppend, CheckClear, Extend, Put, Cache, PutRaises
    <3>3. CASE LookInRegistry(t) \/ LookInIndex(t) \/ Recache(t)
      BY <2>2, <3>3, Zenon DEF LookInRegistry, LookInIndex, Recache, Found
    <3>4. CASE Pop(t) \/ Uncache(t) \/ Unmark(t) \/ Sweep(t) \/ Swept(t)
      BY <2>2, <3>4, Zenon DEF Pop, Uncache, Unmark, Sweep, Swept, SweptFrom
    <3> QED
      BY <3>1, <3>2, <3>3, <3>4, Zenon DEF Step
  <2> QED
    BY <2>1, <2>2, Zenon
<1> QED
  BY <1>0, <1>1, Zenon

(* The index and the filter. *)
LEMMA StepIndex ==
    ASSUME DirectoryInv, NEW t \in Threads, Step(t)
    PROVE  /\ bloom \subseteq bloom'
           /\ \/ index' = index
              \/ /\ pc[t] = "put" /\ pc'[t] = "cache"
                 /\ target[t] \in Names /\ target'[t] = target[t] /\ value'[t] = value[t]
                 /\ index' = [index EXCEPT ![target[t]] = value[t]] /\ target[t] \in bloom'
              \/ /\ pc[t] = "pop" /\ pc'[t] = "uncache"
                 /\ target[t] \in Names /\ target'[t] = target[t]
                 /\ index' = [index EXCEPT ![target[t]] = {}]
<1> USE DEF shared, locals, At
<1>0. pc \in [Threads -> Places]
      /\ (pc[t] \in {"look", "lookup", "recache", "put", "cache", "pop", "uncache"} => target[t] \in Names)
  BY Zenon DEF NamedInv, DirectoryInv, ControlInv
<1>1. CASE Put(t) \/ Pop(t)
  BY <1>0, <1>1, Zenon DEF Put, Pop, Goto
<1>2. CASE ~ (Put(t) \/ Pop(t))
  <2>1. UNCHANGED << index, bloom >>
    BY <1>2, Zenon
       DEF Step, Acquire, CheckMark, CheckAbsent, CheckPresent, Mark, CheckAppend, CheckClear, Extend,
           LookInRegistry, LookInIndex, Recache, Cache, PutRaises, Uncache, Unmark, Sweep, Swept, SweptFrom
  <2> QED
    BY <2>1, Zenon
<1> QED
  BY <1>1, <1>2, Zenon

(* The registry: an entry is dropped, or what the thread carries is put. *)
LEMMA StepRegistry ==
    ASSUME DirectoryInv, NEW t \in Threads, Step(t), NEW n \in Names
    PROVE  /\ \/ registry'[n] \in {{}, registry[n]}
              \/ n = target[t] /\ pc[t] = "recache" /\ registry'[n] = found[t]
              \/ n = target[t] /\ pc[t] = "cache" /\ registry'[n] = value[t]
           /\ pc[t] = "cache" /\ n = target[t] => registry'[n] = value[t]
           /\ pc[t] = "uncache" /\ n = target[t] => registry'[n] = {}
<1> USE DEF shared, locals, At
<1>0. /\ pc[t] \in {"look", "lookup", "recache", "put", "cache", "pop", "uncache"} => target[t] \in Names
      /\ value[t] \in Given /\ found[t] \in Given /\ registry \in [Names -> Given]
  BY Zenon DEF NamedInv, DirectoryInv, ControlInv, DataInv
<1>1. CASE Recache(t)
  <2>1. pc[t] = "recache" /\ RegistryPut(target[t], found[t]) /\ target[t] \in Names
    BY <1>0, <1>1, Zenon DEF Recache
  <2> QED
    BY <1>0, <2>1, RegistryPutKeeps
<1>2. CASE Cache(t)
  <2>1. pc[t] = "cache" /\ RegistryPut(target[t], value[t]) /\ target[t] \in Names
    BY <1>0, <1>2, Zenon DEF Cache
  <2> QED
    BY <1>0, <2>1, RegistryPutKeeps
<1>3. CASE Uncache(t)
  BY <1>0, <1>3, Zenon DEF Uncache
<1>4. CASE ~ (Recache(t) \/ Cache(t) \/ Uncache(t))
  <2>1. registry' = registry /\ pc[t] \notin {"cache", "uncache"}
    BY <1>4, Zenon
       DEF Step, Acquire, CheckMark, CheckAbsent, CheckPresent, Mark, CheckAppend, CheckClear, Extend,
           LookInRegistry, LookInIndex, Put, Pop, PutRaises, Unmark, Sweep, Swept, SweptFrom
  <2> QED
    BY <2>1, Zenon
<1> QED
  BY <1>1, <1>2, <1>3, <1>4, Zenon

(* How a thread comes to carry an entry. *)
LEMMA StepEnters ==
    ASSUME DirectoryInv, NEW t \in Threads, Step(t)
    PROVE  /\ pc'[t] = "recache" => /\ pc[t] = "lookup" /\ target'[t] = target[t]
                                    /\ found'[t] = index[target[t]] /\ index' = index
           /\ pc'[t] = "cache" => /\ pc[t] = "put" /\ target'[t] = target[t] /\ value'[t] = value[t]
                                  /\ target[t] \in Names /\ index'[target[t]] = value[t]
           /\ pc'[t] = "uncache" => pc[t] = "pop"
<1> USE DEF shared, locals, At
<1>0. /\ pc \in [Threads -> Places] /\ found \in [Threads -> Given] /\ index \in [Names -> Given]
      /\ pc[t] \in {"look", "lookup", "recache", "put", "cache", "pop", "uncache"} => target[t] \in Names
  BY Zenon DEF NamedInv, DirectoryInv, ControlInv, DataInv
<1>1. CASE Put(t) \/ Pop(t)
  BY <1>0, <1>1, Zenon DEF Put, Pop, Goto
<1>2. CASE LookInIndex(t) /\ ~ Return(t)
  BY <1>0, <1>2, Zenon DEF LookInIndex, Goto
<1>3. CASE ~ (Put(t) \/ Pop(t)) /\ ~ (LookInIndex(t) /\ ~ Return(t))
  <2>1. CASE Return(t)
    BY <1>0, <2>1, Zenon DEF Return, Goto
  <2>2. CASE ~ Return(t)
    <3>0. \A place : Goto(t, place) => pc'[t] = place
      BY <1>0, Zenon DEF Goto
    <3>1. pc'[t] \notin {"recache", "cache", "uncache"}
      <4>1. CASE Acquire(t) \/ CheckMark(t) \/ CheckAbsent(t) \/ CheckPresent(t) \/ Mark(t)
        BY <2>2, <3>0, <4>1, Zenon DEF Acquire, CheckMark, CheckAbsent, CheckPresent, Mark
      <4>2. CASE CheckAppend(t) \/ CheckClear(t) \/ Extend(t) \/ Cache(t) \/ PutRaises(t)
        BY <2>2, <3>0, <4>2, Zenon DEF CheckAppend, CheckClear, Extend, Cache, PutRaises
      <4>3. CASE LookInRegistry(t) \/ Recache(t)
        BY <2>2, <3>0, <4>3, Zenon DEF LookInRegistry, Recache, Found
      <4>4. CASE Uncache(t) \/ Unmark(t) \/ Sweep(t) \/ Swept(t)
        BY <2>2, <3>0, <4>4, Zenon DEF Uncache, Unmark, Sweep, Swept, SweptFrom
      <4> QED
        BY <1>3, <2>2, <4>1, <4>2, <4>3, <4>4, Zenon DEF Step
    <3> QED
      BY <1>0, <3>1, Zenon
  <2> QED
    BY <2>1, <2>2, Zenon
<1> QED
  BY <1>1, <1>2, <1>3, Zenon

LEMMA StepMarks ==
    ASSUME DirectoryInv, NEW t \in Threads, Step(t)
    PROVE  \/ locked' \subseteq locked
           \/ pc[t] = "mark" /\ op[t] = "lock" /\ locked' = locked \cup {name[t]}
BY Zenon
   DEF Step, Acquire, CheckMark, CheckAbsent, CheckPresent, Mark, CheckAppend, CheckClear, Extend,
       LookInRegistry, LookInIndex, Recache, Cache, Put, Pop, PutRaises, Uncache, Unmark, Sweep,
       Swept, SweptFrom, shared, At

(* The chain of a variable, and where a stalkvar call goes on. *)
LEMMA StepChain ==
    ASSUME DirectoryInv, NEW t \in Threads, Step(t)
    PROVE  /\ \A b \in Bases :
                 \/ latest'[b] = latest[b] /\ (b \in active' <=> b \in active)
                 \/ /\ b = Base(name[t]) /\ op[t] \in Stalks /\ pc[t] \notin {"idle", "acquire"}
                    /\ pc[t] = "check" => name[t] \notin locked
           /\ pc'[t] = "put" /\ op[t] = "add" => index[name[t]] = {} /\ index' = index
           /\ op[t] \in Stalks /\ pc[t] = "check" /\ pc'[t] # "idle" => name[t] \notin locked
           /\ pc[t] = "acquire" => pc'[t] = "check"
<1> USE DEF shared, At
<1>0. /\ active \subseteq Bases /\ latest \in [Bases -> Nat] /\ PlaceFits(t)
      /\ \A place : Goto(t, place) => pc'[t] = place
      /\ Return(t) => pc'[t] = "idle"
  BY Zenon DEF DirectoryInv, ControlInv, Goto, Return
<1>1. CASE CheckAppend(t) \/ CheckClear(t)
  BY <1>0, <1>1, Zenon DEF CheckAppend, CheckClear, Stalks
<1>2. CASE Cache(t) \/ Swept(t)
  BY <1>0, <1>2, Zenon DEF Cache, Swept, SweptFrom, Stalks, PlaceFits
<1>3. CASE Acquire(t) \/ CheckMark(t) \/ CheckPresent(t) \/ Mark(t)
  BY <1>0, <1>3, Zenon DEF Acquire, CheckMark, CheckPresent, Mark, Stalks
<1>4. CASE CheckAbsent(t) \/ Extend(t)
  BY <1>0, <1>4, Zenon DEF CheckAbsent, Extend, Stalks, PlaceFits
<1>5. CASE LookInRegistry(t) \/ LookInIndex(t) \/ Recache(t) \/ Put(t) \/ Pop(t)
  BY <1>0, <1>5, Zenon DEF LookInRegistry, LookInIndex, Recache, Found, Put, Pop
<1>6. CASE Uncache(t) \/ Unmark(t) \/ Sweep(t) \/ PutRaises(t)
  BY <1>0, <1>6, Zenon DEF Uncache, Unmark, Sweep, PutRaises
<1> QED
  BY <1>1, <1>2, <1>3, <1>4, <1>5, <1>6, Zenon DEF Step

(* What a thread picks up. *)
LEMMA StepCarries ==
    ASSUME DirectoryInv, NEW t \in Threads, Step(t)
    PROVE  /\ pc'[t] # "idle" => value[t] \subseteq value'[t] /\ pc[t] # "cache"
           /\ \A d \in value'[t] : d \in value[t] \/ d \in found[t] \/ \E n \in Names : d \in registry[n]
           /\ \A d \in found'[t] : d \in found[t] \/ \E n \in Names : d \in index[n]
<1> USE DEF shared, locals, At
<1>0. /\ value \in [Threads -> Given] /\ found \in [Threads -> Given] /\ pc \in [Threads -> Places]
      /\ pc[t] \in {"look", "lookup", "recache", "put", "cache", "pop", "uncache"} => target[t] \in Names
  BY Zenon DEF NamedInv, DirectoryInv, ControlInv, DataInv
<1>1. CASE Return(t)
  BY <1>0, <1>1, Zenon DEF Return, Goto
<1>2. CASE ~ Return(t) /\ LookInRegistry(t)
  <2>1. /\ pc[t] = "look" /\ found' = found /\ target[t] \in Names
        /\ value' = value \/ value' = [value EXCEPT ![t] = @ \cup registry[target[t]]]
    BY <1>0, <1>2, Zenon DEF LookInRegistry, Found
  <2> QED
    BY <1>0, <2>1, Zenon
<1>3. CASE ~ Return(t) /\ Recache(t)
  <2>1. /\ pc[t] = "recache" /\ found' = found /\ value' = [value EXCEPT ![t] = @ \cup found[t]]
    BY <1>3, Zenon DEF Recache, Found
  <2> QED
    BY <1>0, <2>1, Zenon
<1>4. CASE ~ Return(t) /\ LookInIndex(t)
  <2>1. /\ pc[t] = "lookup" /\ value' = value /\ found' = [found EXCEPT ![t] = index[target[t]]]
        /\ target[t] \in Names
    BY <1>0, <1>4, Zenon DEF LookInIndex
  <2> QED
    BY <1>0, <2>1, Zenon
<1>5. CASE ~ Return(t) /\ ~ LookInRegistry(t) /\ ~ Recache(t) /\ ~ LookInIndex(t)
  <2>1. UNCHANGED << value, found >> /\ pc[t] # "cache"
    <3>1. CASE Acquire(t) \/ CheckMark(t) \/ CheckAbsent(t) \/ CheckPresent(t) \/ Mark(t)
      BY <1>5, <3>1, Zenon DEF Acquire, CheckMark, CheckAbsent, CheckPresent, Mark
    <3>2. CASE CheckAppend(t) \/ CheckClear(t) \/ Extend(t) \/ Put(t) \/ Cache(t) \/ PutRaises(t)
      BY <1>5, <3>2, Zenon DEF CheckAppend, CheckClear, Extend, Put, Cache, PutRaises
    <3>3. CASE Pop(t) \/ Uncache(t) \/ Unmark(t) \/ Sweep(t) \/ Swept(t)
      BY <1>5, <3>3, Zenon DEF Pop, Uncache, Unmark, Sweep, Swept, SweptFrom
    <3> QED
      BY <1>5, <3>1, <3>2, <3>3, Zenon DEF Step
  <2> QED
    BY <2>1, Zenon
<1> QED
  BY <1>1, <1>2, <1>3, <1>4, <1>5, Zenon

-----------------------------------------------------------------------------
(* Threads that have an entry to themselves. *)

(* Two threads that are inside the chain lock of one name are one. *)
LEMMA OneInside ==
    ASSUME ControlInv, NEW s \in Threads, NEW t \in Threads, Inside(s), Inside(t), name[s] = name[t]
    PROVE  s = t
BY Zenon DEF ControlInv, LocksHeld

(* Calls are made as the use says. *)
CallInv ==
    /\ ~ use.increments => \A t \in Threads : name[t][2] = 0
    /\ use.exclusive =>
           \A s, t \in Threads : Busy(s) /\ Busy(t) /\ Base(name[s]) = Base(name[t]) => s = t

LEMMA InitCall == Init => CallInv
<1> SUFFICES ASSUME Init PROVE CallInv
  BY Zenon
<1>1. PICK b \in use.variables : name = [t \in Threads |-> << b, 0 >>]
  BY Zenon DEF Init
<1> QED
  BY <1>1, Zenon DEF Init, CallInv, Busy

LEMMA CallInduction ==
    ASSUME DirectoryInv, CallInv, [Next]_vars
    PROVE  CallInv'
<1>1. CASE UNCHANGED vars
  BY <1>1, Zenon DEF vars, locals, CallInv, Busy
<1>2. ASSUME NEW t \in Threads, NEW o \in use.operations, NEW n \in Names, Call(t, o, n), use' = use
      PROVE  CallInv'
  <2>1. /\ name'[t] = n /\ ~ Busy(t)
        /\ \A s \in Threads \ {t} : name'[s] = name[s] /\ (Busy(s)' <=> Busy(s))
    BY <1>2, Zenon DEF Call, At, Goto, Busy, DirectoryInv, ControlInv
  <2>2. ~ use.increments => n[2] = 0
    BY <1>2, Zenon DEF Call, Direct
  <2>3. use.exclusive => \A s \in Threads : Busy(s) => Base(name[s]) # Base(n)
    BY <1>2, Zenon DEF Call, InUse
  <2> QED
    BY <1>2, <2>1, <2>2, <2>3 DEF CallInv
<1>3. ASSUME NEW t \in Threads, Step(t), use' = use
      PROVE  CallInv'
  <2>1. name' = name /\ \A s \in Threads : Busy(s)' => Busy(s)
    BY <1>3, StepShape, Zenon DEF DirectoryInv, ControlInv, Busy
  <2> QED
    BY <1>3, <2>1, Zenon DEF CallInv
<1> QED
  BY <1>1, <1>2, <1>3, Zenon DEF Next

(* An increment that is not used by its own name, and any entry where a    *)
(* variable is used by one thread at a time, is at hand for one thread.    *)
Private(n) == use.exclusive \/ (~ use.increments /\ n[2] > 0)

AtHand == {"look", "lookup", "recache", "put", "cache", "pop", "uncache"}

LEMMA Alone ==
    ASSUME DirectoryInv, CallInv, NEW s \in Threads, NEW t \in Threads,
           pc[s] \in AtHand, pc[t] \in AtHand, target[s] = target[t], Private(target[t])
    PROVE  s = t
<1>0. ControlInv /\ TargetFits(s) /\ TargetFits(t) /\ PlaceFits(s) /\ PlaceFits(t)
  BY Zenon DEF DirectoryInv, ControlInv
<1>1. Base(name[s]) = Base(name[t])
  BY <1>0, Zenon DEF TargetFits
<1>2. CASE use.exclusive
  BY <1>1, <1>2, Zenon DEF CallInv, Busy, AtHand
<1>3. CASE ~ use.increments /\ target[t][2] > 0
  <2>1. name[s][2] = 0 /\ name[t][2] = 0
    BY <1>3, Zenon DEF CallInv
  <2>2. op[s] \in Stalks /\ op[t] \in Stalks
    BY <1>0, <1>3, <2>1 DEF TargetFits
  <2>3. name[s] = name[t]
    <3>1. name[s] \in Names /\ name[t] \in Names
      BY <1>0, Zenon DEF ControlInv
    <3> QED
      BY <1>1, <2>1, <3>1, NameParts, Zenon DEF Base
  <2>4. Inside(s) /\ Inside(t)
    BY <2>2, Zenon DEF Inside, AtHand, Stalks, Chained
  <2> QED
    BY <1>0, <2>3, <2>4, OneInside, Zenon
<1> QED
  BY <1>2, <1>3, Zenon DEF Private

-----------------------------------------------------------------------------
(* The registry and the index.  A thread carries what the index holds of   *)
(* its entry, and the registry holds the same, unless the thread has yet   *)
(* to bring the registry up to date.                                       *)
Cached(n) ==
    \/ registry[n] \in {{}, index[n]}
    \/ \E t \in Threads : pc[t] \in {"cache", "uncache"} /\ target[t] = n

CurrentInv ==
    /\ \A n \in Names : index[n] # {} => n \in bloom
    /\ \A n \in Names : Private(n) => Cached(n)
    /\ \A t \in Threads : pc[t] = "recache" /\ Private(target[t]) => found[t] = index[target[t]]
    /\ \A t \in Threads : pc[t] = "cache" /\ Private(target[t]) => value[t] = index[target[t]]

LEMMA InitCurrent == Init => CurrentInv
BY Zenon DEF Init, CurrentInv, Cached

LEMMA CurrentStep ==
    ASSUME DirectoryInv, CallInv, CurrentInv, NEW t \in Threads, Step(t), use' = use
    PROVE  CurrentInv'
<1>0. index \in [Names -> Given] /\ \A n : Private(n)' <=> Private(n)
  BY Zenon DEF DirectoryInv, DataInv, Private
<1>1. /\ \A s \in Threads \ {t} : /\ pc'[s] = pc[s] /\ target'[s] = target[s]
                                  /\ value'[s] = value[s] /\ found'[s] = found[s]
  BY StepShape, StepLocals, Zenon DEF DirectoryInv, ControlInv
<1>2. ASSUME NEW n \in Names, index'[n] # index[n]
      PROVE  /\ n = target[t] /\ n = target'[t]
             /\ \/ pc[t] = "put" /\ pc'[t] = "cache" /\ index'[n] = value[t] /\ n \in bloom'
                \/ pc[t] = "pop" /\ pc'[t] = "uncache" /\ index'[n] = {}
  BY <1>0, <1>2, StepIndex, Zenon
<1>3. ASSUME NEW s \in Threads \ {t}, pc[s] \in AtHand, Private(target[s]), target[s] \in Names
      PROVE  index'[target[s]] = index[target[s]]
  <2>1. CASE target[s] # target[t]
    BY <1>2, <1>3, <2>1, Zenon
  <2>2. CASE target[s] = target[t]
    <3>1. pc[t] \notin {"put", "pop"}
      BY <1>3, <2>2, Alone, Zenon DEF AtHand
    <3> QED
      BY <1>2, <1>3, <3>1, Zenon
  <2> QED
    BY <2>1, <2>2, Zenon
<1>4. \A s \in Threads : pc[s] \in {"recache", "cache"} => target[s] \in Names /\ pc[s] \in AtHand
  BY Zenon DEF NamedInv, DirectoryInv, AtHand
<1>5. ASSUME NEW n \in Names, index'[n] # {}
      PROVE  n \in bloom'
  <2>1. index'[n] = index[n] => n \in bloom'
    BY <1>5, StepIndex, Zenon DEF CurrentInv
  <2>2. index'[n] # index[n] => n \in bloom'
    BY <1>2, <1>5, Zenon
  <2> QED
    BY <2>1, <2>2, Zenon
<1>6. ASSUME NEW s \in Threads, pc'[s] = "recache", Private(target'[s])
      PROVE  found'[s] = index'[target'[s]]
  <2>1. CASE s = t
    BY <1>6, <2>1, StepEnters, Zenon
  <2>2. CASE s # t
    BY <1>1, <1>3, <1>4, <1>6, <2>2 DEF CurrentInv
  <2> QED
    BY <2>1, <2>2, Zenon
<1>7. ASSUME NEW s \in Threads, pc'[s] = "cache", Private(target'[s])
      PROVE  value'[s] = index'[target'[s]]
  <2>1. CASE s = t
    BY <1>7, <2>1, StepEnters, Zenon
  <2>2. CASE s # t
    BY <1>1, <1>3, <1>4, <1>7, <2>2 DEF CurrentInv
  <2> QED
    BY <2>1, <2>2, Zenon
<1>8. ASSUME NEW n \in Names, Private(n)
      PROVE  Cached(n)'
  <2>1. CASE index'[n] # index[n]
    BY <1>2, <2>1, Zenon DEF Cached
  <2>2. CASE index'[n] = index[n]
    <3>1. CASE \E s \in Threads \ {t} : pc[s] \in {"cache", "uncache"} /\ target[s] = n
      BY <1>1, <3>1, Zenon DEF Cached
    <3>2. CASE pc[t] = "cache" /\ target[t] = n
      BY <1>8, <2>2, <3>2, StepRegistry DEF CurrentInv, Cached
    <3>3. CASE pc[t] = "uncache" /\ target[t] = n
      BY <3>3, StepRegistry, Zenon DEF Cached
    <3>4. CASE ~ \E s \in Threads : pc[s] \in {"cache", "uncache"} /\ target[s] = n
      <4>1. registry[n] \in {{}, index[n]}
        BY <1>8, <3>4, Zenon DEF CurrentInv, Cached
      <4>2. \/ registry'[n] \in {{}, registry[n]}
            \/ n = target[t] /\ pc[t] = "recache" /\ registry'[n] = found[t]
        BY <3>4, StepRegistry, Zenon
      <4> QED
        BY <1>8, <2>2, <4>1, <4>2, Zenon DEF CurrentInv, Cached
    <3> QED
      BY <3>1, <3>2, <3>3, <3>4, Zenon
  <2> QED
    BY <2>1, <2>2, Zenon
<1> QED
  BY <1>0, <1>5, <1>6, <1>7, <1>8, Zenon DEF CurrentInv

LEMMA CurrentInduction ==
    ASSUME DirectoryInv, CallInv, CurrentInv, [Next]_vars
    PROVE  CurrentInv'
<1>1. CASE UNCHANGED vars
  BY <1>1, Zenon DEF vars, shared, locals, CurrentInv, Cached, Private
<1>2. ASSUME NEW t \in Threads, NEW o \in use.operations, NEW n \in Names, Call(t, o, n), use' = use
      PROVE  CurrentInv'
  <2>1. /\ pc[t] = "idle" /\ UNCHANGED << index, registry, bloom, found >>
        /\ pc'[t] \in {"look", "acquire", "check"}
        /\ \A s \in Threads \ {t} : pc'[s] = pc[s] /\ target'[s] = target[s] /\ value'[s] = value[s]
    BY <1>2, Zenon DEF Call, At, Goto, shared, DirectoryInv, ControlInv, DataInv
  <2>2. \A m : Private(m)' <=> Private(m)
    BY <1>2, Zenon DEF Private
  <2>3. \A m \in Names : Cached(m) => Cached(m)'
    BY <2>1, Zenon DEF Cached
  <2> QED
    BY <2>1, <2>2, <2>3, Zenon DEF CurrentInv
<1>3. ASSUME NEW t \in Threads, Step(t), use' = use
      PROVE  CurrentInv'
  BY <1>3, CurrentStep, Zenon
<1> QED
  BY <1>1, <1>2, <1>3, Zenon DEF Next

-----------------------------------------------------------------------------
(* The datum an append brings is in nobody else's hands until the new      *)
(* increment is stored.                                                    *)
Unseen(t, d) ==
    /\ \A n \in Names : d \notin index[n] /\ d \notin registry[n]
    /\ \A s \in Threads : d \notin found[s] /\ (s # t => d \notin value[s])

FreshInv ==
    \A t \in Threads :
        op[t] = "append" /\ pc[t] \notin {"idle", "cache"} => \E d \in value[t] : Unseen(t, d)

LEMMA FreshInduction ==
    ASSUME DirectoryInv, FreshInv, [Next]_vars
    PROVE  FreshInv'
<1>1. CASE UNCHANGED vars
  BY <1>1, Zenon DEF vars, shared, locals, FreshInv, Unseen
<1>2. ASSUME NEW t \in Threads, NEW o \in use.operations, NEW n \in Names, Call(t, o, n), use' = use
      PROVE  FreshInv'
  <2>0. /\ \A m \in Names : index[m] \in Given /\ registry[m] \in Given
        /\ \A s \in Threads : found[s] \in Given /\ value[s] \in Given
        /\ data \in Nat
    <3>1. data \in 0 .. use.data
      BY Zenon DEF DirectoryInv, DataInv
    <3>2. data \in Nat
      BY <3>1
    <3> QED
      BY <3>2, Zenon DEF DirectoryInv, DataInv
  <2>1. /\ UNCHANGED << index, registry, found >> /\ pc[t] = "idle" /\ op'[t] = o
        /\ value'[t] = IF o \in Writes THEN {data + 1} ELSE {}
        /\ \A s \in Threads \ {t} : pc'[s] = pc[s] /\ op'[s] = op[s] /\ value'[s] = value[s]
    BY <1>2, Zenon DEF Call, At, Goto, shared, DirectoryInv, ControlInv, DataInv
  <2>2. \A v \in Given : data + 1 \notin v
    BY <2>0 DEF Given
  <2>3. ASSUME NEW s \in Threads, op'[s] = "append", pc'[s] \notin {"idle", "cache"}
        PROVE  \E d \in value'[s] : Unseen(s, d)'
    <3>1. CASE s = t
      <4>0. PICK d : d = data + 1
        BY Zenon
      <4>1. value'[t] = {d}
        BY <2>1, <2>3, <3>1, <4>0, Zenon DEF Writes
      <4>2. Unseen(t, d)'
        BY <2>0, <2>1, <2>2, <4>0, Zenon DEF Unseen
      <4> QED
        BY <3>1, <4>1, <4>2, Zenon
    <3>2. CASE s # t
      <4>1. PICK d \in value[s] : Unseen(s, d)
        BY <2>1, <2>3, <3>2, Zenon DEF FreshInv
      <4>2. d # data + 1
        BY <2>0, <2>2, Zenon
      <4>3. Unseen(s, d)'
        BY <2>1, <3>2, <4>1, <4>2, Zenon DEF Unseen
      <4> QED
        BY <2>1, <3>2, <4>1, <4>3, Zenon
    <3> QED
      BY <3>1, <3>2, Zenon
  <2> QED
    BY <2>3, Zenon DEF FreshInv
<1>3. ASSUME NEW t \in Threads, Step(t), use' = use
      PROVE  FreshInv'
  <2>0. index \in [Names -> Given] /\ op' = op
    BY <1>3, StepShape, Zenon DEF DirectoryInv, DataInv, ControlInv
  <2>1. \A s \in Threads \ {t} : pc'[s] = pc[s] /\ value'[s] = value[s] /\ found'[s] = found[s]
    BY <1>3, StepShape, StepLocals, Zenon DEF DirectoryInv, ControlInv
  <2>2. ASSUME NEW n \in Names, NEW d \in index'[n]
        PROVE  d \in index[n] \/ (d \in value[t] /\ pc'[t] = "cache")
    BY <1>3, <2>0, <2>2, StepIndex, Zenon
  <2>3. ASSUME NEW n \in Names, NEW d \in registry'[n]
        PROVE  d \in registry[n] \/ d \in found[t] \/ (d \in value[t] /\ pc[t] = "cache")
    BY <1>3, <2>3, StepRegistry, Zenon
  <2>4. ASSUME NEW s \in Threads, op[s] = "append", pc'[s] \notin {"idle", "cache"}
        PROVE  \E d \in value'[s] : Unseen(s, d)'
    <3>1. pc[s] \notin {"idle", "cache"}
      BY <1>3, <2>1, <2>4, StepShape, StepCarries, Zenon DEF DirectoryInv, ControlInv
    <3>2. PICK d \in value[s] : Unseen(s, d)
      BY <2>4, <3>1, Zenon DEF FreshInv
    <3>3. d \in value'[s]
      BY <1>3, <2>1, <2>4, <3>2, StepCarries, Zenon
    <3>4. \A n \in Names : d \notin index'[n] /\ d \notin registry'[n]
      BY <2>2, <2>3, <2>4, <3>1, <3>2, Zenon DEF Unseen
    <3>5. \A r \in Threads : d \notin found'[r] /\ (r # s => d \notin value'[r])
      BY <1>3, <2>1, <3>2, StepCarries DEF Unseen
    <3> QED
      BY <3>3, <3>4, <3>5, Zenon DEF Unseen
  <2> QED
    BY <2>0, <2>4, Zenon DEF FreshInv
<1> QED
  BY <1>1, <1>2, <1>3, Zenon DEF Next

-----------------------------------------------------------------------------
(* The increments that are stored are those that are counted, less those   *)
(* the thread that clears the chain has passed, and with the one that the  *)
(* thread that appends has still to count.                                 *)
GoneBy(t, i) ==
    /\ op[t] \in {"clear", "reset"}
    /\ \/ pc[t] \in {"sweep", "pop"} /\ i < target[t][2]
       \/ pc[t] = "uncache" /\ i <= target[t][2]

AddedBy(t, i) == op[t] = "append" /\ pc[t] = "cache" /\ i = target[t][2]

Counts(b, i, gone, added) ==
    index[Increment(b, i)] # {} <=> (b \in active /\ i <= latest[b] /\ ~ gone) \/ added

CountAt(b, i) ==
    Counts(b, i, \E t \in Threads : Base(name[t]) = b /\ GoneBy(t, i),
                 \E t \in Threads : Base(name[t]) = b /\ AddedBy(t, i))

CountInv == ~ use.increments => \A b \in Bases, i \in 1 .. MaxChain : CountAt(b, i)

LEMMA InitCount == Init => CountInv
<1> SUFFICES ASSUME Init, NEW b \in Bases, NEW i \in 1 .. MaxChain PROVE CountAt(b, i)
  BY Zenon DEF CountInv
<1>1. Increment(b, i) \in Names
  BY DirectoryAssumption DEF Increment, Names
<1> QED
  BY <1>1, Zenon DEF Init, CountAt, Counts, GoneBy, AddedBy

(* A stalkvar call inside the chain lock has the chain to itself. *)
Works(t, b) == op[t] \in Stalks /\ pc[t] \notin {"idle", "acquire"} /\ Base(name[t]) = b

LEMMA OneWorks ==
    ASSUME ControlInv, NEW b, NEW s \in Threads, NEW t \in Threads, Works(s, b), Works(t, b)
    PROVE  s = t
<1>1. /\ name[s] \in Names /\ name[t] \in Names /\ name[s][2] = 0 /\ name[t][2] = 0
  BY Zenon DEF ControlInv, PlaceFits, Works
<1>2. name[s] = name[t]
  BY <1>1, NameParts, Zenon DEF Works, Base
<1> QED
  BY <1>2, OneInside, Zenon DEF Works, Inside, Stalks, Chained

(* A thread that does not work on a chain leaves it alone. *)
LEMMA ChainFrame ==
    ASSUME DirectoryInv, CallInv, ~ use.increments, NEW t \in Threads, Step(t),
           NEW b \in Bases, ~ Works(t, b)
    PROVE  /\ latest'[b] = latest[b] /\ (b \in active' <=> b \in active)
           /\ \A i \in 1 .. MaxChain : index'[Increment(b, i)] = index[Increment(b, i)]
<1>0. PlaceFits(t) /\ TargetFits(t) /\ index \in [Names -> Given] /\ pc[t] # "idle"
  BY StepShape, Zenon DEF DirectoryInv, ControlInv, DataInv
<1>1. latest'[b] = latest[b] /\ (b \in active' <=> b \in active)
  BY StepChain, Zenon DEF Works
<1>2. ASSUME NEW i \in 1 .. MaxChain, index'[Increment(b, i)] # index[Increment(b, i)]
      PROVE  FALSE
  <2>0. Increment(b, i) \in Names
    BY DirectoryAssumption DEF Increment, Names
  <2>1. target[t] = Increment(b, i) /\ pc[t] \in {"put", "pop"}
    BY <1>0, <1>2, <2>0, StepIndex, Zenon
  <2>2. target[t] # name[t] /\ Base(name[t]) = b
    BY <1>0, <2>1 DEF CallInv, Increment, TargetFits, Base
  <2> QED
    BY <1>0, <2>1, <2>2, Zenon DEF TargetFits, Works
<1> QED
  BY <1>1, <1>2, Zenon

LEMMA CountFrame ==
    ASSUME DirectoryInv, CallInv, ~ use.increments, NEW t \in Threads, Step(t),
           NEW b \in Bases, ~ Works(t, b), NEW i \in 1 .. MaxChain, CountAt(b, i)
    PROVE  CountAt(b, i)'
<1>1. /\ UNCHANGED << op, name >> /\ pc[t] # "idle" /\ (pc[t] = "acquire" => pc'[t] = "check")
      /\ \A s \in Threads \ {t} : pc'[s] = pc[s] /\ target'[s] = target[s]
  BY StepShape, StepLocals, StepChain, Zenon DEF DirectoryInv, ControlInv
<1>2. \A s \in Threads \ {t} : (GoneBy(s, i)' <=> GoneBy(s, i)) /\ (AddedBy(s, i)' <=> AddedBy(s, i))
  BY <1>1, Zenon DEF GoneBy, AddedBy
<1>3. Base(name[t]) = b => ~ GoneBy(t, i) /\ ~ GoneBy(t, i)' /\ ~ AddedBy(t, i) /\ ~ AddedBy(t, i)'
  BY <1>1, Zenon DEF Works, GoneBy, AddedBy, Stalks
<1>4. /\ (\E s \in Threads : Base(name[s]) = b /\ GoneBy(s, i))
            <=> (\E s \in Threads : Base(name'[s]) = b /\ GoneBy(s, i)')
      /\ (\E s \in Threads : Base(name[s]) = b /\ AddedBy(s, i))
            <=> (\E s \in Threads : Base(name'[s]) = b /\ AddedBy(s, i)')
  BY <1>1, <1>2, <1>3, Zenon
<1> QED
  BY <1>4, ChainFrame, Zenon DEF CountAt, Counts, Base

LEMMA CountWorks ==
    ASSUME DirectoryInv, CallInv, FreshInv, ~ use.increments, NEW t \in Threads, Step(t),
           NEW b \in Bases, Works(t, b), NEW i \in 1 .. MaxChain, CountAt(b, i)
    PROVE  CountAt(b, i)'
<1> USE DEF shared, At
<1>1. /\ UNCHANGED << op, name >> /\ op[t] \in Stalks /\ pc[t] \notin {"idle", "acquire"}
      /\ Base(name[t]) = b
      /\ \A s \in Threads \ {t} : pc'[s] = pc[s] /\ target'[s] = target[s]
  BY StepShape, StepLocals, Zenon DEF DirectoryInv, ControlInv, Works
<1>2. \A s \in Threads \ {t} : Base(name[s]) = b => /\ ~ GoneBy(s, i) /\ ~ GoneBy(s, i)'
                                                    /\ ~ AddedBy(s, i) /\ ~ AddedBy(s, i)'
  <2>1. \A s \in Threads \ {t} : ~ Works(s, b)
    BY OneWorks, Zenon DEF DirectoryInv
  <2> QED
    BY <1>1, <2>1, Zenon DEF Works, GoneBy, AddedBy, Stalks
<1>3. Counts(b, i, GoneBy(t, i), AddedBy(t, i))
  BY <1>1, <1>2, Zenon DEF CountAt, Counts
<1>4. SUFFICES index'[Increment(b, i)] # {}
                 <=> (b \in active' /\ i <= latest'[b] /\ ~ GoneBy(t, i)') \/ AddedBy(t, i)'
  BY <1>1, <1>2, Zenon DEF CountAt, Counts, Increment, Base
<1>5. /\ PlaceFits(t) /\ TargetFits(t) /\ latest \in [Bases -> Nat] /\ active \subseteq Bases
      /\ target[t][2] \in Nat /\ target[t] = Increment(b, target[t][2])
      /\ index \in [Names -> Given] /\ Increment(b, i) \in Names
      /\ pc[t] \in {"put", "cache", "pop", "uncache"} => target[t] \in Names
      /\ name[t] = Increment(b, 0) /\ Increment(b, 0) \in Names
  <2>1. /\ PlaceFits(t) /\ TargetFits(t) /\ latest \in [Bases -> Nat] /\ active \subseteq Bases
        /\ target[t] \in Bases \X Nat /\ name[t] \in Names /\ index \in [Names -> Given]
        /\ pc[t] \in {"put", "cache", "pop", "uncache"} => target[t] \in Names
    BY Zenon DEF NamedInv, DirectoryInv, ControlInv, DataInv
  <2>2. Base(target[t]) = b /\ name[t][2] = 0
    BY <1>1, <2>1, Zenon DEF TargetFits, PlaceFits
  <2>3. Increment(b, i) \in Names
    BY DirectoryAssumption DEF Increment, Names
  <2> QED
    BY <1>1, <2>1, <2>2, <2>3, NameParts, Zenon DEF Base, Increment
<1>6. \A place : Goto(t, place) => pc'[t] = place
  BY Zenon DEF Goto, DirectoryInv, ControlInv
<1>7. Return(t) => pc'[t] = "idle"
  BY <1>6, Zenon DEF Return
<1>8. \A j, k : Increment(b, j) = Increment(b, k) <=> j = k
  BY Zenon DEF Increment
<1>9. \A n : target' = [target EXCEPT ![t] = n] => target'[t] = n
  BY Zenon DEF DirectoryInv, ControlInv
<1>a. CASE /\ UNCHANGED << index, active, latest >>
           /\ pc[t] \notin {"sweep", "pop", "uncache", "cache"}
           /\ pc'[t] \notin {"sweep", "pop", "uncache", "cache"}
  BY <1>1, <1>3, <1>a, Zenon DEF Counts, GoneBy, AddedBy
<1>b. CASE CheckMark(t) \/ CheckAbsent(t) \/ CheckPresent(t) \/ Mark(t) \/ Acquire(t) \/ Unmark(t)
  BY <1>1, <1>5, <1>b, Zenon
     DEF CheckMark, CheckAbsent, CheckPresent, Mark, Acquire, Unmark, PlaceFits, Stalks
<1>c. CASE LookInRegistry(t) \/ LookInIndex(t) \/ Recache(t) \/ Extend(t) \/ PutRaises(t)
  <2>1. /\ UNCHANGED << index, active, latest >> /\ pc[t] \in {"look", "lookup", "recache", "extend", "put"}
        /\ Return(t) \/ \E place \in {"lookup", "recache", "extend", "put"} : Goto(t, place)
    BY <1>c, Zenon DEF LookInRegistry, LookInIndex, Recache, Extend, PutRaises, Found
  <2> QED
    BY <1>6, <1>7, <1>a, <2>1, Zenon
<1>d. CASE CheckAppend(t)
  <2>1. CASE Return(t)
    <3>1. UNCHANGED << index, active, latest >> /\ pc[t] = "check"
      BY <1>6, <1>7, <1>d, <2>1, Zenon DEF CheckAppend
    <3> QED
      BY <1>7, <1>a, <2>1, <3>1, Zenon
  <2>2. CASE ~ Return(t)
    <3>1. /\ index' = index /\ pc[t] = "check" /\ op[t] = "append" /\ pc'[t] = "look"
          /\ active' = active \cup {b}
          /\ latest' = [latest EXCEPT ![b] = IF b \in active THEN @ ELSE 0]
      BY <1>1, <1>6, <1>d, <2>2, Zenon DEF CheckAppend
    <3>2. latest'[b] = IF b \in active THEN latest[b] ELSE 0
      BY <1>5, <3>1, Zenon
    <3> QED
      BY <1>1, <1>3, <3>1, <3>2 DEF Counts, GoneBy, AddedBy
  <2> QED
    BY <2>1, <2>2, Zenon
<1>e. CASE CheckClear(t)
  <2>1. CASE Return(t)
    BY <1>7, <1>a, <1>e, <2>1, Zenon DEF CheckClear
  <2>2. CASE ~ Return(t)
    <3>1. /\ UNCHANGED << index, active, latest >> /\ pc[t] = "check" /\ pc'[t] = "sweep"
          /\ target'[t] = Increment(b, 1)
      BY <1>1, <1>6, <1>9, <1>e, <2>2, Zenon DEF CheckClear
    <3>2. target'[t][2] = 1
      BY <3>1 DEF Increment
    <3> QED
      BY <1>1, <1>3, <3>1, <3>2 DEF Counts, GoneBy, AddedBy
  <2> QED
    BY <2>1, <2>2, Zenon
<1>f. CASE Put(t)
  <2>1. /\ pc[t] = "put" /\ pc'[t] = "cache" /\ index' = [index EXCEPT ![target[t]] = value[t]]
        /\ UNCHANGED << active, latest >> /\ target' = target /\ op[t] \in {"append", "reset"}
    BY <1>1, <1>5, <1>6, <1>f, Zenon DEF Put, PlaceFits, locals, Stalks, Writes
  <2>2. CASE op[t] = "append"
    <3>1. value[t] # {}
      BY <2>1, <2>2, Zenon DEF FreshInv
    <3>2. b \in active /\ target[t][2] = latest[b] + 1
      BY <1>1, <1>5, <2>1, <2>2, Zenon DEF TargetFits
    <3>3. index'[Increment(b, i)] = IF i = target[t][2] THEN value[t] ELSE index[Increment(b, i)]
      BY <1>5, <1>8, <2>1, Zenon
    <3> QED
      BY <1>1, <1>3, <1>5, <2>1, <2>2, <3>1, <3>2, <3>3, Zenon DEF Counts, GoneBy, AddedBy
  <2>3. CASE op[t] = "reset"
    <3>1. target[t] = Increment(b, 0) /\ b \notin active
      BY <1>1, <1>5, <2>1, <2>3, Zenon DEF TargetFits
    <3>2. index'[Increment(b, i)] = index[Increment(b, i)]
      BY <1>5, <1>8, <2>1, <3>1
    <3> QED
      BY <1>1, <1>3, <2>1, <2>3, <3>1, <3>2, Zenon DEF Counts, GoneBy, AddedBy
  <2> QED
    BY <2>1, <2>2, <2>3, Zenon
<1>g. CASE Cache(t)
  <2>1. /\ pc[t] = "cache" /\ pc'[t] = "idle" /\ UNCHANGED << index, active >>
        /\ latest' = IF op[t] = "append" THEN [latest EXCEPT ![b] = @ + 1] ELSE latest
    BY <1>1, <1>7, <1>g, Zenon DEF Cache
  <2>0. op[t] \in {"append", "reset"}
    BY <1>1, <1>5, <2>1, Zenon DEF PlaceFits, Stalks, Writes
  <2>2. CASE op[t] = "append"
    <3>1. b \in active /\ target[t][2] = latest[b] + 1 /\ latest'[b] = latest[b] + 1
      BY <1>1, <1>5, <2>1, <2>2, Zenon DEF TargetFits
    <3> QED
      BY <1>1, <1>3, <1>5, <2>1, <2>2, <3>1 DEF Counts, GoneBy, AddedBy
  <2>3. CASE op[t] = "reset"
    BY <1>1, <1>3, <2>1, <2>3, Zenon DEF Counts, GoneBy, AddedBy
  <2> QED
    BY <2>0, <2>2, <2>3, Zenon
<1>h. CASE Pop(t)
  <2>1. /\ pc[t] = "pop" /\ pc'[t] = "uncache" /\ index' = [index EXCEPT ![target[t]] = {}]
        /\ UNCHANGED << active, latest >> /\ target' = target /\ op[t] \in {"clear", "reset"}
    BY <1>1, <1>5, <1>6, <1>h, Zenon DEF Pop, PlaceFits, locals, Stalks
  <2>2. index'[Increment(b, i)] = IF i = target[t][2] THEN {} ELSE index[Increment(b, i)]
    BY <1>5, <1>8, <2>1, SMTT(30)
  <2> QED
    BY <1>1, <1>3, <1>5, <2>1, <2>2 DEF Counts, GoneBy, AddedBy
<1>i. CASE Uncache(t)
  <2>1. /\ pc[t] = "uncache" /\ pc'[t] = "sweep" /\ UNCHANGED << index, active, latest >>
        /\ target'[t] = Increment(b, target[t][2] + 1) /\ op[t] \in {"clear", "reset"}
    BY <1>1, <1>5, <1>6, <1>9, <1>i, Zenon DEF Uncache, PlaceFits, Stalks, TargetFits
  <2>2. target'[t][2] = target[t][2] + 1
    BY <2>1 DEF Increment
  <2> QED
    BY <1>1, <1>3, <1>5, <2>1, <2>2 DEF Counts, GoneBy, AddedBy
<1>j. CASE Sweep(t)
  <2>0. pc[t] = "sweep" /\ op[t] \in {"clear", "reset"}
    BY <1>5, <1>j, Zenon DEF Sweep, PlaceFits
  <2>1. /\ UNCHANGED << index, active, latest >>
        /\ b \in active /\ target[t][2] <= latest[b]
        /\ \/ pc'[t] = "pop" /\ target' = target
           \/ /\ index[target[t]] = {} /\ pc'[t] = "sweep"
              /\ target'[t] = Increment(b, target[t][2] + 1)
    BY <1>1, <1>6, <1>9, <1>j, Zenon DEF Sweep
  <2>2. CASE pc'[t] = "pop" /\ target' = target
    BY <1>1, <1>3, <2>0, <2>1, <2>2, Zenon DEF Counts, GoneBy, AddedBy
  <2>3. CASE index[target[t]] = {} /\ pc'[t] = "sweep" /\ target'[t] = Increment(b, target[t][2] + 1)
    <3>1. target'[t][2] = target[t][2] + 1
      BY <2>3, SMTT(30) DEF Increment
    <3>2. i # target[t][2]
      BY <1>3, <1>5, <2>0, <2>1, <2>3, SMTT(30) DEF Counts, GoneBy
    <3> QED
      BY <1>1, <1>3, <1>5, <2>0, <2>1, <2>3, <3>1, <3>2, SMTT(30) DEF Counts, GoneBy, AddedBy
  <2> QED
    BY <2>1, <2>2, <2>3, Zenon
<1>k. CASE Swept(t)
  <2>1. /\ pc[t] = "sweep" /\ pc'[t] \in {"idle", "put"} /\ index' = index /\ op[t] \in {"clear", "reset"}
        /\ active' = active \ {b} /\ (b \in active => target[t][2] > latest[b])
    BY <1>1, <1>5, <1>6, <1>7, <1>k, Zenon DEF Swept, SweptFrom, PlaceFits
  <2> QED
    BY <1>1, <1>3, <1>5, <2>1 DEF Counts, GoneBy, AddedBy
<1> QED
  BY <1>b, <1>c, <1>d, <1>e, <1>f, <1>g, <1>h, <1>i, <1>j, <1>k, Zenon DEF Step

LEMMA CountInduction ==
    ASSUME DirectoryInv, CallInv, FreshInv, CountInv, [Next]_vars
    PROVE  CountInv'
<1>1. CASE UNCHANGED vars
  BY <1>1, SMTT(30) DEF vars, shared, locals, CountInv, CountAt, Counts, GoneBy, AddedBy
<1>2. ASSUME NEW t \in Threads, NEW o \in use.operations, NEW n \in Names, Call(t, o, n), use' = use
      PROVE  CountInv'
  <2> SUFFICES ASSUME ~ use.increments, NEW b \in Bases, NEW i \in 1 .. MaxChain, CountAt(b, i)
               PROVE  CountAt(b, i)'
    BY <1>2, Zenon DEF CountInv
  <2>1. /\ pc[t] = "idle" /\ UNCHANGED << index, active, latest >>
        /\ pc'[t] \in {"look", "acquire", "check"}
        /\ \A s \in Threads \ {t} : /\ pc'[s] = pc[s] /\ op'[s] = op[s] /\ name'[s] = name[s]
                                    /\ target'[s] = target[s]
    BY <1>2, Zenon DEF Call, At, Goto, shared, DirectoryInv, ControlInv
  <2>2. ~ GoneBy(t, i) /\ ~ GoneBy(t, i)' /\ ~ AddedBy(t, i) /\ ~ AddedBy(t, i)'
    BY <2>1, Zenon DEF GoneBy, AddedBy
  <2>3. \A s \in Threads \ {t} : (GoneBy(s, i)' <=> GoneBy(s, i)) /\ (AddedBy(s, i)' <=> AddedBy(s, i))
    BY <2>1, Zenon DEF GoneBy, AddedBy
  <2>4. /\ (\E s \in Threads : Base(name[s]) = b /\ GoneBy(s, i))
              <=> (\E s \in Threads : Base(name'[s]) = b /\ GoneBy(s, i)')
        /\ (\E s \in Threads : Base(name[s]) = b /\ AddedBy(s, i))
              <=> (\E s \in Threads : Base(name'[s]) = b /\ AddedBy(s, i)')
    BY <2>1, <2>2, <2>3, Zenon
  <2> QED
    BY <2>1, <2>4, Zenon DEF CountAt, Counts, Base
<1>3. ASSUME NEW t \in Threads, Step(t), use' = use
      PROVE  CountInv'
  BY <1>3, CountFrame, CountWorks, Zenon DEF CountInv
<1> QED
  BY <1>1, <1>2, <1>3, Zenon DEF Next

-----------------------------------------------------------------------------
(* An append that has read the last increment carries all that it holds,   *)
(* and each increment holds what the one before it holds, and more.        *)
Carries(t) ==
    op[t] = "append" /\ pc[t] \in {"extend", "put"} /\ latest[Base(name[t])] > 0
        => index[Increment(Base(name[t]), latest[Base(name[t])])] \subseteq value[t]

Extends(b, i) ==
    LET this == index[Increment(b, i)]
        next == index[Increment(b, i + 1)]
    IN  this # {} /\ next # {} => this \subseteq next /\ this # next

TailInv ==
    ~ use.increments => /\ \A t \in Threads : Carries(t)
                        /\ \A b \in Bases, i \in 1 .. MaxChain - 1 : Extends(b, i)

LEMMA InitTail == Init => TailInv
<1> SUFFICES ASSUME Init PROVE TailInv
  BY Zenon
<1>1. \A t \in Threads : Carries(t)
  BY Zenon DEF Init, Carries
<1>2. ASSUME NEW b \in Bases, NEW i \in 1 .. MaxChain - 1
      PROVE  Extends(b, i)
  <2>1. Increment(b, i) \in Names
    BY DirectoryAssumption DEF Increment, Names
  <2> QED
    BY <2>1, Zenon DEF Init, Extends
<1> QED
  BY <1>1, <1>2, Zenon DEF TailInv

(* The last increment of a chain that an append works on. *)
LEMMA LastNamed ==
    ASSUME DirectoryInv, NEW b \in Bases, latest[b] > 0
    PROVE  latest[b] \in 1 .. MaxChain /\ Increment(b, latest[b]) \in Names
<1>1. latest[b] \in Nat /\ latest[b] <= MaxChain
  BY Zenon DEF DirectoryInv, NamedInv, ControlInv
<1> QED
  BY <1>1, DirectoryAssumption DEF Increment, Names

LEMMA CarriesStep ==
    ASSUME DirectoryInv, CallInv, CurrentInv, ~ use.increments, NEW t \in Threads, Step(t),
           NEW s \in Threads, Carries(s)
    PROVE  Carries(s)'
<1> USE DEF shared, At
<1>0. PICK b \in Bases : b = Base(name[s])
  BY NameParts, Zenon DEF DirectoryInv, ControlInv, Base
<1>1. SUFFICES ASSUME op[s] = "append", pc'[s] \in {"extend", "put"}, latest'[b] > 0
               PROVE  index'[Increment(b, latest'[b])] \subseteq value'[s]
  BY <1>0, StepShape, Zenon DEF Carries, DirectoryInv, ControlInv, Increment
<1>2. CASE s # t
  <2>1. pc'[s] = pc[s] /\ value'[s] = value[s]
    BY <1>2, StepShape, StepLocals, Zenon DEF DirectoryInv, ControlInv
  <2>2. Works(s, b)
    BY <1>0, <1>1, <2>1, Zenon DEF Works, Stalks
  <2>3. ~ Works(t, b)
    BY <1>2, <2>2, OneWorks, Zenon DEF DirectoryInv
  <2>4. /\ latest'[b] = latest[b]
        /\ \A i \in 1 .. MaxChain : index'[Increment(b, i)] = index[Increment(b, i)]
    BY <2>3, ChainFrame, Zenon
  <2>5. latest[b] \in 1 .. MaxChain
    BY <1>1, <2>4, LastNamed, Zenon
  <2> QED
    BY <1>0, <1>1, <2>1, <2>4, <2>5, Zenon DEF Carries
<1>3. CASE s = t
  <2>0. /\ PlaceFits(t) /\ TargetFits(t) /\ value \in [Threads -> Given]
        /\ target[t] = << target[t][1], target[t][2] >>
        /\ \A place : Goto(t, place) => pc'[t] = place
        /\ Return(t) => pc'[t] = "idle"
    BY NameParts, Zenon DEF DirectoryInv, ControlInv, DataInv, Goto, Return
  <2>1. /\ UNCHANGED << index, latest >>
        /\ \/ pc[t] = "extend" /\ value' = value
           \/ /\ pc[t] = "look" /\ target[t] \in Held
              /\ value' = [value EXCEPT ![t] = @ \cup registry[target[t]]]
           \/ pc[t] = "recache" /\ value' = [value EXCEPT ![t] = @ \cup found[t]]
    <3>0. ~ Return(t) /\ pc'[t] \notin {"idle", "check", "cache", "uncache", "sweep", "pop", "look", "lookup",
                                         "recache", "mark", "unmark", "exists"} /\ op[t] = "append"
      BY <1>1, <1>3, <2>0, Zenon
    <3>1. CASE Acquire(t) \/ CheckMark(t) \/ CheckAbsent(t) \/ CheckPresent(t) \/ Mark(t)
      BY <2>0, <3>0, <3>1, Zenon
         DEF Acquire, CheckMark, CheckAbsent, CheckPresent, Mark, PlaceFits
    <3>2. CASE CheckAppend(t) \/ CheckClear(t) \/ Extend(t) \/ Put(t) \/ Cache(t) \/ PutRaises(t)
      BY <2>0, <3>0, <3>2, Zenon DEF CheckAppend, CheckClear, Extend, Put, Cache, PutRaises
    <3>3. CASE LookInRegistry(t) \/ LookInIndex(t) \/ Recache(t)
      BY <2>0, <3>0, <3>3, Zenon DEF LookInRegistry, LookInIndex, Recache, Found
    <3>4. CASE Pop(t) \/ Uncache(t) \/ Unmark(t) \/ Sweep(t) \/ Swept(t)
      BY <2>0, <3>0, <3>4, Zenon DEF Pop, Uncache, Unmark, Sweep, Swept, SweptFrom, PlaceFits
    <3> QED
      BY <3>1, <3>2, <3>3, <3>4, Zenon DEF Step
  <2>2. CASE pc[t] = "extend"
    BY <1>0, <1>1, <1>3, <2>1, <2>2, Zenon DEF Carries
  <2>3. CASE pc[t] \in {"look", "recache"}
    <3>1. target[t] = Increment(b, latest[b])
      BY <1>0, <1>1, <1>3, <2>0, <2>3, Zenon DEF TargetFits, Increment, Base
    <3>2. target[t] \in Names /\ target[t][2] > 0
      BY <1>1, <2>1, <3>1, LastNamed DEF Increment
    <3>3. Private(target[t])
      BY <3>2, Zenon DEF Private
    <3>4. CASE pc[t] = "recache"
      BY <1>3, <2>0, <2>1, <3>1, <3>3, <3>4 DEF CurrentInv
    <3>5. CASE pc[t] = "look"
      <4>1. ~ \E r \in Threads : pc[r] \in {"cache", "uncache"} /\ target[r] = target[t]
        BY <3>3, <3>5, Alone, Zenon DEF AtHand
      <4>2. registry[target[t]] = index[target[t]]
        BY <2>1, <3>2, <3>3, <3>5, <4>1, Zenon DEF CurrentInv, Cached, Held
      <4> QED
        BY <1>3, <2>0, <2>1, <3>1, <3>5, <4>2, Zenon
    <3> QED
      BY <2>3, <3>4, <3>5, Zenon
  <2> QED
    BY <2>1, <2>2, <2>3, Zenon
<1> QED
  BY <1>2, <1>3, Zenon

LEMMA ExtendsStep ==
    ASSUME DirectoryInv, CallInv, FreshInv, CountInv, TailInv, ~ use.increments, NEW t \in Threads, Step(t),
           NEW b \in Bases, NEW i \in 1 .. MaxChain - 1
    PROVE  Extends(b, i)'
<1>0. i \in 1 .. MaxChain /\ i + 1 \in 1 .. MaxChain /\ i \in Nat
  BY DirectoryAssumption
<1>1. Increment(b, i) \in Names /\ Increment(b, i + 1) \in Names
  BY <1>0 DEF Increment, Names
<1>2. \A j, k : Increment(b, j) = Increment(b, k) <=> j = k
  BY Zenon DEF Increment
<1>3. Extends(b, i) /\ index \in [Names -> Given]
  BY Zenon DEF TailInv, DirectoryInv, DataInv
<1>4. CASE index' = index
  BY <1>3, <1>4, Zenon DEF Extends
<1>5. CASE index' = [index EXCEPT ![target[t]] = {}]
  BY <1>1, <1>3, <1>5, Zenon DEF Extends
<1>6. CASE pc[t] = "put" /\ index' = [index EXCEPT ![target[t]] = value[t]]
  <2>1. CASE target[t] \notin {Increment(b, i), Increment(b, i + 1)}
    BY <1>1, <1>3, <1>6, <2>1, Zenon DEF Extends
  <2>2. CASE target[t] \in {Increment(b, i), Increment(b, i + 1)}
    <3>1. PlaceFits(t) /\ TargetFits(t)
      BY Zenon DEF DirectoryInv, ControlInv
    <3>2. Base(name[t]) = b /\ target[t] # name[t]
      BY <1>0, <2>2, <3>1 DEF TargetFits, Increment, Base, CallInv
    <3>3. op[t] = "append"
      BY <1>6, <3>1, <3>2, Zenon DEF TargetFits, PlaceFits, Stalks, Writes
    <3>4. target[t][2] = latest[b] + 1 /\ latest[b] \in Nat
      BY <1>6, <3>1, <3>2, <3>3, Zenon DEF TargetFits, DirectoryInv, ControlInv
    <3>5. CASE target[t] = Increment(b, i + 1)
      <4>1. latest[b] = i
        BY <1>0, <3>4, <3>5 DEF Increment
      <4>2. index[Increment(b, i)] \subseteq value[t]
        <5>1. Carries(t)
          BY Zenon DEF TailInv
        <5>2. latest[Base(name[t])] = i /\ i > 0
          BY <1>0, <3>2, <4>1
        <5> QED
          BY <1>6, <3>2, <3>3, <5>1, <5>2, Zenon DEF Carries
      <4>3. PICK d \in value[t] : Unseen(t, d)
        BY <1>6, <3>3, Zenon DEF FreshInv
      <4>4. index[Increment(b, i)] # value[t]
        BY <1>1, <4>3, Zenon DEF Unseen
      <4>5. index'[Increment(b, i)] = index[Increment(b, i)] /\ index'[Increment(b, i + 1)] = value[t]
        BY <1>0, <1>1, <1>2, <1>3, <1>6, <3>5
      <4> QED
        BY <4>2, <4>4, <4>5, Zenon DEF Extends
    <3>6. CASE target[t] = Increment(b, i)
      <4>1. latest[b] + 1 = i
        BY <1>0, <3>4, <3>6 DEF Increment
      <4>2. \A s \in Threads : Base(name[s]) = b => ~ AddedBy(s, i + 1)
        <5>1. Works(t, b)
          BY <1>6, <3>2, <3>3, Zenon DEF Works, Stalks
        <5>2. ASSUME NEW s \in Threads, Base(name[s]) = b, AddedBy(s, i + 1)
              PROVE  FALSE
          <6>1. Works(s, b)
            BY <5>2, Zenon DEF AddedBy, Works, Stalks
          <6>2. s = t
            BY <5>1, <6>1, OneWorks, Zenon DEF DirectoryInv
          <6> QED
            BY <1>6, <5>2, <6>2, Zenon DEF AddedBy
        <5> QED
          BY <5>2, Zenon
      <4>3. CountAt(b, i + 1)
        BY <1>0, Zenon DEF CountInv
      <4>4. index[Increment(b, i + 1)] = {}
        BY <1>0, <3>4, <4>1, <4>2, <4>3, SMTT(30) DEF CountAt, Counts
      <4>5. index'[Increment(b, i + 1)] = {}
        BY <1>0, <1>1, <1>2, <1>3, <1>6, <3>6, <4>4
      <4> QED
        BY <4>5, Zenon DEF Extends
    <3> QED
      BY <2>2, <3>5, <3>6, Zenon
  <2> QED
    BY <2>1, <2>2, Zenon
<1> QED
  BY <1>4, <1>5, <1>6, StepIndex, Zenon

LEMMA TailInduction ==
    ASSUME DirectoryInv, CallInv, CurrentInv, FreshInv, CountInv, TailInv, [Next]_vars
    PROVE  TailInv'
<1>1. CASE UNCHANGED vars
  BY <1>1, Zenon DEF vars, shared, locals, TailInv, Carries, Extends
<1>2. ASSUME NEW t \in Threads, NEW o \in use.operations, NEW n \in Names, Call(t, o, n), use' = use
      PROVE  TailInv'
  <2>1. /\ UNCHANGED << index, latest >> /\ pc'[t] \in {"look", "acquire", "check"}
        /\ \A s \in Threads \ {t} : /\ pc'[s] = pc[s] /\ op'[s] = op[s] /\ name'[s] = name[s]
                                    /\ value'[s] = value[s]
    BY <1>2, Zenon DEF Call, At, Goto, shared, DirectoryInv, ControlInv, DataInv
  <2>2. \A s \in Threads : Carries(s) => Carries(s)'
    BY <2>1, Zenon DEF Carries
  <2>3. \A b \in Bases, i \in 1 .. MaxChain - 1 : Extends(b, i) => Extends(b, i)'
    BY <2>1, Zenon DEF Extends
  <2> QED
    BY <1>2, <2>2, <2>3, Zenon DEF TailInv
<1>3. ASSUME NEW t \in Threads, Step(t), use' = use
      PROVE  TailInv'
  BY <1>3, CarriesStep, ExtendsStep, Zenon DEF TailInv
<1> QED
  BY <1>1, <1>2, <1>3, Zenon DEF Next

ChainsInv == DirectoryInv /\ CallInv /\ CurrentInv /\ FreshInv /\ CountInv /\ TailInv

LEMMA ChainsFollow == ChainsInv => ChainIntact /\ AppendsKept
<1> SUFFICES ASSUME ChainsInv PROVE ChainIntact /\ AppendsKept
  BY Zenon
<1>2. AppendsKept
  BY Zenon DEF ChainsInv, TailInv, Extends, AppendsKept
<1>3. ASSUME ~ use.increments, NEW b \in Bases, holder[Increment(b, 0)] = None, NEW i \in 1 .. MaxChain
      PROVE  index[Increment(b, i)] # {} <=> b \in active /\ i <= latest[b]
  <2>1. CountAt(b, i)
    BY <1>3, Zenon DEF ChainsInv, CountInv
  <2>2. ASSUME NEW t \in Threads, Base(name[t]) = b, GoneBy(t, i) \/ AddedBy(t, i)
        PROVE  FALSE
    <3>1. ControlInv /\ name[t] \in Names /\ PlaceFits(t) /\ Inside(t) /\ op[t] \in Stalks
      BY <2>2, Zenon
         DEF ChainsInv, DirectoryInv, ControlInv, GoneBy, AddedBy, Inside, Stalks, Chained
    <3>2. name[t] = Increment(b, 0)
      BY <2>2, <3>1, NameParts, Zenon DEF PlaceFits, Increment, Base
    <3>3. holder[name[t]] = t /\ t # None
      BY <3>1, DirectoryAssumption, Zenon DEF ControlInv, LocksHeld
    <3> QED
      BY <1>3, <3>2, <3>3, Zenon
  <2> QED
    BY <2>1, <2>2, Zenon DEF CountAt, Counts
<1>4. ChainIntact
  BY <1>3, Zenon DEF ChainIntact
<1> QED
  BY <1>2, <1>4, Zenon

=============================================================================
