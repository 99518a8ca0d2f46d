------------------------------ MODULE DriverVM ------------------------------
(***************************************************************************)
(* The driver language and its virtual machine: what the TDDL validator    *)
(* accepts (drivers/tddl.py), the bytecode contract (bytecode.py, audit.py) *)
(* and the machine that runs a package over a snapshot of records (vm.py). *)
(*                                                                         *)
(* A program is a record with a sequence of instructions; the operands of  *)
(* an instruction are a function whose domain is the keys that are given.  *)
(* A package is the program with its seal: magic, versions, opcode         *)
(* numbers, operand references and hash all agree, or something does not.  *)
(* Scores are in halves: 0, 1 and 2 stand for 0.0, 0.5 and 1.0.            *)
(***************************************************************************)
EXTENDS Integers, Sequences, FiniteSets, SequencesExt, FiniteSetsExt

CONSTANTS
    Programs,       \* the programs a machine is offered
    Inputs,         \* the inputs it is run over
    VMLimits        \* [instructions, cost]: max_instructions and max_cost

VARIABLES
    offered,        \* the program whose package is offered to the machine
    vm,             \* [class, state, package]: the machine
    asked,          \* auxiliary: the package it was last asked to load
    fed,            \* auxiliary: the input of its last execute
    vmResult        \* the result of its last execute

VMVars == << offered, vm, asked, fed, vmResult >>

NoValue == -1       \* a field that resolves to None
NoScore == -1       \* a record without semantic_score
BadScore == -2      \* a semantic_score that is not a number

-----------------------------------------------------------------------------
(* The grammar. *)

Required == [SCAN |-> {"scope"}, READ |-> {"target"}, MATCH |-> {}, EXTRACT |-> {},
             MAP |-> {"using"}, SCORE |-> {}, BRANCH |-> {"if", "goto"},
             CALL |-> {"adapter"}, EMIT |-> {}, TRACE |-> {"event"},
             PROPOSE |-> {"kind"}, HALT |-> {}]

Predicates == {"eq", "neq", "contains", "prefix", "suffix", "in", "exists",
               "regex_limited", "range"}

Optional == [SCAN |-> {"recursive", "limit", "depth", "kind", "include", "exclude"},
             READ |-> {},
             MATCH |-> {"field", "using", "query", "threshold", "tags"} \cup Predicates,
             EXTRACT |-> {"fields", "using", "from", "as", "limit", "required"},
             MAP |-> {"from", "as"},
             SCORE |-> {"using", "by", "weight", "boost", "penalty", "threshold"},
             BRANCH |-> {}, CALL |-> {"mode"}, EMIT |-> {"mode", "limit"},
             TRACE |-> {"level"}, PROPOSE |-> {"target", "reason"}, HALT |-> {}]

Given(o, key) == key \in DOMAIN o

(* operands.get(key, default). *)
Get(o, key, default) == IF Given(o, key) THEN o[key] ELSE default

Bounded(o, key, low, high) == Given(o, key) => o[key] \in low .. high

AllowedValue(o, key, values) == Given(o, key) => o[key] \in values

(* "denied" stands for the adapters with an unsafe word in their name. *)
DeclaredAdapter(g, o) == Given(o, "using") /\ o.using \in g.adapters \ {"denied"}

ValidScan(g, o) ==
    /\ o.scope = "inside"
    /\ Bounded(o, "limit", 1, g.limits.scan)
    /\ Bounded(o, "depth", 0, g.limits.depth)
    /\ AllowedValue(o, "recursive", BOOLEAN)

ValidMatch(g, o) ==
    /\ AllowedValue(o, "regex_limited", {"narrow", "malformed"})
    /\ Given(o, "using") \/ Given(o, "field")
    /\ Given(o, "using") => DeclaredAdapter(g, o) /\ Bounded(o, "threshold", 0, 2)
    /\ Given(o, "field") => Predicates \cap DOMAIN o # {}

ValidExtract(g, o) ==
    /\ Given(o, "fields") \/ Given(o, "using")
    /\ Given(o, "using") => DeclaredAdapter(g, o)
    /\ Given(o, "fields") => o.fields # {}
    /\ Bounded(o, "limit", 1, 100000)

ValidInstruction(g, i) ==
    LET o == i.operands
    IN  /\ Required[i.name] \subseteq DOMAIN o
        /\ DOMAIN o \subseteq Required[i.name] \cup Optional[i.name]
        /\ CASE i.name = "SCAN" -> ValidScan(g, o)
             [] i.name = "READ" -> o.target \in {"manifest", "value"}
             [] i.name = "MATCH" -> ValidMatch(g, o)
             [] i.name = "EXTRACT" ->
                    AllowedValue(o, "from", {"manifest", "value"}) /\ ValidExtract(g, o)
             [] i.name \in {"SCORE", "MAP"} ->
                    DeclaredAdapter(g, o) /\ Bounded(o, "threshold", 0, 2)
             [] i.name = "CALL" -> o.adapter \in g.adapters \ {"denied"}
             [] i.name = "EMIT" ->
                    /\ AllowedValue(o, "mode", {"ranked", "list", "first", "proposal"})
                    /\ Bounded(o, "limit", 1, 10000)
             [] i.name = "PROPOSE" -> o.kind \in {"reorder", "replace"}
             [] OTHER -> TRUE

DriverClasses == {"search", "extract", "rank", "adapter", "policy"}

Halts(instrs) == {k \in DOMAIN instrs : instrs[k].name = "HALT"}

EndsInOneHalt(instrs) == instrs # << >> /\ Halts(instrs) = {Len(instrs)}

(* validate_tddl. *)
ValidTddl(g) ==
    /\ g.version >= 1
    /\ g.kind \in DriverClasses
    /\ g.caps # {}
    /\ "denied" \notin g.adapters
    /\ EndsInOneHalt(g.instrs)
    /\ g.limits.scan \in 1 .. 100000 /\ g.limits.depth \in 0 .. 64
    /\ \A k \in DOMAIN g.instrs : ValidInstruction(g, g.instrs[k])

-----------------------------------------------------------------------------
(* The bytecode contract. *)

Contract(cost, classes, needs) == [cost |-> cost, classes |-> classes, needs |-> needs]

VMContracts ==
    [SCAN |-> Contract(4, {"search", "rank"}, {"registry.scan"}),
     READ |-> Contract(2, DriverClasses, {"manifest.read"}),
     MATCH |-> Contract(3, DriverClasses \ {"adapter"}, {}),
     EXTRACT |-> Contract(3, {"search", "extract", "rank"}, {}),
     SCORE |-> Contract(3, {"search", "rank"}, {}),
     EMIT |-> Contract(1, DriverClasses, {}),
     TRACE |-> Contract(1, DriverClasses, {"trace.write"}),
     HALT |-> Contract(1, DriverClasses, {})]

Opcodes == DOMAIN VMContracts

(* compile_program, or the package another builder sealed over g. *)
Build(g) == [id |-> g.id, version |-> g.version, kind |-> g.kind, caps |-> g.caps,
             instrs |-> g.instrs, sealed |-> TRUE]

(* build_package refuses the instructions that have no opcode. *)
Compiles(g) == ValidTddl(g) /\ \A k \in DOMAIN g.instrs : g.instrs[k].name \in Opcodes

ValidateBytecode(p) ==
    /\ p.sealed
    /\ EndsInOneHalt(p.instrs)
    /\ \A k \in DOMAIN p.instrs : p.instrs[k].name \in Opcodes

AuditContract(p) ==
    /\ ValidateBytecode(p)
    /\ p.kind \in DriverClasses
    /\ \A k \in DOMAIN p.instrs :
           LET contract == VMContracts[p.instrs[k].name]
           IN  p.kind \in contract.classes /\ contract.needs \subseteq p.caps

InstructionCost(i) == VMContracts[i.name].cost

CostBudget(p) == MapThenSumSet(LAMBDA k : InstructionCost(p.instrs[k]), DOMAIN p.instrs)

ValidateLoad(p, limits) ==
    /\ AuditContract(p)
    /\ Len(p.instrs) <= limits.instructions
    /\ CostBudget(p) <= limits.cost

-----------------------------------------------------------------------------
(* The instructions.  A context holds indexes of records of the snapshot;  *)
(* a row names its record and what SCORE reads of it.                      *)

Context(records) ==
    [current |-> [k \in DOMAIN records |-> k], target |-> "manifest", rows |-> << >>,
     events |-> << >>, cost |-> 0, halted |-> FALSE]

Go(ctx) == [ctx |-> ctx, status |-> "ok", code |-> "ok"]

StopWith(ctx, status, code) == [ctx |-> ctx, status |-> status, code |-> code]

Faulted(ctx, code) == StopWith(ctx, "faulted", code)

InternalError(ctx) == StopWith(ctx, "internal_error", "vm.internal_error")

(* seq[:n]. *)
Take(seq, n) == SubSeq(seq, 1, IF n < Len(seq) THEN n ELSE Len(seq))

Or1(n) == IF n = 0 THEN 1 ELSE n

InScope(r, o) ==
    /\ r.depth >= 0
    /\ r.depth <= IF Get(o, "recursive", FALSE) THEN Get(o, "depth", 64) ELSE 1

(* The loop looks at its limit after it took a record. *)
OpScan(o, ctx, records) ==
    IF DOMAIN o \cap {"kind", "include", "exclude"} # {}
    THEN Faulted(ctx, "vm.scan.unsupported_operand")
    ELSE IF ~ Given(o, "scope") THEN InternalError(ctx)
    ELSE LET all == SelectSeq([k \in DOMAIN records |-> k],
                              LAMBDA k : InScope(records[k], o))
         IN  Go([ctx EXCEPT !.current = Take(all, Or1(Get(o, "limit", Len(records))))])

Excluded(v, o) ==
    \/ Given(o, "eq") /\ v # o.eq
    \/ Given(o, "neq") /\ v = o.neq
    \/ \E key \in {"contains", "prefix", "suffix"} : Given(o, key) /\ v \notin o[key]

(* _field_match: "yes", "no", or the code of the fault.  Text tests are    *)
(* the set of the values they hold of.                                     *)
FieldMatch(v, o) ==
    IF Given(o, "exists") THEN IF (v # NoValue) = o.exists THEN "yes" ELSE "no"
    ELSE IF Excluded(v, o) THEN "no"
    ELSE IF Given(o, "in") /\ o["in"] = {"scalar"} THEN "vm.internal_error"
    ELSE IF Given(o, "in") /\ v \notin o["in"] THEN "no"
    ELSE IF Given(o, "regex_limited") /\ o.regex_limited = "malformed"
         THEN "vm.match.bad_regex"
    ELSE IF Given(o, "regex_limited") /\ v = NoValue THEN "no"
    ELSE IF Given(o, "range") /\ (Len(o.range) # 2 \/ v = NoValue)
         THEN "vm.match.bad_range"
    ELSE IF Given(o, "range") /\ ~ (o.range[1] <= v /\ v <= o.range[2]) THEN "no"
    ELSE "yes"

(* The semantic score of a record counts only when it is a number. *)
SemanticMatch(r, o) ==
    \/ Get(o, "query", "") = ""
    \/ (IF r.says THEN 2 ELSE 0) >= Get(o, "threshold", 0)
    \/ r.sem >= Get(o, "threshold", 0)

(* Mutant: the predicate is applied to the snapshot, not to what is left of it. *)
MatchAfresh(o, ctx, records) ==
    IF Given(o, "field")
    THEN Go([ctx EXCEPT !.current =
                SelectSeq([k \in DOMAIN records |-> k],
                          LAMBDA k : FieldMatch(records[k].value, o) = "yes")])
    ELSE Go(ctx)

OpMatch(o, ctx, records) ==
    IF Given(o, "field")
    THEN LET verdicts == [n \in DOMAIN ctx.current |->
                              FieldMatch(records[ctx.current[n]].value, o)]
             faults == SelectSeq(verdicts, LAMBDA v : v \notin {"yes", "no"})
         IN  IF Predicates \cap DOMAIN o = {} THEN Faulted(ctx, "vm.match.no_predicate")
             ELSE IF faults = << >>
             THEN Go([ctx EXCEPT !.current =
                         SelectSeq(@, LAMBDA k : FieldMatch(records[k].value, o) = "yes")])
             ELSE IF faults[1] = "vm.internal_error" THEN InternalError(ctx)
             ELSE Faulted(ctx, faults[1])
    ELSE IF ~ Given(o, "using") THEN Faulted(ctx, "vm.match.missing_source")
    ELSE IF o.using # "semantic" THEN Faulted(ctx, "vm.adapter.unsupported")
    ELSE Go([ctx EXCEPT !.current = SelectSeq(@, LAMBDA k : SemanticMatch(records[k], o))])

(* The id of a record is found under its manifest only. *)
ExtractRow(r, k, o, source) ==
    [rec |-> k, path |-> r.path,
     named |-> source = "manifest" /\ "id" \in Get(o, "fields", {}) /\ r.named,
     sem |-> IF r.sem = NoScore THEN 2 ELSE r.sem]

OpExtract(o, ctx, records) ==
    LET taken == Take(ctx.current, Get(o, "limit", Or1(Len(ctx.current))))
    IN  IF Given(o, "using") THEN Faulted(ctx, "vm.adapter.unsupported")
        ELSE IF \E n \in DOMAIN taken : records[taken[n]].sem = BadScore
        THEN InternalError(ctx)
        ELSE Go([ctx EXCEPT !.rows =
                    [n \in DOMAIN taken |->
                        ExtractRow(records[taken[n]], taken[n], o,
                                   Get(o, "from", ctx.target))]])

(* TraceEvidence.rank_score, times 200, of a row that carries no score but *)
(* its own: 0.65 of it and 0.35 for the path and the default lineage.      *)
RankScore(sem) == 65 * sem + 70

(* A row's key is its id, or its position where it has none, and its path. *)
RowKey(rows, n) == << IF rows[n].named THEN 0 ELSE n, rows[n].path >>

(* rank_traces: by score downwards, then by key; a trace is a position.    *)
RanksBefore(rows, m, n) ==
    LET a == RowKey(rows, m)  b == RowKey(rows, n)
    IN  \/ rows[m].sem > rows[n].sem
        \/ /\ rows[m].sem = rows[n].sem
           /\ a[1] < b[1] \/ (a[1] = b[1] /\ a[2] < b[2])

(* The last row of a key stands for every trace of that key. *)
RowOfKey(rows, kept, key) == rows[Max({n \in kept : RowKey(rows, n) = key})]

OpScore(o, ctx) ==
    IF Given(o, "using") /\ o.using # "trace_rank"
    THEN Faulted(ctx, "vm.adapter.unsupported")
    ELSE IF DOMAIN o \cap {"by", "boost", "penalty"} # {}
    THEN Faulted(ctx, "vm.score.unsupported_operand")
    ELSE LET kept == {n \in DOMAIN ctx.rows :
                          RankScore(ctx.rows[n].sem) >= 100 * Get(o, "threshold", 0)}
             ranked == SetToSortSeq(kept, LAMBDA m, n : RanksBefore(ctx.rows, m, n))
         IN  Go([ctx EXCEPT !.rows =
                    [n \in DOMAIN ranked |->
                        RowOfKey(ctx.rows, kept, RowKey(ctx.rows, ranked[n]))]])

(* A record that was not extracted is emitted whole, without a match score. *)
OpEmit(o, ctx, records) ==
    LET rows == IF ctx.rows # << >> THEN ctx.rows
                ELSE [n \in DOMAIN ctx.current |->
                         [rec |-> ctx.current[n], path |-> records[ctx.current[n]].path,
                          named |-> FALSE, sem |-> 2]]
        limit == IF Get(o, "mode", "list") = "first" THEN 1
                 ELSE Get(o, "limit", Or1(Len(rows)))
    IN  IF Get(o, "mode", "list") = "proposal"
        THEN Faulted(ctx, "vm.emit.proposal_unsupported")
        ELSE Go([ctx EXCEPT !.rows = Take(rows, limit)])

(* _execute_instruction. *)
ExecuteInstruction(i, ctx, records) ==
    LET o == i.operands
    IN  CASE i.name = "SCAN" -> OpScan(o, ctx, records)
          [] i.name = "READ" -> IF Given(o, "target")
                                THEN Go([ctx EXCEPT !.target = o.target])
                                ELSE InternalError(ctx)
          [] i.name = "MATCH" -> OpMatch(o, ctx, records)
          [] i.name = "EXTRACT" -> OpExtract(o, ctx, records)
          [] i.name = "SCORE" -> OpScore(o, ctx)
          [] i.name = "TRACE" -> IF Given(o, "event")
                                 THEN Go([ctx EXCEPT !.events = Append(@, Len(ctx.current))])
                                 ELSE InternalError(ctx)
          [] i.name = "EMIT" -> OpEmit(o, ctx, records)
          [] OTHER -> Go([ctx EXCEPT !.halted = TRUE])

-----------------------------------------------------------------------------
(* DriverVMRuntime.execute: after[k] is where the loop stands after k      *)
(* instructions; a fault or HALT ends it.                                  *)

Charged(ctx, i) == [ctx EXCEPT !.cost = @ + InstructionCost(i)]

RunLoop(p, records, maxCost) ==
    LET start == [out |-> Go(Context(records)), trace |-> << "validate", "load" >>]
        after[k \in 0 .. Len(p.instrs)] ==
            IF k = 0 THEN start
            ELSE LET done == after[k - 1]
                     i == p.instrs[k]
                     charged == Charged(done.out.ctx, i)
                 IN  IF done.out.status # "ok" \/ done.out.ctx.halted THEN done
                     ELSE IF charged.cost > maxCost
                     THEN [done EXCEPT !.out = StopWith(charged, "budget_exceeded",
                                                    "vm.budget_exceeded")]
                     ELSE [out |-> ExecuteInstruction(i, charged, records),
                           trace |-> Append(done.trace, i.name)]
    IN  after[Len(p.instrs)]

(* DriverVMResult. *)
Result(status, state, trace, ctx, faults) ==
    [ok |-> status = "halted", status |-> status, state |-> state, trace |-> trace,
     emitted |-> ctx.rows, events |-> ctx.events, cost |-> ctx.cost,
     current |-> Len(ctx.current), faults |-> faults,
     partial |-> status # "halted" /\ ctx.rows # << >>]

NoContext == Context(<< >>)

NotLoaded == Result("not_loaded", "rejected", << "validate", "load", "not_loaded" >>,
                    NoContext, << "vm.not_loaded" >>)

(* What the end of the loop reports. *)
EndStatus(out) ==
    IF out.status # "ok" THEN out.status ELSE IF out.ctx.halted THEN "halted" ELSE "faulted"

EndResult(end, status) ==
    IF status = "halted"
    THEN Result("halted", "executed", end.trace, end.out.ctx, << >>)
    ELSE Result(status, "rejected", Append(end.trace, status), end.out.ctx,
                << IF end.out.status # "ok" THEN end.out.code ELSE "vm.no_halt" >>)

LoopResult(end) == EndResult(end, EndStatus(end.out))

(* The result of a loaded package over an input; records that are no       *)
(* sequence of mappings are refused before the first instruction.          *)
Executed(p, in, maxCost) ==
    IF in.wellFormed THEN LoopResult(RunLoop(p, in.records, maxCost))
    ELSE Result("input_rejected", "rejected", << "validate", "load", "input_rejected" >>,
                NoContext, << "vm.input.records" >>)

-----------------------------------------------------------------------------
(* The machine object, a DriverVMSkeleton or a DriverVMRuntime.            *)

NoPackage == [id |-> "none", version |-> 0, kind |-> "none", caps |-> {},
              instrs |-> << >>, sealed |-> FALSE]

NoInput == [wellFormed |-> TRUE, records |-> << >>]

VMInit ==
    /\ offered \in Programs
    /\ vm \in [class : {"skeleton", "runtime"}, state : {"empty"}, package : {NoPackage}]
    /\ asked = NoPackage /\ fed = NoInput
    /\ vmResult = NotLoaded

(* A package whose bytes changed after it was sealed. *)
Spoiled(p) == [p EXCEPT !.sealed = FALSE]

(* load: what fails leaves the machine without a package. *)
Load(p) ==
    /\ vm' = IF ValidateLoad(p, VMLimits)
             THEN [vm EXCEPT !.state = "loaded", !.package = p]
             ELSE [vm EXCEPT !.state = "rejected", !.package = NoPackage]
    /\ asked' = p
    /\ UNCHANGED << offered, fed, vmResult >>

ExecuteUnloaded ==
    /\ vm.state # "loaded"
    /\ vm' = [vm EXCEPT !.state = "rejected"]
    /\ vmResult' = NotLoaded
    /\ UNCHANGED << offered, asked, fed >>

ExecuteSkeleton ==
    /\ vm.state = "loaded" /\ vm.class = "skeleton"
    /\ vm' = [vm EXCEPT !.state = "execution_disabled"]
    /\ vmResult' = Result("execution_disabled", "execution_disabled",
                          << "validate", "load", "execution_disabled" >>, NoContext,
                          << "vm.execution_disabled" >>)
    /\ UNCHANGED << offered, asked, fed >>

ExecuteRuntime(in) ==
    /\ vm.state = "loaded" /\ vm.class = "runtime"
    /\ vmResult' = Executed(vm.package, in, VMLimits.cost)
    /\ vm' = [vm EXCEPT !.state = vmResult'.state]
    /\ fed' = in
    /\ UNCHANGED << offered, asked >>

VMNext ==
    \/ \E p \in {Build(offered), Spoiled(Build(offered))} : Load(p)
    \/ ExecuteUnloaded
    \/ ExecuteSkeleton
    \/ \E in \in Inputs : ExecuteRuntime(in)

-----------------------------------------------------------------------------
(* A machine that will execute holds the package it was last asked to      *)
(* load, one that passed every check of load: a load that fails, an        *)
(* execute or a fault never leaves an earlier package to run.              *)
RunsWhatWasLoaded ==
    vm.state = "loaded" => vm.package = asked /\ ValidateLoad(vm.package, VMLimits)

Names(instrs) == [k \in DOMAIN instrs |-> instrs[k].name]

(* What load adds up is what execute spends: a loaded package never runs   *)
(* out of budget nor off its end; one that halts has run every instruction *)
(* at the cost load gave it, and one that does not has stopped after a     *)
(* prefix of them and says so.                                             *)
CostIsAsLoaded ==
    LET run == asked.instrs
        ran == SubSeq(vmResult.trace, 3, Len(vmResult.trace))
    IN  vmResult.trace # NotLoaded.trace /\ vm.class = "runtime" /\ asked # NoPackage =>
            /\ vmResult.status # "budget_exceeded" /\ vmResult.faults # << "vm.no_halt" >>
            /\ vmResult.ok => ran = Names(run) /\ vmResult.cost = CostBudget(asked)
            /\ ~ vmResult.ok => IsStrictPrefix(Front(ran), Names(run))
            /\ vmResult.cost <= VMLimits.cost

ScalarIn(o) == Given(o, "in") /\ o["in"] = {"scalar"}

(* What the validator of the language lets through does not break the      *)
(* machine: a compiled program ends in an internal error only over a       *)
(* record whose score is no number, or for an `in` that holds no values;   *)
(* and never for an operand that is missing.                               *)
CompiledFailsCleanly ==
    Compiles(offered) =>
        /\ vmResult.status = "internal_error" =>
               \/ \E k \in DOMAIN fed.records : fed.records[k].sem = BadScore
               \/ \E k \in DOMAIN offered.instrs : ScalarIn(offered.instrs[k].operands)
        /\ vmResult.faults \notin {<< "vm.match.missing_source" >>,
                                   << "vm.match.no_predicate" >>}

(* load decides what execute does: the package that runs is the last one   *)
(* that was asked for and passed, at the cost that load computed.          *)
LoadDecides == RunsWhatWasLoaded /\ CostIsAsLoaded

-----------------------------------------------------------------------------
(* The rows a well-ordered program must emit.                              *)

Stages == << "SCAN", "READ", "MATCH", "TRACE", "EXTRACT", "SCORE", "EMIT", "HALT" >>

StageOf(name) == CHOOSE n \in DOMAIN Stages : Stages[n] = name

WellOrdered(instrs) ==
    \A m, n \in DOMAIN instrs :
        m < n => StageOf(instrs[m].name) <= StageOf(instrs[n].name)

Of(instrs, name) == {instrs[k].operands : k \in {j \in DOMAIN instrs : instrs[j].name = name}}

Passes(r, o) == IF Given(o, "field") THEN FieldMatch(r.value, o) = "yes"
                ELSE SemanticMatch(r, o)

Selected(r, instrs) ==
    /\ \A o \in Of(instrs, "SCAN") : InScope(r, o)
    /\ \A o \in Of(instrs, "MATCH") : Passes(r, o)

(* A row clears every threshold; where no row does, EMIT falls back to the *)
(* records themselves.                                                     *)
Clears(row, instrs) ==
    \A o \in Of(instrs, "SCORE") : RankScore(row.sem) >= 100 * Get(o, "threshold", 0)

(* No two records can give rows of the same id and path. *)
KeysDistinct(records) ==
    \A m, n \in DOMAIN records :
        records[m].named /\ records[n].named /\ records[m].path = records[n].path => m = n

InOrder(rows, scored) ==
    \A m, n \in DOMAIN rows :
        m < n => IF scored THEN rows[m].sem >= rows[n].sem ELSE rows[m].rec < rows[n].rec

(* A program whose instructions come in the order SCAN, MATCH, EXTRACT,    *)
(* SCORE, EMIT emits rows of records that are in scope of every SCAN and   *)
(* pass every MATCH, each record once, in the order of the snapshot or,    *)
(* once scored, best first (where no two rows share an id and a path);     *)
(* without SCAN and SCORE no record is passed over for a later one.        *)
EmittedIsSelected ==
    LET instrs == offered.instrs
        rows == vmResult.emitted
        scored == Of(instrs, "SCORE") # {} /\ Of(instrs, "EXTRACT") # {}
        recs == {rows[n].rec : n \in DOMAIN rows}
    IN  vmResult.ok /\ WellOrdered(instrs) =>
            /\ \A k \in recs : Selected(fed.records[k], instrs)
            /\ scored /\ KeysDistinct(fed.records) => Cardinality(recs) = Len(rows)
            /\ ~ scored \/ KeysDistinct(fed.records) => InOrder(rows, scored)
            /\ Of(instrs, "SCORE") = {} /\ Of(instrs, "SCAN") = {} =>
                   \A k \in DOMAIN fed.records :
                       Selected(fed.records[k], instrs) /\ k \notin recs =>
                           \A n \in DOMAIN rows : rows[n].rec < k
            /\ scored /\ Of(instrs, "EMIT") = {} =>
                   \A n \in DOMAIN rows : Clears(rows[n], instrs)

(* What execute reports of a compiled program is earned: an error has its  *)
(* cause in the records or operands, and a result holds the rows that the  *)
(* instructions select.                                                    *)
OutcomesAreEarned == CompiledFailsCleanly /\ EmittedIsSelected

(* execute runs what load admitted, and what it reports is earned.         *)
ExecutesAsLoaded == LoadDecides /\ OutcomesAreEarned

=============================================================================
