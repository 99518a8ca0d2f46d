------------------------ MODULE MCSegmentsDrivers ------------------------
(***************************************************************************)
(* Small instances of SegmentStore, DriverVM and DriverPipeline, which     *)
(* share no state: part says which of them a behavior is of.               *)
(***************************************************************************)
EXTENDS SegmentStore, DriverPipeline

VARIABLE part

-----------------------------------------------------------------------------
(* Programs for the VM: each instruction in several forms, well and badly  *)
(* operated; every pipeline of them in order and every pair out of order.  *)

NoOperands == [x \in {} |-> 0]

Ins(name, operands) == [name |-> name, operands |-> operands]

Halt == Ins("HALT", NoOperands)

Scans == { Ins("SCAN", [scope |-> "inside"]), Ins("SCAN", NoOperands),
           Ins("SCAN", [scope |-> "inside", recursive |-> TRUE, limit |-> 2]),
           Ins("SCAN", [scope |-> "inside", kind |-> "file"]) }

Matches == { Ins("MATCH", [field |-> "f", eq |-> 1]),
             Ins("MATCH", [field |-> "f", exists |-> TRUE]),
             Ins("MATCH", [field |-> "f", range |-> << 0, 0 >>]),
             Ins("MATCH", [field |-> "f", neq |-> 0, range |-> << 0 >>]),
             Ins("MATCH", [field |-> "f", regex_limited |-> "malformed"]),
             Ins("MATCH", [x \in {"field", "in"} |->
                              IF x = "in" THEN {"scalar"} ELSE "f"]),
             Ins("MATCH", [field |-> "f"]), Ins("MATCH", NoOperands),
             Ins("MATCH", [using |-> "semantic", query |-> "terms", threshold |-> 1]),
             Ins("MATCH", [using |-> "other"]) }

Extracts == { Ins("EXTRACT", [fields |-> {"id"}]),
              Ins("EXTRACT", [fields |-> {"name"}, limit |-> 2]),
              Ins("EXTRACT", [using |-> "other"]) }

Scores == { Ins("SCORE", [using |-> "trace_rank"]),
            Ins("SCORE", [using |-> "trace_rank", threshold |-> 2]),
            Ins("SCORE", [using |-> "trace_rank", by |-> "x"]),
            Ins("SCORE", [using |-> "other"]) }

Emits == { Ins("EMIT", NoOperands), Ins("EMIT", [mode |-> "first"]),
           Ins("EMIT", [limit |-> 2]), Ins("EMIT", [mode |-> "proposal"]) }

Others == { Ins("READ", [target |-> "value"]), Ins("READ", NoOperands),
            Ins("TRACE", [event |-> "t"]), Ins("TRACE", NoOperands),
            Ins("CALL", [adapter |-> "other"]) }

Program(id, version, kind, caps, instrs) ==
    [id |-> id, version |-> version, kind |-> kind, caps |-> caps,
     adapters |-> {"semantic", "trace_rank", "other"},
     limits |-> [scan |-> 5000, depth |-> 8], instrs |-> instrs]

MCPrograms ==
    LET All == UNION {Scans, Matches, Extracts, Scores, Emits, Others}
        Caps == {"registry.scan", "manifest.read", "trace.write"}
        Opt(s) == {<< >>} \cup {<< i >> : i \in s}
        Make(kind, caps, instrs) == Program("d", 1, kind, caps, instrs)
    IN  {Make("search", Caps, s \o m \o x \o r \o e \o << Halt >>) :
             s \in Opt(Scans), m \in Opt(Matches), x \in Opt(Extracts),
             r \in Opt(Scores), e \in Opt(Emits)}
        \cup {Make("search", Caps, << i, j, Halt >>) : i, j \in All}
        \cup {Make(k, {}, << i, Halt >>) : i \in All, k \in {"search", "policy", "none"}}
        \cup {Make("search", Caps, x) :
                  x \in {<< >>, << Halt, Halt >>, << Halt, Ins("EMIT", NoOperands) >>}}

Rec(path, depth, value, says, sem, named) ==
    [path |-> path, depth |-> depth, value |-> value, says |-> says, sem |-> sem,
     named |-> named]

Input(records) == [wellFormed |-> TRUE, records |-> records]

Torn == [wellFormed |-> FALSE, records |-> << >>]

(* Records that share an id and a path, lie too deep or not at all, lack   *)
(* the value, or carry a score that is no number.                          *)
MCInputs ==
    { Input(<< Rec(1, 1, 1, TRUE, 2, TRUE), Rec(2, 1, 0, FALSE, 1, FALSE),
               Rec(1, 1, 1, TRUE, 0, TRUE) >>),
      Input(<< Rec(1, 1, 1, TRUE, 1, TRUE), Rec(2, 2, 0, FALSE, 2, TRUE),
               Rec(2, 1, NoValue, FALSE, NoScore, FALSE), Rec(3, -1, 1, TRUE, 0, FALSE) >>),
      Input(<< Rec(2, 1, 0, TRUE, 0, FALSE), Rec(2, 0, 1, FALSE, 2, FALSE),
               Rec(1, 1, 1, TRUE, 2, FALSE) >>),
      Input(<< Rec(1, 1, 1, TRUE, 1, TRUE), Rec(1, 1, 1, TRUE, BadScore, TRUE) >>),
      Input(<< >>), Torn }

MCLimits == [instructions |-> 5, cost |-> 13]

-----------------------------------------------------------------------------
(* Drivers for the pipeline: one that works in two versions, one that      *)
(* fails when run, one that declares no capability, one with a bad hash.   *)

Works == Program("d", 1, "search", {"registry.scan"},
             << Ins("SCAN", [scope |-> "inside"]), Ins("EXTRACT", [fields |-> {"id"}]), Halt >>)

Fails == Program("d", 2, "extract", {"external.io"},
             << Ins("EXTRACT", [using |-> "other"]), Halt >>)

MCDrafts == {Works, Fails, [Works EXCEPT !.caps = {}]}

MCForeign == {Build([Works EXCEPT !.version = 3]), Spoiled(Build(Works))}

MCSignedManifests == {Manifest(Build(Works))}

Plain == Input(<< Rec(1, 1, 1, TRUE, 1, TRUE) >>)
Odd == Input(<< Rec(1, 1, 1, TRUE, BadScore, TRUE) >>)

MCDriverFixtures == {Plain, Odd, Torn}

MCFoundryPolicies ==
    { [submission |-> TRUE, authority |-> FALSE, requireTest |-> TRUE],
      [submission |-> TRUE, authority |-> TRUE, requireTest |-> FALSE] }

Permissive ==
    [needActive |-> FALSE, needSignature |-> FALSE, registry |-> FALSE,
     classes |-> DriverClasses, denied |-> {}, allowed |-> {"registry.scan", "external.io"},
     maxRecords |-> 1, limits |-> [instructions |-> 3, cost |-> 8]]

Strict == [Permissive EXCEPT !.needActive = TRUE, !.needSignature = TRUE,
                             !.registry = TRUE, !.denied = {"external.io"}]

MCRunCalls ==
    LET Make(in, rp) == [in |-> in, rp |-> rp]
    IN  { Make(Plain, Permissive), Make(Torn, Permissive), Make(Plain, Strict), Make(Odd, Strict),
          Make(Plain, [Permissive EXCEPT !.needSignature = TRUE, !.registry = TRUE]),
          Make(Plain, [Permissive EXCEPT !.limits.cost = 3, !.allowed = {"registry.scan"}]) }

(* The second list expects its second case to fail. *)
MCRegressCalls ==
    LET Make(id, in, expected) == [id |-> id, in |-> in, expected |-> expected]
        one == << Make(1, Plain, [ok |-> TRUE]) >>
        two == << Make(1, Plain, [status |-> "executed"]),
                  Make(2, Odd, [ok |-> FALSE, vm_status |-> "internal_error"]) >>
    IN  { [cases |-> one, rp |-> Permissive], [cases |-> two, rp |-> Permissive],
          [cases |-> << >>, rp |-> Permissive] }

MCReviewCalls ==
    LET default == [clean |-> TRUE, ready |-> TRUE, runtimeOk |-> TRUE,
                    candidateOnly |-> FALSE, approval |-> TRUE, maxItems |-> 2,
                    reviewers |-> {"admin"}]
        Make(action, reviewer, rv, withRegistry, apply) ==
            [action |-> action, reviewer |-> reviewer, rv |-> rv,
             withRegistry |-> withRegistry, apply |-> apply]
    IN  { Make("approve", "admin", default, TRUE, TRUE),
          Make("approve", "guest", default, TRUE, TRUE),
          Make("approve", "admin", default, FALSE, TRUE),
          Make("approve", "admin", default, FALSE, FALSE),
          Make("reject", "admin", default, TRUE, FALSE),
          Make("quarantine", "admin", [default EXCEPT !.clean = FALSE], TRUE, FALSE),
          Make("hold", "admin", default, TRUE, TRUE) }

-----------------------------------------------------------------------------
VMIdle ==
    /\ offered = NoPackage
    /\ vm = [class |-> "runtime", state |-> "empty", package |-> NoPackage]
    /\ asked = NoPackage /\ fed = NoInput /\ vmResult = NotLoaded

(* A pipeline without drivers. *)
PipeIdle ==
    /\ registry = << >> /\ policy = [secrets |-> << >>, revoked |-> {}]
    /\ lastTest = "none" /\ reports = {}

MCInit ==
    /\ Init
    /\ \/ part = "segments" /\ VMIdle /\ PipeIdle
       \/ part = "vm" /\ VMInit /\ PipeIdle
       \/ part = "pipeline" /\ VMIdle /\ PipeInit

MCNext ==
    \/ part = "segments" /\ Next /\ UNCHANGED << part, VMVars, PipeVars >>
    \/ part = "vm" /\ VMNext /\ UNCHANGED << part, vars, PipeVars >>
    \/ part = "pipeline" /\ PipeNext /\ UNCHANGED << part, vars, VMVars >>

MCSpec == MCInit /\ [][MCNext]_<< part, vars, VMVars, PipeVars >>

=============================================================================
