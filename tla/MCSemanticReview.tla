-------------------------- MODULE MCSemanticReview --------------------------
(* Two CSVs, "x" and "xy", the second of which has an id containing the    *)
(* first; versions 1 and 3 of a CSV have all their evidence.               *)
EXTENDS SemanticReview

MCContaining == [id \in {"x", "xy", ""} |-> IF id = "xy" THEN {"xy"} ELSE {"x", "xy"}]

MCBlockedEvidence == [v \in 0 .. 3 |-> CASE v = 0 -> {"scan", "ring"} [] v = 2 -> {"scan"}
                                         [] OTHER -> {}]

Decl(id, state, evidence) ==
    [id |-> id, meaning |-> "m", state |-> state, evidence |-> evidence]

Good1 == Decl("p1", "proposed", << "scan", "ring" >>)
Good2 == Decl("p2", "proposed", << "ring" >>)

MCDeclarationLists ==
    { << Good1, Good2 >>, << >>, << Good1, Good1 >>,
      << Good1, Decl("p2", "validated", << "ring" >>) >>,
      << Decl("p1", "proposed", << "scan", "scan", "none" >>) >>,
      << Good1, Good2, Good1 >> }

Auth(id, scope) == [id |-> id, scope |-> scope, explicit |-> TRUE]

Req(transition, prop, from, to, auth) ==
    [transition |-> transition, prop |-> prop, from |-> from, to |-> to,
     reason |-> "r", auth |-> auth]

Validate1 == Req("t1", "p1", "proposed", "validated", Auth("a1", "validate_proposition"))
Contest1 == Req("t2", "p1", "validated", "contested", Auth("a2", "contest_proposition"))
Contest2 == Req("t3", "p2", "proposed", "contested", Auth("a1", "contest_proposition"))
Early1 == Req("t4", "p1", "proposed", "contested", Auth("a4", "contest_proposition"))
Commit2 == Req("t5", "p2", "proposed", "committed", Auth("a5", "validate_proposition"))

MCRequests == {Validate1, Contest1, Contest2}

MCRequestLists ==
    { << Contest1 >>, << Early1 >>, << Contest2, Early1 >>, << Validate1, Contest2 >>,
      << Validate1, Early1 >>, << Contest1, Contest2 >>, << Commit2 >>, << >> }

MCReleases == << "r1", "r2" >>

MCBatchAuthorizations ==
    { Auth("b", "review_transition_batch"), Auth("b", "validate_proposition") }

=============================================================================
