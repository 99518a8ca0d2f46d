--------------------------- MODULE TargetDecoding ---------------------------
(***************************************************************************)
(* What a decode promises: the tokens the target model would have          *)
(* produced on its own, up to the boundary of the request, in order, none  *)
(* taken back, and nothing held when it returns.                           *)
(***************************************************************************)
EXTENDS Integers, Sequences

VARIABLES
    wanted,     \* the target's tokens up to the boundary
    output,     \* the tokens committed so far
    holding,    \* is a speculative reservation held?
    outcome     \* running, returned or raised

decodeVars == << wanted, output, holding, outcome >>

Init ==
    /\ output = << >>
    /\ ~ holding
    /\ outcome = "running"

(* Some more of the wanted tokens.                                         *)
Extend(n) ==
    /\ outcome = "running"
    /\ output' = SubSeq(wanted, 1, n)
    /\ n >= Len(output)
    /\ n <= Len(wanted)
    /\ outcome' \in {"running", "raised"}
    /\ holding' \in BOOLEAN
    /\ UNCHANGED wanted

Return ==
    /\ outcome = "running"
    /\ output = wanted
    /\ ~ holding
    /\ outcome' = "returned"
    /\ UNCHANGED << wanted, output, holding >>

Next == Return \/ \E n \in 0 .. Len(wanted) : Extend(n)

Spec == Init /\ [][Next]_decodeVars

=============================================================================
