----------------------- MODULE MCGenerationAuthority -----------------------
(* Small instances of the Generation Authority. *)
EXTENDS GenerationAuthority, TLC

CONSTANTS g1, g2, x1, t1, t2, s1, s2, l1, l2

(* g1 founds the namespace, g2 extends it; x1 belongs to another one. *)
MCParent ==
    [g \in Generations |-> IF g \in {g1, x1} THEN None ELSE g1]

(* Two processes of one thread each. *)
TwoProcesses == (t1 :> s1) @@ (t2 :> s2)

(* One process with two threads. *)
TwoThreads == [t \in Threads |-> s1]

=============================================================================
