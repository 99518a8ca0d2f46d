--------------------------- MODULE MCPersistence ----------------------------
(***************************************************************************)
(* What is on disk, one part at a time: the file of a node with its        *)
(* sidecar, or the frozen generation store.                                *)
(***************************************************************************)
EXTENDS Persistence, FrozenStore, TLC

CONSTANT Parts      \* the parts looked at: "file", "store"

VARIABLE part

MCSymmetry == Permutations(Flushers) \cup Permutations(Procs)

MCInit == part \in Parts /\ Init /\ StoreInit

MCNext ==
    /\ UNCHANGED part
    /\ \/ part = "file" /\ Next /\ UNCHANGED StoreVars
       \/ part = "store" /\ StoreNext /\ UNCHANGED vars

MCSpec == MCInit /\ [][MCNext]_<< part, vars, StoreVars >>

=============================================================================
