-------------------------- MODULE GenerationLedger --------------------------
(***************************************************************************)
(* What the Generation Authority promises the callers of one namespace,    *)
(* with no files, locks, processes or failures: a chain of published       *)
(* generations that only grows, a set of retired generations that only     *)
(* grows, and leases that keep the two apart.                              *)
(***************************************************************************)
EXTENDS Naturals, Sequences

CONSTANTS Generations, Parent, Leases, None

VARIABLES
    chain,   \* the records of the namespace, oldest first
    retired, \* the generations that were retired
    held     \* the generation under each open lease

vars == << chain, retired, held >>

Current == IF chain = << >> THEN None ELSE chain[Len(chain)].gen

WasPublished(g) ==
    \E i \in 1 .. Len(chain) : chain[i].action = "publish" /\ chain[i].gen = g

Extend(action, g) ==
    /\ chain' = Append(chain, [action |-> action, gen |-> g, prev |-> Current])
    /\ UNCHANGED << retired, held >>

Init ==
    /\ chain = << >>
    /\ retired = {}
    /\ held = [l \in Leases |-> None]

(* A publication extends the generation its manifest names as parent. *)
Publish(g) == Parent[g] = Current /\ Extend("publish", g)

(* A rollback returns to a generation that was published and is not retired. *)
Rollback(g) == WasPublished(g) /\ g \notin retired /\ Extend("rollback", g)

(* The current generation and the generations under lease stay. *)
Retire(g) ==
    /\ g # Current
    /\ \A l \in Leases : held[l] # g
    /\ retired' = retired \cup {g}
    /\ UNCHANGED << chain, held >>

Lease(l, g) ==
    /\ held[l] = None
    /\ WasPublished(g)
    /\ g \notin retired
    /\ held' = [held EXCEPT ![l] = g]
    /\ UNCHANGED << chain, retired >>

(* A lease is closed, or dies with its process along with others. *)
Release(ls) ==
    /\ held' = [l \in Leases |-> IF l \in ls THEN None ELSE held[l]]
    /\ UNCHANGED << chain, retired >>

Next ==
    \/ \E g \in Generations : Publish(g) \/ Rollback(g) \/ Retire(g)
    \/ \E l \in Leases, g \in Generations : Lease(l, g)
    \/ \E ls \in SUBSET Leases : Release(ls)

Spec == Init /\ [][Next]_vars

=============================================================================
