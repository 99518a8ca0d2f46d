----------------------------- MODULE HandleMap ------------------------------
(***************************************************************************)
(* What the native index promises its callers: a partial map from keys to  *)
(* integer handles in which a handle, once given out, is never given out   *)
(* again.  mark is the lowest handle never given out.                      *)
(*                                                                         *)
(* One step adds or removes any number of keys, because put_many and       *)
(* pop_many hold the write lock for the whole batch, and may skip handles, *)
(* because a put that fails after taking its handle does not return it.    *)
(***************************************************************************)
EXTENDS Integers

CONSTANT Keys

VARIABLES map, mark

vars == << map, mark >>

(* Every key of the map has a handle. *)
TypeOK ==
    /\ mark \in Nat \ {0}
    /\ DOMAIN map \subseteq Keys
    /\ \A k \in DOMAIN map : map[k] \in Nat

Init ==
    /\ map = [k \in {} |-> 0]
    /\ mark = 1

(* Keys are added under handles at or above the mark; the others stay.     *)
Grow(new) ==
    /\ mark' \in Nat
    /\ mark' >= mark
    /\ DOMAIN map \subseteq DOMAIN new
    /\ DOMAIN new \subseteq Keys
    /\ new = [k \in DOMAIN new |-> new[k]]
    /\ \A k \in DOMAIN map : new[k] = map[k]
    /\ \A k \in DOMAIN new \ DOMAIN map : new[k] \in mark..(mark' - 1)
    /\ \A j, k \in DOMAIN new \ DOMAIN map : new[j] = new[k] => j = k

(* Keys are removed, and the mark stays where it is.                       *)
Shrink(new) ==
    /\ mark' = mark
    /\ DOMAIN new \subseteq DOMAIN map
    /\ new = [k \in DOMAIN new |-> map[k]]

Next == \E new \in {map'} : Grow(new) \/ Shrink(new)

Spec == Init /\ [][Next]_vars

(* Two keys never share a handle, and no handle is above the mark.         *)
HandlesUnique ==
    /\ \A k \in DOMAIN map : map[k] \in 1..(mark - 1)
    /\ \A j, k \in DOMAIN map : map[j] = map[k] => j = k

(* A handle that was given out and is not in the map does not come back:   *)
(* whoever still holds it after a pop cannot reach another key's entry.    *)
NoHandleReturns ==
    [][\A k \in DOMAIN map' :
           map'[k] < mark => k \in DOMAIN map /\ map[k] = map'[k]]_vars

=============================================================================
