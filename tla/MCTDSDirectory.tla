--------------------------- MODULE MCTDSDirectory ---------------------------
(* Small instances of TDSDirectory. *)
EXTENDS TDSDirectory, TLC

CONSTANTS t1, t2, x, y

(* Two variables and their increments, each used by one thread at a time,  *)
(* over a registry with room for one entry ...                             *)
Apart ==
    [variables |-> Bases, increments |-> TRUE, exclusive |-> TRUE,
     operations |-> {"write", "text", "overtext", "editnew", "append", "reset", "clear",
                     "read", "delete"},
     chain |-> 1, data |-> 3, capacity |-> 1]

(* ... or one variable that both threads use at once. *)
Together(b) ==
    [variables |-> {b}, increments |-> FALSE, exclusive |-> FALSE,
     operations |-> {"add", "delete", "lock", "unlock", "append", "clear", "reset"},
     chain |-> 3, data |-> 4, capacity |-> 2]

MCUses == {Apart} \cup {Together(b) : b \in Bases}

(* One variable that one thread reads while the other changes it. *)
MCReading == {[Together(x) EXCEPT !.operations = {"add", "read", "delete"},
                                  !.chain = 0, !.data = 2]}

(* Threads and variables are interchangeable. *)
Symmetry == Permutations(Threads) \cup Permutations(Bases)

=============================================================================
