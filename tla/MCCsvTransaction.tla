-------------------------- MODULE MCCsvTransaction --------------------------
(* Small instances of CsvTransaction and of CsvGeneration, one at a time. *)
EXTENDS CsvTransaction, CsvGeneration, TLC

CONSTANTS orders, orders2, ragged, p1, p2, t1, t2

(* Two sources of one dialect, and one whose quoting makes the byte        *)
(* scanner and csv.reader disagree.                                        *)
MCSource ==
    [c \in Contents |->
        IF c = ragged
        THEN [rows |-> 1, cols |-> 2, offsets |-> 2, lines |-> 2,
              dialect |-> "semicolon", header |-> FALSE, confidence |-> 6000,
              exact |-> TRUE]
        ELSE [rows |-> 2, cols |-> 2, offsets |-> 2, lines |-> 2,
              dialect |-> "comma", header |-> TRUE, confidence |-> 9200,
              exact |-> TRUE]]

(* Every source of at most MaxSource bytes, in every dialect; of the two   *)
(* builds side by side each differs from the first in one argument.        *)
CONSTANT MaxSource

Bytes == {"delimiter", "quote", "escape", "cr", "lf", "x"}
Dialects == [escape : BOOLEAN, doublequote : BOOLEAN]
Plain == [escape |-> FALSE, doublequote |-> TRUE]

FirstRequest ==
    [namespace |-> "n", parent |-> "none", source |-> << "x", "lf", "y", "lf", "z" >>,
     dialect |-> Plain, width |-> 2, anchorLimit |-> 2, closure |-> 1, evidence |-> 1]

OtherRequests ==
    {[FirstRequest EXCEPT !.namespace = "m"],
     [FirstRequest EXCEPT !.parent = "root"],
     [FirstRequest EXCEPT !.source = << "x", "lf", "z", "lf", "y" >>],
     [FirstRequest EXCEPT !.source = << "x", "lf", "y", "z" >>],
     [FirstRequest EXCEPT !.dialect.doublequote = FALSE],
     [FirstRequest EXCEPT !.width = 3],
     [FirstRequest EXCEPT !.anchorLimit = 3],
     [FirstRequest EXCEPT !.closure = 2],
     [FirstRequest EXCEPT !.evidence = 2]}

MCAgain == {FirstRequest} \X OtherRequests

MCRequests ==
    {FirstRequest} \cup OtherRequests \cup
    {[FirstRequest EXCEPT !.source = s, !.dialect = d, !.width = w, !.anchorLimit = a] :
        s \in UNION {[1 .. n -> Bytes] : n \in 0 .. MaxSource}, d \in Dialects,
        w \in {2}, a \in {2}} \cup
    {[FirstRequest EXCEPT !.source = [i \in 1 .. n |-> "lf"], !.width = w, !.anchorLimit = a] :
        n \in 0 .. 7, w \in 1 .. 3, a \in 1 .. 4}

Symmetry == Permutations(Callers)

VARIABLE part       \* which of the two is looked at

MCInit == part \in {"transaction", "generation"} /\ Init /\ GenerationInit

MCNext ==
    /\ UNCHANGED part
    /\ \/ part = "transaction" /\ Next /\ UNCHANGED GenerationVars
       \/ part = "generation" /\ GenerationNext /\ UNCHANGED vars

MCSpec == MCInit /\ [][MCNext]_<< part, vars, GenerationVars >>

=============================================================================
