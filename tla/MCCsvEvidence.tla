--------------------------- MODULE MCCsvEvidence ---------------------------
(* Small instances of CsvEvidence. *)
EXTENDS CsvEvidence

CONSTANTS orders, orders2

(* Two sources that differ in nothing the layer counts. *)
MCSource ==
    [c \in Contents |->
        [rows |-> 3, cols |-> 2, offsets |-> 3, lines |-> 3, dialect |-> "comma",
         header |-> TRUE, confidence |-> 9200, exact |-> TRUE]]

MCBridgeOptions == {DefaultOptions, [DefaultOptions EXCEPT !.needScan = TRUE]}

(* A forced request fails closed where the native module is missing. *)
MCScanRequests == {[use |-> TRUE, force |-> TRUE]}

OneChunk == {DefaultChunk}

Symmetry == Permutations(Contents)

=============================================================================
