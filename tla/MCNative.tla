------------------------------ MODULE MCNative ------------------------------
(* The native layer, one part at a time: the entry index, a call of a      *)
(* scanner, or the chunked texts of a directory.                           *)
EXTENDS EntryIndex, NativeScan, ChunkedText

(* Three keys that collide at every capacity reached, of lengths below, at *)
(* and above the pooled block size.                                        *)
KA == << 1 >>
KB == << 1, 2 >>
KC == << 2, 1, 1 >>

MCKeys == {KA, KB, KC}
MCHash == (KA :> 1) @@ (KB :> 9) @@ (KC :> 2)
MCBatches == {<< KA >>, << KB >>, << KA, KB, KA >>}
MCRequests == {-1, 0, 3}
MCFaults == {"table", "key"}
MCBlobs == {<< >>, << 1, 1, 2 >>}
MCCuts == {<< >>, << KA >>, << KB >>, << KC >>, << KA, KB >>, << KA, << >>, KB >>}

(* A byte of every class the decoders tell apart: ASCII, continuations     *)
(* below 0x90, below 0xA0 and above, the leads with rules of their own and *)
(* one of each other, and a byte no text holds.                            *)
MCTextBytes == {65, 128, 144, 160, 194, 224, 225, 237, 240, 244, 255}
MCTexts == {<< "a" >>, << "a", "b" >>, << "b", "a" >>}

MCSymmetry == Permutations(Entries)

VARIABLE part       \* which part of the layer is looked at

IndexAtRest == Init /\ backend = "raw"

ScanAtRest ==
    /\ call = [kind |-> "none", at |-> "none"]
    /\ buffer = [mutable |-> FALSE, bytes |-> << >>]
    /\ taken = NotYet
    /\ input = NotYet
    /\ counts = NotYet
    /\ result = NotYet

TextAtRest == TextInit /\ hash = [n \in Names |-> 1]

MCInit ==
    \/ part = "index" /\ Init /\ ScanAtRest /\ TextAtRest
    \/ part = "scan" /\ ScanInit /\ IndexAtRest /\ TextAtRest
    \/ part = "text" /\ TextInit /\ hash["n"] = 1 /\ IndexAtRest /\ ScanAtRest

MCNext ==
    /\ UNCHANGED part
    /\ \/ part = "index" /\ Next /\ UNCHANGED << ScanVars, TextVars >>
       \/ part = "scan" /\ ScanNext /\ UNCHANGED << vars, TextVars >>
       \/ part = "text" /\ TextNext /\ UNCHANGED << vars, ScanVars >>

MCSpec == MCInit /\ [][MCNext]_<< part, vars, ScanVars, TextVars >>

=============================================================================
