------------------------- MODULE MCControlledStorage -------------------------
(***************************************************************************)
(* What is switched on beside the engine, one part at a time: controlled   *)
(* segmented storage, an Eaglegate decode, or the publication of           *)
(* telemetry.                                                              *)
(***************************************************************************)
EXTENDS ControlledStorage, EaglegateDecoding, TelemetryPublication, TLC

CONSTANTS app, admin, data, sidecar

CONSTANT Parts      \* the parts looked at: "storage", "decoding", "telemetry"

VARIABLE part

(* The files of a mount are alike, and so are the threads that publish. *)
MCSymmetry == Permutations(Files) \cup Permutations(Callers) \cup Permutations(Workers)

(* Decodes of no tokens and of three, cancelled nowhere, before, within    *)
(* and after them, by each path, with every trace and every deadline from  *)
(* too short to ample.                                                     *)
Arguments(path, tokens, identities, lengths, deadlines) ==
    [ path : {path}, target : {tokens}, cancel : -1 .. Len(tokens), epoch : BOOLEAN,
      identity : identities, max_candidate_tokens : {2}, max_trace_events : lengths,
      deadline_ticks : deadlines ]

MCRequests ==
    UNION { UNION { Arguments("target_only", tokens, {TRUE}, {1}, {1}),
                    Arguments("speculative_reference", tokens, {TRUE}, {1}, {1}),
                    Arguments("adapter", tokens, BOOLEAN, {5, 6, 9, 30}, 1 .. 7 \cup {30}) } :
            tokens \in {<< >>, << "a", "b", "a" >>} }

MCProposals == UNION {[1 .. n -> Tokens] : n \in 0 .. 3}

MCInit ==
    /\ part \in Parts
    /\ Init
    /\ GateInit
    /\ TelemetryInit
    /\ part # "decoding" => request = CHOOSE r \in Requests : TRUE
    /\ part # "telemetry" => source = "manager" /\ level = 0

MCNext ==
    /\ UNCHANGED part
    /\ \/ part = "storage" /\ Next /\ UNCHANGED << gateVars, telemetryVars >>
       \/ part = "decoding" /\ GateNext /\ UNCHANGED << vars, telemetryVars >>
       \/ part = "telemetry" /\ TelemetryNext /\ UNCHANGED << vars, gateVars >>

MCSpec == MCInit /\ [][MCNext]_<< part, vars, gateVars, telemetryVars >>

=============================================================================
