------------------------- MODULE NativeDiagnostics --------------------------
(***************************************************************************)
(* The diagnostic event ring of the native engine (_native_index.c).       *)
(* Threads that run without the interpreter lock emit events into slots    *)
(* that carry a version each: odd while a writer fills the slot.  A thread *)
(* that holds the interpreter lock takes snapshots, resets the whole       *)
(* state, or changes its switches; there is one such thread at a time.     *)
(*                                                                         *)
(* The memory model is the one of an x86 build: loads and atomic           *)
(* read-modify-writes are in program order, but the plain store that       *)
(* starts a reset may be overtaken by the loads after it (pending).        *)
(***************************************************************************)
EXTENDS Integers, Sequences, FiniteSets

CONSTANTS
    Writers,        \* threads that run without the interpreter lock
    Main,           \* the thread that holds it
    Capacity,       \* slots of the ring, 4096 in the code
    Retries,        \* attempts of a snapshot at one slot, 4 in the code
    Limits,         \* event limits snapshots are asked for
    Samplings,      \* the << interval, burst >> pairs set_sampling is given
    MarkerEvery,    \* snapshots per marker event, 8 in the code
    MaxSequence,    \* UINT64_MAX
    MaxAttempts,    \* bound on the emissions tried
    MaxCalls        \* bound on the calls of the thread with the interpreter lock

ASSUME DiagnosticsAssumption ==
    /\ Capacity \in Nat \ {0}
    /\ MaxSequence \in Nat
    /\ \A s \in Samplings : s[1] \in Nat /\ s[2] \in Nat

VARIABLES
    d,          \* the g_diag_ globals: switches, counters, writers, ring
    pending,    \* the store of 1 to g_diag_resetting is not yet visible
    w,          \* the emissions of the writers and of Main
    g,          \* the call that Main is in
    written,    \* auxiliary: the events published since the last reset
    overlap,    \* auxiliary: what a reset cleared beside, "none", an emission
                \* outside its window ("counts"), or one inside ("window")
    tries,      \* emissions tried
    calls       \* calls of the thread that holds the interpreter lock

vars == << d, pending, w, g, written, overlap, tries, calls >>

DefaultInterval == 2    \* 1024 in the code
DefaultBurst == 2       \* 64 in the code

Counters == {"attempts", "automatic", "manual", "sampled", "busy", "dropped",
             "emitted", "wraps", "degraded", "resets", "snapshots"}

Zero == [c \in Counters |-> 0]

Plus(count, names) == [c \in Counters |-> count[c] + (IF c \in names THEN 1 ELSE 0)]

EmptySlot == [version |-> 0, seq |-> 0, body |-> 0]

EmptyRing == [i \in 0..(Capacity - 1) |-> EmptySlot]

SlotOf(seq) == (seq - 1) % Capacity

Idle == [pc |-> "idle"]

Init ==
    /\ d = [enabled |-> TRUE, degraded |-> FALSE, sequence |-> 0, resetting |-> FALSE,
            active |-> 0, interval |-> DefaultInterval, burst |-> DefaultBurst,
            auto |-> 0, count |-> Zero, ring |-> EmptyRing]
    /\ pending = FALSE
    /\ w = [p \in Writers \cup {Main} |-> Idle]
    /\ g = Idle
    /\ written = {}
    /\ overlap = "none"
    /\ tries = 0
    /\ calls = 0

-----------------------------------------------------------------------------
(* An emission, diag_emit_transition_impl, by writer p.  An event is its   *)
(* sequence number and a body that no other event carries.                 *)

Goto(p, pc) == w' = [w EXCEPT ![p].pc = pc]

Leave(p) == w' = [w EXCEPT ![p] = Idle]

Others == UNCHANGED << pending, g, overlap, tries, calls >>

(* diag_should_publish_automatic: the attempt is counted and numbered, and *)
(* then published or not.                                                  *)
Sampled(attempt) ==
    \/ attempt <= d.burst
    \/ d.interval = 1
    \/ (attempt - d.burst) % d.interval = 0

Numbered(p) ==
    /\ d' = [d EXCEPT !.auto = @ + 1, !.count = Plus(@, {"attempts"})]
    /\ w' = [w EXCEPT ![p] = [pc |-> "sample", body |-> tries + 1, nth |-> d.auto + 1]]

Attempt(p) ==
    /\ w[p].pc = "idle"
    /\ tries < MaxAttempts
    /\ tries' = tries + 1
    /\ d.enabled
    /\ Numbered(p)
    /\ UNCHANGED << pending, g, written, overlap, calls >>

Sample(p) ==
    /\ w[p].pc = "sample"
    /\ IF Sampled(w[p].nth)
       THEN /\ d' = [d EXCEPT !.count = Plus(@, {"automatic"})]
            /\ w' = [w EXCEPT ![p] = [pc |-> "enter", body |-> w[p].body]]
       ELSE /\ d' = [d EXCEPT !.count = Plus(@, {"automatic", "sampled"})]
            /\ Leave(p)
    /\ UNCHANGED written
    /\ Others

(* diag_event_writer_enter: the flag, the count of writers, the flag again. *)
Enter(p) ==
    /\ w[p].pc = "enter"
    /\ Goto(p, IF d.resetting THEN "refused" ELSE "enlist")
    /\ UNCHANGED << d, written >>
    /\ Others

Enlist(p) ==
    /\ w[p].pc = "enlist"
    /\ d' = [d EXCEPT !.active = @ + 1]
    /\ Goto(p, "recheck")
    /\ UNCHANGED written
    /\ Others

Recheck(p) ==
    /\ w[p].pc = "recheck"
    /\ d' = IF d.resetting THEN [d EXCEPT !.active = @ - 1] ELSE d
    /\ Goto(p, IF d.resetting THEN "refused" ELSE "reserve")
    /\ UNCHANGED written
    /\ Others

Refused(p) ==
    /\ w[p].pc = "refused"
    /\ d' = [d EXCEPT !.count = Plus(@, {"busy", "dropped"})]
    /\ Leave(p)
    /\ UNCHANGED written
    /\ Others

(* diag_reserve_sequence, and diag_event_writer_exit once it is exhausted. *)
Reserve(p) ==
    /\ w[p].pc = "reserve"
    /\ IF d.sequence = MaxSequence
       THEN /\ d' = [d EXCEPT !.degraded = TRUE, !.active = @ - 1,
                              !.count = Plus(@, {"degraded", "dropped"})]
            /\ Leave(p)
       ELSE /\ d' = [d EXCEPT !.sequence = @ + 1]
            /\ w' = [w EXCEPT ![p] = [pc |-> "claim", body |-> w[p].body,
                                      seq |-> d.sequence + 1]]
    /\ UNCHANGED written
    /\ Others

(* Mutant: a writer that finds its slot taken stays counted. *)
BusyStays(p) ==
    /\ d' = [d EXCEPT !.count = Plus(@, {"busy", "dropped"})]
    /\ Leave(p)

Busy(p) ==
    /\ d' = [d EXCEPT !.active = @ - 1, !.count = Plus(@, {"busy", "dropped"})]
    /\ Leave(p)

(* diag_slot_claim: an even version is read, then swapped for an odd one.  *)
Claim(p) ==
    /\ w[p].pc = "claim"
    /\ LET version == d.ring[SlotOf(w[p].seq)].version
       IN  IF version % 2 = 1 THEN Busy(p)
           ELSE /\ w' = [w EXCEPT ![p] = [pc |-> "swap", body |-> w[p].body,
                                          seq |-> w[p].seq, version |-> version]]
                /\ UNCHANGED d
    /\ UNCHANGED written
    /\ Others

(* Mutant: the version is stored without a comparison. *)
SwapUnchecked(p) ==
    /\ w[p].pc = "swap"
    /\ d' = [d EXCEPT !.ring[SlotOf(w[p].seq)].version = w[p].version + 1]
    /\ Goto(p, "seq")
    /\ UNCHANGED written
    /\ Others

Swap(p) ==
    /\ w[p].pc = "swap"
    /\ LET i == SlotOf(w[p].seq)
       IN  IF d.ring[i].version # w[p].version THEN Busy(p)
           ELSE /\ d' = [d EXCEPT !.ring[i].version = @ + 1]
                /\ Goto(p, "seq")
    /\ UNCHANGED written
    /\ Others

(* diag_slot_publish: the fields one after the other, then the version.    *)
StoreSeq(p) ==
    /\ w[p].pc = "seq"
    /\ d' = [d EXCEPT !.ring[SlotOf(w[p].seq)].seq = w[p].seq]
    /\ Goto(p, "body")
    /\ UNCHANGED written
    /\ Others

StoreBody(p) ==
    /\ w[p].pc = "body"
    /\ d' = [d EXCEPT !.ring[SlotOf(w[p].seq)].body = w[p].body]
    /\ Goto(p, "publish")
    /\ UNCHANGED written
    /\ Others

Publish(p) ==
    /\ w[p].pc = "publish"
    /\ d' = [d EXCEPT !.ring[SlotOf(w[p].seq)].version = w[p].version + 2]
    /\ written' = written \cup {<< w[p].seq, w[p].body >>}
    /\ Goto(p, "tally")
    /\ Others

(* The counters of a published event, and diag_event_writer_exit.          *)
Tally(p) ==
    /\ w[p].pc = "tally"
    /\ d' = [d EXCEPT !.active = @ - 1,
                      !.count = Plus(@, IF w[p].seq > Capacity
                                        THEN {"emitted", "dropped", "wraps"}
                                        ELSE {"emitted"})]
    /\ Leave(p)
    /\ UNCHANGED written
    /\ Others

Emission(p) ==
    \/ Sample(p) \/ Enter(p) \/ Enlist(p) \/ Recheck(p) \/ Refused(p) \/ Reserve(p)
    \/ Claim(p) \/ Swap(p) \/ StoreSeq(p) \/ StoreBody(p) \/ Publish(p) \/ Tally(p)

-----------------------------------------------------------------------------
(* The window in which a writer is counted, and the ring may not be reset. *)
InWindow(p) == w[p].pc \in {"reserve", "claim", "swap", "seq", "body", "publish", "tally"}

(* module_diag_reset.  The count of resets is the first atomic             *)
(* read-modify-write after the flag's store: it makes the store visible.   *)

Calling ==
    /\ g.pc = "idle"
    /\ calls < MaxCalls
    /\ calls' = calls + 1

ResetBegin ==
    /\ Calling
    /\ pending' = TRUE
    /\ g' = [pc |-> "wait"]
    /\ UNCHANGED << d, w, written, overlap, tries >>

StoreVisible ==
    /\ pending
    /\ pending' = FALSE
    /\ d' = [d EXCEPT !.resetting = TRUE]
    /\ UNCHANGED << w, g, written, overlap, tries, calls >>

ResetWait ==
    /\ g.pc = "wait"
    /\ d.active = 0
    /\ g' = [pc |-> "clear", early |-> pending]
    /\ UNCHANGED << d, pending, w, written, overlap, tries, calls >>

(* The slots and counters are cleared; the switch stays as it is.          *)
ResetClear ==
    /\ g.pc = "clear"
    /\ d' = [d EXCEPT !.resetting = TRUE, !.sequence = 0, !.auto = 0,
                      !.interval = DefaultInterval, !.burst = DefaultBurst,
                      !.degraded = FALSE, !.ring = EmptyRing,
                      !.count = [Zero EXCEPT !["resets"] = d.count["resets"] + 1]]
    /\ pending' = FALSE
    /\ g' = [g EXCEPT !.pc = "end"]
    /\ written' = {}
    /\ overlap' = IF overlap = "window" \/ \E p \in Writers : InWindow(p) THEN "window"
                  ELSE IF \E p \in Writers : w[p].pc # "idle" THEN "counts"
                  ELSE overlap
    /\ UNCHANGED << w, tries, calls >>

ResetEnd ==
    /\ g.pc = "end"
    /\ d' = [d EXCEPT !.resetting = FALSE]
    /\ g' = Idle
    /\ UNCHANGED << pending, w, written, overlap, tries, calls >>

-----------------------------------------------------------------------------
(* diag_event_list, the events of module_diag_snapshot: the last numbers   *)
(* handed out, oldest first, each looked for in its slot.                  *)

SnapshotBegin(limit) ==
    /\ Calling
    /\ LET built == d.count["snapshots"] + 1
           counted == [d EXCEPT !.count["snapshots"] = built]
       IN  IF d.enabled /\ built % MarkerEvery = 0
           THEN /\ d' = [counted EXCEPT !.auto = @ + 1, !.count["attempts"] = @ + 1]
                /\ w' = [w EXCEPT ![Main] = [pc |-> "sample", body |-> 0, nth |-> d.auto + 1]]
           ELSE d' = counted /\ UNCHANGED w
    /\ g' = [pc |-> "list", limit |-> limit]
    /\ UNCHANGED << pending, written, overlap, tries >>

SnapshotList ==
    /\ g.pc = "list"
    /\ w[Main].pc = "idle"
    /\ LET kept == IF d.sequence < Capacity THEN d.sequence ELSE Capacity
           n == IF g.limit > kept THEN kept ELSE g.limit
       IN  g' = [pc |-> "look", want |-> d.sequence - n + 1, upto |-> d.sequence,
                 tries |-> 0, before |-> 0, seq |-> 0, body |-> 0, events |-> << >>]
    /\ UNCHANGED << d, pending, w, written, overlap, tries, calls >>

Watched == d.ring[SlotOf(g.want)]

(* The next number, once the event of this one is in the list or was given *)
(* up after Retries attempts.                                              *)
Forward(events) ==
    [g EXCEPT !.pc = "look", !.want = @ + 1, !.tries = 0, !.events = events]

Again ==
    IF g.tries + 1 < Retries THEN [g EXCEPT !.pc = "look", !.tries = @ + 1]
    ELSE Forward(g.events)

SameSlot == UNCHANGED << d, pending, w, written, overlap, tries, calls >>

(* diag_slot_snapshot: version, fields, version.                           *)
LoadBefore ==
    /\ g.pc = "look"
    /\ g.want <= g.upto
    /\ g' = IF Watched.version % 2 = 1 THEN Again
            ELSE [g EXCEPT !.pc = "loadseq", !.before = Watched.version]
    /\ SameSlot

LoadSeq ==
    /\ g.pc = "loadseq"
    /\ g' = [g EXCEPT !.pc = "loadbody", !.seq = Watched.seq]
    /\ SameSlot

LoadBody ==
    /\ g.pc = "loadbody"
    /\ g' = [g EXCEPT !.pc = "loadafter", !.body = Watched.body]
    /\ SameSlot

LoadAfter ==
    /\ g.pc = "loadafter"
    /\ g' = IF Watched.version = g.before /\ g.seq = g.want
            THEN Forward(Append(g.events, << g.seq, g.body >>)) ELSE Again
    /\ SameSlot

SnapshotEnd ==
    /\ g.pc = "look"
    /\ g.want > g.upto
    /\ g' = Idle
    /\ SameSlot

-----------------------------------------------------------------------------
(* module_diag_emit: an emission of Main's own, which is never sampled.    *)
EmitBegin ==
    /\ Calling
    /\ d.enabled
    /\ d' = [d EXCEPT !.count = Plus(@, {"attempts", "manual"})]
    /\ w' = [w EXCEPT ![Main] = [pc |-> "enter", body |-> MaxAttempts + calls + 1]]
    /\ g' = [pc |-> "emit"]
    /\ UNCHANGED << pending, written, overlap, tries >>

EmitEnd ==
    /\ g.pc = "emit"
    /\ w[Main].pc = "idle"
    /\ g' = Idle
    /\ UNCHANGED << d, pending, w, written, overlap, tries, calls >>

(* The switches: set_enabled, set_sampling and mark_degraded.              *)

SetEnabled(enabled) ==
    /\ Calling
    /\ d' = [d EXCEPT !.enabled = enabled]
    /\ UNCHANGED << pending, w, g, written, overlap, tries >>

SetSampling(interval, burst) ==
    /\ Calling
    /\ interval # 0
    /\ d' = [d EXCEPT !.interval = interval, !.burst = burst, !.auto = 0]
    /\ UNCHANGED << pending, w, g, written, overlap, tries >>

MarkDegraded(degraded) ==
    /\ Calling
    /\ d' = [d EXCEPT !.degraded = degraded,
                      !.count = Plus(@, IF degraded /\ d.enabled THEN {"degraded"} ELSE {})]
    /\ UNCHANGED << pending, w, g, written, overlap, tries >>

Holder ==
    \/ StoreVisible
    \/ ResetWait
    \/ ResetClear
    \/ ResetEnd
    \/ EmitEnd
    \/ SnapshotList
    \/ LoadBefore
    \/ LoadSeq
    \/ LoadBody
    \/ LoadAfter
    \/ SnapshotEnd

Next ==
    \/ \E p \in Writers : Attempt(p)
    \/ \E p \in Writers \cup {Main} : Emission(p)
    \/ Holder
    \/ EmitBegin
    \/ ResetBegin
    \/ \E limit \in Limits : SnapshotBegin(limit)
    \/ \E b \in BOOLEAN : SetEnabled(b) \/ MarkDegraded(b)
    \/ \E s \in Samplings : SetSampling(s[1], s[2])

(* An emission or a call under way goes on: nothing in it waits for the    *)
(* interpreter lock.  No one is obliged to begin another.                  *)
Spec ==
    /\ Init /\ [][Next]_vars
    /\ \A p \in Writers \cup {Main} : WF_vars(Emission(p))
    /\ WF_vars(Holder)

-----------------------------------------------------------------------------
(* The counters are numbers: the count of the writers inside never falls   *)
(* below zero; the sequence stops at its last value and the interval of    *)
(* sampling is never 0.                                                    *)
TypeOK ==
    /\ d.sequence \in 0..MaxSequence
    /\ d.active \in Nat
    /\ d.count \in [Counters -> Nat]
    /\ d.interval # 0
    /\ overlap \in {"none", "counts", "window"}

(* What a snapshot reports as an event is one event as one writer          *)
(* published it, though writers fill the slots meanwhile and go round the  *)
(* ring: no half-written slot, no mixture of two events, none from before  *)
(* a reset.  A reset that cleared a slot under its writer ends the claim.  *)
EventsWhole ==
    g.pc \in {"look", "loadseq", "loadbody", "loadafter"} /\ overlap # "window" =>
        \A i \in DOMAIN g.events : g.events[i] \in written

(* A slot that is not being filled holds one whole event, or none.         *)
SlotsWhole ==
    overlap # "window" =>
        \A i \in DOMAIN d.ring :
            LET slot == d.ring[i]
            IN  slot.version % 2 = 0 =>
                    slot = EmptySlot \/ << slot.seq, slot.body >> \in written

(* A reset clears the ring beside no writer that is inside its window,     *)
(* once the flag was visible when the reset found no writer left.          *)
ResetExcludesWriters ==
    g.pc \in {"clear", "end"} /\ ~ g.early =>
        \A p \in Writers : ~ InWindow(p)

(* When nothing is under way the counters account for every attempt: each  *)
(* was sampled out, published, refused or found the numbers exhausted, and *)
(* an event lost on the way or by wrapping is in events_dropped.           *)
AttemptsAccounted ==
    overlap = "none" /\ (\A p \in DOMAIN w : w[p].pc = "idle") =>
        LET c == d.count
        IN  /\ c["attempts"] = c["automatic"] + c["manual"]
            /\ c["attempts"] = c["sampled"] + c["emitted"] + c["dropped"] - c["wraps"]
            /\ c["busy"] <= c["dropped"] - c["wraps"]
            /\ c["emitted"] = Cardinality(written)

(* The ring and its counters are true to what the writers published, with  *)
(* writers, snapshots and resets at work at once.                          *)
RingTrue ==
    TypeOK /\ EventsWhole /\ SlotsWhole /\ ResetExcludesWriters /\ AttemptsAccounted

(* A reset that waits for the writers, and a snapshot that retries, come   *)
(* to an end while others emit.                                            *)
CallsComplete == g.pc # "idle" ~> g.pc = "idle"

(* When nothing is under way, a slot holds the newest event published to   *)
(* it: wrapping overwrites old events. It does not hold: a writer held up  *)
(* between its number and its slot publishes over a newer event.           *)
OldEventsOverwritten ==
    (\A p \in DOMAIN w : w[p].pc = "idle") /\ overlap = "none" =>
        \A e \in written :
            d.ring[SlotOf(e[1])].seq >= e[1]

=============================================================================
