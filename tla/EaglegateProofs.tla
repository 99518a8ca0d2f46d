-------------------------- MODULE EaglegateProofs ---------------------------
(***************************************************************************)
(* What holds of Eaglegate's decoding loops for every request, target      *)
(* sequence, proposal and trace bound: the closed traces are the ones the  *)
(* trace validator accepts, and the tokens a call commits are the target's *)
(* own.                                                                    *)
(***************************************************************************)
EXTENDS EaglegateDecoding, TLAPS


Holding == {"reserved", "proposed", "verified", "rewound", "committed", "cancelled"}

States == {"new", "pinned", "released", "fallback", "closed"} \cup Holding

Operations == OfReservation \cup Uncounted

Faults == { "none", "epoch_mismatch", "identity_mismatch", "deadline_exceeded", "resource_exhausted",
            "proposer_failure", "request_cancelled", "verifier_failure" }

EventType == [ operation : Operations, state_before : States, state_after : States,
               token_count : Int, reservation_id : Int, authority : {"", "target-runtime"},
               fault : Faults ]

(* The ledger holds the first tokens of the target, up to the boundary.    *)
LedgerInv ==
    /\ request \in Requests
    /\ committed \in Seq(Tokens)
    /\ position <= Boundary
    /\ \A i \in 1 .. position : committed[i] = target[i]
    /\ next_reservation \in Nat \ {0}
    /\ status \in {"running", "returned", "raised"}

(* The reference loops hold nothing between two rounds and leave the       *)
(* adapter alone.                                                          *)
ReferenceInv ==
    request.path # "adapter" =>
        /\ reservations = {}
        /\ status # "raised"
        /\ trace_state = "new"
        /\ request.path = "target_only" \/ ~ request.epoch => target_only

(* Where the adapter is in a round: what it holds, and what a proposal and *)
(* a verification allow it to commit.                                      *)
RoundInv ==
    /\ reservation \in Nat
    /\ reservation # 0 <=> trace_state \in Holding
    /\ reservations = IF reservation = 0 THEN {} ELSE {reservation}
    /\ proposal \in Seq(Tokens)
    /\ accepted \in Nat
    /\ trace_state \in {"reserved", "proposed"} => position < Len(target)
    /\ trace_state = "proposed" => Len(proposal) \in 1 .. CandidateExtent
    /\ trace_state \in {"verified", "rewound"} =>
           /\ Len(proposal) > 0
           /\ accepted <= Len(proposal)
           /\ position + Len(proposal) <= Boundary
    /\ trace_state = "rewound" => Rejected > 0

FallbackInv ==
    /\ fallback \in [fault : Faults, resume : BOOLEAN]
    /\ fallback = NoFallback => trace_state \notin {"cancelled", "fallback"}
    /\ fallback # NoFallback => fallback.fault # "none" /\ trace_state # "committed"
    /\ ~ fallback.resume => position = Boundary
    /\ trace_state = "closed" => position = Boundary

AdapterInv == request.path = "adapter" /\ status = "running" => RoundInv /\ FallbackInv

(* The events so far are the beginning of a trace the validator accepts,   *)
(* and end in the state and with the reservation of the builder.           *)
EventsInv ==
    /\ events \in Seq(EventType)
    /\ trace_state \in States
    /\ Len(events) <= request.max_trace_events
    /\ \A i \in 1 .. Len(events) : Wellformed(events[i]) /\ Chained(events, i)
    /\ trace_state = IF Len(events) = 0 THEN "new" ELSE events[Len(events)].state_after
    /\ trace_state \notin Holding => Active(events, Len(events) + 1) = {}
    /\ status = "running" /\ trace_state \in Holding =>
           \E j \in Active(events, Len(events) + 1) : events[j].reservation_id = reservation
    /\ status = "raised" => Len(events) = request.max_trace_events

(* Who may not be asked is not.                                            *)
AskedInv ==
    ~ (request.epoch /\ (request.identity \/ request.path # "adapter")) =>
        /\ calls = 0
        /\ request.path = "adapter" => trace_state \in {"new", "fallback", "closed"}

GateInv == LedgerInv /\ ReferenceInv /\ AdapterInv /\ EventsInv /\ AskedInv

-----------------------------------------------------------------------------
LEMMA RequestFacts ==
    ASSUME request \in Requests
    PROVE  /\ target \in Seq(Tokens)
           /\ Len(target) \in Nat
           /\ Boundary \in 0 .. Len(target)
           /\ request.cancel \in Int
           /\ request.max_candidate_tokens \in Nat \ {0}
           /\ request.max_trace_events \in Nat \ {0}
           /\ request.epoch \in BOOLEAN /\ request.identity \in BOOLEAN
           /\ request.path \in {"target_only", "speculative_reference", "adapter"}
BY RequestAssumption DEF RequestType, target, Boundary

(* Tokens of the target committed behind its first tokens.                 *)
LEMMA CommitTokens ==
    ASSUME NEW t \in Seq(Tokens), NEW c \in Seq(Tokens), NEW n \in Nat,
           Len(c) + n <= Len(t), \A i \in 1 .. Len(c) : c[i] = t[i],
           NEW d, d = c \o SubSeq(t, Len(c) + 1, Len(c) + n)
    PROVE  /\ d \in Seq(Tokens)
           /\ Len(d) = Len(c) + n
           /\ \A i \in 1 .. Len(d) : d[i] = t[i]
<1>1. SubSeq(t, Len(c) + 1, Len(c) + n) \in Seq(Tokens)
  OBVIOUS
<1>2. Len(SubSeq(t, Len(c) + 1, Len(c) + n)) = n
  OBVIOUS
<1>3. d \in Seq(Tokens) /\ Len(d) = Len(c) + n
  BY <1>1, <1>2
<1>4. ASSUME NEW i \in 1 .. Len(d)
      PROVE  d[i] = t[i]
  <2>1. CASE i <= Len(c)
    BY <2>1, <1>1
  <2>2. CASE i > Len(c)
    <3>1. i - Len(c) \in 1 .. n
      BY <2>2, <1>3
    <3>2. d[i] = SubSeq(t, Len(c) + 1, Len(c) + n)[i - Len(c)]
      BY <2>2, <1>1, <1>2, <1>3
    <3>3. @ = t[Len(c) + 1 + (i - Len(c)) - 1]
      BY <3>1
    <3> QED
      BY <3>2, <3>3, <1>3
  <2> QED
    BY <2>1, <2>2, <1>3
<1> QED
  BY <1>3, <1>4, Zenon

LEMMA CommitKeeps ==
    ASSUME LedgerInv, NEW n \in Nat, position + n <= Boundary, Commit(n), request' = request
    PROVE  /\ committed' \in Seq(Tokens)
           /\ position' = position + n
           /\ position' <= Boundary'
           /\ \A i \in 1 .. position' : committed'[i] = target'[i]
<1>1. Len(committed) + n <= Len(target)
  BY RequestFacts DEF LedgerInv, position
<1> QED
  BY <1>1, RequestFacts, CommitTokens DEF LedgerInv, Commit, position, target, Boundary

(* A sequence of first tokens is a beginning of the tokens wanted.         *)
LEMMA PrefixTokens ==
    ASSUME NEW t \in Seq(Tokens), NEW b \in 0 .. Len(t), NEW c \in Seq(Tokens),
           Len(c) <= b, \A i \in 1 .. Len(c) : c[i] = t[i]
    PROVE  /\ Len(SubSeq(t, 1, b)) = b
           /\ c = SubSeq(SubSeq(t, 1, b), 1, Len(c))
<1>1. SubSeq(t, 1, b) \in Seq(Tokens) /\ Len(SubSeq(t, 1, b)) = b
  OBVIOUS
<1>2. \A i \in 1 .. b : SubSeq(t, 1, b)[i] = t[i]
  OBVIOUS
<1>3. SubSeq(SubSeq(t, 1, b), 1, Len(c)) \in Seq(Tokens)
  BY <1>1
<1>4. Len(SubSeq(SubSeq(t, 1, b), 1, Len(c))) = Len(c)
  BY <1>1
<1>5. \A i \in 1 .. Len(c) : SubSeq(SubSeq(t, 1, b), 1, Len(c))[i] = c[i]
  BY <1>1, <1>2
<1> QED
  BY <1>1, <1>3, <1>4, <1>5

-----------------------------------------------------------------------------
(* The reservation which the events of a trace leave active.               *)
LEMMA ActivePrefix ==
    ASSUME NEW s \in Seq(EventType), NEW e \in EventType, NEW i \in 1 .. Len(s) + 1
    PROVE  Active(Append(s, e), i) = Active(s, i)
<1>1. \A k \in 1 .. i - 1 : Append(s, e)[k] = s[k]
  OBVIOUS
<1>2. \A j \in 1 .. i - 1 : j + 1 .. i - 1 \subseteq 1 .. i - 1
  OBVIOUS
<1> QED
  BY <1>1, <1>2, Zenon DEF Active

LEMMA ActiveNext ==
    ASSUME NEW s \in Seq(EventType), NEW e \in EventType
    PROVE  Active(Append(s, e), Len(s) + 2) =
               IF e.operation = "release" THEN {}
               ELSE Active(s, Len(s) + 1) \cup
                        (IF e.operation = "reserve" THEN {Len(s) + 1} ELSE {})
<1> DEFINE r == Append(s, e)
<1>1. r[Len(s) + 1] = e /\ \A k \in 1 .. Len(s) : r[k] = s[k]
  OBVIOUS
<1>2. ASSUME NEW j \in 1 .. Len(s)
      PROVE  j \in Active(r, Len(s) + 2) <=> j \in Active(s, Len(s) + 1) /\ e.operation # "release"
  <2>1. j + 1 .. Len(s) + 1 = (j + 1 .. Len(s)) \cup {Len(s) + 1}
    OBVIOUS
  <2>2. \A k \in j + 1 .. Len(s) : r[k] = s[k]
    BY <1>1
  <2>3. (\A k \in j + 1 .. Len(s) + 1 : r[k].operation # "release")
           <=> (\A k \in j + 1 .. Len(s) : s[k].operation # "release") /\ e.operation # "release"
    BY <2>1, <2>2, <1>1, Zenon
  <2> HIDE DEF r
  <2> QED
    BY <2>3, <1>1 DEF Active
<1>3. Len(s) + 1 \in Active(r, Len(s) + 2) <=> e.operation = "reserve"
  <2> HIDE DEF r
  <2> QED
    BY <1>1 DEF Active
<1>4. Active(r, Len(s) + 2) \subseteq 1 .. Len(s) + 1 /\ Active(s, Len(s) + 1) \subseteq 1 .. Len(s)
  BY DEF Active
<1> HIDE DEF r
<1>5. Active(r, Len(s) + 2) = IF e.operation = "release" THEN {}
               ELSE Active(s, Len(s) + 1) \cup
                        (IF e.operation = "reserve" THEN {Len(s) + 1} ELSE {})
  <2>1. 1 .. Len(s) + 1 = (1 .. Len(s)) \cup {Len(s) + 1} /\ Len(s) + 1 \notin 1 .. Len(s)
    OBVIOUS
  <2>2. ASSUME NEW j
        PROVE  j \in Active(r, Len(s) + 2) <=>
                   /\ e.operation # "release"
                   /\ j \in Active(s, Len(s) + 1) \/ (e.operation = "reserve" /\ j = Len(s) + 1)
    BY <1>2, <1>3, <1>4, <2>1, Zenon
  <2> QED
    BY <2>2, Zenon
<1> QED
  BY <1>5, Zenon DEF r

(* What record demands of an event beside its order.                       *)
Fits(operation, count, id, fault) ==
    /\ (operation = "fallback") = (fault # "none")
    /\ (operation \in OfReservation) = (id # 0)
    /\ operation \in Counted => count > 0
    /\ operation \in Uncounted => count = 0

EventOf(operation, after, count, id, fault) ==
    [ operation |-> operation, state_before |-> trace_state, state_after |-> after,
      token_count |-> count, reservation_id |-> id,
      authority |-> IF operation = "commit" THEN "target-runtime" ELSE "", fault |-> fault ]

(* record: the event is appended, or the trace is full.                    *)
LEMMA RecordShape ==
    ASSUME NEW operation, NEW after, NEW count, NEW id, NEW fault,
           Record(operation, after, count, id, fault),
           << trace_state, operation, after >> \in Allowed,
           Fits(operation, count, id, fault)
    PROVE  \/ /\ Len(events) < request.max_trace_events
              /\ events' = Append(events, EventOf(operation, after, count, id, fault))
              /\ trace_state' = after
              /\ status' = status
              /\ Wellformed(EventOf(operation, after, count, id, fault))
           \/ /\ ~ (Len(events) < request.max_trace_events)
              /\ status' = "raised"
              /\ events' = events
              /\ trace_state' = trace_state
<1>1. Wellformed(EventOf(operation, after, count, id, fault))
  BY Zenon DEF Wellformed, Fits, EventOf
<1> QED
  BY <1>1, Zenon DEF Record, EventOf, trace

(* An event that is in order and about the reservation in hand goes on     *)
(* with a trace the validator accepts.                                     *)
LEMMA RecordKeeps ==
    ASSUME EventsInv, request \in Requests, request' = request, status = "running",
           NEW operation \in Operations, NEW after \in States, NEW count \in Int, NEW id \in Int,
           NEW fault \in Faults,
           Record(operation, after, count, id, fault),
           << trace_state, operation, after >> \in Allowed,
           Fits(operation, count, id, fault),
           IF operation \in OfReservation \ {"reserve"}
           THEN trace_state \in Holding /\ id = reservation
           ELSE trace_state \notin Holding,
           after \in Holding <=> operation \in OfReservation \ {"release"},
           after \in Holding => reservation' = id
    PROVE  EventsInv'
<1> DEFINE e == EventOf(operation, after, count, id, fault)
<1>0. Len(events) \in Nat /\ request.max_trace_events \in Nat
  BY RequestFacts DEF EventsInv
<1>1. CASE ~ (Len(events) < request.max_trace_events)
  <2>1. status' = "raised" /\ events' = events /\ trace_state' = trace_state
    BY <1>1, RecordShape, Zenon
  <2>2. Len(events) = request.max_trace_events
    BY <1>0, <1>1 DEF EventsInv
  <2> QED
    BY <2>1, <2>2, Zenon DEF EventsInv
<1>2. CASE Len(events) < request.max_trace_events
  <2>1. /\ events' = Append(events, e)
        /\ trace_state' = after
        /\ status' = "running"
        /\ Wellformed(e)
    BY <1>2, RecordShape, Zenon
  <2>2. e \in EventType
    <3>1. trace_state \in States
      BY Zenon DEF EventsInv
    <3> QED
      BY <3>1, Zenon DEF EventOf, EventType
  <2>3. /\ e.operation = operation /\ e.state_before = trace_state /\ e.state_after = after
        /\ e.reservation_id = id
    BY Zenon DEF EventOf
  <2> HIDE DEF e
  <2>4. /\ events' \in Seq(EventType)
        /\ Len(events') = Len(events) + 1
        /\ events'[Len(events) + 1] = e
        /\ \A i \in 1 .. Len(events) : events'[i] = events[i]
    BY <2>1, <2>2 DEF EventsInv
  <2>5. \A i \in 1 .. Len(events) + 1 : Active(events', i) = Active(events, i)
    BY <2>1, <2>2, ActivePrefix, Zenon DEF EventsInv
  <2>6. Active(events, Len(events) + 1) \subseteq 1 .. Len(events)
    BY <1>0 DEF Active
  <2>7. ASSUME NEW i \in 1 .. Len(events)
        PROVE  Wellformed(events'[i]) /\ Chained(events', i)
    <3>1. Wellformed(events[i]) /\ Chained(events, i)
      BY Zenon DEF EventsInv
    <3>2. Active(events', i) = Active(events, i) /\ Active(events, i) \subseteq 1 .. Len(events)
      <4>1. Active(events, i) \subseteq 1 .. i - 1
        BY Zenon DEF Active
      <4> QED
        BY <4>1, <1>0, <2>5
    <3>3. events'[i] = events[i] /\ (i # 1 => events'[i - 1] = events[i - 1])
      BY <2>4, <1>0
    <3> QED
      BY <3>1, <3>2, <3>3, <2>4, Zenon DEF Chained
  <2>8. Chained(events', Len(events) + 1)
    <3>1. trace_state = IF Len(events) + 1 = 1 THEN "new" ELSE events'[Len(events) + 1 - 1].state_after
      BY <1>0, <2>4 DEF EventsInv
    <3>2. IF operation \in OfReservation \ {"reserve"}
          THEN \E j \in Active(events', Len(events) + 1) : events'[j].reservation_id = id
          ELSE Active(events', Len(events) + 1) = {}
      BY <1>0, <2>4, <2>5, <2>6 DEF EventsInv
    <3> QED
      BY <3>1, <3>2, <2>3, <2>4 DEF Chained
  <2>9. Active(events', Len(events) + 2) =
               IF operation = "release" THEN {}
               ELSE Active(events, Len(events) + 1) \cup
                        (IF operation = "reserve" THEN {Len(events) + 1} ELSE {})
    BY <2>1, <2>2, <2>3, ActiveNext, Zenon DEF EventsInv
  <2>10. after \notin Holding => Active(events', Len(events) + 2) = {}
    BY <2>9, Zenon DEF EventsInv, OfReservation
  <2>11. after \in Holding =>
             \E j \in Active(events', Len(events) + 2) : events'[j].reservation_id = id
    <3>1. CASE operation = "reserve"
      BY <3>1, <2>9, <2>4, <2>3, Zenon
    <3>2. CASE operation # "reserve"
      BY <3>2, <2>9, <2>4, <2>6, Zenon DEF EventsInv
    <3> QED
      BY <3>1, <3>2, Zenon
  <2>12. Len(events') <= request.max_trace_events
    BY <1>0, <1>2, <2>4
  <2>13. \A i \in 1 .. Len(events') : Wellformed(events'[i]) /\ Chained(events', i)
    BY <1>0, <2>1, <2>4, <2>7, <2>8
  <2>14. trace_state' = IF Len(events') = 0 THEN "new" ELSE events'[Len(events')].state_after
    BY <1>0, <2>1, <2>3, <2>4
  <2>15. Len(events') + 1 = Len(events) + 2
    BY <1>0, <2>4
  <2> QED
    BY <2>1, <2>4, <2>10, <2>11, <2>12, <2>13, <2>14, <2>15, Zenon DEF EventsInv
<1> QED
  BY <1>1, <1>2, Zenon

-----------------------------------------------------------------------------
(* What a step may do beside keeping the invariant: see TargetDecoding.    *)
Moves ==
    /\ status = "running"
    /\ request' = request
    /\ position <= position'
    /\ status' = "returned" => /\ committed' = committed
                               /\ position = Boundary
                               /\ reservations = {}
                               /\ reservations' = {}

(* A step of the adapter that records an event and commits nothing.        *)
LEMMA RecordStep ==
    ASSUME GateInv, Adapter, request' = request,
           NEW operation \in Operations, NEW after \in States, NEW count \in Int, NEW id \in Int,
           NEW fault \in Faults,
           Record(operation, after, count, id, fault),
           << trace_state, operation, after >> \in Allowed,
           Fits(operation, count, id, fault),
           IF operation \in OfReservation \ {"reserve"}
           THEN trace_state \in Holding /\ id = reservation
           ELSE trace_state \notin Holding,
           after \in Holding <=> operation \in OfReservation \ {"release"},
           after \in Holding => reservation' = id,
           position' \in Nat, position <= position',
           position' <= Boundary',
           committed' \in Seq(Tokens),
           \A i \in 1 .. position' : committed'[i] = target'[i],
           next_reservation' \in Nat \ {0},
           ~ (request.epoch /\ request.identity)
               => calls' = calls /\ after \in {"new", "fallback", "closed"},
           trace_state' = after => (RoundInv /\ FallbackInv)'
    PROVE  GateInv' /\ Moves
<1>1. status = "running" /\ request.path = "adapter"
  BY Zenon DEF Adapter
<1>2. status' \in {"running", "raised"} /\ (status' = "running" => trace_state' = after)
      /\ (trace_state' = trace_state \/ trace_state' = after)
  BY <1>1, RecordShape, Zenon
<1>3. LedgerInv'
  BY <1>2, Zenon DEF GateInv, LedgerInv
<1>4. ReferenceInv'
  BY <1>1, Zenon DEF ReferenceInv
<1>5. AdapterInv'
  BY <1>2, Zenon DEF AdapterInv
<1>6. EventsInv'
  BY <1>1, RecordKeeps, Zenon DEF GateInv, LedgerInv
<1>7. AskedInv'
  BY <1>1, <1>2, Zenon DEF GateInv, AskedInv
<1>8. Moves
  BY <1>1, <1>2, Zenon DEF Moves
<1> QED
  BY <1>3, <1>4, <1>5, <1>6, <1>7, <1>8, Zenon DEF GateInv

(* A step of the adapter that turns to the fallback.                       *)
LEMMA FallBackStep ==
    ASSUME GateInv, InOrder, UNCHANGED << trace, status >>,
           fallback' \in [fault : Faults, resume : BOOLEAN], fallback'.fault # "none",
           trace_state # "committed", ~ fallback'.resume => position = Boundary,
           UNCHANGED << request, ledger, reservation, proposal, accepted >>,
           calls' = calls \/ (request.epoch /\ request.identity)
    PROVE  GateInv' /\ Moves
<1>1. status = "running" /\ request.path = "adapter" /\ fallback = NoFallback
  BY Zenon DEF InOrder, Adapter
<1>2. status' = status /\ events' = events /\ trace_state' = trace_state
  BY Zenon DEF trace
<1>3. LedgerInv'
  BY <1>2, Zenon DEF GateInv, LedgerInv, ledger, position, target, Boundary
<1>4. ReferenceInv'
  BY <1>1, Zenon DEF ReferenceInv
<1>5. AdapterInv'
  <2>1. RoundInv'
    BY <1>1, <1>2, Zenon DEF GateInv, AdapterInv, RoundInv, ledger, position, target, Boundary,
       CandidateExtent, Rejected
  <2>2. FallbackInv'
    BY <1>1, <1>2, Zenon
       DEF GateInv, AdapterInv, FallbackInv, NoFallback, ledger, position, target, Boundary
  <2> QED
    BY <2>1, <2>2, Zenon DEF AdapterInv
<1>6. EventsInv'
  BY <1>1, <1>2, Zenon DEF GateInv, EventsInv
<1>7. AskedInv'
  BY <1>1, <1>2, Zenon DEF GateInv, AskedInv
<1>8. Moves
  <2>1. position' = position /\ position \in Nat
    BY DEF GateInv, LedgerInv, position, ledger
  <2> QED
    BY <1>1, <1>2, <2>1 DEF Moves
<1> QED
  BY <1>3, <1>4, <1>5, <1>6, <1>7, <1>8, Zenon DEF GateInv

-----------------------------------------------------------------------------
(* The reference loops.                                                    *)
LEMMA ReferenceKeeps ==
    ASSUME GateInv, Reference, AdapterUnused, NEW n \in Nat,
           Commit(n) \/ (n = 0 /\ committed' = committed), position + n <= Boundary,
           reservations' = reservations,
           next_reservation' \in Nat \ {0},
           status' = "running" \/ (status' = "returned" /\ committed' = committed /\ position = Boundary),
           target_only => target_only' /\ calls' = calls
    PROVE  GateInv' /\ Moves
<1>1. /\ status = "running" /\ request.path # "adapter" /\ request' = request
      /\ events' = events /\ trace_state' = trace_state
  BY Zenon DEF Reference, AdapterUnused, trace
<1>2. /\ committed' \in Seq(Tokens) /\ position' = position + n /\ position' <= Boundary'
      /\ \A i \in 1 .. position' : committed'[i] = target'[i]
  <2>1. CASE Commit(n)
    BY <1>1, <2>1, CommitKeeps, Zenon DEF GateInv
  <2>2. CASE n = 0 /\ committed' = committed
    <3>1. position' = position /\ position \in Nat
      BY <2>2 DEF GateInv, LedgerInv, position
    <3> QED
      BY <1>1, <2>2, <3>1 DEF GateInv, LedgerInv, target, Boundary
  <2> QED
    BY <2>1, <2>2, Zenon
<1>3. LedgerInv'
  BY <1>1, <1>2, Zenon DEF GateInv, LedgerInv
<1>4. ReferenceInv'
  BY <1>1, Zenon DEF GateInv, ReferenceInv
<1>5. AdapterInv'
  BY <1>1, Zenon DEF AdapterInv
<1>6. EventsInv'
  <2>1. trace_state \notin Holding
    BY <1>1, Zenon DEF GateInv, ReferenceInv, Holding
  <2> QED
    BY <1>1, <2>1, Zenon DEF GateInv, EventsInv
<1>7. AskedInv'
  BY <1>1, Zenon DEF GateInv, AskedInv, ReferenceInv
<1>8. Moves
  <2>1. position \in Nat /\ reservations = {}
    BY <1>1 DEF GateInv, LedgerInv, ReferenceInv, position
  <2> QED
    BY <1>1, <1>2, <2>1 DEF Moves
<1> QED
  BY <1>3, <1>4, <1>5, <1>6, <1>7, <1>8, Zenon DEF GateInv

LEMMA FirstOfFacts ==
    ASSUME NEW p \in Seq(Tokens), NEW n \in Nat
    PROVE  /\ FirstOf(p, n) \in Seq(Tokens)
           /\ Len(FirstOf(p, n)) \in 0 .. n
           /\ FirstOf(p, n) = << >> <=> Len(FirstOf(p, n)) = 0
<1>1. CASE Len(p) <= n
  BY <1>1 DEF FirstOf
<1>2. CASE ~ (Len(p) <= n)
  <2>1. SubSeq(p, 1, n) \in Seq(Tokens) /\ Len(SubSeq(p, 1, n)) = n
    BY <1>2
  <2> QED
    BY <1>2, <2>1 DEF FirstOf
<1> QED
  BY <1>1, <1>2, Zenon

LEMMA ReferenceSteps ==
    ASSUME GateInv,
           \/ TargetStep \/ GiveUp \/ ReferenceReturn
           \/ \E p \in Proposals : \E n \in 0 .. Len(p) : Round(p, n)
    PROVE  GateInv' /\ Moves
<1>0. /\ position \in Nat /\ Boundary \in Nat /\ position <= Boundary
      /\ next_reservation \in Nat \ {0} /\ next_reservation + 1 \in Nat \ {0}
  BY RequestFacts DEF GateInv, LedgerInv, position
<1>1. CASE TargetStep
  <2>1. position + 1 <= Boundary
    BY <1>0, <1>1 DEF TargetStep
  <2> QED
    BY <1>0, <1>1, <2>1, ReferenceKeeps, Zenon DEF TargetStep, Reference
<1>2. CASE GiveUp
  <2>1. position + 0 <= Boundary
    BY <1>0
  <2> QED
    BY <1>0, <1>2, <2>1, ReferenceKeeps, Zenon DEF GiveUp, Reference, ledger
<1>3. CASE ReferenceReturn
  <2>1. position + 0 <= Boundary /\ position = Boundary
    BY <1>0, <1>3 DEF ReferenceReturn
  <2> QED
    BY <1>0, <1>3, <2>1, ReferenceKeeps, Zenon DEF ReferenceReturn, Reference, ledger
<1>4. ASSUME NEW p \in Proposals, NEW n \in 0 .. Len(p), Round(p, n)
      PROVE  GateInv' /\ Moves
  <2> DEFINE candidate == FirstOf(p, Boundary - position)
             corrected == IF n < Len(candidate) THEN n + 1 ELSE n
  <2>1. p \in Seq(Tokens) /\ Boundary - position \in Nat
    BY <1>0, <1>4, RequestAssumption DEF Round
  <2>2. Len(candidate) \in 0 .. Boundary - position
    BY <2>1, FirstOfFacts, Zenon
  <2>3. Commit(corrected) /\ n <= Len(candidate) /\ Reference /\ ~ target_only /\ AdapterUnused
        /\ next_reservation' = next_reservation + 1
        /\ UNCHANGED << reservations, target_only, status >>
    BY <1>4, Zenon DEF Round
  <2> HIDE DEF candidate
  <2>4. corrected \in Nat /\ position + corrected <= Boundary
    BY <1>0, <2>2, <2>3
  <2> HIDE DEF corrected
  <2> QED
    BY <1>0, <2>3, <2>4, ReferenceKeeps, Zenon DEF Reference
<1> QED
  BY <1>1, <1>2, <1>3, <1>4, Zenon

-----------------------------------------------------------------------------
(* What the adapter finds at every step.                                   *)
LEMMA AdapterFacts ==
    ASSUME GateInv, Adapter
    PROVE  /\ status = "running" /\ request.path = "adapter"
           /\ RoundInv /\ FallbackInv /\ trace_state \in States
           /\ position \in Nat /\ Len(target) \in Nat /\ Boundary \in 0 .. Len(target)
           /\ position <= Boundary
           /\ next_reservation \in Nat \ {0}
           /\ request.cancel \in Int
           /\ request.max_candidate_tokens \in Nat \ {0}
           /\ committed \in Seq(Tokens)
           /\ \A i \in 1 .. position : committed[i] = target[i]
           /\ request.epoch \in BOOLEAN /\ request.identity \in BOOLEAN
           /\ ~ (request.epoch /\ request.identity) => trace_state \in {"new", "fallback", "closed"}
<1>1. position \in Nat
  BY DEF GateInv, LedgerInv, position
<1>2. request \in Requests
  BY Zenon DEF GateInv, LedgerInv
<1> QED
  BY <1>1, <1>2, RequestFacts, Zenon
     DEF GateInv, LedgerInv, AdapterInv, AskedInv, EventsInv, Adapter

(* What stays when nothing is committed.                                   *)
LEMMA NothingCommitted ==
    ASSUME GateInv, Adapter, committed' = committed, request' = request
    PROVE  /\ position' = position /\ position' \in Nat /\ position <= position'
           /\ Boundary' = Boundary /\ target' = target /\ position' <= Boundary'
           /\ CandidateExtent' = CandidateExtent
           /\ committed' \in Seq(Tokens)
           /\ \A i \in 1 .. position' : committed'[i] = target'[i]
<1>1. /\ position' = position /\ Boundary' = Boundary /\ target' = target
      /\ CandidateExtent' = CandidateExtent
  BY Zenon DEF position, Boundary, target, CandidateExtent
<1> QED
  BY <1>1, AdapterFacts

LEMMA ExtentFacts ==
    ASSUME GateInv, Adapter, position < Len(target)
    PROVE  /\ CandidateExtent \in Nat \ {0}
           /\ position + CandidateExtent <= Len(target)
           /\ ~ CancelDue => position + CandidateExtent <= Boundary
           /\ CandidateSlots \in 1 .. CandidateExtent
<1>1. /\ CandidateExtent \in Nat \ {0}
      /\ position + CandidateExtent <= Len(target)
      /\ ~ CancelDue => position + CandidateExtent <= Boundary
  BY AdapterFacts, SMTT(30) DEF CandidateExtent, CancelDue, Boundary
<1> QED
  BY <1>1, AdapterFacts DEF CandidateSlots

LEMMA PreflightKeeps == ASSUME GateInv, Preflight PROVE GateInv' /\ Moves
<1>0. /\ InOrder /\ Adapter /\ fallback = NoFallback /\ trace_state = "new"
      /\ UNCHANGED << request, ledger, calls, reservation, proposal, accepted >>
  BY Zenon DEF Preflight, InOrder, ReferenceUnused, local
<1>1. CASE ~ request.epoch
  <2>1. FallBack("epoch_mismatch", TRUE)
    BY <1>1, Zenon DEF Preflight
  <2> QED
    BY <1>0, <2>1, FallBackStep, Zenon DEF FallBack, Faults
<1>2. CASE request.epoch /\ ~ request.identity
  <2>1. FallBack("identity_mismatch", TRUE)
    BY <1>2, Zenon DEF Preflight
  <2> QED
    BY <1>0, <2>1, FallBackStep, Zenon DEF FallBack, Faults
<1>3. CASE request.epoch /\ request.identity
  <2>1. Record("pin", "pinned", 0, 0, "none") /\ fallback' = fallback
    BY <1>3, Zenon DEF Preflight
  <2>2. << trace_state, "pin", "pinned" >> \in Allowed /\ Fits("pin", 0, 0, "none")
    BY <1>0 DEF Allowed, Fits, OfReservation, Counted, Uncounted
  <2>3. /\ "pin" \notin OfReservation /\ trace_state \notin Holding /\ "pinned" \notin Holding
    BY <1>0, Zenon DEF OfReservation, Holding
  <2>4. committed' = committed /\ next_reservation' = next_reservation /\ reservations' = reservations
    BY <1>0, Zenon DEF ledger
  <2>5. trace_state' = "pinned" => RoundInv'
    BY <1>0, <2>3, <2>4, AdapterFacts, NothingCommitted, Zenon DEF RoundInv, Holding
  <2>6. trace_state' = "pinned" => FallbackInv'
    BY <1>0, <2>1, <2>4, AdapterFacts, NothingCommitted, Zenon DEF FallbackInv, NoFallback
  <2>7. "pin" \in Operations /\ "pinned" \in States /\ "none" \in Faults
    BY Zenon DEF Operations, Uncounted, States, Faults
  <2> QED
    BY <1>0, <1>3, <2>1, <2>2, <2>3, <2>4, <2>5, <2>6, <2>7, AdapterFacts, NothingCommitted,
       RecordStep, SMTT(30)
<1> QED
  BY <1>1, <1>2, <1>3, AdapterFacts, <1>0, Zenon

LEMMA DeadlineKeeps == ASSUME GateInv, DeadlineExceeded PROVE GateInv' /\ Moves
<1>1. /\ InOrder /\ FallBack("deadline_exceeded", TRUE)
      /\ UNCHANGED << request, ledger, calls, reservation, proposal, accepted >>
  BY Zenon DEF DeadlineExceeded, ReferenceUnused, local
<1>2. trace_state # "committed"
  BY Zenon DEF DeadlineExceeded, AtLoop
<1> QED
  BY <1>1, <1>2, FallBackStep, Zenon DEF FallBack, Faults

LEMMA CloseCompleteKeeps == ASSUME GateInv, CloseComplete PROVE GateInv' /\ Moves
<1>0. /\ Adapter /\ fallback = NoFallback /\ trace_state \in {"pinned", "released"}
      /\ ~ (position < Len(target))
      /\ Record("close", "closed", 0, 0, "none")
      /\ UNCHANGED << request, committed, reservations, next_reservation, calls, reservation, proposal,
                      accepted, fallback >>
  BY Zenon DEF CloseComplete, InOrder, AtLoop, More, ReferenceUnused, ledger, local
<1>1. << trace_state, "close", "closed" >> \in Allowed /\ Fits("close", 0, 0, "none")
  BY <1>0 DEF Allowed, Fits, OfReservation, Counted, Uncounted
<1>2. "close" \notin OfReservation /\ trace_state \notin Holding /\ "closed" \notin Holding
  BY <1>0, Zenon DEF OfReservation, Holding
<1>3. position = Boundary
  BY <1>0, AdapterFacts
<1>4. trace_state' = "closed" => RoundInv'
  BY <1>0, <1>2, AdapterFacts, NothingCommitted, Zenon DEF RoundInv, Holding
<1>5. trace_state' = "closed" => FallbackInv'
  BY <1>0, <1>3, AdapterFacts, NothingCommitted, Zenon DEF FallbackInv, NoFallback
<1> QED
  BY <1>0, <1>1, <1>2, <1>4, <1>5, AdapterFacts, NothingCommitted, RecordStep
     DEF Operations, OfReservation, Uncounted, States, Faults

LEMMA AskReservationKeeps ==
    ASSUME GateInv, NEW exhausted \in BOOLEAN, AskReservation(exhausted) PROVE GateInv' /\ Moves
<1>0. /\ InOrder /\ Adapter /\ fallback = NoFallback /\ trace_state \in {"pinned", "released"}
      /\ position < Len(target) /\ UNCHANGED << request, calls, proposal, accepted >>
  BY Zenon DEF AskReservation, InOrder, AtLoop, More, ReferenceUnused
<1>1. CASE exhausted
  <2>1. FallBack("resource_exhausted", TRUE) /\ UNCHANGED << ledger, reservation >>
    BY <1>1, Zenon DEF AskReservation
  <2> QED
    BY <1>0, <2>1, FallBackStep, Zenon DEF FallBack, Faults
<1>2. CASE ~ exhausted
  <2>1. /\ Record("reserve", "reserved", CandidateSlots, next_reservation, "none")
        /\ reservation' = next_reservation /\ committed' = committed /\ fallback' = fallback
        /\ next_reservation' = next_reservation + 1
        /\ reservations' = reservations \cup {next_reservation}
    BY <1>2, Zenon DEF AskReservation, Reserve
  <2>2. CandidateSlots \in Nat \ {0}
    BY <1>0, ExtentFacts
  <2>3. /\ << trace_state, "reserve", "reserved" >> \in Allowed
        /\ Fits("reserve", CandidateSlots, next_reservation, "none")
    BY <1>0, <2>2, AdapterFacts DEF Allowed, Fits, OfReservation, Counted, Uncounted
  <2>4. "reserve" \in OfReservation /\ trace_state \notin Holding /\ "reserved" \in Holding
    BY <1>0, Zenon DEF OfReservation, Holding
  <2>5. reservations = {}
    BY <1>0, <2>4, AdapterFacts, Zenon DEF RoundInv
  <2>6. trace_state' = "reserved" => RoundInv'
    BY <1>0, <2>1, <2>4, <2>5, AdapterFacts, NothingCommitted, Zenon DEF RoundInv
  <2>7. trace_state' = "reserved" => FallbackInv'
    BY <1>0, <2>1, AdapterFacts, NothingCommitted, Zenon DEF FallbackInv
  <2>8. request.epoch /\ request.identity
    BY <1>0, AdapterFacts, Zenon
  <2>9. next_reservation \in Int /\ next_reservation' \in Nat \ {0} /\ CandidateSlots \in Int
    BY <1>0, <2>1, <2>2, AdapterFacts
  <2> QED
    BY <1>0, <2>1, <2>2, <2>3, <2>4, <2>6, <2>7, <2>8, <2>9, AdapterFacts, NothingCommitted,
       RecordStep, Zenon
     DEF Operations, OfReservation, Uncounted, States, Faults
<1> QED
  BY <1>1, <1>2, Zenon

LEMMA ProposeKeeps ==
    ASSUME GateInv, NEW p \in Proposals, Propose(p) PROVE GateInv' /\ Moves
<1> DEFINE candidate == FirstOf(p, CandidateSlots)
<1>0. /\ InOrder /\ Adapter /\ fallback = NoFallback /\ trace_state = "reserved"
      /\ UNCHANGED << request, committed, reservations, next_reservation, reservation, accepted >>
      /\ UNCHANGED ledger
  BY Zenon DEF Propose, InOrder, ReferenceUnused, ledger
<1>1. request.epoch /\ request.identity /\ position < Len(target) /\ reservation \in Nat \ {0}
  BY <1>0, AdapterFacts, Zenon DEF RoundInv, Holding
<1>2. candidate \in Seq(Tokens) /\ Len(candidate) \in 0 .. CandidateExtent
      /\ (candidate = << >> <=> Len(candidate) = 0)
  BY <1>0, <1>1, ExtentFacts, FirstOfFacts, RequestAssumption
<1>3. CASE candidate = << >>
  <2>1. FallBack("proposer_failure", TRUE) /\ UNCHANGED proposal
    BY <1>3, Zenon DEF Propose
  <2> QED
    BY <1>0, <1>1, <2>1, FallBackStep, Zenon DEF FallBack, Faults
<1>4. CASE candidate # << >>
  <2>1. /\ proposal' = candidate /\ fallback' = fallback
        /\ Record("propose", "proposed", Len(candidate), reservation, "none")
    BY <1>4, Zenon DEF Propose
  <2> HIDE DEF candidate
  <2>2. Len(candidate) \in Nat \ {0}
    BY <1>2, <1>4
  <2>3. /\ << trace_state, "propose", "proposed" >> \in Allowed
        /\ Fits("propose", Len(candidate), reservation, "none")
    BY <1>0, <1>1, <2>2 DEF Allowed, Fits, OfReservation, Counted, Uncounted
  <2>4. "propose" \in OfReservation /\ trace_state \in Holding /\ "proposed" \in Holding
    BY <1>0, Zenon DEF OfReservation, Holding
  <2>5. trace_state' = "proposed" => RoundInv'
    BY <1>0, <1>1, <1>2, <2>1, <2>2, <2>4, AdapterFacts, NothingCommitted DEF RoundInv
  <2>6. trace_state' = "proposed" => FallbackInv'
    BY <1>0, <2>1, AdapterFacts, NothingCommitted, Zenon DEF FallbackInv
  <2> QED
    BY <1>0, <1>1, <2>1, <2>2, <2>3, <2>4, <2>5, <2>6, AdapterFacts, NothingCommitted,
       RecordStep, SMTT(30)
     DEF Operations, OfReservation, Uncounted, States, Faults
<1> QED
  BY <1>3, <1>4, Zenon

LEMMA CancelRequestKeeps == ASSUME GateInv, CancelRequest PROVE GateInv' /\ Moves
<1>1. /\ InOrder /\ Adapter /\ FallBack("request_cancelled", FALSE) /\ trace_state = "proposed"
      /\ UNCHANGED << request, ledger, calls, reservation, proposal, accepted >>
  BY Zenon DEF CancelRequest, InOrder, ReferenceUnused, local
<1>2. position = Boundary
  BY <1>1, AdapterFacts DEF CancelRequest, CancelDue, Boundary
<1> QED
  BY <1>1, <1>2, FallBackStep, Zenon DEF FallBack, Faults

LEMMA VerifierFailsKeeps == ASSUME GateInv, VerifierFails PROVE GateInv' /\ Moves
<1>1. /\ InOrder /\ FallBack("verifier_failure", TRUE) /\ trace_state = "proposed"
      /\ UNCHANGED << request, ledger, calls, reservation, proposal, accepted >>
  BY Zenon DEF VerifierFails, ReferenceUnused, local
<1> QED
  BY <1>1, FallBackStep, Zenon DEF FallBack, Faults

LEMMA VerifyKeeps ==
    ASSUME GateInv, NEW n \in 0 .. Len(proposal), Verify(n) PROVE GateInv' /\ Moves
<1>0. /\ Adapter /\ fallback = NoFallback /\ trace_state = "proposed" /\ ~ CancelDue
      /\ UNCHANGED << request, committed, reservations, next_reservation, calls, reservation,
                      proposal, fallback >>
  BY Zenon DEF Verify, InOrder, ReferenceUnused, ledger
<1>1. /\ request.epoch /\ request.identity /\ position < Len(target) /\ reservation \in Nat \ {0}
      /\ Len(proposal) \in 1 .. CandidateExtent
  BY <1>0, AdapterFacts, Zenon DEF RoundInv, Holding
<1>2. position + Len(proposal) <= Boundary /\ ~ (position + Len(proposal) > Len(target))
  BY <1>0, <1>1, ExtentFacts, AdapterFacts, SMTT(30)
<1>3. n <= Len(proposal) /\ accepted' = n /\ Record("verify", "verified", n, reservation, "none")
  BY <1>2, Zenon DEF Verify
<1>4. n \in Nat
  BY <1>1
<1>5. /\ << trace_state, "verify", "verified" >> \in Allowed
      /\ Fits("verify", n, reservation, "none")
  BY <1>0, <1>1, Zenon DEF Allowed, Fits, OfReservation, Counted, Uncounted
<1>6. "verify" \in OfReservation /\ trace_state \in Holding /\ "verified" \in Holding
  BY <1>0, Zenon DEF OfReservation, Holding
<1>7. trace_state' = "verified" => RoundInv'
  BY <1>0, <1>1, <1>2, <1>3, <1>4, <1>6, AdapterFacts, NothingCommitted, SMTT(30) DEF RoundInv
<1>8. trace_state' = "verified" => FallbackInv'
  BY <1>0, AdapterFacts, NothingCommitted, Zenon DEF FallbackInv
<1> QED
  BY <1>0, <1>1, <1>3, <1>4, <1>5, <1>6, <1>7, <1>8, AdapterFacts, NothingCommitted, RecordStep
     DEF Operations, OfReservation, Uncounted, States, Faults

LEMMA RewindKeeps == ASSUME GateInv, Rewind PROVE GateInv' /\ Moves
<1>0. /\ Adapter /\ fallback = NoFallback /\ trace_state = "verified" /\ Rejected > 0
      /\ Record("rewind", "rewound", Rejected, reservation, "none")
      /\ UNCHANGED << request, committed, reservations, next_reservation, calls, reservation,
                      proposal, accepted, fallback >>
  BY Zenon DEF Rewind, InOrder, ReferenceUnused, ledger, local
<1>1. /\ request.epoch /\ request.identity /\ reservation \in Nat \ {0}
      /\ Rejected \in Int /\ Rejected' = Rejected
  BY <1>0, AdapterFacts DEF RoundInv, Holding, Rejected
<1>2. /\ << trace_state, "rewind", "rewound" >> \in Allowed
      /\ Fits("rewind", Rejected, reservation, "none")
  BY <1>0, <1>1, Zenon DEF Allowed, Fits, OfReservation, Counted, Uncounted
<1>3. "rewind" \in OfReservation /\ trace_state \in Holding /\ "rewound" \in Holding
  BY <1>0, Zenon DEF OfReservation, Holding
<1>4. trace_state' = "rewound" => RoundInv'
  BY <1>0, <1>1, <1>3, AdapterFacts, NothingCommitted, Zenon DEF RoundInv
<1>5. trace_state' = "rewound" => FallbackInv'
  BY <1>0, AdapterFacts, NothingCommitted, Zenon DEF FallbackInv
<1>6. "rewind" \in Operations /\ "rewound" \in States /\ "none" \in Faults
  BY <1>3, Zenon DEF Operations, States, Faults
<1> QED
  BY <1>0, <1>1, <1>2, <1>3, <1>4, <1>5, <1>6, AdapterFacts, NothingCommitted, RecordStep,
     SMTT(30)

LEMMA CommitVerifiedKeeps == ASSUME GateInv, CommitVerified PROVE GateInv' /\ Moves
<1>0. /\ Adapter /\ fallback = NoFallback /\ trace_state \in {"verified", "rewound"}
      /\ trace_state = "verified" => Rejected = 0
      /\ Commit(CommitLength)
      /\ Record("commit", "committed", CommitLength, reservation, "none")
      /\ UNCHANGED << request, reservations, next_reservation, calls, reservation,
                      proposal, accepted, fallback >>
  BY Zenon DEF CommitVerified, InOrder, ReferenceUnused, local
<1>1. /\ request.epoch /\ request.identity /\ reservation \in Nat \ {0}
  BY <1>0, AdapterFacts, Zenon DEF RoundInv, Holding
<1>2. CommitLength \in Nat \ {0} /\ position + CommitLength <= Boundary
  BY <1>0, AdapterFacts, SMTT(30) DEF RoundInv, Rejected, CommitLength
<1>3. /\ << trace_state, "commit", "committed" >> \in Allowed
      /\ Fits("commit", CommitLength, reservation, "none")
  BY <1>0, <1>1, <1>2 DEF Allowed, Fits, OfReservation, Counted, Uncounted
<1>4. "commit" \in OfReservation /\ trace_state \in Holding /\ "committed" \in Holding
  BY <1>0, Zenon DEF OfReservation, Holding
<1>5. /\ committed' \in Seq(Tokens)
      /\ position' = position + CommitLength
      /\ position' <= Boundary'
      /\ \A i \in 1 .. position' : committed'[i] = target'[i]
  BY <1>0, <1>2, CommitKeeps, Zenon DEF GateInv
<1>6. trace_state' = "committed" => RoundInv'
  BY <1>0, <1>4, AdapterFacts, Zenon DEF RoundInv
<1>7. trace_state' = "committed" => FallbackInv'
  BY <1>0, AdapterFacts, Zenon DEF FallbackInv, NoFallback
<1>8. position' \in Nat /\ position <= position'
  BY <1>0, <1>2, <1>5, AdapterFacts, SMTT(30)
<1> QED
  BY <1>0, <1>1, <1>2, <1>3, <1>4, <1>5, <1>6, <1>7, <1>8, AdapterFacts, RecordStep
     DEF Operations, OfReservation, Uncounted, States, Faults

(* A reservation is given back after a commit and after a cancellation.    *)
LEMMA ReleaseKeeps == ASSUME GateInv, ReleaseCommitted \/ ReleaseCancelled PROVE GateInv' /\ Moves
<1>0. /\ Adapter /\ trace_state \in {"committed", "cancelled"}
      /\ reservations' = reservations \ {reservation} /\ reservation' = 0
      /\ Record("release", "released", 0, reservation, "none")
      /\ UNCHANGED << request, committed, next_reservation, calls, proposal, accepted, fallback >>
  BY Zenon
     DEF ReleaseCommitted, ReleaseCancelled, InOrder, InFallback, ReferenceUnused, ReleaseHeld
<1>1. /\ request.epoch /\ request.identity /\ reservation \in Nat \ {0}
      /\ reservations' = {}
  BY <1>0, AdapterFacts, Zenon DEF RoundInv, Holding
<1>2. /\ << trace_state, "release", "released" >> \in Allowed
      /\ Fits("release", 0, reservation, "none")
  BY <1>0, <1>1, Zenon DEF Allowed, Fits, OfReservation, Counted, Uncounted
<1>3. "release" \in OfReservation /\ trace_state \in Holding /\ "released" \notin Holding
  BY <1>0, Zenon DEF OfReservation, Holding
<1>4. trace_state' = "released" => RoundInv'
  BY <1>0, <1>1, <1>3, AdapterFacts, NothingCommitted, Zenon DEF RoundInv
<1>5. trace_state' = "released" => FallbackInv'
  BY <1>0, AdapterFacts, NothingCommitted, Zenon DEF FallbackInv
<1> QED
  BY <1>0, <1>1, <1>2, <1>3, <1>4, <1>5, AdapterFacts, NothingCommitted, RecordStep
     DEF Operations, OfReservation, Uncounted, States, Faults

LEMMA CancelHeldKeeps == ASSUME GateInv, CancelHeld PROVE GateInv' /\ Moves
<1>0. /\ Adapter /\ fallback # NoFallback /\ reservation # 0 /\ trace_state # "cancelled"
      /\ Record("cancel", "cancelled", 0, reservation, "none")
      /\ UNCHANGED << request, committed, reservations, next_reservation, calls, reservation,
                      proposal, accepted, fallback >>
  BY Zenon DEF CancelHeld, InFallback, ReferenceUnused, ledger, local
<1>1. /\ trace_state \in {"reserved", "proposed", "verified", "rewound"}
      /\ request.epoch /\ request.identity /\ reservation \in Nat \ {0}
  BY <1>0, AdapterFacts, Zenon DEF RoundInv, FallbackInv, Holding
<1>2. /\ << trace_state, "cancel", "cancelled" >> \in Allowed
      /\ Fits("cancel", 0, reservation, "none")
  BY <1>0, <1>1, Zenon DEF Allowed, Fits, OfReservation, Counted, Uncounted
<1>3. "cancel" \in OfReservation /\ trace_state \in Holding /\ "cancelled" \in Holding
  BY <1>1, Zenon DEF OfReservation, Holding
<1>4. trace_state' = "cancelled" => RoundInv'
  BY <1>0, <1>1, <1>3, AdapterFacts, NothingCommitted, Zenon DEF RoundInv
<1>5. trace_state' = "cancelled" => FallbackInv'
  BY <1>0, AdapterFacts, NothingCommitted, Zenon DEF FallbackInv
<1> QED
  BY <1>0, <1>1, <1>2, <1>3, <1>4, <1>5, AdapterFacts, NothingCommitted, RecordStep
     DEF Operations, OfReservation, Uncounted, States, Faults

LEMMA EnterFallbackKeeps == ASSUME GateInv, EnterFallback PROVE GateInv' /\ Moves
<1>0. /\ Adapter /\ fallback # NoFallback /\ reservation = 0 /\ trace_state \notin {"fallback", "closed"}
      /\ Record("fallback", "fallback", 0, 0, fallback.fault)
      /\ UNCHANGED << request, committed, reservations, next_reservation, calls, reservation,
                      proposal, accepted, fallback >>
  BY Zenon DEF EnterFallback, InFallback, ReferenceUnused, ledger, local
<1>1. /\ trace_state \in {"new", "pinned", "released"} /\ trace_state \notin Holding
      /\ fallback.fault \in Faults /\ fallback.fault # "none"
  BY <1>0, AdapterFacts, Zenon DEF RoundInv, FallbackInv, States
<1>2. /\ << trace_state, "fallback", "fallback" >> \in Allowed
      /\ Fits("fallback", 0, 0, fallback.fault)
  BY <1>1 DEF Allowed, Fits, OfReservation, Counted, Uncounted
<1>3. "fallback" \notin OfReservation /\ "fallback" \notin Holding
  BY Zenon DEF OfReservation, Holding
<1>4. trace_state' = "fallback" => RoundInv'
  BY <1>0, <1>1, <1>3, AdapterFacts, NothingCommitted, Zenon DEF RoundInv
<1>5. trace_state' = "fallback" => FallbackInv'
  BY <1>0, AdapterFacts, NothingCommitted, Zenon DEF FallbackInv
<1>6. "fallback" \in Operations /\ "fallback" \in States
  BY Zenon DEF Operations, Uncounted, States
<1> QED
  BY <1>0, <1>1, <1>2, <1>3, <1>4, <1>5, <1>6, AdapterFacts, NothingCommitted, RecordStep,
     SMTT(30)

LEMMA CloseFallbackKeeps == ASSUME GateInv, CloseFallback PROVE GateInv' /\ Moves
<1>0. /\ Adapter /\ fallback # NoFallback /\ trace_state = "fallback"
      /\ Record("close", "closed", 0, 0, "none")
      /\ UNCHANGED << request, reservations, next_reservation, calls, reservation,
                      proposal, accepted, fallback >>
  BY Zenon DEF CloseFallback, InFallback, ReferenceUnused, local
<1>1. << trace_state, "close", "closed" >> \in Allowed /\ Fits("close", 0, 0, "none")
  BY <1>0 DEF Allowed, Fits, OfReservation, Counted, Uncounted
<1>2. "close" \notin OfReservation /\ trace_state \notin Holding /\ "closed" \notin Holding
  BY <1>0, Zenon DEF OfReservation, Holding
<1>3. /\ committed' \in Seq(Tokens)
      /\ position' = Boundary /\ Boundary' = Boundary
      /\ \A i \in 1 .. position' : committed'[i] = target'[i]
  <2>1. Boundary' = Boundary
    BY <1>0, Zenon DEF Boundary, target
  <2>2. CASE fallback.resume
    <3> DEFINE rest == Boundary - position
    <3>1. rest \in Nat /\ position + rest = Boundary /\ position + rest <= Boundary
      BY <1>0, AdapterFacts
    <3>2. Commit(rest)
      BY <2>2, Zenon DEF CloseFallback
    <3> HIDE DEF rest
    <3>3. LedgerInv /\ request' = request
      BY <1>0, Zenon DEF GateInv
    <3> QED
      BY <2>1, <3>1, <3>2, <3>3, CommitKeeps, Zenon
  <2>3. CASE ~ fallback.resume
    <3>1. position = Boundary /\ committed' = committed
      BY <1>0, <2>3, AdapterFacts, Zenon DEF FallbackInv, CloseFallback
    <3> QED
      BY <1>0, <2>1, <3>1, NothingCommitted, Zenon
  <2> QED
    BY <2>2, <2>3, Zenon
<1>4. position' \in Nat /\ position <= position' /\ position' <= Boundary'
  BY <1>0, <1>3, AdapterFacts
<1>5. trace_state' = "closed" => RoundInv'
  BY <1>0, <1>2, AdapterFacts, Zenon DEF RoundInv
<1>6. trace_state' = "closed" => FallbackInv'
  BY <1>0, <1>3, AdapterFacts, Zenon DEF FallbackInv
<1>7. next_reservation' \in Nat \ {0}
  BY <1>0, AdapterFacts, Zenon
<1> QED
  BY <1>0, <1>1, <1>2, <1>3, <1>4, <1>5, <1>6, <1>7, RecordStep
     DEF Operations, OfReservation, Uncounted, States, Faults

(* A trace that is closed is complete and holds nothing.                   *)
LEMMA ClosedIsValid == ASSUME EventsInv, trace_state = "closed" PROVE TraceValid(events)
<1>1. Len(events) # 0 /\ events # << >>
  BY Zenon DEF EventsInv
<1>2. "closed" \notin Holding
  BY Zenon DEF Holding
<1> QED
  BY <1>1, <1>2, Zenon DEF EventsInv, TraceValid

LEMMA AdapterReturnKeeps == ASSUME GateInv, AdapterReturn PROVE GateInv' /\ Moves
<1>0. /\ Adapter /\ trace_state = "closed" /\ trace_state \notin Holding
      /\ UNCHANGED << request, committed, reservations, next_reservation, calls, reservation,
                      trace_state, events >>
  BY Zenon DEF AdapterReturn, ReferenceUnused, ledger, local, trace, Holding
<1>1. status' = "returned"
  BY <1>0, ClosedIsValid, Zenon DEF GateInv, AdapterReturn
<1>2. position = Boundary /\ reservations = {}
  BY <1>0, AdapterFacts, Zenon DEF RoundInv, FallbackInv
<1>3. LedgerInv'
  BY <1>0, <1>1, NothingCommitted, Zenon DEF GateInv, LedgerInv
<1>4. ReferenceInv' /\ AdapterInv'
  BY <1>0, <1>1, Zenon DEF ReferenceInv, AdapterInv, Adapter
<1>5. EventsInv'
  BY <1>0, <1>1, Zenon DEF GateInv, EventsInv
<1>6. AskedInv'
  BY <1>0, Zenon DEF GateInv, AskedInv
<1>7. Moves
  BY <1>0, <1>1, <1>2, AdapterFacts, NothingCommitted, Zenon DEF Moves
<1> QED
  BY <1>3, <1>4, <1>5, <1>6, <1>7, Zenon DEF GateInv

-----------------------------------------------------------------------------
LEMMA GateStart == ASSUME GateInit PROVE GateInv
<1>1. /\ request \in Requests /\ committed = << >> /\ reservations = {} /\ next_reservation = 1
      /\ target_only = (request.path = "target_only" \/ ~ request.epoch) /\ calls = 0
      /\ trace_state = "new" /\ events = << >> /\ reservation = 0 /\ proposal = << >>
      /\ accepted = 0 /\ fallback = NoFallback /\ status = "running"
  BY Zenon DEF GateInit
<1>2. position = 0 /\ committed \in Seq(Tokens)
  BY <1>1 DEF position
<1>3. LedgerInv
  BY <1>1, <1>2, RequestFacts DEF LedgerInv
<1>4. ReferenceInv
  BY <1>1, Zenon DEF ReferenceInv
<1>5. RoundInv
  BY <1>1 DEF RoundInv, Holding
<1>6. FallbackInv
  BY <1>1, Zenon DEF FallbackInv, NoFallback, Faults
<1>7. EventsInv
  <2>1. events \in Seq(EventType) /\ Len(events) = 0
    BY <1>1
  <2>2. Active(events, Len(events) + 1) = {}
    BY <2>1 DEF Active
  <2> QED
    BY <1>1, <2>1, <2>2, RequestFacts DEF EventsInv, States, Holding
<1>8. AskedInv
  BY <1>1, Zenon DEF AskedInv
<1> QED
  BY <1>3, <1>4, <1>5, <1>6, <1>7, <1>8, Zenon DEF GateInv, AdapterInv

LEMMA GateSteps == ASSUME GateInv, GateNext PROVE GateInv' /\ Moves
BY Zenon, ReferenceSteps, PreflightKeeps, DeadlineKeeps, CloseCompleteKeeps, AskReservationKeeps,
   ProposeKeeps, CancelRequestKeeps, VerifierFailsKeeps, VerifyKeeps, RewindKeeps,
   CommitVerifiedKeeps, ReleaseKeeps, CancelHeldKeeps, EnterFallbackKeeps, CloseFallbackKeeps,
   AdapterReturnKeeps DEF GateNext

LEMMA GateStutters == ASSUME GateInv, UNCHANGED gateVars PROVE GateInv'
<1>1. UNCHANGED << request, committed, reservations, next_reservation, target_only, calls,
                   trace_state, events, reservation, proposal, accepted, fallback, status >>
  BY Zenon DEF gateVars, ledger, trace, local
<1>2. LedgerInv' /\ ReferenceInv' /\ AskedInv'
  BY <1>1, Zenon DEF GateInv, LedgerInv, ReferenceInv, AskedInv, position, Boundary, target
<1>3. EventsInv'
  BY <1>1, Zenon DEF GateInv, EventsInv
<1>4. AdapterInv'
  BY <1>1, Zenon
     DEF GateInv, AdapterInv, RoundInv, FallbackInv, position, Boundary, target, Rejected,
     CandidateExtent
<1> QED
  BY <1>2, <1>3, <1>4, Zenon DEF GateInv

LEMMA GateInduction == GateSpec => []GateInv
<1>1. GateInit => GateInv
  BY GateStart, Zenon
<1>2. GateInv /\ [GateNext]_gateVars => GateInv'
  BY GateSteps, GateStutters, Zenon
<1> QED
  BY <1>1, <1>2, PTL DEF GateSpec

(* For every target, boundary, proposer, failure, deadline and bound of    *)
(* the trace: the adapter raises only where its trace is full, every trace *)
(* it closes is one EaglegateAdapterTrace accepts, and a proposer of       *)
(* another epoch or identity is never asked.                               *)
THEOREM TracesStayAccepted == GateSpec => []TracesAccepted
<1>1. GateInv => TracesAccepted
  <2> SUFFICES ASSUME GateInv PROVE TracesAccepted
    BY Zenon
  <2>1. trace_state = "closed" => TraceValid(events)
    BY ClosedIsValid, Zenon DEF GateInv
  <2> QED
    BY <2>1, Zenon DEF GateInv, EventsInv, AskedInv, TracesAccepted
<1> QED
  BY <1>1, GateInduction, PTL

(* The target-only loop, the speculative reference and the adapter commit  *)
(* nothing but the target's own tokens, in order, and return with all of   *)
(* them up to the boundary and nothing reserved, whatever the proposer     *)
(* answers and whatever fails (run_target_only, run_speculative_reference, *)
(* run_adapter_conformance_reference).                                     *)
THEOREM DecodingIsTheTargets == GateSpec => DecodesAsTarget
<1>1. GateInit => Promise!Init
  BY Zenon DEF GateInit, Promise!Init
<1>2. ASSUME GateInv, GateInv', GateNext, Moves
      PROVE  Promise!Next
  <2>1. /\ target \in Seq(Tokens) /\ Boundary \in 0 .. Len(target)
        /\ committed \in Seq(Tokens) /\ position = Len(committed) /\ position <= Boundary
        /\ \A i \in 1 .. Len(committed) : committed[i] = target[i]
    BY <1>2, RequestFacts, Zenon DEF GateInv, LedgerInv, position
  <2>2. /\ Boundary' = Boundary /\ target' = target
    BY <1>2, Zenon DEF Moves, Boundary, target
  <2>3. /\ committed' \in Seq(Tokens) /\ position' = Len(committed') /\ Len(committed') <= Boundary
        /\ \A i \in 1 .. Len(committed') : committed'[i] = target[i]
    BY <1>2, <2>2, Zenon DEF GateInv, LedgerInv, position
  <2> DEFINE wanted == SubSeq(request.target, 1, Boundary)
  <2>4. Len(wanted) = Boundary /\ wanted' = wanted
    BY <1>2, <2>1, <2>2, PrefixTokens, Zenon DEF target, Moves
  <2>5. committed' = SubSeq(wanted, 1, Len(committed'))
    BY <2>1, <2>3, PrefixTokens, Zenon DEF target
  <2>6. committed = SubSeq(wanted, 1, Len(committed))
    BY <2>1, PrefixTokens, Zenon DEF target
  <2>7. CASE status' = "returned"
    <3>1. committed' = committed /\ Len(committed) = Boundary /\ reservations = {} /\ reservations' = {}
          /\ status = "running"
      BY <1>2, <2>7, Zenon DEF Moves, position
    <3>2. committed = wanted
      <4>1. SubSeq(wanted, 1, Len(wanted)) = wanted
        BY <2>1, <2>4 DEF target
      <4> QED
        BY <2>4, <2>6, <3>1, <4>1, Zenon
    <3> QED
      BY <2>4, <2>7, <3>1, <3>2, Zenon DEF Promise!Next, Promise!Return
  <2>8. CASE status' # "returned"
    <3>1. status = "running" /\ status' \in {"running", "raised"} /\ Len(committed') \in 0 .. Len(wanted)
          /\ Len(committed') >= Len(committed)
      BY <1>2, <2>1, <2>3, <2>4, <2>8, SMTT(30) DEF Moves, GateInv, LedgerInv
    <3>2. Promise!Extend(Len(committed'))
      <4>1. Len(committed') <= Len(wanted)
        BY <2>1, <2>4, <3>1
      <4>2. (reservations # {})' \in BOOLEAN
        BY Zenon
      <4> QED
        BY <2>4, <2>5, <3>1, <4>1, <4>2, Zenon DEF Promise!Extend
    <3> QED
      BY <3>1, <3>2, Zenon DEF Promise!Next
  <2> QED
    BY <2>7, <2>8, Zenon
<1>3. UNCHANGED gateVars => UNCHANGED Promise!decodeVars
  BY Zenon DEF gateVars, ledger, Promise!decodeVars, Boundary, target
<1>4. GateInv /\ GateInv' /\ [GateNext]_gateVars => [Promise!Next]_(Promise!decodeVars)
  BY <1>2, <1>3, GateSteps, Zenon
<1> QED
  BY <1>1, <1>4, GateInduction, PTL DEF GateSpec, DecodesAsTarget, Promise!Spec

=============================================================================
