------------------------------ MODULE PairSearch ------------------------------
(***************************************************************************)
(* The search of one pair of a coverage run: its time slots are asked side *)
(* by side, what they answer is merged, a planner that accepts no          *)
(* connection is asked again, and in a fan-out every session does so on    *)
(* its own before their trips are joined; the row is then written, and its *)
(* write retried or given up (app/network_coverage/runner.py,              *)
(* _execute_pair, _execute_pair_fanout and _write_pair).                   *)
(***************************************************************************)
EXTENDS Naturals, FiniteSets, Sequences, FiniteSetsExt

CONSTANTS
    PairSessions,   \* the session of the run, or the sessions of a fan-out
    SlotNames,      \* the K slots, 1..K
    Trips,          \* journeys a planner may answer
    KeyOf,          \* strict_key of each
    SignatureOf,    \* trip_signature of each
    DurationOf,     \* duration_seconds of each
    InWindow,       \* those boarding inside the run's window
    AnswerSets,     \* the answers of a slot: sequences of trips
    WithinPair,     \* cfg.within_pair_parallelism
    MaxRetries,     \* len(_CONNECT_RETRY_DELAYS_S)
    WriteRetries    \* len(_WRITE_RETRY_DELAYS_S)

ASSUME PairAssumption ==
    /\ IsFiniteSet(SlotNames) /\ SlotNames = 1..Cardinality(SlotNames) /\ InWindow \subseteq Trips
    /\ IsFiniteSet(PairSessions) /\ AnswerSets \subseteq Seq(Trips) /\ DurationOf \in [Trips -> Nat]
    /\ WithinPair \in Nat \ {0} /\ MaxRetries \in Nat /\ WriteRetries \in Nat

VARIABLES
    query,      \* session -> its query: phase, attempt, what each slot answered
    pairStop,   \* the run's in-process cancel event
    pairResult, \* the row written, or <<>>
    writeTries, \* attempts to write it that a transient error ended
    pairEnd     \* "open", "written", "left" without a row, or "raised"

rowVars == <<pairResult, writeTries, pairEnd>>
pairVars == <<query, pairStop, rowVars>>

NoAnswer == [state |-> "waiting", trips |-> <<>>]
Fresh(n) == [pc |-> "slots", attempt |-> n, slot |-> [k \in SlotNames |-> NoAnswer],
             trips |-> <<>>, status |-> "none"]

PairInit ==
    /\ query = [s \in PairSessions |-> Fresh(1)] /\ pairStop = FALSE
    /\ pairResult = <<>> /\ writeTries = 0 /\ pairEnd = "open"

SlotsIn(s, state) == {k \in SlotNames : query[s].slot[k].state = state}

\* _one_slot, inside the semaphore.
AskSlot(s, k) ==
    /\ query[s].pc = "slots" /\ k \in SlotsIn(s, "waiting")
    /\ Cardinality(SlotsIn(s, "asking")) < WithinPair
    /\ query' = [query EXCEPT ![s].slot[k].state = "asking"]
    /\ UNCHANGED <<pairStop, rowVars>>

SlotAnswers(s, k, trips) ==
    /\ query[s].pc = "slots" /\ k \in SlotsIn(s, "asking")
    /\ query' = [query EXCEPT ![s].slot[k] = [state |-> "answered", trips |-> trips]]
    /\ UNCHANGED <<pairStop, rowVars>>

\* A connection error, or any other failure: the slot's own deadline is a timeout.
SlotFails(s, k, how) ==
    /\ query[s].pc = "slots" /\ k \in SlotsIn(s, "asking") /\ how \in {"connect", "timeout", "error"}
    /\ query' = [query EXCEPT ![s].slot[k].state = how]
    /\ UNCHANGED <<pairStop, rowVars>>

\* _accumulate_slot_trips: in the window, the first of each key.
Accumulate(kept, trips) ==
    LET add(acc, t) == IF t \notin InWindow \/ \E i \in DOMAIN acc : KeyOf[acc[i]] = KeyOf[t]
                       THEN acc ELSE Append(acc, t)
        go[n \in 0..Len(trips)] == IF n = 0 THEN kept ELSE add(go[n - 1], trips[n])
    IN  go[Len(trips)]

\* _merge_slot_results over the slots in their order; a single slot's answer goes as it is.
Merged(slot) ==
    LET go[k \in 0..Cardinality(SlotNames)] ==
            IF k = 0 THEN <<>> ELSE Accumulate(go[k - 1], slot[k].trips)
    IN  IF Cardinality(SlotNames) = 1 THEN slot[1].trips ELSE go[Cardinality(SlotNames)]

\* Mutant: the first failure is reported, a connection error or not.
SlotFailureFirst(slot) == slot[1].state

\* _slot_failure: what a pair reports when every slot failed.
SlotFailure(slot) ==
    LET other == {k \in SlotNames : slot[k].state # "connect"} IN
    IF other = {} THEN "connect" ELSE slot[Min(other)].state

AllFailed(slot) == \A k \in SlotNames : slot[k].state # "answered"

\* The gather is over: merge, report, or wait and ask again.
Gathered(s) ==
    LET q == query[s]  how == SlotFailure(q.slot)
        over(status, trips) == [q EXCEPT !.pc = "over", !.status = status, !.trips = trips] IN
    /\ q.pc = "slots" /\ SlotsIn(s, "waiting") \cup SlotsIn(s, "asking") = {}
    /\ query' = [query EXCEPT ![s] =
            IF ~AllFailed(q.slot)
            THEN over(IF Merged(q.slot) = <<>> THEN "no_route" ELSE "ok", Merged(q.slot))
            ELSE IF how = "connect" /\ q.attempt <= MaxRetries /\ ~pairStop
            THEN [q EXCEPT !.pc = "backoff"]
            ELSE over(IF how = "connect" THEN "error" ELSE how, <<>>)]
    /\ UNCHANGED <<pairStop, rowVars>>

\* Mutant: after its sleep the query asks again without a look at the stop.
BackoffEndsBlind(s) ==
    /\ query[s].pc = "backoff"
    /\ query' = [query EXCEPT ![s] = Fresh(query[s].attempt + 1)]
    /\ UNCHANGED <<pairStop, rowVars>>

\* The sleep of _call_with_connect_retry ends: a stop raises the last error.
BackoffEnds(s) ==
    /\ query[s].pc = "backoff"
    /\ query' = [query EXCEPT ![s] = IF pairStop THEN [@ EXCEPT !.pc = "over", !.status = "error"]
                                     ELSE Fresh(@.attempt + 1)]
    /\ UNCHANGED <<pairStop, rowVars>>

StopPair == ~pairStop /\ pairStop' = TRUE /\ UNCHANGED <<query, rowVars>>

\* _derive_fanout_status; one session reports its own status.
PairStatus(statuses) ==
    IF Cardinality(PairSessions) = 1 THEN CHOOSE x \in statuses : TRUE
    ELSE IF "ok" \in statuses THEN "ok"
    ELSE IF statuses \cap {"error", "timeout"} # {} THEN "error" ELSE "no_route"

\* _merge_one_trip_into_signatures: the shortest trip of a signature.
BestOf(trips, sig) ==
    CHOOSE t \in trips : /\ SignatureOf[t] = sig
                         /\ \A u \in trips : SignatureOf[u] = sig => DurationOf[t] <= DurationOf[u]

AllTrips == UNION {{query[s].trips[i] : i \in DOMAIN query[s].trips} : s \in PairSessions}

\* Every session is done, and the row neither written nor given up.
Writing == pairEnd = "open" /\ \A s \in PairSessions : query[s].pc = "over"

\* The search and the row of the pair are committed.
PairDone ==
    /\ Writing /\ pairEnd' = "written"
    /\ LET sigs == {SignatureOf[t] : t \in AllTrips}
           best == {BestOf(AllTrips, g) : g \in sigs} IN
       pairResult' = [status |-> PairStatus({query[s].status : s \in PairSessions}),
                      itineraries |-> IF Cardinality(PairSessions) = 1
                                      THEN Cardinality(AllTrips) ELSE Cardinality(sigs),
                      best |-> IF best = {} THEN 0 ELSE Min({DurationOf[t] : t \in best}),
                      sessions |-> {s \in PairSessions : query[s].status = "ok"}]
    /\ UNCHANGED <<query, pairStop, writeTries>>

\* A fan-out's merge, which reads the database, fails: the pair raises, and its run ends
\* as failed.
MergeRaises ==
    /\ Writing /\ writeTries = 0 /\ Cardinality(PairSessions) > 1 /\ pairEnd' = "raised"
    /\ UNCHANGED <<query, pairStop, pairResult, writeTries>>

\* A write that rolled back: after a transient error it is tried again, after any other or
\* the last try the pair is left without a row, for the run's resume to ask again.
WriteFails(transient) ==
    /\ Writing
    /\ IF transient /\ writeTries < WriteRetries
       THEN writeTries' = writeTries + 1 /\ UNCHANGED pairEnd
       ELSE pairEnd' = "left" /\ UNCHANGED writeTries
    /\ UNCHANGED <<query, pairStop, pairResult>>

PairStep ==
    \/ \E s \in PairSessions :
        \/ \E k \in SlotNames :
            \/ AskSlot(s, k)
            \/ \E a \in AnswerSets : SlotAnswers(s, k, a)
            \/ \E how \in {"connect", "timeout", "error"} : SlotFails(s, k, how)
        \/ Gathered(s) \/ BackoffEnds(s)
    \/ PairDone \/ MergeRaises \/ \E transient \in BOOLEAN : WriteFails(transient)

PairNext == PairStep \/ StopPair

PairSpec == PairInit /\ [][PairNext]_pairVars /\ WF_pairVars(PairStep)

----------------------------------------------------------------------------
\* Every attempt is within the retries, and a session never has more slots asked at once
\* than the semaphore of one pair allows; a pair has a row if it was written.
RowTypeOK ==
    /\ pairEnd \in {"open", "written", "left", "raised"} /\ writeTries \in 0..WriteRetries
    /\ pairEnd = "written" <=> pairResult # <<>>
PairTypeOK ==
    /\ RowTypeOK
    /\ \A s \in PairSessions :
        /\ query[s].attempt \in 1..(MaxRetries + 1)
        /\ Cardinality(SlotsIn(s, "asking")) <= WithinPair

\* A session's query keeps every journey of its last attempt that boards in the window,
\* once, however many slots answered it; a slot that failed hides none of the others'.
KeptOnce ==
    \A s \in PairSessions : query[s].pc = "over" =>
        LET found == UNION {{query[s].slot[k].trips[i] : i \in DOMAIN query[s].slot[k].trips} :
                                k \in SlotNames}
            kept == {query[s].trips[i] : i \in DOMAIN query[s].trips} IN
        Cardinality(SlotNames) > 1 =>
            /\ kept \subseteq found \cap InWindow
            /\ {KeyOf[t] : t \in kept} = {KeyOf[t] : t \in found \cap InWindow}
            /\ Cardinality({KeyOf[t] : t \in kept}) = Len(query[s].trips)

\* A query fails only when every slot of its last attempt did, and an engine that answered
\* at all, were it to refuse or to be too slow, is not asked again.
FailsOnlyIfAllFailed ==
    \A s \in PairSessions :
        /\ (query[s].pc = "over" /\ query[s].status \notin {"ok", "no_route"})
                => SlotsIn(s, "answered") = {}
        /\ query[s].pc = "backoff" => SlotsIn(s, "connect") = SlotNames

\* Once the run is stopped no further attempt begins.
StopEndsRetries ==
    [][\A s \in PairSessions : query'[s].attempt # query[s].attempt => ~pairStop]_pairVars

\* The row of a fan-out says ok exactly when some session found a trip, names those, and
\* its best is the shortest trip any session found.
RowIsTheBest ==
    pairResult # <<>> =>
        /\ (pairResult.status = "ok") = (AllTrips # {})
        /\ pairResult.sessions = {s \in PairSessions : query[s].trips # <<>>}
        /\ AllTrips # {} => \A t \in AllTrips : pairResult.best <= DurationOf[t]

Begun == \E s \in PairSessions : query[s] # Fresh(1)

\* Every pair whose search began (the first slot asked) comes to its end, with its row, or
\* without one when its write or merge failed for good: the retries of calls and of writes
\* are bounded, a stopped run's pairs end too, and no slot waits for ever.
PairEnds == <>[](Begun => pairEnd # "open")
=============================================================================
