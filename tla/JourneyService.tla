---------------------------- MODULE JourneyService ----------------------------
(***************************************************************************)
(* The journey searches of the web process: the admission gate, whose      *)
(* limit is swapped under them (app/concurrency.py), and a search that     *)
(* chooses its sessions, asks them all and is recorded                     *)
(* (app/api/journey.py, app/journey/recorder.py).                          *)
(***************************************************************************)
EXTENDS Naturals, FiniteSets, FiniteSetsExt

CONSTANTS
    Requests,       \* searches
    Engines,        \* the sessions that may serve
    Limits,         \* MAX_CONCURRENT_JOURNEYS: the values coerce lets through
    Absent,         \* no value
    Found,          \* the trips a planner answers: sets of trips
    TripSignature,  \* trip_signature of each trip
    TripSeconds,    \* duration_seconds of each trip
    Failures,       \* how a planner fails: subset of timeout and error
    MaxChanges      \* bound on the changes made under the searches

ASSUME JourneyAssumption ==
    /\ Limits \subseteq Nat \ {0} /\ Failures \subseteq {"timeout", "error"}
    /\ MaxChanges \in Nat /\ IsFiniteSet(Requests) /\ IsFiniteSet(Engines)
    /\ \A t \in Found : IsFiniteSet(t) /\ \A x \in t : TripSeconds[x] \in Nat

VARIABLES
    gate,       \* the journey gate: limit and in_flight
    changes,    \* limits set, sessions promoted or archived, snapshots made so far
    serving,    \* sessions that serve and take part in the fan-out
    current,    \* session -> the snapshot marked current
    search,     \* request -> its handler
    recorded    \* request -> the committed journey_searches row, or Absent

searchVars == <<serving, current, search, recorded>>
journeyVars == <<gate, changes, searchVars>>

NewSearch == [pc |-> "new", kind |-> "fanout", sessions |-> {}, answer |-> <<>>]

JourneyInit ==
    /\ gate \in [limit : Limits, inFlight : {0}]
    /\ changes = 0 /\ serving = Engines /\ current = [s \in Engines |-> 1]
    /\ search = [r \in Requests |-> NewSearch]
    /\ recorded = [r \in Requests |-> Absent]

----------------------------------------------------------------------------
\* The sessions behind a search change under it.

ChangeServing(s) ==
    /\ changes < MaxChanges /\ changes' = changes + 1
    /\ serving' = (serving \ {s}) \cup ({s} \ serving)
    /\ UNCHANGED <<gate, current, search, recorded>>

NewSnapshot(s) ==
    /\ changes < MaxChanges /\ changes' = changes + 1
    /\ current' = [current EXCEPT ![s] = @ + 1]
    /\ UNCHANGED <<gate, serving, search, recorded>>

----------------------------------------------------------------------------
\* A search.

\* set_limit: searches under way are not interrupted.
SetLimit(n) ==
    /\ changes < MaxChanges /\ changes' = changes + 1
    /\ n # gate.limit /\ gate' = [gate EXCEPT !.limit = n]
    /\ UNCHANGED searchVars

\* _fanout_sessions and _plan_session: 409 and 404 without a session to ask.
Choose(r, kind, which) ==
    /\ search[r].pc = "new"
    /\ search' = [search EXCEPT ![r] =
            [pc |-> IF which = {} THEN "refused" ELSE "chosen", kind |-> kind,
             sessions |-> which, answer |-> <<>>]]
    /\ UNCHANGED <<changes, gate, serving, current, recorded>>

ChooseAny(r) ==
    \/ Choose(r, "fanout", serving)
    \/ \E s \in Engines : Choose(r, "plan", {s} \cap serving)

\* acquire_or_fail: no queue, the refused search is a 503; begin_search's row is not committed.
Acquire(r) ==
    /\ search[r].pc = "chosen"
    /\ LET full == gate.inFlight >= gate.limit IN
        /\ gate' = IF full THEN gate ELSE [gate EXCEPT !.inFlight = @ + 1]
        /\ search' = [search EXCEPT ![r].pc = IF full THEN "refused" ELSE "asking"]
    /\ UNCHANGED <<changes, serving, current, recorded>>

AnswersOf == {[status |-> IF t = {} THEN "no_route" ELSE "ok", trips |-> t] : t \in Found}
             \cup {[status |-> f, trips |-> {}] : f \in Failures}

\* _query_session: a session answers, or fails in a way it knows.
Answered(r, s, a) ==
    /\ search[r].pc = "asking" /\ s \in search[r].sessions \ DOMAIN search[r].answer
    /\ search' = [search EXCEPT ![r].answer =
            [x \in DOMAIN @ \cup {s} |-> IF x = s THEN a ELSE @[x]]]
    /\ UNCHANGED <<changes, gate, serving, current, recorded>>

\* An answer no except names (a body that is not JSON): gather raises, the handler ends
\* with a 500, the transaction is rolled back and the gate's finally gives the slot back.
Raised(r) ==
    /\ search[r].pc = "asking" /\ search[r].sessions # DOMAIN search[r].answer
    /\ search' = [search EXCEPT ![r] = [@ EXCEPT !.pc = "failed", !.answer = <<>>]]
    /\ gate' = [gate EXCEPT !.inFlight = @ - 1]
    /\ UNCHANGED <<changes, serving, current, recorded>>

\* Mutant: no deadline on a session: one that does not answer is waited for.
AllAnsweredInTime(r) ==
    /\ search[r].pc = "asking" /\ search[r].sessions = DOMAIN search[r].answer
    /\ \A s \in search[r].sessions : search[r].answer[s].status # "timeout"
    /\ search' = [search EXCEPT ![r].pc = "answered"]
    /\ gate' = [gate EXCEPT !.inFlight = @ - 1]
    /\ UNCHANGED <<changes, serving, current, recorded>>

\* The gather is over and the gate left.
AllAnswered(r) ==
    /\ search[r].pc = "asking" /\ search[r].sessions = DOMAIN search[r].answer
    /\ search' = [search EXCEPT ![r].pc = "answered"]
    /\ gate' = [gate EXCEPT !.inFlight = @ - 1]
    /\ UNCHANGED <<changes, serving, current, recorded>>

\* _fanout_status: everything but ok is an error to it.
FanoutStatus(statuses) ==
    IF "ok" \in statuses THEN IF statuses = {"ok"} THEN "ok" ELSE "partial"
    ELSE IF statuses = {} THEN "no_route" ELSE "error"

BestSeconds(trips) == Min({TripSeconds[t] : t \in trips})

\* _merge_by_signature: who found it, and how fast at best.
Slots(answer) ==
    LET trips == UNION {answer[s].trips : s \in DOMAIN answer}
        with(g) == {t \in trips : TripSignature[t] = g} IN
    {[signature |-> g,
      foundIn |-> {s \in DOMAIN answer : answer[s].trips \cap with(g) # {}},
      seconds |-> BestSeconds(with(g))] : g \in {TripSignature[t] : t \in trips}}

\* _origin_flag
OriginFlag(slot, asked) ==
    IF slot.foundIn = asked THEN "ALL" ELSE IF Cardinality(slot.foundIn) = 1 THEN "ONLY" ELSE "SUBSET"

\* record_execution for each session chosen at the start, with the snapshot current now.
Executions(q) ==
    [s \in q.sessions |-> [status |-> q.answer[s].status, trips |-> q.answer[s].trips,
                          snapshot |-> current[s]]]

\* finish_search, of a fan-out and of a plan.
FanoutRow(q) ==
    [status |-> FanoutStatus({q.answer[s].status : s \in q.sessions}),
     executions |-> Executions(q), unique |-> Cardinality(Slots(q.answer)), slots |-> Slots(q.answer)]
PlanRow(q) ==
    LET s == CHOOSE x \in q.sessions : TRUE IN
    [status |-> q.answer[s].status, executions |-> Executions(q),
     unique |-> Cardinality(q.answer[s].trips), slots |-> {}]

\* _record_fanout and _record_plan: one commit.
Record(r) ==
    /\ search[r].pc = "answered"
    /\ recorded' = [recorded EXCEPT ![r] =
            IF search[r].kind = "plan" THEN PlanRow(search[r]) ELSE FanoutRow(search[r])]
    /\ search' = [search EXCEPT ![r] = [@ EXCEPT !.pc = "done", !.answer = <<>>]]
    /\ UNCHANGED <<changes, gate, serving, current>>

SearchStep(r) ==
    \/ ChooseAny(r) \/ Acquire(r) \/ AllAnswered(r) \/ Record(r)
    \/ \E s \in Engines, a \in AnswersOf : Answered(r, s, a)

JourneyNext ==
    \/ \E n \in Limits : SetLimit(n)
    \/ \E s \in Engines : ChangeServing(s) \/ NewSnapshot(s)
    \/ \E r \in Requests : SearchStep(r) \/ Raised(r)

\* A planner answers or times out, so some search goes on as long as one can.
SearchGoesOn == \E r \in Requests : SearchStep(r)
JourneySpec == JourneyInit /\ [][JourneyNext]_journeyVars /\ WF_journeyVars(SearchGoesOn)

----------------------------------------------------------------------------
\* The gate counts exactly the searches that are asking, however they end and whatever
\* limit was set meanwhile: no slot is lost or given back twice.
JourneyTypeOK ==
    /\ gate.limit \in Limits
    /\ gate.inFlight = Cardinality({r \in Requests : search[r].pc = "asking"})

\* The record of a search has one execution for each session chosen at its start, whatever
\* was promoted or archived while they were asked, and its status and its count of unique
\* trips are those of its executions.
RecordIsWhole ==
    \A r \in Requests : recorded[r] # Absent =>
        LET e == recorded[r].executions
            statuses == {e[s].status : s \in DOMAIN e}
            trips == UNION {e[s].trips : s \in DOMAIN e} IN
        /\ DOMAIN e = search[r].sessions
        /\ (recorded[r].status = "partial") =>
                ("ok" \in statuses /\ statuses # {"ok"} /\ search[r].kind = "fanout")
        /\ (recorded[r].status = "ok") = (statuses = {"ok"})
        /\ search[r].kind = "fanout" => recorded[r].unique = Cardinality({TripSignature[t] : t \in trips})

\* A slot of the answer names exactly the sessions that found its trip, its best is as fast
\* as the fastest of theirs, and it is flagged ALL only if every session asked found it.
SlotsTellTheTruth ==
    \A r \in Requests : recorded[r] # Absent => \A slot \in recorded[r].slots :
        LET e == recorded[r].executions
            has(s) == {t \in e[s].trips : TripSignature[t] = slot.signature} IN
        /\ slot.foundIn = {s \in DOMAIN e : has(s) # {}}
        /\ \A s \in DOMAIN e : \A t \in has(s) : slot.seconds <= TripSeconds[t]
        /\ (OriginFlag(slot, DOMAIN e) = "ALL") = (\A s \in DOMAIN e : has(s) # {})

\* Every search ends, and the gate is empty again: no slot is lost to a search that raised.
GateEmpties == <>[](gate.inFlight = 0)
=============================================================================
