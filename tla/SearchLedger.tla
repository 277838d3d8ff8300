----------------------------- MODULE SearchLedger -----------------------------
(***************************************************************************)
(* The recorded searches: the batch that replays them against a graph      *)
(* snapshot (app/api/admin/replay.py) and the daily pass that thins them   *)
(* out in three tiers (app/retention.py), on the tables of                 *)
(* app/models/search.py. A replay refers to the search it repeats.         *)
(***************************************************************************)
EXTENDS Naturals, FiniteSets, Sequences, FiniteSetsExt, SequencesExt

CONSTANTS
    SearchIds,      \* rows of journey_searches, one after the other
    NoRow,          \* no row
    RawDays,        \* JOURNEY_RAW_RESPONSE_RETENTION_DAYS
    TripDays,       \* JOURNEY_TRIPS_RETENTION_DAYS
    SearchDays,     \* JOURNEY_SEARCH_RETENTION_DAYS
    ReplayCap,      \* REPLAY_MAX_BATCH_SIZE
    EveryDay        \* whether no day goes by without its pass

ASSUME LedgerAssumption ==
    /\ IsFiniteSet(SearchIds) /\ SearchIds = 1..Cardinality(SearchIds)
    /\ {RawDays, TripDays, SearchDays} \subseteq Nat \ {0} /\ ReplayCap \in Nat \ {0}
    /\ EveryDay \in BOOLEAN
    /\ NoRow \notin [id : SearchIds, of : SearchIds] \cup
        [age : Nat, of : SearchIds \cup {NoRow}, raw : BOOLEAN, trips : BOOLEAN, execution : BOOLEAN]

VARIABLES
    ledger,     \* id -> its committed row, or NoRow
    nextId,     \* the id the next row gets
    batch,      \* the replay: what is queued, the row of its transaction, its session
    pruned      \* history: what the last pass did, "none" before it

ledgerVars == <<ledger, nextId, batch, pruned>>

Oldest == 1 + Max({RawDays, TripDays, SearchDays})
Rows == {i \in SearchIds : ledger[i] # NoRow}
Row(of, raw) == [age |-> 0, of |-> of, raw |-> raw, trips |-> TRUE, execution |-> TRUE]

Idle == [pc |-> "idle", queue |-> <<>>, row |-> NoRow]

LedgerInit ==
    /\ ledger = [i \in SearchIds |-> NoRow] /\ nextId = 1 /\ batch = Idle /\ pruned = "none"

DayPasses ==
    /\ EveryDay => pruned # "none"
    /\ \E i \in Rows : ledger[i].age < Oldest
    /\ ledger' = [i \in SearchIds |-> IF ledger[i] = NoRow THEN NoRow
                  ELSE [ledger[i] EXCEPT !.age = IF @ < Oldest THEN @ + 1 ELSE @]]
    /\ pruned' = "none"
    /\ UNCHANGED <<nextId, batch>>

RecordSearch ==
    /\ nextId \in SearchIds
    /\ ledger' = [ledger EXCEPT ![nextId] = Row(NoRow, TRUE)] /\ nextId' = nextId + 1
    /\ UNCHANGED <<batch, pruned>>

----------------------------------------------------------------------------
\* The replay.

\* _replay_plan: the searches that have an execution, the oldest first, at most the cap.
ReplayCandidates == {i \in Rows : ledger[i].execution}
Queued == LET all == SetToSortSeq(ReplayCandidates, <) IN SubSeq(all, 1, Min({ReplayCap, Len(all)}))

StartReplay ==
    /\ batch.pc = "idle" /\ Queued # <<>>
    /\ batch' = [pc |-> "next", queue |-> Queued, row |-> NoRow]
    /\ UNCHANGED <<ledger, nextId, pruned>>

\* _begin_replay: the row is flushed, not committed. The search it repeats may be gone: the
\* flush fails, and the session cannot be used again until a rollback nobody calls.
BeginReplay ==
    /\ batch.pc = "next" /\ batch.queue # <<>> /\ nextId \in SearchIds
    /\ LET original == Head(batch.queue) IN
       IF original \in Rows
       THEN /\ batch' = [pc |-> "asking", queue |-> Tail(batch.queue),
                         row |-> [id |-> nextId, of |-> original]]
            /\ nextId' = nextId + 1
       ELSE batch' = [pc |-> "broken", queue |-> Tail(batch.queue), row |-> NoRow] /\ UNCHANGED nextId
    /\ UNCHANGED <<ledger, pruned>>

\* _replay_one answered, recorded and committed.
CommitReplay ==
    /\ batch.pc = "asking"
    /\ ledger' = [ledger EXCEPT ![batch.row.id] = Row(batch.row.of, FALSE)]
    /\ batch' = [batch EXCEPT !.pc = "next", !.row = NoRow]
    /\ UNCHANGED <<nextId, pruned>>

\* The commit fails: its transaction is rolled back, the loop goes on.
CommitReplayFails ==
    /\ batch.pc = "asking" /\ batch' = [batch EXCEPT !.pc = "next", !.row = NoRow]
    /\ UNCHANGED <<ledger, nextId, pruned>>

EndReplay ==
    /\ \/ batch.pc = "next" /\ (batch.queue = <<>> \/ nextId \notin SearchIds)
       \/ batch.pc = "broken"
    /\ batch' = Idle
    /\ UNCHANGED <<ledger, nextId, pruned>>

----------------------------------------------------------------------------
\* prune_once.

\* The first two tiers: raw answers, then trips and their executions.
Shed(row) ==
    [row EXCEPT !.raw = @ /\ row.age <= RawDays /\ row.age <= TripDays,
                !.trips = @ /\ row.age <= TripDays,
                !.execution = @ /\ row.age <= TripDays]

\* The third: the searches, with what hangs on them.
Expired == {i \in Rows : ledger[i].age > SearchDays}

\* A search that stays refers to one that goes: the database refuses the statement
\* (replay_of_search_id has no ON DELETE).
Refused(gone) == \E i \in Rows \ gone : ledger[i].of \in gone

\* All or nothing: one commit at the end. The row of an open replay locks its original.
Prune ==
    /\ batch.row # NoRow => batch.row.of \notin Expired
    /\ IF Refused(Expired)
       THEN ledger' = ledger /\ pruned' = "failed"
       ELSE /\ ledger' = [i \in SearchIds |->
                            IF ledger[i] = NoRow \/ i \in Expired THEN NoRow ELSE Shed(ledger[i])]
            /\ pruned' = "done"
    /\ UNCHANGED <<nextId, batch>>

LedgerNext ==
    \/ DayPasses \/ RecordSearch \/ Prune
    \/ StartReplay \/ BeginReplay \/ CommitReplay \/ CommitReplayFails \/ EndReplay

\* Time passes and the scheduler runs the pass every day; a replay's planner call ends.
ReplayGoesOn == CommitReplay \/ EndReplay
LedgerSpec ==
    /\ LedgerInit /\ [][LedgerNext]_ledgerVars
    /\ WF_ledgerVars(DayPasses) /\ WF_ledgerVars(Prune) /\ WF_ledgerVars(ReplayGoesOn)

----------------------------------------------------------------------------
\* Ids are given in order and rows keep their shape: an execution outlives its trips
\* (the foreign keys of models/search.py), whatever retention has shed.
LedgerTypeOK ==
    /\ nextId \in SearchIds \cup {1 + Cardinality(SearchIds)}
    /\ \A i \in SearchIds : i >= nextId => ledger[i] = NoRow
    /\ \A i \in Rows : ledger[i].trips => ledger[i].execution

\* A pass sheds nothing before its time: a row that goes, or loses its trips or its raw
\* answer, is older than the days the configuration gives that tier.
NothingGoesEarly ==
    [][\A i \in Rows :
        /\ ledger'[i] = NoRow => ledger[i].age > SearchDays
        /\ ledger'[i] # NoRow =>
            /\ (ledger[i].raw /\ ~ledger'[i].raw) => ledger[i].age > Min({RawDays, TripDays})
            /\ (ledger[i].trips /\ ~ledger'[i].trips) => ledger[i].age > TripDays]_ledgerVars

\* A recorded replay always has the search it repeats.
ReplayHasOriginal == \A i \in Rows : ledger[i].of # NoRow => ledger[i].of \in Rows

\* Every search goes in the end, however it was replayed: once no new one comes, the ledger
\* is empty for good.
SearchesGo == <>[](Rows = {})

\* "raw_response (heaviest) -> JOURNEY_RAW_RESPONSE_RETENTION_DAYS": after the pass of the
\* day no raw answer is older. (violated: one replayed search stops every tier)
RawIsShed == pruned # "none" => \A i \in Rows : ledger[i].raw => ledger[i].age <= RawDays
=============================================================================
