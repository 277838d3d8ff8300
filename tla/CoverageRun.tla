---------------------------- MODULE CoverageRun ----------------------------
(***************************************************************************)
(* One network-coverage run: its database row, the coverage executors that *)
(* claim and execute it (app/network_coverage/executor.py, runner.py) and  *)
(* the web requests that stop or delete it (app/api/admin/                 *)
(* network_coverage.py).                                                   *)
(*                                                                         *)
(* Every database transaction, and every statement of a transaction whose  *)
(* reads are not protected by the row lock, is a step of its own: a run    *)
(* row loaded by the ORM, the result rows read after it, and the commit    *)
(* that writes the recount are three steps, between which the other        *)
(* executor may write.  The ORM sends only the columns whose value differs *)
(* from the loaded one, so a recount equal to `loaded` writes nothing.     *)
(*                                                                         *)
(* The wall clock is abstracted to `fresh`: the heartbeat is younger than  *)
(* STALE_AFTER_SECONDS.  Expire clears it at any time (six beats missed,   *)
(* by a dead holder or by a live one cut off from the database).           *)
(***************************************************************************)
EXTENDS Integers, FiniteSets

CONSTANTS
    Executors,        \* the executor processes (one identity per worker slot)
    Pairs,            \* the run's frozen (origin, dest) pairs
    NoHolder,         \* claimed_by IS NULL
    MaxResumes,       \* COVERAGE_MAX_RESUMES
    PairParallelism,  \* COVERAGE_PAIR_PARALLELISM
    SingleWorker,     \* TRUE: at most one worker process is up at a time
    OperatorSql,      \* TRUE: an operator may UPDATE the status by SQL (PR-187)
    MaxReleases       \* bound on graceful releases (SIGTERM), for TLC

ASSUME PairsAssumption == IsFiniteSet(Pairs) /\ Pairs # {}
ASSUME HolderAssumption == NoHolder \notin Executors
ASSUME KnobsAssumption ==
    /\ MaxResumes \in Nat
    /\ MaxReleases \in Nat
    /\ PairParallelism \in Nat \ {0}
    /\ SingleWorker \in BOOLEAN
    /\ OperatorSql \in BOOLEAN

VARIABLES
    \* the run row and its result rows
    status,     \* network_coverage_runs.status, or "deleted"
    holder,     \* claimed_by
    fresh,      \* heartbeat_at is younger than STALE_AFTER_SECONDS
    stopReq,    \* cancel_requested_at IS NOT NULL
    crashes,    \* summary.crash_resume_count
    rows,       \* the pairs that have a result row
    counter,    \* completed_pairs
    releases,   \* graceful releases so far (bound only)
    \* each executor process
    pc,         \* where its execution of the run stands
    cancel,     \* the in-process Stop event of the run is set
    abandoned,  \* the run is in _ABANDONED
    todo,       \* pairs not started yet
    inflight,   \* pairs asked, their write not done
    stray,      \* pairs of a failed gather that go on by themselves
    loaded,     \* completed_pairs as the ORM loaded it
    seen        \* result rows as last read

db == <<status, holder, fresh, stopReq, crashes, rows, counter>>
mem == <<pc, cancel, abandoned, todo, inflight, stray, loaded, seen>>
vars == <<db, releases, mem>>

Terminal == {"completed", "failed", "cancelled"}
Statuses == {"pending", "running", "deleted"} \cup Terminal

\* execute_run under way: the heartbeat loop of the execution is running.
Executing == {"phase1", "targets", "recount", "pairs", "lastcheck",
              "cancel_load", "cancel_rows", "cancel_commit",
              "fin_load", "fin_rows", "hold", "sweep"}
\* Inside _finalise_completed_run.
Completing == {"fin_load", "fin_rows", "hold", "sweep"}
PCs == {"down", "poll", "settle", "interrupted"} \cup Executing

-----------------------------------------------------------------------------
Init ==
    /\ status = "pending" /\ holder = NoHolder /\ fresh = FALSE
    /\ stopReq = FALSE /\ crashes = 0 /\ rows = {} /\ counter = 0
    /\ releases = 0
    /\ pc = [e \in Executors |-> "down"]
    /\ cancel = [e \in Executors |-> FALSE]
    /\ abandoned = [e \in Executors |-> FALSE]
    /\ todo = [e \in Executors |-> {}]
    /\ inflight = [e \in Executors |-> {}]
    /\ stray = [e \in Executors |-> {}]
    /\ loaded = [e \in Executors |-> 0]
    /\ seen = [e \in Executors |-> {}]

Goto(e, l) == pc' = [pc EXCEPT ![e] = l]

\* execute_run returned or raised: its registries are cleared (its `finally`).
ReturnTo(e, l) ==
    /\ Goto(e, l)
    /\ cancel' = [cancel EXCEPT ![e] = FALSE]
    /\ abandoned' = [abandoned EXCEPT ![e] = FALSE]
    /\ todo' = [todo EXCEPT ![e] = {}]
    /\ inflight' = [inflight EXCEPT ![e] = {}]
    /\ loaded' = [loaded EXCEPT ![e] = 0]
    /\ seen' = [seen EXCEPT ![e] = {}]

\* A `running` run no live executor holds.
Unheld_AnyRunning == status = "running"
Unheld == status = "running" /\ (holder = NoHolder \/ ~fresh)

\* The recount an ORM commit writes: only a value that differs from the loaded one.
RecountedBy_ToDo(e) == Cardinality(Pairs \ seen[e])
RecountedBy(e) ==
    IF loaded[e] # Cardinality(seen[e]) THEN Cardinality(seen[e]) ELSE counter

\* cancel_on_row: the caller holds the row lock, so the recount is exact.
CancelOnRow ==
    /\ status' = "cancelled"
    /\ holder' = NoHolder
    /\ counter' = Cardinality(rows)
    /\ UNCHANGED <<fresh, stopReq, crashes, rows>>

-----------------------------------------------------------------------------
(* The worker process. *)

\* The worker starts: the executor polls.
Start(e) ==
    /\ pc[e] = "down"
    /\ SingleWorker => \A f \in Executors : pc[f] = "down"
    /\ Goto(e, "poll")
    /\ UNCHANGED <<db, releases, cancel, abandoned, todo, inflight, stray, loaded, seen>>

\* The process dies (a kill, an exit whose release timed out): what it had in
\* memory is gone.
Crash(e) ==
    /\ pc[e] # "down"
    /\ ReturnTo(e, "down")
    /\ stray' = [stray EXCEPT ![e] = {}]
    /\ UNCHANGED <<db, releases>>

\* SIGTERM: release_claims, then os._exit.
Release(e) ==
    /\ pc[e] # "down" /\ releases < MaxReleases
    /\ status = "running" /\ holder = e
    /\ holder' = NoHolder /\ fresh' = TRUE
    /\ releases' = releases + 1
    /\ ReturnTo(e, "down")
    /\ stray' = [stray EXCEPT ![e] = {}]
    /\ UNCHANGED <<status, stopReq, crashes, rows, counter>>

\* A resume of a run whose holder did not release it counts as a crash resume.
CrashCost_Free == 0
CrashCost == IF status = "running" /\ holder # NoHolder THEN 1 ELSE 0

\* _settle_instead_of_claim: the paused run's Stop was clicked, or the resume
\* would be one crash resume too many.
StopClicked == stopReq
ResumeLimitReached == holder # NoHolder /\ crashes >= MaxResumes

SettleInsteadOfClaim(e) ==
    /\ pc[e] = "poll" /\ Unheld
    /\ \/ StopClicked /\ CancelOnRow
       \/ /\ ~StopClicked /\ ResumeLimitReached
          /\ status' = "failed" /\ holder' = NoHolder
          /\ UNCHANGED <<fresh, stopReq, crashes, rows, counter>>
    /\ UNCHANGED <<releases, mem>>

\* _take: a queued run starts, a paused one is resumed.
Take(e) ==
    /\ pc[e] = "poll"
    /\ status = "pending" \/ (Unheld /\ ~StopClicked /\ ~ResumeLimitReached)
    /\ crashes' = crashes + CrashCost
    /\ status' = "running" /\ holder' = e /\ fresh' = TRUE
    /\ ReturnTo(e, "phase1")
    /\ UNCHANGED <<stopReq, rows, counter, releases, stray>>

\* One beat: refresh the heartbeat while holding the running run; if another
\* executor (or nobody) holds it, abandon the execution.
Heartbeat(e) ==
    /\ pc[e] \in Executing /\ ~abandoned[e] /\ status = "running"
    /\ \/ holder = e /\ fresh' = TRUE /\ UNCHANGED <<cancel, abandoned>>
       \/ /\ holder # e
          /\ abandoned' = [abandoned EXCEPT ![e] = TRUE]
          /\ cancel' = [cancel EXCEPT ![e] = TRUE]
          /\ UNCHANGED fresh
    /\ UNCHANGED <<status, holder, stopReq, crashes, rows, counter, releases,
                   pc, todo, inflight, stray, loaded, seen>>

-----------------------------------------------------------------------------
(* execute_run, phase 1: load the run, resolve its targets, recount. *)

Phase1Load(e) ==
    /\ pc[e] = "phase1"
    /\ IF status = "running"
       THEN /\ Goto(e, "targets")
            /\ loaded' = [loaded EXCEPT ![e] = counter]
       ELSE Goto(e, "settle") /\ UNCHANGED loaded
    /\ UNCHANGED <<db, releases, cancel, abandoned, todo, inflight, stray, seen>>

\* A transient database error outlasts the retries: RunNeedsResume.
Phase1Unavailable(e) ==
    /\ pc[e] \in {"phase1", "targets", "recount"}
    /\ ReturnTo(e, "poll")
    /\ UNCHANGED <<db, releases, stray>>

\* _resolve_run_mode_targets finds nothing to ask: `failed` by primary key.
NoTargets(e) ==
    /\ pc[e] = "targets"
    /\ status' = IF status = "deleted" THEN status ELSE "failed"
    /\ Goto(e, "settle")
    /\ UNCHANGED <<holder, fresh, stopReq, crashes, rows, counter, releases,
                   cancel, abandoned, todo, inflight, stray, loaded, seen>>

Phase1Rows(e) ==
    /\ pc[e] = "targets"
    /\ seen' = [seen EXCEPT ![e] = rows]
    /\ IF rows = {}
       THEN Goto(e, "pairs") /\ todo' = [todo EXCEPT ![e] = Pairs]
       ELSE Goto(e, "recount") /\ UNCHANGED todo
    /\ UNCHANGED <<db, releases, cancel, abandoned, inflight, stray, loaded>>

\* The commit of _done_pairs_and_recount (a deleted row makes it raise).
Recount(e) ==
    /\ pc[e] = "recount"
    /\ IF status = "deleted"
       THEN Goto(e, "settle") /\ UNCHANGED <<counter, todo>>
       ELSE /\ counter' = RecountedBy(e)
            /\ Goto(e, "pairs")
            /\ todo' = [todo EXCEPT ![e] = Pairs \ seen[e]]
    /\ UNCHANGED <<status, holder, fresh, stopReq, crashes, rows, releases,
                   cancel, abandoned, inflight, stray, loaded, seen>>

-----------------------------------------------------------------------------
(* Phase 2: the pairs. *)

\* A pair passes both cancel checks (the DB answer may be up to 3 s old) and is asked.
StartPair(e, p) ==
    /\ pc[e] = "pairs" /\ p \in todo[e] /\ ~cancel[e]
    /\ Cardinality(inflight[e]) < PairParallelism
    /\ todo' = [todo EXCEPT ![e] = @ \ {p}]
    /\ inflight' = [inflight EXCEPT ![e] = @ \cup {p}]
    /\ UNCHANGED <<db, releases, pc, cancel, abandoned, stray, loaded, seen>>

\* _run_stopped answers True: every pair not started yet is skipped; a Stop
\* click read from the row becomes the in-process Stop.
PairsStopped(e) ==
    /\ pc[e] = "pairs" /\ todo[e] # {}
    /\ cancel[e] \/ (status # "deleted" /\ (stopReq \/ status \in Terminal))
    /\ todo' = [todo EXCEPT ![e] = {}]
    /\ cancel' = [cancel EXCEPT ![e] = @ \/ (status # "deleted" /\ stopReq)]
    /\ UNCHANGED <<db, releases, pc, abandoned, inflight, stray, loaded, seen>>

\* The database takes the row: the run exists (foreign key) and the pair has
\* no row yet (unique constraint).
Accepted(p) == status # "deleted" /\ p \notin rows

\* _write_pair: one transaction inserts the result row and increments the
\* counter; the unique constraint refuses a second row, a deleted run any row;
\* after the last retry the pair simply has no row.
WritePair(e, p) ==
    /\ pc[e] # "down" /\ p \in inflight[e] \cup stray[e]
    /\ \/ /\ Accepted(p)
          /\ rows' = rows \cup {p} /\ counter' = counter + 1
       \/ UNCHANGED <<rows, counter>>
    /\ inflight' = [inflight EXCEPT ![e] = @ \ {p}]
    /\ stray' = [stray EXCEPT ![e] = @ \ {p}]
    /\ UNCHANGED <<status, holder, fresh, stopReq, crashes, releases,
                   pc, cancel, abandoned, todo, loaded, seen>>

\* The gather raised: _mark_run_failed while this executor is the holder; the
\* other pair coroutines are not cancelled and go on.
PairLoopFails(e) ==
    /\ pc[e] = "pairs" /\ inflight[e] # {}
    /\ status' = IF holder = e /\ ~abandoned[e] THEN "failed" ELSE status
    /\ stray' = [stray EXCEPT ![e] = @ \cup todo[e] \cup inflight[e]]
    /\ todo' = [todo EXCEPT ![e] = {}]
    /\ inflight' = [inflight EXCEPT ![e] = {}]
    /\ Goto(e, "settle")
    /\ UNCHANGED <<holder, fresh, stopReq, crashes, rows, counter, releases,
                   cancel, abandoned, loaded, seen>>

PairsDone(e) ==
    /\ pc[e] = "pairs" /\ todo[e] = {} /\ inflight[e] = {}
    /\ Goto(e, "lastcheck")
    /\ UNCHANGED <<db, releases, cancel, abandoned, todo, inflight, stray, loaded, seen>>

\* The check after the last pair (a failing check answers "not stopped"), then
\* the three ways out: claim lost, Stop, completion.
LastCheck(e) ==
    /\ pc[e] = "lastcheck"
    /\ \E read \in BOOLEAN :
         LET stopped == cancel[e] \/ (read /\ status # "deleted" /\ stopReq)
         IN /\ cancel' = [cancel EXCEPT ![e] = stopped]
            /\ Goto(e, IF abandoned[e] THEN "settle"
                       ELSE IF stopped THEN "cancel_load" ELSE "fin_load")
    /\ UNCHANGED <<db, releases, abandoned, todo, inflight, stray, loaded, seen>>

-----------------------------------------------------------------------------
(* _persist_cancelled_run: load, read the rows, commit; not fenced. *)

CancelLoad(e) ==
    /\ pc[e] = "cancel_load"
    /\ IF status = "deleted"
       THEN Goto(e, "settle") /\ UNCHANGED loaded
       ELSE Goto(e, "cancel_rows") /\ loaded' = [loaded EXCEPT ![e] = counter]
    /\ UNCHANGED <<db, releases, cancel, abandoned, todo, inflight, stray, seen>>

CancelRows(e) ==
    /\ pc[e] = "cancel_rows"
    /\ seen' = [seen EXCEPT ![e] = rows]
    /\ Goto(e, "cancel_commit")
    /\ UNCHANGED <<db, releases, cancel, abandoned, todo, inflight, stray, loaded>>

CancelCommit(e) ==
    /\ pc[e] = "cancel_commit"
    /\ IF status = "deleted" THEN UNCHANGED <<status, counter>>
       ELSE status' = "cancelled" /\ counter' = RecountedBy(e)
    /\ Goto(e, "settle")
    /\ UNCHANGED <<holder, fresh, stopReq, crashes, rows, releases,
                   cancel, abandoned, todo, inflight, stray, loaded, seen>>

-----------------------------------------------------------------------------
(* _finalise_completed_run: load, read the rows, sweep, commit. *)

FinLoad(e) ==
    /\ pc[e] = "fin_load"
    /\ IF status # "running"
       THEN Goto(e, "settle") /\ UNCHANGED loaded
       ELSE Goto(e, "fin_rows") /\ loaded' = [loaded EXCEPT ![e] = counter]
    /\ UNCHANGED <<db, releases, cancel, abandoned, todo, inflight, stray, seen>>

\* _missing_pair_count: the pairs that have no result row.
MissingPairs_NotChecked(found) == {}
MissingPairs(found) == Pairs \ found

FinRows(e) ==
    /\ pc[e] = "fin_rows"
    /\ seen' = [seen EXCEPT ![e] = rows]
    /\ Goto(e, IF MissingPairs(rows) = {} THEN "sweep" ELSE "hold")
    /\ UNCHANGED <<db, releases, cancel, abandoned, todo, inflight, stray, loaded>>

\* _hold_for_resume, then RunNeedsResume: left running and claimed, no beat any more.
Hold(e) ==
    /\ pc[e] = "hold"
    /\ counter' = IF holder = e THEN RecountedBy(e) ELSE counter
    /\ ReturnTo(e, "poll")
    /\ UNCHANGED <<status, holder, fresh, stopReq, crashes, rows, releases, stray>>

\* _locked_status_and_holder: read under the row lock just before the flip.
MayComplete_AnyHolder(e) == status = "running"
MayComplete_Unlocked(e) == status # "deleted"
MayComplete(e) == status = "running" /\ holder = e

\* After the verify sweep: `completed` only while the run is still running and
\* still held by this executor.
FinCommit(e) ==
    /\ pc[e] = "sweep"
    /\ IF MayComplete(e)
       THEN status' = "completed" /\ counter' = RecountedBy(e)
       ELSE UNCHANGED <<status, counter>>
    /\ Goto(e, "settle")
    /\ UNCHANGED <<holder, fresh, stopReq, crashes, rows, releases,
                   cancel, abandoned, todo, inflight, stray, loaded, seen>>

\* An exception other than RunNeedsResume leaves execute_run (a database error
\* outside the retries, a bug): `interrupted` when it left the completion phase.
UnexpectedError(e) ==
    /\ pc[e] \in Executing \ {"pairs", "lastcheck"}
    /\ Goto(e, IF pc[e] \in Completing THEN "interrupted" ELSE "settle")
    /\ UNCHANGED <<db, releases, cancel, abandoned, todo, inflight, stray, loaded, seen>>

\* CoverageExecutor._execute after execute_run: settle_unfinished, or its write fails.
Settle(e) ==
    /\ pc[e] \in {"settle", "interrupted"}
    /\ status' = IF status = "running" /\ holder = e THEN "failed" ELSE status
    /\ ReturnTo(e, "poll")
    /\ UNCHANGED <<holder, fresh, stopReq, crashes, rows, counter, releases, stray>>

SettleFails(e) ==
    /\ pc[e] \in {"settle", "interrupted"}
    /\ ReturnTo(e, "poll")
    /\ UNCHANGED <<db, releases, stray>>

-----------------------------------------------------------------------------
(* The web process, the operator and time. *)

\* stop_run, first transaction: a queued run is cancelled, a running one stamped.
Stop ==
    /\ \/ status = "pending" /\ status' = "cancelled"
       \/ status = "running" /\ ~stopReq /\ UNCHANGED status
    /\ stopReq' = TRUE
    /\ UNCHANGED <<holder, fresh, crashes, rows, counter, releases, mem>>

\* stop_run, second transaction: cancel_unheld_run.
CancelUnheldRun == stopReq /\ Unheld /\ CancelOnRow /\ UNCHANGED <<releases, mem>>

\* delete_run: not while running; the result rows go with the run row.
Delete ==
    /\ status \in Terminal \cup {"pending"}
    /\ status' = "deleted" /\ holder' = NoHolder /\ rows' = {} /\ counter' = 0
    /\ UNCHANGED <<fresh, stopReq, crashes, releases, mem>>

\* An operator's SQL UPDATE of the status (PR-187): nothing else changes.
SqlStatus ==
    /\ OperatorSql /\ status = "running"
    /\ status' \in {"cancelled", "failed"}
    /\ UNCHANGED <<holder, fresh, stopReq, crashes, rows, counter, releases, mem>>

Expire ==
    /\ status = "running" /\ fresh /\ fresh' = FALSE
    /\ UNCHANGED <<status, holder, stopReq, crashes, rows, counter, releases, mem>>

-----------------------------------------------------------------------------
ExecutorStep(e) ==
    \/ Phase1Load(e) \/ Phase1Rows(e) \/ Recount(e)
    \/ \E p \in Pairs : StartPair(e, p)
    \/ PairsStopped(e)
    \/ \E p \in Pairs : WritePair(e, p)
    \/ PairsDone(e) \/ LastCheck(e)
    \/ CancelLoad(e) \/ CancelRows(e) \/ CancelCommit(e)
    \/ FinLoad(e) \/ FinRows(e) \/ Hold(e) \/ FinCommit(e) \/ Settle(e)

Claim(e) == SettleInsteadOfClaim(e) \/ Take(e)

ExecutorFault(e) ==
    \/ Crash(e) \/ Release(e) \/ Phase1Unavailable(e) \/ NoTargets(e)
    \/ PairLoopFails(e) \/ UnexpectedError(e) \/ SettleFails(e)

Web == Stop \/ CancelUnheldRun \/ Delete \/ SqlStatus

Next ==
    \/ \E e \in Executors :
         Start(e) \/ Claim(e) \/ Heartbeat(e) \/ ExecutorStep(e) \/ ExecutorFault(e)
    \/ Web \/ Expire

Spec == Init /\ [][Next]_vars

\* The event loop of a live worker keeps taking its steps; a worker that keeps
\* being up keeps polling (SF: it may crash between polls); Docker restarts a
\* dead worker; a heartbeat nobody refreshes gets old.
Beating == \E e \in Executors : holder = e /\ pc[e] \in Executing
Fairness ==
    /\ \A e \in Executors : WF_vars(ExecutorStep(e)) /\ SF_vars(Claim(e))
    /\ WF_vars(\E e \in Executors : Start(e))
    /\ WF_vars(~Beating /\ Expire)
FairSpec == Spec /\ Fairness

-----------------------------------------------------------------------------
(* Properties. *)

\* Types of the run row and of each executor's memory; the crash resumes granted
\* to a run stay within COVERAGE_MAX_RESUMES.
TypeOK ==
    /\ status \in Statuses
    /\ holder \in Executors \cup {NoHolder}
    /\ fresh \in BOOLEAN /\ stopReq \in BOOLEAN
    /\ crashes \in 0..MaxResumes /\ releases \in 0..MaxReleases
    /\ rows \subseteq Pairs /\ counter \in Nat
    /\ pc \in [Executors -> PCs]
    /\ cancel \in [Executors -> BOOLEAN] /\ abandoned \in [Executors -> BOOLEAN]
    /\ todo \in [Executors -> SUBSET Pairs]
    /\ inflight \in [Executors -> SUBSET Pairs]
    /\ stray \in [Executors -> SUBSET Pairs]
    /\ loaded \in [Executors -> Nat]
    /\ seen \in [Executors -> SUBSET Pairs]

\* A completed run has the result row of every pair, whatever crashes,
\* takeovers and lost writes came before.
CompletedHasEveryPair == status = "completed" => rows = Pairs

\* The counter never runs ahead of the result rows (progress is never
\* overstated), even with two executors writing and recounting.
CounterNeverAhead == counter <= Cardinality(rows)

\* The counters stay exact: completed_pairs is always the number of result rows.
CountersExact == counter = Cardinality(rows)

\* A run whose Stop was clicked is never claimed or resumed again.
NoNewHolder == \A e \in Executors : holder' = e => holder = e
NoClaimAfterStop == [][stopReq => NoNewHolder]_vars

\* The run is only completed by the executor that holds it at that moment.
CompletedByHolder ==
    [][status # "completed" /\ status' = "completed"
         => holder \in Executors /\ pc[holder] = "sweep" /\ pc'[holder] # "sweep"]_vars

\* A running run an executor holds with a live heartbeat is cancelled by that
\* executor only: not by web, not by another executor.
HeldRunCancelledByHolder ==
    [][status = "running" /\ holder \in Executors /\ fresh /\ status' = "cancelled"
         => pc'[holder] # pc[holder]]_vars

\* With one worker at a time and no SQL, the run keeps the promise of
\* CoverageRunLifecycle: a completed or failed run never changes state again.
Lifecycle == INSTANCE CoverageRunLifecycle WITH status <- status, rows <- rows
LifecycleSpec == Lifecycle!Spec

\* A run that is queued or running ends, however often its workers crash.
RunEnds == (status \in {"pending", "running"}) ~> (status \notin {"pending", "running"})

\* What a reader of the run's row may rely on, whoever holds it: the parts above.
RunRowIsTrue == TypeOK /\ CompletedHasEveryPair /\ CounterNeverAhead

\* What a claim is worth: a stopped run is not claimed again, and only the executor that
\* holds a run completes it.
ClaimsAreRespected == NoClaimAfterStop /\ CompletedByHolder
=============================================================================
