------------------------------ MODULE VerifySweep ------------------------------
(***************************************************************************)
(* The check of a coverage run's cells against the ÖBB planner, in its     *)
(* completion phase (runner._finalise_completed_run and the sweep it runs, *)
(* network_coverage/verify_progress.py). Executors claim the run one after *)
(* the other; one that lost its claim goes on until a fenced write tells   *)
(* it. An answer is on the row in memory first, saved in a later write.    *)
(***************************************************************************)
EXTENDS Naturals, FiniteSets

CONSTANTS
    Sweepers,           \* executor ids, one per process: a restart has a new one
    Cells,              \* the run's result rows that are not skipped
    NoSweeper,          \* claimed_by IS NULL
    FlushEvery,         \* FLUSH_EVERY_CELLS
    VerifyParallelism   \* cfg.verify_parallelism

ASSUME SweepAssumption ==
    /\ NoSweeper \notin Sweepers /\ IsFiniteSet(Cells)
    /\ FlushEvery \in Nat \ {0} /\ VerifyParallelism \in Nat \ {0}

VARIABLES
    runState, sweepHolder,  \* the run row: status, claimed_by
    verifyDone,             \* verify_done
    savedCells,             \* result rows whose external_verified_at is set
    sweeper                 \* each executor's completion phase

sweepVars == <<runState, sweepHolder, verifyDone, savedCells, sweeper>>

\* read: the cells answered when the rows were read; written: SweepWriter._saved.
Away == [pc |-> "away", todo |-> {}, asking |-> {}, answered |-> {}, pending |-> {},
         written |-> 0, stopped |-> FALSE]

SweepInit ==
    /\ runState = "running" /\ sweepHolder = NoSweeper /\ verifyDone = 0 /\ savedCells = {}
    /\ sweeper = [e \in Sweepers |-> Away]

\* A free run, or one whose holder's heartbeat is stale, is claimed; its pairs are done.
ClaimSweep(e) ==
    /\ runState = "running" /\ sweeper[e].pc = "away"
    /\ sweepHolder' = e /\ sweeper' = [sweeper EXCEPT ![e].pc = "claimed"]
    /\ UNCHANGED <<runState, verifyDone, savedCells>>

\* already_checked
Unchecked(saved) == Cells \ saved

\* The completion reads the run (ended meanwhile: it leaves) and its result rows.
ReadRows(e) ==
    /\ sweeper[e].pc = "claimed"
    /\ sweeper' = [sweeper EXCEPT ![e] =
            IF runState = "running"
            THEN [Away EXCEPT !.pc = "start", !.todo = Unchecked(savedCells),
                              !.answered = Cells \ Unchecked(savedCells),
                              !.written = Cardinality(Cells \ Unchecked(savedCells))]
            ELSE [Away EXCEPT !.pc = "over"]]
    /\ UNCHANGED <<runState, sweepHolder, verifyDone, savedCells>>

\* _fenced_update
Fence(e) == runState = "running" /\ sweepHolder = e

\* SweepWriter._write, with the state s the executor is in: the fence refuses and the
\* writer stops; or it lands; or it fails and the answers wait for the next one (the
\* commit went through and its answer was lost, or nothing was written).
Write(e, s, rows, done) ==
    \/ /\ ~Fence(e) /\ UNCHANGED <<verifyDone, savedCells>>
       /\ sweeper' = [sweeper EXCEPT ![e] = [s EXCEPT !.stopped = TRUE, !.pending = {}]]
    \/ /\ Fence(e) /\ verifyDone' = done /\ savedCells' = savedCells \cup rows
       /\ sweeper' = [sweeper EXCEPT ![e] = [s EXCEPT !.written = done, !.pending = {}]]
    \/ /\ Fence(e) /\ verifyDone' = done /\ savedCells' = savedCells \cup rows
       /\ sweeper' = [sweeper EXCEPT ![e] = s]
    \/ /\ UNCHANGED <<verifyDone, savedCells>> /\ sweeper' = [sweeper EXCEPT ![e] = s]

\* SweepWriter.flush
Flush(e, s) == Write(e, s, s.pending, s.written + Cardinality(s.pending))

\* Mutant: the progress of a resumed check starts again from zero.
StartWriterFromZero(e) ==
    /\ sweeper[e].pc = "start"
    /\ Write(e, [sweeper[e] EXCEPT !.pc = "sweep"], {}, 0)
    /\ UNCHANGED <<runState, sweepHolder>>

\* SweepWriter.start
StartWriter(e) ==
    /\ sweeper[e].pc = "start"
    /\ Write(e, [sweeper[e] EXCEPT !.pc = "sweep"], {}, sweeper[e].written)
    /\ UNCHANGED <<runState, sweepHolder>>

\* _verify_one: inside the semaphore, not once the writer has stopped.
AskCell(e, c) ==
    LET s == sweeper[e] IN
    /\ s.pc = "sweep" /\ ~s.stopped /\ c \in s.todo
    /\ Cardinality(s.asking) < VerifyParallelism
    /\ sweeper' = [sweeper EXCEPT ![e].todo = @ \ {c}, ![e].asking = @ \cup {c}]
    /\ UNCHANGED <<runState, sweepHolder, verifyDone, savedCells>>

\* The answer, a failure of the planner or a missing hub is put on the row, then
\* cell_checked queues it and writes when 25 wait or 5 seconds went by.
CellChecked(e, c) ==
    LET s == sweeper[e]
        t == [s EXCEPT !.asking = @ \ {c}, !.answered = @ \cup {c},
                       !.pending = IF s.stopped THEN {} ELSE @ \cup {c}] IN
    /\ s.pc = "sweep" /\ c \in s.asking
    /\ \/ ~s.stopped /\ Flush(e, t)
       \/ /\ s.stopped \/ Cardinality(t.pending) < FlushEvery
          /\ sweeper' = [sweeper EXCEPT ![e] = t] /\ UNCHANGED <<verifyDone, savedCells>>
    /\ UNCHANGED <<runState, sweepHolder>>

\* Every cell is asked, or the writer stopped: the last flush.
SweepDone(e) ==
    LET s == sweeper[e]  t == [s EXCEPT !.pc = "commit"] IN
    /\ s.pc = "sweep" /\ s.asking = {} /\ (s.todo = {} \/ s.stopped)
    /\ IF s.stopped
       THEN sweeper' = [sweeper EXCEPT ![e] = t] /\ UNCHANGED <<verifyDone, savedCells>>
       ELSE Flush(e, t)
    /\ UNCHANGED <<runState, sweepHolder>>

\* _locked_status_and_holder
MayFlip(e) == runState = "running" /\ sweepHolder = e

\* The completion's one commit writes the status and every answer of its rows.
CommitCompletion(e) ==
    /\ sweeper[e].pc = "commit" /\ sweeper' = [sweeper EXCEPT ![e] = [Away EXCEPT !.pc = "over"]]
    /\ IF MayFlip(e)
       THEN runState' = "completed" /\ savedCells' = savedCells \cup sweeper[e].answered
       ELSE UNCHANGED <<runState, savedCells>>
    /\ UNCHANGED <<sweepHolder, verifyDone>>

\* The process is killed; its claim stays and goes stale, or was released (SIGTERM).
SweeperDies(e) ==
    /\ sweeper[e].pc \notin {"away", "over"}
    /\ sweeper' = [sweeper EXCEPT ![e] = [Away EXCEPT !.pc = "over"]]
    /\ sweepHolder' \in {sweepHolder} \cup (IF sweepHolder = e THEN {NoSweeper} ELSE {})
    /\ UNCHANGED <<runState, verifyDone, savedCells>>

\* An operator's UPDATE (PR-187).
CancelBySql ==
    /\ runState = "running" /\ runState' = "cancelled"
    /\ UNCHANGED <<sweepHolder, verifyDone, savedCells, sweeper>>

SweepStep(e) ==
    \/ ReadRows(e) \/ StartWriter(e) \/ SweepDone(e) \/ CommitCompletion(e)
    \/ \E c \in Cells : AskCell(e, c) \/ CellChecked(e, c)

SweepNext ==
    \/ \E e \in Sweepers : ClaimSweep(e) \/ SweepStep(e) \/ SweeperDies(e)
    \/ CancelBySql

SweepSpec == SweepInit /\ [][SweepNext]_sweepVars

----------------------------------------------------------------------------
\* Every variable stays in its type; a sweep asks no cell twice, no more of them at once
\* than the parallelism, and its stopped writer holds back no answer.
SweepTypeOK ==
    /\ runState \in {"running", "completed", "cancelled"} /\ verifyDone \in 0..Cardinality(Cells)
    /\ savedCells \subseteq Cells /\ sweepHolder \in Sweepers \cup {NoSweeper}
    /\ \A e \in Sweepers : LET s == sweeper[e] IN
        /\ s.pending \subseteq s.answered /\ s.asking \cap (s.todo \cup s.answered) = {}
        /\ Cardinality(s.asking) <= VerifyParallelism /\ (s.stopped => s.pending = {})

\* The progress shown on the page is the number of answers saved, whichever executors
\* wrote them, in whatever order their writes landed, failed or were lost.
SweepProgressExact == runState # "completed" => verifyDone = Cardinality(savedCells)

\* A completed run has an answer for every cell, and they are all saved: an executor whose
\* writer stopped with cells unasked never completes the run.
CompletedIsChecked == runState = "completed" => savedCells = Cells

\* The executor that holds the run never asks ÖBB about a cell whose answer is saved: a
\* resume asks only the rest.
SavedNotAsked == \A c \in savedCells : \A e \in Sweepers :
    sweepHolder = e => c \notin sweeper[e].todo \cup (sweeper[e].asking \ sweeper[e].answered)

\* A run that ended keeps its status and its rows: no late write of a sweep reaches it.
EndedIsKept ==
    [][runState # "running" => UNCHANGED <<runState, savedCells, verifyDone>>]_sweepVars
=============================================================================
