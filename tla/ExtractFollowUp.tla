-------------------------- MODULE ExtractFollowUp --------------------------
(***************************************************************************)
(* The station-module pass that follows a provider refresh: the queue and  *)
(* the sender thread of app/station_extract_upload.py, and what they write *)
(* into the record of the refresh (refresh_progress.ExtractFollowUp).      *)
(* The queue and the thread live in the web process: a restart loses them  *)
(* and queues again what the records still say is queued or running        *)
(* (resume_after_restart), here always within RESUME_HOURS.                *)
(*                                                                         *)
(* RefreshProgress is composed with it step by step: a crash is a crash of *)
(* both, every other step of a refresh leaves the queue alone.             *)
(***************************************************************************)
EXTENDS RefreshProgress, SequencesExt

CONSTANT NoScope   \* the sender thread runs no pass

ASSUME NoScopeAssumption == NoScope \notin Scopes
\* A session has finitely many providers.
ASSUME ProvidersAssumption == IsFiniteSet(Providers)

VARIABLES
    waiting,    \* _waiting: the passes to run, by what they refresh
    queuedRun,  \* _queued: the run_id each waiting pass reports to, or NoRun
    passScope,  \* the pass the sender thread runs
    passRun,    \* the run_id that pass reports to
    passOn,     \* its `started` was written
    silent      \* records that nobody reports to any more (history): a write of the
                \* pass failed, or the request was cancelled while its end was written

sender == <<waiting, queuedRun, passScope, passRun, passOn, silent>>
allVars == <<vars, sender>>

FInit ==
    /\ Init
    /\ waiting = <<>>
    /\ queuedRun = [s \in Scopes |-> NoRun]
    /\ passScope = NoScope /\ passRun = NoRun /\ passOn = FALSE
    /\ silent = {}

-----------------------------------------------------------------------------
\* after_refresh: a pass already waiting is not queued twice, it reports to this
\* refresh's record instead.
Reporting_First(q) ==
    IF queuedRun[ScopeOf[q]] # NoRun THEN queuedRun[ScopeOf[q]] ELSE q
Reporting(q) == q

AfterRefresh_PutsAgain(q) ==
    LET s == ScopeOf[q] IN
    /\ At(q, "ended")
    /\ ReturnTo(q, "over")
    /\ queuedRun' = [queuedRun EXCEPT ![s] = Reporting(q)]
    /\ waiting' = Append(waiting, s)
    /\ UNCHANGED <<db, up, crashes, busy, done, queue, passScope, passRun, passOn, silent>>
AfterRefresh(q) ==
    LET s == ScopeOf[q] IN
    /\ At(q, "ended")
    /\ ReturnTo(q, "over")
    /\ IF ModuleOn
       THEN /\ queuedRun' = [queuedRun EXCEPT ![s] = Reporting(q)]
            /\ waiting' = IF queuedRun[s] = NoRun THEN Append(waiting, s) ELSE waiting
       ELSE UNCHANGED <<waiting, queuedRun>>
    /\ UNCHANGED <<db, up, crashes, busy, done, queue, passScope, passRun, passOn, silent>>

\* _send_queued: the next pass, and the run_id it reports to, taken together.
StartPass ==
    /\ up /\ passScope = NoScope /\ waiting # <<>>
    /\ LET s == Head(waiting) IN
       /\ passScope' = s
       /\ passRun' = queuedRun[s]
       /\ queuedRun' = [queuedRun EXCEPT ![s] = NoRun]
    /\ waiting' = Tail(waiting)
    /\ passOn' = FALSE
    /\ UNCHANGED <<vars, silent>>

\* ExtractFollowUp._write: into the record of its own refresh, once finished.
Reports == rowRun[passScope] = passRun /\ rowState[passScope] = "finished"

Report(x) ==
    /\ \/ /\ extract' = IF Reports THEN [extract EXCEPT ![passScope] = x] ELSE extract
          /\ silent' = silent
       \/ /\ WriteFails /\ extract' = extract
          /\ silent' = IF Reports THEN silent \cup {passScope} ELSE silent
    /\ UNCHANGED <<rowRun, rowState, fresh, rowDone, up, crashes, mem>>

PassStarted ==
    /\ up /\ passScope # NoScope /\ ~passOn
    /\ Report("running")
    /\ passOn' = TRUE
    /\ UNCHANGED <<waiting, queuedRun, passScope, passRun>>

\* The pass ends: finished, cancelled, error or off.
PassEnds ==
    /\ up /\ passScope # NoScope /\ passOn
    /\ Report("ended")
    /\ passScope' = NoScope /\ passRun' = NoRun /\ passOn' = FALSE
    /\ UNCHANGED <<waiting, queuedRun>>

\* resume_passes: the records whose pass the previous process did not end.
Unfinished_Queued(s) ==
    FollowUp(s) /\ rowState[s] = "finished" /\ extract[s] = "queued"
Unfinished(s) ==
    FollowUp(s) /\ rowState[s] = "finished" /\ extract[s] \in {"queued", "running"}
ToResume == IF ModuleOn THEN {s \in Scopes : Unfinished(s)} ELSE {}

\* The web process dies with its queue and its threads.
CrashAll ==
    /\ Crash
    /\ waiting' = <<>>
    /\ queuedRun' = [s \in Scopes |-> NoRun]
    /\ passScope' = NoScope /\ passRun' = NoRun /\ passOn' = FALSE
    /\ UNCHANGED silent

\* It starts again: each of them is queued for the refresh that its record names.
Resume ==
    /\ ~up
    /\ up' = TRUE
    /\ extract' = [s \in Scopes |-> IF s \in ToResume THEN "queued" ELSE extract[s]]
    /\ queuedRun' = [s \in Scopes |-> IF s \in ToResume THEN rowRun[s] ELSE NoRun]
    /\ waiting' \in SetToSeqs(ToResume)
    /\ silent' = {}
    /\ UNCHANGED <<rowRun, rowState, fresh, rowDone, crashes, mem,
                   passScope, passRun, passOn>>

\* The records cannot be read at the start: nothing is queued again.
ResumeFails ==
    /\ WriteFails /\ Restart
    /\ silent' = silent \cup ToResume
    /\ UNCHANGED <<waiting, queuedRun, passScope, passRun, passOn>>

\* Unless the event loop stalls, a request whose end was written goes on to its
\* after_refresh (nothing is awaited in between) before another one of its scope
\* claims the record.
Prompt ==
    Stalls \/ \A q \in Requests :
                pc[q] = "ended" => rowRun'[ScopeOf[q]] = rowRun[ScopeOf[q]]

\* A request cancelled while the thread runs _end: its record says queued, and
\* nothing after the `async with` runs.
CutOff == {ScopeOf[q] : q \in {r \in Requests : abandoned[r] /\ pc[r] = "ending" /\ pc'[r] = "over"}}
Reclaimed == {s \in Scopes : rowRun'[s] # rowRun[s]}

RefreshStep ==
    /\ \/ \E q \in Requests : RequestStep(q)
       \/ \E s \in Scopes : Lapse(s)
       \/ Read
    /\ Prompt
    /\ silent' = (silent \cup CutOff) \ Reclaimed
    /\ UNCHANGED <<waiting, queuedRun, passScope, passRun, passOn>>

FNext ==
    \/ RefreshStep
    \/ \E q \in Requests : AfterRefresh(q)
    \/ StartPass \/ PassStarted \/ PassEnds
    \/ CrashAll \/ Resume \/ ResumeFails

FSpec == FInit /\ [][FNext]_allVars

\* The refresh goes on to queue its pass, the sender thread goes on, and a
\* process that died is started again (its container restarts).
FFairness ==
    /\ \A q \in Requests : WF_allVars(AfterRefresh(q))
    /\ WF_allVars(StartPass) /\ WF_allVars(PassStarted) /\ WF_allVars(PassEnds)
    /\ WF_allVars(Resume)

FairFSpec == FSpec /\ FFairness

-----------------------------------------------------------------------------
(* Properties *)

\* Every variable stays in its type.
FTypeOK ==
    /\ TypeOK
    /\ waiting \in Seq(Scopes)
    /\ queuedRun \in [Scopes -> Requests \cup {NoRun}]
    /\ passScope \in Scopes \cup {NoScope}
    /\ passRun \in Requests \cup {NoRun}
    /\ passOn \in BOOLEAN
    /\ silent \subseteq Scopes

\* A pass waits once, and has a record to report to: _waiting and _queued agree
\* whatever refreshes end while one waits (after_refresh).
WaitingAgree ==
    /\ IsInjective(waiting)
    /\ \A s \in Scopes : queuedRun[s] # NoRun <=> s \in Range(waiting)

\* A record that says its pass runs is the record of the pass that runs: a pass
\* never writes into the record of a newer refresh, nor leaves one running, unless
\* the write of its end failed.
RunningPassIsOwn ==
    up => \A s \in Scopes : extract[s] = "running" =>
            /\ rowState[s] = "finished"
            /\ s \in silent \/ (passScope = s /\ passRun = rowRun[s] /\ passOn)

\* A record that says its pass is queued has that pass: about to be queued by
\* its refresh, waiting in the queue, or taken by the sender thread, unless the
\* request was cancelled between its last download and after_refresh.
QueuedIsServed ==
    up => \A s \in Scopes : extract[s] = "queued" =>
            \/ s \in silent
            \/ At(rowRun[s], "ended")
            \/ queuedRun[s] = rowRun[s]
            \/ passScope = s /\ passRun = rowRun[s]

\* The pass of a finished refresh is reported to its end, or a newer refresh
\* takes the record: "one Refresh sends all the module lacks", restarts included
\* (again unless the request was cut off before it could queue the pass).
PassIsReported ==
    \A s \in Scopes :
        extract[s] \in {"queued", "running"} ~>
            (extract[s] \notin {"queued", "running"} \/ s \in silent)

\* The sender's queue, its set of waiting scopes and the records tell the same story.
PassesAgree == FTypeOK /\ WaitingAgree /\ RunningPassIsOwn
=============================================================================
