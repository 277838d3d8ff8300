-------------------------- MODULE RefreshProgress --------------------------
(***************************************************************************)
(* The source refreshes of one session: the rows of                        *)
(* source_refresh_progress (app/refresh_progress.py), the requests of      *)
(* app/api/admin/sessions.py that claim a row, run the downloads and end   *)
(* it, and the readers that expire a row past its lease.                   *)
(*                                                                         *)
(* A request is named by the run_id of its claim.  A statement on a row is *)
(* one step, and so is the claim: its transaction runs under the session's *)
(* advisory lock and the row locks of its own UPDATE.  Inside a refresh the *)
(* progress writes go to a queue that one writer thread empties, so a      *)
(* write lands later than the event it reports.                            *)
(*                                                                         *)
(* The clock is abstracted to `fresh`: the heartbeat is younger than       *)
(* LEASE_SECONDS.  The detail of a record is abstracted to its `done`      *)
(* count: the writes of bytes and of steps repeat it and beat the lease,   *)
(* which Beat already does.                                                *)
(***************************************************************************)
EXTENDS Integers, Sequences, FiniteSets

CONSTANTS
    Providers,    \* the session's providers (their feed ids)
    Derived,      \* those that a cross-border filter derives from another feed
    Requests,     \* refresh requests, each with the run_id it claims with
    ScopeOf,      \* what each request refreshes
    NoRun,        \* no row of that scope yet
    Tasks,        \* downloads of one refresh
    ModuleOn,     \* station_module.enabled()
    Stalls,       \* TRUE: a live refresh may miss its heartbeats past the lease
    Cancels,      \* TRUE: a request may be cancelled (shutdown, a lost client)
    WriteFails,   \* TRUE: a write of the record may fail (it is best effort)
    MaxCrashes    \* bound on crashes of the web process, for TLC

Scopes == {"providers", "osm"} \cup Providers

ASSUME ScopeAssumption ==
    /\ Providers \cap {"providers", "osm"} = {}
    /\ Derived \subseteq Providers
    /\ ScopeOf \in [Requests -> Scopes]
    /\ NoRun \notin Requests
ASSUME SizeAssumption == Tasks \in Nat /\ MaxCrashes \in Nat
ASSUME KnobAssumption ==
    /\ ModuleOn \in BOOLEAN
    /\ Stalls \in BOOLEAN
    /\ Cancels \in BOOLEAN
    /\ WriteFails \in BOOLEAN

VARIABLES
    \* the row of each scope
    rowRun,     \* run_id
    rowState,   \* state, or "none" without a row
    fresh,      \* heartbeat_at is within the lease
    rowDone,    \* detail.done
    extract,    \* extract.state
    \* the web process and its requests
    up,         \* the process runs
    crashes,    \* crashes so far (bound only)
    pc,         \* where the request stands
    abandoned,  \* the request was cancelled while a thread worked for it
    endState,   \* the state its __aexit__ ends with
    lost,       \* RefreshRun.lost
    busy,       \* a download is under way
    done,       \* detail.done in memory
    queue       \* the details submitted to the writer thread

db == <<rowRun, rowState, fresh, rowDone, extract>>
mem == <<pc, abandoned, endState, lost, busy, done, queue>>
vars == <<db, up, crashes, mem>>

Ends == {"finished", "failed", "interrupted"}
RowStates == {"none", "running"} \cup Ends
PCs == {"new", "claiming", "handoff", "handed", "body", "ending", "ender",
        "ended", "over"}

Running(s) == rowState[s] = "running"

\* _fenced: the row still names this refresh and is running.
Owns(q) == rowRun[ScopeOf[q]] = q /\ Running(ScopeOf[q])

\* _blocker: the other records that forbid a refresh of s.
Forbidding(s) ==
    CASE s = "providers" -> Providers
      [] s \in Providers -> {"providers"}
      [] OTHER -> {}

\* A station-module pass follows the refresh (RefreshRun.follow_up).
FollowUp(s) == s # "osm" /\ s \notin Derived

\* _expire: a running row past its lease.
Stale(s) == Running(s) /\ ~fresh[s]
Expired == [s \in Scopes |-> IF Stale(s) THEN "interrupted" ELSE rowState[s]]

-----------------------------------------------------------------------------
Init ==
    /\ rowRun = [s \in Scopes |-> NoRun]
    /\ rowState = [s \in Scopes |-> "none"]
    /\ fresh = [s \in Scopes |-> FALSE]
    /\ rowDone = [s \in Scopes |-> 0]
    /\ extract = [s \in Scopes |-> "none"]
    /\ up = TRUE /\ crashes = 0
    /\ pc = [q \in Requests |-> "new"]
    /\ abandoned = [q \in Requests |-> FALSE]
    /\ endState = [q \in Requests |-> "finished"]
    /\ lost = [q \in Requests |-> FALSE]
    /\ busy = [q \in Requests |-> FALSE]
    /\ done = [q \in Requests |-> 0]
    /\ queue = [q \in Requests |-> <<>>]

Goto(q, l) == pc' = [pc EXCEPT ![q] = l]
At(q, l) == up /\ pc[q] = l

\* The request's run object is gone, or serves no more writes.
ReturnTo(q, l) ==
    /\ Goto(q, l)
    /\ abandoned' = [abandoned EXCEPT ![q] = FALSE]
    /\ endState' = [endState EXCEPT ![q] = "finished"]
    /\ lost' = [lost EXCEPT ![q] = FALSE]

\* RefreshRun._write: the detail as it stands, to the writer thread.
Submit_Front(q, n) == queue' = [queue EXCEPT ![q] = <<n>> \o @]
Submit(q, n) == queue' = [queue EXCEPT ![q] = Append(@, n)]

-----------------------------------------------------------------------------
(* The claim (_claim_off_loop, refresh_progress.claim). *)

\* The request reaches its claim: a worker thread takes it.
Ask(q) ==
    /\ At(q, "new")
    /\ Goto(q, "claiming")
    /\ UNCHANGED <<db, up, crashes, abandoned, endState, lost, busy, done, queue>>

\* 409: the record runs within its lease, or one that forbids it does.  The
\* transaction is rolled back, its expiries with it.
Held(s) == Running(s) /\ fresh[s]
Blocked(s) == Held(s) \/ \E t \in Forbidding(s) : Held(t)

Refused(q) ==
    /\ At(q, "claiming") /\ Blocked(ScopeOf[q])
    /\ ReturnTo(q, "over")
    /\ UNCHANGED <<db, up, crashes, busy, done, queue>>

Claim(q) ==
    LET s == ScopeOf[q] IN
    /\ At(q, "claiming") /\ ~Blocked(s)
    /\ rowState' = [Expired EXCEPT ![s] = "running"]
    /\ rowRun' = [rowRun EXCEPT ![s] = q]
    /\ fresh' = [fresh EXCEPT ![s] = TRUE]
    /\ rowDone' = [rowDone EXCEPT ![s] = 0]
    /\ extract' = [extract EXCEPT ![s] = "none"]
    /\ Goto(q, "handoff")
    /\ UNCHANGED <<up, crashes, abandoned, endState, lost, busy, done, queue>>

\* The claim's transaction fails: the request answers an error.
ClaimFails(q) ==
    /\ WriteFails /\ At(q, "claiming")
    /\ ReturnTo(q, "over")
    /\ UNCHANGED <<db, up, crashes, busy, done, queue>>

\* The claim thread hands its run over, or ends it when the request is gone.
HandOff_Always(q) ==
    /\ At(q, "handoff")
    /\ Goto(q, IF abandoned[q] THEN "over" ELSE "handed")
    /\ UNCHANGED <<db, up, crashes, abandoned, endState, lost, busy, done, queue>>
HandOff(q) ==
    /\ At(q, "handoff")
    /\ Goto(q, IF abandoned[q] THEN "ender" ELSE "handed")
    /\ UNCHANGED <<db, up, crashes, abandoned, endState, lost, busy, done, queue>>

\* The request resumes with the run and enters its context (__aenter__).
Enter(q) ==
    /\ At(q, "handed")
    /\ Goto(q, "body")
    /\ UNCHANGED <<db, up, crashes, abandoned, endState, lost, busy, done, queue>>

\* Cancelled while the claim thread runs: the thread is told (handoff.abandoned).
CancelClaim(q) ==
    /\ Cancels /\ up /\ pc[q] \in {"claiming", "handoff"} /\ ~abandoned[q]
    /\ abandoned' = [abandoned EXCEPT ![q] = TRUE]
    /\ UNCHANGED <<db, up, crashes, pc, endState, lost, busy, done, queue>>

\* Cancelled once the claim was made: another worker thread ends it.
CancelHanded(q) ==
    /\ Cancels /\ At(q, "handed")
    /\ Goto(q, "ender")
    /\ UNCHANGED <<db, up, crashes, abandoned, endState, lost, busy, done, queue>>

-----------------------------------------------------------------------------
(* The body of a refresh (_run_url_tasks, _gather_refresh_outcomes). *)

MayStart(q) == ~lost[q] /\ done[q] < Tasks

StartTask(q) ==
    /\ At(q, "body") /\ ~busy[q] /\ MayStart(q)
    /\ busy' = [busy EXCEPT ![q] = TRUE]
    /\ Submit(q, done[q])
    /\ UNCHANGED <<db, up, crashes, pc, abandoned, endState, lost, done>>

\* A download ends: fetched, unchanged or skipped, each of them done.
EndTask(q) ==
    /\ At(q, "body") /\ busy[q]
    /\ busy' = [busy EXCEPT ![q] = FALSE]
    /\ done' = [done EXCEPT ![q] = @ + 1]
    /\ Submit(q, done[q] + 1)
    /\ UNCHANGED <<db, up, crashes, pc, abandoned, endState, lost>>

\* __aexit__: the heartbeat task is cancelled, then _end.
LeaveWith(q, end) ==
    /\ Goto(q, "ending")
    /\ endState' = [endState EXCEPT ![q] = end]
    /\ busy' = [busy EXCEPT ![q] = FALSE]
    /\ UNCHANGED <<db, up, crashes, abandoned, lost, done, queue>>

\* Every task is done, or the lease is lost: the session row is written
\* (_finish_sources_refresh, _finalise_provider_refresh) and the body ends.
Leave(q) == At(q, "body") /\ ~busy[q] /\ ~MayStart(q) /\ LeaveWith(q, "finished")

\* An exception leaves the body (a task's own errors do not: they skip it).
Fail(q) == At(q, "body") /\ LeaveWith(q, "failed")

CancelBody(q) == Cancels /\ At(q, "body") /\ LeaveWith(q, "interrupted")

\* Cancelled while it waits for the thread that runs _end: the thread goes on,
\* and nothing after the `async with` runs.
CancelEnd(q) ==
    /\ Cancels /\ At(q, "ending") /\ endState[q] # "interrupted" /\ ~abandoned[q]
    /\ abandoned' = [abandoned EXCEPT ![q] = TRUE]
    /\ UNCHANGED <<db, up, crashes, pc, endState, lost, busy, done, queue>>

-----------------------------------------------------------------------------
(* The writes of the record (RefreshRun._execute). *)

\* The writer thread writes the detail that was submitted first.
Write(q) ==
    LET s == ScopeOf[q] IN
    /\ up /\ pc[q] \in {"body", "ending"} /\ queue[q] # <<>>
    /\ queue' = [queue EXCEPT ![q] = Tail(@)]
    /\ IF Owns(q)
       THEN /\ rowDone' = [rowDone EXCEPT ![s] = Head(queue[q])]
            /\ fresh' = [fresh EXCEPT ![s] = TRUE]
            /\ lost' = lost
       ELSE lost' = [lost EXCEPT ![q] = TRUE] /\ UNCHANGED <<rowDone, fresh>>
    /\ UNCHANGED <<rowRun, rowState, extract, up, crashes, pc, abandoned,
                   endState, busy, done>>

\* The write raises: one WARNING, and the detail is dropped.
WriteDropped(q) ==
    /\ WriteFails /\ up /\ pc[q] \in {"body", "ending"} /\ queue[q] # <<>>
    /\ queue' = [queue EXCEPT ![q] = Tail(@)]
    /\ UNCHANGED <<db, up, crashes, pc, abandoned, endState, lost, busy, done>>

\* The heartbeat, and the one in flight when the refresh began to end: that one
\* finds the row ended by its own refresh, which is no lost lease.
Beat(q) ==
    LET s == ScopeOf[q] IN
    /\ up /\ pc[q] \in {"body", "ending"}
    /\ fresh' = IF Owns(q) THEN [fresh EXCEPT ![s] = TRUE] ELSE fresh
    /\ lost' = IF ~Owns(q) /\ pc[q] = "body" THEN [lost EXCEPT ![q] = TRUE] ELSE lost
    /\ UNCHANGED <<rowRun, rowState, rowDone, extract, up, crashes, pc,
                   abandoned, endState, busy, done, queue>>

\* _extract_on_finish
ExtractOnFinish(end) ==
    IF end # "finished" THEN "none" ELSE IF ModuleOn THEN "queued" ELSE "off"

\* RefreshRun.finish: the end of the record, fenced like every write.
FinishRow_Unfenced(q, end) ==
    LET s == ScopeOf[q] IN
    /\ rowState' = [rowState EXCEPT ![s] = end]
    /\ rowDone' = [rowDone EXCEPT ![s] = done[q]]
    /\ extract' = IF FollowUp(s)
                  THEN [extract EXCEPT ![s] = ExtractOnFinish(end)] ELSE extract
    /\ UNCHANGED <<rowRun, fresh>>
FinishRow(q, end) ==
    LET s == ScopeOf[q] IN
    IF Owns(q)
    THEN /\ rowState' = [rowState EXCEPT ![s] = end]
         /\ rowDone' = [rowDone EXCEPT ![s] = done[q]]
         /\ extract' = IF FollowUp(s)
                       THEN [extract EXCEPT ![s] = ExtractOnFinish(end)] ELSE extract
         /\ UNCHANGED <<rowRun, fresh>>
    ELSE UNCHANGED db

\* A refresh that finished, and was not cancelled meanwhile, goes on to queue
\* its station-module pass.
AfterEnd(q) ==
    IF endState[q] = "finished" /\ ~abandoned[q] /\ FollowUp(ScopeOf[q])
    THEN "ended" ELSE "over"

\* _end: the writer thread is drained (shutdown(wait=True)), then finish.
End(q) ==
    /\ At(q, "ending") /\ queue[q] = <<>>
    /\ FinishRow(q, endState[q])
    /\ ReturnTo(q, AfterEnd(q))
    /\ UNCHANGED <<up, crashes, busy, done, queue>>

EndDropped(q) ==
    /\ WriteFails /\ At(q, "ending") /\ queue[q] = <<>>
    /\ ReturnTo(q, AfterEnd(q))
    /\ UNCHANGED <<db, up, crashes, busy, done, queue>>

\* The claim of a cancelled request is ended, by the thread that made it or by
\* another one.
EndAbandoned(q) ==
    /\ At(q, "ender")
    /\ FinishRow(q, "interrupted")
    /\ ReturnTo(q, "over")
    /\ UNCHANGED <<up, crashes, busy, done, queue>>

EndAbandonedDropped(q) ==
    /\ WriteFails /\ At(q, "ender")
    /\ ReturnTo(q, "over")
    /\ UNCHANGED <<db, up, crashes, busy, done, queue>>

-----------------------------------------------------------------------------
(* The clock, the readers, the process. *)

Writing == {"handoff", "handed", "body", "ending", "ender"}
Alive(q) == up /\ pc[q] \in Writing

\* LEASE_SECONDS without a heartbeat: the refresh is gone, or it stalls.
Lapse(s) ==
    /\ Running(s) /\ fresh[s]
    /\ Stalls \/ ~Alive(rowRun[s])
    /\ fresh' = [fresh EXCEPT ![s] = FALSE]
    /\ UNCHANGED <<rowRun, rowState, rowDone, extract, up, crashes, mem>>

\* The page reads the records (read), or a request without work looks whether
\* one runs (check_free): the stale ones are marked interrupted.
Read_NotCommitted == (\E s \in Scopes : Stale(s)) /\ UNCHANGED vars
Read ==
    /\ \E s \in Scopes : Stale(s)
    /\ rowState' = Expired
    /\ UNCHANGED <<rowRun, fresh, rowDone, extract, up, crashes, mem>>

\* The web process dies with every request and thread in it.
Crash ==
    /\ up /\ crashes < MaxCrashes
    /\ up' = FALSE /\ crashes' = crashes + 1
    /\ pc' = [q \in Requests |-> IF pc[q] = "new" THEN "new" ELSE "over"]
    /\ busy' = [q \in Requests |-> FALSE]
    /\ queue' = [q \in Requests |-> <<>>]
    /\ abandoned' = [q \in Requests |-> FALSE]
    /\ endState' = [q \in Requests |-> "finished"]
    /\ lost' = [q \in Requests |-> FALSE]
    /\ UNCHANGED <<db, done>>

Restart ==
    /\ ~up
    /\ up' = TRUE
    /\ UNCHANGED <<db, crashes, mem>>

RequestStep(q) ==
    \/ Ask(q) \/ Refused(q) \/ Claim(q) \/ ClaimFails(q) \/ HandOff(q) \/ Enter(q)
    \/ CancelClaim(q) \/ CancelHanded(q) \/ CancelBody(q) \/ CancelEnd(q)
    \/ StartTask(q) \/ EndTask(q) \/ Leave(q) \/ Fail(q)
    \/ Write(q) \/ WriteDropped(q) \/ Beat(q)
    \/ End(q) \/ EndDropped(q) \/ EndAbandoned(q) \/ EndAbandonedDropped(q)

Next ==
    \/ \E q \in Requests : RequestStep(q)
    \/ \E s \in Scopes : Lapse(s)
    \/ Read \/ Crash \/ Restart

Spec == Init /\ [][Next]_vars
\* What the event loop, the worker threads and the database do in the end: a
\* claim answers, a handed run is resumed, a download ends, the writer thread
\* writes, the end is written; the clock goes on, and a page of the session
\* polls.  Heartbeats, cancellations, crashes and restarts are not promised.
Fairness ==
    /\ \A q \in Requests :
        /\ WF_vars(Refused(q) \/ Claim(q)) /\ WF_vars(HandOff(q)) /\ WF_vars(Enter(q))
        /\ WF_vars(StartTask(q)) /\ WF_vars(EndTask(q)) /\ WF_vars(Leave(q))
        /\ WF_vars(Write(q)) /\ WF_vars(End(q)) /\ WF_vars(EndAbandoned(q))
    /\ \A s \in Scopes : WF_vars(Lapse(s) /\ ~Alive(rowRun[s]))
    /\ WF_vars(Read)

FairSpec == Spec /\ Fairness

-----------------------------------------------------------------------------
(* Properties *)

\* Every variable stays in its type.
TypeOK ==
    /\ rowRun \in [Scopes -> Requests \cup {NoRun}]
    /\ rowState \in [Scopes -> RowStates]
    /\ fresh \in [Scopes -> BOOLEAN]
    /\ rowDone \in [Scopes -> 0..Tasks]
    /\ extract \in [Scopes -> {"none", "off", "queued", "running", "ended"}]
    /\ up \in BOOLEAN /\ crashes \in 0..MaxCrashes
    /\ pc \in [Requests -> PCs]
    /\ abandoned \in [Requests -> BOOLEAN]
    /\ endState \in [Requests -> Ends]
    /\ lost \in [Requests -> BOOLEAN]
    /\ busy \in [Requests -> BOOLEAN]
    /\ done \in [Requests -> 0..Tasks]
    /\ queue \in [Requests -> Seq(0..Tasks)]

\* A record of the whole session's providers never runs beside one of a provider
\* alone, however claims, expiries and ends interleave (_blocker).
Exclusive == \A s \in Scopes : \A t \in Forbidding(s) : ~(Running(s) /\ Running(t))

\* Two requests whose scopes overlap.
Overlap(q, r) == ScopeOf[q] = ScopeOf[r] \/ ScopeOf[r] \in Forbidding(ScopeOf[q])

\* As long as no live refresh misses its lease, two requests never download the
\* same files at once: the row protects the work, not only the record.
MutualExclusion ==
    ~Stalls =>
        \A q, r \in Requests :
            q # r /\ At(q, "body") /\ At(r, "body") => ~Overlap(q, r)

\* The count a record shows is one its own refresh reached: no write of a refresh
\* that lost the row lands in the record of the next one (_fenced).
RecordIsOwn ==
    \A s \in Scopes : rowRun[s] # NoRun => rowDone[s] <= done[rowRun[s]]

\* A record that says finished has every task done: a refresh that stopped early
\* because it lost its lease never writes that it finished.
FinishedReachedEveryTask ==
    \A s \in Scopes : rowState[s] = "finished" => rowDone[s] = Tasks

\* While the process lives and its writes succeed, a running record has someone
\* who will end it, whenever the request is cancelled: no claim is left to block
\* the scope until its lease runs out (_claim_off_loop).
RunningHasAnEnder ==
    crashes = 0 /\ ~WriteFails =>
        \A s \in Scopes : Running(s) => Alive(rowRun[s])

\* The count of a record never goes back while the same refresh owns it, though
\* its writes land late, from a thread of their own.
CountGrows == \A s \in Scopes : rowRun'[s] = rowRun[s] => rowDone[s] <= rowDone'[s]
ProgressNeverGoesBack == [][CountGrows]_vars

\* Every running record ends: by its refresh, or by the lease when the process
\* died or the end could not be written.
RefreshEnds == \A q \in Requests : Owns(q) ~> ~Owns(q)

\* A record shows its own refresh, and finished only when every task was done.
RecordIsTrue == TypeOK /\ RecordIsOwn /\ FinishedReachedEveryTask

\* Refreshes that overlap exclude each other, in the rows and at work, and whoever holds a
\* running row has somebody who will end it.
RefreshesExclude == Exclusive /\ MutualExclusion /\ RunningHasAnEnder
=============================================================================
