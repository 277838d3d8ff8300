---------------------------- MODULE RebuildWorker ----------------------------
(***************************************************************************)
(* Graph rebuilds: the rebuild_jobs rows that web requests insert, upgrade *)
(* and cancel (app/ingestion.py, app/api/admin/sessions.py), and the one   *)
(* worker process that claims a job, builds the graph in a container and   *)
(* links it as the session's current one (app/worker.py).                  *)
(*                                                                         *)
(* A web request reads a row in one step and commits in a later one, as    *)
(* the ORM does under READ COMMITTED: it writes the columns it changed,    *)
(* whatever the row says by then. The worker's claim is one conditional    *)
(* UPDATE. A job is named by the request that inserted it.                 *)
(*                                                                         *)
(* Left to other components: whether the inputs are staged (a manual       *)
(* request is one that passed that check), the refresh itself (only        *)
(* whether one runs), the station module's upload and wait (one step that  *)
(* may see the cancel), the snapshot row and the session's own state       *)
(* written with the end of the job.                                        *)
(***************************************************************************)
EXTENDS Naturals, Sequences, FiniteSets

CONSTANTS
    Sessions,
    Requests,      \* uploads, refreshed files and manual rebuilds
    SessionOf,     \* the session of each request
    Files,         \* the requests that place a file before they queue
    Checked,       \* the manual requests with the max-memory box ticked
    AlwaysMax,     \* the sessions whose config asks for max memory
    Motis,         \* the sessions built by MOTIS: two containers in turn
    KeepGraphs,    \* graph folders kept by the prune (3)
    MaxCrashes,    \* bound on the crashes and exceptions of the worker
    MaxRefreshes,  \* bound on refreshes
    Faults,        \* docker ps and compose ps, and the write of the marker, may fail
    NoJob

ASSUME RebuildAssumption ==
    /\ SessionOf \in [Requests -> Sessions]
    /\ Files \subseteq Requests /\ Checked \subseteq Requests \ Files
    /\ AlwaysMax \subseteq Sessions /\ Motis \subseteq Sessions
    /\ KeepGraphs \in Nat \ {0}
    /\ MaxCrashes \in Nat /\ MaxRefreshes \in Nat
    /\ Faults \in BOOLEAN
    /\ NoJob \notin Requests

VARIABLES
    status,      \* rebuild_jobs.status, "none" while there is no row
    maxMem,      \* .max_memory
    cancelReq,   \* .cancel_requested_at is set
    order,       \* the jobs by created_at
    ripe,        \* the jobs whose debounce has passed
    pc,          \* where each web request is
    target,      \* the pending job it read
    cancelPc,    \* the status a cancel of the job read, "none" without one
    refreshing,  \* sessions with a running refresh
    refreshes,
    wpc,         \* where the worker is
    wjob,        \* its job
    wmax,        \* whether it builds in max-memory mode
    result,      \* how the build ended
    runsLeft,    \* containers the build still has to run
    containers,  \* the build containers alive, by job
    builds,      \* build folders ever made: the clock their names come from
    stamp,       \* the name of the job's folder, a timestamp
    folders,     \* the build folders on disk
    whole,       \* the folders whose build was complete
    current,     \* the folder `current` links to
    marker,      \* .max-mem-stopped exists
    servicesUp,  \* the services a max-memory build stops, all of them up
    leftDown,    \* history: the last restart gave up on some, its error log names them
    crashes,     \* its crashes and exceptions so far
    unbuilt,     \* files no build has started on since, nor an operator withdrew
    withdrawn    \* jobs cancelled while they were pending

jobVars == <<status, maxMem, cancelReq, order, ripe>>
webVars == <<pc, target, cancelPc, refreshing, refreshes>>
workerVars == <<wpc, wjob, wmax, result, runsLeft>>
diskVars == <<containers, builds, stamp, folders, whole, current,
              marker, servicesUp, leftDown, crashes>>
history == <<unbuilt, withdrawn>>
vars == <<jobVars, webVars, workerVars, diskVars, history>>

Statuses == {"none", "pending", "running", "done", "failed", "cancelled"}

Init ==
    /\ status = [j \in Requests |-> "none"]
    /\ maxMem = [j \in Requests |-> FALSE]
    /\ cancelReq = [j \in Requests |-> FALSE]
    /\ order = <<>> /\ ripe = {}
    /\ pc = [r \in Requests |-> "idle"]
    /\ target = [r \in Requests |-> NoJob]
    /\ cancelPc = [j \in Requests |-> "none"]
    /\ refreshing = {} /\ refreshes = 0
    /\ wpc = "orphans" /\ wjob = NoJob /\ wmax = FALSE
    /\ result = "none" /\ runsLeft = 0
    /\ containers = {} /\ folders = {} /\ whole = {}
    /\ builds = 0 /\ stamp = [j \in Requests |-> 0]
    /\ current = [s \in Sessions |-> NoJob]
    /\ marker = FALSE /\ servicesUp = TRUE /\ leftDown = FALSE /\ crashes = 0
    /\ unbuilt = {} /\ withdrawn = {}

PendingOf(s) == {j \in Requests : status[j] = "pending" /\ SessionOf[j] = s}

-----------------------------------------------------------------------------
(* The web requests *)

\* ingestion.place: the file is in its slot before anything is queued.
Place(r) ==
    /\ r \in Files /\ pc[r] = "idle"
    /\ pc' = [pc EXCEPT ![r] = "queue"]
    /\ unbuilt' = unbuilt \cup {r}
    /\ UNCHANGED <<jobVars, target, cancelPc, refreshing, refreshes,
                   workerVars, diskVars, withdrawn>>

\* enqueue_rebuild: a manual request past its checks.
Ask(r) ==
    /\ r \notin Files /\ pc[r] = "idle"
    /\ pc' = [pc EXCEPT ![r] = "queue"]
    /\ UNCHANGED <<jobVars, target, cancelPc, refreshing, refreshes,
                   workerVars, diskVars, history>>

\* wants_max_memory, or the box of a manual request.
Wants(r) == r \in Checked \/ SessionOf[r] \in AlwaysMax

\* _enqueue_rebuild: a pending job of the session takes the request.
Coalesced_Unfinished(s) ==
    {j \in Requests : status[j] \in {"pending", "running"} /\ SessionOf[j] = s}
Coalesced(s) == PendingOf(s)

ReadPending(r) ==
    /\ pc[r] = "queue"
    /\ LET found == Coalesced(SessionOf[r]) IN
       \/ /\ found = {}
          /\ pc' = [pc EXCEPT ![r] = "insert"]
          /\ UNCHANGED target
       \/ \E j \in found :
          IF Wants(r) /\ ~maxMem[j]
          THEN /\ pc' = [pc EXCEPT ![r] = "upgrade"]
               /\ target' = [target EXCEPT ![r] = j]
          ELSE /\ pc' = [pc EXCEPT ![r] = "over"]
               /\ UNCHANGED target
    /\ UNCHANGED <<jobVars, cancelPc, refreshing, refreshes,
                   workerVars, diskVars, history>>

Insert(r) ==
    /\ pc[r] = "insert"
    /\ pc' = [pc EXCEPT ![r] = "over"]
    /\ status' = [status EXCEPT ![r] = "pending"]
    /\ maxMem' = [maxMem EXCEPT ![r] = Wants(r)]
    /\ order' = Append(order, r)
    /\ UNCHANGED <<cancelReq, ripe, target, cancelPc, refreshing, refreshes,
                   workerVars, diskVars, history>>

Upgrade(r) ==
    /\ pc[r] = "upgrade"
    /\ pc' = [pc EXCEPT ![r] = "over"]
    /\ maxMem' = [maxMem EXCEPT ![target[r]] = TRUE]
    /\ UNCHANGED <<status, cancelReq, order, ripe, target, cancelPc,
                   refreshing, refreshes, workerVars, diskVars, history>>

\* cancel_rebuild reads the row (a finished job answers 409) ...
CancelRead(j) ==
    /\ cancelPc[j] = "none"
    /\ status[j] \in {"pending", "running"}
    /\ cancelPc' = [cancelPc EXCEPT ![j] = status[j]]
    /\ UNCHANGED <<jobVars, pc, target, refreshing, refreshes,
                   workerVars, diskVars, history>>

\* ... and commits by what it read. A pending job that is really withdrawn takes
\* with it the files that waited for it.
CancelCommit(j) ==
    /\ cancelPc[j] # "none"
    /\ cancelPc' = [cancelPc EXCEPT ![j] = "none"]
    /\ IF cancelPc[j] = "pending"
       THEN /\ status' = [status EXCEPT ![j] = "cancelled"]
            /\ UNCHANGED cancelReq
            /\ IF status[j] = "pending"
               THEN /\ withdrawn' = withdrawn \cup {j}
                    /\ unbuilt' =
                         IF PendingOf(SessionOf[j]) = {j}
                         THEN {r \in unbuilt : SessionOf[r] # SessionOf[j]
                                               \/ pc[r] \in {"queue", "insert"}}
                         ELSE unbuilt
               ELSE UNCHANGED history
       ELSE /\ cancelReq' = [cancelReq EXCEPT ![j] = TRUE]
            /\ UNCHANGED <<status, history>>
    /\ UNCHANGED <<maxMem, order, ripe, pc, target, refreshing, refreshes,
                   workerVars, diskVars>>

\* refresh_progress.running_for, seen from here.
RefreshStarts(s) ==
    /\ s \notin refreshing /\ refreshes < MaxRefreshes
    /\ refreshing' = refreshing \cup {s}
    /\ refreshes' = refreshes + 1
    /\ UNCHANGED <<jobVars, pc, target, cancelPc, workerVars, diskVars, history>>

RefreshEnds(s) ==
    /\ s \in refreshing
    /\ refreshing' = refreshing \ {s}
    /\ UNCHANGED <<jobVars, pc, target, cancelPc, refreshes,
                   workerVars, diskVars, history>>

\* The debounce runs from created_at: jobs pass it in their order.
Ripen ==
    /\ \E i \in 1 .. Len(order) :
          /\ order[i] \notin ripe
          /\ \A k \in 1 .. (i - 1) : order[k] \in ripe
          /\ ripe' = ripe \cup {order[i]}
    /\ UNCHANGED <<status, maxMem, cancelReq, order,
                   webVars, workerVars, diskVars, history>>

-----------------------------------------------------------------------------
(* The worker: startup *)

\* _mark_orphaned_rebuild_jobs; its failure does not stop the start.
MarkOrphans ==
    /\ wpc = "orphans"
    /\ wpc' = "kill"
    /\ \/ status' = [j \in Requests |->
                        IF status[j] = "running" THEN "failed" ELSE status[j]]
       \/ UNCHANGED status
    /\ UNCHANGED <<maxMem, cancelReq, order, ripe, webVars, wjob, wmax, result,
                   runsLeft, diskVars, history>>

\* _kill_orphaned_build_containers: none is killed when docker ps fails.
Surviving_All == {containers}
Surviving == IF Faults THEN {{}, containers} ELSE {{}}

KillOrphans ==
    /\ wpc = "kill"
    /\ wpc' = "recover"
    /\ containers' \in Surviving
    /\ UNCHANGED <<jobVars, webVars, wjob, wmax, result, runsLeft, folders, whole,
                   current, marker, servicesUp, leftDown, crashes, builds, stamp,
                   history>>

\* _start_services: all come back; some do not, and the error log names them with
\* the command for the host; or compose ps cannot be asked (_not_running is empty)
\* and they stay down unnamed. The marker is unlinked after any of the three.
Restarts == {"up", "named"} \cup (IF Faults THEN {"unseen"} ELSE {})

StartServices ==
    /\ marker' = FALSE
    /\ \E end \in Restarts :
          /\ servicesUp' = (servicesUp \/ end = "up")
          /\ leftDown' = (~servicesUp /\ end = "named")

\* An exception, counted with the crashes.
Raises ==
    /\ crashes < MaxCrashes
    /\ crashes' = crashes + 1

\* docker cannot be run, or the marker cannot be unlinked: it stays.
StartRaises ==
    /\ Raises
    /\ servicesUp' \in {servicesUp, TRUE}
    /\ UNCHANGED <<marker, leftDown>>

\* _recover_max_memory_stopped; whatever it raises is logged.
Recover ==
    /\ wpc = "recover"
    /\ wpc' = "tick"
    /\ \/ /\ IF marker THEN StartServices ELSE UNCHANGED <<marker, servicesUp, leftDown>>
          /\ UNCHANGED crashes
       \/ marker /\ StartRaises
    /\ UNCHANGED <<jobVars, webVars, wjob, wmax, result, runsLeft, containers,
                   folders, whole, current, builds, stamp, history>>

-----------------------------------------------------------------------------
(* The worker: one tick *)

\* The worker leaves its job, for its loop or for good.
Leave(where) ==
    wpc' = where /\ wjob' = NoJob /\ wmax' = FALSE /\ result' = "none" /\ runsLeft' = 0
Idle == Leave("tick")

\* _next_pending_job: the oldest of the pending jobs no refresh holds back.
Eligible_Unfinished(j) ==
    status[j] \in {"pending", "running"} /\ SessionOf[j] \notin refreshing
Eligible(j) == status[j] = "pending" /\ SessionOf[j] \notin refreshing

NextPendingJob(j) ==
    \E i \in 1 .. Len(order) :
        /\ order[i] = j /\ Eligible(j)
        /\ \A k \in 1 .. (i - 1) : ~Eligible(order[k])

Select(j) ==
    /\ wpc = "tick" /\ NextPendingJob(j) /\ j \in ripe
    /\ wpc' = "claim"
    /\ wjob' = j
    /\ wmax' = (maxMem[j] \/ SessionOf[j] \in AlwaysMax)
    /\ UNCHANGED <<jobVars, webVars, result, runsLeft, diskVars, history>>

\* The conditional claim: a cancel committed since, or a refresh begun, wins.
MayClaim_AnyStatus == SessionOf[wjob] \notin refreshing
MayClaim == status[wjob] = "pending" /\ SessionOf[wjob] \notin refreshing

Claim ==
    /\ wpc = "claim" /\ MayClaim
    /\ wpc' = "prepare"
    /\ status' = [status EXCEPT ![wjob] = "running"]
    /\ maxMem' = [maxMem EXCEPT ![wjob] = wmax]
    /\ runsLeft' = IF SessionOf[wjob] \in Motis THEN 2 ELSE 1
    /\ unbuilt' = {r \in unbuilt : SessionOf[r] # SessionOf[wjob]}
    /\ UNCHANGED <<cancelReq, order, ripe, webVars, wjob, wmax, result, diskVars,
                   withdrawn>>

NotClaimed ==
    /\ wpc = "claim" /\ ~MayClaim
    /\ Idle
    /\ UNCHANGED <<jobVars, webVars, diskVars, history>>

\* _run_engine_build: the station module's upload and wait see the cancel, or a
\* MOTIS input is missing: the job ends with no container and no folder.
NotBuilt ==
    /\ wpc = "prepare"
    /\ cancelReq[wjob] \/ SessionOf[wjob] \in Motis
    /\ wpc' = "record" /\ result' = "failed"
    /\ UNCHANGED <<jobVars, webVars, wjob, wmax, runsLeft, diskVars, history>>

\* The build's own folder; a max-memory build goes on to stop the services.
MakeFolder ==
    /\ wpc = "prepare"
    /\ builds' = builds + 1
    /\ stamp' = [stamp EXCEPT ![wjob] = builds + 1]
    /\ folders' = folders \cup {wjob}
    /\ wpc' = IF wmax THEN "mark" ELSE "run"
    /\ UNCHANGED <<jobVars, webVars, wjob, wmax, result, runsLeft, containers,
                   whole, current, marker, servicesUp, leftDown, crashes, history>>

\* An exception outside the build's try, before it or in the last write of tick:
\* the row stays `running`.
TickRaises ==
    /\ wpc \in {"prepare", "mark", "record"}
    /\ Raises /\ Idle
    /\ UNCHANGED <<jobVars, webVars, containers, folders, whole, current, marker,
                   servicesUp, leftDown, builds, stamp, history>>

\* The marker names the services before they stop.
MarkStopped ==
    /\ wpc = "mark"
    /\ wpc' = "stop"
    /\ marker' \in IF Faults THEN BOOLEAN ELSE {TRUE}
    /\ UNCHANGED <<jobVars, webVars, wjob, wmax, result, runsLeft, containers,
                   folders, whole, current, servicesUp, leftDown, crashes, builds, stamp,
                   history>>

\* _stop_services, outside the build's try: an exception leaves tick at once,
\* before or after the stop.
StopServices ==
    /\ wpc = "stop"
    /\ leftDown' = FALSE
    /\ \/ /\ wpc' = "run" /\ servicesUp' = FALSE
          /\ UNCHANGED <<wjob, wmax, result, runsLeft, crashes>>
       \/ Raises /\ Idle /\ servicesUp' \in {servicesUp, FALSE}
    /\ UNCHANGED <<jobVars, webVars, containers, folders, whole, current, marker,
                   builds, stamp, history>>

\* docker run: the build's only container, or MOTIS's config and then its import.
RunContainer ==
    /\ wpc = "run"
    /\ wpc' = "wait"
    /\ containers' = containers \cup {wjob}
    /\ runsLeft' = runsLeft - 1
    /\ UNCHANGED <<jobVars, webVars, wjob, wmax, result, folders, whole, current,
                   marker, servicesUp, leftDown, crashes, builds, stamp,
                   history>>

ContainerSucceeds ==
    /\ wpc = "wait"
    /\ containers' = containers \ {wjob}
    /\ wpc' = IF runsLeft > 0 THEN "run" ELSE "unlink"
    /\ whole' = IF runsLeft > 0 THEN whole ELSE whole \cup {wjob}
    /\ UNCHANGED <<jobVars, webVars, wjob, wmax, result, runsLeft, folders, current,
                   marker, servicesUp, leftDown, crashes, builds, stamp,
                   history>>

\* It fails by itself (or leaves no graph), or _watch_for_cancel kills it.
ContainerFails ==
    /\ wpc = "wait"
    /\ containers' = containers \ {wjob}
    /\ wpc' = "finally" /\ result' = "failed"
    /\ UNCHANGED <<jobVars, webVars, wjob, wmax, runsLeft, folders, whole, current,
                   marker, servicesUp, leftDown, crashes, builds, stamp,
                   history>>

\* `current` is unlinked, then linked to the new folder.
Unlink ==
    /\ wpc = "unlink"
    /\ wpc' = "link"
    /\ current' = [current EXCEPT ![SessionOf[wjob]] = NoJob]
    /\ UNCHANGED <<jobVars, webVars, wjob, wmax, result, runsLeft, containers,
                   folders, whole, marker, servicesUp, leftDown, crashes, builds, stamp,
                   history>>

Link ==
    /\ wpc = "link"
    /\ wpc' = "prune"
    /\ current' = [current EXCEPT ![SessionOf[wjob]] = wjob]
    /\ UNCHANGED <<jobVars, webVars, wjob, wmax, result, runsLeft, containers,
                   folders, whole, marker, servicesUp, leftDown, crashes, builds, stamp,
                   history>>

\* _prune_old_graphs: the newest KeepGraphs folders of the session stay.
Newer(j) ==
    {k \in folders : SessionOf[k] = SessionOf[j] /\ stamp[k] > stamp[j]}

Kept(j) == SessionOf[j] = SessionOf[wjob] => Cardinality(Newer(j)) < KeepGraphs

Prune ==
    /\ wpc = "prune"
    /\ wpc' = "finally" /\ result' = "done"
    /\ folders' = {j \in folders : Kept(j)}
    /\ UNCHANGED <<jobVars, webVars, wjob, wmax, runsLeft, containers, whole, current,
                   marker, servicesUp, leftDown, crashes, builds, stamp,
                   history>>

\* An exception while docker is run, the graph is moved and linked or the old ones
\* are pruned.
BuildRaises ==
    /\ wpc \in {"run", "unlink", "link", "prune"}
    /\ Raises
    /\ wpc' = "finally" /\ result' = "raised"
    /\ UNCHANGED <<jobVars, webVars, wjob, wmax, runsLeft, containers, folders, whole,
                   current, marker, servicesUp, leftDown, builds, stamp, history>>

\* _discard_failed_build: never the folder `current` links to.
Discarded_Always == result # "done"
Discarded == result # "done" /\ current[SessionOf[wjob]] # wjob

\* The finally of the build: the folder of a failed one goes, the services are
\* started again; an exception of that leaves tick, whatever the build's result.
Finally ==
    /\ wpc = "finally"
    /\ folders' = IF Discarded THEN folders \ {wjob} ELSE folders
    /\ \/ /\ IF wmax THEN StartServices ELSE UNCHANGED <<marker, servicesUp, leftDown>>
          /\ UNCHANGED crashes
          /\ IF result = "raised"
             THEN Idle
             ELSE wpc' = "record" /\ UNCHANGED <<wjob, wmax, result, runsLeft>>
       \/ wmax /\ StartRaises /\ Idle
    /\ UNCHANGED <<jobVars, webVars, containers, whole, current, builds, stamp,
                   history>>

\* _final_status, written whatever the row says by now.
FinalStatus ==
    IF result = "done" THEN "done"
    ELSE IF cancelReq[wjob] THEN "cancelled" ELSE "failed"

Record ==
    /\ wpc = "record"
    /\ status' = [status EXCEPT ![wjob] = FinalStatus]
    /\ Idle
    /\ UNCHANGED <<maxMem, cancelReq, order, ripe, webVars, diskVars, history>>

\* The worker dies wherever it is; its container goes on, and may end unread.
Crash ==
    /\ wpc # "down" /\ Raises
    /\ Leave("down")
    /\ UNCHANGED <<jobVars, webVars, containers, folders, whole, current, marker,
                   servicesUp, leftDown, builds, stamp, history>>

OrphanEnds ==
    /\ \E j \in containers \ {wjob} : containers' = containers \ {j}
    /\ UNCHANGED <<jobVars, webVars, workerVars, folders, whole, current, marker,
                   servicesUp, leftDown, crashes, builds, stamp,
                   history>>

Restart ==
    /\ wpc = "down"
    /\ wpc' = "orphans"
    /\ UNCHANGED <<jobVars, webVars, wjob, wmax, result, runsLeft, diskVars, history>>

-----------------------------------------------------------------------------
Request(r) == Place(r) \/ Ask(r) \/ ReadPending(r) \/ Insert(r) \/ Upgrade(r)

Startup == Restart \/ MarkOrphans \/ KillOrphans \/ Recover

Build == \/ Claim \/ NotClaimed \/ NotBuilt \/ MakeFolder \/ TickRaises
         \/ MarkStopped \/ StopServices
         \/ RunContainer \/ ContainerSucceeds \/ ContainerFails
         \/ Unlink \/ Link \/ Prune \/ BuildRaises \/ Finally \/ Record

Tick == (\E j \in Requests : Select(j)) \/ Build

Next ==
    \/ \E r \in Requests : Request(r) \/ CancelRead(r) \/ CancelCommit(r)
    \/ \E s \in Sessions : RefreshStarts(s) \/ RefreshEnds(s)
    \/ Ripen \/ Startup \/ Tick \/ Crash \/ OrphanEnds

Spec == Init /\ [][Next]_vars

\* The worker's loop goes on and starts again (restart: unless-stopped), a
\* refresh ends (its lease, RefreshProgress), time passes. Nothing is assumed of
\* requests, cancels and crashes.
FairSpec ==
    /\ Spec
    /\ WF_vars(Startup) /\ WF_vars(Tick) /\ WF_vars(Ripen)
    /\ \A s \in Sessions : WF_vars(RefreshEnds(s))

-----------------------------------------------------------------------------
(* Properties *)

JobTypes ==
    /\ status \in [Requests -> Statuses]
    /\ maxMem \in [Requests -> BOOLEAN] /\ cancelReq \in [Requests -> BOOLEAN]
    /\ order \in Seq(Requests) /\ ripe \subseteq Requests
WebTypes ==
    /\ pc \in [Requests -> {"idle", "queue", "insert", "upgrade", "over"}]
    /\ target \in [Requests -> Requests \cup {NoJob}]
    /\ cancelPc \in [Requests -> {"none", "pending", "running"}]
    /\ refreshing \subseteq Sessions /\ refreshes \in 0 .. MaxRefreshes
WorkerTypes ==
    /\ wpc \in {"down", "orphans", "kill", "recover", "tick", "claim", "prepare",
                "mark", "stop", "run", "wait", "unlink", "link", "prune",
                "finally", "record"}
    /\ wjob \in Requests \cup {NoJob} /\ wmax \in BOOLEAN
    /\ result \in {"none", "failed", "raised", "done"} /\ runsLeft \in 0 .. 2
DiskTypes ==
    /\ containers \subseteq Requests /\ folders \subseteq Requests
    /\ builds \in Nat /\ stamp \in [Requests -> Nat]
    /\ whole \subseteq Requests /\ current \in [Sessions -> Requests \cup {NoJob}]
    /\ marker \in BOOLEAN /\ servicesUp \in BOOLEAN /\ leftDown \in BOOLEAN
    /\ crashes \in 0 .. MaxCrashes

\* The rows, the requests and the worker keep their types, the status the CHECK
\* constraint of rebuild_jobs included.
TypeOK ==
    /\ JobTypes /\ WebTypes /\ WorkerTypes /\ DiskTypes
    /\ unbuilt \subseteq Files /\ withdrawn \subseteq Requests

\* A placed file is never forgotten: until a build starts after it, or an operator
\* cancels the job that waited for it, its request is still about to queue a job
\* or a job of its session is pending (_enqueue_rebuild coalesces into it).
PlacedIsNotForgotten ==
    \A r \in unbuilt :
        pc[r] \in {"queue", "insert"} \/ PendingOf(SessionOf[r]) # {}

\* A cancel that reached the row of a pending job wins over starting it: no folder,
\* no container, and the row stays cancelled (the claim of tick is conditional).
CancelWins ==
    \A j \in withdrawn :
        /\ status[j] = "cancelled"
        /\ j \notin containers /\ j \notin folders

\* At most one build container is alive, whenever the worker dies and restarts.
OneBuildAtATime == Cardinality(containers) <= 1

\* `current` never links to a half-built folder, a deleted one, or another session's.
CurrentIsWhole ==
    \A s \in Sessions :
        current[s] # NoJob =>
            /\ current[s] \in whole
            /\ SessionOf[current[s]] = s
            /\ current[s] \in folders

\* Services stopped for a max-memory build are not forgotten: a crash or an exception
\* at any step of the build, its end or the recovery leaves the marker that names them
\* to the next worker, until a restart has brought them back or logged the ones that
\* stay down for the operator (_start_services, _recover_max_memory_stopped).
StoppedAreRemembered ==
    ~servicesUp => marker \/ leftDown

\* Every pending job is claimed or cancelled in the end, behind whatever failed,
\* raised or was left running before it.
PendingIsTaken ==
    \A j \in Requests : status[j] = "pending" ~> status[j] # "pending"

\* A worker that died between any two steps of a build, and is started again, neither builds
\* twice at once nor forgets the services it had stopped for the build: each is up, named in the
\* marker, or reported as down.
BuildsAreSafe == TypeOK /\ OneBuildAtATime /\ StoppedAreRemembered
==============================================================================
