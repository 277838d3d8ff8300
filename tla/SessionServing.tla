---------------------------- MODULE SessionServing ----------------------------
(***************************************************************************)
(* How a session comes to serve: its row (app/api/admin/sessions.py), the  *)
(* compose and nginx fragments rendered from the rows                      *)
(* (app/sessions_orchestrator.py), the reload trigger, and the worker that *)
(* applies the fragments to the running stack (app/worker.py).             *)
(*                                                                         *)
(* Promote and delete are transactions that write files before they        *)
(* commit: select, write one fragment, write the other, touch the trigger, *)
(* commit. Delete flushes its DELETE before the SELECT and so holds the    *)
(* row; promote flushes nothing (autoflush is off), its UPDATE leaves with *)
(* the commit. The worker sees only committed rows. A fragment is the set  *)
(* of sessions it names; a container or a route is named by its session.   *)
(***************************************************************************)
EXTENDS Naturals, FiniteSets

CONSTANTS
    SSessions,     \* session ids
    Motis,         \* those whose engine is MOTIS
    WebThreads,    \* requests that can be in flight at once
    PatchStates,   \* the states an operator PATCHes to
    MaxOps,        \* bound on the requests that change a row
    MaxFaults,     \* bound on failures of docker, nginx and rmtree and on crashes
    NoThread, NoSession

SessionStates == {"created", "configured", "populated", "graph_built",
                  "serving", "archived", "deleted"}

ASSUME ServingAssumption ==
    /\ Motis \subseteq SSessions
    /\ PatchStates \subseteq SessionStates
    /\ MaxOps \in Nat /\ MaxFaults \in Nat
    /\ NoThread \notin WebThreads /\ NoSession \notin SSessions

VARIABLES
    sstate,    \* the committed sessions.state, "absent" without a row
    rowLock,   \* the thread whose uncommitted DELETE holds the row
    rpc, rop, rsess,   \* each request: where it is, what it does, to which row
    rview,     \* the serving sessions its SELECT returned
    graphOn,   \* the sessions with a graph folder
    compose, nginxFile,   \* the two fragments
    trigger,   \* .reload-trigger exists
    webUp,
    spc,       \* where the worker is in its loop
    swork,     \* the session of the build it just ended
    seen,      \* the serving sessions it read
    up,        \* the serve containers that exist
    rmFailed,  \* orphans this pass could not remove
    routes,    \* the locations nginx has loaded
    ops, faults,
    unrendered,  \* history: sessions PATCHed to serving, or created under a
                 \* promotion of their id, since a rendering saw them serving
    mixed      \* two renderings overlapped, or the one at boot failed

rowVars == <<sstate, rowLock, graphOn, unrendered>>
reqVars == <<rpc, rop, rsess, rview>>
fileVars == <<compose, nginxFile, trigger, mixed>>
loopVars == <<spc, swork, seen, up, rmFailed, routes>>
servingVars == <<rowVars, reqVars, fileVars, loopVars, webUp, ops, faults>>

\* A fresh deployment, or one where earlier sessions have been built.
ServingInit ==
    /\ sstate \in [SSessions -> {"absent", "graph_built"}]
    /\ rowLock = [s \in SSessions |-> NoThread]
    /\ rpc = [r \in WebThreads |-> "idle"] /\ rop = [r \in WebThreads |-> "none"]
    /\ rsess = [r \in WebThreads |-> NoSession] /\ rview = [r \in WebThreads |-> {}]
    /\ graphOn = {s \in SSessions : sstate[s] = "graph_built"}
    /\ compose = {} /\ nginxFile = {} /\ trigger = FALSE
    /\ webUp = TRUE /\ spc = "idle" /\ swork = NoSession /\ seen = {}
    /\ up = {} /\ rmFailed = {} /\ routes = {}
    /\ ops = 0 /\ faults = 0 /\ unrendered = {} /\ mixed = FALSE

Serving == {s \in SSessions : sstate[s] = "serving"}

\* The locals of a request that is over.
Idle(r) ==
    /\ rpc' = [rpc EXCEPT ![r] = "idle"] /\ rop' = [rop EXCEPT ![r] = "none"]
    /\ rsess' = [rsess EXCEPT ![r] = NoSession] /\ rview' = [rview EXCEPT ![r] = {}]

Free(s) == rowLock[s] = NoThread
Exists(s) == sstate[s] # "absent"

\* A request that commits in one step: it waits for the row's lock.
RowWrite(s, st) ==
    /\ webUp /\ ops < MaxOps /\ ops' = ops + 1
    /\ Free(s)
    /\ sstate' = [sstate EXCEPT ![s] = st]
    /\ UNCHANGED <<rowLock, graphOn, reqVars, fileVars, loopVars, webUp,
                   faults>>

-----------------------------------------------------------------------------
(* Requests on one row *)

\* create_session: an id that exists is refused (409). A promotion that has read the
\* row of a session deleted since will find this one at its commit.
CreateSession(s) ==
    /\ ~Exists(s) /\ RowWrite(s, "created")
    /\ unrendered' = IF \E r \in WebThreads : rop[r] = "promote" /\ rsess[r] = s
                     THEN unrendered \cup {s} ELSE unrendered

\* _add_upload, _mark_providers_refreshed and _finalise_provider_refresh: the
\* first file, uploaded or fetched, moves the session on; a later one, or a
\* refresh that only found its files current, leaves the state alone.
AddUpload(s) ==
    /\ sstate[s] \in {"created", "configured"}
    /\ RowWrite(s, "populated") /\ UNCHANGED unrendered

\* patch_session: any known state, straight into the row; no fragment is
\* rendered and no trigger touched.
PatchSession(s, st) ==
    /\ Exists(s) /\ st # sstate[s] /\ st \in PatchStates
    /\ RowWrite(s, st)
    /\ unrendered' = IF st = "serving" THEN unrendered \cup {s} ELSE unrendered

\* archive_session: files, fragments and trigger are left as they are.
ArchiveSession(s) ==
    /\ Exists(s) /\ RowWrite(s, "archived") /\ UNCHANGED unrendered

-----------------------------------------------------------------------------
(* Promote and delete *)

CanPromote(s) == sstate[s] \in {"graph_built", "serving"}

\* db.get without a lock, and the check of the state it read. Promoting a session
\* read as serving only triggers again: its state does not change.
Begin(r, op, s) ==
    /\ webUp /\ rpc[r] = "idle" /\ ops < MaxOps /\ ops' = ops + 1
    /\ rpc' = [rpc EXCEPT ![r] = IF op = "delete" THEN "flush" ELSE "select"]
    /\ rop' = [rop EXCEPT ![r] = op] /\ rsess' = [rsess EXCEPT ![r] = s]
    /\ UNCHANGED <<rowVars, rview, fileVars, loopVars, webUp, faults>>

PromoteSession(r, s) ==
    /\ CanPromote(s)
    /\ Begin(r, IF sstate[s] = "serving" THEN "retrigger" ELSE "promote", s)
DeleteSession(r, s) == Exists(s) /\ Begin(r, "delete", s)

\* delete_session flushes: the DELETE takes the row; of a row deleted meanwhile it
\* only warns; and a row inserted since that names the session refuses it.
Flush(r) ==
    LET s == rsess[r] IN
    /\ rpc[r] = "flush" /\ Free(s)
    /\ \/ /\ rowLock' = IF Exists(s) THEN [rowLock EXCEPT ![s] = r] ELSE rowLock
          /\ rpc' = [rpc EXCEPT ![r] = "select"]
          /\ UNCHANGED <<rop, rsess, rview>>
       \/ Exists(s) /\ Idle(r) /\ UNCHANGED rowLock
    /\ UNCHANGED <<sstate, graphOn, unrendered, fileVars, loopVars, webUp, ops, faults>>

\* Mutant: the fragments are rendered in a session of their own.
SeesServingCommitted(r) == Serving

\* The rows the SELECT returns, filtered in Python. The session that the request
\* holds is the object it has read and changed (the identity map): promoted, it is
\* seen as serving whatever its row says; flushed as deleted, it is gone.
SeesServing(r) ==
    LET s == rsess[r] IN
    IF rop[r] = "delete"
    THEN Serving \ (IF rowLock[s] = r THEN {s} ELSE {})
    ELSE Serving \cup (IF Exists(s) THEN {s} ELSE {})

Rendering(r) == rpc[r] \in {"compose", "nginx", "files", "trigger", "commit"}

\* regenerate: the SELECT ...
RegenerateSelect(r) ==
    /\ rpc[r] = "select"
    /\ rview' = [rview EXCEPT ![r] = SeesServing(r)]
    /\ rpc' = [rpc EXCEPT ![r] = "compose"]
    /\ unrendered' = unrendered \ SeesServing(r)
    /\ mixed' = \E o \in WebThreads \ {r} : Rendering(o)
    /\ UNCHANGED <<sstate, rowLock, graphOn, rop, rsess, compose, nginxFile,
                   trigger, loopVars, webUp, ops, faults>>

\* ... then each fragment is overwritten with what was selected.
RenderCompose(r) ==
    /\ rpc[r] = "compose" /\ compose' = rview[r]
    /\ rpc' = [rpc EXCEPT ![r] = "nginx"]
    /\ UNCHANGED <<rowVars, rop, rsess, rview, nginxFile, trigger, mixed,
                   loopVars, webUp, ops, faults>>

RenderNginx(r) ==
    /\ rpc[r] = "nginx" /\ nginxFile' = rview[r]
    /\ rpc' = [rpc EXCEPT ![r] = IF rop[r] = "delete" THEN "files" ELSE "trigger"]
    /\ UNCHANGED <<rowVars, rop, rsess, rview, compose, trigger, mixed,
                   loopVars, webUp, ops, faults>>

\* delete_session removes the session's trees, best effort.
RemoveTrees(r) ==
    /\ rpc[r] = "files" /\ rpc' = [rpc EXCEPT ![r] = "trigger"]
    /\ \/ graphOn' = graphOn \ {rsess[r]} /\ UNCHANGED faults
       \/ faults < MaxFaults /\ faults' = faults + 1 /\ UNCHANGED graphOn
    /\ UNCHANGED <<sstate, rowLock, unrendered, rop, rsess, rview, fileVars,
                   loopVars, webUp, ops>>

TouchTrigger(r) ==
    /\ rpc[r] = "trigger" /\ trigger' = TRUE
    /\ rpc' = [rpc EXCEPT ![r] = "commit"]
    /\ UNCHANGED <<rowVars, rop, rsess, rview, compose, nginxFile, mixed,
                   loopVars, webUp, ops, faults>>

\* Only now do the others see the row's new state. The UPDATE of promote waits for
\* the row, and overwrites whatever state was committed meanwhile; that of a row
\* deleted meanwhile raises, after the fragments and the trigger.
Commit(r) ==
    LET s == rsess[r] IN
    /\ rpc[r] = "commit" /\ Idle(r)
    /\ \/ /\ rop[r] = "promote" /\ Free(s)
          /\ sstate' = IF Exists(s) THEN [sstate EXCEPT ![s] = "serving"] ELSE sstate
          /\ unrendered' = IF s \in rview[r] THEN unrendered \ {s} ELSE unrendered
          /\ UNCHANGED rowLock
       \/ /\ rop[r] = "delete" /\ rowLock[s] = r
          /\ sstate' = [sstate EXCEPT ![s] = "absent"]
          /\ rowLock' = [rowLock EXCEPT ![s] = NoThread]
          /\ UNCHANGED unrendered
       \/ /\ rop[r] # "promote" /\ rowLock[s] # r
          /\ UNCHANGED <<sstate, rowLock, unrendered>>
    /\ UNCHANGED <<graphOn, fileVars, loopVars, webUp, ops, faults>>

\* The web process dies: every transaction rolls back, no file does.
WebCrash ==
    /\ webUp /\ faults < MaxFaults /\ faults' = faults + 1
    /\ webUp' = FALSE
    /\ rpc' = [r \in WebThreads |-> "idle"] /\ rop' = [r \in WebThreads |-> "none"]
    /\ rsess' = [r \in WebThreads |-> NoSession] /\ rview' = [r \in WebThreads |-> {}]
    /\ rowLock' = [s \in SSessions |-> NoThread]
    /\ UNCHANGED <<sstate, graphOn, unrendered, fileVars, loopVars, ops>>

\* _startup renders both fragments again; a failure is logged and ignored.
Startup ==
    /\ ~webUp /\ webUp' = TRUE
    /\ \/ /\ compose' = Serving /\ nginxFile' = Serving
          /\ mixed' = FALSE /\ unrendered' = {} /\ UNCHANGED faults
       \/ /\ faults < MaxFaults /\ faults' = faults + 1
          /\ mixed' = TRUE /\ UNCHANGED <<compose, nginxFile, unrendered>>
    /\ UNCHANGED <<sstate, rowLock, graphOn, reqVars, trigger, loopVars, ops>>

-----------------------------------------------------------------------------
(* The worker's loop *)

\* tick: a build succeeded; the row is read ...
BuildEnds(s) ==
    /\ spc = "idle" /\ sstate[s] \in {"populated", "configured"}
    /\ spc' = "built" /\ swork' = s /\ graphOn' = graphOn \cup {s}
    /\ UNCHANGED <<sstate, rowLock, unrendered, reqVars, fileVars, seen, up,
                   rmFailed, routes, webUp, ops, faults>>

\* Mutant: the row is written as if it were still there.
TickCommitBlind ==
    /\ spc = "built" /\ Free(swork)
    /\ spc' = "idle" /\ swork' = NoSession
    /\ sstate' = [sstate EXCEPT ![swork] = "graph_built"]
    /\ UNCHANGED <<rowLock, graphOn, unrendered, reqVars, fileVars, seen, up,
                   rmFailed, routes, webUp, ops, faults>>

\* ... and written with the job's end, whatever it says by then.
TickCommit ==
    /\ spc = "built" /\ Free(swork)
    /\ spc' = "idle" /\ swork' = NoSession
    /\ sstate' = IF Exists(swork) THEN [sstate EXCEPT ![swork] = "graph_built"]
                 ELSE sstate
    /\ UNCHANGED <<rowLock, graphOn, unrendered, reqVars, fileVars, seen, up, rmFailed,
                   routes, webUp, ops, faults>>

\* handle_reload_trigger, _serving_session_services
ReadServing ==
    /\ spc = "idle" /\ trigger
    /\ seen' = Serving /\ rmFailed' = {}
    /\ spc' = IF Serving = {} THEN "orphans" ELSE "up"
    /\ UNCHANGED <<rowVars, reqVars, fileVars, swork, up, routes, webUp, ops,
                   faults>>

\* docker compose up of the services read: refused as a whole when one of them
\* is not in the fragment, and otherwise it may fail after some have started.
\* A failure keeps the trigger for the next tick.
ComposeUp ==
    /\ spc = "up"
    /\ \/ /\ seen \subseteq compose
          /\ up' = up \cup seen /\ spc' = "orphans" /\ UNCHANGED <<seen, faults>>
       \/ /\ ~(seen \subseteq compose)
          /\ spc' = "idle" /\ seen' = {} /\ UNCHANGED <<up, faults>>
       \/ /\ faults < MaxFaults /\ faults' = faults + 1
          /\ \E part \in SUBSET (seen \cap compose) : up' = up \cup part
          /\ spc' = "idle" /\ seen' = {}
    /\ UNCHANGED <<rowVars, reqVars, fileVars, swork, rmFailed, routes, webUp,
                   ops>>

\* OTP containers of sessions not read as serving are removed one by one (a
\* failed removal is only logged); MOTIS ones are never looked at.
Orphans == {s \in up \ Motis : s \notin seen}

RemoveOrphans ==
    /\ spc = "orphans" /\ spc' = "reload"
    /\ \E stuck \in SUBSET Orphans :
         /\ IF stuck = {} THEN UNCHANGED faults
            ELSE faults < MaxFaults /\ faults' = faults + 1
         /\ rmFailed' = stuck
         /\ up' = up \ (Orphans \ stuck)
    /\ UNCHANGED <<rowVars, reqVars, fileVars, swork, seen, routes, webUp, ops>>

PassOver == spc' = "idle" /\ seen' = {} /\ rmFailed' = {}

\* nginx -s reload: a failure keeps the trigger too.
ReloadNginx ==
    /\ spc = "reload"
    /\ \/ /\ routes' = nginxFile /\ spc' = "unlink"
          /\ UNCHANGED <<faults, seen, rmFailed>>
       \/ /\ faults < MaxFaults /\ faults' = faults + 1
          /\ PassOver /\ UNCHANGED routes
    /\ UNCHANGED <<rowVars, reqVars, fileVars, swork, up, webUp, ops>>

\* Mutant: the trigger is never deleted.
UnlinkTriggerForgotten ==
    /\ spc = "unlink" /\ PassOver
    /\ UNCHANGED <<rowVars, reqVars, fileVars, swork, up, routes, webUp, ops,
                   faults>>

\* The trigger of this pass, or one touched since.
UnlinkTrigger ==
    /\ spc = "unlink" /\ trigger' = FALSE /\ PassOver
    /\ UNCHANGED <<rowVars, reqVars, compose, nginxFile, mixed, swork, up,
                   routes, webUp, ops, faults>>

WorkerCrash ==
    /\ spc # "idle" /\ faults < MaxFaults /\ faults' = faults + 1
    /\ PassOver /\ swork' = NoSession
    /\ UNCHANGED <<rowVars, reqVars, fileVars, up, routes, webUp, ops>>

RequestStep(r) ==
    \/ Flush(r) \/ RegenerateSelect(r) \/ RenderCompose(r) \/ RenderNginx(r)
    \/ RemoveTrees(r) \/ TouchTrigger(r) \/ Commit(r)

ReloadStep ==
    TickCommit \/ ReadServing \/ ComposeUp \/ RemoveOrphans \/ ReloadNginx
    \/ UnlinkTrigger

ServingNext ==
    \/ \E s \in SSessions :
         \/ CreateSession(s) \/ AddUpload(s) \/ ArchiveSession(s) \/ BuildEnds(s)
         \/ \E st \in PatchStates : PatchSession(s, st)
         \/ \E r \in WebThreads : PromoteSession(r, s) \/ DeleteSession(r, s)
    \/ \E r \in WebThreads : RequestStep(r)
    \/ WebCrash \/ Startup \/ WorkerCrash
    \/ ReloadStep

\* A request runs to its end unless the process dies, the worker's loop runs
\* on, and the container runtime restarts web.
ServingFairness ==
    /\ \A r \in WebThreads : WF_servingVars(RequestStep(r))
    /\ WF_servingVars(ReloadStep) /\ WF_servingVars(Startup)

ServingSpec == ServingInit /\ [][ServingNext]_servingVars /\ ServingFairness

-----------------------------------------------------------------------------
(* Properties *)

\* Rows, requests, fragments and the worker's loop hold what the code puts there.
ServingTypeOK ==
    /\ sstate \in [SSessions -> SessionStates \cup {"absent"}]
    /\ rowLock \in [SSessions -> WebThreads \cup {NoThread}]
    /\ rpc \in [WebThreads -> {"idle", "flush", "select", "compose", "nginx",
                               "files", "trigger", "commit"}]
    /\ rop \in [WebThreads -> {"none", "promote", "retrigger", "delete"}]
    /\ rsess \in [WebThreads -> SSessions \cup {NoSession}]
    /\ rview \in [WebThreads -> SUBSET SSessions]
    /\ graphOn \subseteq SSessions /\ compose \subseteq SSessions
    /\ nginxFile \subseteq SSessions /\ trigger \in BOOLEAN /\ webUp \in BOOLEAN
    /\ spc \in {"idle", "built", "up", "orphans", "reload", "unlink"}
    /\ swork \in SSessions \cup {NoSession} /\ seen \subseteq SSessions
    /\ up \subseteq SSessions /\ rmFailed \subseteq SSessions
    /\ routes \subseteq SSessions
    /\ ops \in 0..MaxOps /\ faults \in 0..MaxFaults
    /\ unrendered \subseteq SSessions /\ mixed \in BOOLEAN

\* With web up and no promotion or deletion past its SELECT, the two fragments
\* agree, and every serving session is in them but for what `unrendered` and `mixed`
\* name: one an operator set to serving by PATCH (which renders nothing), one deleted
\* and created again under a promotion, and renderings that overlapped. Promote
\* renders from its own uncommitted change whatever is committed to the row
\* meanwhile, delete after its DELETE is flushed, and a crash between two files is
\* repaired by the rendering at boot.
FragmentsFollowRows ==
    (webUp /\ ~mixed /\ \A r \in WebThreads : ~Rendering(r)) =>
        /\ compose = nginxFile
        /\ Serving \ unrendered \subseteq compose

\* When a pass of handle_reload_trigger is about to delete the trigger, every
\* session it read as serving has its container, and no OTP container of any
\* other is left except one whose removal failed: a failed step kept the
\* trigger for the next tick.
PassIsApplied ==
    spc = "unlink" =>
        /\ seen \subseteq up
        /\ (up \ Motis) \ seen \subseteq rmFailed

\* A deleted session is never brought back by a request or a build that read
\* its row before: only create_session inserts a row.
DeletedStaysDeleted ==
    [][\A s \in SSessions : ~Exists(s) => sstate'[s] \in {"absent", "created"}]_servingVars

\* A touched trigger is consumed in the end, unless a serving session has no
\* service in the compose fragment: then every pass fails on `compose up`.
TriggerIsConsumed == trigger ~> (~trigger \/ ~(Serving \subseteq compose))

\* What promote_session documents: the container of a session whose state is
\* serving comes up, eventually, unless the session stops being one.
ServingComesUp ==
    \A s \in SSessions : sstate[s] = "serving" ~> (s \in up \/ sstate[s] # "serving")

\* The fragments follow the sessions' rows, and a reload pass has applied what it read before
\* it deletes the trigger.
ServingFollowsRows == ServingTypeOK /\ FragmentsFollowRows /\ PassIsApplied
=============================================================================
