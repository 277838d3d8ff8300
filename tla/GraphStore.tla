------------------------------ MODULE GraphStore ------------------------------
(***************************************************************************)
(* The graphs volume of one session: builds that publish a folder and move *)
(* the `current` link (app/worker.py), the snapshot row written after them *)
(* (app/graph_snapshots.py), the copies of timetable files kept for MOTIS, *)
(* and the storage page's clean-up, which deletes what a scan finds unused *)
(* (app/storage.py, app/api/admin/storage.py).                             *)
(*                                                                         *)
(* A clean-up request reads the database first (which sessions exist,      *)
(* which have a running job), walks the disk after it, and deletes what    *)
(* the operator picked from an earlier report if it is still a candidate.  *)
(* The session may be deleted, and made again under the same id.           *)
(***************************************************************************)
EXTENDS Naturals, FiniteSets

CONSTANTS
    MaxBuilds,      \* bound on builds; a build folder is named by its number
    Keep,           \* _prune_old_graphs keep=
    MaxInputs,      \* bound on the versions of the timetable file
    MaxScans, MaxDeletions, MaxDeaths,
    NoBuild

Builds == 1..MaxBuilds

ASSUME StoreAssumption ==
    /\ MaxBuilds \in Nat /\ Keep \in Nat \ {0} /\ MaxInputs \in Nat \ {0}
    /\ MaxScans \in Nat /\ MaxDeletions \in Nat /\ MaxDeaths \in Nat
    /\ NoBuild \notin Builds

VARIABLES
    known,      \* the session row exists
    busy,       \* a rebuild_jobs row of it is `running`
    stuck,      \* one of these is of a tick that raised
    folder,     \* each build's folder: "none", "partial", "complete"
    current,    \* the link
    snapshot,   \* the build of the is_current graph_snapshots row
    unrecorded, \* history: since that row a build moved the link and left no row
    input,      \* the version of the timetable file in the inbox
    copy,       \* the MOTIS copy: the version it was made from, and how far
    marker,     \* the version its .source marker names, 0 without one
    named,      \* the last folder name given out
    build,      \* the worker: where it is, its folder, the version it stat'ed
    report,     \* the candidates the storage page shows
    request,    \* the scan or deletion under way
    inherited,    \* history: a deleted session left a build or folders behind
    engine,     \* which engine the session builds for
    scans, deletions, deaths

storeVars == <<known, busy, stuck, folder, current, snapshot, unrecorded, input, copy, marker,
               named, build, report, request, inherited, engine, scans, deletions, deaths>>

Row == <<known, busy, stuck>>
Recorded == <<snapshot, unrecorded>>
Disk == <<folder, current>>
Copies == <<copy, marker, named>>
Cleaning == <<report, request>>
Counts == <<inherited, engine, scans, deletions, deaths>>

Idle == [pc |-> "idle", dir |-> NoBuild, key |-> 0, read |-> 0]
NoRequest == [pc |-> "none", ids |-> {}, known |-> FALSE, busy |-> FALSE, found |-> {}]

StoreInit ==
    /\ known = TRUE /\ busy = FALSE /\ stuck = FALSE
    /\ folder = [b \in Builds |-> "none"] /\ current = NoBuild
    /\ snapshot = NoBuild /\ unrecorded = FALSE
    /\ input = 1 /\ copy = [of |-> 0, whole |-> FALSE] /\ marker = 0 /\ named = 0
    /\ build = Idle /\ report = {} /\ request = NoRequest
    /\ inherited = FALSE /\ engine \in {"otp", "motis"}
    /\ scans = 0 /\ deletions = 0 /\ deaths = 0

-----------------------------------------------------------------------------
(* A build *)

Built == {b \in Builds : folder[b] # "none"}

\* The job is committed as running; then its folder is made, named by the
\* clock: no two builds share a name, and a later one sorts after.
ClaimJob ==
    /\ build.pc = "idle" /\ known /\ named < MaxBuilds
    /\ build' = [build EXCEPT !.pc = "claimed"] /\ busy' = TRUE
    /\ UNCHANGED <<known, stuck, Disk, Recorded, input, Copies, Cleaning, Counts>>

MakeBuildDir ==
    /\ build.pc = "claimed" /\ named' = named + 1
    /\ folder' = [folder EXCEPT ![named'] = "partial"]
    /\ build' = [build EXCEPT !.pc = "stat", !.dir = named']
    /\ UNCHANGED <<Row, current, Recorded, input, copy, marker, Cleaning, Counts>>

\* _motis_timetable_path: the copy is made again when its marker is not of the
\* file as it is now ...
StatInput ==
    /\ build.pc = "stat"
    /\ IF marker = input
       THEN build' = [build EXCEPT !.pc = "run", !.key = input, !.read = copy.of]
            /\ UNCHANGED <<copy, marker>>
       ELSE build' = [build EXCEPT !.pc = "copy", !.key = input]
            /\ copy' = [of |-> 0, whole |-> FALSE] /\ UNCHANGED marker
    /\ UNCHANGED <<Row, Disk, Recorded, input, named, Cleaning, Counts>>

\* ... from whatever the file is by then ...
BeginCopy ==
    /\ build.pc = "copy" /\ copy' = [of |-> input, whole |-> FALSE]
    /\ build' = [build EXCEPT !.pc = "copying"]
    /\ UNCHANGED <<Row, Disk, Recorded, input, marker, named, Cleaning, Counts>>

EndCopy ==
    /\ build.pc = "copying"
    /\ copy' = [copy EXCEPT !.whole = TRUE] /\ build' = [build EXCEPT !.pc = "mark"]
    /\ UNCHANGED <<Row, Disk, Recorded, input, marker, named, Cleaning, Counts>>

\* ... and, when that raises, the build reads the file itself.
CopyRaises ==
    /\ build.pc = "copying" /\ build' = [build EXCEPT !.pc = "run", !.read = input]
    /\ UNCHANGED <<Row, Disk, Recorded, input, Copies, Cleaning, Counts>>

WriteMarker ==
    /\ build.pc = "mark" /\ marker' = build.key
    /\ build' = [build EXCEPT !.pc = "run", !.read = copy.of]
    /\ UNCHANGED <<Row, Disk, Recorded, input, copy, named, Cleaning, Counts>>

\* _discard_failed_build: unless the link names it.
Discard == folder' = IF build.dir = current THEN folder
                     ELSE [folder EXCEPT ![build.dir] = "none"]

\* The container fails, or left no graph.
BuildFails ==
    /\ build.pc = "run" /\ Discard /\ build' = [build EXCEPT !.pc = "failed"]
    /\ UNCHANGED <<Row, current, Recorded, input, Copies, Cleaning, Counts>>

BuildSucceeds ==
    /\ build.pc = "run" /\ folder[build.dir] = "partial"
    /\ folder' = [folder EXCEPT ![build.dir] = "complete"]
    /\ build' = [build EXCEPT !.pc = "unlink"]
    /\ UNCHANGED <<Row, current, Recorded, input, Copies, Cleaning, Counts>>

UnlinkCurrent ==
    /\ build.pc = "unlink" /\ current' = NoBuild /\ build' = [build EXCEPT !.pc = "link"]
    /\ UNCHANGED <<Row, folder, Recorded, input, Copies, Cleaning, Counts>>

LinkCurrent ==
    /\ build.pc = "link" /\ Built # {}
    /\ build' = [build EXCEPT !.pc = "prune"] /\ current' = build.dir
    /\ UNCHANGED <<Row, folder, Recorded, input, Copies, Cleaning, Counts>>

\* Mutant: the oldest are kept.
PruneNewest ==
    /\ build.pc = "prune" /\ build' = [build EXCEPT !.pc = "record"]
    /\ folder' = [b \in Builds |->
                    IF Cardinality({c \in Built : c < b}) < Keep THEN folder[b] ELSE "none"]
    /\ UNCHANGED <<Row, current, Recorded, input, Copies, Cleaning, Counts>>

\* _prune_old_graphs, _prune_old_motis_imports
Prune ==
    /\ build.pc = "prune" /\ build' = [build EXCEPT !.pc = "record"]
    /\ folder' = [b \in Builds |->
                    IF Cardinality({c \in Built : c > b}) < Keep THEN folder[b] ELSE "none"]
    /\ UNCHANGED <<Row, current, Recorded, input, Copies, Cleaning, Counts>>

\* tick, record_snapshot: the prior current row is cleared, the new one is
\* current; the job's status in the same commit. Without the session's row
\* nothing is written.
RecordBuild ==
    /\ build.pc \in {"record", "failed"} /\ build' = Idle /\ busy' = stuck
    /\ IF build.pc = "record" /\ busy
       THEN snapshot' = build.dir /\ unrecorded' = FALSE
       ELSE UNCHANGED Recorded
    /\ UNCHANGED <<known, stuck, Disk, input, Copies, Cleaning, Counts>>

\* A build that ends here, in one of `left`, leaves a link no row is of.
Leaves(left) == unrecorded' = (unrecorded \/ build.pc \in left)

\* A fault of the worker's tick: an exception, or its death.
Fault == deaths < MaxDeaths /\ deaths' = deaths + 1

\* The inputs cannot be read, or their service period: the exception is logged, the
\* job ends as done and the older snapshot stays the current one.
SnapshotFails ==
    /\ build.pc = "record" /\ busy /\ Fault
    /\ build' = Idle /\ busy' = stuck /\ Leaves({"record"})
    /\ UNCHANGED <<known, stuck, Disk, snapshot, input, Copies, Cleaning,
                   inherited, engine, scans, deletions>>

\* An exception leaves the tick, which ends with the job's row `running`: a folder or
\* file cannot be made, moved or deleted, or the last commit fails. Without the
\* session's directory the link cannot be made. The build's finally discards.
TickRaises ==
    /\ build.pc \in {"claimed", "stat", "run", "unlink", "link", "prune", "record", "failed"}
    /\ IF build.pc = "link" /\ Built = {} THEN UNCHANGED deaths ELSE Fault
    /\ build' = Idle /\ stuck' = busy /\ Leaves({"link", "prune", "record"})
    /\ IF build.pc \in {"run", "unlink", "link", "prune"} THEN Discard ELSE UNCHANGED folder
    /\ UNCHANGED <<known, busy, current, snapshot, input, Copies, Cleaning,
                   inherited, engine, scans, deletions>>

\* The worker dies; the next one marks the jobs it finds running as failed.
WorkerDies ==
    /\ build.pc # "idle" /\ Fault
    /\ build' = Idle /\ busy' = FALSE /\ stuck' = FALSE /\ Leaves({"link", "prune", "record"})
    /\ UNCHANGED <<known, Disk, snapshot, input, Copies, Cleaning, inherited, engine, scans, deletions>>

\* The worker is restarted between two ticks.
WorkerRestarts ==
    /\ build.pc = "idle" /\ stuck /\ busy' = FALSE /\ stuck' = FALSE
    /\ UNCHANGED <<known, Disk, Recorded, input, Copies, build, Cleaning, Counts>>

-----------------------------------------------------------------------------
(* The session *)

RefreshInput ==
    /\ known /\ input < MaxInputs /\ input' = input + 1
    /\ UNCHANGED <<Row, Disk, Recorded, Copies, build, Cleaning, Counts>>

\* delete_session: the rows, and the trees it knows of; a MOTIS session's folder
\* (graphs/motis/<sid>) is not among them.
DeleteRow ==
    /\ known /\ deletions < MaxDeletions /\ deletions' = deletions + 1
    /\ known' = FALSE /\ busy' = FALSE /\ stuck' = FALSE
    /\ snapshot' = NoBuild /\ unrecorded' = FALSE
    /\ IF engine = "motis" THEN UNCHANGED Disk
       ELSE folder' = [b \in Builds |-> "none"] /\ current' = NoBuild
    /\ inherited' = (inherited \/ build.pc # "idle" \/ \E b \in Builds : folder'[b] # "none")
    /\ UNCHANGED <<input, Copies, build, Cleaning, engine, scans, deaths>>

CreateAgain ==
    /\ ~known /\ known' = TRUE
    /\ UNCHANGED <<busy, stuck, Disk, Recorded, input, Copies, build, Cleaning, Counts>>

-----------------------------------------------------------------------------
(* The storage page *)

Whole == 0   \* the candidate id of the session's folder

\* scan: an existing, quiet session offers the folders the link does not name;
\* one that no longer exists its whole folder.
Candidates(isKnown, isBusy) ==
    IF ~isKnown THEN IF Built = {} THEN {} ELSE {Whole}
    ELSE IF isBusy THEN {} ELSE Built \ {current}

\* GET, or POST of the ids picked from the report: the rows are read ...
ScanRows(ids) ==
    /\ request.pc = "none" /\ scans < MaxScans /\ scans' = scans + 1
    /\ request' = [pc |-> "walk", ids |-> ids, known |-> known, busy |-> busy, found |-> {}]
    /\ UNCHANGED <<Row, Disk, Recorded, input, Copies, build, report, inherited, engine, deletions,
                   deaths>>

GetStorage == ScanRows({})
PostDelete == \E ids \in SUBSET report \ {{}} : ScanRows(ids)

\* Mutant: what was a candidate is deleted.
WalkTrusting ==
    /\ request.pc = "walk"
    /\ report' = Candidates(request.known, request.busy)
    /\ request' = IF request.ids = {} THEN NoRequest
                  ELSE [request EXCEPT !.pc = "delete", !.found = request.ids]
    /\ UNCHANGED <<Row, Disk, Recorded, input, Copies, build, Counts>>

\* ... the disk is walked ...
WalkDisk ==
    /\ request.pc = "walk"
    /\ report' = Candidates(request.known, request.busy)
    /\ request' = IF request.ids = {} THEN NoRequest
                  ELSE [request EXCEPT !.pc = "delete", !.found = report' \cap request.ids]
    /\ UNCHANGED <<Row, Disk, Recorded, input, Copies, build, Counts>>

\* ... and what was picked and still is a candidate goes, one after the other.
DeleteCandidate(c) ==
    /\ request.pc = "delete" /\ c \in request.found
    /\ request' = [request EXCEPT !.found = @ \ {c}]
    /\ folder' = IF c = Whole THEN [b \in Builds |-> "none"]
                 ELSE [folder EXCEPT ![c] = "none"]
    /\ current' = IF c = Whole THEN NoBuild ELSE current
    /\ UNCHANGED <<Row, Recorded, input, Copies, build, report, Counts>>

DeletionEnds ==
    /\ request.pc = "delete" /\ request.found = {} /\ request' = NoRequest
    /\ UNCHANGED <<Row, Disk, Recorded, input, Copies, build, report, Counts>>

BuildStep ==
    \/ ClaimJob \/ MakeBuildDir
    \/ StatInput \/ BeginCopy \/ EndCopy \/ CopyRaises \/ WriteMarker
    \/ BuildFails \/ BuildSucceeds \/ UnlinkCurrent \/ LinkCurrent \/ Prune
    \/ RecordBuild \/ SnapshotFails \/ TickRaises \/ WorkerDies \/ WorkerRestarts

StoreNext ==
    \/ BuildStep
    \/ RefreshInput \/ DeleteRow \/ CreateAgain
    \/ GetStorage \/ PostDelete \/ WalkDisk
    \/ (\E c \in Builds \cup {Whole} : DeleteCandidate(c)) \/ DeletionEnds

StoreSpec == StoreInit /\ [][StoreNext]_storeVars

-----------------------------------------------------------------------------
(* Properties *)

\* Folders, link, copies and requests hold what the code puts there.
StoreTypeOK ==
    /\ known \in BOOLEAN /\ busy \in BOOLEAN /\ stuck \in BOOLEAN /\ unrecorded \in BOOLEAN
    /\ folder \in [Builds -> {"none", "partial", "complete"}]
    /\ current \in Builds \cup {NoBuild} /\ snapshot \in Builds \cup {NoBuild}
    /\ input \in 1..MaxInputs /\ named \in 0..MaxBuilds /\ marker \in 0..MaxInputs
    /\ copy \in [of : 0..MaxInputs, whole : BOOLEAN]
    /\ report \subseteq Builds \cup {Whole}
    /\ request.found \subseteq request.ids

\* The link names a complete build, through publication, pruning, a clean-up
\* picked from an older report, and a worker that died half-way; unless a
\* deleted session of the same id left a build or its folders behind.
ServedGraphExists ==
    (current # NoBuild /\ ~inherited) => folder[current] = "complete"

\* A clean-up never takes the folder a running job builds in, nor the graph being
\* served, although it reads the rows before it walks the disk.
CleanupSparesBuild ==
    [][\A c \in Builds :
        (request.pc = "delete" /\ request'.found # request.found
            /\ request.known /\ ~inherited /\ folder'[c] # folder[c])
        => ~(busy /\ c = build.dir) /\ c # current]_storeVars

\* The copy a build reads in place of the timetable file is whole, and made from
\* a file no older than the one the build looked at.
CopyIsFresh ==
    (build.pc = "run" /\ marker = build.key) => copy.whole /\ copy.of >= build.key

\* The current snapshot row is never of a later build than the graph being served,
\* and while no build is under way it is of that graph, whatever raised or died,
\* unless a build has since moved the link and could not record itself (again but
\* for what a deleted session left).
SnapshotIsServed ==
    (~inherited /\ snapshot # NoBuild) =>
        /\ current # NoBuild => snapshot <= current
        /\ (build.pc = "idle" /\ ~unrecorded) => snapshot = current
=============================================================================
