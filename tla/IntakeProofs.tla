------------------------------ MODULE IntakeProofs -----------------------------
(***************************************************************************)
(* Proofs about what handles a session's files: the graph store            *)
(* (GraphStore), the shared OSM file (OsmRefresh), the feed slots          *)
(* (FeedIntake), a download and the resolvers (FeedDownload), the          *)
(* rewritten feeds (CrossBorderFilter, NetexRepair), and about MCIntake,   *)
(* which runs one of them beside the others at rest. Each has an inductive *)
(* invariant, whose conjuncts are named below; the theorems combine them   *)
(* over MCIntake's steps.                                                  *)
(***************************************************************************)
EXTENDS MCIntake, FiniteSetTheorems, SequenceTheorems, WellFoundedInduction, TLAPS

-----------------------------------------------------------------------------
(* The graph store *)

\* Where a build that made its folder can be (run_build_motis, from the stat of its timetable on).
Active == {"stat", "copy", "copying", "mark", "run", "unlink", "link", "prune", "record", "failed"}

\* The type invariant, with the fields of the two records and the counters.
StoreShape ==
    /\ StoreTypeOK
    /\ build \in [pc : {"idle", "claimed"} \cup Active, dir : Builds \cup {NoBuild},
                  key : 0..MaxInputs, read : 0..MaxInputs]
    /\ request \in [pc : {"none", "walk", "delete"}, ids : SUBSET (Builds \cup {Whole}),
                    known : BOOLEAN, busy : BOOLEAN, found : SUBSET (Builds \cup {Whole})]
    /\ inherited \in BOOLEAN /\ deletions \in 0..MaxDeletions /\ deaths \in 0..MaxDeaths

\* Builds are numbered as their folders are made, and the one under way has the last number: no
\* folder, report or clean-up request names a later one.
BuildNumbers ==
    /\ \A b \in Builds : folder[b] # "none" => b <= named
    /\ build.pc \in Active => named \in Builds /\ build.dir = named
    /\ build.pc \in {"idle", "claimed"} => build.dir = NoBuild
    /\ build.pc = "claimed" => named < MaxBuilds
    /\ \A c \in report \cup request.ids : c <= named

\* What the marker says of the copy of the timetable file (_motis_timetable_path), and how far the
\* copying got: until the marker is written it is older than what is being copied.
CopyTold ==
    /\ marker <= input /\ (marker = input => copy.whole /\ copy.of >= marker)
    /\ build.pc \in {"copy", "copying", "mark"} => marker < build.key /\ build.key <= input
    /\ build.pc = "copying" => copy.of >= build.key
    /\ build.pc = "mark" => copy.whole /\ copy.of >= build.key
    /\ CopyIsFresh

\* While no deleted session left a folder or a build behind: the row is busy while a build runs and
\* after a tick that raised, a link leads to a finished graph, and the pruning spares it.
Undisturbed ==
    ~inherited =>
        /\ busy <=> (stuck \/ build.pc # "idle")
        /\ ~known => build.pc = "idle" /\ Built = {}
        /\ current # NoBuild => folder[current] = "complete"
        /\ build.pc \in {"unlink", "link"} => folder[build.dir] = "complete" \/ Built = {}
        /\ build.pc \in {"prune", "record"} => current \in {NoBuild, build.dir}

\* A clean-up request under way does not name the folder being built, nor, once it has listed
\* the disk, the graph being served; for a session being built it found nothing.
CleaningSpares ==
    ~inherited =>
        /\ (request.pc # "none" /\ ~request.busy /\ build.pc \in Active)
              => build.dir \notin request.ids
        /\ (request.pc = "delete" /\ request.known) =>
              /\ Whole \notin request.found /\ current \notin request.found
              /\ request.busy => request.found = {}
        /\ (request.pc = "delete" /\ ~request.known) => request.found \subseteq {Whole}

\* A storage report lists the session's whole folder only when its row was read while the session
\* was gone. If at most one deletion happens and it left nothing, such a report was overtaken by
\* the creation of the session, and no later request reads the row as gone.
DeletedOnce ==
    MaxDeletions <= 1 =>
        /\ deletions = 0 => known /\ Whole \notin report /\ (request.pc # "none" => request.known)
        /\ ~inherited =>
              /\ Whole \in report => known
              /\ (request.pc # "none" /\ Whole \in request.ids) => request.known
              /\ request.pc = "delete" => Whole \notin request.found

\* The recorded snapshot is no later than the graph the link leads to, and is that graph but
\* between the link and the record of one build, or after a build that left no record.
SnapshotFollows ==
    (MaxDeletions <= 1 /\ ~inherited) =>
        /\ snapshot # NoBuild => snapshot <= named
        /\ (snapshot # NoBuild /\ current # NoBuild) => snapshot <= current
        /\ (snapshot # NoBuild /\ ~unrecorded /\ build.pc \notin {"link", "prune", "record"})
              => snapshot = current
        /\ build.pc \in {"unlink", "link"} => folder[build.dir] = "complete"
        /\ build.pc \in {"prune", "record"} => current = build.dir

StoreInv ==
    StoreShape /\ BuildNumbers /\ CopyTold /\ Undisturbed /\ CleaningSpares /\ DeletedOnce
          /\ SnapshotFollows

\* What the walk of the disk leaves of a storage request (storage.scan, after its rows are read):
\* its report names folders that are there, and what it may delete is part of what was asked.
LEMMA WalkFacts ==
    ASSUME StoreInv, WalkDisk
    PROVE
        /\ report' = Candidates(request.known, request.busy) /\ request.pc = "walk"
        /\ UNCHANGED <<Row, Disk, Recorded, input, Copies, build, Counts>>
        /\ \A c \in report' : c = Whole \/ (c \in Builds /\ folder[c] # "none")
        /\ request' \in [pc : {"none", "walk", "delete"}, ids : SUBSET (Builds \cup {Whole}),
                    known : BOOLEAN, busy : BOOLEAN, found : SUBSET (Builds \cup {Whole})]
        /\ request'.ids \subseteq request.ids /\ request'.pc # "walk"
        /\ request'.found \subseteq request'.ids
        /\ request'.pc = "delete" =>
              /\ request'.ids = request.ids /\ request'.known = request.known
              /\ request'.busy = request.busy /\ request'.found \subseteq report'
  <1> DEFINE Requested == [pc : {"none", "walk", "delete"}, ids : SUBSET (Builds \cup {Whole}),
                    known : BOOLEAN, busy : BOOLEAN, found : SUBSET (Builds \cup {Whole})]
             r == [request EXCEPT !.pc = "delete", !.found = report' \cap request.ids]
  <1>1. request \in Requested
    BY DEF StoreInv, StoreShape
  <1>2. /\ report' = Candidates(request.known, request.busy) /\ request.pc = "walk"
        /\ UNCHANGED <<Row, Disk, Recorded, input, Copies, build, Counts>>
    BY DEF WalkDisk
  <1>3. \A c \in report' : c = Whole \/ (c \in Builds /\ folder[c] # "none")
    BY <1>2 DEF Candidates, Built
  <1>4. request' = NoRequest \/ request' = r
    BY DEF WalkDisk
  <1>5. NoRequest \in Requested /\ NoRequest.ids = {} /\ NoRequest.pc = "none" /\ NoRequest.found = {}
    BY DEF NoRequest
  <1>6. /\ r \in Requested /\ r.pc = "delete" /\ r.ids = request.ids /\ r.known = request.known
        /\ r.busy = request.busy /\ r.found = report' \cap request.ids
    BY <1>1
  <1> HIDE DEF Requested, r
  <1>7. request' \in Requested /\ request'.ids \subseteq request.ids /\ request'.pc # "walk"
        /\ request'.found \subseteq request'.ids
        /\ (request'.pc = "delete" =>
              /\ request'.ids = request.ids /\ request'.known = request.known
              /\ request'.busy = request.busy /\ request'.found \subseteq report')
    BY <1>4, <1>5, <1>6
  <1> QED BY <1>2, <1>3, <1>7 DEF Requested

\* The steps of a build that bring the copy up to date touch no folder and no request.
Reads == StatInput \/ BeginCopy \/ EndCopy \/ CopyRaises \/ WriteMarker
Reading == {"stat", "copy", "copying", "mark", "run"}

LEMMA ReadFacts ==
    ASSUME StoreShape, Reads
    PROVE /\ UNCHANGED <<Row, Disk, Recorded, input, named, Cleaning, Counts>>
          /\ build.pc \in Reading /\ build'.pc \in Reading /\ build'.dir = build.dir
  <1>1. CASE StatInput
    <2>1. \/ build' = [build EXCEPT !.pc = "run", !.key = input, !.read = copy.of]
          \/ build' = [build EXCEPT !.pc = "copy", !.key = input]
      BY <1>1 DEF StatInput
    <2>2. build.pc = "stat" /\ UNCHANGED <<Row, Disk, Recorded, input, named, Cleaning, Counts>>
      BY <1>1 DEF StatInput
    <2> QED BY <2>1, <2>2 DEF Reading, StoreShape
  <1>2. CASE BeginCopy
    BY <1>2 DEF BeginCopy, Reading, StoreShape
  <1>3. CASE EndCopy
    BY <1>3 DEF EndCopy, Reading, StoreShape
  <1>4. CASE CopyRaises
    BY <1>4 DEF CopyRaises, Copies, Reading, StoreShape
  <1>5. CASE WriteMarker
    BY <1>5 DEF WriteMarker, Reading, StoreShape
  <1> QED BY <1>1, <1>2, <1>3, <1>4, <1>5 DEF Reads

\* The two requests begin alike: they read the session's row, and what they may delete comes from
\* an earlier report.
Scans == GetStorage \/ PostDelete

LEMMA ScanFacts ==
    ASSUME StoreShape, Scans
    PROVE /\ UNCHANGED <<Row, Disk, Recorded, input, Copies, build, report, inherited, deletions,
               deaths>>
          /\ request'.ids \subseteq report /\ request'.found = {} /\ request'.pc = "walk"
          /\ request'.known = known /\ request'.busy = busy
  BY DEF Scans, GetStorage, PostDelete, ScanRows

\* A tick that ends before its build is recorded (the snapshot fails, the tick raises, the worker
\* dies) leaves the job busy only as a stuck one; it may discard its own folder, never the linked one.
Ends == SnapshotFails \/ TickRaises \/ WorkerDies

LEMMA EndFacts ==
    ASSUME StoreShape, BuildNumbers, Ends
    PROVE /\ build.pc # "idle" /\ build' = Idle
          /\ UNCHANGED <<known, current, snapshot, input, Copies, Cleaning, inherited, engine, scans,
                         deletions>>
          /\ deaths' \in 0..MaxDeaths
          /\ stuck' \in BOOLEAN /\ busy' \in BOOLEAN /\ (busy' <=> stuck')
          /\ unrecorded' \in BOOLEAN
          /\ ~unrecorded' => ~unrecorded /\ build.pc \notin {"link", "prune", "record"}
          /\ folder' \in [Builds -> {"none", "partial", "complete"}]
          /\ \A b \in Builds : folder'[b] = folder[b] \/ (folder'[b] = "none" /\ b # current)
  <1>1. /\ build.pc # "idle" /\ build' = Idle
        /\ UNCHANGED <<known, current, snapshot, input, Copies, Cleaning, inherited, engine, scans,
                       deletions>>
    BY DEF Ends, SnapshotFails, TickRaises, WorkerDies, Disk
  <1>2. deaths' \in 0..MaxDeaths
    BY StoreAssumption DEF Ends, SnapshotFails, TickRaises, WorkerDies, Fault, StoreShape
  <1>3. stuck' \in BOOLEAN /\ busy' \in BOOLEAN /\ (busy' <=> stuck')
    <2>1. busy \in BOOLEAN /\ stuck \in BOOLEAN
      BY DEF StoreShape, StoreTypeOK
    <2>2. \/ busy' = stuck /\ stuck' = stuck
          \/ busy' = busy /\ stuck' = busy
          \/ busy' = FALSE /\ stuck' = FALSE
      BY DEF Ends, SnapshotFails, TickRaises, WorkerDies
    <2>3. CASE busy' = stuck /\ stuck' = stuck
      BY <2>1, <2>3, Zenon
    <2>4. CASE busy' = busy /\ stuck' = busy
      BY <2>1, <2>4, Zenon
    <2>5. CASE busy' = FALSE /\ stuck' = FALSE
      BY <2>5
    <2> QED BY <2>2, <2>3, <2>4, <2>5
  <1>4. unrecorded' \in BOOLEAN
    BY Zenon DEF Ends, SnapshotFails, TickRaises, WorkerDies, Leaves, StoreShape, StoreTypeOK
  <1>5. ~unrecorded' => ~unrecorded /\ build.pc \notin {"link", "prune", "record"}
    BY DEF Ends, SnapshotFails, TickRaises, WorkerDies, Leaves, StoreShape, StoreTypeOK
  <1>6. folder' = folder \/ (build.dir # current /\ folder' = [folder EXCEPT ![build.dir] = "none"])
    BY DEF Ends, SnapshotFails, TickRaises, WorkerDies, Discard, Disk
  <1>7. folder \in [Builds -> {"none", "partial", "complete"}]
    BY DEF StoreShape, StoreTypeOK
  <1>8. /\ folder' \in [Builds -> {"none", "partial", "complete"}]
        /\ \A b \in Builds : folder'[b] = folder[b] \/ (folder'[b] = "none" /\ b # current)
    BY <1>6, <1>7
  <1> QED BY <1>1, <1>2, <1>3, <1>4, <1>5, <1>8

\* A worker that restarts between two ticks only changes the row.
LEMMA RestartFacts ==
    ASSUME StoreShape, WorkerRestarts
    PROVE /\ build.pc = "idle"
          /\ UNCHANGED <<known, Disk, Recorded, input, Copies, build, Cleaning, Counts>>
          /\ stuck' \in BOOLEAN /\ busy' \in BOOLEAN /\ ~stuck' /\ ~busy'
  BY DEF WorkerRestarts

\* Every step of a build, a request, a deletion or a crash keeps the types.
LEMMA ShapeKept == StoreInv /\ StoreNext => StoreShape'
  <1> SUFFICES ASSUME StoreInv, StoreNext PROVE StoreShape'
    OBVIOUS
  <1> USE StoreAssumption DEF storeVars, Row, Disk, Recorded, Copies, Cleaning, Counts
  <1>0. StoreShape /\ BuildNumbers
    BY DEF StoreInv
  <1>1. CASE ClaimJob
    BY <1>0, <1>1 DEF ClaimJob, StoreShape, StoreTypeOK
  <1>2. CASE MakeBuildDir
    <2>1. named \in 0..MaxBuilds /\ named < MaxBuilds /\ build.pc = "claimed"
      BY <1>0, <1>2 DEF MakeBuildDir, StoreShape, StoreTypeOK, BuildNumbers
    <2>2. named' = named + 1 /\ named' \in Builds
      BY <2>1, <1>2 DEF MakeBuildDir, Builds
    <2>3. folder' \in [Builds -> {"none", "partial", "complete"}]
          /\ \A b \in Builds : folder'[b] = IF b = named' THEN "partial" ELSE folder[b]
      BY <1>0, <1>2, <2>2 DEF MakeBuildDir, StoreShape, StoreTypeOK
    <2>4. build' = [build EXCEPT !.pc = "stat", !.dir = named']
          /\ UNCHANGED <<Row, current, Recorded, input, copy, marker, Cleaning, Counts>>
      BY <1>2 DEF MakeBuildDir
    <2>5. build' \in [pc : {"idle", "claimed"} \cup Active, dir : Builds \cup {NoBuild},
                      key : 0..MaxInputs, read : 0..MaxInputs]
          /\ build'.pc = "stat" /\ build'.dir = named'
      BY <1>0, <2>2, <2>4 DEF StoreShape, Active
    <2>6. named' \in 0..MaxBuilds
      BY <2>2 DEF Builds
    <2> HIDE DEF Builds
    <2> QED BY <1>0, <2>3, <2>4, <2>5, <2>6 DEF StoreShape, StoreTypeOK
  <1>3. CASE StatInput
    <2>1. build' \in [pc : {"idle", "claimed"} \cup Active, dir : Builds \cup {NoBuild},
                      key : 0..MaxInputs, read : 0..MaxInputs]
          /\ copy' \in [of : 0..MaxInputs, whole : BOOLEAN]
      <3>1. CASE marker = input
        <4>1. build' = [build EXCEPT !.pc = "run", !.key = input, !.read = copy.of] /\ copy' = copy
          BY <1>3, <3>1 DEF StatInput
        <4>2. copy \in [of : 0..MaxInputs, whole : BOOLEAN] /\ input \in 0..MaxInputs
          BY <1>0 DEF StoreShape, StoreTypeOK
        <4> QED BY <1>0, <4>1, <4>2 DEF StoreShape, Active
      <3>2. CASE marker # input
        <4>1. build' = [build EXCEPT !.pc = "copy", !.key = input]
              /\ copy' = [of |-> 0, whole |-> FALSE]
          BY <1>3, <3>2 DEF StatInput
        <4>2. 0 \in 0..MaxInputs /\ input \in 0..MaxInputs
          BY <1>0 DEF StoreShape, StoreTypeOK
        <4>3. copy' \in [of : 0..MaxInputs, whole : BOOLEAN]
          BY <4>1, <4>2
        <4> QED BY <1>0, <4>1, <4>2, <4>3 DEF StoreShape, Active
      <3> QED BY <3>1, <3>2
    <2>2. UNCHANGED <<Row, Disk, Recorded, input, named, marker, Cleaning, Counts>>
      BY <1>3 DEF StatInput
    <2> QED BY <1>0, <2>1, <2>2 DEF StoreShape, StoreTypeOK
  <1>4. CASE BeginCopy
    BY <1>0, <1>4 DEF BeginCopy, StoreShape, StoreTypeOK, BuildNumbers, Active
  <1>5. CASE EndCopy
    BY <1>0, <1>5 DEF EndCopy, StoreShape, StoreTypeOK, BuildNumbers, Active
  <1>6. CASE CopyRaises
    <2>1. build' = [build EXCEPT !.pc = "run", !.read = input] /\ input \in 0..MaxInputs
          /\ UNCHANGED <<Row, Disk, Recorded, input, Copies, Cleaning, Counts>>
      BY <1>0, <1>6 DEF CopyRaises, StoreShape, StoreTypeOK
    <2>2. build' \in [pc : {"idle", "claimed"} \cup Active, dir : Builds \cup {NoBuild},
                      key : 0..MaxInputs, read : 0..MaxInputs]
      BY <1>0, <2>1 DEF StoreShape, Active
    <2> QED BY <1>0, <2>1, <2>2 DEF StoreShape, StoreTypeOK
  <1>7. CASE WriteMarker
    <2>1. build' = [build EXCEPT !.pc = "run", !.read = copy.of] /\ marker' = build.key
          /\ UNCHANGED <<Row, Disk, Recorded, input, copy, named, Cleaning, Counts>>
      BY <1>7 DEF WriteMarker
    <2>2. copy.of \in 0..MaxInputs /\ build.key \in 0..MaxInputs
      BY <1>0 DEF StoreShape, StoreTypeOK
    <2>3. build' \in [pc : {"idle", "claimed"} \cup Active, dir : Builds \cup {NoBuild},
                      key : 0..MaxInputs, read : 0..MaxInputs]
      BY <1>0, <2>1, <2>2 DEF StoreShape, Active
    <2> QED BY <1>0, <2>1, <2>2, <2>3 DEF StoreShape, StoreTypeOK
  <1>8. CASE BuildFails
    BY <1>0, <1>8 DEF BuildFails, Discard, StoreShape, StoreTypeOK, BuildNumbers, Active
  <1>9. CASE BuildSucceeds
    BY <1>0, <1>9 DEF BuildSucceeds, StoreShape, StoreTypeOK, BuildNumbers, Active
  <1>10. CASE UnlinkCurrent
    BY <1>0, <1>10 DEF UnlinkCurrent, StoreShape, StoreTypeOK, BuildNumbers, Active
  <1>11. CASE LinkCurrent
    BY <1>0, <1>11 DEF LinkCurrent, StoreShape, StoreTypeOK, BuildNumbers, Active
  <1>12. CASE Prune
    BY <1>0, <1>12 DEF Prune, StoreShape, StoreTypeOK, BuildNumbers, Active
  <1>13. CASE RecordBuild
    <2>1. build' \in [pc : {"idle", "claimed"} \cup Active, dir : Builds \cup {NoBuild},
                      key : 0..MaxInputs, read : 0..MaxInputs]
      BY <1>13 DEF RecordBuild, Idle
    <2>2. snapshot' \in Builds \cup {NoBuild}
      BY <1>0, <1>13 DEF RecordBuild, StoreShape, StoreTypeOK
    <2> QED BY <1>0, <1>13, <2>1, <2>2 DEF RecordBuild, StoreShape, StoreTypeOK
  <1>14. CASE Ends
    <2>1. build' \in [pc : {"idle", "claimed"} \cup Active, dir : Builds \cup {NoBuild},
                      key : 0..MaxInputs, read : 0..MaxInputs]
      BY <1>0, <1>14, EndFacts DEF Idle
    <2> QED BY <1>0, <1>14, <2>1, EndFacts DEF StoreShape, StoreTypeOK
  <1>15. CASE RefreshInput
    BY <1>0, <1>15 DEF RefreshInput, StoreShape, StoreTypeOK
  <1>16. CASE DeleteRow
    <2>1. folder' \in [Builds -> {"none", "partial", "complete"}]
          /\ current' \in Builds \cup {NoBuild}
      BY <1>0, <1>16 DEF DeleteRow, StoreShape, StoreTypeOK
    <2>2. deletions' \in 0..MaxDeletions /\ inherited' \in BOOLEAN
      BY <1>0, <1>16 DEF DeleteRow, StoreShape
    <2> QED BY <1>0, <1>16, <2>1, <2>2 DEF DeleteRow, StoreShape, StoreTypeOK
  <1>17. CASE CreateAgain
    BY <1>0, <1>17 DEF CreateAgain, StoreShape, StoreTypeOK
  <1>18. CASE GetStorage
    BY <1>0, <1>18 DEF GetStorage, ScanRows, StoreShape, StoreTypeOK
  <1>19. CASE PostDelete
    BY <1>0, <1>19 DEF PostDelete, ScanRows, StoreShape, StoreTypeOK
  <1>20. CASE WalkDisk
    <2>1. /\ report' = Candidates(request.known, request.busy) /\ request.pc = "walk"
          /\ UNCHANGED <<Row, Disk, Recorded, input, Copies, build, Counts>>
      BY <1>20, WalkFacts
    <2>2. \A c \in report' : c = Whole \/ (c \in Builds /\ folder[c] # "none")
      BY <1>20, WalkFacts
    <2>4. /\ request' \in [pc : {"none", "walk", "delete"}, ids : SUBSET (Builds \cup {Whole}),
                    known : BOOLEAN, busy : BOOLEAN, found : SUBSET (Builds \cup {Whole})]
          /\ request'.ids \subseteq request.ids /\ request'.pc # "walk"
          /\ request'.found \subseteq request'.ids
          /\ request'.pc = "delete" => /\ request'.ids = request.ids /\ request'.known = request.known
                                      /\ request'.busy = request.busy
                                            /\ request'.found \subseteq report'
      BY <1>20, WalkFacts
    <2> HIDE DEF Whole
    <2> QED BY <1>0, <2>1, <2>2, <2>4 DEF StoreShape, StoreTypeOK
  <1>21. ASSUME NEW c \in Builds \cup {Whole}, DeleteCandidate(c) PROVE StoreShape'
    BY <1>0, <1>21 DEF DeleteCandidate, StoreShape, StoreTypeOK
  <1>22. CASE DeletionEnds
    BY <1>0, <1>22 DEF DeletionEnds, NoRequest, StoreShape, StoreTypeOK
  <1>23. CASE WorkerRestarts
    BY <1>0, <1>23, RestartFacts DEF StoreShape, StoreTypeOK
  <1> QED BY <1>1, <1>2, <1>3, <1>4, <1>5, <1>6, <1>7, <1>8, <1>9, <1>10, <1>11, <1>12, <1>13,
             <1>14, <1>15, <1>16, <1>17, <1>18, <1>19, <1>20, <1>21, <1>22, <1>23
             DEF StoreNext, BuildStep, Ends

\* No step makes a folder, or names one, above the number of the last build.
LEMMA NumbersKept == StoreInv /\ StoreNext => BuildNumbers'
  <1> SUFFICES ASSUME StoreInv, StoreNext PROVE BuildNumbers'
    OBVIOUS
  <1> USE StoreAssumption DEF storeVars, Row, Disk, Recorded, Copies, Cleaning, Counts
  <1>0. StoreShape /\ BuildNumbers
    BY DEF StoreInv
  <1>1. CASE ClaimJob
    BY <1>0, <1>1 DEF ClaimJob, BuildNumbers, Active
  <1>2. CASE MakeBuildDir
    <2>1. named \in 0..MaxBuilds /\ named < MaxBuilds /\ build.pc = "claimed"
      BY <1>0, <1>2 DEF MakeBuildDir, StoreShape, StoreTypeOK, BuildNumbers
    <2>2. named' = named + 1 /\ named' \in Builds
      BY <2>1, <1>2 DEF MakeBuildDir, Builds
    <2>3. folder' \in [Builds -> {"none", "partial", "complete"}]
          /\ \A b \in Builds : folder'[b] = IF b = named' THEN "partial" ELSE folder[b]
      BY <1>0, <1>2, <2>2 DEF MakeBuildDir, StoreShape, StoreTypeOK
    <2>4. build' = [build EXCEPT !.pc = "stat", !.dir = named']
          /\ UNCHANGED <<Row, current, Recorded, input, copy, marker, Cleaning, Counts>>
      BY <1>2 DEF MakeBuildDir
    <2>5. build' \in [pc : {"idle", "claimed"} \cup Active, dir : Builds \cup {NoBuild},
                      key : 0..MaxInputs, read : 0..MaxInputs]
          /\ build'.pc = "stat" /\ build'.dir = named'
      BY <1>0, <2>2, <2>4 DEF StoreShape, Active
    <2>6. named' \in 0..MaxBuilds
      BY <2>2 DEF Builds
    <2>7. \A b \in Builds : folder'[b] # "none" => b <= named'
      BY <1>0, <2>1, <2>2, <2>3 DEF BuildNumbers, Builds
    <2>8. \A c \in report \cup request.ids : c \in Nat /\ c <= named
      BY <1>0 DEF BuildNumbers, StoreShape, StoreTypeOK, Builds, Whole
    <2>9. \A c \in report \cup request.ids : c <= named'
      BY <2>1, <2>2, <2>8
    <2> QED BY <2>2, <2>4, <2>5, <2>7, <2>9 DEF BuildNumbers, Active
  <1>3. CASE Reads
    BY <1>0, <1>3, ReadFacts DEF BuildNumbers, Reading, Active, Built
  <1>4. CASE BuildFails
    BY <1>0, <1>4 DEF BuildFails, Discard, BuildNumbers, Active
  <1>5. CASE BuildSucceeds
    BY <1>0, <1>5 DEF BuildSucceeds, BuildNumbers, Active
  <1>6. CASE UnlinkCurrent
    BY <1>0, <1>6 DEF UnlinkCurrent, BuildNumbers, Active
  <1>7. CASE LinkCurrent
    BY <1>0, <1>7 DEF LinkCurrent, StoreShape, BuildNumbers
  <1>8. CASE Prune
    BY <1>0, <1>8 DEF Prune, BuildNumbers, Active
  <1>9. CASE RecordBuild
    BY <1>0, <1>9 DEF RecordBuild, Idle, BuildNumbers, Active
  <1>10. CASE Ends
    BY <1>0, <1>10, EndFacts DEF Idle, BuildNumbers, Active, StoreInv
  <1>11. CASE RefreshInput
    BY <1>0, <1>11 DEF RefreshInput, BuildNumbers
  <1>12. CASE DeleteRow
    BY <1>0, <1>12 DEF DeleteRow, BuildNumbers
  <1>13. CASE CreateAgain
    BY <1>0, <1>13 DEF CreateAgain, BuildNumbers
  <1>14. CASE Scans
    BY <1>0, <1>14, ScanFacts DEF BuildNumbers
  <1>15. CASE WalkDisk
    <2>1. /\ report' = Candidates(request.known, request.busy) /\ request.pc = "walk"
          /\ UNCHANGED <<Row, Disk, Recorded, input, Copies, build, Counts>>
      BY <1>15, WalkFacts
    <2>2. \A c \in report' : c = Whole \/ (c \in Builds /\ folder[c] # "none")
      BY <1>15, WalkFacts
    <2>4. /\ request' \in [pc : {"none", "walk", "delete"}, ids : SUBSET (Builds \cup {Whole}),
                    known : BOOLEAN, busy : BOOLEAN, found : SUBSET (Builds \cup {Whole})]
          /\ request'.ids \subseteq request.ids /\ request'.pc # "walk"
          /\ request'.found \subseteq request'.ids
          /\ request'.pc = "delete" => /\ request'.ids = request.ids /\ request'.known = request.known
                                      /\ request'.busy = request.busy
                                            /\ request'.found \subseteq report'
      BY <1>15, WalkFacts
    <2> HIDE DEF Whole
    <2>5. \A c \in report' : c <= named
      BY <1>0, <2>2 DEF BuildNumbers, Whole, StoreShape, StoreTypeOK
    <2> QED BY <1>0, <2>1, <2>4, <2>5 DEF BuildNumbers
  <1>16. ASSUME NEW c \in Builds \cup {Whole}, DeleteCandidate(c) PROVE BuildNumbers'
    BY <1>0, <1>16 DEF DeleteCandidate, BuildNumbers
  <1>17. CASE DeletionEnds
    BY <1>0, <1>17 DEF DeletionEnds, NoRequest, BuildNumbers
  <1>18. CASE WorkerRestarts
    BY <1>0, <1>18, RestartFacts DEF BuildNumbers, Active
  <1> QED BY <1>1, <1>2, <1>3, <1>4, <1>5, <1>6, <1>7, <1>8, <1>9, <1>10, <1>11, <1>12, <1>13,
             <1>14, <1>15, <1>16, <1>17, <1>18
             DEF StoreNext, BuildStep, Ends, Reads, Scans

\* No step breaks what the marker says of the copy: it is written last, and the copy is at least
\* as new as the file was when the copy began.
LEMMA CopyKept == StoreInv /\ StoreNext => CopyTold'
  <1> SUFFICES ASSUME StoreInv, StoreNext PROVE CopyTold'
    OBVIOUS
  <1> USE StoreAssumption DEF storeVars, Row, Disk, Recorded, Copies, Cleaning, Counts
  <1>0. StoreShape /\ CopyTold
    BY DEF StoreInv
  <1>1. CASE ClaimJob
    BY <1>0, <1>1 DEF ClaimJob, CopyTold, CopyIsFresh
  <1>2. CASE MakeBuildDir
    BY <1>0, <1>2 DEF MakeBuildDir, CopyTold, CopyIsFresh
  <1>3. CASE StatInput
    <2>0. marker \in Nat /\ input \in Nat /\ build.pc = "stat" /\ marker' = marker /\ input' = input
          /\ marker <= input
      BY <1>0, <1>3 DEF StatInput, StoreShape, StoreTypeOK, CopyTold
    <2>1. CASE marker = input
      <3>1. build'.pc = "run" /\ build'.key = input /\ copy' = copy
        BY <1>0, <1>3, <2>1 DEF StatInput, StoreShape
      <3> QED BY <1>0, <2>0, <2>1, <3>1 DEF CopyTold, CopyIsFresh
    <2>2. CASE marker # input
      <3>1. build'.pc = "copy" /\ build'.key = input
        BY <1>0, <1>3, <2>2 DEF StatInput, StoreShape
      <3> QED BY <2>0, <2>2, <3>1 DEF CopyTold, CopyIsFresh
    <2> QED BY <2>1, <2>2
  <1>4. CASE BeginCopy
    BY <1>0, <1>4 DEF BeginCopy, StoreShape, StoreTypeOK, CopyTold, CopyIsFresh, Active
  <1>5. CASE EndCopy
    BY <1>0, <1>5 DEF EndCopy, CopyTold, CopyIsFresh
  <1>6. CASE CopyRaises
    BY <1>0, <1>6 DEF CopyRaises, StoreShape, CopyTold, CopyIsFresh
  <1>7. CASE WriteMarker
    BY <1>0, <1>7 DEF WriteMarker, CopyTold, CopyIsFresh
  <1>8. CASE BuildFails
    BY <1>0, <1>8 DEF BuildFails, Discard, CopyTold, CopyIsFresh
  <1>9. CASE BuildSucceeds
    BY <1>0, <1>9 DEF BuildSucceeds, CopyTold, CopyIsFresh
  <1>10. CASE UnlinkCurrent
    BY <1>0, <1>10 DEF UnlinkCurrent, CopyTold, CopyIsFresh
  <1>11. CASE LinkCurrent
    BY <1>0, <1>11 DEF LinkCurrent, StoreShape, CopyTold, CopyIsFresh
  <1>12. CASE Prune
    BY <1>0, <1>12 DEF Prune, CopyTold, CopyIsFresh
  <1>13. CASE RecordBuild
    BY <1>0, <1>13 DEF RecordBuild, Idle, CopyTold, CopyIsFresh
  <1>14. CASE Ends
    BY <1>0, <1>14, EndFacts DEF Idle, CopyTold, CopyIsFresh, StoreInv
  <1>15. CASE RefreshInput
    BY <1>0, <1>15 DEF RefreshInput, StoreShape, StoreTypeOK, CopyTold, CopyIsFresh, Active
  <1>16. CASE DeleteRow
    BY <1>0, <1>16 DEF DeleteRow, CopyTold, CopyIsFresh
  <1>17. CASE CreateAgain
    BY <1>0, <1>17 DEF CreateAgain, CopyTold, CopyIsFresh
  <1>18. CASE GetStorage
    BY <1>0, <1>18 DEF GetStorage, ScanRows, CopyTold, CopyIsFresh
  <1>19. CASE PostDelete
    BY <1>0, <1>19 DEF PostDelete, ScanRows, CopyTold, CopyIsFresh
  <1>20. CASE WalkDisk
    BY <1>0, <1>20 DEF WalkDisk, NoRequest, Candidates, CopyTold, CopyIsFresh
  <1>21. ASSUME NEW c \in Builds \cup {Whole}, DeleteCandidate(c) PROVE CopyTold'
    BY <1>0, <1>21 DEF DeleteCandidate, CopyTold, CopyIsFresh
  <1>22. CASE DeletionEnds
    BY <1>0, <1>22 DEF DeletionEnds, NoRequest, CopyTold, CopyIsFresh
  <1>23. CASE WorkerRestarts
    BY <1>0, <1>23, RestartFacts DEF CopyTold, CopyIsFresh
  <1> QED BY <1>1, <1>2, <1>3, <1>4, <1>5, <1>6, <1>7, <1>8, <1>9, <1>10, <1>11, <1>12, <1>13,
             <1>14, <1>15, <1>16, <1>17, <1>18, <1>19, <1>20, <1>21, <1>22, <1>23
             DEF StoreNext, BuildStep, Ends

\* Until a deletion finds something to leave behind, builds, clean-ups and crashes leave the link
\* at a finished graph.
LEMMA UndisturbedKept == StoreInv /\ StoreNext => Undisturbed'
  <1> SUFFICES ASSUME StoreInv, StoreNext PROVE Undisturbed'
    OBVIOUS
  <1> USE StoreAssumption DEF storeVars, Row, Disk, Recorded, Copies, Cleaning, Counts
  <1>0. StoreShape /\ BuildNumbers /\ Undisturbed /\ CleaningSpares
    BY DEF StoreInv
  <1>1. CASE ClaimJob
    BY <1>0, <1>1 DEF ClaimJob, Undisturbed
  <1>2. CASE MakeBuildDir
    BY <1>0, <1>2 DEF MakeBuildDir, StoreShape, StoreTypeOK, BuildNumbers, Undisturbed, Active
  <1>3. CASE Reads
    BY <1>0, <1>3, ReadFacts DEF Reading, Undisturbed
  <1>4. CASE BuildFails
    BY <1>0, <1>4 DEF BuildFails, Discard, Undisturbed
  <1>5. CASE BuildSucceeds
    BY <1>0, <1>5 DEF BuildSucceeds, StoreShape, StoreTypeOK, BuildNumbers, Undisturbed, Active
  <1>6. CASE UnlinkCurrent
    BY <1>0, <1>6
       DEF UnlinkCurrent, StoreShape, StoreTypeOK, BuildNumbers, Undisturbed, CleaningSpares,
           Active, Built
  <1>7. CASE LinkCurrent
    BY <1>0, <1>7 DEF LinkCurrent, StoreShape, Undisturbed
  <1>8. CASE Prune
    <2>1. build.pc = "prune" /\ build' = [build EXCEPT !.pc = "record"]
          /\ UNCHANGED <<Row, current, Recorded, input, Copies, Cleaning, Counts>>
      BY <1>8 DEF Prune
    <2>2. named \in Builds /\ build.dir = named /\ \A c \in Built : c <= named
      BY <1>0, <2>1 DEF BuildNumbers, Active, Built
    <2>3. {c \in Built : c > named} = {}
      BY <2>2 DEF Built, Builds
    <2>4. Cardinality({c \in Built : c > named}) < Keep
      BY <2>3, FS_EmptySet
    <2>5. folder'[named] = folder[named]
      BY <1>8, <2>2, <2>4 DEF Prune
    <2>6. build'.pc = "record" /\ build'.dir = build.dir
      BY <1>0, <2>1 DEF StoreShape
    <2>7. \A b \in Builds : folder'[b] \in {folder[b], "none"}
      BY <1>8 DEF Prune
    <2>8. Built = {} => Built' = {}
      BY <2>7 DEF Built
    <2> QED BY <1>0, <2>1, <2>2, <2>5, <2>6, <2>8 DEF Undisturbed
  <1>9. CASE RecordBuild
    BY <1>0, <1>9 DEF RecordBuild, Idle, Undisturbed
  <1>10. CASE Ends
    BY <1>0, <1>10, EndFacts DEF Idle, StoreShape, StoreTypeOK, Undisturbed, Built, StoreInv
  <1>11. CASE RefreshInput
    BY <1>0, <1>11
       DEF RefreshInput, StoreShape, StoreTypeOK, BuildNumbers, Undisturbed, CleaningSpares, Active,
           Built
  <1>12. CASE DeleteRow
    <2>1. CASE build.pc = "idle" /\ \A b \in Builds : folder'[b] = "none"
      <3>1. current' = NoBuild \/ inherited \/ (current' # NoBuild /\ current' = current
            /\ folder'[current] = folder[current])
        BY <1>12 DEF DeleteRow
      <3>2. current \in Builds \cup {NoBuild}
        BY <1>0 DEF StoreShape, StoreTypeOK
      <3>3. current' = NoBuild \/ inherited
        BY <1>0, <2>1, <3>1, <3>2 DEF Undisturbed
      <3>4. Built' = {}
        BY <2>1 DEF Built
      <3>5. build' = build /\ busy' = FALSE /\ stuck' = FALSE /\ (inherited => inherited')
        BY <1>12 DEF DeleteRow
      <3> QED BY <2>1, <3>3, <3>4, <3>5 DEF Undisturbed
    <2>2. CASE ~(build.pc = "idle" /\ \A b \in Builds : folder'[b] = "none")
      BY <1>12, <2>2 DEF DeleteRow, Undisturbed
    <2> QED BY <2>1, <2>2
  <1>13. CASE CreateAgain
    BY <1>0, <1>13 DEF CreateAgain, Undisturbed
  <1>14. CASE Scans
    BY <1>0, <1>14, ScanFacts DEF StoreShape, StoreTypeOK, BuildNumbers, Undisturbed, Active, Built
  <1>15. CASE WalkDisk
    BY <1>0, <1>15
       DEF WalkDisk, NoRequest, Candidates, StoreShape, StoreTypeOK, BuildNumbers, Undisturbed,
           CleaningSpares, Active, Built
  <1>16. ASSUME NEW c \in Builds \cup {Whole}, DeleteCandidate(c) PROVE Undisturbed'
    BY <1>0, <1>16
       DEF DeleteCandidate, StoreShape, StoreTypeOK, BuildNumbers, Undisturbed, CleaningSpares,
           Active, Built
  <1>17. CASE DeletionEnds
    BY <1>0, <1>17
       DEF DeletionEnds, NoRequest, StoreShape, StoreTypeOK, BuildNumbers, Undisturbed,
           CleaningSpares, Active, Built
  <1>18. CASE WorkerRestarts
    BY <1>0, <1>18, RestartFacts DEF StoreShape, StoreTypeOK, Undisturbed, Built
  <1> QED BY <1>1, <1>2, <1>3, <1>4, <1>5, <1>6, <1>7, <1>8, <1>9, <1>10, <1>11, <1>12, <1>13,
             <1>14, <1>15, <1>16, <1>17, <1>18
             DEF StoreNext, BuildStep, Ends, Reads, Scans

\* A build cannot begin behind the row a clean-up read without its folder being a new one, which
\* the request does not name.
LEMMA CleaningKept == StoreInv /\ StoreNext => CleaningSpares'
  <1> SUFFICES ASSUME StoreInv, StoreNext PROVE CleaningSpares'
    OBVIOUS
  <1> USE StoreAssumption DEF storeVars, Row, Disk, Recorded, Copies, Cleaning, Counts
  <1>0. StoreShape /\ BuildNumbers /\ Undisturbed /\ CleaningSpares
    BY DEF StoreInv
  <1>1. CASE ClaimJob
    BY <1>0, <1>1 DEF ClaimJob, StoreShape, CleaningSpares, Active
  <1>2. CASE MakeBuildDir
    BY <1>0, <1>2
       DEF MakeBuildDir, StoreShape, StoreTypeOK, BuildNumbers, Undisturbed, CleaningSpares, Active,
           Built
  <1>3. CASE Reads
    BY <1>0, <1>3, ReadFacts DEF CleaningSpares, Reading, Active, Built
  <1>4. CASE BuildFails
    BY <1>0, <1>4 DEF BuildFails, Discard, StoreShape, CleaningSpares
  <1>5. CASE BuildSucceeds
    BY <1>0, <1>5 DEF BuildSucceeds, StoreShape, CleaningSpares
  <1>6. CASE UnlinkCurrent
    BY <1>0, <1>6 DEF UnlinkCurrent, StoreShape, CleaningSpares
  <1>7. CASE LinkCurrent
    BY <1>0, <1>7 DEF LinkCurrent, StoreShape, StoreTypeOK, CleaningSpares, Active
  <1>8. CASE Prune
    BY <1>0, <1>8 DEF Prune, StoreShape, CleaningSpares
  <1>9. CASE RecordBuild
    BY <1>0, <1>9 DEF RecordBuild, Idle, StoreShape, CleaningSpares, Active
  <1>10. CASE Ends
    BY <1>0, <1>10, EndFacts DEF Idle, CleaningSpares, Active, StoreInv
  <1>11. CASE RefreshInput
    BY <1>0, <1>11 DEF RefreshInput, CleaningSpares
  <1>12. CASE DeleteRow
    BY <1>0, <1>12 DEF DeleteRow, StoreShape, CleaningSpares
  <1>13. CASE CreateAgain
    BY <1>0, <1>13 DEF CreateAgain, CleaningSpares
  <1>14. CASE Scans
    BY <1>0, <1>14, ScanFacts DEF CleaningSpares, StoreShape, Undisturbed, Active
  <1>15. CASE WalkDisk
    <2>1. /\ report' = Candidates(request.known, request.busy) /\ request.pc = "walk"
          /\ UNCHANGED <<Row, Disk, Recorded, input, Copies, build, Counts>>
      BY <1>15, WalkFacts
    <2>2. \A c \in report' : c = Whole \/ (c \in Builds /\ folder[c] # "none")
      BY <1>15, WalkFacts
    <2>4. /\ request' \in [pc : {"none", "walk", "delete"}, ids : SUBSET (Builds \cup {Whole}),
                    known : BOOLEAN, busy : BOOLEAN, found : SUBSET (Builds \cup {Whole})]
          /\ request'.ids \subseteq request.ids /\ request'.pc # "walk"
          /\ request'.found \subseteq request'.ids
          /\ request'.pc = "delete" => /\ request'.ids = request.ids /\ request'.known = request.known
                                      /\ request'.busy = request.busy
                                            /\ request'.found \subseteq report'
      BY <1>15, WalkFacts
    <2> HIDE DEF Whole
    <2>5. request.known => report' = (IF request.busy THEN {} ELSE Built \ {current})
          /\ Whole \notin report'
      BY <2>1 DEF Candidates, Whole, Built, Builds
    <2>6. ~request.known => report' \subseteq {Whole}
      BY <2>1 DEF Candidates
    <2> QED BY <1>0, <2>1, <2>4, <2>5, <2>6 DEF CleaningSpares, StoreShape
  <1>16. ASSUME NEW c \in Builds \cup {Whole}, DeleteCandidate(c) PROVE CleaningSpares'
    BY <1>0, <1>16 DEF DeleteCandidate, CleaningSpares
  <1>17. CASE DeletionEnds
    BY <1>0, <1>17 DEF DeletionEnds, NoRequest, CleaningSpares
  <1>18. CASE WorkerRestarts
    BY <1>0, <1>18, RestartFacts DEF CleaningSpares, Active
  <1> QED BY <1>1, <1>2, <1>3, <1>4, <1>5, <1>6, <1>7, <1>8, <1>9, <1>10, <1>11, <1>12, <1>13,
             <1>14, <1>15, <1>16, <1>17, <1>18
             DEF StoreNext, BuildStep, Ends, Reads, Scans

\* With one deletion at most, the whole folder is listed only while the session is gone.
LEMMA OnceKept == StoreInv /\ StoreNext => DeletedOnce'
  <1> SUFFICES ASSUME StoreInv, StoreNext PROVE DeletedOnce'
    OBVIOUS
  <1> USE StoreAssumption DEF storeVars, Row, Disk, Recorded, Copies, Cleaning, Counts
  <1>0. StoreShape /\ Undisturbed /\ CleaningSpares /\ DeletedOnce
    BY DEF StoreInv
  <1>1. CASE ClaimJob
    BY <1>0, <1>1 DEF ClaimJob, DeletedOnce
  <1>2. CASE MakeBuildDir
    BY <1>0, <1>2 DEF MakeBuildDir, DeletedOnce
  <1>3. CASE Reads
    BY <1>0, <1>3, ReadFacts DEF DeletedOnce, Reading, Active, Built
  <1>4. CASE BuildFails
    BY <1>0, <1>4 DEF BuildFails, Discard, DeletedOnce
  <1>5. CASE BuildSucceeds
    BY <1>0, <1>5 DEF BuildSucceeds, DeletedOnce
  <1>6. CASE UnlinkCurrent
    BY <1>0, <1>6 DEF UnlinkCurrent, DeletedOnce
  <1>7. CASE LinkCurrent
    BY <1>0, <1>7 DEF LinkCurrent, DeletedOnce
  <1>8. CASE Prune
    BY <1>0, <1>8 DEF Prune, DeletedOnce
  <1>9. CASE RecordBuild
    BY <1>0, <1>9 DEF RecordBuild, Idle, DeletedOnce
  <1>10. CASE Ends
    BY <1>0, <1>10, EndFacts DEF Idle, DeletedOnce, StoreInv
  <1>11. CASE RefreshInput
    BY <1>0, <1>11 DEF RefreshInput, DeletedOnce
  <1>12. CASE DeleteRow
    BY <1>0, <1>12 DEF DeleteRow, StoreShape, DeletedOnce
  <1>13. CASE CreateAgain
    BY <1>0, <1>13 DEF CreateAgain, DeletedOnce
  <1>14. CASE Scans
    BY <1>0, <1>14, ScanFacts DEF DeletedOnce
  <1>15. CASE WalkDisk
    <2>1. /\ report' = Candidates(request.known, request.busy) /\ request.pc = "walk"
          /\ UNCHANGED <<Row, Disk, Recorded, input, Copies, build, Counts>>
      BY <1>15, WalkFacts
    <2>2. \A c \in report' : c = Whole \/ (c \in Builds /\ folder[c] # "none")
      BY <1>15, WalkFacts
    <2>4. /\ request' \in [pc : {"none", "walk", "delete"}, ids : SUBSET (Builds \cup {Whole}),
                    known : BOOLEAN, busy : BOOLEAN, found : SUBSET (Builds \cup {Whole})]
          /\ request'.ids \subseteq request.ids /\ request'.pc # "walk"
          /\ request'.found \subseteq request'.ids
          /\ request'.pc = "delete" => /\ request'.ids = request.ids /\ request'.known = request.known
                                      /\ request'.busy = request.busy
                                            /\ request'.found \subseteq report'
      BY <1>15, WalkFacts
    <2> HIDE DEF Whole
    <2>5. request.known => Whole \notin report'
      BY <2>1 DEF Candidates, Whole, Built, Builds
    <2>6. Whole \in report' => Built # {}
      BY <2>1, <2>5 DEF Candidates
    <2>7. Whole \in report' => inherited \/ known
      BY <1>0, <2>6 DEF Undisturbed
    <2> QED BY <1>0, <2>1, <2>4, <2>5, <2>7 DEF DeletedOnce, StoreShape
  <1>16. ASSUME NEW c \in Builds \cup {Whole}, DeleteCandidate(c) PROVE DeletedOnce'
    BY <1>0, <1>16 DEF DeleteCandidate, DeletedOnce
  <1>17. CASE DeletionEnds
    BY <1>0, <1>17 DEF DeletionEnds, NoRequest, DeletedOnce
  <1>18. CASE WorkerRestarts
    BY <1>0, <1>18, RestartFacts DEF DeletedOnce
  <1> QED BY <1>1, <1>2, <1>3, <1>4, <1>5, <1>6, <1>7, <1>8, <1>9, <1>10, <1>11, <1>12, <1>13,
             <1>14, <1>15, <1>16, <1>17, <1>18
             DEF StoreNext, BuildStep, Ends, Reads, Scans

\* The record follows the link: a build links, prunes and records without a step of another
\* actor moving the link.
LEMMA SnapshotKept == StoreInv /\ StoreNext => SnapshotFollows'
  <1> SUFFICES ASSUME StoreInv, StoreNext PROVE SnapshotFollows'
    OBVIOUS
  <1> USE StoreAssumption DEF storeVars, Row, Disk, Recorded, Copies, Cleaning, Counts
  <1>0. StoreShape /\ BuildNumbers /\ Undisturbed /\ CleaningSpares /\ DeletedOnce /\ SnapshotFollows
    BY DEF StoreInv
  <1>1. CASE ClaimJob
    BY <1>0, <1>1 DEF ClaimJob, SnapshotFollows
  <1>2. CASE MakeBuildDir
    <2>1. named \in Nat /\ snapshot \in Builds \cup {NoBuild} /\ named' = named + 1
      BY <1>0, <1>2 DEF MakeBuildDir, StoreShape, StoreTypeOK
    <2>2. snapshot # NoBuild /\ snapshot <= named => snapshot <= named'
      BY <2>1 DEF Builds
    <2>3. /\ build.pc = "claimed" /\ build'.pc = "stat"
          /\ UNCHANGED <<current, snapshot, unrecorded, inherited>>
      BY <1>0, <1>2 DEF MakeBuildDir, StoreShape
    <2> QED BY <1>0, <2>2, <2>3 DEF SnapshotFollows
  <1>3. CASE Reads
    BY <1>0, <1>3, ReadFacts DEF SnapshotFollows, Reading, Active, Built
  <1>4. CASE BuildFails
    BY <1>0, <1>4 DEF BuildFails, Discard, SnapshotFollows
  <1>5. CASE BuildSucceeds
    BY <1>0, <1>5 DEF BuildSucceeds, StoreShape, StoreTypeOK, BuildNumbers, SnapshotFollows, Active
  <1>6. CASE UnlinkCurrent
    BY <1>0, <1>6 DEF UnlinkCurrent, SnapshotFollows
  <1>7. CASE LinkCurrent
    BY <1>0, <1>7
       DEF LinkCurrent, StoreShape, StoreTypeOK, BuildNumbers, Undisturbed, CleaningSpares,
           DeletedOnce, SnapshotFollows, Active, Built
  <1>8. CASE Prune
    BY <1>0, <1>8 DEF Prune, SnapshotFollows
  <1>9. CASE RecordBuild
    <2>1. /\ build.pc \in {"record", "failed"} /\ build'.pc = "idle"
          /\ UNCHANGED <<current, inherited, named>>
      BY <1>9 DEF RecordBuild, Idle
    <2>2. CASE build.pc = "record" /\ busy
      <3>1. snapshot' = build.dir /\ build.dir = named /\ named \in Nat
        BY <1>0, <1>9, <2>2 DEF RecordBuild, BuildNumbers, Active, StoreShape, StoreTypeOK
      <3> QED BY <1>0, <2>1, <2>2, <3>1 DEF SnapshotFollows
    <2>3. CASE ~(build.pc = "record" /\ busy)
      <3>1. snapshot' = snapshot /\ unrecorded' = unrecorded
        BY <1>9, <2>3 DEF RecordBuild
      <3>2. ~inherited => build.pc = "failed"
        BY <1>0, <2>1, <2>3 DEF Undisturbed
      <3> QED BY <1>0, <2>1, <3>1, <3>2 DEF SnapshotFollows
    <2> QED BY <2>2, <2>3
  <1>10. CASE Ends
    BY <1>0, <1>10, EndFacts DEF Idle, StoreShape, StoreTypeOK, Undisturbed, SnapshotFollows, StoreInv
  <1>11. CASE RefreshInput
    BY <1>0, <1>11 DEF RefreshInput, SnapshotFollows
  <1>12. CASE DeleteRow
    BY <1>0, <1>12 DEF DeleteRow, SnapshotFollows
  <1>13. CASE CreateAgain
    BY <1>0, <1>13 DEF CreateAgain, SnapshotFollows
  <1>14. CASE Scans
    BY <1>0, <1>14, ScanFacts DEF SnapshotFollows
  <1>15. CASE WalkDisk
    BY <1>0, <1>15 DEF WalkDisk, NoRequest, Candidates, SnapshotFollows
  <1>16. ASSUME NEW c \in Builds \cup {Whole}, DeleteCandidate(c) PROVE SnapshotFollows'
    BY <1>0, <1>16
       DEF DeleteCandidate, StoreShape, StoreTypeOK, BuildNumbers, Undisturbed, CleaningSpares,
           DeletedOnce, SnapshotFollows, Active, Built
  <1>17. CASE DeletionEnds
    BY <1>0, <1>17 DEF DeletionEnds, NoRequest, SnapshotFollows
  <1>18. CASE WorkerRestarts
    BY <1>0, <1>18, RestartFacts DEF StoreShape, StoreTypeOK, Undisturbed, SnapshotFollows
  <1> QED BY <1>1, <1>2, <1>3, <1>4, <1>5, <1>6, <1>7, <1>8, <1>9, <1>10, <1>11, <1>12, <1>13,
             <1>14, <1>15, <1>16, <1>17, <1>18
             DEF StoreNext, BuildStep, Ends, Reads, Scans

LEMMA StoreStarts == StoreInit => StoreInv
  <1> SUFFICES ASSUME StoreInit PROVE StoreInv
    OBVIOUS
  <1> USE StoreAssumption DEF StoreInit
  <1>1. StoreShape
    <2>1. 0 \in 0..MaxInputs /\ 0 \in 0..MaxBuilds /\ 1 \in 1..MaxInputs
          /\ 0 \in 0..MaxDeletions /\ 0 \in 0..MaxDeaths
      OBVIOUS
    <2>2. build \in [pc : {"idle", "claimed"} \cup Active, dir : Builds \cup {NoBuild},
                     key : 0..MaxInputs, read : 0..MaxInputs]
      BY <2>1 DEF Idle
    <2>3. request \in [pc : {"none", "walk", "delete"}, ids : SUBSET (Builds \cup {Whole}),
                       known : BOOLEAN, busy : BOOLEAN, found : SUBSET (Builds \cup {Whole})]
      BY DEF NoRequest
    <2>4. copy \in [of : 0..MaxInputs, whole : BOOLEAN]
      BY <2>1
    <2>5. request.found \subseteq request.ids
      BY DEF NoRequest
    <2> QED BY <2>1, <2>2, <2>3, <2>4, <2>5 DEF StoreShape, StoreTypeOK
  <1>2. BuildNumbers /\ CopyTold
    BY DEF BuildNumbers, CopyTold, CopyIsFresh, Idle, NoRequest, Active
  <1>3. Undisturbed /\ CleaningSpares
    BY DEF Undisturbed, CleaningSpares, Idle, NoRequest, Active, Built
  <1>4. DeletedOnce /\ SnapshotFollows
    BY DEF DeletedOnce, SnapshotFollows, Idle, NoRequest
  <1> QED BY <1>1, <1>2, <1>3, <1>4 DEF StoreInv

LEMMA StoreStays == StoreInv /\ UNCHANGED storeVars => StoreInv'
  <1> SUFFICES ASSUME StoreInv, UNCHANGED storeVars PROVE StoreInv'
    OBVIOUS
  <1> USE DEF StoreInv, storeVars
  <1>1. StoreShape' /\ BuildNumbers' /\ CopyTold'
    BY DEF StoreShape, StoreTypeOK, BuildNumbers, CopyTold, CopyIsFresh
  <1>2. Undisturbed' /\ CleaningSpares' /\ DeletedOnce' /\ SnapshotFollows'
    BY DEF Undisturbed, CleaningSpares, DeletedOnce, SnapshotFollows, Built
  <1> QED BY <1>1, <1>2

\* The invariant of the store is inductive.
LEMMA StoreKept == StoreInv /\ [StoreNext]_storeVars => StoreInv'
  <1>1. StoreInv /\ StoreNext => StoreInv'
    BY ShapeKept, NumbersKept, CopyKept, UndisturbedKept, CleaningKept, OnceKept, SnapshotKept
       DEF StoreInv
  <1> QED BY <1>1, StoreStays

\* What the invariant says of the properties of the store.
LEMMA StoreShows ==
    StoreInv => StoreTypeOK /\ ServedGraphExists /\ CopyIsFresh /\ (MaxDeletions <= 1
          => SnapshotIsServed)
  <1> SUFFICES ASSUME StoreInv
               PROVE StoreTypeOK /\ ServedGraphExists /\ CopyIsFresh /\ (MaxDeletions <= 1
                     => SnapshotIsServed)
    OBVIOUS
  <1>1. StoreTypeOK /\ CopyIsFresh
    BY DEF StoreInv, StoreShape, CopyTold
  <1>2. ServedGraphExists
    BY DEF StoreInv, Undisturbed, ServedGraphExists
  <1>3. MaxDeletions <= 1 => SnapshotIsServed
    BY DEF StoreInv, SnapshotFollows, SnapshotIsServed
  <1> QED BY <1>1, <1>2, <1>3

\* The step of CleanupSparesBuild.
SparesBuild ==
    \A c \in Builds :
        (request.pc = "delete" /\ request'.found # request.found
            /\ request.known /\ ~inherited /\ folder'[c] # folder[c])
        => ~(busy /\ c = build.dir) /\ c # current

\* A clean-up deletes neither the folder a build is writing nor the graph that is served
\* (storage.delete, which intersects its request with a second scan).
LEMMA CleanupSpares == StoreInv /\ [StoreNext]_storeVars => SparesBuild
  <1> SUFFICES ASSUME StoreInv, [StoreNext]_storeVars, NEW c \in Builds,
                      request.pc = "delete", request'.found # request.found,
                      request.known, ~inherited, folder'[c] # folder[c]
               PROVE ~(busy /\ c = build.dir) /\ c # current
    BY DEF SparesBuild
  <1>0. StoreShape /\ BuildNumbers /\ Undisturbed /\ CleaningSpares
    BY DEF StoreInv
  <1>1. PICK d \in Builds \cup {Whole} : DeleteCandidate(d)
    BY <1>0
       DEF StoreNext, BuildStep, storeVars, Row, Disk, Recorded, Copies, Cleaning, Counts, ClaimJob,
           MakeBuildDir, StatInput, BeginCopy, EndCopy, CopyRaises, WriteMarker, BuildFails,
           BuildSucceeds, UnlinkCurrent, LinkCurrent, Prune, RecordBuild, SnapshotFails, TickRaises,
           WorkerDies, WorkerRestarts, RefreshInput, DeleteRow, CreateAgain, GetStorage, PostDelete,
           ScanRows, WalkDisk, DeletionEnds, NoRequest
  <1>2. d \in request.found /\ d # Whole /\ d # current /\ ~request.busy /\ d \in request.ids
    BY <1>0, <1>1 DEF DeleteCandidate, CleaningSpares, StoreShape, StoreTypeOK
  <1>3. c = d
    BY <1>0, <1>1, <1>2 DEF DeleteCandidate, StoreShape, StoreTypeOK
  <1>4. build.pc \in Active => build.dir \notin request.ids
    BY <1>0, <1>2 DEF CleaningSpares
  <1>5. build.pc \in Active \/ build.dir = NoBuild
    BY <1>0 DEF BuildNumbers, StoreShape
  <1> QED BY <1>2, <1>3, <1>4, <1>5, StoreAssumption

-----------------------------------------------------------------------------
(* The OSM file and its generations *)

\* A version is at least as old, in refreshes, as its place says; during a rotation the places
\* already moved are one further, and the one about to be filled is empty. A failed rename or a kill
\* breaks this.
OsmInv ==
    /\ osm \in [Places -> 0..MaxOsmRefreshes] /\ age \in [OsmVersions -> Nat]
    /\ osmPc \in {"idle", "rotate", "download"} /\ shift \in Places
    /\ osmRuns \in 0..MaxOsmRefreshes /\ osmFaults \in 0..MaxOsmFaults
    /\ \A g \in Places : osm[g] <= osmRuns /\ (osmPc # "idle" => osm[g] < osmRuns)
    /\ NewestFirst
    /\ osmFaults = 0 =>
         /\ \A g \in Places : osm[g] # 0 =>
              age[osm[g]] >= (IF osmPc = "rotate" /\ g <= shift THEN g + 1 ELSE g)
         /\ osmPc = "rotate" /\ shift # Generations => osm[shift + 1] = 0
         /\ osmPc = "download" => osm[0] = 0

LEMMA OsmStarts == OsmInit => OsmInv
  BY OsmAssumption DEF OsmInit, OsmInv, NewestFirst, Places, OsmVersions

LEMMA OsmStays == OsmInv /\ UNCHANGED osmVars => OsmInv'
  BY DEF OsmInv, osmVars, NewestFirst

\* The invariant of the generations is inductive: a rotation moves them from the oldest on.
LEMMA OsmKept == OsmInv /\ OsmNext => OsmInv'
  <1> SUFFICES ASSUME OsmInv, OsmNext PROVE OsmInv'
    OBVIOUS
  <1> USE OsmAssumption
  <1>1. CASE RefreshOsm
    <2>1. osm' = osm /\ osmRuns' = osmRuns + 1 /\ osmPc = "idle" /\ osmPc' = "rotate"
          /\ shift' = Generations
          /\ osmFaults' = osmFaults /\ osmRuns < MaxOsmRefreshes
          /\ age' = [v \in OsmVersions |-> IF v <= osmRuns THEN age[v] + 1 ELSE 0]
      BY <1>1 DEF RefreshOsm
    <2>2. age' \in [OsmVersions -> Nat] /\ shift' \in Places /\ osmRuns' \in 0..MaxOsmRefreshes
      BY <2>1 DEF OsmInv, Places
    <2>3. \A g \in Places : osm'[g] < osmRuns'
      BY <2>1 DEF OsmInv
    <2>4. NewestFirst'
      BY <2>1 DEF OsmInv, NewestFirst
    <2>5. ASSUME NEW g \in Places, osm'[g] # 0, osmFaults = 0 PROVE age'[osm'[g]] >= g + 1
      <3>1. osm[g] \in OsmVersions /\ osm[g] <= osmRuns
        BY <2>1, <2>5 DEF OsmInv, OsmVersions
      <3>2. age[osm[g]] >= g
        BY <2>1, <2>5 DEF OsmInv
      <3> QED BY <2>1, <3>1, <3>2 DEF OsmInv, Places
    <2>6. \A g \in Places : g <= shift'
      BY <2>1 DEF Places
    <2> QED BY <2>1, <2>2, <2>3, <2>4, <2>5, <2>6 DEF OsmInv
  <1>2. CASE RotateOne
    <2>1. osmPc = "rotate" /\ shift \in Places /\ UNCHANGED <<age, osmRuns>>
          /\ osmPc' = (IF shift = 0 THEN "download" ELSE "rotate")
                /\ shift' = (IF shift = 0 THEN 0 ELSE shift - 1)
          /\ shift' \in Places
      BY <1>2 DEF RotateOne, OsmInv, Places
    <2>2. CASE osmFaults' = osmFaults /\ shift = Generations /\ osm' = [osm EXCEPT ![shift] = 0]
      <3>1. \A g \in Places : osm'[g] = IF g = Generations THEN 0 ELSE osm[g]
        BY <2>1, <2>2 DEF OsmInv
      <3>2. osm' \in [Places -> 0..MaxOsmRefreshes] /\ \A g \in Places : osm'[g] < osmRuns'
        BY <2>1, <2>2, <3>1 DEF OsmInv
      <3>3. NewestFirst'
        BY <3>1 DEF OsmInv, NewestFirst
      <3>4. ASSUME osmFaults = 0, NEW g \in Places, osm'[g] # 0
            PROVE age'[osm'[g]] >= (IF osmPc' = "rotate" /\ g <= shift' THEN g + 1 ELSE g)
        BY <2>1, <2>2, <3>1, <3>4 DEF OsmInv, Places
      <3>5. shift' # Generations /\ osm'[shift' + 1] = 0 /\ osmPc' = "rotate"
        BY <2>1, <2>2, <3>1 DEF Places
      <3> QED BY <2>1, <2>2, <3>1, <3>2, <3>3, <3>4, <3>5 DEF OsmInv
    <2>3. CASE osmFaults' = osmFaults /\ shift # Generations /\ osm[shift] = 0 /\ osm' = osm
      <3>1. osmFaults = 0 => \A g \in Places : osm[g] # 0 =>
              age[osm[g]] >= (IF osmPc' = "rotate" /\ g <= shift' THEN g + 1 ELSE g)
        BY <2>1, <2>3 DEF OsmInv, Places
      <3>2. osmPc' = "rotate" => shift' + 1 = shift
        BY <2>1 DEF Places
      <3>3. osmPc' = "download" => shift = 0
        BY <2>1
      <3> QED BY <2>1, <2>3, <3>1, <3>2, <3>3 DEF OsmInv, NewestFirst
    <2>4. CASE osmFaults' = osmFaults /\ shift # Generations /\ osm[shift] # 0
               /\ osm' = [osm EXCEPT ![shift + 1] = osm[shift], ![shift] = 0]
      <3>1. shift + 1 \in Places
        BY <2>1, <2>4 DEF Places
      <3>2. \A g \in Places : osm'[g] = IF g = shift THEN 0
                                       ELSE IF g = shift + 1 THEN osm[shift] ELSE osm[g]
        BY <2>1, <2>4, <3>1 DEF OsmInv
      <3>3. osm' \in [Places -> 0..MaxOsmRefreshes] /\ \A g \in Places : osm'[g] < osmRuns'
        BY <2>1, <2>4, <3>1, <3>2 DEF OsmInv
      <3>4. NewestFirst'
        <4> SUFFICES ASSUME NEW g \in Places, NEW h \in Places, g < h, osm'[g] # 0, osm'[h] # 0
                     PROVE osm'[g] > osm'[h]
          BY DEF NewestFirst
        <4>1. g # shift /\ h # shift
          BY <3>2
        <4>2. CASE h = shift + 1
          BY <2>1, <2>4, <3>1, <3>2, <4>1, <4>2 DEF OsmInv, NewestFirst, Places
        <4>3. CASE g = shift + 1
          BY <2>1, <2>4, <3>1, <3>2, <4>1, <4>3 DEF OsmInv, NewestFirst, Places
        <4>4. CASE h # shift + 1 /\ g # shift + 1
          BY <3>2, <4>1, <4>4 DEF OsmInv, NewestFirst
        <4> QED BY <4>2, <4>3, <4>4
      <3>5. ASSUME osmFaults = 0, NEW g \in Places, osm'[g] # 0
            PROVE age'[osm'[g]] >= (IF osmPc' = "rotate" /\ g <= shift' THEN g + 1 ELSE g)
        <4>1. CASE g = shift + 1
          BY <2>1, <2>4, <3>2, <3>5, <4>1 DEF OsmInv, Places
        <4>2. CASE g # shift + 1
          BY <2>1, <2>4, <3>2, <3>5, <4>2 DEF OsmInv, Places
        <4> QED BY <4>1, <4>2
      <3>6. osmPc' = "rotate" => osm'[shift' + 1] = 0
        BY <2>1, <3>2 DEF Places
      <3>7. osmPc' = "download" => osm'[0] = 0
        BY <2>1, <3>2 DEF Places
      <3> QED BY <2>1, <2>4, <3>3, <3>4, <3>5, <3>6, <3>7 DEF OsmInv
    <2>5. CASE osmFaults < MaxOsmFaults /\ osmFaults' = osmFaults + 1 /\ UNCHANGED osm
      <3>1. osmFaults' \in 0..MaxOsmFaults /\ osmFaults' # 0
        BY <2>5 DEF OsmInv
      <3> QED BY <2>1, <2>5, <3>1 DEF OsmInv, NewestFirst
    <2> QED BY <1>2, <2>2, <2>3, <2>4, <2>5 DEF RotateOne
  <1>3. CASE FetchOsm
    <2>1. osmPc = "download" /\ osmPc' = "idle" /\ UNCHANGED <<age, shift, osmRuns, osmFaults>>
          /\ 0 \in Places
      BY <1>3 DEF FetchOsm, Places
    <2>2. CASE osm' = osm
      BY <2>1, <2>2 DEF OsmInv, NewestFirst
    <2>3. CASE osm' = [osm EXCEPT ![0] = osmRuns]
      <3>1. \A g \in Places : osm'[g] = IF g = 0 THEN osmRuns ELSE osm[g]
        BY <2>1, <2>3 DEF OsmInv
      <3>2. osm' \in [Places -> 0..MaxOsmRefreshes]
        BY <2>1, <2>3 DEF OsmInv
      <3>3. \A g \in Places : osm'[g] <= osmRuns'
        BY <2>1, <3>1 DEF OsmInv
      <3>4. NewestFirst'
        BY <2>1, <3>1 DEF OsmInv, NewestFirst, Places
      <3>5. ASSUME osmFaults = 0, NEW g \in Places, osm'[g] # 0 PROVE age'[osm'[g]] >= g
        BY <2>1, <3>1, <3>5 DEF OsmInv, Places, OsmVersions
      <3> QED BY <2>1, <3>2, <3>3, <3>4, <3>5 DEF OsmInv
    <2> QED BY <1>3, <2>2, <2>3 DEF FetchOsm
  <1>4. CASE OsmDies
    <2>1. osmPc' = "idle" /\ osmFaults' \in 0..MaxOsmFaults /\ osmFaults' # 0
          /\ UNCHANGED <<osm, age, shift, osmRuns>>
      BY <1>4 DEF OsmDies, OsmInv
    <2> QED BY <2>1 DEF OsmInv, NewestFirst
  <1> QED BY <1>1, <1>2, <1>3, <1>4 DEF OsmNext

\* The step of OsmFileKept.
FileKept ==
    \A v \in OsmVersions :
        ((\E g \in Places : osm[g] = v) /\ (\A g \in Places : osm'[g] # v))
            => (age[v] > Generations \/ osmFaults > 0)

\* A generation that disappears was the oldest one, and the rotation pushed it out
\* (_rotate_osm_pbf), unless a rename failed or a kill came between two.
LEMMA OsmFileStays == OsmInv /\ [OsmNext]_osmVars => FileKept
  <1> SUFFICES ASSUME OsmInv, [OsmNext]_osmVars, NEW v \in OsmVersions, NEW g \in Places, osm[g] = v,
                      \A h \in Places : osm'[h] # v, osmFaults = 0
               PROVE age[v] > Generations
    BY DEF FileKept, OsmInv
  <1> USE OsmAssumption
  <1>0. v # 0 /\ 0 \in Places /\ Generations \in Places
    BY DEF OsmVersions, Places
  <1>1. osm' # osm
    OBVIOUS
  <1>2. CASE RotateOne
    <2>1. osmPc = "rotate" /\ shift \in Places
      BY <1>2 DEF RotateOne, OsmInv
    <2>2. CASE shift = Generations /\ osm' = [osm EXCEPT ![shift] = 0]
      <3>1. g = Generations
        BY <1>0, <2>2 DEF OsmInv
      <3>2. osm[g] # 0 /\ g <= shift /\ Generations \in Nat /\ age[v] \in Nat
        BY <1>0, <2>2, <3>1 DEF OsmInv
      <3>3. age[osm[g]] >= g + 1
        BY <2>1, <3>2 DEF OsmInv
      <3> QED BY <3>1, <3>2, <3>3
    <2>3. CASE shift # Generations /\ osm' = [osm EXCEPT ![shift + 1] = osm[shift], ![shift] = 0]
      <3>1. shift + 1 \in Places
        BY <2>1, <2>3 DEF Places
      <3>2. \A h \in Places : osm'[h] = IF h = shift THEN 0
                                       ELSE IF h = shift + 1 THEN osm[shift] ELSE osm[h]
        BY <2>1, <2>3, <3>1 DEF OsmInv
      <3>3. osm[shift + 1] = 0
        BY <2>1, <2>3 DEF OsmInv
      <3>4. shift + 1 # shift
        BY <2>1 DEF Places
      <3> QED BY <1>0, <3>1, <3>2, <3>3, <3>4
    <2> QED BY <1>1, <1>2, <2>2, <2>3 DEF RotateOne
  <1>3. CASE FetchOsm
    <2>1. osmPc = "download" /\ osm[0] = 0
      BY <1>3 DEF FetchOsm, OsmInv
    <2>2. \A h \in Places : h # 0 => osm'[h] = osm[h]
      BY <1>3 DEF FetchOsm, OsmInv
    <2> QED BY <1>0, <2>1, <2>2
  <1> QED BY <1>1, <1>2, <1>3 DEF OsmNext, osmVars, RefreshOsm, OsmDies

-----------------------------------------------------------------------------
(* The slots of the feeds *)

\* What the fetch of a master-data feed derives, whose content no fetch state remembers.
DerivedFiles == {<<"derived", f>> : f \in Feeds}
IntakeShape == IntakeTypeOK /\ ups \in 0..MaxUploads /\ crashes \in Nat

\* The task of a refresh under way: its slot is the one its own copy of the configuration gives,
\* what it fetched came from the source that copy names, and a refresh that was relocked writes
\* back what is saved.
JobFits ==
    job # Nothing =>
        /\ job.pc \in Running => job.feed \in Feeds /\ job.slot = ProviderSlot(job.config, job.feed)
        /\ job.pc \in {"unchanged", "place", "replace", "state"} => job.got \in Files
        /\ job.pc \in {"ask", "unchanged", "state"} => job.config[job.feed].source = "url"
        /\ job.pc \in {"place", "replace"} => (job.config[job.feed].source = "url"
              /\ job.got[1] = "net") \/ job.got \in DerivedFiles
        /\ (job.pc = "report" /\ job.status = "unchanged") => job.config[job.feed].source = "url"
        /\ job.pc \in {"sweep", "commit"} => job.config = config

\* A file is put where the slot was emptied, and a refresh and an upload do so in slots of two
\* sources.
PlacesApart ==
    /\ (job # Nothing /\ job.pc = "replace") => slot[job.slot] = Nothing
    /\ (upload # Nothing /\ upload.pc = "replace") => slot[upload.slot] = Nothing
    /\ (job # Nothing /\ upload # Nothing /\ job.pc = "replace" /\ upload.pc = "replace")
         => job.slot[2] # upload.slot[2]

\* Without an overlap and a crash, the fetch state of a slot tells what is in it, but between the
\* placing of a file and the saving or forgetting of its state.
StateKnown ==
    (~Overlap /\ crashes = 0) =>
        /\ \A s \in Slots :
             (fetchState[s] # Nothing /\ ~(job # Nothing /\ job.pc = "state" /\ job.slot = s)
                /\ ~(upload # Nothing /\ upload.pc = "forget" /\ upload.slot = s))
             => slot[s] \in {fetchState[s].content, Nothing} \cup DerivedFiles
        /\ (job # Nothing /\ job.pc \in {"ask", "unchanged"})
              => job.previous = fetchState[Label(job.feed)]
        /\ (job # Nothing /\ job.pc = "unchanged") => job.previous # Nothing
              /\ job.previous.content = job.got
        /\ (job # Nothing /\ job.pc = "state") => slot[job.slot] \in {job.got, Nothing}
        /\ UnchangedButDerived

\* Where refreshes and uploads do not overlap, one of them runs.
OneAtATime ==
    ~Overlap => (job = Nothing \/ upload = Nothing) /\ OnlyExpectedFiles

IntakeInv == IntakeShape /\ JobFits /\ PlacesApart /\ StateKnown /\ OneAtATime /\ SavesSurvive

\* Every slot the configuration names exists, and a timetable fetched from a url has the slot of
\* its own format (provider_slot).
LEMMA SlotsOf ==
    /\ \A c \in [Feeds -> Providers], f \in Feeds : ProviderSlot(c, f) \in Slots
          /\ <<f, c[f].format>> \in Slots
    /\ \A c \in [Feeds -> Providers] : PlanSaveQuarantine(c) \subseteq Slots
    /\ \A c \in [Feeds -> Providers], f \in Feeds : c[f].source = "url"
          => ProviderSlot(c, f) = <<f, c[f].format>>
  BY DEF ProviderSlot, TimetableFormat, Slots, Formats, Providers, PlanSaveQuarantine

\* What can be fetched, derived or uploaded is a file.
LEMMA FilesOf ==
    ASSUME IntakeTypeOK, ups \in 0..MaxUploads
    PROVE /\ \A u \in Urls : Net(u) \in Files
          /\ \A f \in Feeds : <<"derived", f>> \in Files
          /\ <<"upload", ups>> \in Files
  BY DEF Files, Net, IntakeTypeOK

LEMMA TaskOf ==
    ASSUME NEW j \in Jobs, NEW f \in Feeds, NEW d \in SUBSET Feeds, NEW p \in Running,
          NEW s \in Slots,
           NEW r \in Records \cup {Nothing}, NEW h \in BOOLEAN
    PROVE  [j EXCEPT !.feed = f, !.todo = d, !.pc = p, !.slot = s, !.previous = r,
          !.have = h] \in Jobs
  BY DEF Jobs

\* A running task works in slots that exist.
LEMMA JobSlots ==
    ASSUME IntakeShape, JobFits, job # Nothing
    PROVE /\ job \in Jobs
          /\ job.pc \in Running => job.feed \in Feeds /\ job.slot \in Slots
                /\ Label(job.feed) \in Slots
  <1>1. job \in Jobs
    BY DEF IntakeShape, IntakeTypeOK
  <1>2. job.config \in [Feeds -> Providers]
    BY <1>1 DEF Jobs
  <1>3. job.pc \in Running => job.feed \in Feeds /\ job.slot = ProviderSlot(job.config, job.feed)
    BY DEF JobFits
  <1> QED BY <1>1, <1>2, <1>3, SlotsOf DEF Label

\* Every step of a save, a refresh, an upload or a crash keeps the types.
LEMMA IntakeShapeKept == IntakeInv /\ IntakeNext => IntakeShape'
  <1> SUFFICES ASSUME IntakeInv, IntakeNext PROVE IntakeShape'
    OBVIOUS
  <1> USE IntakeAssumption, NothingAssumption
  <1>0. IntakeShape /\ JobFits
    BY DEF IntakeInv
  <1>1. ASSUME NEW u \in Urls, PublishFeed(u) PROVE IntakeShape'
    BY <1>0, <1>1 DEF PublishFeed, IntakeShape, IntakeTypeOK
  <1>2. ASSUME NEW f \in Feeds, NEW p \in Providers, SaveConfig(f, p) PROVE IntakeShape'
    <2>1. config' = [config EXCEPT ![f] = p] /\ saved' = config'
          /\ plan' = PlanSaveQuarantine(config')
          /\ UNCHANGED <<version, slot, old, fetchState, job, upload, ups, refreshes, crashes>>
      BY <1>2 DEF SaveConfig
    <2>2. config' \in [Feeds -> Providers]
      BY <1>0, <1>2, <2>1 DEF IntakeShape, IntakeTypeOK
    <2>3. plan' \subseteq Slots
      BY <2>1, <2>2, SlotsOf
    <2> QED BY <1>0, <2>1, <2>2, <2>3 DEF IntakeShape, IntakeTypeOK
  <1>3. CASE ApplySaveQuarantine
    BY <1>0, <1>3 DEF ApplySaveQuarantine, Quarantine, IntakeShape, IntakeTypeOK
  <1>4. CASE RefreshSources
    <2>1. PICK only \in SUBSET Feeds, whole \in BOOLEAN : RefreshSet(whole, only)
      BY <1>4 DEF RefreshSources
    <2>2. job' \in Jobs
      <3>1. Work(config, only) \in SUBSET Feeds
        BY DEF Work
      <3>2. config \in [Feeds -> Providers]
        BY <1>0 DEF IntakeShape, IntakeTypeOK
      <3> QED BY <2>1, <3>1, <3>2 DEF RefreshSet, Jobs
    <2>3. UNCHANGED <<config, saved, plan, version, slot, old, fetchState, upload, ups, saves,
          crashes>>
      BY <2>1 DEF RefreshSet
    <2> QED BY <1>0, <2>2, <2>3 DEF IntakeShape, IntakeTypeOK
  <1>5. ASSUME NEW f \in Feeds, RefreshProvider(f) PROVE IntakeShape'
    <2>1. PICK only \in SUBSET Feeds, whole \in BOOLEAN : RefreshSet(whole, only)
      BY <1>5 DEF RefreshProvider
    <2>2. job' \in Jobs
      <3>1. Work(config, only) \in SUBSET Feeds
        BY DEF Work
      <3>2. config \in [Feeds -> Providers]
        BY <1>0 DEF IntakeShape, IntakeTypeOK
      <3> QED BY <2>1, <3>1, <3>2 DEF RefreshSet, Jobs
    <2>3. UNCHANGED <<config, saved, plan, version, slot, old, fetchState, upload, ups, saves,
          crashes>>
      BY <2>1 DEF RefreshSet
    <2> QED BY <1>0, <2>2, <2>3 DEF IntakeShape, IntakeTypeOK
  <1>6. ASSUME NEW f \in Feeds, StartTask(f) PROVE IntakeShape'
    <2>0. job \in Jobs /\ job.config \in [Feeds -> Providers] /\ f \in job.todo
      BY <1>0, <1>6 DEF StartTask, IntakeShape, IntakeTypeOK, Jobs
    <2>1. ProviderSlot(job.config, f) \in Slots /\ Label(f) \in Slots
      BY <2>0, SlotsOf DEF Label
    <2>2. fetchState[Label(f)] \in Records \cup {Nothing}
      BY <1>0, <2>1 DEF IntakeShape, IntakeTypeOK, Records
    <2> DEFINE left == job.todo \ {f}
               next == IF job.config[f].source = "url" THEN "ask" ELSE "derive"
               prev == fetchState[Label(f)]
               have == slot[Label(f)] # Nothing
               place == ProviderSlot(job.config, f)
               new == [job EXCEPT !.feed = f, !.todo = left, !.pc = next, !.slot = place,
                                  !.previous = prev, !.have = have]
    <2>3. JobStep(new)
      BY <1>6 DEF StartTask
    <2>7. /\ left \in SUBSET Feeds /\ next \in Running /\ prev \in Records \cup {Nothing}
          /\ have \in BOOLEAN /\ place \in Slots
      BY <2>0, <2>1, <2>2 DEF Jobs, Running
    <2> HIDE DEF left, next, prev, have, place
    <2>4. new \in Jobs
      BY <2>0, <2>7, TaskOf
    <2> HIDE DEF new
    <2>6. job' \in Jobs
      BY <2>3, <2>4 DEF JobStep
    <2>5. UNCHANGED <<config, saved, plan, version, upload, ups, refreshes, saves, crashes, slot,
          old, fetchState>>
      BY <1>6 DEF StartTask, JobStep
    <2> QED BY <1>0, <2>5, <2>6 DEF IntakeShape, IntakeTypeOK
  <1>7. CASE Answer
    <2>0. job \in Jobs /\ job.config[job.feed].url \in Urls
      BY <1>0, <1>7 DEF Answer, IntakeShape, IntakeTypeOK, JobFits, Jobs, Running, Providers
    <2>1. Net(job.config[job.feed].url) \in Files
      BY <1>0, <2>0, FilesOf DEF IntakeShape, IntakeTypeOK
    <2>2. \/ \E p \in {"unchanged",
               "place"} : job' = [job EXCEPT !.got = Net(job.config[job.feed].url), !.pc = p]
          \/ job' = [job EXCEPT !.pc = "next", !.status = "skipped"]
      BY <1>7 DEF Answer, JobStep
    <2>4. job' \in Jobs
      <3>1. ASSUME NEW p \in {"unchanged", "place"},
            job' = [job EXCEPT !.got = Net(job.config[job.feed].url), !.pc = p]
            PROVE job' \in Jobs
        <4>1. p \in Running
          BY DEF Running
        <4> QED BY <2>0, <2>1, <3>1, <4>1 DEF Jobs
      <3>2. CASE job' = [job EXCEPT !.pc = "next", !.status = "skipped"]
        BY <2>0, <3>2 DEF Jobs
      <3> QED BY <2>2, <3>1, <3>2
    <2>5. UNCHANGED <<config, saved, plan, version, upload, ups, refreshes, saves, crashes, slot,
          old, fetchState>>
      BY <1>7 DEF Answer, JobStep
    <2> QED BY <1>0, <2>4, <2>5 DEF IntakeShape, IntakeTypeOK
  <1>8. CASE SaveUnchanged
    <2>0. job \in Jobs /\ job.feed \in Feeds /\ job.config \in [Feeds -> Providers]
          /\ job.got \in Files
      BY <1>0, <1>8 DEF SaveUnchanged, IntakeShape, IntakeTypeOK, JobFits, Jobs, Running
    <2>1. [url |-> job.config[job.feed].url, content |-> job.got] \in Records
      BY <2>0 DEF Records, Providers
    <2>2. fetchState' \in [Slots -> Records \cup {Nothing}]
      BY <1>0, <1>8, <2>1 DEF SaveUnchanged, IntakeShape, IntakeTypeOK, Records
    <2>3. job' = [job EXCEPT !.pc = "report", !.status = "unchanged"]
      BY <1>8 DEF SaveUnchanged, JobStep
    <2>4. job' \in Jobs
      BY <2>0, <2>3 DEF Jobs, Running
    <2>5. UNCHANGED <<config, saved, plan, version, upload, ups, refreshes, saves, crashes, slot,
          old>>
      BY <1>8 DEF SaveUnchanged, JobStep
    <2> QED BY <1>0, <2>2, <2>4, <2>5 DEF IntakeShape, IntakeTypeOK, Records
  <1>9. CASE Derive
    <2>0. job \in Jobs /\ job.feed \in Feeds
      BY <1>0, <1>9 DEF Derive, IntakeShape, IntakeTypeOK, JobFits, Running
    <2>1. <<"derived", job.feed>> \in Files
      BY <1>0, <2>0, FilesOf DEF IntakeShape, IntakeTypeOK
    <2>2. \/ job' = [job EXCEPT !.got = <<"derived", job.feed>>, !.pc = "place"]
          \/ job' = [job EXCEPT !.pc = "next", !.status = "skipped"]
      BY <1>9 DEF Derive, JobStep
    <2>4. job' \in Jobs
      <3>1. ASSUME NEW g \in Files, NEW p \in Running PROVE [job EXCEPT !.got = g, !.pc = p] \in Jobs
        BY <2>0 DEF Jobs
      <3>2. [job EXCEPT !.pc = "next", !.status = "skipped"] \in Jobs
        BY <2>0 DEF Jobs
      <3>3. "place" \in Running /\ "unchanged" \in Running
        BY DEF Running
      <3> QED BY <2>1, <2>2, <3>1, <3>2, <3>3
    <2>5. UNCHANGED <<config, saved, plan, version, upload, ups, refreshes, saves, crashes, slot,
          old, fetchState>>
      BY <1>9 DEF Derive, JobStep
    <2> QED BY <1>0, <2>4, <2>5 DEF IntakeShape, IntakeTypeOK
  <1>10. CASE PlaceRotate
    BY <1>0, <1>10
       DEF PlaceRotate, JobStep, Rotate, Placing, IntakeShape, IntakeTypeOK, Running, Jobs
  <1>11. CASE PlaceReplace
    <2>1. job # Nothing /\ job \in Jobs /\ job.slot \in Slots /\ job.got \in Files
      BY <1>0, <1>11, JobSlots DEF PlaceReplace, JobFits, Running
    <2>2. /\ slot' = [slot EXCEPT ![job.slot] = job.got]
          /\ job' = [job EXCEPT !.pc = IF job.got[1] = "net" THEN "state" ELSE "report",
                !.status = "fetched"]
          /\ UNCHANGED <<config, saved, plan, version, upload, ups, refreshes, saves, crashes, old,
                fetchState>>
      BY <1>11 DEF PlaceReplace, JobStep, Replace
    <2>3. (IF job.got[1] = "net" THEN "state" ELSE "report") \in Running
      BY DEF Running
    <2>4. job' \in Jobs
      BY <2>1, <2>2, <2>3 DEF Jobs
    <2>5. slot' \in [Slots -> Files \cup {Nothing}]
      BY <1>0, <2>1, <2>2 DEF IntakeShape, IntakeTypeOK
    <2> QED BY <1>0, <2>2, <2>4, <2>5 DEF IntakeShape, IntakeTypeOK
  <1>12. CASE SaveState
    <2>0. job \in Jobs /\ job.feed \in Feeds /\ job.config \in [Feeds -> Providers]
          /\ job.got \in Files
      BY <1>0, <1>12 DEF SaveState, IntakeShape, IntakeTypeOK, JobFits, Jobs, Running
    <2>1. [url |-> job.config[job.feed].url, content |-> job.got] \in Records
      BY <2>0 DEF Records, Providers
    <2>2. fetchState' \in [Slots -> Records \cup {Nothing}]
      BY <1>0, <1>12, <2>1 DEF SaveState, IntakeShape, IntakeTypeOK, Records
    <2>3. job' = [job EXCEPT !.pc = "report"]
      BY <1>12 DEF SaveState, JobStep
    <2>4. job' \in Jobs
      BY <2>0, <2>3 DEF Jobs, Running
    <2>5. UNCHANGED <<config, saved, plan, version, upload, ups, refreshes, saves, crashes, slot,
          old>>
      BY <1>12 DEF SaveState, JobStep
    <2> QED BY <1>0, <2>2, <2>4, <2>5 DEF IntakeShape, IntakeTypeOK, Records
  <1>13. CASE NextTask
    BY <1>0, <1>13 DEF NextTask, JobStep, IntakeShape, IntakeTypeOK, Running, Jobs
  <1>14. CASE Relock
    <2>1. job \in Jobs /\ config \in [Feeds -> Providers]
      BY <1>0, <1>14 DEF Relock, IntakeShape, IntakeTypeOK
    <2>2. /\ job' = [job EXCEPT !.pc = IF job.whole THEN "sweep" ELSE "commit", !.config = config]
          /\ UNCHANGED <<config, saved, plan, version, slot, old, fetchState, upload, ups, refreshes,
                saves, crashes>>
      BY <1>14 DEF Relock, JobStep
    <2>3. (IF job.whole THEN "sweep" ELSE "commit") \in {"sweep", "commit"}
      OBVIOUS
    <2>4. job' \in Jobs
      BY <2>1, <2>2, <2>3 DEF Jobs
    <2> QED BY <1>0, <2>2, <2>4 DEF IntakeShape, IntakeTypeOK
  <1>15. CASE SweepOrphans
    BY <1>0, <1>15 DEF SweepOrphans, JobStep, Quarantine, IntakeShape, IntakeTypeOK, Running, Jobs
  <1>16. CASE FinishSourcesRefresh
    BY <1>0, <1>16 DEF FinishSourcesRefresh, WriteBack, IntakeShape, IntakeTypeOK, Running, Jobs
  <1>17. CASE FinaliseProviderRefresh
    BY <1>0, <1>17 DEF FinaliseProviderRefresh, WriteBack, IntakeShape, IntakeTypeOK, Running, Jobs
  <1>18. ASSUME NEW f \in Feeds, UploadToSession(f) PROVE IntakeShape'
    <2>0. config \in [Feeds -> Providers] /\ ups \in 0..MaxUploads /\ ups < MaxUploads
      BY <1>0, <1>18 DEF UploadToSession, IntakeShape, IntakeTypeOK
    <2>1. <<f, config[f].format>> \in Slots /\ <<"upload", ups>> \in Files
      BY <1>0, <2>0, SlotsOf, FilesOf DEF IntakeShape, IntakeTypeOK
    <2>2. upload' \in Uploads
      BY <1>18, <2>1 DEF UploadToSession, Uploads
    <2>3. ups' \in 0..MaxUploads
      BY <1>18, <2>0 DEF UploadToSession
    <2>5. UNCHANGED <<config, saved, plan, version, slot, old, fetchState, job, refreshes, saves,
          crashes>>
      BY <1>18 DEF UploadToSession
    <2> QED BY <1>0, <2>2, <2>3, <2>5 DEF IntakeShape, IntakeTypeOK
  <1>19. CASE UploadRotate
    BY <1>0, <1>19 DEF UploadRotate, UploadStep, Rotate, Placing, IntakeShape, IntakeTypeOK, Uploads
  <1>20. CASE UploadReplace
    BY <1>0, <1>20 DEF UploadReplace, UploadStep, Replace, IntakeShape, IntakeTypeOK, Uploads
  <1>21. CASE ForgetFetchState
    BY <1>0, <1>21 DEF ForgetFetchState, UploadStep, IntakeShape, IntakeTypeOK
  <1>22. CASE Crash
    BY <1>0, <1>22 DEF Crash, IntakeShape, IntakeTypeOK
  <1> QED BY <1>1, <1>2, <1>3, <1>4, <1>5, <1>6, <1>7, <1>8, <1>9, <1>10, <1>11, <1>12, <1>13,
             <1>14, <1>15, <1>16, <1>17, <1>18, <1>19, <1>20, <1>21, <1>22
             DEF IntakeNext

\* A refresh keeps working on the copy of the configuration it began with, whatever is saved.
LEMMA JobFitsKept == IntakeInv /\ IntakeNext => JobFits'
  <1> SUFFICES ASSUME IntakeInv, IntakeNext PROVE JobFits'
    OBVIOUS
  <1> USE IntakeAssumption, NothingAssumption
  <1>0. IntakeShape /\ JobFits
    BY DEF IntakeInv
  <1>1. ASSUME NEW u \in Urls, PublishFeed(u) PROVE JobFits'
    BY <1>0, <1>1 DEF PublishFeed, JobFits
  <1>2. ASSUME NEW f \in Feeds, NEW p \in Providers, SaveConfig(f, p) PROVE JobFits'
    BY <1>0, <1>2 DEF SaveConfig, RowFree, JobFits
  <1>3. CASE ApplySaveQuarantine
    BY <1>0, <1>3 DEF ApplySaveQuarantine, Quarantine, JobFits
  <1>4. CASE RefreshSources
    BY <1>0, <1>4 DEF RefreshSources, RefreshSet, JobFits, Running
  <1>5. ASSUME NEW f \in Feeds, RefreshProvider(f) PROVE JobFits'
    BY <1>0, <1>5 DEF RefreshProvider, RefreshSet, JobFits, Running
  <1>6. ASSUME NEW f \in Feeds, StartTask(f) PROVE JobFits'
    BY <1>0, <1>6 DEF StartTask, JobStep, JobFits
  <1>7. CASE Answer
    <2>0. job \in Jobs /\ job.feed \in Feeds /\ job.slot = ProviderSlot(job.config, job.feed)
          /\ job.config[job.feed].source = "url" /\ job.config[job.feed].url \in Urls
                /\ job.pc = "ask"
      BY <1>0, <1>7 DEF Answer, IntakeShape, IntakeTypeOK, JobFits, Jobs, Running, Providers
    <2>1. Net(job.config[job.feed].url) \in Files
      BY <1>0, <2>0, FilesOf DEF IntakeShape, IntakeTypeOK
    <2>2. \/ \E p \in {"unchanged",
               "place"} : job' = [job EXCEPT !.got = Net(job.config[job.feed].url), !.pc = p]
          \/ job' = [job EXCEPT !.pc = "next", !.status = "skipped"]
      BY <1>7 DEF Answer, JobStep
    <2>3. Net(job.config[job.feed].url)[1] = "net"
      BY DEF Net
    <2>4. ASSUME NEW p \in {"unchanged", "place"},
          job' = [job EXCEPT !.got = Net(job.config[job.feed].url), !.pc = p]
          PROVE JobFits'
      <3>1. /\ job'.pc = p /\ job'.feed = job.feed /\ job'.slot = job.slot /\ job'.config = job.config
            /\ job'.got = Net(job.config[job.feed].url)
        BY <2>0, <2>4 DEF Jobs
      <3>2. ProviderSlot(job.config, job.feed) = ProviderSlot(job'.config, job'.feed)
        BY <3>1
      <3> QED BY <2>0, <2>1, <2>3, <3>1, <3>2 DEF JobFits
    <2>5. CASE job' = [job EXCEPT !.pc = "next", !.status = "skipped"]
      BY <2>0, <2>5 DEF JobFits, Jobs, Running
    <2> QED BY <2>2, <2>4, <2>5
  <1>8. CASE SaveUnchanged
    BY <1>0, <1>8 DEF SaveUnchanged, JobStep, JobFits, Running
  <1>9. CASE Derive
    <2>0. job \in Jobs /\ job.feed \in Feeds /\ job.slot = ProviderSlot(job.config, job.feed)
      BY <1>0, <1>9 DEF Derive, IntakeShape, IntakeTypeOK, JobFits, Running
    <2>1. <<"derived", job.feed>> \in Files
      BY <1>0, <2>0, FilesOf DEF IntakeShape, IntakeTypeOK
    <2>2. \/ job' = [job EXCEPT !.pc = "place", !.got = <<"derived", job.feed>>]
          \/ job' = [job EXCEPT !.pc = "next", !.status = "skipped"]
      BY <1>9 DEF Derive, JobStep
    <2>3. <<"derived", job.feed>> \in DerivedFiles
      BY <2>0 DEF DerivedFiles
    <2>4. CASE job' = [job EXCEPT !.got = <<"derived", job.feed>>, !.pc = "place"]
      <3>1. job'.pc = "place" /\ job'.feed = job.feed /\ job'.slot = job.slot
            /\ job'.config = job.config
            /\ job'.got = <<"derived", job.feed>>
        BY <2>0, <2>4 DEF Jobs
      <3>2. job'.got \in DerivedFiles /\ job'.got \in Files
        BY <2>1, <2>3, <3>1
      <3>3. ProviderSlot(job.config, job.feed) = ProviderSlot(job'.config, job'.feed)
        BY <3>1
      <3> QED BY <2>0, <3>1, <3>2, <3>3 DEF JobFits
    <2>5. CASE job' = [job EXCEPT !.pc = "next", !.status = "skipped"]
      BY <2>0, <2>5 DEF JobFits, Jobs, Running
    <2> QED BY <2>2, <2>4, <2>5
  <1>10. CASE PlaceRotate
    BY <1>0, <1>10 DEF PlaceRotate, JobStep, Rotate, Placing, JobFits, Running
  <1>11. CASE PlaceReplace
    BY <1>0, <1>11
       DEF PlaceReplace, JobStep, Replace, IntakeShape, IntakeTypeOK, JobFits, Running, Jobs,
           DerivedFiles
  <1>12. CASE SaveState
    BY <1>0, <1>12 DEF SaveState, JobStep, JobFits, Running
  <1>13. CASE NextTask
    BY <1>0, <1>13 DEF NextTask, JobStep, JobFits, Running
  <1>14. CASE Relock
    BY <1>0, <1>14 DEF Relock, JobStep, JobFits, Running
  <1>15. CASE SweepOrphans
    BY <1>0, <1>15 DEF SweepOrphans, JobStep, Quarantine, JobFits, Running
  <1>16. CASE FinishSourcesRefresh
    BY <1>0, <1>16 DEF FinishSourcesRefresh, WriteBack, JobFits
  <1>17. CASE FinaliseProviderRefresh
    BY <1>0, <1>17 DEF FinaliseProviderRefresh, WriteBack, JobFits
  <1>18. ASSUME NEW f \in Feeds, UploadToSession(f) PROVE JobFits'
    BY <1>0, <1>18 DEF UploadToSession, JobFits
  <1>19. CASE UploadRotate
    BY <1>0, <1>19 DEF UploadRotate, UploadStep, Rotate, Placing, JobFits
  <1>20. CASE UploadReplace
    BY <1>0, <1>20 DEF UploadReplace, UploadStep, Replace, JobFits
  <1>21. CASE ForgetFetchState
    BY <1>0, <1>21 DEF ForgetFetchState, UploadStep, JobFits
  <1>22. CASE Crash
    BY <1>0, <1>22 DEF Crash, JobFits
  <1> QED BY <1>1, <1>2, <1>3, <1>4, <1>5, <1>6, <1>7, <1>8, <1>9, <1>10, <1>11, <1>12, <1>13,
             <1>14, <1>15, <1>16, <1>17, <1>18, <1>19, <1>20, <1>21, <1>22
             DEF IntakeNext

\* The slot a refresh or an upload emptied stays empty until it puts its file there.
LEMMA ApartKept == IntakeInv /\ IntakeNext => PlacesApart'
  <1> SUFFICES ASSUME IntakeInv, IntakeNext PROVE PlacesApart'
    OBVIOUS
  <1> USE IntakeAssumption, NothingAssumption
  <1>0. IntakeShape /\ JobFits /\ PlacesApart
    BY DEF IntakeInv
  <1>1. ASSUME NEW u \in Urls, PublishFeed(u) PROVE PlacesApart'
    BY <1>0, <1>1 DEF PublishFeed, PlacesApart
  <1>2. ASSUME NEW f \in Feeds, NEW p \in Providers, SaveConfig(f, p) PROVE PlacesApart'
    BY <1>0, <1>2 DEF SaveConfig, RowFree, PlacesApart
  <1>3. CASE ApplySaveQuarantine
    <2>1. UNCHANGED <<job, upload>> /\ \A s \in Slots : slot[s] = Nothing => slot'[s] = Nothing
      BY <1>3 DEF ApplySaveQuarantine, Quarantine
    <2>2. (job # Nothing /\ job.pc = "replace") => job.slot \in Slots
      BY <1>0, JobSlots DEF Running
    <2>3. upload # Nothing => upload.slot \in Slots
      BY <1>0 DEF IntakeShape, IntakeTypeOK, Uploads
    <2> QED BY <1>0, <2>1, <2>2, <2>3 DEF PlacesApart
  <1>4. CASE RefreshSources
    BY <1>0, <1>4 DEF RefreshSources, RefreshSet, PlacesApart
  <1>5. ASSUME NEW f \in Feeds, RefreshProvider(f) PROVE PlacesApart'
    BY <1>0, <1>5 DEF RefreshProvider, RefreshSet, PlacesApart
  <1>6. ASSUME NEW f \in Feeds, StartTask(f) PROVE PlacesApart'
    BY <1>0, <1>6 DEF StartTask, JobStep, PlacesApart
  <1>7. CASE Answer
    BY <1>0, <1>7 DEF Answer, JobStep, Net, IntakeShape, IntakeTypeOK, PlacesApart, Jobs
  <1>8. CASE SaveUnchanged
    BY <1>0, <1>8 DEF SaveUnchanged, JobStep, PlacesApart
  <1>9. CASE Derive
    BY <1>0, <1>9 DEF Derive, JobStep, IntakeShape, IntakeTypeOK, PlacesApart, Jobs
  <1>10. CASE PlaceRotate
    <2>1. job # Nothing /\ job \in Jobs /\ job.slot \in Slots /\ upload' = upload
          /\ job' = [job EXCEPT !.pc = "replace"] /\ slot' = [slot EXCEPT ![job.slot] = Nothing]
      BY <1>0, <1>10, JobSlots DEF PlaceRotate, Rotate, JobStep, Running
    <2>2. (upload # Nothing /\ upload.pc = "replace") => job.slot[2] # upload.slot[2]
      BY <1>10 DEF PlaceRotate, Placing
    <2>3. upload # Nothing => upload.slot \in Slots
      BY <1>0 DEF IntakeShape, IntakeTypeOK, Uploads
    <2>4. slot'[job.slot] = Nothing /\ \A s \in Slots : slot[s] = Nothing => slot'[s] = Nothing
      BY <1>0, <2>1 DEF IntakeShape, IntakeTypeOK
    <2>5. job'.slot = job.slot
      BY <2>1 DEF Jobs
    <2> QED BY <1>0, <2>1, <2>2, <2>3, <2>4, <2>5 DEF PlacesApart
  <1>11. CASE PlaceReplace
    BY <1>0, <1>11 DEF PlaceReplace, JobStep, Replace, PlacesApart
  <1>12. CASE SaveState
    BY <1>0, <1>12 DEF SaveState, JobStep, PlacesApart
  <1>13. CASE NextTask
    BY <1>0, <1>13 DEF NextTask, JobStep, PlacesApart
  <1>14. CASE Relock
    BY <1>0, <1>14 DEF Relock, JobStep, PlacesApart
  <1>15. CASE SweepOrphans
    BY <1>0, <1>15
       DEF SweepOrphans, JobStep, Quarantine, IntakeShape, IntakeTypeOK, PlacesApart, Uploads
  <1>16. CASE FinishSourcesRefresh
    BY <1>0, <1>16 DEF FinishSourcesRefresh, WriteBack, PlacesApart
  <1>17. CASE FinaliseProviderRefresh
    BY <1>0, <1>17 DEF FinaliseProviderRefresh, WriteBack, PlacesApart
  <1>18. ASSUME NEW f \in Feeds, UploadToSession(f) PROVE PlacesApart'
    BY <1>0, <1>18 DEF UploadToSession, PlacesApart
  <1>19. CASE UploadRotate
    BY <1>0, <1>19
       DEF UploadRotate, UploadStep, Rotate, Placing, IntakeShape, IntakeTypeOK, PlacesApart,
           Uploads
  <1>20. CASE UploadReplace
    BY <1>0, <1>20 DEF UploadReplace, UploadStep, Replace, PlacesApart
  <1>21. CASE ForgetFetchState
    BY <1>0, <1>21 DEF ForgetFetchState, UploadStep, PlacesApart
  <1>22. CASE Crash
    BY <1>0, <1>22 DEF Crash, PlacesApart
  <1> QED BY <1>1, <1>2, <1>3, <1>4, <1>5, <1>6, <1>7, <1>8, <1>9, <1>10, <1>11, <1>12, <1>13,
             <1>14, <1>15, <1>16, <1>17, <1>18, <1>19, <1>20, <1>21, <1>22
             DEF IntakeNext

\* A refresh and an upload do not begin while the other runs, unless overlaps are allowed.
LEMMA OneKept == IntakeInv /\ IntakeNext => OneAtATime'
  <1> SUFFICES ASSUME IntakeInv, IntakeNext PROVE OneAtATime'
    OBVIOUS
  <1> USE IntakeAssumption, NothingAssumption
  <1>0. IntakeShape /\ JobFits /\ OneAtATime /\ SavesSurvive
    BY DEF IntakeInv
  <1>1. ASSUME NEW u \in Urls, PublishFeed(u) PROVE OneAtATime'
    BY <1>0, <1>1 DEF PublishFeed, OneAtATime, OnlyExpectedFiles
  <1>2. ASSUME NEW f \in Feeds, NEW p \in Providers, SaveConfig(f, p) PROVE OneAtATime'
    BY <1>0, <1>2 DEF SaveConfig, RowFree, OneAtATime, OnlyExpectedFiles
  <1>3. CASE ApplySaveQuarantine
    BY <1>0, <1>3 DEF ApplySaveQuarantine, Quarantine, OneAtATime, OnlyExpectedFiles
  <1>4. CASE RefreshSources
    BY <1>0, <1>4 DEF RefreshSources, RefreshSet, OneAtATime, OnlyExpectedFiles
  <1>5. ASSUME NEW f \in Feeds, RefreshProvider(f) PROVE OneAtATime'
    BY <1>0, <1>5 DEF RefreshProvider, RefreshSet, OneAtATime, OnlyExpectedFiles
  <1>6. ASSUME NEW f \in Feeds, StartTask(f) PROVE OneAtATime'
    BY <1>0, <1>6 DEF StartTask, JobStep, OneAtATime, OnlyExpectedFiles
  <1>7. CASE Answer
    <2>1. job # Nothing /\ job \in Jobs /\ upload' = upload /\ OneAtATime
      BY <1>0, <1>7 DEF Answer, JobStep, IntakeShape, IntakeTypeOK
    <2>2. job'.pc # "commit"
      BY <2>1, <1>7 DEF Answer, JobStep, Jobs
    <2> QED BY <2>1, <2>2 DEF OneAtATime, OnlyExpectedFiles
  <1>8. CASE SaveUnchanged
    BY <1>0, <1>8 DEF SaveUnchanged, JobStep, OneAtATime, OnlyExpectedFiles
  <1>9. CASE Derive
    <2>1. job # Nothing /\ job \in Jobs /\ upload' = upload /\ OneAtATime
      BY <1>0, <1>9 DEF Derive, JobStep, IntakeShape, IntakeTypeOK
    <2>2. job'.pc # "commit"
      BY <2>1, <1>9 DEF Derive, JobStep, Jobs
    <2> QED BY <2>1, <2>2 DEF OneAtATime, OnlyExpectedFiles
  <1>10. CASE PlaceRotate
    BY <1>0, <1>10 DEF PlaceRotate, JobStep, Rotate, Placing, OneAtATime, OnlyExpectedFiles
  <1>11. CASE PlaceReplace
    BY <1>0, <1>11 DEF PlaceReplace, JobStep, Replace, OneAtATime, OnlyExpectedFiles
  <1>12. CASE SaveState
    BY <1>0, <1>12 DEF SaveState, JobStep, OneAtATime, OnlyExpectedFiles
  <1>13. CASE NextTask
    BY <1>0, <1>13 DEF NextTask, JobStep, OneAtATime, OnlyExpectedFiles
  <1>14. CASE Relock
    BY <1>0, <1>14 DEF Relock, JobStep, OneAtATime, OnlyExpectedFiles
  <1>15. CASE SweepOrphans
    BY <1>0, <1>15
       DEF SweepOrphans, JobStep, Quarantine, IntakeShape, IntakeTypeOK, JobFits, Running, Jobs,
           OneAtATime, OnlyExpectedFiles, SavesSurvive
  <1>16. CASE FinishSourcesRefresh
    BY <1>0, <1>16 DEF FinishSourcesRefresh, WriteBack, OneAtATime, OnlyExpectedFiles
  <1>17. CASE FinaliseProviderRefresh
    BY <1>0, <1>17 DEF FinaliseProviderRefresh, WriteBack, OneAtATime, OnlyExpectedFiles
  <1>18. ASSUME NEW f \in Feeds, UploadToSession(f) PROVE OneAtATime'
    BY <1>0, <1>18 DEF UploadToSession, OneAtATime, OnlyExpectedFiles
  <1>19. CASE UploadRotate
    BY <1>0, <1>19 DEF UploadRotate, UploadStep, Rotate, Placing, OneAtATime, OnlyExpectedFiles
  <1>20. CASE UploadReplace
    BY <1>0, <1>20 DEF UploadReplace, UploadStep, Replace, OneAtATime, OnlyExpectedFiles
  <1>21. CASE ForgetFetchState
    BY <1>0, <1>21 DEF ForgetFetchState, UploadStep, OneAtATime, OnlyExpectedFiles
  <1>22. CASE Crash
    BY <1>0, <1>22 DEF Crash, OneAtATime, OnlyExpectedFiles
  <1> QED BY <1>1, <1>2, <1>3, <1>4, <1>5, <1>6, <1>7, <1>8, <1>9, <1>10, <1>11, <1>12, <1>13,
             <1>14, <1>15, <1>16, <1>17, <1>18, <1>19, <1>20, <1>21, <1>22
             DEF IntakeNext

\* What an administrator saved stays until the next save: a refresh relocks before it writes back.
LEMMA SavesKept == IntakeInv /\ IntakeNext => SavesSurvive'
  <1> SUFFICES ASSUME IntakeInv, IntakeNext PROVE SavesSurvive'
    OBVIOUS
  <1> USE IntakeAssumption, NothingAssumption
  <1>0. IntakeShape /\ JobFits /\ SavesSurvive
    BY DEF IntakeInv
  <1>1. ASSUME NEW u \in Urls, PublishFeed(u) PROVE SavesSurvive'
    BY <1>0, <1>1 DEF PublishFeed, SavesSurvive
  <1>2. ASSUME NEW f \in Feeds, NEW p \in Providers, SaveConfig(f, p) PROVE SavesSurvive'
    BY <1>0, <1>2 DEF SaveConfig, RowFree, SavesSurvive
  <1>3. CASE ApplySaveQuarantine
    BY <1>0, <1>3 DEF ApplySaveQuarantine, Quarantine, SavesSurvive
  <1>4. CASE RefreshSources
    BY <1>0, <1>4 DEF RefreshSources, RefreshSet, SavesSurvive
  <1>5. ASSUME NEW f \in Feeds, RefreshProvider(f) PROVE SavesSurvive'
    BY <1>0, <1>5 DEF RefreshProvider, RefreshSet, SavesSurvive
  <1>6. ASSUME NEW f \in Feeds, StartTask(f) PROVE SavesSurvive'
    BY <1>0, <1>6 DEF StartTask, JobStep, SavesSurvive
  <1>7. CASE Answer
    BY <1>0, <1>7 DEF Answer, JobStep, Net, SavesSurvive
  <1>8. CASE SaveUnchanged
    BY <1>0, <1>8 DEF SaveUnchanged, JobStep, SavesSurvive
  <1>9. CASE Derive
    BY <1>0, <1>9 DEF Derive, JobStep, SavesSurvive
  <1>10. CASE PlaceRotate
    BY <1>0, <1>10 DEF PlaceRotate, JobStep, Rotate, Placing, SavesSurvive
  <1>11. CASE PlaceReplace
    BY <1>0, <1>11 DEF PlaceReplace, JobStep, Replace, SavesSurvive
  <1>12. CASE SaveState
    BY <1>0, <1>12 DEF SaveState, JobStep, SavesSurvive
  <1>13. CASE NextTask
    BY <1>0, <1>13 DEF NextTask, JobStep, SavesSurvive
  <1>14. CASE Relock
    BY <1>0, <1>14 DEF Relock, JobStep, SavesSurvive
  <1>15. CASE SweepOrphans
    BY <1>0, <1>15 DEF SweepOrphans, JobStep, Quarantine, SavesSurvive
  <1>16. CASE FinishSourcesRefresh
    BY <1>0, <1>16 DEF FinishSourcesRefresh, WriteBack, JobFits, SavesSurvive
  <1>17. CASE FinaliseProviderRefresh
    BY <1>0, <1>17 DEF FinaliseProviderRefresh, WriteBack, JobFits, SavesSurvive
  <1>18. ASSUME NEW f \in Feeds, UploadToSession(f) PROVE SavesSurvive'
    BY <1>0, <1>18 DEF UploadToSession, SavesSurvive
  <1>19. CASE UploadRotate
    BY <1>0, <1>19 DEF UploadRotate, UploadStep, Rotate, Placing, SavesSurvive
  <1>20. CASE UploadReplace
    BY <1>0, <1>20 DEF UploadReplace, UploadStep, Replace, SavesSurvive
  <1>21. CASE ForgetFetchState
    BY <1>0, <1>21 DEF ForgetFetchState, UploadStep, SavesSurvive
  <1>22. CASE Crash
    BY <1>0, <1>22 DEF Crash, SavesSurvive
  <1> QED BY <1>1, <1>2, <1>3, <1>4, <1>5, <1>6, <1>7, <1>8, <1>9, <1>10, <1>11, <1>12, <1>13,
             <1>14, <1>15, <1>16, <1>17, <1>18, <1>19, <1>20, <1>21, <1>22
             DEF IntakeNext

\* The fetch state keeps telling what is in its slot: it is saved after the file is placed, and
\* an upload makes it forgotten.
LEMMA StateKept == IntakeInv /\ IntakeNext => StateKnown'
  <1> SUFFICES ASSUME IntakeInv, IntakeNext PROVE StateKnown'
    OBVIOUS
  <1> USE IntakeAssumption, NothingAssumption
  <1>0. IntakeShape /\ JobFits /\ OneAtATime /\ StateKnown
    BY DEF IntakeInv
  <1>1. ASSUME NEW u \in Urls, PublishFeed(u) PROVE StateKnown'
    BY <1>0, <1>1 DEF PublishFeed, StateKnown, UnchangedButDerived, Label
  <1>2. ASSUME NEW f \in Feeds, NEW p \in Providers, SaveConfig(f, p) PROVE StateKnown'
    BY <1>0, <1>2 DEF SaveConfig, RowFree, StateKnown, UnchangedButDerived, Label
  <1>3. CASE ApplySaveQuarantine
    <2> SUFFICES ASSUME ~Overlap, crashes' = 0 PROVE StateKnown'
      BY DEF StateKnown
    <2>1. UNCHANGED <<job, upload, fetchState, crashes>>
          /\ \A s \in Slots : slot'[s] \in {slot[s], Nothing}
      BY <1>3 DEF ApplySaveQuarantine, Quarantine
    <2>2. (job # Nothing /\ job.pc \in Running) => job.slot \in Slots /\ Label(job.feed) \in Slots
      BY <1>0, JobSlots
    <2>3. Label(job.feed)' = Label(job.feed)
      BY <2>1 DEF Label
    <2>4. UnchangedButDerived'
      BY <1>0, <2>1, <2>2, <2>3 DEF StateKnown, UnchangedButDerived, Running
    <2> QED BY <1>0, <2>1, <2>2, <2>3, <2>4 DEF StateKnown, Running
  <1>4. CASE RefreshSources
    BY <1>0, <1>4 DEF RefreshSources, RefreshSet, StateKnown, UnchangedButDerived
  <1>5. ASSUME NEW f \in Feeds, RefreshProvider(f) PROVE StateKnown'
    BY <1>0, <1>5 DEF RefreshProvider, RefreshSet, StateKnown, UnchangedButDerived
  <1>6. ASSUME NEW f \in Feeds, StartTask(f) PROVE StateKnown'
    BY <1>0, <1>6 DEF StartTask, JobStep, StateKnown, UnchangedButDerived, Label
  <1>7. CASE Answer
    <2>1. job # Nothing /\ job \in Jobs /\ job.pc = "ask"
          /\ UNCHANGED <<slot, fetchState, upload, crashes>>
      BY <1>0, <1>7 DEF Answer, JobStep, IntakeShape, IntakeTypeOK
    <2>2. CASE job' = [job EXCEPT !.pc = "next", !.status = "skipped"]
      <3>1. job'.pc = "next"
        BY <2>1, <2>2 DEF Jobs
      <3> QED BY <1>0, <2>1, <3>1 DEF StateKnown, UnchangedButDerived
    <2>3. ASSUME NEW got, NEW same \in BOOLEAN,
                 same => job.previous # Nothing /\ job.previous.content = got,
                 job' = [job EXCEPT !.got = got, !.pc = IF same THEN "unchanged" ELSE "place"]
          PROVE StateKnown'
      <3>1. /\ job'.pc = IF same THEN "unchanged" ELSE "place"
            /\ job'.got = got /\ job'.previous = job.previous /\ job'.config = job.config
                  /\ job'.feed = job.feed
        BY <2>1, <2>3 DEF Jobs
      <3>2. Label(job.feed)' = Label(job.feed)
        BY <3>1 DEF Label
      <3> QED BY <1>0, <2>1, <2>3, <3>1, <3>2 DEF StateKnown, UnchangedButDerived
    <2> DEFINE got == Net(job.config[job.feed].url)
               same == job.have /\ job.previous # Nothing /\ job.previous.content = got
    <2>4. \/ job' = [job EXCEPT !.got = got, !.pc = IF same THEN "unchanged" ELSE "place"]
          \/ job' = [job EXCEPT !.pc = "next", !.status = "skipped"]
      BY <1>7 DEF Answer, JobStep
    <2>5. same \in BOOLEAN
      BY <2>1 DEF Jobs
    <2> QED BY <2>2, <2>3, <2>4, <2>5
  <1>8. CASE SaveUnchanged
    <2> SUFFICES ASSUME ~Overlap, crashes' = 0 PROVE StateKnown'
      BY DEF StateKnown
    <2> DEFINE l == Label(job.feed)
    <2>1. job # Nothing /\ job \in Jobs /\ job.pc = "unchanged"
          /\ job.config[job.feed].source = "url" /\ job.feed \in Feeds
      BY <1>0, <1>8 DEF SaveUnchanged, IntakeShape, IntakeTypeOK, JobFits, Running
    <2>2. l \in Slots /\ job.slot = l
      BY <1>0, <2>1, SlotsOf DEF JobFits, Running, Jobs, Label
    <2>3. UNCHANGED <<slot, upload, crashes>> /\ upload = Nothing
          /\ job' = [job EXCEPT !.pc = "report", !.status = "unchanged"]
          /\ fetchState' = [fetchState EXCEPT ![l] = [url |-> job.config[job.feed].url,
                content |-> job.got]]
      BY <1>0, <1>8 DEF SaveUnchanged, JobStep, OneAtATime
    <2>4. fetchState[l] # Nothing /\ fetchState[l].content = job.got
      BY <1>0, <2>1, <2>3 DEF StateKnown
    <2>5. slot[l] \in {job.got, Nothing} \cup DerivedFiles
      BY <1>0, <2>1, <2>2, <2>3, <2>4 DEF StateKnown
    <2>6. fetchState'[l].content = job.got /\ \A s \in Slots : s # l => fetchState'[s] = fetchState[s]
      BY <1>0, <2>2, <2>3 DEF IntakeShape, IntakeTypeOK
    <2>7. job'.pc = "report" /\ job'.got = job.got /\ job'.config = job.config /\ job'.feed = job.feed
      BY <2>1, <2>3 DEF Jobs
    <2>8. Label(job.feed)' = l
      BY <2>7 DEF Label
    <2> HIDE DEF l
    <2>9. UnchangedButDerived'
      BY <2>3, <2>5, <2>7, <2>8 DEF UnchangedButDerived, DerivedFiles
    <2> QED BY <1>0, <2>1, <2>3, <2>5, <2>6, <2>7, <2>9 DEF StateKnown
  <1>9. CASE Derive
    <2>1. job # Nothing /\ job \in Jobs /\ UNCHANGED <<slot, fetchState, upload, crashes>>
          /\ job.pc = "derive"
      BY <1>0, <1>9 DEF Derive, JobStep, IntakeShape, IntakeTypeOK
    <2>2. job'.pc \in {"place", "next"}
      BY <2>1, <1>9 DEF Derive, JobStep, Jobs
    <2> QED BY <1>0, <2>1, <2>2 DEF StateKnown, UnchangedButDerived
  <1>10. CASE PlaceRotate
    BY <1>0, <1>10 DEF PlaceRotate, JobStep, Rotate, Placing, StateKnown, UnchangedButDerived
  <1>11. CASE PlaceReplace
    <2> SUFFICES ASSUME ~Overlap, crashes' = 0 PROVE StateKnown'
      BY DEF StateKnown
    <2>1. job # Nothing /\ job \in Jobs /\ job.pc = "replace" /\ job.slot \in Slots
      BY <1>0, <1>11, JobSlots DEF PlaceReplace, Running
    <2>2. UNCHANGED <<upload, fetchState, crashes>> /\ upload = Nothing
          /\ slot' = [slot EXCEPT ![job.slot] = job.got]
          /\ job' = [job EXCEPT !.pc = IF job.got[1] = "net" THEN "state" ELSE "report",
                !.status = "fetched"]
      BY <1>0, <1>11 DEF PlaceReplace, JobStep, Replace, OneAtATime
    <2>3. slot'[job.slot] = job.got /\ \A s \in Slots : s # job.slot => slot'[s] = slot[s]
      BY <1>0, <2>1, <2>2 DEF IntakeShape, IntakeTypeOK
    <2>4. job'.slot = job.slot /\ job'.got = job.got /\ job'.status = "fetched"
          /\ job'.pc = IF job.got[1] = "net" THEN "state" ELSE "report"
      BY <2>1, <2>2 DEF Jobs
    <2>7. job' \in Jobs
      <3>1. (IF job.got[1] = "net" THEN "state" ELSE "report") \in Running
        BY DEF Running
      <3> QED BY <2>1, <2>2, <3>1 DEF Jobs
    <2>5. job.got[1] = "net" \/ job.got \in DerivedFiles
      BY <1>0, <2>1 DEF JobFits
    <2>6. UnchangedButDerived'
      BY <2>4 DEF UnchangedButDerived
    <2>8. job' # Nothing
      BY <2>7
    <2> QED BY <1>0, <2>1, <2>2, <2>3, <2>4, <2>5, <2>6, <2>8 DEF StateKnown
  <1>12. CASE SaveState
    <2> SUFFICES ASSUME ~Overlap, crashes' = 0 PROVE StateKnown'
      BY DEF StateKnown
    <2> DEFINE l == Label(job.feed)
    <2>1. job # Nothing /\ job \in Jobs /\ job.pc = "state" /\ job.config[job.feed].source = "url"
          /\ job.feed \in Feeds
      BY <1>0, <1>12 DEF SaveState, IntakeShape, IntakeTypeOK, JobFits, Running
    <2>2. l \in Slots /\ job.slot = l
      BY <1>0, <2>1, SlotsOf DEF JobFits, Running, Jobs, Label
    <2>3. UNCHANGED <<slot, upload, crashes>> /\ upload = Nothing
          /\ job' = [job EXCEPT !.pc = "report"]
          /\ fetchState' = [fetchState EXCEPT ![l] = [url |-> job.config[job.feed].url,
                content |-> job.got]]
      BY <1>0, <1>12 DEF SaveState, JobStep, OneAtATime
    <2>5. slot[l] \in {job.got, Nothing}
      BY <1>0, <2>1, <2>2, <2>3 DEF StateKnown
    <2>6. fetchState'[l].content = job.got /\ \A s \in Slots : s # l => fetchState'[s] = fetchState[s]
      BY <1>0, <2>2, <2>3 DEF IntakeShape, IntakeTypeOK
    <2>7. job'.pc = "report" /\ job'.got = job.got /\ job'.config = job.config /\ job'.feed = job.feed
      BY <2>1, <2>3 DEF Jobs
    <2>8. Label(job.feed)' = l
      BY <2>7 DEF Label
    <2> HIDE DEF l
    <2>9. UnchangedButDerived'
      BY <2>3, <2>5, <2>7, <2>8 DEF UnchangedButDerived
    <2> QED BY <1>0, <2>1, <2>2, <2>3, <2>5, <2>6, <2>7, <2>9 DEF StateKnown
  <1>13. CASE NextTask
    BY <1>0, <1>13 DEF NextTask, JobStep, StateKnown, UnchangedButDerived
  <1>14. CASE Relock
    BY <1>0, <1>14 DEF Relock, JobStep, StateKnown, UnchangedButDerived
  <1>15. CASE SweepOrphans
    BY <1>0, <1>15 DEF SweepOrphans, JobStep, Quarantine, StateKnown, UnchangedButDerived
  <1>16. CASE FinishSourcesRefresh
    BY <1>0, <1>16 DEF FinishSourcesRefresh, WriteBack, StateKnown, UnchangedButDerived
  <1>17. CASE FinaliseProviderRefresh
    BY <1>0, <1>17 DEF FinaliseProviderRefresh, WriteBack, StateKnown, UnchangedButDerived
  <1>18. ASSUME NEW f \in Feeds, UploadToSession(f) PROVE StateKnown'
    BY <1>0, <1>18 DEF UploadToSession, StateKnown, UnchangedButDerived
  <1>19. CASE UploadRotate
    BY <1>0, <1>19
       DEF UploadRotate, UploadStep, Rotate, Placing, OneAtATime, StateKnown, UnchangedButDerived
  <1>20. CASE UploadReplace
    <2> SUFFICES ASSUME ~Overlap, crashes' = 0 PROVE StateKnown'
      BY DEF StateKnown
    <2>1. job = Nothing /\ upload # Nothing /\ upload \in Uploads
      BY <1>0, <1>20 DEF UploadReplace, IntakeShape, IntakeTypeOK, OneAtATime
    <2>2. UNCHANGED <<job, fetchState, crashes>> /\ slot' = [slot EXCEPT ![upload.slot] = upload.file]
          /\ upload' = [upload EXCEPT !.pc = "forget"]
      BY <1>20 DEF UploadReplace, UploadStep, Replace
    <2>3. upload'.pc = "forget" /\ upload'.slot = upload.slot
      BY <2>1, <2>2 DEF Uploads
    <2>4. \A s \in Slots : s # upload.slot => slot'[s] = slot[s]
      BY <1>0, <2>2 DEF IntakeShape, IntakeTypeOK
    <2>5. upload' # Nothing
      <3>1. upload' \in Uploads
        BY <2>1, <2>2 DEF Uploads
      <3> QED BY <3>1
    <2> QED BY <1>0, <2>1, <2>2, <2>3, <2>4, <2>5 DEF StateKnown, UnchangedButDerived
  <1>21. CASE ForgetFetchState
    BY <1>0, <1>21
       DEF ForgetFetchState, UploadStep, IntakeShape, IntakeTypeOK, Jobs, OneAtATime, StateKnown,
           UnchangedButDerived
  <1>22. CASE Crash
    BY <1>0, <1>22 DEF Crash, IntakeShape, IntakeTypeOK, Jobs, StateKnown, UnchangedButDerived
  <1> QED BY <1>1, <1>2, <1>3, <1>4, <1>5, <1>6, <1>7, <1>8, <1>9, <1>10, <1>11, <1>12, <1>13,
             <1>14, <1>15, <1>16, <1>17, <1>18, <1>19, <1>20, <1>21, <1>22
             DEF IntakeNext

LEMMA IntakeStarts == IntakeInit => IntakeInv
  <1> SUFFICES ASSUME IntakeInit PROVE IntakeInv
    OBVIOUS
  <1> USE IntakeAssumption DEF IntakeInit
  <1>1. IntakeShape
    BY DEF IntakeShape, IntakeTypeOK
  <1>2. JobFits /\ PlacesApart /\ StateKnown /\ OneAtATime /\ SavesSurvive
    BY
       DEF JobFits, PlacesApart, StateKnown, OneAtATime, SavesSurvive, OnlyExpectedFiles,
           UnchangedButDerived
  <1> QED BY <1>1, <1>2 DEF IntakeInv

LEMMA IntakeStays == IntakeInv /\ UNCHANGED intakeVars => IntakeInv'
  <1> SUFFICES ASSUME IntakeInv, UNCHANGED intakeVars PROVE IntakeInv'
    OBVIOUS
  <1> USE DEF IntakeInv, intakeVars
  <1>1. IntakeShape' /\ JobFits' /\ PlacesApart' /\ SavesSurvive'
    BY DEF IntakeShape, IntakeTypeOK, JobFits, PlacesApart, SavesSurvive
  <1>2. StateKnown'
    BY DEF StateKnown, UnchangedButDerived, Label
  <1>3. OneAtATime'
    BY DEF OneAtATime, OnlyExpectedFiles
  <1> QED BY <1>1, <1>2, <1>3

\* The invariant of the slots is inductive.
LEMMA IntakeKept == IntakeInv /\ [IntakeNext]_intakeVars => IntakeInv'
  <1>1. IntakeInv /\ IntakeNext => IntakeInv'
    BY IntakeShapeKept, JobFitsKept, ApartKept, OneKept, SavesKept, StateKept DEF IntakeInv
  <1> QED BY <1>1, IntakeStays

\* What the invariant says of the properties of the slots.
LEMMA IntakeShows ==
    IntakeInv => IntakeTypeOK /\ SavesSurvive /\ (~Overlap => OnlyExpectedFiles
          /\ UnchangedButDerived)
  BY DEF IntakeInv, IntakeShape, OneAtATime, StateKnown, UnchangedButDerived

\* The step of NoFileDropped.
FilesStay ==
    \A s \in Slots :
        (slot[s] # Nothing /\ slot'[s] # slot[s]) =>
            (old'[s] = slot[s] \/ ApplySaveQuarantine \/ SweepOrphans)

\* A file leaves its slot into the generation behind it, by a refresh or an upload, or into the
\* quarantine.
LEMMA FilesStayed == IntakeInv /\ [IntakeNext]_intakeVars => FilesStay
  <1> SUFFICES ASSUME IntakeInv, [IntakeNext]_intakeVars, NEW s \in Slots,
                      slot[s] # Nothing, slot'[s] # slot[s], ~ApplySaveQuarantine, ~SweepOrphans
               PROVE old'[s] = slot[s]
    BY DEF FilesStay
  <1>0. IntakeShape /\ IntakeTypeOK /\ JobFits /\ PlacesApart
    BY DEF IntakeInv, IntakeShape
  <1>1. PlaceRotate \/ PlaceReplace \/ UploadRotate \/ UploadReplace
    BY
       DEF IntakeNext, intakeVars, PublishFeed, SaveConfig, RefreshSources, RefreshProvider,
           RefreshSet, StartTask,
       JobStep, Answer, SaveUnchanged, Derive, SaveState, NextTask, Relock, FinishSourcesRefresh,
       FinaliseProviderRefresh, WriteBack, UploadToSession, UploadStep, ForgetFetchState, Crash
  <1>2. CASE PlaceRotate
    <2>1. job.slot \in Slots
      BY <1>0, <1>2, JobSlots DEF PlaceRotate, Running
    <2> QED BY <1>0, <1>2, <2>1 DEF PlaceRotate, Rotate, IntakeTypeOK
  <1>3. CASE PlaceReplace
    <2>1. job.slot \in Slots /\ slot[job.slot] = Nothing
          /\ slot' = [slot EXCEPT ![job.slot] = job.got]
      BY <1>0, <1>3, JobSlots DEF PlaceReplace, Replace, PlacesApart, Running
    <2> QED BY <1>0, <2>1 DEF IntakeTypeOK
  <1>4. CASE UploadRotate
    <2>1. upload.slot \in Slots
      BY <1>0, <1>4 DEF UploadRotate, IntakeTypeOK, Uploads
    <2> QED BY <1>0, <1>4, <2>1 DEF UploadRotate, Rotate, IntakeTypeOK
  <1>5. CASE UploadReplace
    <2>1. slot[upload.slot] = Nothing /\ slot' = [slot EXCEPT ![upload.slot] = upload.file]
      BY <1>0, <1>5 DEF UploadReplace, Replace, PlacesApart
    <2> QED BY <1>0, <2>1 DEF IntakeTypeOK
  <1> QED BY <1>1, <1>2, <1>3, <1>4, <1>5

-----------------------------------------------------------------------------
(* A download *)

\* The requests sent, by what each was sent for; one more is out when the loop is past its head.
Spent ==
    tried.restarts + tried.resumes + tried.busy + (IF tried.switched THEN 1 ELSE 0)
    + (IF dpc = "ask" THEN 0 ELSE 1)

\* All chunks received are of version v.
Only(v) == \A i \in 1..Size : dest[i] = v

\* What was received is of the version the validator names, and the announced length is that
\* version's; in a body they are the body's. Only a plain transfer framed by its length has one.
Uniform ==
    /\ total # 0 => ~coded /\ server.framing = "length"
    /\ (dpc \in {"ask", "sent"} /\ validator # NoVersion) =>
          Only(validator) /\ (total # 0 => total = Length[validator])
    /\ (dpc = "sent" /\ resuming) => Resumable
    /\ dpc = "body" =>
          /\ body \in Versions /\ Only(body) /\ validator \in {NoVersion, body}
          /\ Size <= Length[body] /\ (total # 0 => total = Length[body])
          /\ (limit # 0 <=> total # 0)

\* The type invariant, the requests sent within what was spent on them, and the two above.
DownloadInv ==
    DownloadTypeOK /\ requests <= Spent /\ Uniform /\ OneWholeVersion

\* A counter below its bound may be counted up.
LEMMA OneMore == \A bound \in Nat : \A k \in 0..bound : k < bound => k + 1 \in 0..bound
  OBVIOUS

\* What the retries add to what was tried stays within its budget.
LEMMA BudgetsKept ==
    ASSUME NEW t \in Budgets
    PROVE  /\ t.restarts < RetryDelays => [t EXCEPT !.restarts = @ + 1, !.stalled = 0] \in Budgets
           /\ t.busy < BusyDelays => [t EXCEPT !.busy = @ + 1] \in Budgets
           /\ \A s \in 0..MaxStalledResumes :
                 t.resumes < ResumeDelays => [t EXCEPT !.stalled = s, !.resumes = @ + 1] \in Budgets
           /\ [t EXCEPT !.switched = TRUE] \in Budgets
           /\ t.restarts \in 0..RetryDelays /\ t.resumes \in 0..ResumeDelays
           /\ t.busy \in 0..BusyDelays
           /\ t.switched \in BOOLEAN /\ t.stalled \in 0..MaxStalledResumes
  <1>0. RetryDelays \in Nat /\ ResumeDelays \in Nat /\ BusyDelays \in Nat /\ MaxStalledResumes \in Nat
    BY DownloadAssumption
  <1>1. /\ t.restarts \in 0..RetryDelays /\ t.resumes \in 0..ResumeDelays /\ t.busy \in 0..BusyDelays
        /\ t.switched \in BOOLEAN /\ t.stalled \in 0..MaxStalledResumes
    BY DEF Budgets
  <1>2. ASSUME t.restarts < RetryDelays
        PROVE  [t EXCEPT !.restarts = @ + 1, !.stalled = 0] \in Budgets
    <2>1. t.restarts + 1 \in 0..RetryDelays
      BY <1>0, <1>1, <1>2, OneMore
    <2>2. 0 \in 0..MaxStalledResumes
      BY <1>0
    <2> QED BY <2>1, <2>2 DEF Budgets
  <1>3. ASSUME t.busy < BusyDelays PROVE [t EXCEPT !.busy = @ + 1] \in Budgets
    <2>1. t.busy + 1 \in 0..BusyDelays
      BY <1>0, <1>1, <1>3, OneMore
    <2> QED BY <2>1 DEF Budgets
  <1>4. ASSUME NEW s \in 0..MaxStalledResumes, t.resumes < ResumeDelays
        PROVE [t EXCEPT !.stalled = s, !.resumes = @ + 1] \in Budgets
    <2>1. t.resumes + 1 \in 0..ResumeDelays
      BY <1>0, <1>1, <1>4, OneMore
    <2> QED BY <2>1 DEF Budgets
  <1>5. [t EXCEPT !.switched = TRUE] \in Budgets
    BY DEF Budgets
  <1> QED BY <1>1, <1>2, <1>3, <1>4, <1>5

\* What the retries have used, each with its budget.
LEMMA TriedKnown ==
    ASSUME DownloadTypeOK
    PROVE  /\ tried \in Budgets /\ tried.switched \in BOOLEAN
           /\ tried.restarts \in 0..RetryDelays /\ tried.resumes \in 0..ResumeDelays
           /\ tried.busy \in 0..BusyDelays /\ tried.stalled \in 0..MaxStalledResumes
           /\ tried.restarts \in Nat /\ tried.resumes \in Nat
           /\ tried.busy \in Nat /\ tried.stalled \in Nat
           /\ RetryDelays \in Nat /\ ResumeDelays \in Nat /\ BusyDelays \in Nat
           /\ MaxStalledResumes \in Nat
  BY DownloadAssumption DEF DownloadTypeOK, Budgets

\* The values of a fresh transfer.
LEMMA NothingYet == <<>> \in Seq(Versions) /\ 0 \in Nat /\ NoVersion \in Versions \cup {NoVersion}
  OBVIOUS

\* A version has chunks.
LEMMA LengthsKnown == \A v \in Versions : Length[v] \in Nat \ {0} /\ v \in Nat
  BY DownloadAssumption

\* A download that ends keeps what it has received.
LEMMA SettleKeeps ==
    ASSUME DownloadInv, dpc # "ask", NEW outcome \in {"unchanged", "failed"}, Settle(outcome)
    PROVE DownloadInv'
  BY DEF DownloadInv, Settle, DownloadTypeOK, Spent, Uniform, OneWholeVersion, Only, Size, Resumable

\* A restart from byte 0 forgets the transfer, and is counted (_next_restart).
LEMMA RestartKeeps ==
    ASSUME DownloadInv, dpc # "ask", NEW c \in BOOLEAN, NextRestart(c)
    PROVE DownloadInv'
  <1>1. CASE Settle("failed")
    BY <1>1, SettleKeeps
  <1>2. CASE ~Settle("failed")
    <2>1. /\ ~(tried.restarts >= RetryDelays)
          /\ tried' = [tried EXCEPT !.restarts = @ + 1, !.stalled = 0]
          /\ dest' = <<>> /\ total' = 0 /\ validator' = NoVersion /\ ranges' = FALSE
          /\ coded' = c /\ limit' = 0 /\ body' = NoVersion
          /\ dpc' = "ask" /\ UNCHANGED <<server, published, held, resuming, before, requests>>
      BY <1>2 DEF NextRestart, Fresh
    <2>0. tried \in Budgets
      BY DEF DownloadInv, DownloadTypeOK
    <2>2. tried' \in Budgets
      <3>1. tried.restarts < RetryDelays
        BY <2>1, TriedKnown DEF DownloadInv
      <3> QED BY <2>0, <2>1, <3>1, BudgetsKept
    <2>3. Spent' = Spent
      <3>1. /\ tried'.restarts = tried.restarts + 1 /\ tried'.resumes = tried.resumes
            /\ tried'.busy = tried.busy /\ tried'.switched = tried.switched
        BY <2>0, <2>1 DEF Budgets
      <3>2. /\ tried.restarts \in Nat /\ tried.resumes \in Nat /\ tried.busy \in Nat
        BY TriedKnown DEF DownloadInv
      <3> QED BY <2>1, <3>1, <3>2 DEF Spent
    <2>4. DownloadTypeOK'
      BY <2>1, <2>2, NothingYet DEF DownloadInv, DownloadTypeOK
    <2>5. Uniform' /\ OneWholeVersion'
      BY <2>1 DEF Uniform, OneWholeVersion
    <2> QED BY <2>1, <2>3, <2>4, <2>5 DEF DownloadInv
  <1> QED BY <1>1, <1>2

\* The transfer goes on where it was: what was received is of the version the validator names.
LEMMA GoOnKeeps ==
    ASSUME DownloadInv, dpc # "ask", NEW t, tried' = t,
           t \in Budgets,
           t.restarts + t.resumes + t.busy = tried.restarts + tried.resumes + tried.busy + 1,
           t.switched = tried.switched,
           validator # NoVersion => Only(validator) /\ (total # 0 => total = Length[validator]),
           dpc' = "ask",
           UNCHANGED <<server, published, held, dest, total, validator,
                        ranges, coded, resuming, before, body, limit, requests>>
    PROVE DownloadInv'
  <1>1. DownloadTypeOK'
    BY DEF DownloadInv, DownloadTypeOK
  <1>2. Spent' = Spent
    <2>1. /\ tried.restarts \in Nat /\ tried.resumes \in Nat /\ tried.busy \in Nat
          /\ t.restarts \in Nat /\ t.resumes \in Nat /\ t.busy \in Nat
      <3>1. t.restarts \in 0..RetryDelays /\ t.resumes \in 0..ResumeDelays /\ t.busy \in 0..BusyDelays
        BY DEF Budgets
      <3> QED BY <3>1, TriedKnown DEF DownloadInv
    <2> QED BY <2>1 DEF Spent
  <1>3. Uniform' /\ OneWholeVersion'
    BY DEF DownloadInv, Uniform, OneWholeVersion, Only, Size
  <1> QED BY <1>1, <1>2, <1>3 DEF DownloadInv

\* A retryable error is ridden out within one budget, or ends the download (_ride_out).
LEMMA RideOutKeeps ==
    ASSUME DownloadInv, dpc \in {"sent", "body"}, NEW b \in BOOLEAN, RideOut(b)
    PROVE DownloadInv'
  <1>0. validator # NoVersion => Only(validator) /\ (total # 0 => total = Length[validator])
    BY DEF DownloadInv, Uniform
  <1>t. DownloadTypeOK /\ coded \in BOOLEAN
    BY DEF DownloadInv, DownloadTypeOK
  <1>1. CASE Settle("failed")
    BY <1>1, SettleKeeps
  <1>2. CASE NextRestart(coded)
    BY <1>2, <1>t, RestartKeeps
  <1>3. CASE WaitBusy /\ ~Settle("failed")
    <2> DEFINE t == [tried EXCEPT !.busy = @ + 1]
    <2>1. /\ ~(tried.busy >= BusyDelays) /\ tried' = t /\ dpc' = "ask"
          /\ UNCHANGED <<server, published, held, dest, total, validator,
                        ranges, coded, resuming, before, body, limit, requests>>
      BY <1>3 DEF WaitBusy
    <2>2. t \in Budgets
      <3>1. tried.busy < BusyDelays
        BY <1>t, <2>1, TriedKnown
      <3> QED BY <1>t, <3>1, BudgetsKept, TriedKnown
    <2>3. /\ t.restarts = tried.restarts /\ t.resumes = tried.resumes /\ t.busy = tried.busy + 1
          /\ t.switched = tried.switched
      BY <1>t, TriedKnown DEF Budgets
    <2> HIDE DEF t
    <2>4. t.restarts + t.resumes + t.busy = tried.restarts + tried.resumes + tried.busy + 1
      BY <1>t, <2>3, TriedKnown
    <2> QED BY <1>0, <2>1, <2>2, <2>3, <2>4, GoOnKeeps
  <1>4. CASE NextResume /\ ~Settle("failed")
    <2> DEFINE s == IF Size = before THEN tried.stalled + 1 ELSE 0
               t == [tried EXCEPT !.stalled = s, !.resumes = @ + 1]
    <2>1. /\ ~(s >= MaxStalledResumes \/ tried.resumes >= ResumeDelays) /\ tried' = t /\ dpc' = "ask"
          /\ UNCHANGED <<server, published, held, dest, total, validator,
                        ranges, coded, resuming, before, body, limit, requests>>
      BY <1>4 DEF NextResume
    <2>0. s \in Nat
      BY <1>t, TriedKnown
    <2> HIDE DEF s
    <2>2. t \in Budgets
      <3>1. s \in 0..MaxStalledResumes /\ tried.resumes < ResumeDelays
        BY <1>t, <2>0, <2>1, TriedKnown
      <3> QED BY <1>t, <3>1, BudgetsKept, TriedKnown
    <2>3. /\ t.restarts = tried.restarts /\ t.resumes = tried.resumes + 1 /\ t.busy = tried.busy
          /\ t.switched = tried.switched
      BY <1>t, TriedKnown DEF Budgets
    <2> HIDE DEF t
    <2>4. t.restarts + t.resumes + t.busy = tried.restarts + tried.resumes + tried.busy + 1
      BY <1>t, <2>3, TriedKnown
    <2> QED BY <1>0, <2>1, <2>2, <2>3, <2>4, GoOnKeeps
  <1> QED BY <1>1, <1>2, <1>3, <1>4 DEF RideOut

\* Every step of the download keeps its invariant.
LEMMA DownloadKept == DownloadInv /\ DownloadNext => DownloadInv'
  <1> SUFFICES ASSUME DownloadInv, DownloadNext PROVE DownloadInv'
    OBVIOUS
  <1>0. DownloadTypeOK /\ Uniform
    BY DEF DownloadInv
  <1>t. coded \in BOOLEAN /\ requests \in Nat /\ requests <= Spent
    BY DEF DownloadInv, DownloadTypeOK
  <1>1. CASE Publish
    BY <1>1
       DEF DownloadInv, Publish, DownloadTypeOK, Spent, Uniform, OneWholeVersion, Only, Size, Resumable
  <1>2. CASE Send
    <2>1. /\ dpc = "ask" /\ dpc' = "sent"
          /\ before' = Size /\ resuming' = Resumable /\ requests' = requests + 1
          /\ UNCHANGED <<server, published, held, dest, total, validator, ranges,
                         coded, body, limit, tried>>
      BY <1>2 DEF Send
    <2>2. Size \in Nat /\ Resumable \in BOOLEAN
      BY <1>0 DEF DownloadTypeOK, Size, Resumable
    <2>3. DownloadTypeOK'
      BY <1>0, <2>1, <2>2 DEF DownloadTypeOK
    <2>4. requests' <= Spent'
      <3>1. Spent' = Spent + 1
        <4>1. tried.restarts \in Nat /\ tried.resumes \in Nat /\ tried.busy \in Nat
          BY <1>0, TriedKnown
        <4> QED BY <2>1, <4>1 DEF Spent
      <3>2. Spent \in Nat
        BY <1>0, TriedKnown DEF Spent
      <3> QED BY <1>t, <2>1, <3>1, <3>2
    <2>5. Uniform' /\ OneWholeVersion'
      BY <1>0, <2>1 DEF Uniform, OneWholeVersion, Only, Size, Resumable
    <2> QED BY <2>3, <2>4, <2>5 DEF DownloadInv
  <1>3. CASE NotModified \/ FatalAnswer \/ TooMuch
    <2>1. dpc # "ask" /\ (Settle("unchanged") \/ Settle("failed"))
      BY <1>3 DEF NotModified, Full, FatalAnswer, TooMuch
    <2> QED BY <2>1, SettleKeeps
  <1>4. CASE FullAnswer
    <2>1. /\ dpc = "sent" /\ dpc' = "body" /\ dest' = <<>> /\ body' = published /\ limit' = total'
          /\ total' = (IF ~coded /\ server.framing = "length" THEN Length[published] ELSE 0)
          /\ validator' \in {published, NoVersion} /\ ranges' = server.ranges
          /\ UNCHANGED <<server, published, held, coded, resuming, before, tried, requests>>
      BY <1>4 DEF FullAnswer, Full
    <2>2. published \in Versions /\ Length[published] \in Nat \ {0} /\ server.ranges \in BOOLEAN
      BY <1>0, LengthsKnown DEF DownloadTypeOK, Servers
    <2>3. total' \in Nat
      BY <2>1, <2>2
    <2>4. DownloadTypeOK'
      BY <1>0, <2>1, <2>2, <2>3 DEF DownloadTypeOK
    <2>5. Spent' = Spent
      BY <2>1 DEF Spent
    <2>6. Uniform' /\ OneWholeVersion'
      BY <2>1, <2>2 DEF Uniform, OneWholeVersion, Only, Size
    <2> QED BY <1>t, <2>1, <2>4, <2>5, <2>6 DEF DownloadInv
  <1>5. CASE NotAcceptable
    <2>1. CASE Settle("failed")
      BY <1>5, <2>1, SettleKeeps DEF NotAcceptable, Full
    <2>2. CASE ~Settle("failed")
      <3>1. /\ dpc = "sent" /\ dpc' = "ask"
            /\ ~tried.switched /\ tried' = [tried EXCEPT !.switched = TRUE]
            /\ dest' = <<>> /\ total' = 0 /\ validator' = NoVersion /\ ranges' = FALSE
            /\ coded' = ~coded /\ limit' = 0 /\ body' = NoVersion
            /\ UNCHANGED <<server, published, held, resuming, before, requests>>
        BY <1>5, <2>2 DEF NotAcceptable, Full, Fresh
      <3>2. tried' \in Budgets
        BY <1>0, <3>1, BudgetsKept, TriedKnown
      <3>3. DownloadTypeOK'
        BY <1>0, <3>1, <3>2, NothingYet DEF DownloadTypeOK
      <3>4. Spent' = Spent
        <4>1. /\ tried'.restarts = tried.restarts /\ tried'.resumes = tried.resumes
              /\ tried'.busy = tried.busy /\ tried'.switched = TRUE
          BY <1>0, <3>1, TriedKnown DEF Budgets
        <4>2. tried.restarts \in Nat /\ tried.resumes \in Nat /\ tried.busy \in Nat
          BY <1>0, TriedKnown
        <4> QED BY <3>1, <4>1, <4>2 DEF Spent
      <3>5. Uniform' /\ OneWholeVersion'
        BY <3>1 DEF Uniform, OneWholeVersion
      <3> QED BY <1>t, <3>1, <3>3, <3>4, <3>5 DEF DownloadInv
    <2> QED BY <2>1, <2>2
  <1>6. CASE BusyAnswer \/ NoAnswer \/ Cut
    <2>1. dpc \in {"sent", "body"} /\ (RideOut(TRUE) \/ RideOut(FALSE))
      BY <1>6 DEF BusyAnswer, NoAnswer, Cut
    <2> QED BY <2>1, RideOutKeeps
  <1>7. CASE RangeAnswer
    <2>1. PICK end \in (Size + 1)..total :
             /\ dpc = "sent" /\ resuming /\ published = validator
             /\ limit' = end /\ body' = published /\ dpc' = "body"
             /\ UNCHANGED <<server, published, held, dest, total, validator, ranges,
                   coded, resuming, before, tried, requests>>
      BY <1>7 DEF RangeAnswer, Rest
    <2>2. /\ Size \in Nat /\ total \in Nat /\ published \in Versions /\ validator # NoVersion
          /\ total # 0 /\ Size < total /\ Only(validator) /\ total = Length[validator]
      <3>1. Resumable
        BY <1>0, <2>1 DEF Uniform
      <3> QED BY <1>0, <2>1, <3>1 DEF DownloadTypeOK, Uniform, Resumable, Size
    <2>3. end \in Nat \ {0}
      BY <2>2
    <2>4. DownloadTypeOK'
      BY <1>0, <2>1, <2>2, <2>3 DEF DownloadTypeOK
    <2>5. Spent' = Spent
      BY <2>1 DEF Spent
    <2>6. Uniform' /\ OneWholeVersion'
      BY <1>0, <2>1, <2>2, <2>3 DEF Uniform, OneWholeVersion, Only, Size
    <2> QED BY <1>t, <2>1, <2>4, <2>5, <2>6 DEF DownloadInv
  <1>8. CASE RangeRefused
    BY <1>8, RestartKeeps DEF RangeRefused, Rest
  <1>9. CASE Chunk
    <2>1. /\ dpc = "body" /\ Size < Length[body] /\ dest' = Append(dest, body)
          /\ UNCHANGED <<server, published, held, dpc, total, validator, ranges,
                   coded, resuming, before, body, limit, tried, requests>>
      BY <1>9 DEF Chunk
    <2>2. body \in Versions /\ Only(body) /\ dest \in Seq(Versions)
      BY <1>0, <2>1 DEF Uniform, DownloadTypeOK
    <2>3. dest' \in Seq(Versions) /\ Len(dest') = Len(dest) + 1 /\ Len(dest) \in Nat
          /\ \A i \in 1..Len(dest') : dest'[i] = IF i = Len(dest) + 1 THEN body ELSE dest[i]
      BY <2>1, <2>2
    <2>4. DownloadTypeOK'
      BY <1>0, <2>1, <2>3 DEF DownloadTypeOK
    <2>5. Spent' = Spent
      BY <2>1 DEF Spent
    <2>6. Size' = Size + 1 /\ Only(body)'
      BY <2>1, <2>2, <2>3 DEF Only, Size
    <2>7. Size' <= Length[body]
      BY <2>1, <2>2, <2>3, <2>6, LengthsKnown DEF Size
    <2>8. Uniform' /\ OneWholeVersion'
      BY <1>0, <2>1, <2>6, <2>7 DEF Uniform, OneWholeVersion
    <2> QED BY <1>t, <2>1, <2>4, <2>5, <2>8 DEF DownloadInv
  <1>10. CASE BodyEnds
    <2>1. CASE RideOut(FALSE)
      BY <1>10, <2>1, RideOutKeeps DEF BodyEnds
    <2>2. CASE ~RideOut(FALSE)
      <3>1. /\ dpc = "body" /\ dpc' = "received" /\ ~(total # 0 /\ Size < total)
            /\ \/ Size = Length[body]
               \/ limit # 0 /\ Size = limit
               \/ ~coded /\ server.framing = "close"
            /\ UNCHANGED <<server, published, held, dest, total, validator, ranges,
                   coded, resuming, before, body, limit, tried, requests>>
        BY <1>10, <2>2 DEF BodyEnds, Settle
      <3>2. /\ body \in Versions /\ Only(body) /\ Size <= Length[body]
            /\ (total # 0 => total = Length[body])
            /\ (limit # 0 <=> total # 0) /\ Size \in Nat /\ total \in Nat /\ Length[body] \in Nat
        BY <1>0, <3>1, LengthsKnown DEF Uniform, DownloadTypeOK, Size
      <3>3. (total # 0 \/ coded \/ server.framing = "chunked") => Size = Length[body]
        BY <3>1, <3>2
      <3>4. DownloadTypeOK'
        BY <1>0, <3>1 DEF DownloadTypeOK
      <3>5. Spent' = Spent
        BY <3>1 DEF Spent
      <3>6. Uniform' /\ OneWholeVersion'
        BY <1>0, <3>1, <3>2, <3>3 DEF Uniform, OneWholeVersion, Only, Size
      <3> QED BY <1>t, <3>1, <3>4, <3>5, <3>6 DEF DownloadInv
    <2> QED BY <2>1, <2>2
  <1>11. CASE Verdict
    BY <1>11
       DEF Verdict, Settle, DownloadInv, DownloadTypeOK, Spent, Uniform, OneWholeVersion, Only, Size
  <1> QED BY <1>1, <1>2, <1>3, <1>4, <1>5, <1>6, <1>7, <1>8, <1>9, <1>10, <1>11
             DEF DownloadNext, DownloadStep, Respond, Receive

\* It does not depend on anything but the download.
LEMMA DownloadStays == DownloadInv /\ UNCHANGED downloadVars => DownloadInv'
  BY DEF DownloadInv, downloadVars, DownloadTypeOK, Spent, Uniform, OneWholeVersion, Only, Size,
         Resumable

\* It holds before the first request.
LEMMA DownloadStarts == DownloadInit => DownloadInv
  <1> SUFFICES ASSUME DownloadInit PROVE DownloadInv
    OBVIOUS
  <1>1. 1 \in Versions /\ NoneTried \in Budgets
    BY DownloadAssumption DEF NoneTried, Budgets
  <1>2. DownloadTypeOK
    BY <1>1, NothingYet DEF DownloadInit, DownloadTypeOK
  <1>3. requests <= Spent
    BY DEF DownloadInit, Spent, NoneTried
  <1>4. Uniform /\ OneWholeVersion
    BY DEF DownloadInit, Uniform, OneWholeVersion
  <1> QED BY <1>2, <1>3, <1>4 DEF DownloadInv

\* It says what the runs check of a download.
LEMMA DownloadShows == DownloadInv => DownloadTypeOK /\ OneWholeVersion /\ RequestsBounded
  <1> SUFFICES ASSUME DownloadInv PROVE RequestsBounded
    BY DEF DownloadInv
  <1>1. /\ tried.restarts \in 0..RetryDelays /\ tried.resumes \in 0..ResumeDelays
        /\ tried.busy \in 0..BusyDelays
        /\ RetryDelays \in Nat /\ ResumeDelays \in Nat /\ BusyDelays \in Nat
        /\ requests \in Nat /\ requests <= Spent
    BY TriedKnown DEF DownloadInv, DownloadTypeOK
  <1>2. Spent <= 2 + RetryDelays + ResumeDelays + BusyDelays /\ Spent \in Nat
    BY <1>1 DEF Spent
  <1> QED BY <1>1, <1>2 DEF RequestsBounded

-----------------------------------------------------------------------------
(* The resolvers *)

\* The least element of a set of naturals is one (Min).
LEMMA SmallestOf ==
    ASSUME NEW S \in SUBSET Nat, S # {}
    PROVE  Min(S) \in S /\ \A y \in S : Min(S) <= y
  <1>1. PICK x \in S : \A y \in S : ~(<<y, x>> \in OpToRel(<, Nat))
    BY NatLessThanWellFounded, WFMin
  <1>2. \A y \in S : ~(y < x)
    BY <1>1, Zenon DEF OpToRel
  <1>3. \A y \in S : x <= y
    BY <1>2
  <1> QED BY <1>3 DEF Min

\* The answers that say a day has no file (_DATED_MISS_STATUSES), and the resolvers.
Misses == {"missing", "not a zip"}
Lookups == {"tdg", "udata", "json_api", "dated", "permalink"}

\* What a catalogue is looked up for.
LookupHolds ==
    /\ lookup.type \in Lookups
    /\ lookup.type \in {"tdg", "udata", "json_api"} => lookup.list \in CatalogueLists
    /\ lookup.type = "permalink" => lookup.weekday \in FirstWeekdays /\ lookup.day \in 1..31
    /\ lookup.type # "dated" => probed = <<>>

\* The walk asked one day after the other, had a miss for each but the last, and took a file of
\* the day it stopped at.
WalkHolds ==
    lookup.type = "dated" =>
        /\ probed \in Seq(Answers) /\ back \in Nat /\ back <= MaxDaysBack + 1
        /\ site \in [DatedDays -> Answers]
        /\ file = NoFile =>
             back <= MaxDaysBack /\ Len(probed) = back /\ \A i \in 1..Len(probed) : probed[i] \in Misses
        /\ file # NoFile =>
             /\ Len(probed) <= MaxDaysBack + 1
             /\ ~file.error =>
                  /\ file.entry.day = Today - back /\ Len(probed) = back + 1
                  /\ site[Today - back] = "zip"
                  /\ \A i \in 1..Len(probed) : i < Len(probed) => probed[i] \in Misses

\* With them, what the runs check of the other resolvers.
ResolverInv ==
    LookupHolds /\ WalkHolds /\ NewestIsTaken /\ NeverGuessed /\ YearChangesOnSunday

\* A natural number up to a bound has a complement to it.
LEMMA Complements == \A top \in Nat : \A r \in 0..top : \E n \in Nat : r + n = top
  <1> TAKE top \in Nat
  <1> TAKE r \in 0..top
  <1> WITNESS top - r \in Nat
  <1> QED OBVIOUS

\* Of finitely many ranks one is the highest.
LEMMA FirstIsHighest ==
    ASSUME NEW at \in SUBSET Nat, at # {}, NEW top \in Nat, NEW rank, \A i \in at : rank[i] \in 0..top
    PROVE  LET m == Min({i \in at : \A j \in at : rank[j] <= rank[i]})
           IN m \in at /\ \A j \in at : rank[j] <= rank[m]
  <1> DEFINE S == {n \in Nat : \E i \in at : rank[i] + n = top}
             T == {i \in at : \A j \in at : rank[j] <= rank[i]}
  <1>2. \A i \in at : \E n \in Nat : rank[i] + n = top
    BY Complements
  <1>3. S \in SUBSET Nat /\ S # {}
    <2>1. PICK i \in at : TRUE
      OBVIOUS
    <2>2. PICK n \in Nat : rank[i] + n = top
      BY <1>2
    <2>3. n \in S
      BY <2>2
    <2> QED BY <2>3
  <1>4. Min(S) \in S /\ \A y \in S : Min(S) <= y
    <2> HIDE DEF S
    <2> QED BY <1>3, SmallestOf
  <1>5. PICK k \in at : Min(S) \in Nat /\ rank[k] + Min(S) = top
    BY <1>4
  <1>6. k \in T
    <2>1. ASSUME NEW j \in at PROVE rank[j] <= rank[k]
      <3>1. PICK n \in Nat : rank[j] + n = top
        BY <1>2
      <3>2. Min(S) <= n
        BY <1>4, <3>1
      <3>3. rank[j] \in Int /\ rank[k] \in Int
        OBVIOUS
      <3> HIDE DEF S
      <3> QED BY <1>5, <3>1, <3>2, <3>3
    <2> QED BY <2>1
  <1>7. T \in SUBSET Nat /\ T # {}
    BY <1>6
  <1>8. Min(T) \in T
    <2> HIDE DEF T
    <2> QED BY <1>7, SmallestOf
  <1> QED BY <1>8
\* The highest rank an entry can have.
TopRank == 1000

\* What the entries of a catalogue are ranked by.
LEMMA AgesKnown ==
    \A list \in CatalogueLists : \A i \in DOMAIN list :
        AgeText(list[i]) \in 0..TopRank /\ SortRank(list[i]) \in 0..TopRank
  <1>1. \A d \in Dates : d \in 0..TopRank
    BY DEF Dates, TopRank
  <1>2. TopRank = 1000 /\ 1000 \in 0..TopRank /\ 0 \in 0..TopRank
    BY DEF TopRank
  <1>3. ASSUME NEW list \in CatalogueLists, NEW i \in DOMAIN list
        PROVE AgeText(list[i]) \in 0..TopRank /\ SortRank(list[i]) \in 0..TopRank
    <2>1. list[i].created \in Dates \cup {NoFile} /\ list[i].modified \in Dates \cup {NoFile}
      BY ResolverAssumption
    <2> DEFINE c == list[i].created
               d == list[i].modified
    <2>2. CASE c # NoFile
      <3>1. c \in 0..TopRank
        BY <1>1, <2>1, <2>2, Zenon
      <3>2. AgeText(list[i]) = c /\ SortRank(list[i]) = c
        BY <2>2 DEF AgeText, SortRank
      <3> QED BY <3>1, <3>2, Zenon
    <2>3. CASE c = NoFile
      <3>1. SortRank(list[i]) \in 0..TopRank
        BY <1>2, <2>3 DEF SortRank
      <3>2. CASE d # NoFile
        <4>1. d \in 0..TopRank
          BY <1>1, <2>1, <3>2, Zenon
        <4>2. AgeText(list[i]) = d
          BY <2>3, <3>2 DEF AgeText
        <4> QED BY <3>1, <4>1, <4>2, Zenon
      <3>3. CASE d = NoFile
        <4>1. AgeText(list[i]) \in 0..TopRank
          BY <1>2, <2>3, <3>3 DEF AgeText
        <4> QED BY <3>1, <4>1
      <3> QED BY <3>2, <3>3
    <2> QED BY <2>2, <2>3
  <1> QED BY <1>3

\* The newest of the resources that match (_resolve_udata).
LEMMA NewestOf ==
    ASSUME NEW list \in CatalogueLists, Matching(list) # {}
    PROVE  /\ \E m \in Matching(list) : FirstMax(list, AgeText) = list[m]
                /\ \A j \in Matching(list) : AgeText(list[j]) <= AgeText(list[m])
  <1> DEFINE rank == [i \in Matching(list) |-> AgeText(list[i])]
             m == Min({i \in Matching(list) : \A j \in Matching(list) : rank[j] <= rank[i]})
  <1>1. /\ Matching(list) \in SUBSET Nat /\ TopRank \in Nat
        /\ \A i \in Matching(list) : rank[i] \in 0..TopRank
    <2>1. Matching(list) \subseteq DOMAIN list /\ DOMAIN list \subseteq Nat
      BY ResolverAssumption DEF Matching
    <2>2. \A i \in Matching(list) : rank[i] \in 0..TopRank
      BY <2>1, AgesKnown
    <2>3. TopRank \in Nat
      BY DEF TopRank
    <2> QED BY <2>1, <2>2, <2>3
  <1>2. m \in Matching(list) /\ \A j \in Matching(list) : rank[j] <= rank[m]
    <2> HIDE DEF rank
    <2> QED BY <1>1, FirstIsHighest
  <1>3. {i \in Matching(list) : \A j \in Matching(list) : rank[j] <= rank[i]}
        = {i \in Matching(list) : \A j \in Matching(list) : AgeText(list[j]) <= AgeText(list[i])}
    OBVIOUS
  <1>4. FirstMax(list, AgeText) = list[m]
    BY <1>3 DEF FirstMax
  <1> HIDE DEF m
  <1>5. \A j \in Matching(list) : AgeText(list[j]) <= AgeText(list[m])
    BY <1>2
  <1> QED BY <1>2, <1>4, <1>5

\* The entry that sorts highest (_pick_json_api_entry).
LEMMA HighestOf ==
    ASSUME NEW list \in CatalogueLists, Matching(list) # {}
    PROVE  /\ \E m \in Matching(list) : FirstMax(list, SortRank) = list[m]
                /\ \A j \in Matching(list) : SortRank(list[j]) <= SortRank(list[m])
  <1> DEFINE rank == [i \in Matching(list) |-> SortRank(list[i])]
             m == Min({i \in Matching(list) : \A j \in Matching(list) : rank[j] <= rank[i]})
  <1>1. /\ Matching(list) \in SUBSET Nat /\ TopRank \in Nat
        /\ \A i \in Matching(list) : rank[i] \in 0..TopRank
    <2>1. Matching(list) \subseteq DOMAIN list /\ DOMAIN list \subseteq Nat
      BY ResolverAssumption DEF Matching
    <2>2. \A i \in Matching(list) : rank[i] \in 0..TopRank
      BY <2>1, AgesKnown
    <2>3. TopRank \in Nat
      BY DEF TopRank
    <2> QED BY <2>1, <2>2, <2>3
  <1>2. m \in Matching(list) /\ \A j \in Matching(list) : rank[j] <= rank[m]
    <2> HIDE DEF rank
    <2> QED BY <1>1, FirstIsHighest
  <1>3. {i \in Matching(list) : \A j \in Matching(list) : rank[j] <= rank[i]}
        = {i \in Matching(list) : \A j \in Matching(list) : SortRank(list[j]) <= SortRank(list[i])}
    OBVIOUS
  <1>4. FirstMax(list, SortRank) = list[m]
    BY <1>3 DEF FirstMax
  <1> HIDE DEF m
  <1>5. \A j \in Matching(list) : SortRank(list[j]) <= SortRank(list[m])
    BY <1>2
  <1> QED BY <1>2, <1>4, <1>5

\* An entry of a catalogue is at some index of it.
LEMMA MatchesKnown ==
    ASSUME NEW list
    PROVE  \A e \in Range(list) :
              \E i \in DOMAIN list : e = list[i] /\ (e.match => i \in Matching(list))
  BY DEF Range, Matching

\* The fields of what a resolver returns.
LEMMA AnswersAre ==
    /\ Error.error = TRUE /\ \A e : File(e).error = FALSE /\ File(e).entry = e
  BY DEF Error, File

\* A lookup resolves to the newest of the resources, to the one resource wanted, or to an entry
\* that nothing else may replace.
LEMMA LookedUp ==
    ASSUME ResolverInv, LookUp
    PROVE  NewestIsTaken' /\ NeverGuessed'
  <1> DEFINE list == lookup.list
  <1>0. /\ lookup' = lookup /\ lookup.type \in {"tdg", "udata", "json_api"} /\ list \in CatalogueLists
        /\ DOMAIN list \subseteq Nat
    BY ResolverAssumption DEF ResolverInv, LookupHolds, LookUp
  <1>1. CASE lookup.type = "tdg"
    <2> DEFINE at == {i \in DOMAIN list : list[i].id = WantedId}
    <2>1. file' = Error \/ (at # {} /\ list[Min(at)].available /\ file' = File(list[Min(at)]))
      BY <1>1 DEF LookUp, ResolvedTdg
    <2>2. at # {} => Min(at) \in at
      BY <1>0, SmallestOf
    <2>3. at # {} => list[Min(at)].id = WantedId
      BY <2>2
    <2> HIDE DEF at
    <2> QED BY <1>0, <1>1, <2>1, <2>3, AnswersAre DEF NewestIsTaken, NeverGuessed, Resolved
  <1>2. CASE lookup.type = "udata"
    <2>1. file' = Error \/ (Matching(list) # {} /\ file' = File(FirstMax(list, AgeText)))
      BY <1>2 DEF LookUp, ResolvedUdata
    <2>2. CASE file' = Error
      BY <1>0, <1>2, <2>2, AnswersAre DEF NewestIsTaken, NeverGuessed, Resolved
    <2>3. CASE Matching(list) # {} /\ file' = File(FirstMax(list, AgeText))
      <3>1. PICK m \in Matching(list) : FirstMax(list, AgeText) = list[m]
                /\ \A j \in Matching(list) : AgeText(list[j]) <= AgeText(list[m])
        BY <1>0, <2>3, NewestOf
      <3>2. file'.entry = list[m] /\ list[m].match
        BY <2>3, <3>1, AnswersAre DEF Matching
      <3>3. NewestIsTaken'
        <4> DEFINE Date(e) == IF e.created # NoFile THEN e.created ELSE e.modified
                   dated == {e \in Range(list) : e.match}
        <4>1. ASSUME \A e \in dated : Date(e) # NoFile, NEW e \in dated PROVE Date(e) <= Date(list[m])
          <5>1. PICK i \in Matching(list) : e = list[i]
            BY MatchesKnown
          <5>2. list[m] \in dated
            BY <3>1, <3>2 DEF Matching, Range
          <5>3. Date(e) # NoFile /\ Date(list[m]) # NoFile
            BY <4>1, <5>2
          <5>4. Date(e) = AgeText(e) /\ Date(list[m]) = AgeText(list[m])
            BY <5>3 DEF AgeText
          <5> QED BY <3>1, <5>1, <5>4
        <4> QED BY <1>0, <3>2, <4>1 DEF NewestIsTaken
      <3> QED BY <1>0, <1>2, <3>3 DEF NeverGuessed
    <2> QED BY <2>1, <2>2, <2>3
  <1>3. CASE lookup.type = "json_api"
    <2> DEFINE entry == Picked(list, lookup.sorted)
    <2>1. file' = Error \/ (entry # NoFile /\ entry.sameHost /\ file' = File(entry))
      BY <1>3 DEF LookUp, ResolvedJsonApi
    <2>2. CASE file' = Error
      BY <1>0, <1>3, <2>2, AnswersAre DEF NewestIsTaken, NeverGuessed, Resolved
    <2>3. CASE entry # NoFile /\ entry.sameHost /\ file' = File(entry)
      <3>1. Matching(list) # {}
        BY <2>3 DEF Picked
      <3>2. PICK m \in Matching(list) :
               /\ entry = list[m]
               /\ \A j \in Matching(list) :
                     j # m => lookup.sorted /\ SortRank(list[j]) <= SortRank(list[m])
        <4>1. CASE lookup.sorted
          <5>1. entry = FirstMax(list, SortRank)
            BY <3>1, <4>1 DEF Picked
          <5> QED BY <1>0, <3>1, <4>1, <5>1, HighestOf
        <4>2. CASE ~lookup.sorted
          <5>1. entry = list[Min(Matching(list))] /\ ~\E i, j \in Matching(list) : i # j
            BY <2>3, <3>1, <4>2 DEF Picked
          <5>2. Matching(list) \in SUBSET Nat
            BY <1>0 DEF Matching
          <5>3. Min(Matching(list)) \in Matching(list)
            BY <3>1, <5>2, SmallestOf
          <5> QED BY <5>1, <5>3
        <4> QED BY <4>1, <4>2
      <3>3. file'.entry = list[m] /\ list[m].match /\ list[m].sameHost
        BY <2>3, <3>2, AnswersAre DEF Matching
      <3>4. ASSUME NEW e \in Range(list), e.match, e # list[m]
            PROVE lookup.sorted /\ SortRank(e) <= SortRank(list[m])
        <4>1. PICK i \in Matching(list) : e = list[i]
          BY <3>4, MatchesKnown
        <4> QED BY <3>2, <3>4, <4>1
      <3> HIDE DEF entry
      <3> QED BY <1>0, <1>3, <3>3, <3>4 DEF NewestIsTaken, NeverGuessed
    <2> QED BY <2>1, <2>2, <2>3
  <1> QED BY <1>0, <1>1, <1>2, <1>3

\* The timetable changes on the second Saturday of December plus one day (timetable_year).
LEMMA YearFollows ==
    ASSUME NEW w \in 0..6
    PROVE  LET saturdays == {d \in 1..31 : (w + d - 1) % 7 = 5}
               second == Min(saturdays \ {Min(saturdays)})
           IN ChangeDay(w) = second + 1 /\ second \in Nat
  <1> DEFINE saturdays == {d \in 1..31 : (w + d - 1) % 7 = 5}
             f == 1 + ((5 - w) % 7)
  <1>1. f \in 1..7 /\ (w + f - 1) % 7 = 5
    BY Z3
  <1>2. \A d \in 1..31 : (w + d - 1) % 7 = 5 => d >= f /\ (d # f => d >= f + 7)
    BY Z3
  <1>3. f \in saturdays /\ f + 7 \in saturdays
    BY <1>1, Z3
  <1> HIDE DEF f
  <1>4. saturdays \in SUBSET Nat /\ saturdays # {}
    <2>1. saturdays \subseteq 1..31
      OBVIOUS
    <2>2. 1..31 \subseteq Nat
      OBVIOUS
    <2> HIDE DEF saturdays
    <2> QED BY <1>3, <2>1, <2>2
  <1>5. Min(saturdays) \in saturdays /\ \A y \in saturdays : Min(saturdays) <= y
    BY <1>4, SmallestOf
  <1>6. Min(saturdays) = f
    BY <1>1, <1>2, <1>3, <1>4, <1>5
  <1> DEFINE rest == saturdays \ {f}
  <1>7. rest \in SUBSET Nat /\ f + 7 \in rest
    BY <1>1, <1>3, <1>4
  <1>8. Min(rest) \in rest /\ \A y \in rest : Min(rest) <= y
    BY <1>7, SmallestOf
  <1>9. Min(rest) = f + 7
    BY <1>1, <1>2, <1>7, <1>8
  <1> QED BY <1>1, <1>6, <1>9 DEF ChangeDay, f

\* Every step of a resolver keeps its invariant.
LEMMA ResolverKept == ResolverInv /\ ResolverNext => ResolverInv'
  <1> SUFFICES ASSUME ResolverInv, ResolverNext PROVE ResolverInv'
    OBVIOUS
  <1>0. LookupHolds /\ WalkHolds
    BY DEF ResolverInv
  <1>1. CASE LookUp
    <2>1. /\ lookup.type \in {"tdg", "udata", "json_api"}
          /\ UNCHANGED <<lookup, site, back, probed, publications>>
      BY <1>1 DEF LookUp
    <2> QED BY <1>0, <1>1, <2>1, LookedUp
               DEF ResolverInv, LookupHolds, WalkHolds, YearChangesOnSunday
  <1>2. CASE ResolveYear
    <2> DEFINE w == lookup.weekday
    <2>1. /\ lookup.type = "permalink" /\ file' = File([next |-> lookup.day >= ChangeDay(w)])
          /\ UNCHANGED <<lookup, site, back, probed, publications>>
      BY <1>2 DEF ResolveYear
    <2>2. w \in 0..6 /\ lookup.day \in Nat
      <3>1. lookup.weekday \in FirstWeekdays /\ lookup.day \in 1..31 /\ FirstWeekdays \subseteq 0..6
        BY <1>0, <2>1, ResolverAssumption DEF LookupHolds
      <3>2. w \in 0..6
        BY <3>1, Zenon
      <3>3. \A d \in 1..31 : d \in Nat
        OBVIOUS
      <3> QED BY <3>1, <3>2, <3>3, Zenon
    <2>3. YearChangesOnSunday'
      <3> DEFINE saturdays == {d \in 1..31 : (w + d - 1) % 7 = 5}
                 second == Min(saturdays \ {Min(saturdays)})
      <3>1. ChangeDay(w) = second + 1 /\ second \in Nat
        BY <2>2, YearFollows
      <3> HIDE DEF second
      <3>2. (lookup.day >= ChangeDay(w)) <=> lookup.day > second
        BY <2>2, <3>1
      <3>3. file'.entry.next <=> lookup.day > second
        <4> DEFINE X == lookup.day >= ChangeDay(w)
        <4>1. CASE X
          <5>1. file'.entry = [next |-> TRUE]
            <6>1. X = TRUE
              BY <4>1
            <6> HIDE DEF X
            <6> QED BY <2>1, <6>1, AnswersAre DEF X
          <5> QED BY <3>2, <4>1, <5>1
        <4>2. CASE ~X
          <5>1. file'.entry = [next |-> FALSE]
            <6>1. X = FALSE
              BY <4>2
            <6> QED BY <2>1, <6>1, AnswersAre
          <5> QED BY <3>2, <4>2, <5>1
        <4> QED BY <4>1, <4>2
      <3> QED BY <2>1, <3>3 DEF YearChangesOnSunday, second
    <2> QED BY <1>0, <2>1, <2>3 DEF ResolverInv, LookupHolds, WalkHolds, NewestIsTaken, NeverGuessed
  <1>3. CASE ProbeDay
    <2> DEFINE day == Today - back
               found == Probe(site[day])
    <2>1. /\ lookup.type = "dated" /\ file = NoFile /\ probed' = Append(probed, site[day])
          /\ back' = (IF found = "miss" THEN back + 1 ELSE back)
          /\ file' = (IF found = "hit" THEN File([day |-> day])
                      ELSE IF found = "error" \/ back = MaxDaysBack THEN Error ELSE NoFile)
          /\ UNCHANGED <<lookup, site, publications>>
      BY <1>3 DEF ProbeDay
    <2>2. /\ probed \in Seq(Answers) /\ back \in Nat /\ back <= MaxDaysBack
          /\ site \in [DatedDays -> Answers]
          /\ Len(probed) = back /\ \A i \in 1..Len(probed) : probed[i] \in Misses
      BY <1>0, <2>1 DEF WalkHolds
    <2>3. day \in DatedDays /\ site[day] \in Answers
      BY <2>2, ResolverAssumption DEF DatedDays
    <2>4. /\ probed' \in Seq(Answers) /\ Len(probed') = back + 1
          /\ \A i \in 1..Len(probed') : i < Len(probed') => probed'[i] \in Misses
          /\ probed'[back + 1] = site[day]
      BY <2>1, <2>2, <2>3
    <2>5. /\ found = "miss" => site[day] \in Misses
          /\ found = "hit" => site[day] = "zip"
          /\ found \in {"hit", "miss", "error"}
      BY DEF Probe, Misses
    <2> HIDE DEF day, found
    <2>6. WalkHolds'
      <3>0. back + 1 <= MaxDaysBack + 1 /\ back \in Nat
        BY <2>2, ResolverAssumption
      <3>1. CASE found = "hit"
        <4>1. file' = File([day |-> day]) /\ back' = back /\ site' = site
          BY <2>1, <3>1
        <4>2. file' # NoFile
          <5>1. day \in 0..Today
            BY <2>2, ResolverAssumption DEF day
          <5> QED BY ResolverAssumption, <4>1, <5>1
        <4>3. file'.entry.day = day /\ ~file'.error
          BY <4>1, AnswersAre
        <4>4. site[Today - back] = "zip" /\ day = Today - back
          BY <2>5, <3>1 DEF day
        <4>5. /\ site'[Today - back'] = "zip" /\ file'.entry.day = Today - back'
              /\ Len(probed') = back' + 1
          BY <2>4, <4>1, <4>3, <4>4
        <4>6. /\ back' \in Nat /\ back' <= MaxDaysBack + 1 /\ Len(probed') <= MaxDaysBack + 1
          BY <2>2, <2>4, <3>0, <4>1, ResolverAssumption
        <4> QED BY <2>2, <2>4, <4>1, <4>2, <4>5, <4>6 DEF WalkHolds
      <3>2. CASE found # "hit" /\ file' = Error
        <4>1. file' # NoFile /\ file'.error /\ site' = site
          BY <2>1, <3>2, AnswersAre, ResolverAssumption
        <4>2. back' \in Nat /\ back' <= MaxDaysBack + 1
          BY <2>1, <2>2, ResolverAssumption
        <4> QED BY <2>2, <2>4, <3>0, <4>1, <4>2 DEF WalkHolds
      <3>3. CASE found = "miss" /\ file' = NoFile /\ back # MaxDaysBack
        <4>1. /\ back' = back + 1 /\ back' \in Nat /\ back' <= MaxDaysBack /\ back' <= MaxDaysBack + 1
              /\ site' = site
          BY <2>1, <2>2, <3>3, ResolverAssumption
        <4>2. \A i \in 1..Len(probed') : probed'[i] \in Misses
          BY <2>2, <2>4, <2>5, <3>3
        <4> QED BY <2>2, <2>4, <3>3, <4>1, <4>2 DEF WalkHolds
      <3> QED BY <2>1, <2>5, <3>1, <3>2, <3>3
    <2> QED BY <1>0, <2>1, <2>6
               DEF ResolverInv, LookupHolds, NewestIsTaken, NeverGuessed, YearChangesOnSunday
  <1>4. CASE PublishDay
    <2>1. /\ lookup.type = "dated" /\ file = NoFile /\ UNCHANGED <<lookup, back, probed, file>>
          /\ \E d \in DatedDays : site' = [site EXCEPT ![d] = "zip"]
      BY <1>4 DEF PublishDay
    <2>2. WalkHolds'
      BY <1>0, <2>1 DEF WalkHolds, Answers
    <2> QED BY <1>0, <2>1, <2>2
               DEF ResolverInv, LookupHolds, NewestIsTaken, NeverGuessed, YearChangesOnSunday
  <1> QED BY <1>1, <1>2, <1>3, <1>4 DEF ResolverNext

\* It does not depend on anything but the resolvers.
LEMMA ResolverStays == ResolverInv /\ UNCHANGED resolverVars => ResolverInv'
  BY DEF ResolverInv, resolverVars, LookupHolds, WalkHolds, NewestIsTaken, NeverGuessed,
         YearChangesOnSunday, Resolved

\* It says what the runs check of the resolvers; for a dated one, by the walk.
LEMMA ResolverShows ==
    ResolverInv => DatedIsNewest /\ NewestIsTaken /\ NeverGuessed /\ YearChangesOnSunday
  <1> SUFFICES ASSUME ResolverInv PROVE DatedIsNewest
    BY DEF ResolverInv
  <1>1. CASE lookup.type = "dated"
    <2>1. /\ WalkHolds /\ back \in Nat /\ Today \in Nat /\ MaxDaysBack \in Nat
          /\ DOMAIN probed = 1..Len(probed) /\ Len(probed) \in Nat
      <3>1. WalkHolds /\ Today \in Nat /\ MaxDaysBack \in Nat
        BY ResolverAssumption DEF ResolverInv
      <3>2. back \in Nat /\ probed \in Seq(Answers)
        BY <1>1, <3>1 DEF WalkHolds
      <3> QED BY <3>1, <3>2
    <2>2. Len(probed) <= MaxDaysBack + 1
      <3>1. CASE file = NoFile
        BY <1>1, <2>1, <3>1, ZenonT(60) DEF WalkHolds
      <3>2. CASE file # NoFile
        BY <1>1, <2>1, <3>2, ZenonT(60) DEF WalkHolds
      <3> QED BY <3>1, <3>2
    <2>3. Resolved => /\ file.entry.day = Today - back /\ Len(probed) = back + 1
                      /\ site[Today - back] = "zip"
                      /\ \A i \in 1..Len(probed) : i < Len(probed) => probed[i] \in Misses
      BY <1>1, <2>1, Zenon DEF WalkHolds, Resolved
    <2>4. Resolved => Len(probed) = Today - file.entry.day + 1
      BY <2>1, <2>3
    <2> QED BY <1>1, <2>1, <2>2, <2>3, <2>4, Zenon DEF DatedIsNewest, Misses
  <1>2. CASE lookup.type # "dated"
    <2>1. probed = <<>> /\ MaxDaysBack \in Nat
      BY <1>2, ResolverAssumption DEF ResolverInv, LookupHolds
    <2> QED BY <1>2, <2>1 DEF DatedIsNewest
  <1> QED BY <1>1, <1>2

\* It holds before the lookup.
LEMMA ResolverStarts == ResolverInit => ResolverInv
  <1> SUFFICES ASSUME ResolverInit PROVE ResolverInv
    OBVIOUS
  <1>1. file = NoFile /\ probed = <<>> /\ back = 0 /\ ~Resolved
    BY DEF ResolverInit, Resolved
  <1>2. LookupHolds
    <2>1. CASE lookup \in [type : {"tdg", "udata"}, list : CatalogueLists, sorted : {FALSE}]
                          \cup [type : {"json_api"}, list : CatalogueLists, sorted : BOOLEAN]
      BY <1>1, <2>1 DEF LookupHolds, Lookups
    <2>2. CASE lookup = [type |-> "dated", list |-> <<>>, sorted |-> FALSE]
      BY <1>1, <2>2 DEF LookupHolds, Lookups
    <2>3. CASE lookup \in [type : {"permalink"}, list : {<<>>}, sorted : {FALSE},
                           weekday : FirstWeekdays, day : 1..31]
      <3>1. lookup.type = "permalink" /\ lookup.weekday \in FirstWeekdays /\ lookup.day \in 1..31
        BY <2>3
      <3> QED BY <1>1, <3>1 DEF LookupHolds, Lookups
    <2> QED BY <2>1, <2>2, <2>3 DEF ResolverInit
  <1>3. lookup.type = "dated" => site \in [DatedDays -> Answers]
    BY DEF ResolverInit
  <1>4. 0 <= MaxDaysBack + 1 /\ 0 <= MaxDaysBack /\ <<>> \in Seq(Answers)
    BY ResolverAssumption
  <1>5. WalkHolds
    BY <1>1, <1>3, <1>4 DEF WalkHolds
  <1> QED BY <1>1, <1>2, <1>5 DEF ResolverInv, NewestIsTaken, NeverGuessed, YearChangesOnSunday

-----------------------------------------------------------------------------
(* The corridor filter *)

\* Each corridor feed is the national one filtered for its home.
FilterInv ==
    /\ national \in InputFeeds
    /\ DOMAIN corridor = Homes \cup {Nil}
    /\ corridor = [h \in DOMAIN corridor |-> corridor[h]]
    /\ \A h \in Written : corridor[h] = Filtered(national, h)

LEMMA FilterStarts == FilterInit \/ FilterAtRest => FilterInv
  <1> SUFFICES ASSUME FilterInit \/ FilterAtRest PROVE FilterInv
    OBVIOUS
  <1>1. RestFeed \in InputFeeds
    BY FilterAssumption DEF RestFeed
  <1>2. national \in InputFeeds /\ corridor = [h \in Homes \cup {Nil} |-> Nil]
    BY <1>1 DEF FilterInit, FilterAtRest
  <1> QED BY <1>2 DEF FilterInv, Written

LEMMA FilterStays == FilterInv /\ UNCHANGED filterVars => FilterInv'
  BY DEF FilterInv, Written, filterVars

LEMMA FilterKept == FilterInv /\ [FilterNext]_filterVars => FilterInv'
  <1> SUFFICES ASSUME FilterInv, FilterNext PROVE FilterInv'
    BY FilterStays
  <1>1. PICK home \in Homes \cup {Nil} : FilterToCrossBorder(home)
    BY DEF FilterNext
  <1>2. national' = national /\ corridor' = [corridor EXCEPT ![home] = Filtered(national, home)]
    BY <1>1 DEF FilterToCrossBorder
  <1>3. DOMAIN corridor' = Homes \cup {Nil}
    BY <1>2 DEF FilterInv
  <1>4. \A h \in Homes \cup {Nil} :
          corridor'[h] = IF h = home THEN Filtered(national, home) ELSE corridor[h]
    BY <1>2, Zenon DEF FilterInv
  <1>5. ASSUME NEW h \in Written' PROVE corridor'[h] = Filtered(national, h)
    <2>1. h \in Homes \cup {Nil} /\ corridor'[h] # Nil
      BY <1>5 DEF Written
    <2>2. CASE h = home
      BY <2>1, <2>2, <1>4
    <2>3. CASE h # home
      BY <2>1, <2>3, <1>4 DEF FilterInv, Written
    <2> QED BY <2>2, <2>3
  <1>6. corridor' = [h \in DOMAIN corridor' |-> corridor'[h]]
    BY <1>2 DEF FilterInv
  <1>7. \A h \in Written' : corridor'[h] = Filtered(national', h)
    BY <1>2, <1>5, Zenon
  <1> QED BY <1>2, <1>3, <1>6, <1>7, Zenon DEF FilterInv

\* What a filtered feed has, table by table.
KeptRoutes(feed, home) == {feed.trips[t].route : t \in KeptTrips(feed, home)}
KeptCalls(feed, home) ==
    Restricted(feed.calls, {i \in DOMAIN feed.calls : feed.calls[i].trip \in KeptTrips(feed, home)})
StopsOf(feed, home) == KeptStops(feed, KeptCalls(feed, home))

LEMMA FilteredHas ==
    ASSUME NEW feed, NEW home
    PROVE  /\ Filtered(feed, home).trips = Restricted(feed.trips, KeptTrips(feed, home))
           /\ Filtered(feed, home).routes = Restricted(feed.routes, KeptRoutes(feed, home))
           /\ Filtered(feed, home).calls = KeptCalls(feed, home)
           /\ Filtered(feed, home).stops = Restricted(feed.stops, StopsOf(feed, home))
           /\ Filtered(feed, home).agencies = KeptAgencies(feed, KeptRoutes(feed, home))
           /\ Filtered(feed, home).services
                = feed.services \cap {feed.trips[t].service : t \in KeptTrips(feed, home)}
           /\ Filtered(feed, home).transfers
                = {x \in feed.transfers : {x.from, x.to} \subseteq StopsOf(feed, home)
                                          /\ x.trip \in KeptTrips(feed, home) \cup {Nil}}
  <1> DEFINE trips == Restricted(feed.trips, KeptTrips(feed, home))
             routes == Restricted(feed.routes, KeptRoutes(feed, home))
             stops == Restricted(feed.stops, StopsOf(feed, home))
             agencies == KeptAgencies(feed, KeptRoutes(feed, home))
             services == feed.services \cap {feed.trips[t].service : t \in KeptTrips(feed, home)}
             transfers == {x \in feed.transfers : {x.from, x.to} \subseteq StopsOf(feed, home)
                                                  /\ x.trip \in KeptTrips(feed, home) \cup {Nil}}
  <1>1. Filtered(feed, home) =
         [railOnly  |-> feed.railOnly, routes    |-> routes, trips     |-> trips,
          calls     |-> KeptCalls(feed, home), stops     |-> stops, agencies  |-> agencies,
          services  |-> services, transfers |-> transfers]
    BY Zenon DEF Filtered, KeptRoutes, KeptCalls, StopsOf
  <1> HIDE DEF trips, routes, stops, agencies, services, transfers
  <1>2. /\ Filtered(feed, home).trips = trips /\ Filtered(feed, home).routes = routes
        /\ Filtered(feed, home).calls = KeptCalls(feed, home)
        /\ Filtered(feed, home).stops = stops /\ Filtered(feed, home).agencies = agencies
        /\ Filtered(feed, home).services = services
        /\ Filtered(feed, home).transfers = transfers
    BY <1>1
  <1> QED BY <1>2, Zenon DEF trips, routes, stops, agencies, services, transfers

\* A filtered feed keeps the trips it is meant to, and no route but theirs.
LEMMA FilteredTrips ==
    ASSUME NEW feed, NEW home
    PROVE  /\ DOMAIN Filtered(feed, home).trips = KeptTrips(feed, home)
           /\ DOMAIN Filtered(feed, home).routes \subseteq CrossBorderRoutes(feed)
  <1>1. KeptTrips(feed, home) \subseteq DOMAIN feed.trips
    BY Zenon DEF KeptTrips
  <1>2. KeptRoutes(feed, home) \subseteq CrossBorderRoutes(feed)
    BY Zenon DEF KeptRoutes, KeptTrips
  <1>3. /\ DOMAIN Filtered(feed, home).trips = DOMAIN feed.trips \cap KeptTrips(feed, home)
        /\ DOMAIN Filtered(feed, home).routes = DOMAIN feed.routes \cap KeptRoutes(feed, home)
    <2>1. /\ Filtered(feed, home).trips = Restricted(feed.trips, KeptTrips(feed, home))
          /\ Filtered(feed, home).routes = Restricted(feed.routes, KeptRoutes(feed, home))
      BY FilteredHas, Zenon
    <2> QED BY <2>1 DEF Restricted
  <1> QED BY <1>1, <1>2, <1>3

\* Whatever the filter keeps it keeps whole.
Closed(f) ==
    /\ \A t \in DOMAIN f.trips : /\ f.trips[t].route \in DOMAIN f.routes
                                 /\ f.trips[t].service \in f.services
    /\ \A i \in DOMAIN f.calls : /\ f.calls[i].trip \in DOMAIN f.trips
                                 /\ f.calls[i].stop \in DOMAIN f.stops
    /\ \A s \in DOMAIN f.stops : f.stops[s].parent \in DOMAIN f.stops \cup {Nil}
    /\ \A r \in DOMAIN f.routes : f.routes[r].agency \in f.agencies \cup {Nil}
    /\ \A x \in f.transfers : /\ {x.from, x.to} \subseteq DOMAIN f.stops
                              /\ x.trip \in DOMAIN f.trips \cup {Nil}

LEMMA FilteredCloses ==
    ASSUME NEW feed, IsFeed(feed), NEW home
    PROVE  Closed(Filtered(feed, home))
  <1> DEFINE f == Filtered(feed, home)
             trips == KeptTrips(feed, home)
             routes == KeptRoutes(feed, home)
             stops == StopsOf(feed, home)
  <1>1. trips \subseteq DOMAIN feed.trips
    BY Zenon DEF KeptTrips
  <1>2. routes \subseteq DOMAIN feed.routes
    <2>1. \A t \in DOMAIN feed.trips : feed.trips[t].route \in DOMAIN feed.routes
      BY Zenon DEF IsFeed
    <2> QED BY <1>1, <2>1, Zenon DEF KeptRoutes
  <1>3. /\ DOMAIN f.trips = trips /\ \A t \in trips : f.trips[t] = feed.trips[t]
    <2>1. f.trips = Restricted(feed.trips, trips)
      BY FilteredHas, Zenon
    <2> HIDE DEF f, trips
    <2>2. trips = DOMAIN feed.trips \cap trips
      BY <1>1
    <2> QED BY <2>1, <2>2 DEF Restricted
  <1>4. /\ DOMAIN f.routes = routes /\ \A r \in routes : f.routes[r] = feed.routes[r]
    <2>1. f.routes = Restricted(feed.routes, routes)
      BY FilteredHas, Zenon
    <2> HIDE DEF f, routes
    <2>2. routes = DOMAIN feed.routes \cap routes
      BY <1>2
    <2> QED BY <2>1, <2>2 DEF Restricted
  <1>5. ASSUME NEW t \in DOMAIN f.trips
        PROVE  f.trips[t].route \in DOMAIN f.routes /\ f.trips[t].service \in f.services
    <2>1. t \in trips /\ f.trips[t] = feed.trips[t]
      BY <1>3, Zenon
    <2>2. feed.trips[t].route \in routes
      BY <2>1, Zenon DEF KeptRoutes
    <2>3. feed.trips[t].service \in feed.services
      BY <2>1, <1>1, Zenon DEF IsFeed
    <2>4. feed.trips[t].service \in f.services
      <3>1. f.services = feed.services \cap {feed.trips[x].service : x \in trips}
        BY FilteredHas, Zenon
      <3>2. feed.trips[t].service \in {feed.trips[x].service : x \in trips}
        BY <2>1, Zenon
      <3> QED BY <3>1, <3>2, <2>3, Zenon
    <2> QED BY <2>1, <2>2, <2>4, <1>4, Zenon
  <1>6. DOMAIN f.calls = {i \in DOMAIN feed.calls : feed.calls[i].trip \in trips}
        /\ \A i \in DOMAIN f.calls : f.calls[i] = feed.calls[i]
    <2> DEFINE places == {i \in DOMAIN feed.calls : feed.calls[i].trip \in trips}
    <2>1. f.calls = Restricted(feed.calls, places)
      <3>1. f.calls = KeptCalls(feed, home)
        BY FilteredHas, Zenon
      <3> HIDE DEF f
      <3> QED BY <3>1, Zenon DEF KeptCalls
    <2>2. DOMAIN f.calls = DOMAIN feed.calls \cap places
          /\ \A k \in DOMAIN feed.calls \cap places : f.calls[k] = feed.calls[k]
      <3> HIDE DEF f, places
      <3> QED BY <2>1 DEF Restricted
    <2>3. places \subseteq DOMAIN feed.calls
      BY Zenon
    <2> HIDE DEF places
    <2>4. DOMAIN feed.calls \cap places = places
      BY <2>3
    <2>5. DOMAIN f.calls = places
      BY <2>2, <2>4, Zenon
    <2>6. \A i \in DOMAIN f.calls : f.calls[i] = feed.calls[i]
      BY <2>2, Zenon
    <2> QED BY <2>5, <2>6, Zenon DEF places
  <1>7. /\ \A i \in DOMAIN f.calls : f.calls[i].stop \in stops
        /\ stops \subseteq DOMAIN feed.stops
        /\ \A s \in stops : feed.stops[s].parent \in stops \cup {Nil}
    <2> DEFINE called == {f.calls[i].stop : i \in DOMAIN f.calls}
               parents == {feed.stops[s].parent : s \in called} \ {Nil}
    <2>1. f.calls = KeptCalls(feed, home)
      BY FilteredHas, Zenon
    <2>2. stops = called \cup parents
      BY <2>1, Zenon DEF StopsOf, KeptStops
    <2>3. \A i \in DOMAIN f.calls : f.calls[i].stop \in called
      BY Zenon
    <2>4. called \subseteq DOMAIN feed.stops
      <3>1. \A i \in DOMAIN feed.calls : feed.calls[i].stop \in DOMAIN feed.stops
        BY Zenon DEF IsFeed
      <3> QED BY <3>1, <1>6, Zenon
    <2>5. \A s \in DOMAIN feed.stops : feed.stops[s].parent # Nil =>
             /\ feed.stops[s].parent \in DOMAIN feed.stops
             /\ feed.stops[feed.stops[s].parent].parent = Nil
      BY Zenon DEF IsFeed
    <2>6. \A p \in parents : p # Nil /\ \E s \in called : p = feed.stops[s].parent
      BY Zenon
    <2>7. \A s \in called : feed.stops[s].parent # Nil => feed.stops[s].parent \in parents
      BY Zenon
    <2> HIDE DEF called, parents, f
    <2>8. parents \subseteq DOMAIN feed.stops
      BY <2>4, <2>5, <2>6
    <2>9. \A s \in parents : feed.stops[s].parent = Nil
      BY <2>4, <2>5, <2>6
    <2>10. \A s \in stops : feed.stops[s].parent \in stops \cup {Nil}
      BY <2>2, <2>7, <2>9
    <2>11. stops \subseteq DOMAIN feed.stops
      BY <2>2, <2>4, <2>8
    <2>12. \A i \in DOMAIN f.calls : f.calls[i].stop \in stops
      BY <2>2, <2>3
    <2> QED BY <2>10, <2>11, <2>12
  <1>8. /\ DOMAIN f.stops = stops /\ \A s \in stops : f.stops[s] = feed.stops[s]
    <2>1. f.stops = Restricted(feed.stops, stops)
      BY FilteredHas, Zenon
    <2> HIDE DEF f, stops
    <2>2. stops = DOMAIN feed.stops \cap stops
      BY <1>7
    <2> QED BY <2>1, <2>2 DEF Restricted
  <1>9. \A i \in DOMAIN f.calls : f.calls[i].trip \in DOMAIN f.trips
                                  /\ f.calls[i].stop \in DOMAIN f.stops
    BY <1>3, <1>6, <1>7, <1>8, Zenon
  <1>10. \A s \in DOMAIN f.stops : f.stops[s].parent \in DOMAIN f.stops \cup {Nil}
    BY <1>7, <1>8, Zenon
  <1>11. ASSUME NEW r \in DOMAIN f.routes PROVE f.routes[r].agency \in f.agencies \cup {Nil}
    <2> DEFINE agenciesNamed == {feed.routes[x].agency : x \in routes} \ {Nil}
    <2>1. r \in routes /\ f.routes[r] = feed.routes[r]
      BY <1>4, Zenon
    <2>2. feed.routes[r].agency \in feed.agencies \cup {Nil}
      BY <2>1, <1>2, Zenon DEF IsFeed
    <2>3. f.agencies = IF agenciesNamed = {} THEN feed.agencies ELSE feed.agencies \cap agenciesNamed
      BY FilteredHas, Zenon DEF KeptAgencies
    <2>4. feed.routes[r].agency # Nil => feed.routes[r].agency \in agenciesNamed
      BY <2>1, Zenon
    <2> HIDE DEF agenciesNamed, f
    <2> QED BY <2>1, <2>2, <2>3, <2>4
  <1>12. \A x \in f.transfers : /\ {x.from, x.to} \subseteq DOMAIN f.stops
                                /\ x.trip \in DOMAIN f.trips \cup {Nil}
    <2>1. f.transfers = {x \in feed.transfers : {x.from, x.to} \subseteq stops
                                                /\ x.trip \in trips \cup {Nil}}
      <3>1. Filtered(feed, home).transfers
              = {x \in feed.transfers : {x.from, x.to} \subseteq StopsOf(feed, home)
                                        /\ x.trip \in KeptTrips(feed, home) \cup {Nil}}
        BY FilteredHas
      <3> QED BY <3>1
    <2> QED BY <2>1, <1>3, <1>8, Zenon
  <1> HIDE DEF f
  <1>13. Closed(f)
    BY <1>5, <1>9, <1>10, <1>11, <1>12, Zenon DEF Closed
  <1> QED BY <1>13, Zenon DEF f

LEMMA OwnedOnceHolds == FilterInv => OwnedOnce
  <1> SUFFICES ASSUME FilterInv PROVE OwnedOnce
    OBVIOUS
  <1>1. Nil \notin Homes
    BY FilterAssumption
  <1>2. \A h \in Written : h \in Homes \cup {Nil}
                           /\ DOMAIN corridor[h].trips = KeptTrips(national, h)
    BY FilteredTrips DEF FilterInv, Written
  <1>3. ASSUME NEW g \in Written \ {Nil}, NEW h \in Written \ {Nil}, g # h
        PROVE  DOMAIN corridor[g].trips \cap DOMAIN corridor[h].trips = {}
    <2>1. \A t \in KeptTrips(national, g) : TripOrigin(national, t) = g
      BY Zenon DEF KeptTrips
    <2>2. \A t \in KeptTrips(national, h) : TripOrigin(national, t) = h
      BY Zenon DEF KeptTrips
    <2> QED BY <1>2, <1>3, <2>1, <2>2
  <1>4. ASSUME Written = Homes \cup {Nil}, NEW t \in DOMAIN corridor[Nil].trips,
               TripOrigin(national, t) \in Homes
        PROVE  \E h \in Homes : t \in DOMAIN corridor[h].trips
    <2> DEFINE h == TripOrigin(national, t)
    <2>1. t \in KeptTrips(national, Nil)
      BY <1>2, <1>4
    <2>2. t \in KeptTrips(national, h)
      BY <2>1, Zenon DEF KeptTrips
    <2>3. h \in Homes /\ h \in Written
      BY <1>4
    <2>4. t \in DOMAIN corridor[h].trips
      BY <1>2, <2>2, <2>3
    <2> QED BY <2>3, <2>4
  <1> QED BY <1>3, <1>4, Zenon DEF OwnedOnce

\* The country a stop is given is the land it is in, or none.
LEMMA CountryIs ==
    ASSUME NEW s
    PROVE  CountryOfStop(s) = IF s.code = "internal" THEN Nil
                              ELSE IF s.code = Nil THEN s.point ELSE s.code
  <1>1. Nil # "internal"
    BY FilterAssumption
  <1>2. CASE s.code \notin {"internal", Nil}
    BY <1>2, Zenon DEF CountryOfStop
  <1>3. CASE s.code = "internal"
    BY <1>1, <1>3, Zenon DEF CountryOfStop
  <1>4. CASE s.code = Nil
    BY <1>1, <1>4, Zenon DEF CountryOfStop
  <1> QED BY <1>2, <1>3, <1>4

LEMMA CountriesAreLands ==
    ASSUME NEW feed, IsFeed(feed), NEW s \in DOMAIN feed.stops
    PROVE  StopCountry(feed)[s] \in {Nil, feed.stops[s].land}
  <1> DEFINE row == feed.stops[s]
             station == feed.stops[row.parent]
             own == CountryOfStop(row)
  <1>1. StopCountry(feed)[s] =
          IF own # Nil \/ row.parent = Nil THEN own ELSE CountryOfStop(station)
    BY Zenon DEF StopCountry
  <1>2. /\ row.code \in {"internal", Nil, row.land} /\ row.point \in {Nil, row.land}
        /\ row.parent # Nil => row.parent \in DOMAIN feed.stops /\ station.land = row.land
    BY Zenon DEF IsFeed
  <1>3. row.parent # Nil => /\ station.code \in {"internal", Nil, row.land}
                            /\ station.point \in {Nil, row.land}
    <2> SUFFICES ASSUME row.parent # Nil
                 PROVE /\ station.code \in {"internal", Nil, row.land}
                       /\ station.point \in {Nil, row.land}
      OBVIOUS
    <2>1. row.parent \in DOMAIN feed.stops /\ station.land = row.land
      BY <1>2, Zenon
    <2>2. /\ station.code \in {"internal", Nil, station.land}
          /\ station.point \in {Nil, station.land}
      BY <2>1, Zenon DEF IsFeed
    <2> QED BY <2>1, <2>2, Zenon
  <1>4. own \in {Nil, row.land}
    <2>1. own = IF row.code = "internal" THEN Nil ELSE IF row.code = Nil THEN row.point ELSE row.code
      BY CountryIs, Zenon
    <2> HIDE DEF own, row
    <2> QED BY <1>2, <2>1
  <1>5. row.parent # Nil => CountryOfStop(station) \in {Nil, row.land}
    <2>1. CountryOfStop(station) = IF station.code = "internal" THEN Nil
              ELSE IF station.code = Nil THEN station.point ELSE station.code
      BY CountryIs, Zenon
    <2> HIDE DEF station, row
    <2> QED BY <1>3, <2>1
  <1> HIDE DEF own, row, station
  <1>6. StopCountry(feed)[s] \in {Nil, row.land}
    BY <1>1, <1>4, <1>5
  <1> QED BY <1>6, Zenon DEF row

\* A route of two countries calls in as many lands.
Lands(feed, r) ==
    {feed.stops[feed.calls[i].stop].land :
        i \in {i \in DOMAIN feed.calls : feed.trips[feed.calls[i].trip].route = r}}

LEMMA LandsOf ==
    ASSUME NEW feed, IsFeed(feed), NEW r \in CrossBorderRoutes(feed)
    PROVE  Cardinality(Lands(feed, r)) >= 2
  <1> DEFINE S == {i \in DOMAIN feed.calls : feed.trips[feed.calls[i].trip].route = r}
             landOf == [i \in S |-> feed.stops[feed.calls[i].stop].land]
             T == Lands(feed, r)
             C == RouteCountries(feed, r)
  <1>1. Cardinality(C) >= 2
    BY Zenon DEF CrossBorderRoutes
  <1>2. IsFiniteSet(S)
    <2>1. DOMAIN feed.calls = 1..Len(feed.calls) /\ Len(feed.calls) \in Nat
      BY Zenon DEF IsFeed
    <2>2. IsFiniteSet(DOMAIN feed.calls)
      BY <2>1, FS_Interval
    <2>3. S \subseteq DOMAIN feed.calls
      BY Zenon
    <2> HIDE DEF S
    <2> QED BY <2>2, <2>3, FS_Subset
  <1>3. landOf \in Surjection(S, T)
    <2>1. T = {landOf[i] : i \in S}
      BY Zenon DEF Lands
    <2>2. landOf = [i \in S |-> landOf[i]] /\ DOMAIN landOf = S
      OBVIOUS
    <2> HIDE DEF landOf, S, T
    <2>3. landOf \in [S -> T] /\ \A x \in T : \E i \in S : landOf[i] = x
      BY <2>1, <2>2
    <2> QED BY <2>3, Zenon DEF Surjection
  <1>4. IsFiniteSet(T)
    <2> HIDE DEF landOf, S, T
    <2> QED BY <1>2, <1>3, FS_Surjection
  <1>5. C \subseteq T
    <2> SUFFICES ASSUME NEW c \in C PROVE c \in T
      OBVIOUS
    <2>1. c # Nil /\ \E i \in RailCalls(feed) : /\ feed.trips[feed.calls[i].trip].route = r
                                               /\ c = StopCountry(feed)[feed.calls[i].stop]
      BY Zenon DEF RouteCountries
    <2>2. PICK i \in RailCalls(feed) : /\ feed.trips[feed.calls[i].trip].route = r
                                       /\ c = StopCountry(feed)[feed.calls[i].stop]
      BY <2>1
    <2>3. i \in DOMAIN feed.calls
      BY Zenon DEF RailCalls
    <2>4. feed.calls[i].stop \in DOMAIN feed.stops
      BY <2>3, Zenon DEF IsFeed
    <2>5. c = feed.stops[feed.calls[i].stop].land
      BY <2>1, <2>2, <2>4, CountriesAreLands
    <2>6. i \in S
      BY <2>2, <2>3, Zenon
    <2> QED BY <2>5, <2>6, Zenon DEF Lands
  <1>6. Cardinality(T) \in Nat /\ Cardinality(C) \in Nat /\ Cardinality(C) <= Cardinality(T)
    <2> HIDE DEF C, T
    <2> QED BY <1>4, <1>5, FS_Subset, FS_CardinalityType
  <1> HIDE DEF C, T
  <1>7. Cardinality(T) >= 2
    BY <1>1, <1>6
  <1> QED BY <1>7, Zenon DEF T

LEMMA NoneCrossesFalsely == FilterInv => NoFalseCrossing
  <1> SUFFICES ASSUME FilterInv, NEW h \in Written, NEW r \in DOMAIN corridor[h].routes
               PROVE  Cardinality(Lands(national, r)) >= 2
    BY Zenon DEF NoFalseCrossing, Lands
  <1>1. IsFeed(national) /\ corridor[h] = Filtered(national, h)
    BY FilterAssumption DEF FilterInv
  <1>2. r \in CrossBorderRoutes(national)
    BY <1>1, FilteredTrips
  <1> QED BY <1>1, <1>2, LandsOf

\* A trip's first call is the least of them, in order and then in place.
LeastCall(feed, t, i) ==
    /\ i \in RailCalls(feed) /\ feed.calls[i].trip = t
    /\ \A j \in RailCalls(feed) : feed.calls[j].trip = t =>
         feed.calls[i].seq < feed.calls[j].seq
            \/ (feed.calls[i].seq = feed.calls[j].seq /\ i <= j)

LEMMA FirstIsLeast ==
    ASSUME NEW feed, DOMAIN feed.calls \in SUBSET Nat,
           \A i \in DOMAIN feed.calls : feed.calls[i].seq \in Nat,
           NEW t, \E i \in RailCalls(feed) : feed.calls[i].trip = t
    PROVE  LeastCall(feed, t, FirstCall(feed, t))
  <1> DEFINE S == {i \in RailCalls(feed) : feed.calls[i].trip = t}
             numbers == {feed.calls[i].seq : i \in S}
             low == Min(numbers)
             lowest == {i \in S : feed.calls[i].seq = low}
             first == Min(lowest)
  <1>1. S \subseteq Nat /\ S # {} /\ \A i \in S : feed.calls[i].seq \in Nat
    <2>1. \A i \in RailCalls(feed) : i \in DOMAIN feed.calls
      BY Zenon DEF RailCalls
    <2> QED BY <2>1
  <1>2. numbers \subseteq Nat /\ numbers # {}
    <2> HIDE DEF S
    <2> QED BY <1>1
  <1>3. low \in numbers /\ \A y \in numbers : low <= y
    <2> HIDE DEF numbers
    <2> QED BY <1>2, SmallestOf
  <1>4. (\A i \in S : low <= feed.calls[i].seq) /\ \E i \in S : feed.calls[i].seq = low
    <2> HIDE DEF S, low
    <2> QED BY <1>3
  <1>5. lowest \subseteq Nat /\ lowest # {}
    <2> HIDE DEF S, low
    <2> QED BY <1>1, <1>4
  <1>6. first \in lowest /\ \A y \in lowest : first <= y
    <2> HIDE DEF lowest
    <2> QED BY <1>5, SmallestOf
  <1>7. ASSUME NEW j \in S
        PROVE  feed.calls[first].seq < feed.calls[j].seq
                 \/ (feed.calls[first].seq = feed.calls[j].seq /\ first <= j)
    <2>1. feed.calls[first].seq = low /\ feed.calls[j].seq \in Nat /\ low <= feed.calls[j].seq
      BY <1>1, <1>4, <1>6, Zenon
    <2>2. feed.calls[j].seq = low => first <= j
      BY <1>6, Zenon
    <2>3. low \in Nat
      BY <1>2, <1>3
    <2> HIDE DEF S, low, first
    <2> QED BY <2>1, <2>2, <2>3
  <1>8. LeastCall(feed, t, first)
    BY <1>6, <1>7, Zenon DEF LeastCall
  <1> HIDE DEF first
  <1>9. FirstCall(feed, t) = CHOOSE i : LeastCall(feed, t, i)
    BY Zenon DEF FirstCall, LeastCall
  <1> QED BY <1>8, <1>9, Zenon

\* The feed with its stop_times the other way round.
Backwards(feed) ==
    LET n == Len(feed.calls)
    IN [feed EXCEPT !.calls = [i \in 1..n |-> feed.calls[n + 1 - i]]]

\* Such a feed b, of n rows: row i is row n + 1 - i, the other tables are the same.
Mirrored(feed, b, n) ==
    /\ n \in Nat /\ DOMAIN feed.calls = 1..n /\ DOMAIN b.calls = 1..n
    /\ \A i \in 1..n : b.calls[i] = feed.calls[n + 1 - i] /\ n + 1 - i \in 1..n
    /\ b.railOnly = feed.railOnly /\ b.stops = feed.stops
    /\ b.routes = feed.routes /\ b.trips = feed.trips

LEMMA BackwardsIs ==
    ASSUME NEW feed, IsFeed(feed)
    PROVE  Mirrored(feed, Backwards(feed), Len(feed.calls))
  <1> DEFINE n == Len(feed.calls)
             b == Backwards(feed)
  <1> DEFINE mirrored == [i \in 1..n |-> feed.calls[n + 1 - i]]
  <1>1. n \in Nat /\ DOMAIN feed.calls = 1..n
    BY Zenon DEF IsFeed
  <1>2. DOMAIN feed = {"railOnly", "stops", "routes", "trips", "calls", "agencies", "services",
                       "transfers"}
    BY Zenon DEF IsFeed
  <1>3. b = [feed EXCEPT !.calls = mirrored]
    BY Zenon DEF Backwards
  <1>4. DOMAIN mirrored = 1..n /\ \A i \in 1..n : mirrored[i] = feed.calls[n + 1 - i]
    BY Zenon
  <1> HIDE DEF mirrored
  <1>5. /\ b.railOnly = feed.railOnly /\ b.stops = feed.stops
        /\ b.routes = feed.routes /\ b.trips = feed.trips
    BY <1>3
  <1>6. b.calls = mirrored
    BY <1>2, <1>3
  <1>7. \A i \in 1..n : n + 1 - i \in 1..n
    BY <1>1
  <1> HIDE DEF n, b
  <1>8. Mirrored(feed, b, n)
    BY <1>1, <1>4, <1>5, <1>6, <1>7 DEF Mirrored
  <1> QED BY <1>8, Zenon DEF n, b

LEMMA BackwardsKeeps ==
    ASSUME NEW feed, NEW n, NEW b, Mirrored(feed, b, n)
    PROVE  /\ \A i \in 1..n : i \in RailCalls(b) <=> n + 1 - i \in RailCalls(feed)
           /\ StopCountry(b) = StopCountry(feed)
           /\ CrossBorderRoutes(b) = CrossBorderRoutes(feed)
  <1>1. /\ n \in Nat /\ DOMAIN feed.calls = 1..n /\ DOMAIN b.calls = 1..n
        /\ \A i \in 1..n : b.calls[i] = feed.calls[n + 1 - i] /\ n + 1 - i \in 1..n
        /\ b.railOnly = feed.railOnly /\ b.stops = feed.stops
        /\ b.routes = feed.routes /\ b.trips = feed.trips
    BY DEF Mirrored
  <1>2. StopCountry(b) = StopCountry(feed)
    BY <1>1, Zenon DEF StopCountry
  <1>3. RailRoutes(b) = RailRoutes(feed)
    BY <1>1, Zenon DEF RailRoutes
  <1>4. \A i \in 1..n : i \in RailCalls(b) <=> n + 1 - i \in RailCalls(feed)
    BY <1>1, <1>3, Zenon DEF RailCalls
  <1>5. RailCalls(b) \subseteq 1..n /\ RailCalls(feed) \subseteq 1..n
    BY <1>1, Zenon DEF RailCalls
  <1>6. ASSUME NEW r PROVE RouteCountries(b, r) = RouteCountries(feed, r)
    <2>1. ASSUME NEW c PROVE c \in RouteCountries(b, r) <=>
            c # Nil /\ \E i \in RailCalls(b) : /\ b.trips[b.calls[i].trip].route = r
                                               /\ c = StopCountry(b)[b.calls[i].stop]
      BY Zenon DEF RouteCountries
    <2>2. ASSUME NEW c PROVE c \in RouteCountries(feed, r) <=>
            c # Nil /\ \E i \in RailCalls(feed) : /\ feed.trips[feed.calls[i].trip].route = r
                                                  /\ c = StopCountry(feed)[feed.calls[i].stop]
      BY Zenon DEF RouteCountries
    <2>3. ASSUME NEW c \in RouteCountries(b, r) PROVE c \in RouteCountries(feed, r)
      <3>1. PICK i \in RailCalls(b) : /\ b.trips[b.calls[i].trip].route = r
                                      /\ c = StopCountry(b)[b.calls[i].stop]
        BY <2>1
      <3>2. i \in 1..n
        BY <1>5
      <3>3. n + 1 - i \in RailCalls(feed) /\ b.calls[i] = feed.calls[n + 1 - i]
        BY <1>1, <1>4, <3>2
      <3> QED BY <1>1, <1>2, <2>1, <2>2, <3>1, <3>3, Zenon
    <2>4. ASSUME NEW c \in RouteCountries(feed, r) PROVE c \in RouteCountries(b, r)
      <3>1. PICK j \in RailCalls(feed) : /\ feed.trips[feed.calls[j].trip].route = r
                                         /\ c = StopCountry(feed)[feed.calls[j].stop]
        BY <2>2
      <3>2. j \in 1..n
        BY <1>5
      <3>3. PICK i \in 1..n : n + 1 - i = j
        <4>1. n + 1 - j \in 1..n /\ n + 1 - (n + 1 - j) = j
          BY <1>1, <3>2
        <4> QED BY <4>1
      <3>4. i \in RailCalls(b) /\ b.calls[i] = feed.calls[j]
        BY <1>1, <1>4, <3>3
      <3> QED BY <1>1, <1>2, <2>1, <2>2, <3>1, <3>4, Zenon
    <2> QED BY <2>3, <2>4, Zenon
  <1>7. CrossBorderRoutes(b) = CrossBorderRoutes(feed)
    <2>1. \A r : RouteCountries(b, r) = RouteCountries(feed, r)
      BY <1>6, Zenon
    <2>2. \A r : r \in CrossBorderRoutes(b) <=> r \in CrossBorderRoutes(feed)
      <3>1. \A r : r \in CrossBorderRoutes(b)
                     <=> r \in RailRoutes(b) /\ Cardinality(RouteCountries(b, r)) >= 2
        BY Zenon DEF CrossBorderRoutes
      <3>2. \A r : r \in CrossBorderRoutes(feed)
                     <=> r \in RailRoutes(feed) /\ Cardinality(RouteCountries(feed, r)) >= 2
        BY Zenon DEF CrossBorderRoutes
      <3> QED BY <3>1, <3>2, <2>1, <1>3, Zenon
    <2> QED BY <2>2
  <1> QED BY <1>2, <1>4, <1>7, Zenon

\* Where no two calls of a trip have one number, a trip starts in the same country either way.
LEMMA SameOrigin ==
    ASSUME NEW feed, IsFeed(feed), NEW t,
           \A i, j \in 1..Len(feed.calls) : feed.calls[i].trip = feed.calls[j].trip =>
              (feed.calls[i].seq = feed.calls[j].seq => i = j)
    PROVE  TripOrigin(Backwards(feed), t) = TripOrigin(feed, t)
  <1> DEFINE n == Len(feed.calls)
             b == Backwards(feed)
             x == FirstCall(feed, t)
             y == FirstCall(b, t)
  <1>0. Mirrored(feed, b, n)
    BY BackwardsIs, Zenon
  <1> HIDE DEF n, b
  <1>1. /\ n \in Nat /\ DOMAIN feed.calls = 1..n /\ DOMAIN b.calls = 1..n
        /\ \A i \in 1..n : b.calls[i] = feed.calls[n + 1 - i] /\ n + 1 - i \in 1..n
    BY <1>0 DEF Mirrored
  <1>2. /\ \A i \in 1..n : i \in RailCalls(b) <=> n + 1 - i \in RailCalls(feed)
        /\ StopCountry(b) = StopCountry(feed)
    BY <1>0, BackwardsKeeps
  <1>3. RailCalls(b) \subseteq 1..n /\ RailCalls(feed) \subseteq 1..n
    BY <1>1, Zenon DEF RailCalls
  <1>4. \A i \in 1..n : feed.calls[i].seq \in Nat /\ b.calls[i].seq \in Nat
    <2>1. \A i \in 1..n : feed.calls[i].seq \in Nat
      BY <1>1, Zenon DEF IsFeed
    <2> QED BY <1>1, <2>1, Zenon
  <1>5. \A i, j \in 1..n : feed.calls[i].trip = feed.calls[j].trip =>
              (feed.calls[i].seq = feed.calls[j].seq => i = j)
    BY Zenon DEF n
  <1>6. 1..n \in SUBSET Nat
    BY <1>1
  <1>7. (\E i \in RailCalls(feed) : feed.calls[i].trip = t)
          <=> \E i \in RailCalls(b) : b.calls[i].trip = t
    <2>1. ASSUME NEW i \in RailCalls(feed), feed.calls[i].trip = t
          PROVE  \E j \in RailCalls(b) : b.calls[j].trip = t
      <3>1. i \in 1..n
        BY <1>3
      <3>2. n + 1 - i \in 1..n /\ n + 1 - (n + 1 - i) = i
        BY <1>1, <3>1
      <3>3. n + 1 - i \in RailCalls(b) /\ b.calls[n + 1 - i] = feed.calls[i]
        BY <1>1, <1>2, <3>2
      <3> QED BY <2>1, <3>3
    <2>2. ASSUME NEW i \in RailCalls(b), b.calls[i].trip = t
          PROVE  \E j \in RailCalls(feed) : feed.calls[j].trip = t
      BY <1>1, <1>2, <1>3, <2>2
    <2> QED BY <2>1, <2>2
  <1>8. CASE \E i \in RailCalls(feed) : feed.calls[i].trip = t
    <2>1. LeastCall(feed, t, x) /\ LeastCall(b, t, y)
      BY <1>1, <1>4, <1>6, <1>7, <1>8, FirstIsLeast
    <2> HIDE DEF x, y
    <2>2. /\ x \in RailCalls(feed) /\ feed.calls[x].trip = t
          /\ y \in RailCalls(b) /\ b.calls[y].trip = t /\ x \in 1..n /\ y \in 1..n
      BY <1>3, <2>1, Zenon DEF LeastCall
    <2> DEFINE u == n + 1 - x
               v == n + 1 - y
    <2>3. u \in 1..n /\ v \in 1..n /\ n + 1 - u = x
      BY <1>1, <2>2
    <2>4. b.calls[u] = feed.calls[x] /\ b.calls[y] = feed.calls[v]
      BY <1>1, <2>2, <2>3
    <2>5. u \in RailCalls(b) /\ v \in RailCalls(feed)
      BY <1>2, <2>2, <2>3
    <2>6. /\ feed.calls[v].trip = t /\ b.calls[u].trip = t
      BY <2>2, <2>4
    <2> HIDE DEF u, v
    <2>7. /\ feed.calls[x].seq <= feed.calls[v].seq
          /\ b.calls[y].seq <= b.calls[u].seq
      <3>1. /\ feed.calls[x].seq < feed.calls[v].seq \/ feed.calls[x].seq = feed.calls[v].seq
            /\ b.calls[y].seq < b.calls[u].seq \/ b.calls[y].seq = b.calls[u].seq
        BY <2>1, <2>5, <2>6, Zenon DEF LeastCall
      <3>2. /\ feed.calls[x].seq \in Nat /\ feed.calls[v].seq \in Nat
            /\ b.calls[y].seq \in Nat /\ b.calls[u].seq \in Nat
        BY <1>4, <2>2, <2>3
      <3> QED BY <3>1, <3>2
    <2>8. feed.calls[x].seq = feed.calls[v].seq
      <3>1. feed.calls[x].seq \in Nat /\ feed.calls[v].seq \in Nat
        BY <1>4, <2>2, <2>3
      <3>2. feed.calls[v].seq <= feed.calls[x].seq
        BY <2>4, <2>7
      <3> QED BY <2>7, <3>1, <3>2
    <2>9. x = v
      BY <1>5, <2>2, <2>3, <2>6, <2>8, Zenon
    <2>10. b.calls[y].stop = feed.calls[x].stop
      BY <2>4, <2>9
    <2>11. /\ TripOrigin(b, t) = StopCountry(b)[b.calls[y].stop]
           /\ TripOrigin(feed, t) = StopCountry(feed)[feed.calls[x].stop]
      BY <1>7, <1>8, Zenon DEF TripOrigin, x, y
    <2>12. TripOrigin(b, t) = TripOrigin(feed, t)
      BY <1>2, <2>10, <2>11
    <2> QED BY <2>12, Zenon DEF b
  <1>9. CASE ~\E i \in RailCalls(feed) : feed.calls[i].trip = t
    <2>1. TripOrigin(b, t) = Nil /\ TripOrigin(feed, t) = Nil
      BY <1>7, <1>9, Zenon DEF TripOrigin
    <2> QED BY <2>1, Zenon DEF b
  <1> QED BY <1>8, <1>9

LEMMA OrderIsOpen == FilterInv => RowsInAnyOrder
  <1> SUFFICES ASSUME FilterInv, NEW h \in Written,
                      \A i, j \in 1..Len(national.calls) :
                         national.calls[i].trip = national.calls[j].trip =>
                            (national.calls[i].seq = national.calls[j].seq => i = j)
               PROVE  DOMAIN Filtered(Backwards(national), h).trips = DOMAIN corridor[h].trips
    BY Zenon DEF RowsInAnyOrder, Backwards
  <1>1. IsFeed(national) /\ corridor[h] = Filtered(national, h)
    BY FilterAssumption DEF FilterInv
  <1> DEFINE b == Backwards(national)
  <1>2. CrossBorderRoutes(b) = CrossBorderRoutes(national) /\ b.trips = national.trips
    <2>1. Mirrored(national, b, Len(national.calls))
      BY <1>1, BackwardsIs, Zenon
    <2> HIDE DEF b
    <2> QED BY <2>1, BackwardsKeeps DEF Mirrored
  <1>3. \A t : TripOrigin(b, t) = TripOrigin(national, t)
    BY <1>1, SameOrigin, Zenon
  <1>4. KeptTrips(b, h) = KeptTrips(national, h)
    BY <1>2, <1>3, Zenon DEF KeptTrips
  <1> QED BY <1>1, <1>4, FilteredTrips

LEMMA FilterShows ==
    FilterInv => FilteredIsClosed /\ OwnedOnce /\ NoFalseCrossing /\ RowsInAnyOrder
  <1> SUFFICES ASSUME FilterInv PROVE FilteredIsClosed
    BY OwnedOnceHolds, NoneCrossesFalsely, OrderIsOpen
  <1>1. IsFeed(national) /\ \A h \in Written : corridor[h] = Filtered(national, h)
    BY FilterAssumption DEF FilterInv
  <1>2. \A h \in Written : Closed(corridor[h])
    BY <1>1, FilteredCloses
  <1> QED BY <1>2, Zenon DEF FilteredIsClosed, Closed

-----------------------------------------------------------------------------
(* The members of a zip *)

RepairShape ==
    /\ Len(zip) \in Nat /\ seen \in 0..Len(zip)
    /\ later \in Seq(1..seen)
    /\ \E A : copied \in Seq(A)

\* A member seen was written or waits: the places are apart, and they are those seen so far.
PlacedOnce ==
    /\ \A k \in DOMAIN copied : copied[k].place \in 1..seen
    /\ \A k, l \in DOMAIN copied : copied[k].place = copied[l].place => k = l
    /\ \A k, l \in DOMAIN later : later[k] = later[l] => k = l
    /\ \A k \in DOMAIN copied : \A l \in DOMAIN later : copied[k].place # later[l]
    /\ \A i \in 1..seen : (\E k \in DOMAIN copied : copied[k].place = i)
                          \/ \E l \in DOMAIN later : later[l] = i

RepairInv == RepairShape /\ PlacedOnce

LEMMA RepairStarts == RepairInit \/ RepairAtRest => RepairInv
  <1> SUFFICES ASSUME RepairInit \/ RepairAtRest PROVE RepairInv
    OBVIOUS
  <1>1. seen = 0 /\ later = <<>> /\ copied = <<>> /\ Len(zip) \in Nat
    BY ZipAssumption DEF RepairInit, RepairAtRest
  <1>2. <<>> \in Seq(1..0) /\ <<>> \in Seq({}) /\ DOMAIN <<>> = {}
    OBVIOUS
  <1>3. \E A : copied \in Seq(A)
    BY <1>1, <1>2
  <1> QED BY <1>1, <1>2, <1>3 DEF RepairInv, RepairShape, PlacedOnce

LEMMA Longer ==
    ASSUME NEW A, NEW s \in Seq(A), NEW x
    PROVE  /\ Append(s, x) \in Seq(A \cup {x})
           /\ DOMAIN Append(s, x) = DOMAIN s \cup {Len(s) + 1} /\ Len(s) + 1 \notin DOMAIN s
           /\ \A k \in DOMAIN s : Append(s, x)[k] = s[k]
           /\ Append(s, x)[Len(s) + 1] = x
  <1>1. s \in Seq(A \cup {x})
    OBVIOUS
  <1> QED BY <1>1

LEMMA RepairStays == RepairInv /\ UNCHANGED repairVars => RepairInv'
  BY DEF RepairInv, RepairShape, PlacedOnce, repairVars

\* A place is written that was not.
PlaceWritten(p) ==
    /\ (\E A : copied \in Seq(A))'
    /\ \E n : /\ DOMAIN copied' = DOMAIN copied \cup {n} /\ n \notin DOMAIN copied
              /\ copied'[n].place = p /\ \A k \in DOMAIN copied : copied'[k] = copied[k]

LEMMA WriteAdds ==
    ASSUME RepairShape, NEW p, NEW base, NEW m, copied' = Write(p, base, m)
    PROVE  PlaceWritten(p)
  <1>1. PICK A : copied \in Seq(A)
    BY DEF RepairShape
  <1> DEFINE x == [place |-> p, base |-> base, member |-> m]
  <1>2. copied' = Append(copied, x) /\ x.place = p
    BY DEF Write
  <1> HIDE DEF x
  <1>3. /\ copied' \in Seq(A \cup {x})
        /\ DOMAIN copied' = DOMAIN copied \cup {Len(copied) + 1} /\ Len(copied) + 1 \notin DOMAIN copied
        /\ \A k \in DOMAIN copied : copied'[k] = copied[k]
        /\ copied'[Len(copied) + 1] = x
    BY <1>1, <1>2, Longer
  <1> QED BY <1>2, <1>3, Zenon DEF PlaceWritten

LEMMA RepairKept == RepairInv /\ [RepairNext]_repairVars => RepairInv'
  <1> SUFFICES ASSUME RepairInv, RepairNext PROVE RepairInv'
    BY RepairStays
  <1>1. seen \in 0..Len(zip) /\ Len(zip) \in Nat /\ later \in Seq(1..seen)
    BY DEF RepairInv, RepairShape
  <1>0. RepairShape /\ PlacedOnce
    BY DEF RepairInv
  <1>2. ASSUME seen < Len(zip), seen' = seen + 1, zip' = zip,
               later' = Append(later, seen + 1), copied' = copied
        PROVE  RepairInv'
    <2>1. later' \in Seq(1..seen') /\ seen' \in 0..Len(zip')
      BY <1>1, <1>2
    <2>2. /\ DOMAIN later' = DOMAIN later \cup {Len(later) + 1} /\ Len(later) + 1 \notin DOMAIN later
          /\ \A k \in DOMAIN later : later'[k] = later[k] /\ later[k] \in 1..seen
          /\ later'[Len(later) + 1] = seen + 1
      BY <1>1, <1>2
    <2>3. seen + 1 \notin 1..seen /\ 1..seen' = 1..seen \cup {seen + 1}
      BY <1>1, <1>2
    <2> DEFINE n == Len(later) + 1
    <2>4. PlacedOnce'
      <3> HIDE DEF n
      <3>1. /\ DOMAIN later' = DOMAIN later \cup {n} /\ n \notin DOMAIN later
            /\ later'[n] = seen + 1
        BY <2>2 DEF n
      <3> DEFINE past == 1..seen
                 new == 1..seen'
                 x == seen + 1
      <3>2. x \notin past /\ new = past \cup {x} /\ later'[n] = x
        BY <2>3, <3>1
      <3>3. /\ \A k \in DOMAIN later : later'[k] = later[k] /\ later[k] \in past
            /\ copied' = copied
        BY <1>2, <2>2
      <3>4. /\ \A k \in DOMAIN copied : copied[k].place \in past
            /\ \A k, l \in DOMAIN copied : copied[k].place = copied[l].place => k = l
            /\ \A k, l \in DOMAIN later : later[k] = later[l] => k = l
            /\ \A k \in DOMAIN copied : \A l \in DOMAIN later : copied[k].place # later[l]
            /\ \A i \in past : (\E k \in DOMAIN copied : copied[k].place = i)
                               \/ \E l \in DOMAIN later : later[l] = i
        BY <1>0, Zenon DEF PlacedOnce
      <3> HIDE DEF past, new, x
      <3>5. /\ \A k \in DOMAIN copied' : copied'[k].place \in new
            /\ \A k, l \in DOMAIN copied' : copied'[k].place = copied'[l].place => k = l
        BY <3>2, <3>3, <3>4
      <3>6. \A k, l \in DOMAIN later' : later'[k] = later'[l] => k = l
        BY <3>1, <3>2, <3>3, <3>4
      <3>7. \A k \in DOMAIN copied' : \A l \in DOMAIN later' : copied'[k].place # later'[l]
        BY <3>1, <3>2, <3>3, <3>4
      <3>8. \A i \in new : (\E k \in DOMAIN copied' : copied'[k].place = i)
                           \/ \E l \in DOMAIN later' : later'[l] = i
        BY <3>1, <3>2, <3>3, <3>4
      <3> QED BY <3>5, <3>6, <3>7, <3>8, Zenon DEF PlacedOnce, new
    <2>5. RepairShape'
      BY <1>0, <1>1, <1>2, <2>1, Zenon DEF RepairShape
    <2> QED BY <2>4, <2>5 DEF RepairInv
  <1>3. ASSUME seen < Len(zip), seen' = seen + 1, zip' = zip,
               later' = later, PlaceWritten(seen + 1)
        PROVE  RepairInv'
    <2>1. /\ later' \in Seq(1..seen') /\ seen' \in 0..Len(zip')
          /\ \A k \in DOMAIN later : later[k] \in 1..seen
      BY <1>1, <1>3
    <2>2. seen + 1 \notin 1..seen /\ 1..seen' = 1..seen \cup {seen + 1}
      BY <1>1, <1>3
    <2>3. PICK n : /\ DOMAIN copied' = DOMAIN copied \cup {n} /\ n \notin DOMAIN copied
                   /\ copied'[n].place = seen + 1 /\ \A k \in DOMAIN copied : copied'[k] = copied[k]
      BY <1>3, Zenon DEF PlaceWritten
    <2>4. PlacedOnce'
      <3> DEFINE past == 1..seen
                 new == 1..seen'
                 x == seen + 1
      <3>2. x \notin past /\ new = past \cup {x} /\ copied'[n].place = x
        BY <2>2, <2>3
      <3>3. (\A k \in DOMAIN later : later[k] \in past) /\ later' = later
        BY <1>3, <2>1
      <3>4. /\ \A k \in DOMAIN copied : copied[k].place \in past
            /\ \A k, l \in DOMAIN copied : copied[k].place = copied[l].place => k = l
            /\ \A k, l \in DOMAIN later : later[k] = later[l] => k = l
            /\ \A k \in DOMAIN copied : \A l \in DOMAIN later : copied[k].place # later[l]
            /\ \A i \in past : (\E k \in DOMAIN copied : copied[k].place = i)
                               \/ \E l \in DOMAIN later : later[l] = i
        BY <1>0, Zenon DEF PlacedOnce
      <3> HIDE DEF past, new, x
      <3>5. \A k \in DOMAIN copied' : copied'[k].place \in new
        BY <2>3, <3>2, <3>4
      <3>6. \A k, l \in DOMAIN copied' : copied'[k].place = copied'[l].place => k = l
        BY <2>3, <3>2, <3>4
      <3>7. \A k \in DOMAIN copied' : \A l \in DOMAIN later' : copied'[k].place # later'[l]
        BY <2>3, <3>2, <3>3, <3>4
      <3>8. \A i \in new : (\E k \in DOMAIN copied' : copied'[k].place = i)
                           \/ \E l \in DOMAIN later' : later'[l] = i
        BY <2>3, <3>2, <3>3, <3>4
      <3>9. \A k, l \in DOMAIN later' : later'[k] = later'[l] => k = l
        BY <3>3, <3>4
      <3> QED BY <3>5, <3>6, <3>7, <3>8, <3>9, Zenon DEF PlacedOnce, new
    <2>5. RepairShape'
      BY <1>0, <1>1, <1>3, <2>1, Zenon DEF RepairShape, PlaceWritten
    <2> QED BY <2>4, <2>5 DEF RepairInv
  <1>4. ASSUME later # <<>>, seen' = seen, zip' = zip,
               later' = Tail(later), PlaceWritten(Head(later))
        PROVE  RepairInv'
    <2>0. /\ later' \in Seq(1..seen) /\ Len(later') = Len(later) - 1 /\ Len(later) \in Nat \ {0}
          /\ DOMAIN later = 1..Len(later) /\ DOMAIN later' = 1..(Len(later) - 1)
          /\ Head(later) = later[1] /\ \A k \in 1..(Len(later) - 1) : later'[k] = later[k + 1]
      BY <1>1, <1>4
    <2> DEFINE top == Len(later)
               next(k) == k + 1
    <2>1. /\ \A k \in DOMAIN later' : later'[k] = later[next(k)] /\ next(k) \in DOMAIN later
                                      /\ next(k) # 1
          /\ \A k, l \in DOMAIN later' : next(k) = next(l) => k = l
      BY <2>0
    <2>2. \A k \in DOMAIN later : k # 1 => \E l \in DOMAIN later' : k = next(l)
      <3>1. ASSUME NEW k \in 1..top, k # 1 PROVE k - 1 \in 1..(top - 1) /\ k = next(k - 1)
        BY <2>0, <3>1
      <3> HIDE DEF next
      <3> QED BY <2>0, <3>1
    <2>3. later[1] \in 1..seen /\ 1 \in DOMAIN later
      BY <1>1, <2>0
    <2>4. PICK n : /\ DOMAIN copied' = DOMAIN copied \cup {n} /\ n \notin DOMAIN copied
                   /\ copied'[n].place = later[1] /\ \A k \in DOMAIN copied : copied'[k] = copied[k]
      BY <1>4, <2>0, Zenon DEF PlaceWritten
    <2> HIDE DEF top, next
    <2>5. \A k, l \in DOMAIN later' : later'[k] = later'[l] => k = l
      BY <1>0, <2>1 DEF PlacedOnce
    <2>6. \A k, l \in DOMAIN copied' : copied'[k].place = copied'[l].place => k = l
      BY <1>0, <2>3, <2>4 DEF PlacedOnce
    <2>7. \A k \in DOMAIN copied' : \A l \in DOMAIN later' : copied'[k].place # later'[l]
      BY <1>0, <2>1, <2>3, <2>4 DEF PlacedOnce
    <2>8. \A i \in 1..seen : (\E k \in DOMAIN copied' : copied'[k].place = i)
                             \/ \E l \in DOMAIN later' : later'[l] = i
      <3> SUFFICES ASSUME NEW i \in 1..seen
                   PROVE  (\E k \in DOMAIN copied' : copied'[k].place = i)
                          \/ \E l \in DOMAIN later' : later'[l] = i
        OBVIOUS
      <3>1. CASE \E k \in DOMAIN copied : copied[k].place = i
        BY <2>4, <3>1, Zenon
      <3>2. CASE \E l \in DOMAIN later : later[l] = i
        <4>1. PICK l \in DOMAIN later : later[l] = i
          BY <3>2
        <4>2. CASE l = 1
          BY <2>4, <4>1, <4>2, Zenon
        <4>3. CASE l # 1
          BY <2>1, <2>2, <4>1, <4>3, Zenon
        <4> QED BY <4>2, <4>3
      <3> QED BY <1>0, <3>1, <3>2 DEF PlacedOnce
    <2>9. \A k \in DOMAIN copied' : copied'[k].place \in 1..seen'
      BY <1>0, <1>4, <2>3, <2>4 DEF PlacedOnce
    <2>10. PlacedOnce'
      BY <1>4, <2>5, <2>6, <2>7, <2>8, <2>9 DEF PlacedOnce
    <2>11. RepairShape'
      BY <1>0, <1>1, <1>4, <2>0, Zenon DEF RepairShape, PlaceWritten
    <2> QED BY <2>10, <2>11 DEF RepairInv
  <1>10. ASSUME NEW p, NEW base, NEW m, copied' = Write(p, base, m) PROVE PlaceWritten(p)
    BY <1>0, <1>10, WriteAdds
  <1>11. \A p, base, m : copied' = Write(p, base, m) => PlaceWritten(p)
    BY <1>10, Zenon
  <1>5. CASE SeeLarge
    <2>1. CASE Shared(zip[seen + 1])
      BY <1>2, <1>5, <2>1 DEF SeeLarge
    <2>2. CASE ~Shared(zip[seen + 1])
      <3>1. /\ copied' = Write(seen + 1, FALSE, zip[seen + 1])
            /\ later' = later /\ seen < Len(zip) /\ seen' = seen + 1 /\ zip' = zip
        BY <1>5, <2>2, Zenon DEF SeeLarge
      <3>2. PlaceWritten(seen + 1)
        BY <3>1, <1>11, Zenon DEF PlaceWritten
      <3> QED BY <1>3, <3>1, <3>2, Zenon
    <2> QED BY <2>1, <2>2
  <1>6. CASE SeeWhole
    <2>1. CASE Waits(zip[seen + 1])
      BY <1>2, <1>6, <2>1 DEF SeeWhole
    <2>2. CASE ~Waits(zip[seen + 1])
      <3>1. copied' = Write(seen + 1, FALSE,
                            Repaired(zip[seen + 1], NoContext.homes, {}, FALSE, Absent))
            /\ later' = later /\ seen < Len(zip) /\ seen' = seen + 1 /\ zip' = zip
        BY <1>6, <2>2, Zenon DEF SeeWhole
      <3>2. PlaceWritten(seen + 1)
        BY <3>1, <1>11, Zenon DEF PlaceWritten
      <3> QED BY <1>3, <3>1, <3>2, Zenon
    <2> QED BY <2>1, <2>2
  <1>7. CASE FinishHeld
    <2>1. /\ later # <<>> /\ later' = Tail(later) /\ seen' = seen /\ zip' = zip
          /\ \E base, m : copied' = Write(Head(later), base, m)
      BY <1>7, Zenon DEF FinishHeld
    <2>2. PlaceWritten(Head(later))
      BY <2>1, <1>11, Zenon DEF PlaceWritten
    <2> QED BY <1>4, <2>1, <2>2
  <1> QED BY <1>5, <1>6, <1>7 DEF RepairNext

LEMMA RepairShows == RepairInv => MembersOnce
  <1> SUFFICES ASSUME RepairInv, NEW i \in 1..Len(zip)
               PROVE  Cardinality({k \in DOMAIN copied : copied[k].place = i})
                        + Cardinality({k \in DOMAIN later : later[k] = i})
                        = (IF i <= seen THEN 1 ELSE 0)
    BY Zenon DEF MembersOnce
  <1> DEFINE C == {k \in DOMAIN copied : copied[k].place = i}
             L == {k \in DOMAIN later : later[k] = i}
  <1>0. PlacedOnce
    BY DEF RepairInv
  <1>1. /\ i <= seen <=> i \in 1..seen
        /\ \A k \in DOMAIN later : later[k] \in 1..seen
    BY DEF RepairInv, RepairShape
  <1>2. Cardinality({}) = 0
    BY FS_EmptySet
  <1>3. \A x : Cardinality({x}) = 1
    BY FS_Singleton
  <1>4. CASE i \in 1..seen
    <2>1. CASE \E k \in DOMAIN copied : copied[k].place = i
      <3>1. L = {}
        BY <1>0, <2>1 DEF PlacedOnce
      <3>2. PICK k \in DOMAIN copied : copied[k].place = i
        BY <2>1
      <3>3. C = {k}
        BY <1>0, <3>2 DEF PlacedOnce
      <3> HIDE DEF C, L
      <3>4. Cardinality(C) = 1 /\ Cardinality(L) = 0
        BY <1>2, <1>3, <3>1, <3>3
      <3>5. Cardinality(C) + Cardinality(L) = 1
        BY <3>4
      <3> QED BY <1>1, <1>4, <3>5, Zenon DEF C, L
    <2>2. CASE ~\E k \in DOMAIN copied : copied[k].place = i
      <3>1. C = {}
        BY <2>2, Zenon
      <3>2. PICK l \in DOMAIN later : later[l] = i
        BY <1>0, <1>4, <2>2 DEF PlacedOnce
      <3>3. L = {l}
        BY <1>0, <3>2 DEF PlacedOnce
      <3> HIDE DEF C, L
      <3>4. Cardinality(L) = 1 /\ Cardinality(C) = 0
        BY <1>2, <1>3, <3>1, <3>3
      <3>5. Cardinality(C) + Cardinality(L) = 1
        BY <3>4
      <3> QED BY <1>1, <1>4, <3>5, Zenon DEF C, L
    <2> QED BY <2>1, <2>2
  <1>5. CASE i \notin 1..seen
    <2>1. C = {} /\ L = {}
      BY <1>0, <1>1, <1>5 DEF PlacedOnce
    <2> HIDE DEF C, L
    <2>2. Cardinality(C) = 0 /\ Cardinality(L) = 0
      BY <1>2, <2>1
    <2>3. Cardinality(C) + Cardinality(L) = 0
      BY <2>2
    <2> QED BY <1>1, <1>5, <2>3, Zenon DEF C, L
  <1> QED BY <1>4, <1>5

-----------------------------------------------------------------------------
(* Ordered sets *)

\* A strict total order of a set.
Orders(lower, S) ==
    /\ \A x \in S : <<x, x>> \notin lower
    /\ \A x, y \in S : x # y => <<x, y>> \in lower \/ <<y, x>> \in lower
    /\ \A x, y, z \in S : <<x, y>> \in lower /\ <<y, z>> \in lower => <<x, z>> \in lower

UpTo(S, lower, x) == {y \in S : y = x \/ <<y, x>> \in lower}

LEMMA RanksOf ==
    ASSUME NEW S, IsFiniteSet(S), NEW lower, Orders(lower, S),
           NEW rank, rank = [x \in S |-> Cardinality(UpTo(S, lower, x))]
    PROVE  /\ Cardinality(S) \in Nat
           /\ \A x \in S : rank[x] \in 1..Cardinality(S)
           /\ \A x, y \in S : <<x, y>> \in lower => rank[x] < rank[y]
           /\ \A n \in 1..Cardinality(S) : \E x \in S : rank[x] = n
  <1> DEFINE c == Cardinality(S)
             up(x) == UpTo(S, lower, x)
  <1>1. c \in Nat
    BY FS_CardinalityType
  <1>2. \A x \in S : up(x) \in SUBSET S /\ IsFiniteSet(up(x)) /\ Cardinality(up(x)) <= c
                     /\ Cardinality(up(x)) \in Nat
    <2> TAKE x \in S
    <2>1. up(x) \in SUBSET S
      BY DEF UpTo
    <2> HIDE DEF up
    <2> QED BY <2>1, FS_Subset, FS_CardinalityType
  <1>3. \A x \in S : rank[x] = Cardinality(up(x))
    OBVIOUS
  <1>4. \A x \in S : rank[x] \in 1..c
    <2> TAKE x \in S
    <2>1. up(x) # {}
      BY DEF UpTo
    <2>2. Cardinality(up(x)) # 0
      BY <1>2, <2>1, FS_EmptySet
    <2> HIDE DEF up, c
    <2> QED BY <1>1, <1>2, <1>3, <2>2
  <1>5. \A x, y \in S : <<x, y>> \in lower => rank[x] < rank[y]
    <2> SUFFICES ASSUME NEW x \in S, NEW y \in S, <<x, y>> \in lower PROVE rank[x] < rank[y]
      OBVIOUS
    <2>1. <<y, x>> \notin lower /\ x # y
      BY DEF Orders
    <2>2. up(x) \in SUBSET up(y)
      BY DEF Orders, UpTo
    <2>3. y \in up(y) /\ y \notin up(x)
      BY <2>1 DEF UpTo
    <2>4. up(x) # up(y)
      BY <2>3
    <2>5. Cardinality(up(x)) <= Cardinality(up(y)) /\ Cardinality(up(x)) # Cardinality(up(y))
      <3> HIDE DEF up
      <3> QED BY <1>2, <2>2, <2>4, FS_Subset
    <2> HIDE DEF up
    <2> QED BY <1>2, <1>3, <2>5
  <1>6. rank \in [S -> 1..c]
    BY <1>4
  <1>7. rank \in Injection(S, 1..c)
    <2>1. \A x, y \in S : rank[x] = rank[y] => x = y
      <3> SUFFICES ASSUME NEW x \in S, NEW y \in S, x # y PROVE rank[x] # rank[y]
        OBVIOUS
      <3>1. rank[x] \in Nat /\ rank[y] \in Nat
        BY <1>1, <1>4
      <3>2. <<x, y>> \in lower \/ <<y, x>> \in lower
        BY DEF Orders
      <3> QED BY <1>5, <3>1, <3>2
    <2> QED BY <1>6, <2>1 DEF Injection, IsInjective
  <1>8. IsFiniteSet(1..c) /\ Cardinality(1..c) = c
    BY <1>1, FS_Interval
  <1>9. rank \in Surjection(S, 1..c)
    BY <1>7, <1>8, FS_Injection
  <1>10. \A n \in 1..c : \E x \in S : rank[x] = n
    BY <1>9 DEF Surjection
  <1> QED BY <1>1, <1>4, <1>5, <1>10 DEF c

\* What Ordered lists: every element at one place, the lesser before the greater.
Lists(o, S, lower) ==
    /\ Cardinality(S) \in Nat
    /\ DOMAIN o = 1..Cardinality(S)
    /\ \A n \in 1..Cardinality(S) : o[n] \in S
    /\ \A x \in S : \E n \in 1..Cardinality(S) : o[n] = x
    /\ \A m, n \in 1..Cardinality(S) : m < n => <<o[m], o[n]>> \in lower

LEMMA OrderedLists ==
    ASSUME NEW S, IsFiniteSet(S), NEW lower, Orders(lower, S)
    PROVE  Lists(Ordered(S, lower), S, lower)
  <1> DEFINE c == Cardinality(S)
             rank == [x \in S |-> Cardinality(UpTo(S, lower, x))]
             at(n) == CHOOSE x \in S : rank[x] = n
             o == Ordered(S, lower)
  <1>1. /\ c \in Nat /\ \A x \in S : rank[x] \in 1..c
        /\ \A x, y \in S : <<x, y>> \in lower => rank[x] < rank[y]
        /\ \A n \in 1..c : \E x \in S : rank[x] = n
    <2> HIDE DEF rank
    <2>1. rank = [x \in S |-> Cardinality(UpTo(S, lower, x))]
      BY Zenon DEF rank
    <2> QED BY <2>1, RanksOf
  <1>2. DOMAIN o = 1..c /\ \A n \in 1..c : o[n] = at(n)
    <2>1. \A n : at(n) = CHOOSE x \in S : Cardinality({y \in S : y = x \/ <<y, x>> \in lower}) = n
      BY DEF UpTo
    <2> HIDE DEF at
    <2>2. o = [n \in 1..c |-> CHOOSE x \in S :
                  Cardinality({y \in S : y = x \/ <<y, x>> \in lower}) = n]
      BY Zenon DEF Ordered
    <2>3. DOMAIN o = 1..c
      BY <2>2
    <2>4. \A n \in 1..c : o[n] = CHOOSE x \in S :
                  Cardinality({y \in S : y = x \/ <<y, x>> \in lower}) = n
      BY <2>2, Zenon
    <2> QED BY <2>1, <2>3, <2>4, Zenon
  <1> HIDE DEF c, rank, o
  <1>3. \A n \in 1..c : at(n) \in S /\ rank[at(n)] = n
    BY <1>1
  <1>4. \A n \in 1..c : o[n] \in S /\ rank[o[n]] = n
    BY <1>2, <1>3
  <1>5. ASSUME NEW x \in S, NEW y \in S, rank[x] <= rank[y], x # y PROVE <<x, y>> \in lower
    <2>1. rank[x] \in Nat /\ rank[y] \in Nat
      BY <1>1
    <2>2. ~(rank[y] < rank[x])
      BY <1>5, <2>1
    <2> QED BY <1>1, <1>5, <2>2 DEF Orders
  <1>6. \A x \in S : \E n \in 1..c : o[n] = x
    <2> TAKE x \in S
    <2>1. rank[x] \in 1..c
      BY <1>1
    <2> DEFINE z == o[rank[x]]
    <2>2. z \in S /\ rank[z] = rank[x] /\ rank[x] \in Nat
      BY <1>1, <1>4, <2>1
    <2> HIDE DEF z
    <2>3. z = x
      <3> SUFFICES ASSUME z # x PROVE FALSE
        OBVIOUS
      <3>1. rank[z] <= rank[x] /\ rank[x] <= rank[z]
        BY <2>2
      <3>2. <<z, x>> \in lower
        BY <1>5, <2>2, <3>1
      <3>3. rank[z] < rank[x]
        BY <1>1, <2>2, <3>2
      <3> QED BY <2>2, <3>3
    <2> QED BY <2>1, <2>3 DEF z
  <1>7. ASSUME NEW m \in 1..c, NEW n \in 1..c, m < n PROVE <<o[m], o[n]>> \in lower
    <2>1. o[m] \in S /\ o[n] \in S /\ rank[o[m]] = m /\ rank[o[n]] = n
      BY <1>4
    <2>2. rank[o[m]] <= rank[o[n]] /\ o[m] # o[n]
      BY <1>1, <1>7, <2>1
    <2> QED BY <1>5, <2>1, <2>2
  <1> QED BY <1>1, <1>2, <1>4, <1>6, <1>7, Zenon DEF Lists, c, o

-----------------------------------------------------------------------------
(* The array of a day type *)

Bits == [base : Nat, days : Seq({0, 1})]

\* A day runs when its byte is set.
Runs(b, d) == d - b.base + 1 \in DOMAIN b.days /\ b.days[d - b.base + 1] = 1

LEMMA DaysAre ==
    ASSUME NEW b \in Bits
    PROVE  DaysIn(b) \in SUBSET Nat /\ \A d \in Int : d \in DaysIn(b) <=> Runs(b, d)
  <1> DEFINE at == {i \in DOMAIN b.days : b.days[i] = 1}
  <1>1. b.base \in Nat /\ b.days \in Seq({0, 1}) /\ DOMAIN b.days = 1..Len(b.days) /\ Len(b.days) \in Nat
    BY DEF Bits
  <1>2. DaysIn(b) = {b.base + i - 1 : i \in at}
    BY DEF DaysIn
  <1>3. at \subseteq 1..Len(b.days)
    BY <1>1
  <1>4. \A d : d \in DaysIn(b) <=> \E i \in at : d = b.base + i - 1
    <2> HIDE DEF at
    <2> QED BY <1>2
  <1>5. DaysIn(b) \in SUBSET Nat
    <2> HIDE DEF at
    <2> QED BY <1>1, <1>3, <1>4
  <1>6. ASSUME NEW d \in Int PROVE d \in DaysIn(b) <=> Runs(b, d)
    <2>1. ASSUME NEW i \in at, d = b.base + i - 1 PROVE Runs(b, d)
      <3>1. i = d - b.base + 1
        BY <1>1, <1>3, <2>1
      <3> QED BY <3>1 DEF Runs
    <2>2. ASSUME Runs(b, d) PROVE \E i \in at : d = b.base + i - 1
      <3>1. d - b.base + 1 \in at /\ d = b.base + (d - b.base + 1) - 1
        BY <1>1, <2>2 DEF Runs
      <3> QED BY <3>1
    <2> QED BY <1>4, <2>1, <2>2
  <1> QED BY <1>5, <1>6

\* Two arrays joined.
LEMMA Joined ==
    ASSUME NEW S, NEW s \in Seq(S), NEW t \in Seq(S)
    PROVE  /\ s \o t \in Seq(S) /\ Len(s \o t) = Len(s) + Len(t)
           /\ \A i \in 1..Len(s) : (s \o t)[i] = s[i]
           /\ \A i \in 1..Len(t) : (s \o t)[Len(s) + i] = t[i]
  BY ConcatProperties

Joins(S, s, t, r) ==
    /\ r \in Seq(S) /\ Len(r) = Len(s) + Len(t)
    /\ \A i \in 1..Len(s) : r[i] = s[i]
    /\ \A i \in 1..Len(t) : r[Len(s) + i] = t[i]

LEMMA JoinedIs ==
    ASSUME NEW S, NEW s \in Seq(S), NEW t \in Seq(S)
    PROVE  Joins(S, s, t, s \o t)
  BY Joined DEF Joins

LEMMA SetDayIs ==
    ASSUME NEW b \in Bits, NEW day \in Nat, NEW on
    PROVE  /\ SetDay(b, day, on) \in Bits
           /\ \A d \in Int : Runs(SetDay(b, day, on), d)
                               <=> (d = day /\ on) \/ (d # day /\ Runs(b, d))
  <1> DEFINE i == day - b.base
             n == Len(b.days)
             r == SetDay(b, day, on)
  <1>1. /\ b.base \in Nat /\ b.days \in Seq({0, 1}) /\ DOMAIN b.days = 1..n /\ n \in Nat /\ i \in Int
        /\ b = [base |-> b.base, days |-> b.days] /\ day = b.base + i
    BY DEF Bits
  <1>2. r = IF b.days = <<>> THEN IF on THEN [base |-> day, days |-> <<1>>] ELSE b
            ELSE IF i \in 0..(n - 1) THEN [b EXCEPT !.days[i + 1] = IF on THEN 1 ELSE 0]
            ELSE IF ~on THEN b
            ELSE IF i < 0 THEN [base |-> day, days |-> <<1>> \o Zeros(-i - 1) \o b.days]
            ELSE [b EXCEPT !.days = @ \o Zeros(i - Len(@)) \o <<1>>]
    BY Zenon DEF SetDay
  <1> DEFINE Good(x) == /\ x \in Bits
                        /\ \A d \in Int : Runs(x, d) <=> (d = day /\ on) \/ (d # day /\ Runs(b, d))
  <1> SUFFICES Good(r)
    OBVIOUS
  <1>3. CASE b.days = <<>> /\ on
    <2>1. r = [base |-> day, days |-> <<1>>]
      BY <1>2, <1>3, Zenon
    <2>2. \A d \in Int : ~Runs(b, d)
      <3>1. DOMAIN b.days = {}
        BY <1>3
      <3> QED BY <3>1 DEF Runs
    <2>3. r \in Bits /\ r.base = day /\ DOMAIN r.days = {1} /\ r.days[1] = 1
      <3> HIDE DEF r
      <3>1. <<1>> \in Seq({0, 1}) /\ DOMAIN <<1>> = {1} /\ <<1>>[1] = 1
        OBVIOUS
      <3> QED BY <2>1, <3>1 DEF Bits
    <2> HIDE DEF r
    <2>4. \A d \in Int : Runs(r, d) <=> d = day
      BY <2>3 DEF Runs
    <2> QED BY <1>3, <2>2, <2>3, <2>4
  <1>4. CASE b.days # <<>> /\ i \in 0..(n - 1)
    <2> DEFINE v == IF on THEN 1 ELSE 0
               e == [b.days EXCEPT ![i + 1] = v]
    <2>1. r = [b EXCEPT !.days[i + 1] = v]
      BY <1>2, <1>4, Zenon
    <2>2. v \in {0, 1} /\ (v = 1 <=> on)
      OBVIOUS
    <2> HIDE DEF v
    <2>3. e \in Seq({0, 1}) /\ DOMAIN e = 1..n /\ \A k \in 1..n : e[k] = IF k = i + 1 THEN v ELSE b.days[k]
      BY <1>1, <1>4, <2>2
    <2> HIDE DEF e, r
    <2>4. r = [base |-> b.base, days |-> e]
      BY <1>1, <2>1 DEF e
    <2>5. r \in Bits /\ r.base = b.base /\ r.days = e
      BY <1>1, <2>3, <2>4 DEF Bits
    <2>6. ASSUME NEW d \in Int PROVE Runs(r, d) <=> (d = day /\ on) \/ (d # day /\ Runs(b, d))
      <3> DEFINE k == d - b.base + 1
      <3>1. k \in Int /\ (d = day <=> k = i + 1) /\ i + 1 \in 1..n
        BY <1>1, <1>4
      <3>2. (Runs(r, d) <=> k \in 1..n /\ e[k] = 1) /\ (Runs(b, d) <=> k \in 1..n /\ b.days[k] = 1)
        BY <1>1, <2>3, <2>5 DEF Runs
      <3> HIDE DEF k, i, n
      <3> QED BY <2>2, <2>3, <3>1, <3>2
    <2> QED BY <2>5, <2>6
  <1>5. CASE ~on /\ (b.days = <<>> \/ i \notin 0..(n - 1))
    <2>1. r = b
      BY <1>2, <1>5, Zenon
    <2>2. ~Runs(b, day)
      BY <1>1, <1>5 DEF Runs
    <2> HIDE DEF r
    <2> QED BY <1>5, <2>1, <2>2
  <1>6. CASE on /\ b.days # <<>> /\ i < 0
    <2> DEFINE z == Zeros(-i - 1)
               s == <<1>> \o z
               e == s \o b.days
    <2>0. i \notin 0..(n - 1)
      BY <1>1, <1>6
    <2>1. r = [base |-> day, days |-> e]
      BY <1>2, <1>6, <2>0, Zenon
    <2>2. z \in Seq({0, 1}) /\ Len(z) = -i - 1 /\ \A k \in 1..(-i - 1) : z[k] = 0
      <3>1. -i - 1 \in Nat
        BY <1>1, <1>6
      <3> QED BY <3>1 DEF Zeros
    <2> HIDE DEF z
    <2>3. s \in Seq({0, 1}) /\ Len(s) = -i /\ s[1] = 1 /\ \A k \in 2..(-i) : s[k] = 0
      <3>1. <<1>> \in Seq({0, 1}) /\ Len(<<1>>) = 1 /\ <<1>>[1] = 1
        OBVIOUS
      <3>2. /\ s \in Seq({0, 1}) /\ Len(s) = 1 + Len(z) /\ s[1] = 1
            /\ \A k \in 1..Len(z) : s[1 + k] = z[k]
        BY <2>2, <3>1, Joined
      <3> HIDE DEF s
      <3>3. ASSUME NEW k \in 2..(-i) PROVE s[k] = 0
        <4>1. k - 1 \in 1..Len(z) /\ 1 + (k - 1) = k
          BY <1>1, <2>2
        <4> QED BY <2>2, <3>2, <4>1
      <3> QED BY <1>1, <2>2, <3>2, <3>3
    <2> HIDE DEF s
    <2>4. /\ e \in Seq({0, 1}) /\ Len(e) = n - i /\ e[1] = 1 /\ \A k \in 2..(-i) : e[k] = 0
          /\ \A k \in 1..n : e[k - i] = b.days[k]
      <3>1. /\ e \in Seq({0, 1}) /\ Len(e) = Len(s) + n
            /\ \A k \in 1..Len(s) : e[k] = s[k]
            /\ \A k \in 1..n : e[Len(s) + k] = b.days[k]
        <4>1. b.days \in Seq({0, 1}) /\ s \in Seq({0, 1})
          BY <1>1, <2>3
        <4> QED BY <4>1, Joined
      <3> HIDE DEF e
      <3>2. \A k \in 1..n : Len(s) + k = k - i
        BY <1>1, <2>3
      <3>3. Len(e) = n - i /\ 1 \in 1..Len(s) /\ \A k \in 2..(-i) : k \in 1..Len(s)
        BY <1>1, <1>6, <2>3, <3>1
      <3> QED BY <2>3, <3>1, <3>2, <3>3, SMTT(30)
    <2> HIDE DEF e, r
    <2>5. r \in Bits /\ r.base = day /\ r.days = e /\ DOMAIN e = 1..(n - i)
      BY <2>1, <2>4 DEF Bits
    <2>6. ASSUME NEW d \in Int PROVE Runs(r, d) <=> (d = day /\ on) \/ (d # day /\ Runs(b, d))
      <3> DEFINE k == d - b.base + 1
                 m == d - day + 1
      <3>1. k \in Int /\ m = k - i /\ m \in Int /\ (d = day <=> m = 1)
        <4>1. b.base \in Int /\ day \in Int
          BY <1>1
        <4>2. day = b.base + i /\ i \in Int
          BY <1>1
        <4> HIDE DEF i
        <4> QED BY <4>1, <4>2
      <3>2. (Runs(r, d) <=> m \in 1..(n - i) /\ e[m] = 1) /\ (Runs(b, d) <=> k \in 1..n /\ b.days[k] = 1)
        BY <1>1, <2>5 DEF Runs
      <3>0. n \in Nat /\ i \in Int /\ i < 0
        BY <1>1, <1>6
      <3> HIDE DEF k, m, n, i
      <3>3. CASE k \in 1..n
        <4>1. e[m] = b.days[k] /\ m \in 1..(n - i) /\ m # 1
          BY <3>0, <2>4, <3>1, <3>3
        <4> QED BY <3>1, <3>2, <3>3, <4>1
      <3>4. CASE k \notin 1..n
        <4>1. CASE m = 1
          <5>1. m \in 1..(n - i)
            BY <3>0, <4>1
          <5> QED BY <1>6, <2>4, <3>1, <3>2, <4>1, <5>1
        <4>2. CASE m # 1
          <5>1. m \in 1..(n - i) => m \in 2..(-i)
            BY <3>0, <3>1, <3>4, <4>2
          <5>2. m \in 1..(n - i) => e[m] = 0
            BY <2>4, <5>1
          <5> QED BY <3>1, <3>2, <3>4, <4>2, <5>2
        <4> QED BY <4>1, <4>2
      <3> QED BY <3>3, <3>4
    <2> QED BY <2>5, <2>6
  <1>7. CASE on /\ b.days # <<>> /\ i >= n
    <2> DEFINE z == Zeros(i - n)
               s == b.days \o z
               e == s \o <<1>>
    <2>0. i \notin 0..(n - 1) /\ ~(i < 0)
      BY <1>1, <1>7
    <2>1. r = [b EXCEPT !.days = e]
      BY <1>2, <1>7, <2>0, Zenon
    <2>2. z \in Seq({0, 1}) /\ Len(z) = i - n /\ \A k \in 1..(i - n) : z[k] = 0
      <3>1. i - n \in Nat
        BY <1>1, <1>7
      <3> QED BY <3>1 DEF Zeros
    <2> HIDE DEF z
    <2>3. /\ s \in Seq({0, 1}) /\ Len(s) = i /\ \A k \in 1..n : s[k] = b.days[k]
          /\ \A k \in (n + 1)..i : s[k] = 0
      <3>1. /\ s \in Seq({0, 1}) /\ Len(s) = n + Len(z)
            /\ \A k \in 1..n : s[k] = b.days[k]
            /\ \A k \in 1..Len(z) : s[n + k] = z[k]
        <4> DEFINE T == {0, 1}
                   u == b.days
        <4>0. u \in Seq(T) /\ z \in Seq(T)
          BY <1>1, <2>2
        <4>1. s = u \o z /\ n = Len(u)
          BY <1>1
        <4> HIDE DEF T, u, s, n, e
        <4>2. Joins(T, u, z, u \o z)
          BY <4>0, JoinedIs, Zenon
        <4>3. Joins(T, u, z, s)
          BY <4>1, <4>2, Zenon
        <4>4. /\ s \in Seq(T) /\ Len(s) = n + Len(z)
              /\ \A k \in 1..n : s[k] = u[k]
              /\ \A k \in 1..Len(z) : s[n + k] = z[k]
          <5> HIDE DEF T, u, s, n, z
          <5> QED BY <4>1, <4>3, Zenon DEF Joins
        <4> QED BY <4>4 DEF T, u
      <3> HIDE DEF s
      <3>3. ASSUME NEW k \in (n + 1)..i PROVE s[k] = 0
        <4>1. k - n \in 1..Len(z) /\ n + (k - n) = k
          BY <1>1, <2>2
        <4> QED BY <2>2, <3>1, <4>1
      <3> QED BY <1>1, <2>2, <3>1, <3>3
    <2> HIDE DEF s
    <2>4. /\ e \in Seq({0, 1}) /\ Len(e) = i + 1 /\ e[i + 1] = 1
          /\ \A k \in 1..n : e[k] = b.days[k]
          /\ \A k \in (n + 1)..i : e[k] = 0
      <3>1. <<1>> \in Seq({0, 1}) /\ Len(<<1>>) = 1 /\ <<1>>[1] = 1 /\ 1 \in 1..Len(<<1>>)
        OBVIOUS
      <3>2. /\ e \in Seq({0, 1}) /\ Len(e) = i + 1 /\ e[i + 1] = 1
            /\ \A k \in 1..i : e[k] = s[k]
        BY <2>3, <3>1, Joined, SMTT(30)
      <3> HIDE DEF e
      <3>3. \A k \in 1..n : k \in 1..i
        BY <1>1, <1>7
      <3>4. \A k \in (n + 1)..i : k \in 1..i
        BY <1>1, <1>7
      <3> QED BY <2>3, <3>2, <3>3, <3>4
    <2> HIDE DEF e, r
    <2>5. r \in Bits /\ r.base = b.base /\ r.days = e /\ DOMAIN e = 1..(i + 1)
      <3>1. r = [base |-> b.base, days |-> e]
        BY <1>1, <2>1
      <3> QED BY <1>1, <2>4, <3>1 DEF Bits
    <2>6. ASSUME NEW d \in Int PROVE Runs(r, d) <=> (d = day /\ on) \/ (d # day /\ Runs(b, d))
      <3> DEFINE k == d - b.base + 1
      <3>1. k \in Int /\ (d = day <=> k = i + 1) /\ 1..n \subseteq 1..i /\ i \in Nat
        BY <1>1, <1>7
      <3>2. (Runs(r, d) <=> k \in 1..(i + 1) /\ e[k] = 1) /\ (Runs(b, d) <=> k \in 1..n /\ b.days[k] = 1)
        BY <1>1, <2>5 DEF Runs
      <3>3. CASE k \in 1..n
        <4>1. e[k] = b.days[k] /\ k \in 1..(i + 1) /\ k # i + 1
          BY <1>1, <1>7, <2>4, <3>3
        <4> QED BY <3>1, <3>2, <3>3, <4>1
      <3>4. CASE k \notin 1..n
        <4>1. CASE k = i + 1
          <5>1. k \in 1..(i + 1)
            BY <3>1, <4>1
          <5> QED BY <1>7, <2>4, <3>1, <3>2, <4>1, <5>1
        <4>2. CASE k # i + 1
          <5>1. k \in 1..(i + 1) => k \in (n + 1)..i
            BY <1>1, <3>1, <3>4, <4>2
          <5>2. k \in 1..(i + 1) => e[k] = 0
            BY <2>4, <5>1
          <5> QED BY <3>1, <3>2, <3>4, <4>2, <5>2
        <4> QED BY <4>1, <4>2
      <3> QED BY <3>3, <3>4
    <2> QED BY <2>5, <2>6
  <1>8. i < 0 \/ i >= n \/ i \in 0..(n - 1)
    BY <1>1
  <1> QED BY <1>3, <1>4, <1>5, <1>6, <1>7, <1>8

\* What SetDays computes on the way: the array after the first n days.
Setting(f, top, b, listed, on) ==
    f = [n \in 0..top |-> IF n = 0 THEN b ELSE SetDay(f[n - 1], listed[n], on)]

LEMMA SettingIs ==
    ASSUME NEW b, NEW listed, NEW on, NEW N \in Nat
    PROVE  \E f : Setting(f, N, b, listed, on)
  <1> DEFINE S == {n \in Nat : ~\E f : Setting(f, n, b, listed, on)}
  <1> SUFFICES ASSUME S # {} PROVE FALSE
    OBVIOUS
  <1>1. Min(S) \in S /\ \A n \in S : Min(S) <= n
    <2>1. S \in SUBSET Nat
      OBVIOUS
    <2> HIDE DEF S
    <2> QED BY <2>1, SmallestOf
  <1>2. PICK top \in S : \A n \in S : top <= n
    BY <1>1
  <1>3. top \in Nat /\ ~\E f : Setting(f, top, b, listed, on)
    OBVIOUS
  <1>4. CASE top = 0
    <2>1. Setting([n \in 0..0 |-> b], 0, b, listed, on)
      BY DEF Setting
    <2> QED BY <1>3, <1>4, <2>1
  <1>5. CASE top # 0
    <2>1. top - 1 \in Nat /\ top - 1 \notin S
      BY <1>2, <1>3, <1>5
    <2>2. PICK f : Setting(f, top - 1, b, listed, on)
      BY <2>1
    <2> DEFINE g == [n \in 0..top |-> IF n = top THEN SetDay(f[top - 1], listed[top], on) ELSE f[n]]
    <2> HIDE DEF S
    <2>3. ASSUME NEW n \in 0..top
          PROVE  g[n] = IF n = 0 THEN b ELSE SetDay(g[n - 1], listed[n], on)
      <3>1. CASE n = top
        <4>1. g[n - 1] = f[top - 1] /\ n # 0
          BY <1>3, <1>5, <3>1
        <4> QED BY <3>1, <4>1
      <3>2. CASE n # top
        <4>1. n \in 0..(top - 1)
          BY <1>3, <3>2
        <4>2. f[n] = IF n = 0 THEN b ELSE SetDay(f[n - 1], listed[n], on)
          BY <2>2, <4>1 DEF Setting
        <4>3. g[n] = f[n] /\ (n # 0 => g[n - 1] = f[n - 1])
          BY <1>3, <3>2, <4>1
        <4> QED BY <4>2, <4>3
      <3> QED BY <3>1, <3>2
    <2>4. g = [n \in 0..top |-> g[n]]
      OBVIOUS
    <2> HIDE DEF g
    <2>5. Setting(g, top, b, listed, on)
      BY <2>3, <2>4 DEF Setting
    <2> QED BY <1>3, <2>5
  <1> QED BY <1>4, <1>5

\* An array x says of the days what b said, but for those of `those`, which it has as `on` says.
Sets(x, b, those, on) ==
    /\ x \in Bits
    /\ \A d \in Int : Runs(x, d) <=> (d \in those /\ on) \/ (d \notin those /\ Runs(b, d))

LEMMA OneMoreDay ==
    ASSUME NEW b, NEW x, NEW those, NEW on, Sets(x, b, those, on), NEW day \in Nat
    PROVE  Sets(SetDay(x, day, on), b, those \cup {day}, on)
  <1>1. /\ SetDay(x, day, on) \in Bits
        /\ \A d \in Int : Runs(SetDay(x, day, on), d) <=> (d = day /\ on) \/ (d # day /\ Runs(x, d))
    BY SetDayIs DEF Sets
  <1> QED BY <1>1 DEF Sets

LEMMA SetDaysIs ==
    ASSUME NEW b \in Bits, NEW days \in SUBSET Nat, IsFiniteSet(days), NEW on
    PROVE  Sets(SetDays(b, days, on), b, days, on)
  <1> DEFINE lower == {p \in days \X days : p[1] < p[2]}
             listed == Ordered(days, lower)
             c == Cardinality(days)
             f == CHOOSE g : Setting(g, c, b, listed, on)
             some(n) == {listed[i] : i \in 1..n}
  <1>1. Orders(lower, days)
    <2>1. \A x, y \in days : <<x, y>> \in lower <=> x < y
      OBVIOUS
    <2> HIDE DEF lower
    <2>2. \A x \in days : x \in Nat
      OBVIOUS
    <2> QED BY <2>1, <2>2 DEF Orders
  <1> HIDE DEF lower
  <1>2. /\ c \in Nat
        /\ \A n \in 1..c : listed[n] \in days
        /\ \A x \in days : \E n \in 1..c : listed[n] = x
    <2>1. Lists(listed, days, lower)
      BY <1>1, OrderedLists
    <2> QED BY <2>1 DEF Lists
  <1>3. Setting(f, c, b, listed, on)
    <2> HIDE DEF listed, c
    <2> QED BY <1>2, SettingIs
  <1>4. SetDays(b, days, on) = f[c]
    BY DEF SetDays, Setting, lower
  <1>5. \A n \in 0..c : f[n] = IF n = 0 THEN b ELSE SetDay(f[n - 1], listed[n], on)
    <2> HIDE DEF listed, c, f
    <2> QED BY <1>3 DEF Setting
  <1> HIDE DEF listed, c, f
  <1>6. \A n \in 0..c : Sets(f[n], b, some(n), on)
    <2> DEFINE S == {n \in 0..c : ~Sets(f[n], b, some(n), on)}
    <2> SUFFICES ASSUME S # {} PROVE FALSE
      OBVIOUS
    <2>1. Min(S) \in S /\ \A n \in S : Min(S) <= n
      <3>1. S \in SUBSET Nat
        BY <1>2
      <3> HIDE DEF S
      <3> QED BY <3>1, SmallestOf
    <2>2. PICK top \in S : \A n \in S : top <= n
      BY <2>1
    <2>3. top \in 0..c /\ ~Sets(f[top], b, some(top), on)
      OBVIOUS
    <2>4. CASE top = 0
      <3>1. f[0] = b
        BY <1>2, <1>5
      <3>2. some(0) = {}
        OBVIOUS
      <3> HIDE DEF some
      <3>3. Sets(b, b, {}, on)
        BY DEF Sets
      <3> QED BY <2>3, <2>4, <3>1, <3>2, <3>3
    <2>5. CASE top # 0
      <3>1. top - 1 \in 0..c /\ top - 1 \notin S /\ top \in 1..c
        <4>1. top - 1 \in 0..c /\ top \in 1..c /\ ~(top <= top - 1)
          BY <1>2, <2>3, <2>5
        <4> HIDE DEF S
        <4> QED BY <2>2, <4>1
      <3>2. Sets(f[top - 1], b, some(top - 1), on)
        BY <3>1
      <3>3. f[top] = SetDay(f[top - 1], listed[top], on)
        <4> HIDE DEF S
        <4> QED BY <1>5, <2>3, <2>5
      <3>4. listed[top] \in Nat
        BY <1>2, <3>1
      <3>5. some(top) = some(top - 1) \cup {listed[top]}
        <4>1. top \in Nat \ {0}
          BY <1>2, <3>1
        <4>2. 1..top = (1..(top - 1)) \cup {top}
          BY <4>1
        <4> QED BY <4>2
      <3> HIDE DEF some, S
      <3> QED BY <2>3, <3>2, <3>3, <3>4, <3>5, OneMoreDay
    <2> QED BY <2>4, <2>5
  <1>7. some(c) = days
    BY <1>2
  <1>8. c \in 0..c
    BY <1>2
  <1> HIDE DEF some
  <1> QED BY <1>4, <1>6, <1>7, <1>8

-----------------------------------------------------------------------------
(* What is written of an array *)

\* A finite set of numbers has a largest.
LEMMA LastOf ==
    ASSUME NEW S \in SUBSET Nat, S # {}, NEW top \in Nat, \A x \in S : x <= top
    PROVE  \E l \in S : \A e \in S : e <= l
  <1> DEFINE T == {n \in Nat : \E x \in S : x + n = top}
  <1>1. \A x \in S : top - x \in Nat /\ x + (top - x) = top
    OBVIOUS
  <1>2. T # {} /\ T \in SUBSET Nat
    BY <1>1
  <1>3. Min(T) \in T /\ \A n \in T : Min(T) <= n
    <2> HIDE DEF T
    <2> QED BY <1>2, SmallestOf
  <1>4. PICK l \in S : l + Min(T) = top /\ Min(T) \in Nat
    BY <1>3
  <1>5. ASSUME NEW e \in S PROVE e <= l
    <2>1. top - e \in T
      BY <1>1
    <2>2. Min(T) <= top - e
      BY <1>3, <2>1
    <2> HIDE DEF T
    <2> QED BY <1>4, <2>2
  <1> QED BY <1>5

\* The period of an array reads back as its days.
LEMMA SpanReads ==
    ASSUME NEW b \in Bits
    PROVE  /\ ReadBack(Span(b)) \in SUBSET Nat
           /\ \A d \in Int : d \in ReadBack(Span(b)) <=> Runs(b, d)
  <1> DEFINE p == Span(b)
             r == [base |-> p.first, days |-> p.bits]
  <1>1. ReadBack(p) = DaysIn(r)
    <2>1. r.base = p.first /\ r.days = p.bits
      OBVIOUS
    <2> HIDE DEF r, p
    <2>2. ReadBack(p) = {p.first + i - 1 : i \in {i \in DOMAIN p.bits : p.bits[i] = 1}}
      BY Zenon DEF ReadBack
    <2>3. DaysIn(r) = {r.base + i - 1 : i \in {i \in DOMAIN r.days : r.days[i] = 1}}
      BY Zenon DEF DaysIn
    <2> QED BY <2>1, <2>2, <2>3, Zenon
  <1>2. DaysIn(b) \in SUBSET Nat /\ \A d \in Int : d \in DaysIn(b) <=> Runs(b, d)
    BY DaysAre
  <1>3. b.base \in Nat /\ b.days \in Seq({0, 1}) /\ DOMAIN b.days = 1..Len(b.days) /\ Len(b.days) \in Nat
    BY DEF Bits
  <1>4. r \in Bits /\ \A d \in Int : Runs(r, d) <=> Runs(b, d)
    <2>1. CASE DaysIn(b) = {}
      <3>1. p = [first |-> Epoch, bits |-> <<0>>]
        BY <2>1, Zenon DEF Span
      <3>2. <<0>> \in Seq({0, 1}) /\ DOMAIN <<0>> = {1} /\ <<0>>[1] = 0
        OBVIOUS
      <3> HIDE DEF p
      <3>3. r.base = Epoch /\ r.days = <<0>> /\ r \in Bits
        BY <3>1, <3>2, CalendarAssumption DEF Bits
      <3> HIDE DEF r
      <3>4. \A d \in Int : ~Runs(r, d)
        BY <3>2, <3>3 DEF Runs
      <3> QED BY <1>2, <2>1, <3>3, <3>4
    <2>2. CASE DaysIn(b) # {}
      <3> DEFINE S == DaysIn(b)
                 f == CHOOSE d \in S : \A e \in S : d <= e
                 l == CHOOSE d \in S : \A e \in S : d >= e
                 lo == f - b.base + 1
                 hi == l - b.base + 1
                 bits == SubSeq(b.days, lo, hi)
      <3>1. p = [first |-> f, bits |-> bits]
        BY <2>2, Zenon DEF Span
      <3>2. f \in S /\ \A e \in S : f <= e
        <4>1. Min(S) \in S /\ \A e \in S : Min(S) <= e
          <5> HIDE DEF S
          <5>1. S \in SUBSET Nat /\ S # {}
            BY <1>2, <2>2 DEF S
          <5> QED BY <5>1, SmallestOf
        <4> QED BY <4>1
      <3>3. l \in S /\ \A e \in S : e <= l
        <4>1. b.base + Len(b.days) \in Nat /\ \A x \in S : x <= b.base + Len(b.days)
          <5>1. \A x \in S : x \in Nat /\ x - b.base + 1 \in 1..Len(b.days)
            BY <1>2, <1>3 DEF Runs
          <5> HIDE DEF S
          <5> QED BY <1>3, <5>1
        <4>2. S \in SUBSET Nat /\ S # {}
          BY <1>2, <2>2
        <4> HIDE DEF S
        <4>3. \E x \in S : \A e \in S : e <= x
          BY <4>1, <4>2, LastOf
        <4>4. \E x \in S : \A e \in S : x >= e
          BY <4>3
        <4>5. l \in S /\ \A e \in S : l >= e
          BY <4>4
        <4> QED BY <4>5
      <3> HIDE DEF f, l
      <3>4. f \in Nat /\ l \in Nat /\ Runs(b, f) /\ Runs(b, l) /\ f <= l
        BY <1>2, <3>2, <3>3
      <3>5. lo \in 1..Len(b.days) /\ hi \in 1..Len(b.days) /\ lo <= hi
        BY <1>3, <3>4 DEF Runs
      <3>6. /\ bits \in Seq({0, 1}) /\ Len(bits) = hi - lo + 1
            /\ \A i \in 1..(hi - lo + 1) : bits[i] = b.days[lo + i - 1]
        <4> HIDE DEF lo, hi
        <4>1. lo \in Int /\ hi \in Int /\ \A i \in lo..hi : b.days[i] \in {0, 1}
          BY <1>3, <3>5
        <4> QED BY <3>5, <4>1, SubSeqProperties
      <3> HIDE DEF bits, p
      <3>7. r.base = f /\ r.days = bits /\ r \in Bits /\ DOMAIN bits = 1..(hi - lo + 1)
        BY <3>1, <3>4, <3>6 DEF Bits
      <3> HIDE DEF r
      <3>8. ASSUME NEW d \in Int PROVE Runs(r, d) <=> Runs(b, d)
        <4>1. hi - lo + 1 = l - f + 1 /\ lo + (d - f + 1) - 1 = d - b.base + 1
          BY <1>3, <3>4
        <4>2. (d - f + 1 \in 1..(l - f + 1)) <=> (f <= d /\ d <= l)
          BY <3>4
        <4>3. Runs(r, d) <=> f <= d /\ d <= l /\ bits[d - f + 1] = 1
          BY <3>7, <4>1, <4>2 DEF Runs
        <4>4. f <= d /\ d <= l => bits[d - f + 1] = b.days[d - b.base + 1]
          BY <3>6, <4>1, <4>2
        <4>5. f <= d /\ d <= l => d - b.base + 1 \in DOMAIN b.days
          <5> DEFINE base == b.base
                     n == Len(b.days)
          <5>1. base \in Nat /\ n \in Nat /\ DOMAIN b.days = 1..n
            BY <1>3
          <5>2. f - base + 1 >= 1 /\ l - base + 1 <= n
            BY <1>3, <3>4, <3>5
          <5>3. f <= d /\ d <= l => d - base + 1 \in 1..n
            <6> HIDE DEF base, n
            <6> QED BY <3>4, <5>1, <5>2
          <5> QED BY <5>1, <5>3
        <4>6. Runs(b, d) => f <= d /\ d <= l
          BY <1>2, <3>2, <3>3
        <4> QED BY <4>3, <4>4, <4>5, <4>6 DEF Runs
      <3> QED BY <3>7, <3>8
    <2> QED BY <2>1, <2>2
  <1> HIDE DEF r, p
  <1>5. DaysIn(r) \in SUBSET Nat /\ \A d \in Int : d \in DaysIn(r) <=> Runs(r, d)
    BY <1>4, DaysAre
  <1>6. ReadBack(p) \in SUBSET Nat /\ \A d \in Int : d \in ReadBack(p) <=> Runs(b, d)
    BY <1>1, <1>4, <1>5
  <1> QED BY <1>6 DEF p

-----------------------------------------------------------------------------
(* What assignments say *)

\* The days each assignment names in the frame.
NamedDays ==
    {p \in Assignments \X Nat : AssignmentDays(p[1]) # NoDay /\ p[2] \in AssignmentDays(p[1])}

LEMMA PeriodNames ==
    ASSUME IsFrame(frame), NEW id, PeriodDays(id) # NoDay
    PROVE  PeriodDays(id) \in SUBSET Nat /\ IsFiniteSet(PeriodDays(id))
  <1> DEFINE p == KnownIn(frame.periods, id)
             start == IF p.start # NoDay THEN p.start ELSE KnownIn(frame.opDays, p.fromDay)
             end   == IF p.end # NoDay THEN p.end ELSE KnownIn(frame.opDays, p.toDay)
             holds(d) == p.bits # <<>> => d - start + 1 \in DOMAIN p.bits /\ p.bits[d - start + 1] # 0
             days == {d \in start..end : holds(d)}
  <1>1. PeriodDays(id) = IF p = NoDay THEN NoDay
                         ELSE IF start = NoDay \/ end = NoDay THEN NoDay
                         ELSE IF end < start THEN NoDay ELSE days
    BY Zenon DEF PeriodDays
  <1>2. p # NoDay /\ start # NoDay /\ end # NoDay /\ PeriodDays(id) = days
    <2> HIDE DEF p, start, end, days
    <2> QED BY <1>1
  <1>3. id \in DOMAIN frame.periods /\ p = frame.periods[id]
    BY <1>2, Zenon DEF KnownIn
  <1>4. p.start \in Nat \cup {NoDay} /\ p.end \in Nat \cup {NoDay}
    <2> HIDE DEF p
    <2> QED BY <1>3, Zenon DEF IsFrame
  <1>5. \A k : KnownIn(frame.opDays, k) # NoDay => KnownIn(frame.opDays, k) \in Nat
    BY Zenon DEF IsFrame, KnownIn
  <1>6. start \in Nat /\ end \in Nat
    <2> HIDE DEF p
    <2> QED BY <1>2, <1>4, <1>5
  <1> HIDE DEF start, end, p, holds
  <1>7. days \in SUBSET Nat /\ days \in SUBSET (start..end)
    BY <1>6
  <1>8. IsFiniteSet(start..end)
    BY <1>6, FS_Interval
  <1> HIDE DEF days
  <1> QED BY <1>2, <1>7, <1>8, FS_Subset

LEMMA AssignmentNames ==
    ASSUME IsFrame(frame), NEW a \in Assignments, AssignmentDays(a) # NoDay
    PROVE  /\ AssignmentDays(a) \in SUBSET Nat /\ IsFiniteSet(AssignmentDays(a))
           /\ \A d : d \in AssignmentDays(a) <=> <<a, d>> \in NamedDays
  <1>1. a.by \in {"period", "opDay", "date"} /\ (a.by = "date" => a.ref \in Nat)
    BY CalendarAssumption
  <1>2. AssignmentDays(a) \in SUBSET Nat /\ IsFiniteSet(AssignmentDays(a))
    <2>1. CASE a.by = "period"
      <3> DEFINE days == PeriodDays(a.ref)
                 allowed == KnownIn(frame.weekdays, a.dt)
                 some == {d \in days : d % Week \in allowed}
      <3>1. AssignmentDays(a) = IF days = NoDay \/ allowed = NoDay THEN days ELSE some
        BY <2>1, Zenon DEF AssignmentDays
      <3> HIDE DEF days
      <3>2. some \in SUBSET days
        OBVIOUS
      <3> HIDE DEF some, allowed
      <3>3. days # NoDay
        BY <3>1
      <3>4. days \in SUBSET Nat /\ IsFiniteSet(days)
        BY <3>3, PeriodNames DEF days
      <3>5. IsFiniteSet(some)
        BY <3>2, <3>4, FS_Subset
      <3> QED BY <3>1, <3>2, <3>4, <3>5
    <2>2. CASE a.by = "opDay"
      <3>0. a.by # "period"
        BY <2>2
      <3>1. AssignmentDays(a) = IF KnownIn(frame.opDays, a.ref) = NoDay THEN NoDay ELSE {frame.opDays[a.ref]}
        BY <2>2, <3>0, Zenon DEF AssignmentDays
      <3>2. a.ref \in DOMAIN frame.opDays /\ AssignmentDays(a) = {frame.opDays[a.ref]}
        BY <3>1, Zenon DEF KnownIn
      <3>3. frame.opDays[a.ref] \in Nat
        BY <3>2, Zenon DEF IsFrame
      <3>4. IsFiniteSet({frame.opDays[a.ref]})
        BY FS_Singleton
      <3> QED BY <3>2, <3>3, <3>4
    <2>3. CASE a.by = "date"
      <3>0. a.by # "period" /\ a.by # "opDay"
        BY <2>3
      <3>1. AssignmentDays(a) = {a.ref}
        BY <2>3, <3>0, Zenon DEF AssignmentDays
      <3>2. IsFiniteSet({a.ref})
        BY FS_Singleton
      <3> QED BY <1>1, <2>3, <3>1, <3>2
    <2> QED BY <1>1, <2>1, <2>2, <2>3
  <1>3. ASSUME NEW d PROVE d \in AssignmentDays(a) <=> <<a, d>> \in NamedDays
    <2>1. <<a, d>> \in NamedDays <=> d \in Nat /\ d \in AssignmentDays(a)
      <3>1. <<a, d>>[1] = a /\ <<a, d>>[2] = d
        OBVIOUS
      <3>2. <<a, d>> \in Assignments \X Nat <=> d \in Nat
        OBVIOUS
      <3> QED BY <3>1, <3>2, Zenon DEF NamedDays
    <2> QED BY <1>2, <2>1
  <1> QED BY <1>2, <1>3

\* An assignment to what the frame does not define names no day.
LEMMA UnknownNames ==
    ASSUME NEW a \in Assignments, AssignmentDays(a) = NoDay
    PROVE  \A d : <<a, d>> \notin NamedDays
  <1> TAKE d
  <1>1. <<a, d>>[1] = a
    OBVIOUS
  <1> QED BY <1>1, Zenon DEF NamedDays

LEMMA NamedStays == frame' = frame => NamedDays' = NamedDays
  <1> SUFFICES ASSUME frame' = frame PROVE NamedDays' = NamedDays
    OBVIOUS
  <1>1. ASSUME NEW id PROVE PeriodDays(id)' = PeriodDays(id)
    BY DEF PeriodDays
  <1>2. ASSUME NEW a PROVE AssignmentDays(a)' = AssignmentDays(a)
    BY <1>1, Zenon DEF AssignmentDays
  <1> QED BY <1>2, Zenon DEF NamedDays

\* The first n assignments give the day: the last of them to name it is one that gives.
Given(R, list, n, dt, d) ==
    \E i \in 1..n : /\ list[i].dt = dt /\ <<list[i], d>> \in R /\ list[i].on
                    /\ \A j \in 1..n : j > i /\ list[j].dt = dt => <<list[j], d>> \notin R

LEMMA OneMoreGives ==
    ASSUME NEW R, NEW list, NEW n \in Nat, NEW dt, NEW d
    PROVE  Given(R, list, n + 1, dt, d) <=>
               \/ list[n + 1].dt = dt /\ <<list[n + 1], d>> \in R /\ list[n + 1].on
               \/ ~(list[n + 1].dt = dt /\ <<list[n + 1], d>> \in R) /\ Given(R, list, n, dt, d)
  <1> DEFINE names(i) == list[i].dt = dt /\ <<list[i], d>> \in R
             gives(i) == list[i].on
             last(i, m) == names(i) /\ gives(i) /\ \A j \in 1..m : j > i => ~names(j)
  <1>1. \A m : Given(R, list, m, dt, d) <=> \E i \in 1..m : last(i, m)
    BY DEF Given
  <1> HIDE DEF names, gives
  <1>2. n + 1 \in 1..(n + 1) /\ \A i \in 1..(n + 1) : i = n + 1 \/ (i \in 1..n /\ n + 1 > i)
    OBVIOUS
  <1>3. \A i \in 1..n : i \in 1..(n + 1) /\ i # n + 1
    OBVIOUS
  <1>4. ASSUME names(n + 1) PROVE (\E i \in 1..(n + 1) : last(i, n + 1)) <=> gives(n + 1)
    <2>1. ASSUME gives(n + 1) PROVE last(n + 1, n + 1)
      <3>1. \A j \in 1..(n + 1) : ~(j > n + 1)
        OBVIOUS
      <3> QED BY <1>4, <2>1, <3>1
    <2>2. ASSUME NEW i \in 1..(n + 1), last(i, n + 1) PROVE gives(n + 1)
      BY <1>2, <1>4, <2>2
    <2> QED BY <1>2, <2>1, <2>2
  <1>5. ASSUME ~names(n + 1)
        PROVE  (\E i \in 1..(n + 1) : last(i, n + 1)) <=> \E i \in 1..n : last(i, n)
    <2>1. ASSUME NEW i \in 1..(n + 1), last(i, n + 1) PROVE i \in 1..n /\ last(i, n)
      BY <1>2, <1>3, <1>5, <2>1
    <2>2. ASSUME NEW i \in 1..n, last(i, n) PROVE i \in 1..(n + 1) /\ last(i, n + 1)
      BY <1>2, <1>3, <1>5, <2>2
    <2> QED BY <2>1, <2>2
  <1>6. Given(R, list, n + 1, dt, d) <=> (names(n + 1) /\ gives(n + 1)) \/ (~names(n + 1) /\ Given(R, list, n, dt, d))
    <2>1. Given(R, list, n + 1, dt, d) <=> \E i \in 1..(n + 1) : last(i, n + 1)
      BY <1>1
    <2>2. Given(R, list, n, dt, d) <=> \E i \in 1..n : last(i, n)
      BY <1>1
    <2> HIDE DEF last
    <2> QED BY <1>4, <1>5, <2>1, <2>2
  <1> QED BY <1>6 DEF names, gives

LEMMA MeaningIs ==
    ASSUME IsFrame(frame), NEW list \in Seq(Assignments), NEW dt
    PROVE  /\ Meaning(list, dt) \in SUBSET Nat
           /\ \A d \in Int : d \in Meaning(list, dt) <=> Given(NamedDays, list, Len(list), dt, d)
  <1> DEFINE names(i, d) == list[i].dt = dt /\ AssignmentDays(list[i]) # NoDay
                              /\ d \in AssignmentDays(list[i])
             mine == {i \in DOMAIN list : list[i].dt = dt /\ AssignmentDays(list[i]) # NoDay}
             all == UNION {AssignmentDays(list[i]) : i \in mine}
             gives(i, d) == /\ names(i, d) /\ list[i].on
                            /\ \A j \in DOMAIN list : j > i => ~names(j, d)
  <1>1. DOMAIN list = 1..Len(list) /\ \A i \in DOMAIN list : list[i] \in Assignments
    <2> HIDE DEF names, mine, all, gives
    <2>1. DOMAIN list = 1..Len(list)
      BY LenProperties
    <2> QED BY <2>1, ElementOfSeq
  <1>2. \A i \in DOMAIN list : \A d : names(i, d) <=> list[i].dt = dt /\ <<list[i], d>> \in NamedDays
    BY <1>1, AssignmentNames, UnknownNames
  <1>3. \A i \in mine : AssignmentDays(list[i]) \in SUBSET Nat
    BY <1>1, AssignmentNames
  <1>4. Meaning(list, dt) = {d \in all : \E i \in DOMAIN list : gives(i, d)}
    BY Zenon DEF Meaning
  <1>5. all \in SUBSET Nat
    <2> HIDE DEF mine
    <2> QED BY <1>3
  <1>6. \A i \in DOMAIN list : \A d : names(i, d) => d \in all
    OBVIOUS
  <1>7. \A d : d \in Meaning(list, dt) <=> \E i \in DOMAIN list : gives(i, d)
    <2> HIDE DEF all, names
    <2> QED BY <1>4, <1>6
  <1>8. Meaning(list, dt) \in SUBSET Nat
    <2> HIDE DEF all, gives
    <2> QED BY <1>4, <1>5
  <1>9. ASSUME NEW d PROVE (\E i \in DOMAIN list : gives(i, d)) <=> Given(NamedDays, list, Len(list), dt, d)
    <2> HIDE DEF names
    <2>1. \A i \in DOMAIN list : names(i, d) <=> list[i].dt = dt /\ <<list[i], d>> \in NamedDays
      BY <1>2
    <2>2. Given(NamedDays, list, Len(list), dt, d) <=>
            \E i \in DOMAIN list : /\ list[i].dt = dt /\ <<list[i], d>> \in NamedDays /\ list[i].on
                                 /\ \A j \in DOMAIN list : j > i /\ list[j].dt = dt => <<list[j], d>> \notin NamedDays
      BY <1>1, Zenon DEF Given
    <2> QED BY <2>1, <2>2
  <1> QED BY <1>7, <1>8, <1>9

\* Of a beginning, the same.
LEMMA GivenOfBeginning ==
    ASSUME NEW R, NEW list \in Seq(Assignments), NEW n \in 0..Len(list), NEW dt, NEW d
    PROVE  /\ SubSeq(list, 1, n) \in Seq(Assignments) /\ Len(SubSeq(list, 1, n)) = n
           /\ Given(R, SubSeq(list, 1, n), n, dt, d) <=> Given(R, list, n, dt, d)
  <1> DEFINE s == SubSeq(list, 1, n)
  <1>1. s \in Seq(Assignments) /\ Len(s) = n /\ \A i \in 1..n : s[i] = list[i]
    <2>1. CASE n = 0
      BY <2>1, SubSeqProperties
    <2>2. CASE n # 0
      <3>0. Len(list) \in Nat /\ \A i \in 1..Len(list) : list[i] \in Assignments
        BY LenProperties, ElementOfSeq
      <3>1. 1 \in Int /\ n \in Int /\ 1 <= n /\ \A i \in 1..n : list[i] \in Assignments
        BY <2>2, <3>0
      <3> QED BY <3>1, SubSeqProperties
    <2> QED BY <2>1, <2>2
  <1> HIDE DEF s
  <1>2. Given(R, s, n, dt, d) <=> Given(R, list, n, dt, d)
    BY <1>1 DEF Given
  <1> QED BY <1>1, <1>2 DEF s

\* The arrays hold what the first n assignments say.
HoldsTo(days, R, list, n) ==
    /\ \A dt \in DOMAIN days : days[dt] \in Bits
    /\ \A dt : \A d \in Int : Given(R, list, n, dt, d) <=> dt \in DOMAIN days /\ Runs(days[dt], d)

NoArray == [base |-> 0, days |-> <<>>]

LEMMA NoArrayRuns == NoArray \in Bits /\ \A d : ~Runs(NoArray, d)
  <1>1. NoArray \in Bits /\ NoArray.days = <<>> /\ DOMAIN <<>> = {}
    BY DEF NoArray, Bits
  <1> QED BY <1>1 DEF Runs

LEMMA NothingHolds ==
    ASSUME NEW days, DOMAIN days = {}, NEW R, NEW list
    PROVE  HoldsTo(days, R, list, 0)
  <1>1. \A dt, d : ~Given(R, list, 0, dt, d)
    BY DEF Given
  <1> QED BY <1>1 DEF HoldsTo

LEMMA ApplyHolds ==
    ASSUME IsFrame(frame), NEW list, NEW n \in Nat, list[n + 1] \in Assignments,
           NEW days, HoldsTo(days, NamedDays, list, n)
    PROVE  HoldsTo(ApplyTo(days, list[n + 1]), NamedDays, list, n + 1)
  <1> DEFINE a == list[n + 1]
             given == AssignmentDays(a)
             old0 == IF a.dt \in DOMAIN days THEN days[a.dt] ELSE [base |-> 0, days |-> <<>>]
             next == ApplyTo(days, a)
             set == SetDays(old0, given, a.on)
  <1>1. next = IF given = NoDay THEN days
               ELSE [dt \in DOMAIN days \cup {a.dt} |-> IF dt = a.dt THEN set ELSE days[dt]]
    BY Zenon DEF ApplyTo
  <1>2. \A dt, d : Given(NamedDays, list, n + 1, dt, d) <=>
               \/ a.dt = dt /\ <<a, d>> \in NamedDays /\ a.on
               \/ ~(a.dt = dt /\ <<a, d>> \in NamedDays) /\ Given(NamedDays, list, n, dt, d)
    BY OneMoreGives
  <1>3. /\ \A dt \in DOMAIN days : days[dt] \in Bits
        /\ \A dt : \A d \in Int : Given(NamedDays, list, n, dt, d) <=> dt \in DOMAIN days /\ Runs(days[dt], d)
    BY Zenon DEF HoldsTo
  <1> HIDE DEF next, a, set, given, old0
  <1>4. CASE given = NoDay
    <2>1. \A d : <<a, d>> \notin NamedDays
      BY <1>4, UnknownNames DEF given, a
    <2>2. next = days
      BY <1>1, <1>4, Zenon
    <2>3. HoldsTo(next, NamedDays, list, n + 1)
      BY <1>2, <1>3, <2>1, <2>2 DEF HoldsTo
    <2> QED BY <2>3 DEF next, a
  <1>5. CASE given # NoDay
    <2>1. given \in SUBSET Nat /\ IsFiniteSet(given) /\ \A d : d \in given <=> <<a, d>> \in NamedDays
      BY <1>5, AssignmentNames DEF given, a
    <2>2. /\ old0 \in Bits
          /\ \A d \in Int : Runs(old0, d) <=> Given(NamedDays, list, n, a.dt, d)
      <3>1. CASE a.dt \in DOMAIN days
        <4>1. old0 = days[a.dt]
          BY <3>1, Zenon DEF old0
        <4> QED BY <1>3, <3>1, <4>1
      <3>2. CASE a.dt \notin DOMAIN days
        <4>1. old0 = NoArray
          BY <3>2, Zenon DEF old0, NoArray
        <4> QED BY <1>3, <3>2, <4>1, NoArrayRuns
      <3> QED BY <3>1, <3>2
    <2>3. Sets(set, old0, given, a.on)
      BY <2>1, <2>2, SetDaysIs DEF set
    <2>4. DOMAIN next = DOMAIN days \cup {a.dt} /\ next[a.dt] = set
          /\ \A dt \in DOMAIN days : dt # a.dt => next[dt] = days[dt]
      BY <1>1, <1>5
    <2>5. \A dt \in DOMAIN next : next[dt] \in Bits
      BY <1>3, <2>3, <2>4 DEF Sets
    <2>6. ASSUME NEW dt, NEW d \in Int
          PROVE  Given(NamedDays, list, n + 1, dt, d) <=> dt \in DOMAIN next /\ Runs(next[dt], d)
      <3>1. CASE dt = a.dt
        <4>1. Given(NamedDays, list, n + 1, dt, d)
                <=> (d \in given /\ a.on) \/ (d \notin given /\ Given(NamedDays, list, n, dt, d))
          BY <1>2, <2>1, <3>1
        <4>2. Runs(set, d) <=> (d \in given /\ a.on) \/ (d \notin given /\ Runs(old0, d))
          BY <2>3 DEF Sets
        <4>3. Runs(old0, d) <=> Given(NamedDays, list, n, dt, d)
          BY <2>2, <3>1
        <4> QED BY <2>4, <3>1, <4>1, <4>2, <4>3
      <3>2. CASE dt # a.dt
        <4>1. Given(NamedDays, list, n + 1, dt, d) <=> Given(NamedDays, list, n, dt, d)
          BY <1>2, <3>2
        <4> QED BY <1>3, <2>4, <3>2, <4>1
      <3> QED BY <3>1, <3>2
    <2>7. HoldsTo(next, NamedDays, list, n + 1)
      BY <2>5, <2>6, Zenon DEF HoldsTo
    <2> QED BY <2>7 DEF next, a
  <1> QED BY <1>4, <1>5

\* The periods read back as what the first n assignments say.
ReadsAs(periods, R, list, n) ==
    \A dt \in DOMAIN periods :
        /\ ReadBack(periods[dt]) \in SUBSET Nat
        /\ \A d \in Int : d \in ReadBack(periods[dt]) <=> Given(R, list, n, dt, d)

LEMMA RenderedReads ==
    ASSUME NEW days, NEW R, NEW list, NEW n, HoldsTo(days, R, list, n)
    PROVE  ReadsAs(Rendered(days), R, list, n)
  <1> DEFINE all == DOMAIN frame.weekdays \cup DOMAIN days
             bits(dt) == IF dt \in DOMAIN days THEN days[dt] ELSE [base |-> 0, days |-> <<>>]
  <1>1. Rendered(days) = [dt \in all |-> Span(bits(dt))]
    BY Zenon DEF Rendered
  <1>2. ASSUME NEW dt
        PROVE  bits(dt) \in Bits /\ \A d \in Int : Runs(bits(dt), d) <=> Given(R, list, n, dt, d)
    <2>1. CASE dt \in DOMAIN days
      <3>1. bits(dt) = days[dt]
        BY <2>1, Zenon
      <3> HIDE DEF bits
      <3> QED BY <2>1, <3>1 DEF HoldsTo
    <2>2. CASE dt \notin DOMAIN days
      <3>1. bits(dt) = NoArray
        BY <2>2, Zenon DEF NoArray
      <3> HIDE DEF bits
      <3> QED BY <2>2, <3>1, NoArrayRuns DEF HoldsTo
    <2> QED BY <2>1, <2>2
  <1> HIDE DEF bits, all
  <1>3. DOMAIN Rendered(days) = all /\ \A dt \in all : Rendered(days)[dt] = Span(bits(dt))
    BY <1>1
  <1>4. ASSUME NEW dt \in all
        PROVE  /\ ReadBack(Rendered(days)[dt]) \in SUBSET Nat
               /\ \A d \in Int : d \in ReadBack(Rendered(days)[dt]) <=> Given(R, list, n, dt, d)
    <2>1. /\ ReadBack(Span(bits(dt))) \in SUBSET Nat
          /\ \A d \in Int : d \in ReadBack(Span(bits(dt))) <=> Runs(bits(dt), d)
      BY <1>2, SpanReads
    <2> QED BY <1>2, <1>3, <2>1
  <1> QED BY <1>3, <1>4, Zenon DEF ReadsAs

-----------------------------------------------------------------------------
(* The assignments sorted *)

\* How sort() orders two places of the list: by "order", equal ones as they stood.
Sooner(list, i, j) ==
    list[i].order < list[j].order \/ (list[i].order = list[j].order /\ i < j)

\* The places in the list of what is sorted.
Sorting(places, list, sorted) ==
    /\ sorted \in Seq(Assignments) /\ Len(sorted) = Len(list)
    /\ \A k \in 1..Len(list) : places[k] \in 1..Len(list) /\ sorted[k] = list[places[k]]
    /\ \A i \in 1..Len(list) : \E k \in 1..Len(list) : places[k] = i
    /\ \A m, n \in 1..Len(list) : m < n => Sooner(list, places[m], places[n])

LEMMA SortedIs ==
    ASSUME NEW list \in Seq(Assignments)
    PROVE  \E places : Sorting(places, list, Sorted(list))
  <1> DEFINE sooner == {p \in (DOMAIN list) \X (DOMAIN list) :
                          \/ list[p[1]].order < list[p[2]].order
                          \/ list[p[1]].order = list[p[2]].order /\ p[1] < p[2]}
             places == Ordered(DOMAIN list, sooner)
             N == Len(list)
             sorted == [k \in 1..Len(list) |-> list[places[k]]]
  <1>1. Sorted(list) = sorted
    BY Zenon DEF Sorted
  <1>2. N \in Nat /\ DOMAIN list = 1..N /\ \A i \in 1..N : list[i] \in Assignments
    BY LenProperties, ElementOfSeq
  <1>3. \A i \in 1..N : list[i].order \in Int
    BY <1>2, CalendarAssumption
  <1>4. \A i, j \in 1..N : <<i, j>> \in sooner <=> Sooner(list, i, j)
    <2> TAKE i, j \in 1..N
    <2>1. <<i, j>> \in (DOMAIN list) \X (DOMAIN list) /\ <<i, j>>[1] = i /\ <<i, j>>[2] = j
      BY <1>2
    <2> QED BY <2>1, Zenon DEF Sooner
  <1>5. IsFiniteSet(1..N) /\ Cardinality(1..N) = N
    <2> HIDE DEF N
    <2>1. N \in Nat
      BY <1>2
    <2>2. IsFiniteSet(1..N) /\ Cardinality(1..N) = IF 1 > N THEN 0 ELSE N - 1 + 1
      BY <2>1, FS_Interval
    <2> QED BY <2>1, <2>2
  <1> HIDE DEF sooner, N, sorted
  <1>6. Orders(sooner, 1..N)
    <2>1. \A x \in 1..N : ~Sooner(list, x, x)
      BY <1>2, <1>3 DEF Sooner
    <2>2. \A x, y \in 1..N : x # y => Sooner(list, x, y) \/ Sooner(list, y, x)
      BY <1>2, <1>3 DEF Sooner
    <2>3. ASSUME NEW x \in 1..N, NEW y \in 1..N, NEW z \in 1..N,
                 Sooner(list, x, y), Sooner(list, y, z)
          PROVE  Sooner(list, x, z)
      BY <1>2, <1>3, <2>3 DEF Sooner
    <2> QED BY <1>4, <2>1, <2>2, <2>3, Zenon DEF Orders
  <1>7. Lists(places, 1..N, sooner)
    BY <1>2, <1>5, <1>6, OrderedLists
  <1> HIDE DEF places
  <1>8. /\ \A n \in 1..N : places[n] \in 1..N
        /\ \A x \in 1..N : \E n \in 1..N : places[n] = x
        /\ \A m, n \in 1..N : m < n => Sooner(list, places[m], places[n])
    BY <1>4, <1>5, <1>7, Zenon DEF Lists
  <1>9. DOMAIN sorted = 1..N /\ \A k \in 1..N : sorted[k] = list[places[k]]
    BY DEF sorted, N
  <1>10. sorted \in Seq(Assignments) /\ Len(sorted) = N
    <2>1. sorted \in [1..N -> Assignments]
      <3>1. \A k \in 1..N : list[places[k]] \in Assignments
        BY <1>2, <1>8
      <3> QED BY <3>1 DEF sorted, N
    <2>2. sorted \in Seq(Assignments)
      BY <1>2, <2>1, SeqDef
    <2>3. DOMAIN sorted = 1..Len(sorted) /\ Len(sorted) \in Nat
      BY <2>2, LenProperties
    <2> QED BY <1>2, <1>9, <2>2, <2>3
  <1>11. Sorting(places, list, sorted)
    BY <1>8, <1>9, <1>10, Zenon DEF Sorting, N
  <1> QED BY <1>1, <1>11

\* The assignments of a day type are listed in their order.
InOrder(list, n) ==
    \A i, j \in 1..n : i < j /\ list[i].dt = list[j].dt => list[i].order <= list[j].order

LEMMA SortedSame ==
    ASSUME NEW list \in Seq(Assignments), InOrder(list, Len(list)), NEW R, NEW dt, NEW d
    PROVE  Given(R, Sorted(list), Len(list), dt, d) <=> Given(R, list, Len(list), dt, d)
  <1> DEFINE N == Len(list)
             s == Sorted(list)
             names(a) == a.dt = dt /\ <<a, d>> \in R
             gives(a) == a.on
  <1>1. N \in Nat /\ \A i \in 1..N : list[i].order \in Int
    <2>1. N \in Nat /\ \A i \in 1..N : list[i] \in Assignments
      BY LenProperties, ElementOfSeq
    <2> QED BY <2>1, CalendarAssumption
  <1>2. PICK places : Sorting(places, list, Sorted(list))
    BY SortedIs
  <1>3. /\ \A k \in 1..N : places[k] \in 1..N /\ s[k] = list[places[k]]
        /\ \A i \in 1..N : \E k \in 1..N : places[k] = i
        /\ \A m, n \in 1..N : m < n => Sooner(list, places[m], places[n])
    BY <1>2, Zenon DEF Sorting
  <1>4. \A x : Given(R, x, N, dt, d) <=>
            \E i \in 1..N : /\ names(x[i]) /\ gives(x[i])
                            /\ \A j \in 1..N : j > i => ~names(x[j])
    BY DEF Given
  <1> HIDE DEF N, s
  <1>5. \A i, j \in 1..N : i < j /\ names(list[i]) /\ names(list[j]) => list[i].order <= list[j].order
    BY DEF InOrder, N
  <1>6. \A m, n \in 1..N : m < n /\ names(s[m]) /\ names(s[n]) => places[m] < places[n]
    <2> SUFFICES ASSUME NEW m \in 1..N, NEW n \in 1..N, m < n, names(s[m]), names(s[n])
                 PROVE  places[m] < places[n]
      OBVIOUS
    <2> DEFINE i == places[m]
               j == places[n]
    <2>1. i \in 1..N /\ j \in 1..N /\ names(list[i]) /\ names(list[j]) /\ Sooner(list, i, j)
      <3> HIDE DEF names
      <3> QED BY <1>3
    <2> HIDE DEF i, j
    <2>2. j < i => list[j].order <= list[i].order
      <3> HIDE DEF names
      <3> QED BY <1>5, <2>1
    <2>3. i < j
      <3> HIDE DEF names
      <3> QED BY <1>1, <2>1, <2>2 DEF Sooner
    <2> QED BY <2>3 DEF i, j
  <1> HIDE DEF names, gives
  <1>7. ASSUME NEW i \in 1..N, names(list[i]), gives(list[i]), \A j \in 1..N : j > i => ~names(list[j])
        PROVE  \E k \in 1..N : names(s[k]) /\ gives(s[k]) /\ \A m \in 1..N : m > k => ~names(s[m])
    <2>1. PICK k \in 1..N : places[k] = i
      BY <1>3
    <2>2. s[k] = list[i]
      BY <1>3, <2>1
    <2>3. ASSUME NEW m \in 1..N, m > k, names(s[m]) PROVE FALSE
      <3>1. k < m
        BY <1>1, <2>3
      <3>2. places[k] < places[m]
        BY <1>6, <1>7, <2>2, <2>3, <3>1
      <3>3. places[m] \in 1..N /\ places[m] > i /\ names(list[places[m]])
        BY <1>1, <1>3, <2>1, <2>3, <3>2
      <3> QED BY <1>7, <3>3
    <2> QED BY <1>7, <2>2, <2>3
  <1>8. ASSUME NEW k \in 1..N, names(s[k]), gives(s[k]), \A m \in 1..N : m > k => ~names(s[m])
        PROVE  \E i \in 1..N : names(list[i]) /\ gives(list[i]) /\ \A j \in 1..N : j > i => ~names(list[j])
    <2> DEFINE i == places[k]
    <2>1. i \in 1..N /\ s[k] = list[i]
      BY <1>3
    <2>2. ASSUME NEW j \in 1..N, j > i, names(list[j]) PROVE FALSE
      <3>1. PICK m \in 1..N : places[m] = j
        BY <1>3
      <3>2. s[m] = list[j] /\ names(s[m])
        BY <1>3, <2>2, <3>1
      <3>3. ~(m > k)
        BY <1>8, <3>2
      <3>4. m # k
        BY <1>1, <2>1, <2>2, <3>1
      <3>5. m < k
        BY <1>1, <3>3, <3>4
      <3>6. places[m] < places[k]
        BY <1>6, <1>8, <3>2, <3>5
      <3> QED BY <1>1, <2>1, <2>2, <3>1, <3>6
    <2> HIDE DEF i
    <2> QED BY <1>8, <2>1, <2>2
  <1>9. Given(R, s, N, dt, d) <=> Given(R, list, N, dt, d)
    BY <1>4, <1>7, <1>8, Zenon
  <1> QED BY <1>9 DEF s, N

-----------------------------------------------------------------------------
(* The calendar: its arrays hold what was applied                          *)

\* What is left of a list: its last assignments.
LastPart(left, list) ==
    /\ left \in Seq(Assignments) /\ Len(left) <= Len(list)
    /\ \A k \in 1..Len(left) : left[k] = list[Len(list) - Len(left) + k]

\* What the scan of a stream knows of the first n: no two of a day type are out of
\* order while it has counted none.
Scanned(counts, list, n) ==
    /\ counts.outOfOrder \in Nat
    /\ \A dt \in DOMAIN counts.lastOrder : counts.lastOrder[dt] \in Int
    /\ counts.outOfOrder = 0 =>
         /\ InOrder(list, n)
         /\ \A i \in 1..n : /\ list[i].dt \in DOMAIN counts.lastOrder
                            /\ list[i].order <= counts.lastOrder[list[i].dt]

Done == Len(frame.assigns) - Len(queue)

ReadSoFar ==
    calPc = "read" =>
        /\ LastPart(queue, frame.assigns) /\ written.as = "nothing"
        /\ ~frame.large => DOMAIN daysOf = {}
        /\ frame.large => /\ HoldsTo(daysOf, NamedDays, frame.assigns, Done)
                          /\ Scanned(tally, frame.assigns, Done)

AppliedSoFar ==
    calPc = "apply" =>
        /\ LastPart(queue, Sorted(frame.assigns)) /\ written.as = "nothing" /\ ~frame.large
        /\ HoldsTo(daysOf, NamedDays, Sorted(frame.assigns), Done)

WrittenReads ==
    (written.as = "converted" /\ (frame.large => tally.outOfOrder = 0)) =>
        ReadsAs(written.periods, NamedDays, Sorted(frame.assigns), Len(frame.assigns))

CalendarShape == IsFrame(frame) /\ calPc \in {"read", "apply", "done"}

CalendarInv == CalendarShape /\ ReadSoFar /\ AppliedSoFar /\ WrittenReads

LEMMA SortedShape ==
    ASSUME NEW list \in Seq(Assignments)
    PROVE  Sorted(list) \in Seq(Assignments) /\ Len(Sorted(list)) = Len(list)
  BY SortedIs DEF Sorting

\* A calendar at rest is one that has read nothing yet.
LEMMA RestIsInit == CalendarAtRest => CalendarInit
  <1>1. RestFrame \in Frames
    BY CalendarAssumption, Zenon DEF RestFrame
  <1> QED BY <1>1, Zenon DEF CalendarAtRest, CalendarInit

LEMMA CalendarStarts == CalendarInit \/ CalendarAtRest => CalendarInv
  <1> SUFFICES ASSUME CalendarInit PROVE CalendarInv
    BY RestIsInit
  <1>1. /\ IsFrame(frame) /\ calPc = "read" /\ queue = frame.assigns
        /\ frame.assigns \in Seq(Assignments)
    BY CalendarAssumption, Zenon DEF CalendarInit, CalendarNew, IsFrame
  <1>2. DOMAIN daysOf = {} /\ written.as = "nothing"
    BY DEF CalendarInit, CalendarNew
  <1>3. tally.outOfOrder = 0 /\ DOMAIN tally.lastOrder = {}
    <2>1. tally = [byOpDay |-> FALSE, periodRefs |-> {}, dated |-> {}, unresolved |-> 0,
                   outOfOrder |-> 0, lastOrder |-> [dt \in {} |-> 0]]
      BY Zenon DEF CalendarInit, CalendarNew
    <2> QED BY <2>1
  <1>4. Len(frame.assigns) \in Nat /\ Done = 0
    <2>1. Len(frame.assigns) \in Nat
      BY <1>1, LenProperties
    <2> QED BY <1>1, <2>1 DEF Done
  <1>5. LastPart(queue, frame.assigns)
    <2> DEFINE N == Len(frame.assigns)
    <2>1. N \in Nat /\ Len(queue) = N
      BY <1>1, <1>4
    <2> HIDE DEF N
    <2>2. \A k \in 1..N : N - N + k = k
      BY <2>1
    <2> QED BY <1>1, <2>1, <2>2 DEF LastPart, N
  <1>6. HoldsTo(daysOf, NamedDays, frame.assigns, Done)
    BY <1>2, <1>4, NothingHolds
  <1>7. Scanned(tally, frame.assigns, Done)
    <2>1. InOrder(frame.assigns, 0)
      BY DEF InOrder
    <2> QED BY <1>3, <1>4, <2>1 DEF Scanned
  <1>8. calPc # "apply" /\ written.as # "converted" /\ calPc \in {"read", "apply", "done"}
    BY <1>1, <1>2
  <1> QED BY <1>1, <1>2, <1>5, <1>6, <1>7, <1>8, Zenon
          DEF CalendarInv, CalendarShape, ReadSoFar, AppliedSoFar, WrittenReads

LEMMA CalendarStays == CalendarInv /\ UNCHANGED calendarVars => CalendarInv'
  <1> SUFFICES ASSUME CalendarInv, UNCHANGED calendarVars PROVE CalendarInv'
    OBVIOUS
  <1>1. /\ frame' = frame /\ calPc' = calPc /\ queue' = queue /\ daysOf' = daysOf
        /\ tally' = tally /\ written' = written
    BY DEF calendarVars
  <1>2. NamedDays' = NamedDays
    BY <1>1, NamedStays
  <1> QED BY <1>1, <1>2 DEF CalendarInv, CalendarShape, ReadSoFar, AppliedSoFar, WrittenReads, Done

\* The first of what is left, and the rest after it.
LEMMA RestOf ==
    ASSUME NEW list \in Seq(Assignments), NEW left, LastPart(left, list), left # <<>>
    PROVE  LET n == Len(list) - Len(left) IN
           /\ n \in Nat /\ n + 1 \in 1..Len(list) /\ Head(left) = list[n + 1]
           /\ list[n + 1] \in Assignments
           /\ LastPart(Tail(left), list) /\ Len(list) - Len(Tail(left)) = n + 1
  <1> DEFINE N == Len(list)
             q == Len(left)
             n == N - q
  <1>1. N \in Nat /\ q \in Nat /\ q <= N /\ left \in Seq(Assignments)
        /\ \A i \in 1..N : list[i] \in Assignments
    <2>1. left \in Seq(Assignments) /\ q <= N
      BY DEF LastPart
    <2>2. N \in Nat /\ q \in Nat
      BY <2>1, LenProperties
    <2>3. \A i \in 1..N : list[i] \in Assignments
      BY ElementOfSeq
    <2> QED BY <2>1, <2>2, <2>3
  <1>2. /\ q # 0 /\ Head(left) = left[1] /\ Tail(left) \in Seq(Assignments) /\ Len(Tail(left)) = q - 1
        /\ \A k \in 1..(q - 1) : Tail(left)[k] = left[k + 1]
    <2>1. left \in Seq(Assignments) /\ left # <<>>
      BY <1>1
    <2> HIDE DEF q
    <2>2. q # 0
      BY <2>1, EmptySeq DEF q
    <2>3. Head(left) = left[1] /\ Tail(left) \in Seq(Assignments)
          /\ Len(Tail(left)) = Len(left) - 1
          /\ \A i \in 1..(Len(left) - 1) : Tail(left)[i] = left[i + 1]
      BY <2>1, HeadTailProperties
    <2> QED BY <2>2, <2>3 DEF q
  <1>3. \A k \in 1..q : left[k] = list[n + k]
    BY DEF LastPart
  <1> HIDE DEF N, q
  <1>4. n \in Nat /\ n + 1 \in 1..N /\ 1 \in 1..q /\ q - 1 <= N /\ N - (q - 1) = n + 1
    BY <1>1, <1>2
  <1>5. \A k \in 1..(q - 1) : k + 1 \in 1..q /\ n + (k + 1) = N - (q - 1) + k
    BY <1>1, <1>2
  <1>6. LastPart(Tail(left), list)
    <2>1. \A k \in 1..(q - 1) : Tail(left)[k] = list[N - (q - 1) + k]
      BY <1>2, <1>3, <1>5
    <2> QED BY <1>2, <1>4, <2>1 DEF LastPart, N
  <1> QED BY <1>1, <1>2, <1>3, <1>4, <1>6 DEF N, q

LEMMA ScanGoes ==
    ASSUME frame.large, NEW list \in Seq(Assignments), NEW n \in Nat, n + 1 \in 1..Len(list),
           Scanned(tally, list, n)
    PROVE  Scanned(Noted(list[n + 1]), list, n + 1)
  <1> DEFINE a == list[n + 1]
             last == tally.lastOrder
             next == Noted(a)
  <1>1. \A i \in 1..(n + 1) : list[i] \in Assignments /\ list[i].order \in Int
    <2>1. \A i \in 1..Len(list) : list[i] \in Assignments
      BY ElementOfSeq
    <2>2. Len(list) \in Nat
      BY LenProperties
    <2>3. \A i \in 1..(n + 1) : i \in 1..Len(list)
      BY <2>2
    <2> QED BY <2>1, <2>3, CalendarAssumption
  <1>2. /\ next.outOfOrder = tally.outOfOrder + Disorder(a)
        /\ next.lastOrder = [dt \in DOMAIN last \cup {a.dt} |-> IF dt = a.dt THEN a.order ELSE last[dt]]
    <2> HIDE DEF a
    <2> QED BY DEF Noted
  <1>3. /\ tally.outOfOrder \in Nat /\ \A dt \in DOMAIN last : last[dt] \in Int
        /\ tally.outOfOrder = 0 =>
             /\ InOrder(list, n)
             /\ \A i \in 1..n : list[i].dt \in DOMAIN last /\ list[i].order <= last[list[i].dt]
    BY Zenon DEF Scanned
  <1>4. Disorder(a) \in {0, 1} /\ (Disorder(a) = 0 => (a.dt \in DOMAIN last => ~(a.order < last[a.dt])))
    BY DEF Disorder
  <1> HIDE DEF a, last, next
  <1>5. a.order \in Int
    <2>1. n + 1 \in 1..(n + 1)
      OBVIOUS
    <2> QED BY <1>1, <2>1 DEF a
  <1>6. /\ DOMAIN next.lastOrder = DOMAIN last \cup {a.dt}
        /\ next.lastOrder[a.dt] = a.order
        /\ \A dt \in DOMAIN last : dt # a.dt => next.lastOrder[dt] = last[dt]
    BY <1>2
  <1>7. next.outOfOrder \in Nat /\ \A dt \in DOMAIN next.lastOrder : next.lastOrder[dt] \in Int
    BY <1>2, <1>3, <1>4, <1>5, <1>6
  <1>8. ASSUME next.outOfOrder = 0
        PROVE  /\ InOrder(list, n + 1)
               /\ \A i \in 1..(n + 1) : /\ list[i].dt \in DOMAIN next.lastOrder
                                        /\ list[i].order <= next.lastOrder[list[i].dt]
    <2>1. tally.outOfOrder = 0 /\ Disorder(a) = 0
      BY <1>2, <1>3, <1>4, <1>8
    <2>2. a.dt \in DOMAIN last => last[a.dt] <= a.order
      BY <1>3, <1>4, <1>5, <2>1
    <2>3. \A i \in 1..n : /\ list[i].dt \in DOMAIN last /\ list[i].order <= last[list[i].dt]
                          /\ list[i].order \in Int
      BY <1>1, <1>3, <2>1
    <2>4. \A i \in 1..n : list[i].dt = a.dt => list[i].order <= a.order
      BY <1>3, <1>5, <2>2, <2>3
    <2>5. \A i \in 1..(n + 1) : i \in 1..n \/ (i = n + 1 /\ list[i] = a)
      BY DEF a
    <2>6. InOrder(list, n + 1)
      <3> SUFFICES ASSUME NEW i \in 1..(n + 1), NEW j \in 1..(n + 1), i < j, list[i].dt = list[j].dt
                   PROVE  list[i].order <= list[j].order
        BY DEF InOrder
      <3>1. i \in 1..n
        OBVIOUS
      <3>2. CASE j \in 1..n
        BY <1>3, <2>1, <3>1, <3>2 DEF InOrder
      <3>3. CASE list[j] = a
        BY <2>4, <3>1, <3>3
      <3> QED BY <2>5, <3>2, <3>3
    <2>7. ASSUME NEW i \in 1..(n + 1)
          PROVE  list[i].dt \in DOMAIN next.lastOrder /\ list[i].order <= next.lastOrder[list[i].dt]
      <3>1. CASE list[i] = a
        BY <1>5, <1>6, <3>1
      <3>2. CASE i \in 1..n /\ list[i].dt = a.dt
        BY <1>6, <2>4, <3>2
      <3>3. CASE i \in 1..n /\ list[i].dt # a.dt
        BY <1>6, <2>3, <3>3
      <3> QED BY <2>5, <3>1, <3>2, <3>3
    <2> QED BY <2>6, <2>7
  <1>9. Scanned(next, list, n + 1)
    BY <1>7, <1>8, Zenon DEF Scanned
  <1> QED BY <1>9 DEF next, a

\* What was read or applied has an end: the day type's days are those it says.
LEMMA AllApplied ==
    ASSUME IsFrame(frame), NEW list \in Seq(Assignments), LastPart(queue, list), queue = <<>>
    PROVE  Len(list) - Len(queue) = Len(list)
  <1>1. Len(list) \in Nat /\ Len(queue) = 0
    BY LenProperties, EmptySeq
  <1> QED BY <1>1

LEMMA CalendarKept == CalendarInv /\ [CalendarNext]_calendarVars => CalendarInv'
  <1> SUFFICES ASSUME CalendarInv, CalendarNext PROVE CalendarInv'
    BY CalendarStays
  <1> DEFINE list == frame.assigns
             sorted == Sorted(list)
  <1>0. /\ IsFrame(frame) /\ list \in Seq(Assignments) /\ sorted \in Seq(Assignments)
        /\ Len(sorted) = Len(list)
    <2>1. IsFrame(frame) /\ list \in Seq(Assignments)
      BY Zenon DEF CalendarInv, CalendarShape, IsFrame
    <2> HIDE DEF list
    <2> QED BY <2>1, SortedShape
  <1>1. ASSUME ReadAssignment PROVE CalendarInv'
    <2>1. /\ calPc = "read" /\ queue # <<>> /\ calPc' = "read" /\ frame' = frame
          /\ written' = written /\ tally' = Noted(Head(queue)) /\ queue' = Tail(queue)
          /\ daysOf' = IF frame.large THEN ApplyTo(daysOf, Head(queue)) ELSE daysOf
      BY <1>1 DEF ReadAssignment
    <2>2. /\ LastPart(queue, list) /\ written.as = "nothing"
          /\ ~frame.large => DOMAIN daysOf = {}
          /\ frame.large => HoldsTo(daysOf, NamedDays, list, Done) /\ Scanned(tally, list, Done)
      BY <2>1, Zenon DEF CalendarInv, ReadSoFar
    <2>3. NamedDays' = NamedDays
      BY <2>1, NamedStays
    <2>4. /\ Done \in Nat /\ Done + 1 \in 1..Len(list) /\ Head(queue) = list[Done + 1]
          /\ list[Done + 1] \in Assignments
          /\ LastPart(Tail(queue), list) /\ Len(list) - Len(Tail(queue)) = Done + 1
      <3> HIDE DEF list
      <3> QED BY <1>0, <2>1, <2>2, RestOf DEF Done, list
    <2>5. Done' = Done + 1
      BY <2>1, <2>4 DEF Done
    <2> HIDE DEF list, sorted
    <2>6. ASSUME frame.large
          PROVE  HoldsTo(daysOf', NamedDays, list, Done + 1) /\ Scanned(tally', list, Done + 1)
      <3>1. daysOf' = ApplyTo(daysOf, list[Done + 1]) /\ tally' = Noted(list[Done + 1])
        BY <2>1, <2>4, <2>6
      <3>2. HoldsTo(ApplyTo(daysOf, list[Done + 1]), NamedDays, list, Done + 1)
        BY <1>0, <2>2, <2>4, <2>6, ApplyHolds
      <3>3. Scanned(Noted(list[Done + 1]), list, Done + 1)
        BY <1>0, <2>2, <2>4, <2>6, ScanGoes
      <3> QED BY <3>1, <3>2, <3>3
    <2>7. ReadSoFar'
      <3>1. frame'.assigns = list /\ frame'.large = frame.large
        BY <2>1 DEF list
      <3>2. ~frame.large => DOMAIN daysOf' = {}
        BY <2>1, <2>2
      <3>3. LastPart(queue', list) /\ written'.as = "nothing"
        BY <2>1, <2>2, <2>4
      <3> QED BY <2>3, <2>5, <2>6, <3>1, <3>2, <3>3 DEF ReadSoFar
    <2>8. AppliedSoFar' /\ WrittenReads' /\ CalendarShape'
      BY <1>0, <2>1, <2>2 DEF AppliedSoFar, WrittenReads, CalendarShape
    <2> QED BY <2>7, <2>8 DEF CalendarInv
  <1>2. ASSUME Decide PROVE CalendarInv'
    <2>1. /\ calPc = "read" /\ queue = <<>> /\ frame' = frame /\ daysOf' = daysOf /\ tally' = tally
          /\ \/ calPc' = "done" /\ written' = WrittenAs("published") /\ queue' = queue
             \/ /\ frame.large /\ calPc' = "done" /\ queue' = queue
                /\ written' = [as |-> "converted", periods |-> Rendered(daysOf)]
             \/ /\ ~frame.large /\ calPc' = "apply" /\ queue' = sorted /\ written' = written
      BY <1>2, Zenon DEF Decide
    <2>2. /\ LastPart(queue, list) /\ written.as = "nothing"
          /\ ~frame.large => DOMAIN daysOf = {}
          /\ frame.large => HoldsTo(daysOf, NamedDays, list, Done) /\ Scanned(tally, list, Done)
      BY <2>1, Zenon DEF CalendarInv, ReadSoFar
    <2>3. NamedDays' = NamedDays
      BY <2>1, NamedStays
    <2>4. Done = Len(list) /\ Len(list) \in Nat
      <3> HIDE DEF list
      <3>1. Len(list) - Len(queue) = Len(list) /\ Len(list) \in Nat
        BY <1>0, <2>1, <2>2, AllApplied, LenProperties
      <3> QED BY <3>1 DEF Done, list
    <2> HIDE DEF list, sorted
    <2>0. CalendarShape'
      BY <1>0, <2>1 DEF CalendarShape
    <2>5. CASE calPc' = "done" /\ written' = WrittenAs("published") /\ queue' = queue
      <3>1. written'.as # "converted"
        BY <2>5 DEF WrittenAs
      <3> QED BY <2>0, <2>5, <3>1 DEF CalendarInv, ReadSoFar, AppliedSoFar, WrittenReads
    <2>6. CASE frame.large /\ calPc' = "done" /\ queue' = queue
               /\ written' = [as |-> "converted", periods |-> Rendered(daysOf)]
      <3>1. written'.periods = Rendered(daysOf)
        BY <2>6
      <3>2. HoldsTo(daysOf, NamedDays, list, Len(list))
        BY <2>2, <2>4, <2>6
      <3>3. ReadsAs(Rendered(daysOf), NamedDays, list, Len(list))
        BY <3>2, RenderedReads
      <3>4. ASSUME tally.outOfOrder = 0
            PROVE  ReadsAs(Rendered(daysOf), NamedDays, sorted, Len(list))
        <4>1. InOrder(list, Len(list))
          BY <2>2, <2>4, <2>6, <3>4, Zenon DEF Scanned
        <4>2. \A dt, d : Given(NamedDays, sorted, Len(list), dt, d) <=> Given(NamedDays, list, Len(list), dt, d)
          BY <1>0, <4>1, SortedSame DEF sorted
        <4> QED BY <3>3, <4>2 DEF ReadsAs
      <3>5. frame'.assigns = list /\ Sorted(frame'.assigns) = sorted /\ frame'.large = frame.large
        BY <2>1 DEF list, sorted
      <3>6. WrittenReads'
        BY <2>1, <2>3, <2>6, <3>1, <3>4, <3>5 DEF WrittenReads
      <3> QED BY <2>0, <2>6, <3>6 DEF CalendarInv, ReadSoFar, AppliedSoFar
    <2>7. CASE ~frame.large /\ calPc' = "apply" /\ queue' = sorted /\ written' = written
      <3>1. frame'.assigns = list /\ Sorted(frame'.assigns) = sorted /\ frame'.large = frame.large
        BY <2>1 DEF list, sorted
      <3>2. Done' = 0
        BY <1>0, <2>1, <2>4, <2>7, <3>1 DEF Done
      <3>3. LastPart(sorted, sorted)
        <4> DEFINE N == Len(sorted)
        <4>1. N \in Nat
          BY <1>0, <2>4
        <4> HIDE DEF N
        <4>2. \A k \in 1..N : N - N + k = k
          BY <4>1
        <4> QED BY <1>0, <4>1, <4>2 DEF LastPart, N
      <3>4. HoldsTo(daysOf', NamedDays, sorted, 0)
        BY <2>1, <2>2, <2>7, NothingHolds
      <3>5. AppliedSoFar'
        BY <2>1, <2>2, <2>3, <2>7, <3>1, <3>2, <3>3, <3>4 DEF AppliedSoFar
      <3> QED BY <2>0, <2>2, <2>7, <3>5 DEF CalendarInv, ReadSoFar, WrittenReads
    <2> QED BY <2>1, <2>5, <2>6, <2>7
  <1>3. ASSUME Apply PROVE CalendarInv'
    <2>1. /\ calPc = "apply" /\ queue # <<>> /\ calPc' = "apply" /\ frame' = frame
          /\ written' = written /\ queue' = Tail(queue)
          /\ daysOf' = ApplyTo(daysOf, Head(queue))
      BY <1>3 DEF Apply
    <2>2. /\ LastPart(queue, sorted) /\ written.as = "nothing" /\ ~frame.large
          /\ HoldsTo(daysOf, NamedDays, sorted, Done)
      BY <2>1, Zenon DEF CalendarInv, AppliedSoFar
    <2>3. NamedDays' = NamedDays
      BY <2>1, NamedStays
    <2>4. /\ Done \in Nat /\ Head(queue) = sorted[Done + 1] /\ sorted[Done + 1] \in Assignments
          /\ LastPart(Tail(queue), sorted) /\ Len(list) - Len(Tail(queue)) = Done + 1
      <3> HIDE DEF list, sorted
      <3> QED BY <1>0, <2>1, <2>2, RestOf DEF Done, list
    <2>5. Done' = Done + 1
      BY <2>1, <2>4 DEF Done
    <2> HIDE DEF list, sorted
    <2>6. HoldsTo(daysOf', NamedDays, sorted, Done + 1)
      <3>1. HoldsTo(ApplyTo(daysOf, sorted[Done + 1]), NamedDays, sorted, Done + 1)
        BY <1>0, <2>2, <2>4, ApplyHolds
      <3> QED BY <2>1, <2>4, <3>1
    <2>7. AppliedSoFar'
      <3>1. Sorted(frame'.assigns) = sorted /\ frame'.large = frame.large
        BY <2>1 DEF list, sorted
      <3> QED BY <2>1, <2>2, <2>3, <2>4, <2>5, <2>6, <3>1 DEF AppliedSoFar
    <2> QED BY <1>0, <2>1, <2>2, <2>7 DEF CalendarInv, CalendarShape, ReadSoFar, WrittenReads
  <1>4. ASSUME WriteConverted PROVE CalendarInv'
    <2>1. /\ calPc = "apply" /\ queue = <<>> /\ calPc' = "done" /\ frame' = frame
          /\ written' = [as |-> "converted", periods |-> Rendered(daysOf)]
      BY <1>4 DEF WriteConverted
    <2>2. LastPart(queue, sorted) /\ HoldsTo(daysOf, NamedDays, sorted, Done)
      BY <2>1, Zenon DEF CalendarInv, AppliedSoFar
    <2>3. NamedDays' = NamedDays
      BY <2>1, NamedStays
    <2>4. Done = Len(list)
      <3> HIDE DEF list, sorted
      <3>1. Len(sorted) - Len(queue) = Len(sorted)
        BY <1>0, <2>1, <2>2, AllApplied
      <3> QED BY <1>0, <3>1 DEF Done, list
    <2> HIDE DEF list, sorted
    <2>5. ReadsAs(Rendered(daysOf), NamedDays, sorted, Len(list))
      BY <2>2, <2>4, RenderedReads
    <2>6. WrittenReads'
      <3>1. frame'.assigns = list /\ Sorted(frame'.assigns) = sorted /\ written'.periods = Rendered(daysOf)
        BY <2>1 DEF list, sorted
      <3> QED BY <2>3, <2>5, <3>1 DEF WrittenReads
    <2> QED BY <1>0, <2>1, <2>6 DEF CalendarInv, CalendarShape, ReadSoFar, AppliedSoFar
  <1>5. ASSUME LeaveMalformed PROVE CalendarInv'
    <2>1. calPc' = "done" /\ frame' = frame /\ written' = WrittenAs("malformed")
      BY <1>5 DEF LeaveMalformed
    <2>2. written'.as # "converted"
      BY <2>1 DEF WrittenAs
    <2> QED BY <1>0, <2>1, <2>2
            DEF CalendarInv, CalendarShape, ReadSoFar, AppliedSoFar, WrittenReads
  <1> QED BY <1>1, <1>2, <1>3, <1>4, <1>5 DEF CalendarNext

LEMMA CalendarShows == CalendarInv => DaysExact /\ RewriteIsExact
  <1> SUFFICES ASSUME CalendarInv PROVE DaysExact /\ RewriteIsExact
    OBVIOUS
  <1> DEFINE list == frame.assigns
             sorted == Sorted(list)
  <1>0. /\ IsFrame(frame) /\ calPc \in {"read", "apply", "done"}
        /\ list \in Seq(Assignments) /\ sorted \in Seq(Assignments) /\ Len(sorted) = Len(list)
    <2>1. IsFrame(frame) /\ calPc \in {"read", "apply", "done"} /\ list \in Seq(Assignments)
      BY Zenon DEF CalendarInv, CalendarShape, IsFrame
    <2> HIDE DEF list
    <2> QED BY <2>1, SortedShape
  <1> HIDE DEF list, sorted
  <1>1. ASSUME NEW part1 \in Seq(Assignments), LastPart(queue, part1), NEW dt \in DOMAIN daysOf,
               HoldsTo(daysOf, NamedDays, part1, Len(part1) - Len(queue))
        PROVE  DaysIn(daysOf[dt]) = Meaning(SubSeq(part1, 1, Len(part1) - Len(queue)), dt)
    <2> DEFINE n == Len(part1) - Len(queue)
               some == SubSeq(part1, 1, n)
    <2>1. n \in 0..Len(part1)
      <3>1. Len(part1) \in Nat /\ Len(queue) \in Nat /\ Len(queue) <= Len(part1)
        BY <1>1, LenProperties DEF LastPart
      <3> QED BY <3>1
    <2> HIDE DEF n
    <2>2. some \in Seq(Assignments) /\ Len(some) = n
          /\ \A d : Given(NamedDays, some, n, dt, d) <=> Given(NamedDays, part1, n, dt, d)
      BY <2>1, GivenOfBeginning
    <2> HIDE DEF some
    <2>3. /\ Meaning(some, dt) \in SUBSET Nat
          /\ \A d \in Int : d \in Meaning(some, dt) <=> Given(NamedDays, some, n, dt, d)
      BY <1>0, <2>2, MeaningIs
    <2>4. daysOf[dt] \in Bits /\ \A d \in Int : Given(NamedDays, part1, n, dt, d) <=> Runs(daysOf[dt], d)
      BY <1>1, Zenon DEF HoldsTo, n
    <2>5. /\ DaysIn(daysOf[dt]) \in SUBSET Nat
          /\ \A d \in Int : d \in DaysIn(daysOf[dt]) <=> Runs(daysOf[dt], d)
      BY <2>4, DaysAre
    <2>6. \A d \in Int : d \in DaysIn(daysOf[dt]) <=> d \in Meaning(some, dt)
      BY <2>2, <2>3, <2>4, <2>5
    <2>7. DaysIn(daysOf[dt]) = Meaning(some, dt)
      <3> DEFINE A == DaysIn(daysOf[dt])
                 B == Meaning(some, dt)
      <3>1. A \in SUBSET Nat /\ B \in SUBSET Nat /\ \A d \in Int : d \in A <=> d \in B
        BY <2>3, <2>5, <2>6
      <3> HIDE DEF A, B
      <3>2. \A d \in A : d \in B
        BY <3>1
      <3>3. \A d \in B : d \in A
        BY <3>1
      <3>4. A = B
        BY <3>2, <3>3
      <3> QED BY <3>4 DEF A, B
    <2> QED BY <2>7 DEF some, n
  <1>2. DaysExact
    <2> SUFFICES ASSUME calPc # "done", NEW dt \in DOMAIN daysOf
                 PROVE  DaysIn(daysOf[dt]) = Meaning(Applied, dt)
      BY DEF DaysExact
    <2>1. CASE calPc = "read"
      <3>1. LastPart(queue, list) /\ frame.large /\ HoldsTo(daysOf, NamedDays, list, Done)
        BY <2>1 DEF CalendarInv, ReadSoFar, list
      <3>2. Applied = SubSeq(list, 1, Len(list) - Len(queue))
        BY <3>1 DEF Applied, list
      <3>3. Done = Len(list) - Len(queue)
        BY DEF Done, list
      <3> QED BY <1>0, <1>1, <3>1, <3>2, <3>3
    <2>2. CASE calPc = "apply"
      <3>1. LastPart(queue, sorted) /\ ~frame.large /\ HoldsTo(daysOf, NamedDays, sorted, Done)
        BY <2>2 DEF CalendarInv, AppliedSoFar, list, sorted
      <3>2. Applied = SubSeq(sorted, 1, Len(sorted) - Len(queue))
        BY <1>0, <2>2, <3>1 DEF Applied, list, sorted
      <3>3. Done = Len(sorted) - Len(queue)
        BY <1>0 DEF Done, list
      <3> QED BY <1>0, <1>1, <3>1, <3>2, <3>3
    <2> QED BY <1>0, <2>1, <2>2
  <1>3. RewriteIsExact
    <2> SUFFICES ASSUME written.as = "converted", tally.outOfOrder = 0, NEW dt \in DOMAIN written.periods
                 PROVE  ReadBack(written.periods[dt]) = Meaning(Sorted(frame.assigns), dt)
      BY DEF RewriteIsExact
    <2>1. ReadsAs(written.periods, NamedDays, sorted, Len(list))
      BY DEF CalendarInv, WrittenReads, list, sorted
    <2>2. /\ ReadBack(written.periods[dt]) \in SUBSET Nat
          /\ \A d \in Int : d \in ReadBack(written.periods[dt]) <=> Given(NamedDays, sorted, Len(list), dt, d)
      BY <2>1, Zenon DEF ReadsAs
    <2>3. /\ Meaning(sorted, dt) \in SUBSET Nat
          /\ \A d \in Int : d \in Meaning(sorted, dt) <=> Given(NamedDays, sorted, Len(list), dt, d)
      BY <1>0, MeaningIs
    <2>4. ReadBack(written.periods[dt]) = Meaning(sorted, dt)
      <3> DEFINE A == ReadBack(written.periods[dt])
                 B == Meaning(sorted, dt)
      <3>1. A \in SUBSET Nat /\ B \in SUBSET Nat /\ \A d \in Int : d \in A <=> d \in B
        BY <2>2, <2>3
      <3> HIDE DEF A, B
      <3>2. A = B
        <4>1. \A d \in A : d \in B
          BY <3>1
        <4>2. \A d \in B : d \in A
          BY <3>1
        <4> QED BY <4>1, <4>2
      <3> QED BY <3>2 DEF A, B
    <2> QED BY <2>4 DEF sorted, list
  <1> QED BY <1>2, <1>3

-----------------------------------------------------------------------------
(* The calendar: a frame left as published *)

\* What needs_conversion is told of an assignment.
NotedOf(counts, a) ==
    /\ a.by = "opDay" => counts.byOpDay
    /\ a.by = "period" => <<a.dt, a.ref>> \in counts.periodRefs
    /\ a.by = "date" => a.dt \in counts.dated

\* It is told of every assignment read, and of no period that none of them names.
NotesTold ==
    /\ frame \in Frames
    /\ calPc = "read" => \A i \in 1..Done : NotedOf(tally, frame.assigns[i])
    /\ \A r \in tally.periodRefs : \E i \in 1..Len(frame.assigns) :
          frame.assigns[i].by = "period" /\ frame.assigns[i].ref = r[2]
    /\ calPc = "done" /\ written.as = "published" =>
          /\ ~NeedsConversion
          /\ \A i \in 1..Len(frame.assigns) : NotedOf(tally, frame.assigns[i])

LEMMA NotesStart == CalendarInit \/ CalendarAtRest => NotesTold
  <1> SUFFICES ASSUME CalendarInit PROVE NotesTold
    BY RestIsInit
  <1>1. /\ frame \in Frames /\ calPc = "read" /\ queue = frame.assigns
        /\ frame.assigns \in Seq(Assignments)
    BY CalendarAssumption, Zenon DEF CalendarInit, CalendarNew, IsFrame
  <1>2. tally.periodRefs = {}
    <2>1. tally = [byOpDay |-> FALSE, periodRefs |-> {}, dated |-> {}, unresolved |-> 0,
                   outOfOrder |-> 0, lastOrder |-> [dt \in {} |-> 0]]
      BY Zenon DEF CalendarInit, CalendarNew
    <2> QED BY <2>1
  <1>3. 1..Done = {}
    <2>1. Len(frame.assigns) \in Nat
      BY <1>1, LenProperties
    <2> QED BY <1>1, <2>1 DEF Done
  <1> QED BY <1>1, <1>2, <1>3 DEF NotesTold

LEMMA NotesStay == NotesTold /\ UNCHANGED calendarVars => NotesTold'
  BY DEF NotesTold, calendarVars, Done, NeedsConversion

LEMMA NoteAdds ==
    ASSUME NEW a
    PROVE  /\ NotedOf(Noted(a), a) /\ \A b : NotedOf(tally, b) => NotedOf(Noted(a), b)
           /\ \A r \in Noted(a).periodRefs : r \in tally.periodRefs \/ (a.by = "period" /\ r = <<a.dt, a.ref>>)
  <1> DEFINE byOpDay == tally.byOpDay \/ a.by = "opDay"
             refs == tally.periodRefs \cup (IF a.by = "period" THEN {<<a.dt, a.ref>>} ELSE {})
             dated == tally.dated \cup (IF a.by = "date" THEN {a.dt} ELSE {})
             t == Noted(a)
  <1>1. (t.byOpDay <=> byOpDay) /\ t.periodRefs = refs /\ t.dated = dated
    <2> HIDE DEF byOpDay, refs, dated
    <2> QED BY DEF Noted, byOpDay, refs, dated
  <1>2. /\ a.by = "period" => <<a.dt, a.ref>> \in refs
        /\ \A r \in refs : r \in tally.periodRefs \/ (a.by = "period" /\ r = <<a.dt, a.ref>>)
        /\ tally.periodRefs \subseteq refs
        /\ (a.by = "date" => a.dt \in dated) /\ tally.dated \subseteq dated
    OBVIOUS
  <1> HIDE DEF t, refs, dated
  <1>3. NotedOf(t, a)
    BY <1>1, <1>2, Zenon DEF NotedOf
  <1>4. ASSUME NEW b, NotedOf(tally, b) PROVE NotedOf(t, b)
    <2>1. tally.byOpDay => t.byOpDay
      BY <1>1, Zenon
    <2>2. tally.periodRefs \subseteq t.periodRefs /\ tally.dated \subseteq t.dated
      BY <1>1, <1>2
    <2> QED BY <1>4, <2>1, <2>2, Zenon DEF NotedOf
  <1> QED BY <1>1, <1>2, <1>3, <1>4 DEF t

LEMMA NotesKept == CalendarInv /\ NotesTold /\ [CalendarNext]_calendarVars => NotesTold'
  <1> SUFFICES ASSUME CalendarInv, NotesTold, CalendarNext PROVE NotesTold'
    BY NotesStay
  <1> DEFINE list == frame.assigns
             N == Len(list)
  <1>0. /\ list \in Seq(Assignments) /\ N \in Nat
        /\ frame \in Frames
        /\ \A r \in tally.periodRefs : \E i \in 1..N : list[i].by = "period" /\ list[i].ref = r[2]
    <2>1. list \in Seq(Assignments)
      BY Zenon DEF CalendarInv, CalendarShape, IsFrame
    <2> QED BY <2>1, LenProperties, Zenon DEF NotesTold
  <1>1. CASE ReadAssignment
    <2>1. /\ calPc = "read" /\ queue # <<>> /\ tally' = Noted(Head(queue)) /\ queue' = Tail(queue)
          /\ frame' = frame /\ calPc' = calPc
      BY <1>1 DEF ReadAssignment
    <2>2. LastPart(queue, list) /\ \A i \in 1..Done : NotedOf(tally, list[i])
      BY <2>1 DEF CalendarInv, ReadSoFar, NotesTold
    <2> DEFINE n == Done
               a == list[n + 1]
    <2>3. /\ n \in Nat /\ n + 1 \in 1..N /\ Head(queue) = a /\ N - Len(Tail(queue)) = n + 1
      <3> HIDE DEF list
      <3>1. n = Len(list) - Len(queue)
        BY DEF Done, list
      <3> HIDE DEF n
      <3> QED BY <1>0, <2>1, <2>2, <3>1, RestOf
    <2>4. Done' = n + 1
      BY <2>1, <2>3 DEF Done
    <2>5. tally' = Noted(a)
      BY <2>1, <2>3
    <2> HIDE DEF n, a, N, list
    <2>6. \A i \in 1..(n + 1) : i \in 1..n \/ i = n + 1
      BY <2>3
    <2>7. \A i \in 1..(n + 1) : NotedOf(Noted(a), list[i])
      <3>1. \A i \in 1..n : NotedOf(tally, list[i])
        BY <2>2 DEF n
      <3>2. a = list[n + 1]
        BY DEF a
      <3> QED BY <2>6, <3>1, <3>2, NoteAdds, Zenon
    <2>8. \A r \in Noted(a).periodRefs : \E i \in 1..N : list[i].by = "period" /\ list[i].ref = r[2]
      <3>1. <<a.dt, a.ref>>[2] = a.ref
        OBVIOUS
      <3>2. a = list[n + 1] /\ n + 1 \in 1..N
        BY <2>3 DEF a
      <3> QED BY <1>0, <3>1, <3>2, NoteAdds, Zenon
    <2>9. \A i \in 1..Done' : NotedOf(tally', frame'.assigns[i])
      BY <2>1, <2>4, <2>5, <2>7 DEF list
    <2>10. \A r \in tally'.periodRefs : \E i \in 1..Len(frame'.assigns) :
              frame'.assigns[i].by = "period" /\ frame'.assigns[i].ref = r[2]
      BY <2>1, <2>5, <2>8 DEF list, N
    <2> QED BY <1>0, <2>1, <2>9, <2>10, Zenon DEF NotesTold
  <1> DEFINE told == \A r \in tally.periodRefs : \E i \in 1..N : list[i].by = "period" /\ list[i].ref = r[2]
  <1>2. CASE Decide
    <2>1. /\ calPc = "read" /\ queue = <<>> /\ frame' = frame /\ tally' = tally
          /\ calPc' # "read"
          /\ ~NeedsConversion \/ calPc' # "done" \/ written'.as = "converted"
      <3>1. CASE ~NeedsConversion
        BY <1>2, <3>1 DEF Decide
      <3>2. CASE NeedsConversion
        BY <1>2, <3>2 DEF Decide
      <3> QED BY <3>1, <3>2
    <2>2. \A i \in 1..N : NotedOf(tally, list[i])
      <3>1. Done = N
        BY <1>0, <2>1 DEF Done
      <3> QED BY <2>1, <3>1 DEF NotesTold
    <2>3. NeedsConversion' <=> NeedsConversion
      BY <2>1 DEF NeedsConversion
    <2> QED BY <1>0, <2>1, <2>2, <2>3 DEF NotesTold
  <1>3. CASE Apply
    <2>1. calPc' = "apply" /\ frame' = frame
      BY <1>3 DEF Apply
    <2>2. tally'.periodRefs = tally.periodRefs
      BY <1>3 DEF Apply
    <2> QED BY <1>0, <2>1, <2>2 DEF NotesTold
  <1>4. CASE WriteConverted
    <2>1. calPc' = "done" /\ frame' = frame /\ tally' = tally /\ written'.as = "converted"
      BY <1>4 DEF WriteConverted
    <2> QED BY <1>0, <2>1 DEF NotesTold
  <1>5. CASE LeaveMalformed
    <2>1. calPc' = "done" /\ frame' = frame /\ tally' = tally /\ written'.as = "malformed"
      BY <1>5 DEF LeaveMalformed, WrittenAs
    <2> QED BY <1>0, <2>1 DEF NotesTold
  <1> QED BY <1>1, <1>2, <1>3, <1>4, <1>5 DEF CalendarNext

\* No assignment that gives days names a period that lacks a bound or ends before it begins; and
\* what stands for no days (None) is not a set of days.
PeriodsRun ==
    /\ NoDay \notin SUBSET Nat
    /\ \A f \in Frames : \A i \in 1..Len(f.assigns) :
          LET a == f.assigns[i]
              p == f.periods[a.ref]
              start == IF p.start # NoDay THEN p.start ELSE KnownIn(f.opDays, p.fromDay)
              end   == IF p.end # NoDay THEN p.end ELSE KnownIn(f.opDays, p.toDay)
          IN (a.by = "period" /\ a.on /\ a.ref \in DOMAIN f.periods) =>
                p # NoDay /\ start # NoDay /\ end # NoDay /\ ~(end < start)

\* A day type with one assignment has the days that one names.
LEMMA OneMeans ==
    ASSUME IsFrame(frame), NEW list \in Seq(Assignments), NEW i \in 1..Len(list), list[i].on,
           \A j \in 1..Len(list) : list[j].dt = list[i].dt => j = i,
           AssignmentDays(list[i]) # NoDay
    PROVE  Meaning(Sorted(list), list[i].dt) = AssignmentDays(list[i])
  <1> DEFINE N == Len(list)
             s == Sorted(list)
             dt == list[i].dt
             R == NamedDays
             A == AssignmentDays(list[i])
  <1>1. PICK places : Sorting(places, list, s)
    BY SortedIs
  <1>2. /\ s \in Seq(Assignments) /\ Len(s) = N /\ list[i] \in Assignments
        /\ \A k \in 1..N : places[k] \in 1..N /\ s[k] = list[places[k]]
        /\ \E k \in 1..N : places[k] = i
        /\ \A m, n \in 1..N : m < n => Sooner(list, places[m], places[n])
    BY <1>1, ElementOfSeq DEF Sorting
  <1>3. PICK k0 \in 1..N : places[k0] = i
    BY <1>2
  <1>4. A \in SUBSET Nat /\ \A d : d \in A <=> <<list[i], d>> \in R
    BY <1>2, AssignmentNames
  <1>5. Meaning(s, dt) \in SUBSET Nat /\ \A d \in Int : d \in Meaning(s, dt) <=> Given(R, s, N, dt, d)
    BY <1>2, MeaningIs
  <1>6. N \in Nat /\ list[i].order \in Int
    BY <1>2, LenProperties, CalendarAssumption
  <1>7. ~Sooner(list, i, i)
    BY <1>6 DEF Sooner
  <1>8. \A j \in 1..N : list[j].dt = dt => j = i
    OBVIOUS
  <1>9. dt = list[i].dt /\ list[i].on
    OBVIOUS
  <1> HIDE DEF N, s, dt, R, A
  <1>10. \A k \in 1..N : s[k].dt = dt <=> places[k] = i
    BY <1>2, <1>8, <1>9
  <1>11. \A k \in 1..N : k > k0 => s[k].dt # dt
    BY <1>2, <1>3, <1>7, <1>10
  <1>12. \A d : Given(R, s, N, dt, d) <=> <<list[i], d>> \in R
    <2> TAKE d
    <2>1. ASSUME Given(R, s, N, dt, d) PROVE <<list[i], d>> \in R
      <3>1. PICK k \in 1..N : s[k].dt = dt /\ <<s[k], d>> \in R
        BY <2>1, Zenon DEF Given
      <3>2. s[k] = list[i]
        BY <1>2, <1>10, <3>1
      <3> QED BY <3>1, <3>2
    <2>2. ASSUME <<list[i], d>> \in R PROVE Given(R, s, N, dt, d)
      <3>1. s[k0] = list[i]
        BY <1>2, <1>3
      <3>2. \A j \in 1..N : j > k0 /\ s[j].dt = dt => <<s[j], d>> \notin R
        BY <1>11
      <3> QED BY <1>9, <2>2, <3>1, <3>2, Zenon DEF Given
    <2> QED BY <2>1, <2>2
  <1>13. \A d \in Int : d \in Meaning(s, dt) <=> d \in A
    BY <1>4, <1>5, <1>12, Zenon
  <1> DEFINE M == Meaning(s, dt)
  <1> HIDE DEF M
  <1>14. M \in SUBSET Nat /\ \A d \in Int : d \in M <=> d \in A
    BY <1>5, <1>13 DEF M
  <1>15. M = A
    <2>1. \A d \in M : d \in A
      BY <1>14
    <2>2. \A d \in A : d \in M
      BY <1>4, <1>14
    <2> QED BY <2>1, <2>2
  <1> QED BY <1>15 DEF M, A, s, dt

LEMMA NotesShow == PeriodsRun /\ CalendarInv /\ NotesTold => LeftAloneIsRead
  <1> DEFINE list == frame.assigns
             N == Len(list)
  <1> SUFFICES ASSUME PeriodsRun, CalendarInv, NotesTold, calPc = "done", written.as = "published",
                      \A i \in DOMAIN list : list[i].by = "period" => list[i].ref \in DOMAIN frame.periods,
                      NEW dt,
                      LET mine == {i \in DOMAIN list : list[i].dt = dt} IN
                      /\ Cardinality({i \in mine : list[i].by = "period"}) = 1
                      /\ \A i \in mine : list[i].on
                      /\ KnownIn(frame.weekdays, dt) = NoDay
               PROVE  MotisReads(dt) = Meaning(Sorted(list), dt)
    BY Zenon DEF LeftAloneIsRead
  <1> DEFINE mine == {i \in DOMAIN list : list[i].dt = dt}
             P == {i \in mine : list[i].by = "period"}
  <1>1. /\ list \in Seq(Assignments) /\ N \in Nat /\ DOMAIN list = 1..N /\ IsFrame(frame)
        /\ \A i \in 1..N : list[i] \in Assignments
        /\ frame \in Frames
    <2>1. list \in Seq(Assignments) /\ IsFrame(frame)
      BY Zenon DEF CalendarInv, CalendarShape, IsFrame
    <2>2. frame \in Frames
      BY Zenon DEF NotesTold
    <2> HIDE DEF list
    <2> QED BY <2>1, <2>2, LenProperties, ElementOfSeq
  <1>2. /\ ~NeedsConversion /\ \A i \in 1..N : NotedOf(tally, list[i])
        /\ \A r \in tally.periodRefs : \E i \in 1..N : list[i].by = "period" /\ list[i].ref = r[2]
    BY Zenon DEF NotesTold
  <1>3. PICK i \in 1..N : P = {i}
    <2>1. IsFiniteSet(1..N)
      BY <1>1, FS_Interval
    <2>2. P \subseteq 1..N
      BY <1>1
    <2>3. Cardinality(P) = 1
      OBVIOUS
    <2> HIDE DEF P
    <2>4. IsFiniteSet(P)
      BY <2>1, <2>2, FS_Subset
    <2>5. \E x : P = {x}
      BY <2>3, <2>4, FS_Singleton
    <2> QED BY <2>2, <2>5
  <1>4. /\ \A j \in 1..N : list[j].dt = dt => list[j].on
        /\ \A j \in 1..N : list[j].dt = dt /\ list[j].by = "period" <=> j = i
        /\ \A j \in 1..N : list[j].by = "period" => list[j].ref \in DOMAIN frame.periods
    <2> DEFINE dom == DOMAIN list
    <2>1. dom = 1..N
      BY <1>1
    <2>2. \A j : j \in P <=> j \in dom /\ list[j].dt = dt /\ list[j].by = "period"
      <3> HIDE DEF list
      <3> QED OBVIOUS
    <2>3. \A j \in dom : list[j].dt = dt => list[j].on
      <3> HIDE DEF list
      <3> QED OBVIOUS
    <2>4. \A j : j \in P <=> j = i
      <3> HIDE DEF P
      <3> QED BY <1>3
    <2> HIDE DEF dom, P
    <2> QED BY <2>1, <2>2, <2>3, <2>4 DEF dom
  <1> DEFINE a == list[i]
  <1>5. KnownIn(frame.weekdays, dt) = NoDay
    OBVIOUS
  <1> HIDE DEF mine, P
  <1>6. /\ a.by = "period" /\ a.on /\ a.dt = dt /\ a.ref \in DOMAIN frame.periods
        /\ a \in Assignments
    <2> HIDE DEF list
    <2> QED BY <1>1, <1>3, <1>4
  <1>7. /\ ~tally.byOpDay
        /\ \A r \in tally.periodRefs : r[2] \in DOMAIN frame.periods => frame.periods[r[2]].uic
        /\ \A r \in tally.periodRefs : r[1] \notin tally.dated
    <2>1. \A r \in tally.periodRefs : r[2] \in DOMAIN frame.periods
      <3> HIDE DEF list, N
      <3> QED BY <1>2, <1>4
    <2> QED BY <1>2, <2>1 DEF NeedsConversion
  <1>8. <<dt, a.ref>> \in tally.periodRefs
    <2> HIDE DEF a
    <2>1. NotedOf(tally, a)
      BY <1>2, <1>3 DEF a
    <2> QED BY <1>6, <2>1 DEF NotedOf
  <1>9. frame.periods[a.ref].uic /\ dt \notin tally.dated
    <2>1. <<dt, a.ref>>[1] = dt /\ <<dt, a.ref>>[2] = a.ref
      OBVIOUS
    <2> HIDE DEF a
    <2> QED BY <1>6, <1>7, <1>8, <2>1, Zenon
  <1>10. \A j \in 1..N : list[j].dt = dt => j = i
    <2> HIDE DEF list, N, a
    <2> SUFFICES ASSUME NEW j \in 1..N, list[j].dt = dt PROVE j = i
      OBVIOUS
    <2>1. NotedOf(tally, list[j]) /\ list[j].by \in {"period", "opDay", "date"}
      BY <1>1, <1>2, CalendarAssumption
    <2>2. list[j].by # "opDay" /\ list[j].by # "date"
      BY <1>7, <1>9, <2>1 DEF NotedOf
    <2> QED BY <1>4, <2>1, <2>2
  <1>11. PeriodDays(a.ref) # NoDay
    <2> DEFINE p == frame.periods[a.ref]
               start == IF p.start # NoDay THEN p.start ELSE KnownIn(frame.opDays, p.fromDay)
               end   == IF p.end # NoDay THEN p.end ELSE KnownIn(frame.opDays, p.toDay)
               holds(d) == p.bits # <<>> => d - start + 1 \in DOMAIN p.bits /\ p.bits[d - start + 1] # 0
               days == {d \in start..end : holds(d)}
    <2>1. p # NoDay /\ start # NoDay /\ end # NoDay /\ ~(end < start) /\ NoDay \notin SUBSET Nat
      BY <1>1, <1>3, <1>6, Zenon DEF PeriodsRun
    <2>2. KnownIn(frame.periods, a.ref) = p
      BY <1>6, Zenon DEF KnownIn
    <2>3. PeriodDays(a.ref) = days
      BY <2>1, <2>2, Zenon DEF PeriodDays
    <2>4. p.start \in Nat \cup {NoDay} /\ p.end \in Nat \cup {NoDay}
      BY <1>1, <1>6, Zenon DEF IsFrame
    <2>5. \A k : KnownIn(frame.opDays, k) # NoDay => KnownIn(frame.opDays, k) \in Nat
      BY <1>1, Zenon DEF IsFrame, KnownIn
    <2>6. start \in Nat /\ end \in Nat
      <3> HIDE DEF p
      <3> QED BY <2>1, <2>4, <2>5
    <2> HIDE DEF start, end, p, holds
    <2>7. days \in SUBSET Nat
      BY <2>6
    <2> HIDE DEF days, a
    <2> QED BY <2>1, <2>3, <2>7
  <1>12. AssignmentDays(a) = PeriodDays(a.ref)
    BY <1>5, <1>6, Zenon DEF AssignmentDays
  <1>13. Meaning(Sorted(list), dt) = PeriodDays(a.ref)
    <2> HIDE DEF list
    <2> QED BY <1>1, <1>3, <1>6, <1>10, <1>11, <1>12, OneMeans
  <1>14. FirstOf(dt) = i
    <2> DEFINE is(j) == j \in DOMAIN list /\ list[j].dt = dt /\ \A k \in 1..(j - 1) : list[k].dt # dt
    <2>1. \A k \in 1..(i - 1) : k \in 1..N /\ k # i
      BY <1>1, <1>3
    <2>2. \A j : is(j) <=> j = i
      <3> HIDE DEF list, N
      <3> QED BY <1>1, <1>3, <1>6, <1>10, <2>1
    <2>3. FirstOf(dt) = CHOOSE j : is(j)
      BY DEF FirstOf
    <2> HIDE DEF is
    <2> QED BY <2>2, <2>3
  <1>15. MotisReads(dt) = PeriodDays(a.ref)
    <2>1. KnownIn(frame.periods, a.ref) = frame.periods[a.ref] /\ frame.periods[a.ref] # NoDay
      BY <1>1, <1>3, <1>6, Zenon DEF KnownIn, PeriodsRun
    <2> QED BY <1>6, <1>9, <1>14, <2>1 DEF MotisReads
  <1> QED BY <1>13, <1>15

-----------------------------------------------------------------------------
(* The repairs, one after the other *)

\* What no repair changes.
Outline(r, m) ==
    /\ DOMAIN r = MemberFields
    /\ r.dayTypes = m.dayTypes /\ r.dayTypeRefs = m.dayTypeRefs /\ r.containers = m.containers
    /\ r.large = m.large /\ r.sites = m.sites

LEMMA ParentsDropped ==
    ASSUME NEW m, DOMAIN m = MemberFields
    PROVE  LET r == DropDanglingParents(m) IN
           /\ Outline(r, m) /\ r.parents = m.parents \cap m.sites
           /\ r.courses = m.courses /\ r.patterns = m.patterns /\ r.lines = m.lines
           /\ r.operators = m.operators /\ r.links = m.links
  <1> DEFINE v == m.parents \cap m.sites
             r == [m EXCEPT !.parents = v]
  <1>1. DropDanglingParents(m) = r
    BY Zenon DEF DropDanglingParents
  <1> HIDE DEF v
  <1>2. /\ Outline(r, m) /\ r.parents = v
        /\ r.courses = m.courses /\ r.patterns = m.patterns /\ r.lines = m.lines
        /\ r.operators = m.operators /\ r.links = m.links
    BY DEF MemberFields, Outline
  <1> HIDE DEF r
  <1> QED BY <1>1, <1>2 DEF v

LEMMA ConditionsCopied ==
    ASSUME NEW m, DOMAIN m = MemberFields
    PROVE  LET r == CopyConditions(m) IN
           /\ Outline(r, m) /\ r.parents = m.parents
           /\ r.courses = m.courses /\ r.patterns = m.patterns /\ r.lines = m.lines
           /\ r.operators = m.operators /\ r.links = m.links
  <1> DEFINE v == IF m.hasFrame THEN m.framed \cup m.conditions ELSE m.framed
             r == [m EXCEPT !.framed = v]
  <1>1. CopyConditions(m) = r
    BY Zenon DEF CopyConditions
  <1> HIDE DEF v
  <1>2. /\ Outline(r, m) /\ r.parents = m.parents
        /\ r.courses = m.courses /\ r.patterns = m.patterns /\ r.lines = m.lines
        /\ r.operators = m.operators /\ r.links = m.links
    BY DEF MemberFields, Outline
  <1> HIDE DEF r
  <1> QED BY <1>1, <1>2

\* Where a line is copied from.
Copied(m, homes) == IF "lines" \in m.containers THEN MissingLines(m) \cap DOMAIN homes ELSE {}
CopyOf(m, homes, l) == LineCopy(m, zip[homes[l]], l)

LEMMA LinesCopied ==
    ASSUME NEW m, DOMAIN m = MemberFields, NEW homes
    PROVE  LET r == CopyMissingLines(m, homes)
               found == Copied(m, homes) IN
           /\ Outline(r, m) /\ r.parents = m.parents /\ r.links = m.links
           /\ r.courses = m.courses /\ r.patterns = m.patterns
           /\ DOMAIN r.lines = DOMAIN m.lines \cup found
           /\ \A l \in DOMAIN r.lines : r.lines[l] = IF l \in found THEN CopyOf(m, homes, l) ELSE m.lines[l]
           /\ m.operators \subseteq r.operators
  <1> DEFINE found == Copied(m, homes)
             lines == [l \in DOMAIN m.lines \cup found |->
                          IF l \in found THEN CopyOf(m, homes, l) ELSE m.lines[l]]
             more == {CopyOf(m, homes, l).operator : l \in found} \ {Absent}
             operators == m.operators \cup more
             r == [m EXCEPT !.lines = lines, !.operators = operators]
  <1>1. CopyMissingLines(m, homes) = r
    BY Zenon DEF CopyMissingLines, Copied, CopyOf
  <1>2. /\ DOMAIN lines = DOMAIN m.lines \cup found
        /\ \A l \in DOMAIN lines : lines[l] = IF l \in found THEN CopyOf(m, homes, l) ELSE m.lines[l]
    <2> HIDE DEF found
    <2> QED OBVIOUS
  <1>3. m.operators \subseteq operators
    <2> HIDE DEF more
    <2> QED OBVIOUS
  <1> HIDE DEF lines, operators, found
  <1>4. /\ Outline(r, m) /\ r.parents = m.parents /\ r.lines = lines /\ r.operators = operators
        /\ r.courses = m.courses /\ r.patterns = m.patterns /\ r.links = m.links
    BY DEF MemberFields, Outline
  <1> HIDE DEF r
  <1> QED BY <1>1, <1>2, <1>3, <1>4, Zenon DEF found

LEMMA CopyGiven ==
    ASSUME NEW m, NEW homes, NEW l, IsMember(zip[homes[l]]), l \in DOMAIN zip[homes[l]].lines
    PROVE  CopyOf(m, homes, l).given = zip[homes[l]].lines[l].given
  <1> DEFINE home == zip[homes[l]]
             line == home.lines[l]
             taken == LineOf(home, l)
             comes == taken.withOperator /\ "organisations" \in m.containers
  <1>1. CopyOf(m, homes, l) = IF taken.line.operator \in m.operators \/ comes THEN taken.line
                              ELSE [taken.line EXCEPT !.operator = Absent]
    BY Zenon DEF CopyOf, LineCopy
  <1>2. taken.line = line
    <2> HIDE DEF line, home
    <2>1. taken.line = home.lines[l]
      BY DEF LineOf
    <2> QED BY <2>1 DEF line
  <1>3. DOMAIN line = {"operator", "given"}
    BY Zenon DEF IsMember
  <1> HIDE DEF taken, line, comes, home
  <1>4. [line EXCEPT !.operator = Absent].given = line.given
    BY <1>3
  <1>5. CopyOf(m, homes, l) = line \/ CopyOf(m, homes, l) = [line EXCEPT !.operator = Absent]
    BY <1>1, <1>2, Zenon
  <1>6. CopyOf(m, homes, l).given = line.given
    BY <1>4, <1>5, Zenon
  <1> QED BY <1>6 DEF line, home

LEMMA LineRefsAre ==
    ASSUME NEW m, NEW l
    PROVE  l \in LineRefs(m) <=>
               /\ l # Absent
               /\ \/ \E i \in DOMAIN m.courses : l = m.courses[i].line
                  \/ \E p \in DOMAIN m.patterns : l = m.patterns[p].line \/ l = m.patterns[p].route
  BY Zenon DEF LineRefs

\* Of a finite set, one of the most.
LEMMA MostOf ==
    ASSUME NEW S, S # {}, NEW votes, NEW top \in Nat, \A i \in S : votes[i] \in 0..top
    PROVE  \E i \in S : \A j \in S : votes[j] <= votes[i]
  <1> DEFINE T == {n \in Nat : \E i \in S : votes[i] = n}
  <1>1. T \in SUBSET Nat /\ T # {} /\ \A x \in T : x <= top
    OBVIOUS
  <1>2. \A i \in S : votes[i] \in T
    OBVIOUS
  <1>3. \A x \in T : \E i \in S : votes[i] = x
    OBVIOUS
  <1> HIDE DEF T
  <1>4. PICK x \in T : \A e \in T : e <= x
    BY <1>1, LastOf
  <1> QED BY <1>2, <1>3, <1>4

LEMMA PatternLineIs ==
    ASSUME NEW m, NEW N \in Nat, DOMAIN m.courses = 1..N, NEW p \in DOMAIN m.patterns, NEW own
    PROVE  PatternLine(m, p, own) \in LineRefs(m) \cup own \cup {Absent}
  <1>0. IsFiniteSet(1..N)
    <2>1. 1 \in Int /\ N \in Int
      OBVIOUS
    <2> QED BY <2>1, FS_Interval, Zenon
  <1> DEFINE named0 == {i \in DOMAIN m.courses : m.courses[i].pattern = p /\ m.courses[i].line # Absent}
             votes(i) == Cardinality({j \in named0 : m.courses[j].line = m.courses[i].line})
             IsMost(i) == /\ \A j \in named0 : votes(j) <= votes(i)
                          /\ \A j \in named0 : votes(j) = votes(i) => i <= j
             most == CHOOSE i \in named0 : IsMost(i)
             line == PatternLine(m, p, own)
  <1>1. line = IF m.patterns[p].route # Absent THEN m.patterns[p].route
               ELSE IF named0 # {} THEN m.courses[most].line
               ELSE IF Cardinality(own) = 1 THEN CHOOSE l \in own : TRUE ELSE Absent
    BY Zenon DEF PatternLine
  <1>2. CASE m.patterns[p].route # Absent
    <2>1. line = m.patterns[p].route
      BY <1>1, <1>2, Zenon
    <2> HIDE DEF line
    <2>2. line \in LineRefs(m)
      BY <1>2, <2>1, LineRefsAre
    <2> QED BY <2>2 DEF line
  <1>3. CASE m.patterns[p].route = Absent /\ named0 # {}
    <2>1. line = m.courses[most].line
      BY <1>1, <1>3, Zenon
    <2>2. most \in named0
      <3>1. named0 \in SUBSET (1..N) /\ named0 \in SUBSET Nat
        OBVIOUS
      <3>2. IsFiniteSet(named0) /\ Cardinality(named0) \in Nat
        <4> HIDE DEF named0
        <4> QED BY <1>0, <3>1, FS_Subset, FS_CardinalityType
      <3>3. \A i \in named0 : votes(i) \in 0..Cardinality(named0)
        <4> TAKE i \in named0
        <4> DEFINE same == {j \in named0 : m.courses[j].line = m.courses[i].line}
        <4>1. same \in SUBSET named0
          OBVIOUS
        <4> HIDE DEF same, named0
        <4>2. Cardinality(same) \in Nat /\ Cardinality(same) <= Cardinality(named0)
          BY <3>2, <4>1, FS_Subset, FS_CardinalityType
        <4>3. Cardinality(same) \in 0..Cardinality(named0)
          BY <3>2, <4>2
        <4> QED BY <4>3 DEF same
      <3> DEFINE count == [i \in named0 |-> votes(i)]
      <3> HIDE DEF named0, votes
      <3>4. \A i \in named0 : count[i] = votes(i)
        OBVIOUS
      <3> HIDE DEF count
      <3>5. PICK x \in named0 : \A j \in named0 : votes(j) <= votes(x)
        <4>1. \E i \in named0 : \A j \in named0 : count[j] <= count[i]
          <5> DEFINE top == Cardinality(named0)
          <5>1. named0 # {} /\ top \in Nat /\ \A i \in named0 : count[i] \in 0..top
            BY <1>3, <3>2, <3>3, <3>4
          <5> HIDE DEF top
          <5> QED BY <5>1, MostOf
        <4> QED BY <3>4, <4>1
      <3> DEFINE T == {i \in named0 : votes(i) = votes(x)}
      <3>6. T \in SUBSET Nat /\ T # {}
        BY <3>1, <3>5
      <3>7. Min(T) \in T /\ \A i \in T : Min(T) <= i
        <4> HIDE DEF T
        <4> QED BY <3>6, SmallestOf
      <3>8. IsMost(Min(T)) /\ Min(T) \in named0
        BY <3>5, <3>7
      <3> HIDE DEF IsMost, T
      <3> QED BY <3>8
    <2>3. most \in DOMAIN m.courses /\ m.courses[most].line # Absent
      <3> HIDE DEF most
      <3> QED BY <2>2
    <2> HIDE DEF line, most
    <2>4. line \in LineRefs(m)
      BY <2>1, <2>3, LineRefsAre
    <2> QED BY <2>4 DEF line
  <1>4. CASE m.patterns[p].route = Absent /\ named0 = {}
    <2>1. line = IF Cardinality(own) = 1 THEN CHOOSE l \in own : TRUE ELSE Absent
      BY <1>1, <1>4, Zenon
    <2> HIDE DEF line
    <2>2. Cardinality(own) = 1 => own # {}
      BY FS_EmptySet
    <2>3. line \in own \/ line = Absent
      BY <2>1, <2>2
    <2> QED BY <2>3 DEF line
  <1> QED BY <1>2, <1>3, <1>4

\* The elements of a set of numbers, the lower first.
Upward(S) == Ordered(S, {p \in S \X S : p[1] < p[2]})

LEMMA IncreasingIs ==
    ASSUME NEW S \in SUBSET Nat, NEW n \in Nat, NEW f,
           \A k \in 1..n : f[k] \in S,
           \A x \in S : \E k \in 1..n : f[k] = x,
           \A i, j \in 1..n : i < j => f[i] < f[j]
    PROVE  /\ Cardinality(S) = n
           /\ \A k \in 1..n : Upward(S)[k] = f[k]
  <1> DEFINE lower == {p \in S \X S : p[1] < p[2]}
             g == [k \in 1..n |-> f[k]]
             at == Ordered(S, lower)
  <1>1. \A x, y \in S : <<x, y>> \in lower <=> x < y
    OBVIOUS
  <1>2. Orders(lower, S)
    <2> HIDE DEF lower
    <2>1. \A x \in S : x \in Nat
      OBVIOUS
    <2> QED BY <1>1, <2>1 DEF Orders
  <1>3. \A i, j \in 1..n : f[i] = f[j] => i = j
    <2> SUFFICES ASSUME NEW i \in 1..n, NEW j \in 1..n, i # j PROVE f[i] # f[j]
      OBVIOUS
    <2>1. f[i] \in Nat /\ f[j] \in Nat
      OBVIOUS
    <2>2. i < j \/ j < i
      OBVIOUS
    <2> QED BY <2>1, <2>2
  <1>4. IsFiniteSet(1..n) /\ Cardinality(1..n) = n
    <2>1. 1 \in Int /\ n \in Int
      OBVIOUS
    <2>2. IsFiniteSet(1..n) /\ Cardinality(1..n) = IF 1 > n THEN 0 ELSE n - 1 + 1
      BY <2>1, FS_Interval, Zenon
    <2> QED BY <2>2
  <1>5. IsFiniteSet(S) /\ Cardinality(S) = n
    <2>1. g \in [1..n -> S]
      OBVIOUS
    <2>2. \A k \in 1..n : g[k] = f[k]
      OBVIOUS
    <2> HIDE DEF g
    <2>3. g \in Surjection(1..n, S)
      BY <2>1, <2>2, Zenon DEF Surjection
    <2>4. g \in Injection(1..n, S)
      BY <1>3, <2>1, <2>2, Zenon DEF Injection, IsInjective
    <2> QED BY <1>4, <2>3, <2>4, FS_Surjection
  <1> HIDE DEF lower
  <1>6. /\ \A k \in 1..n : at[k] \in S
        /\ \A x \in S : \E k \in 1..n : at[k] = x
        /\ \A i, j \in 1..n : i < j => at[i] < at[j]
    <2>1. Lists(at, S, lower)
      BY <1>2, <1>5, OrderedLists
    <2> HIDE DEF at
    <2>2. /\ \A k \in 1..n : at[k] \in S
          /\ \A x \in S : \E k \in 1..n : at[k] = x
          /\ \A i, j \in 1..n : i < j => <<at[i], at[j]>> \in lower
      BY <1>5, <2>1, Zenon DEF Lists
    <2> QED BY <1>1, <2>2
  <1> HIDE DEF at
  <1>7. \A k \in 1..n : at[k] = f[k]
    <2> DEFINE T == {k \in 1..n : at[k] # f[k]}
    <2> SUFFICES ASSUME T # {} PROVE FALSE
      OBVIOUS
    <2>1. Min(T) \in T /\ \A k \in T : Min(T) <= k
      <3>1. T \in SUBSET Nat
        OBVIOUS
      <3> HIDE DEF T
      <3> QED BY <3>1, SmallestOf
    <2>2. PICK k \in T : \A j \in T : k <= j
      BY <2>1
    <2>3. k \in 1..n /\ at[k] # f[k] /\ \A j \in 1..n : j < k => at[j] = f[j]
      <3>1. k \in 1..n /\ at[k] # f[k]
        OBVIOUS
      <3>2. ASSUME NEW j \in 1..n, j < k PROVE at[j] = f[j]
        <4>1. ~(k <= j)
          BY <3>1, <3>2
        <4> QED BY <2>2, <4>1
      <3> QED BY <3>1, <3>2
    <2> HIDE DEF T
    <2>4. at[k] \in Nat /\ f[k] \in Nat
      BY <1>6, <2>3
    <2>5. CASE at[k] < f[k]
      <3>1. PICK j \in 1..n : f[j] = at[k]
        BY <1>6, <2>3
      <3>2. ~(k < j) /\ j # k
        BY <2>3, <2>4, <2>5, <3>1
      <3>3. j < k
        BY <2>3, <3>2
      <3>4. at[j] = at[k] /\ at[j] < at[k]
        BY <1>6, <2>3, <3>1, <3>3
      <3> QED BY <2>4, <3>4
    <2>6. CASE f[k] < at[k]
      <3>1. PICK j \in 1..n : at[j] = f[k]
        BY <1>6, <2>3
      <3>2. ~(k < j) /\ j # k
        BY <1>6, <2>3, <2>4, <2>6, <3>1
      <3>3. j < k
        BY <2>3, <3>2
      <3>4. f[j] = f[k] /\ f[j] < f[k]
        BY <2>3, <3>1, <3>3
      <3> QED BY <2>4, <3>4
    <2> QED BY <2>3, <2>4, <2>5, <2>6
  <1>8. at = Upward(S)
    BY Zenon DEF Upward, at, lower
  <1> QED BY <1>5, <1>7, <1>8

\* What rises at every step rises.
LEMMA Rising ==
    ASSUME NEW n \in Nat, NEW f, \A i \in 1..n : f[i] \in Nat,
           \A i \in 1..(n - 1) : f[i] < f[i + 1]
    PROVE  \A i, j \in 1..n : i < j => f[i] < f[j]
  <1> SUFFICES ASSUME NEW i \in 1..n PROVE \A j \in 1..n : i < j => f[i] < f[j]
    OBVIOUS
  <1> DEFINE T == {j \in 1..n : i < j /\ ~(f[i] < f[j])}
  <1> SUFFICES ASSUME T # {} PROVE FALSE
    OBVIOUS
  <1>1. Min(T) \in T /\ \A k \in T : Min(T) <= k
    <2>1. T \in SUBSET Nat
      OBVIOUS
    <2> HIDE DEF T
    <2> QED BY <2>1, SmallestOf
  <1>2. PICK j \in T : \A k \in T : j <= k
    BY <1>1
  <1>3. j \in 1..n /\ i < j /\ ~(f[i] < f[j])
    OBVIOUS
  <1>4. j - 1 \in 1..n /\ j - 1 \in 1..(n - 1) /\ (j - 1) + 1 = j /\ ~(j <= j - 1)
    BY <1>3
  <1>5. f[j - 1] < f[j] /\ f[j - 1] \in Nat /\ f[j] \in Nat /\ f[i] \in Nat
    <2>1. f[j - 1] < f[(j - 1) + 1]
      BY <1>4
    <2> QED BY <1>3, <1>4, <2>1
  <1>6. j - 1 \notin T
    BY <1>2, <1>4
  <1>7. ~(i < j - 1) \/ f[i] < f[j - 1]
    BY <1>4, <1>6
  <1> HIDE DEF T
  <1>8. CASE i < j - 1
    BY <1>3, <1>5, <1>7, <1>8
  <1>9. CASE ~(i < j - 1)
    <2>1. i = j - 1
      BY <1>3, <1>9
    <2> QED BY <1>3, <1>5, <2>1
  <1> QED BY <1>8, <1>9

\* The pattern derived for a course is timed where the course is.
LEMMA DerivedIs ==
    ASSUME NEW whole, IsPattern(whole), NEW refs, IsList(refs), Readable(refs, whole.points)
    PROVE  LET r == Derived(whole, refs) IN
           r.points = refs /\ r.line = whole.line /\ r.route = whole.route
  <1> DEFINE points == whole.points
             timed == {n \in DOMAIN points : points[n] \in Range(refs)}
             at == Upward(timed)
             left == [n \in 1..Cardinality(timed) |-> points[at[n]]]
             N == Len(refs)
  <1>1. /\ points \in Seq(Range(points)) /\ \A i, j \in DOMAIN points : points[i] = points[j] => i = j
        /\ DOMAIN whole = {"points", "line", "route"}
    BY Zenon DEF IsPattern, IsList
  <1>2. DOMAIN points = 1..Len(points) /\ Len(points) \in Nat
    <2> HIDE DEF points
    <2> QED BY <1>1, LenProperties
  <1>3. N \in Nat /\ DOMAIN refs = 1..N /\ refs \in [1..N -> Range(refs)]
    <2>1. refs \in Seq(Range(refs))
      BY DEF IsList
    <2> QED BY <2>1, LenProperties
  <1>4. PICK f \in [1..N -> DOMAIN points] :
            /\ \A i \in DOMAIN refs : points[f[i]] = refs[i]
            /\ \A i \in 1..(N - 1) : f[i] < f[i + 1]
    BY Zenon DEF Readable, IsSubsequence
  <1>5. Derived(whole, refs) = [whole EXCEPT !.points = left]
    BY Zenon DEF Derived, Upward
  <1> HIDE DEF points
  <1>6. timed \in SUBSET Nat
    BY <1>2
  <1>7. \A k \in 1..N : f[k] \in timed
    <2>1. \A k \in 1..N : f[k] \in DOMAIN points /\ points[f[k]] = refs[k] /\ refs[k] \in Range(refs)
      BY <1>3, <1>4 DEF Range
    <2> QED BY <2>1
  <1>8. ASSUME NEW x \in timed PROVE \E k \in 1..N : f[k] = x
    <2>1. PICK k \in 1..N : refs[k] = points[x]
      <3>1. points[x] \in Range(refs)
        OBVIOUS
      <3> QED BY <1>3, <3>1 DEF Range
    <2>2. f[k] \in DOMAIN points /\ points[f[k]] = points[x] /\ x \in DOMAIN points
      BY <1>3, <1>4, <2>1
    <2> QED BY <1>1, <2>2
  <1>9. \A i, j \in 1..N : i < j => f[i] < f[j]
    <2>1. \A i \in 1..N : f[i] \in Nat
      BY <1>2, <1>4
    <2> HIDE DEF N
    <2> QED BY <1>3, <1>4, <2>1, Rising
  <1> HIDE DEF timed, N
  <1>10. Cardinality(timed) = N /\ \A k \in 1..N : at[k] = f[k]
    BY <1>3, <1>6, <1>7, <1>8, <1>9, IncreasingIs
  <1> HIDE DEF at
  <1>11. left = [n \in 1..N |-> refs[n]]
    BY <1>3, <1>4, <1>10
  <1>12. left = refs
    <2> HIDE DEF left
    <2> QED BY <1>3, <1>11
  <1> HIDE DEF left
  <1>13. /\ [whole EXCEPT !.points = left].points = left
         /\ [whole EXCEPT !.points = left].line = whole.line
         /\ [whole EXCEPT !.points = left].route = whole.route
    BY <1>1
  <1> QED BY <1>5, <1>12, <1>13, Zenon

LEMMA VerdictIs ==
    ASSUME NEW m, NEW c
    PROVE  LET v == CourseVerdict(m, c)
               points == m.patterns[c.pattern].points
               listed == c.pattern \in DOMAIN m.patterns
               paired == c.refs = points /\ Len(c.refs) >= 2 IN
           /\ v = "alone" <=> ~listed \/ paired
           /\ v = "refit" <=> listed /\ ~paired /\ Readable(c.refs, points)
           /\ v = "drop" <=> listed /\ ~paired /\ ~Readable(c.refs, points)
  <1> DEFINE v == CourseVerdict(m, c)
             points == m.patterns[c.pattern].points
             listed == c.pattern \in DOMAIN m.patterns
             paired == c.refs = points /\ Len(c.refs) >= 2
  <1>1. CASE ~listed
    <2>1. v = "alone"
      BY <1>1, Zenon DEF CourseVerdict
    <2> HIDE DEF v
    <2>2. /\ v = "alone" /\ v # "refit" /\ v # "drop"
      BY <2>1
    <2> QED BY <1>1, <2>2 DEF v
  <1>2. CASE listed
    <2>1. v = IF paired THEN "alone" ELSE IF Readable(c.refs, points) THEN "refit" ELSE "drop"
      BY <1>2, Zenon DEF CourseVerdict
    <2> HIDE DEF v, points, paired
    <2>2. /\ v = "alone" <=> paired
          /\ v = "refit" <=> ~paired /\ Readable(c.refs, points)
          /\ v = "drop" <=> ~paired /\ ~Readable(c.refs, points)
      BY <2>1
    <2> QED BY <1>2, <2>2 DEF v, points, paired
  <1> QED BY <1>1, <1>2

\* Course k is refitted, and of pattern p.
Refits(m, p, k) == m.courses[k].pattern = p /\ CourseVerdict(m, m.courses[k]) = "refit"

\* The kinds of them among the first x courses.
KindsTo(m, p, x) == {m.courses[k].refs : k \in {k \in 1..x : Refits(m, p, k)}}

\* Course x is the first of its pattern with its points.
Earliest(m, p, refs, x) ==
    /\ m.courses[x].pattern = p /\ m.courses[x].refs = refs
    /\ \A k \in 1..(x - 1) : ~(m.courses[k].pattern = p /\ m.courses[k].refs = refs)

FirstOfKind(m, p, refs, i) == CHOOSE j \in 1..i : Earliest(m, p, refs, j)

LEMMA KindsAre ==
    ASSUME NEW m, NEW p, NEW x, NEW r
    PROVE  r \in KindsTo(m, p, x) <=> \E k \in 1..x : Refits(m, p, k) /\ m.courses[k].refs = r
  BY Zenon DEF KindsTo

LEMMA SameVerdict ==
    ASSUME NEW m, NEW p, NEW j, NEW k, m.courses[j].pattern = p, m.courses[k].pattern = p,
           m.courses[j].refs = m.courses[k].refs
    PROVE  Refits(m, p, j) <=> Refits(m, p, k)
  <1> DEFINE c == m.courses[j]
             d == m.courses[k]
  <1>1. CourseVerdict(m, c) = "refit" <=>
           /\ c.pattern \in DOMAIN m.patterns
           /\ ~(c.refs = m.patterns[c.pattern].points /\ Len(c.refs) >= 2)
           /\ Readable(c.refs, m.patterns[c.pattern].points)
    <2> HIDE DEF c
    <2> QED BY VerdictIs
  <1>2. CourseVerdict(m, d) = "refit" <=>
           /\ d.pattern \in DOMAIN m.patterns
           /\ ~(d.refs = m.patterns[d.pattern].points /\ Len(d.refs) >= 2)
           /\ Readable(d.refs, m.patterns[d.pattern].points)
    <2> HIDE DEF d
    <2> QED BY VerdictIs
  <1>3. c.pattern = d.pattern /\ c.refs = d.refs
    OBVIOUS
  <1> HIDE DEF c, d
  <1>4. CourseVerdict(m, c) = "refit" <=> CourseVerdict(m, d) = "refit"
    BY <1>1, <1>2, <1>3
  <1> QED BY <1>4 DEF Refits, c, d

LEMMA FirstOfKindIs ==
    ASSUME NEW m, NEW p, NEW refs, NEW i \in Nat, NEW k \in 1..i,
           m.courses[k].pattern = p, m.courses[k].refs = refs
    PROVE  LET x == FirstOfKind(m, p, refs, i) IN x \in 1..i /\ x <= k /\ Earliest(m, p, refs, x)
  <1> DEFINE x == FirstOfKind(m, p, refs, i)
             T == {j \in 1..i : m.courses[j].pattern = p /\ m.courses[j].refs = refs}
  <1>1. T \in SUBSET Nat /\ T # {}
    OBVIOUS
  <1>2. Min(T) \in T /\ \A j \in T : Min(T) <= j
    <2> HIDE DEF T
    <2> QED BY <1>1, SmallestOf
  <1>3. PICK y \in T : \A j \in T : y <= j
    BY <1>2
  <1>4. y \in 1..i /\ Earliest(m, p, refs, y)
    <2>1. y \in 1..i /\ m.courses[y].pattern = p /\ m.courses[y].refs = refs
      OBVIOUS
    <2>2. ASSUME NEW j \in 1..(y - 1), m.courses[j].pattern = p, m.courses[j].refs = refs PROVE FALSE
      <3>1. j \in 1..i /\ ~(y <= j)
        BY <2>1
      <3>2. j \in T
        BY <2>2, <3>1
      <3> QED BY <1>3, <3>1, <3>2
    <2> QED BY <2>1, <2>2 DEF Earliest
  <1>5. x \in 1..i /\ Earliest(m, p, refs, x)
    BY <1>4, Zenon DEF FirstOfKind
  <1> HIDE DEF x
  <1>6. x <= k
    <2>1. ~(k \in 1..(x - 1))
      BY <1>5, Zenon DEF Earliest
    <2> QED BY <1>5, <2>1
  <1> QED BY <1>5, <1>6 DEF x

LEMMA DerivedIdSays ==
    ASSUME NEW m, NEW i
    PROVE  LET p == m.courses[i].pattern
               first(r) == FirstOfKind(m, p, r, i) IN
           DerivedId(m, i) =
               <<p[1], Cardinality({r \in KindsTo(m, p, i) : first(r) <= first(m.courses[i].refs)})>>
  BY Zenon DEF DerivedId, FirstOfKind, Earliest, KindsTo, Refits

LEMMA PairsSame ==
    ASSUME NEW a, NEW b, NEW c, NEW d, <<a, b>> = <<c, d>>
    PROVE  a = c /\ b = d
  OBVIOUS

\* The number in a derived id counts the kinds up to the first course of its kind.
LEMMA DerivedIdIs ==
    ASSUME NEW m, NEW i \in Nat \ {0}, NEW q, Refits(m, q, i)
    PROVE  \E x \in 1..i : /\ Earliest(m, q, m.courses[i].refs, x) /\ Refits(m, q, x)
                           /\ DerivedId(m, i) = <<q[1], Cardinality(KindsTo(m, q, x))>>
  <1> DEFINE p == m.courses[i].pattern
             refs == m.courses[i].refs
             First(r) == FirstOfKind(m, p, r, i)
             x == First(refs)
             upTo == {r \in KindsTo(m, p, i) : First(r) <= x}
  <1>0. p = q /\ Refits(m, p, i)
    BY DEF Refits
  <1>1. DerivedId(m, i) = <<p[1], Cardinality(upTo)>>
    BY DerivedIdSays, Zenon
  <1>2. x \in 1..i /\ Earliest(m, p, refs, x)
    BY <1>0, FirstOfKindIs
  <1>3. ASSUME NEW r PROVE r \in upTo <=> r \in KindsTo(m, p, x)
    <2>1. ASSUME r \in upTo PROVE r \in KindsTo(m, p, x)
      <3>1. r \in KindsTo(m, p, i) /\ First(r) <= x
        BY <2>1
      <3>2. PICK k \in 1..i : Refits(m, p, k) /\ m.courses[k].refs = r
        BY <3>1, KindsAre
      <3>3. First(r) \in 1..i /\ Earliest(m, p, r, First(r))
        BY <3>2, FirstOfKindIs DEF Refits
      <3> HIDE DEF First
      <3>4. m.courses[First(r)].pattern = p /\ m.courses[First(r)].refs = r
        BY <3>3 DEF Earliest
      <3>5. Refits(m, p, First(r))
        BY <3>2, <3>4, SameVerdict DEF Refits
      <3>6. First(r) \in 1..x
        BY <1>2, <3>1, <3>3
      <3> QED BY <3>4, <3>5, <3>6, KindsAre
    <2>2. ASSUME r \in KindsTo(m, p, x) PROVE r \in upTo
      <3>1. PICK k \in 1..x : Refits(m, p, k) /\ m.courses[k].refs = r
        BY <2>2, KindsAre
      <3>2. k \in 1..i
        BY <1>2
      <3>3. r \in KindsTo(m, p, i)
        BY <3>1, <3>2, KindsAre
      <3>4. First(r) \in 1..i /\ First(r) <= k
        BY <3>1, <3>2, FirstOfKindIs DEF Refits
      <3> HIDE DEF First
      <3>5. First(r) <= x
        BY <1>2, <3>4
      <3> QED BY <3>3, <3>5
    <2> QED BY <2>1, <2>2
  <1>4. upTo = KindsTo(m, p, x)
    <2> HIDE DEF upTo
    <2> QED BY <1>3
  <1>5. Refits(m, p, x)
    <2>1. m.courses[x].pattern = p /\ m.courses[x].refs = refs
      BY <1>2 DEF Earliest
    <2> QED BY <1>0, <2>1, SameVerdict
  <1> HIDE DEF p, x, upTo
  <1> QED BY <1>0, <1>1, <1>2, <1>4, <1>5, Zenon

LEMMA KindsAreFinite ==
    ASSUME NEW m, NEW p, NEW x \in Nat
    PROVE  IsFiniteSet(KindsTo(m, p, x)) /\ Cardinality(KindsTo(m, p, x)) \in Nat
  <1> DEFINE K == {k \in 1..x : Refits(m, p, k)}
             g == [k \in K |-> m.courses[k].refs]
             V == KindsTo(m, p, x)
  <1>1. IsFiniteSet(K)
    <2>1. 1 \in Int /\ x \in Int /\ K \in SUBSET (1..x)
      OBVIOUS
    <2>2. IsFiniteSet(1..x)
      BY <2>1, FS_Interval, Zenon
    <2> HIDE DEF K
    <2> QED BY <2>1, <2>2, FS_Subset
  <1>2. \A k \in K : g[k] = m.courses[k].refs /\ g[k] \in V
    BY KindsAre
  <1>3. \A r \in V : \E k \in K : g[k] = r
    BY KindsAre
  <1>4. g \in [K -> V]
    <2> HIDE DEF K, V
    <2> QED BY <1>2
  <1> HIDE DEF K, V, g
  <1>5. g \in Surjection(K, V)
    BY <1>3, <1>4, Zenon DEF Surjection
  <1>6. IsFiniteSet(V)
    BY <1>1, <1>5, FS_Surjection
  <1> QED BY <1>6, FS_CardinalityType DEF V

\* Equal ids are of one pattern and one kind, and none is a published one.
LEMMA DerivedSame ==
    ASSUME NEW m, NEW N \in Nat, NEW i \in 1..N, NEW j \in 1..N, NEW p, NEW q,
           Refits(m, p, i), Refits(m, q, j), p = <<p[1], 0>>, q = <<q[1], 0>>,
           DerivedId(m, i) = DerivedId(m, j)
    PROVE  p = q /\ m.courses[i].refs = m.courses[j].refs
  <1>1. PICK x \in 1..i : /\ Earliest(m, p, m.courses[i].refs, x) /\ Refits(m, p, x)
                          /\ DerivedId(m, i) = <<p[1], Cardinality(KindsTo(m, p, x))>>
    BY DerivedIdIs
  <1>2. PICK y \in 1..j : /\ Earliest(m, q, m.courses[j].refs, y) /\ Refits(m, q, y)
                          /\ DerivedId(m, j) = <<q[1], Cardinality(KindsTo(m, q, y))>>
    BY DerivedIdIs
  <1>3. p[1] = q[1] /\ Cardinality(KindsTo(m, p, x)) = Cardinality(KindsTo(m, q, y))
    <2> DEFINE a == p[1]
               b == Cardinality(KindsTo(m, p, x))
               c == q[1]
               d == Cardinality(KindsTo(m, q, y))
    <2>1. DerivedId(m, i) = <<a, b>> /\ DerivedId(m, j) = <<c, d>>
      BY <1>1, <1>2
    <2> HIDE DEF a, b, c, d
    <2>2. <<a, b>> = <<c, d>>
      BY <2>1
    <2>3. a = c /\ b = d
      BY <2>2, PairsSame, Zenon
    <2> QED BY <2>3 DEF a, b, c, d
  <1>4. p = q
    BY <1>3, Zenon
  <1>5. Cardinality(KindsTo(m, p, x)) = Cardinality(KindsTo(m, p, y))
    BY <1>3, <1>4
  <1>6. ASSUME NEW a \in 1..N, NEW b \in 1..N, a < b,
               Refits(m, p, b), Earliest(m, p, m.courses[b].refs, b),
               Cardinality(KindsTo(m, p, a)) = Cardinality(KindsTo(m, p, b))
        PROVE  FALSE
    <2> DEFINE A == KindsTo(m, p, a)
               B == KindsTo(m, p, b)
    <2>1. A \in SUBSET B
      <3>1. ASSUME NEW r \in A PROVE r \in B
        <4>1. PICK k \in 1..a : Refits(m, p, k) /\ m.courses[k].refs = r
          BY KindsAre
        <4>2. k \in 1..b
          BY <1>6
        <4> QED BY <4>1, <4>2, KindsAre
      <3> HIDE DEF A, B
      <3> QED BY <3>1
    <2>2. IsFiniteSet(B)
      BY KindsAreFinite
    <2>3. m.courses[b].refs \in B
      <3>1. b \in 1..b
        OBVIOUS
      <3> QED BY <1>6, <3>1, KindsAre
    <2>4. m.courses[b].refs \notin A
      <3> SUFFICES ASSUME m.courses[b].refs \in A PROVE FALSE
        OBVIOUS
      <3>1. PICK k \in 1..a : Refits(m, p, k) /\ m.courses[k].refs = m.courses[b].refs
        BY KindsAre
      <3>2. k \in 1..(b - 1)
        BY <1>6
      <3> QED BY <1>6, <3>1, <3>2 DEF Earliest, Refits
    <2> HIDE DEF A, B
    <2>5. A = B
      BY <1>6, <2>1, <2>2, FS_Subset DEF A, B
    <2> QED BY <2>3, <2>4, <2>5
  <1>7. x \in 1..N /\ y \in 1..N
    OBVIOUS
  <1>8. m.courses[x].refs = m.courses[i].refs /\ m.courses[y].refs = m.courses[j].refs
    BY <1>1, <1>2 DEF Earliest
  <1>9. Earliest(m, p, m.courses[x].refs, x) /\ Earliest(m, p, m.courses[y].refs, y)
    BY <1>1, <1>2, <1>4, <1>8
  <1>10. ~(x < y)
    BY <1>2, <1>4, <1>5, <1>6, <1>7, <1>9
  <1>11. ~(y < x)
    BY <1>1, <1>5, <1>6, <1>7, <1>9
  <1>12. x = y
    BY <1>10, <1>11
  <1> QED BY <1>4, <1>8, <1>12

LEMMA DerivedIsNew ==
    ASSUME NEW m, NEW i \in Nat \ {0}, NEW p, Refits(m, p, i)
    PROVE  \A q : q = <<q[1], 0>> => DerivedId(m, i) # q
  <1>1. PICK x \in 1..i : /\ Earliest(m, p, m.courses[i].refs, x) /\ Refits(m, p, x)
                          /\ DerivedId(m, i) = <<p[1], Cardinality(KindsTo(m, p, x))>>
    BY DerivedIdIs
  <1>2. x \in 1..x /\ x \in Nat
    OBVIOUS
  <1>3. m.courses[x].refs \in KindsTo(m, p, x)
    BY <1>1, <1>2, KindsAre
  <1>4. Cardinality(KindsTo(m, p, x)) # 0
    BY <1>2, <1>3, KindsAreFinite, FS_EmptySet
  <1> QED BY <1>1, <1>4

LEMMA PatternsGiven ==
    ASSUME NEW m, DOMAIN m = MemberFields, NEW N \in Nat, DOMAIN m.courses = 1..N,
           \A p \in DOMAIN m.patterns : IsPattern(m.patterns[p]), NEW own
    PROVE  LET r == GivePatternsTheirLine(m, own) IN
           /\ Outline(r, m) /\ r.parents = m.parents /\ r.courses = m.courses /\ r.lines = m.lines
           /\ r.operators = m.operators /\ r.links = m.links
           /\ DOMAIN r.patterns = DOMAIN m.patterns
           /\ \A p \in DOMAIN m.patterns : /\ IsPattern(r.patterns[p])
                                           /\ r.patterns[p].points = m.patterns[p].points
           /\ LineRefs(r) \subseteq LineRefs(m) \cup own
  <1> DEFINE given(p) == IF m.patterns[p].line # Absent THEN m.patterns[p]
                         ELSE [m.patterns[p] EXCEPT !.line = PatternLine(m, p, own)]
             patterns == [p \in DOMAIN m.patterns |-> given(p)]
             r == [m EXCEPT !.patterns = patterns]
  <1>1. GivePatternsTheirLine(m, own) = r
    BY Zenon DEF GivePatternsTheirLine
  <1>2. DOMAIN patterns = DOMAIN m.patterns /\ \A p \in DOMAIN m.patterns : patterns[p] = given(p)
    <2> HIDE DEF given
    <2> QED OBVIOUS
  <1>3. ASSUME NEW p \in DOMAIN m.patterns
        PROVE  /\ IsPattern(given(p)) /\ given(p).points = m.patterns[p].points
               /\ given(p).route = m.patterns[p].route
               /\ given(p).line = m.patterns[p].line \/ given(p).line \in LineRefs(m) \cup own \cup {Absent}
    <2> DEFINE was == m.patterns[p]
               v == PatternLine(m, p, own)
               q == [was EXCEPT !.line = v]
    <2>1. v \in LineRefs(m) \cup own \cup {Absent}
      BY PatternLineIs
    <2>2. /\ DOMAIN was = {"points", "line", "route"} /\ IsList(was.points)
          /\ \A i, j \in DOMAIN was.points : was.points[i] = was.points[j] => i = j
      BY Zenon DEF IsPattern
    <2>3. given(p) = IF was.line # Absent THEN was ELSE q
      OBVIOUS
    <2> HIDE DEF was, v, given
    <2>4. /\ DOMAIN q = {"points", "line", "route"} /\ q.points = was.points /\ q.line = v
          /\ q.route = was.route
      BY <2>2
    <2> HIDE DEF q
    <2>5. IsPattern(q)
      BY <2>2, <2>4, Zenon DEF IsPattern
    <2>6. IsPattern(was)
      BY DEF was
    <2>7. /\ IsPattern(given(p)) /\ given(p).points = was.points /\ given(p).route = was.route
          /\ given(p).line = was.line \/ given(p).line = v
      BY <2>3, <2>4, <2>5, <2>6, Zenon
    <2> QED BY <2>1, <2>7 DEF was
  <1> HIDE DEF given, patterns
  <1>4. /\ Outline(r, m) /\ r.parents = m.parents /\ r.courses = m.courses
        /\ r.lines = m.lines /\ r.operators = m.operators /\ r.links = m.links
        /\ r.patterns = patterns
    BY DEF MemberFields, Outline
  <1> HIDE DEF r
  <1>5. ASSUME NEW l \in LineRefs(r) PROVE l \in LineRefs(m) \cup own
    <2>1. /\ l # Absent
          /\ \/ \E i \in DOMAIN m.courses : l = m.courses[i].line
             \/ \E p \in DOMAIN m.patterns : l = patterns[p].line \/ l = patterns[p].route
      BY <1>2, <1>4, LineRefsAre
    <2>2. CASE \E i \in DOMAIN m.courses : l = m.courses[i].line
      BY <2>1, <2>2, LineRefsAre
    <2>3. CASE \E p \in DOMAIN m.patterns : l = patterns[p].line \/ l = patterns[p].route
      <3>1. PICK p \in DOMAIN m.patterns : l = patterns[p].line \/ l = patterns[p].route
        BY <2>3
      <3>2. \/ l = m.patterns[p].line \/ l = m.patterns[p].route
            \/ l \in LineRefs(m) \cup own \cup {Absent}
        BY <1>2, <1>3, <3>1
      <3> QED BY <2>1, <3>2, LineRefsAre
    <2> QED BY <2>1, <2>2, <2>3
  <1>6. LineRefs(r) \subseteq LineRefs(m) \cup own
    BY <1>5
  <1>7. \A p \in DOMAIN m.patterns : /\ IsPattern(r.patterns[p])
                                     /\ r.patterns[p].points = m.patterns[p].points
    BY <1>2, <1>3, <1>4, Zenon
  <1>8. DOMAIN r.patterns = DOMAIN m.patterns
    BY <1>2, <1>4
  <1> QED BY <1>1, <1>4, <1>6, <1>7, <1>8, Zenon

LEMMA OperatorsGiven ==
    ASSUME NEW m, DOMAIN m = MemberFields,
           \A l \in DOMAIN m.lines : "given" \in DOMAIN m.lines[l], NEW reachable, NEW only
    PROVE  LET r == GiveLinesTheirOperator(m, reachable, only) IN
           /\ Outline(r, m) /\ r.parents = m.parents /\ r.courses = m.courses
           /\ r.patterns = m.patterns /\ r.operators = m.operators /\ r.links = m.links
           /\ DOMAIN r.lines = DOMAIN m.lines
           /\ \A l \in DOMAIN m.lines : \/ r.lines[l].given = m.lines[l].given
                                        \/ r.lines[l].given \in reachable
  <1> DEFINE wants(l) == IF m.lines[l].operator # Absent THEN m.lines[l].operator ELSE only
             led(l) == IF m.lines[l].given = Absent /\ wants(l) \in reachable
                       THEN [m.lines[l] EXCEPT !.given = wants(l)] ELSE m.lines[l]
             lines == [l \in DOMAIN m.lines |-> led(l)]
             r == [m EXCEPT !.lines = lines]
  <1>1. GiveLinesTheirOperator(m, reachable, only) = r
    BY Zenon DEF GiveLinesTheirOperator
  <1>2. DOMAIN lines = DOMAIN m.lines /\ \A l \in DOMAIN m.lines : lines[l] = led(l)
    <2> HIDE DEF led
    <2> QED OBVIOUS
  <1>3. ASSUME NEW l \in DOMAIN m.lines
        PROVE  led(l).given = m.lines[l].given \/ led(l).given \in reachable
    <2> DEFINE was == m.lines[l]
               v == wants(l)
               q == [was EXCEPT !.given = v]
    <2>1. "given" \in DOMAIN was
      OBVIOUS
    <2>2. led(l) = IF was.given = Absent /\ v \in reachable THEN q ELSE was
      OBVIOUS
    <2> HIDE DEF was, v, led
    <2>3. q.given = v
      BY <2>1
    <2> HIDE DEF q
    <2>4. led(l).given = was.given \/ led(l).given \in reachable
      BY <2>2, <2>3
    <2> QED BY <2>4 DEF was
  <1> HIDE DEF led, lines
  <1>4. /\ Outline(r, m) /\ r.parents = m.parents /\ r.courses = m.courses
        /\ r.lines = lines /\ r.operators = m.operators /\ r.links = m.links
        /\ r.patterns = m.patterns
    BY DEF MemberFields, Outline
  <1> HIDE DEF r
  <1>5. /\ DOMAIN r.lines = DOMAIN m.lines
        /\ \A l \in DOMAIN m.lines : r.lines[l].given = m.lines[l].given \/ r.lines[l].given \in reachable
    BY <1>2, <1>3, <1>4, Zenon
  <1> QED BY <1>1, <1>4, <1>5, Zenon

\* What the pass over the courses makes of them.
Refitted(m) == {i \in DOMAIN m.courses : CourseVerdict(m, m.courses[i]) = "refit"}
DroppedBy(m) == {i \in DOMAIN m.courses : CourseVerdict(m, m.courses[i]) = "drop"}
CourseLeft(m, i) ==
    IF CourseVerdict(m, m.courses[i]) = "refit" THEN [m.courses[i] EXCEPT !.pattern = DerivedId(m, i)]
    ELSE m.courses[i]
SourceOf(m, d) == CHOOSE i \in Refitted(m) : DerivedId(m, i) = d
DerivedIds(m) == {DerivedId(m, i) : i \in Refitted(m)}
PatternLeft(m, p) ==
    IF p \in DerivedIds(m)
    THEN Derived(m.patterns[m.courses[SourceOf(m, p)].pattern], m.courses[SourceOf(m, p)].refs)
    ELSE m.patterns[p]

LEMMA RefitMakes ==
    ASSUME NEW m, DOMAIN m = MemberFields
    PROVE  LET r == RefitCourses(m) IN
           /\ Outline(r, m) /\ r.parents = m.parents /\ r.lines = m.lines /\ r.operators = m.operators
           /\ DOMAIN r.courses = (DOMAIN m.courses) \ DroppedBy(m)
           /\ \A i \in DOMAIN r.courses : r.courses[i] = CourseLeft(m, i)
           /\ DOMAIN r.patterns = DOMAIN m.patterns \cup DerivedIds(m)
           /\ \A p \in DOMAIN r.patterns : r.patterns[p] = PatternLeft(m, p)
           /\ \A x \in r.links : \A i \in DroppedBy(m) : m.courses[i].id \notin x
  <1> DEFINE D == DOMAIN m.courses
             verdict == [i \in D |-> CourseVerdict(m, m.courses[i])]
             refitted == {i \in D : verdict[i] = "refit"}
             gone == {i \in D : verdict[i] = "drop"}
             derived == {DerivedId(m, i) : i \in refitted}
             kept == [i \in D \ gone |->
                        IF verdict[i] = "refit" THEN [m.courses[i] EXCEPT !.pattern = DerivedId(m, i)]
                        ELSE m.courses[i]]
             of(d) == CHOOSE i \in refitted : DerivedId(m, i) = d
             patterns == [p \in DOMAIN m.patterns \cup derived |->
                IF p \in derived
                THEN Derived(m.patterns[m.courses[of(p)].pattern], m.courses[of(p)].refs)
                ELSE m.patterns[p]]
             lost == {m.courses[i].id : i \in gone}
             links == LinksLeft(m, lost)
             r == [m EXCEPT !.courses = kept, !.links = links, !.patterns = patterns]
  <1>1. RefitCourses(m) = r
    BY Zenon DEF RefitCourses
  <1>2. \A i \in D : verdict[i] = CourseVerdict(m, m.courses[i])
    OBVIOUS
  <1> HIDE DEF verdict
  <1>3. refitted = Refitted(m) /\ gone = DroppedBy(m)
    BY <1>2 DEF Refitted, DroppedBy
  <1> HIDE DEF refitted, gone
  <1>4. derived = DerivedIds(m)
    BY <1>3, Zenon DEF DerivedIds
  <1>5. \A p : of(p) = SourceOf(m, p)
    BY <1>3, Zenon DEF SourceOf
  <1>6. DOMAIN kept = D \ DroppedBy(m) /\ \A i \in DOMAIN kept : kept[i] = CourseLeft(m, i)
    <2>1. \A i \in DOMAIN kept : i \in D /\ kept[i] = IF verdict[i] = "refit"
                THEN [m.courses[i] EXCEPT !.pattern = DerivedId(m, i)] ELSE m.courses[i]
      <3> HIDE DEF D
      <3> QED BY Zenon
    <2>2. DOMAIN kept = D \ DroppedBy(m)
      BY <1>3
    <2> HIDE DEF kept
    <2> QED BY <1>2, <2>1, <2>2, Zenon DEF CourseLeft
  <1>7. /\ DOMAIN patterns = DOMAIN m.patterns \cup DerivedIds(m)
        /\ \A p \in DOMAIN patterns : patterns[p] = PatternLeft(m, p)
    <2>1. DOMAIN patterns = DOMAIN m.patterns \cup DerivedIds(m)
      <3> HIDE DEF derived, of
      <3> QED BY <1>4
    <2>2. ASSUME NEW p \in DOMAIN patterns PROVE patterns[p] = PatternLeft(m, p)
      <3> HIDE DEF of
      <3>1. patterns[p] = IF p \in derived
                THEN Derived(m.patterns[m.courses[of(p)].pattern], m.courses[of(p)].refs)
                ELSE m.patterns[p]
        <4> HIDE DEF derived
        <4> QED BY Zenon
      <3>2. of(p) = SourceOf(m, p)
        BY <1>5
      <3> HIDE DEF patterns, derived
      <3> QED BY <1>4, <3>1, <3>2, Zenon DEF PatternLeft
    <2> HIDE DEF patterns
    <2> QED BY <2>1, <2>2
  <1>8. \A x \in links : \A i \in DroppedBy(m) : m.courses[i].id \notin x
    <2>1. \A i \in DroppedBy(m) : m.courses[i].id \in lost
      BY <1>3, Zenon
    <2> HIDE DEF lost
    <2>2. \A x \in links : x \cap lost = {}
      BY Zenon DEF LinksLeft
    <2> HIDE DEF links
    <2> QED BY <2>1, <2>2
  <1> HIDE DEF kept, links, patterns
  <1>9. /\ Outline(r, m) /\ r.parents = m.parents /\ r.courses = kept
        /\ r.lines = m.lines /\ r.operators = m.operators /\ r.links = links
        /\ r.patterns = patterns
    BY DEF MemberFields, Outline
  <1> HIDE DEF r
  <1> QED BY <1>1, <1>6, <1>7, <1>8, <1>9, Zenon

\* The promises of the pass: each course that stays calls where it did and pairs with its pattern,
\* no other is named in a link, and no line is named that was not.
LEMMA RefitIs ==
    ASSUME NEW m, DOMAIN m = MemberFields, NEW N \in Nat, DOMAIN m.courses = 1..N,
           \A i \in 1..N : IsCourse(m.courses[i]),
           \A p \in DOMAIN m.patterns : p = <<p[1], 0>> /\ IsPattern(m.patterns[p])
    PROVE  LET r == RefitCourses(m) IN
           /\ \A i \in DOMAIN r.courses :
                 /\ i \in 1..N /\ r.courses[i].id = m.courses[i].id
                 /\ r.courses[i].refs = m.courses[i].refs /\ r.courses[i].line = m.courses[i].line
           /\ \A i \in DOMAIN r.courses : r.courses[i].pattern \in DOMAIN r.patterns =>
                 r.patterns[r.courses[i].pattern].points = r.courses[i].refs
           /\ \A x \in r.links : x \cap CourseIds(m) \subseteq CourseIds(r)
           /\ LineRefs(r) \subseteq LineRefs(m)
  <1> DEFINE r == RefitCourses(m)
  <1>1. /\ DOMAIN r.courses = (1..N) \ DroppedBy(m)
        /\ \A i \in DOMAIN r.courses : r.courses[i] = CourseLeft(m, i)
        /\ DOMAIN r.patterns = DOMAIN m.patterns \cup DerivedIds(m)
        /\ \A p \in DOMAIN r.patterns : r.patterns[p] = PatternLeft(m, p)
        /\ \A x \in r.links : \A i \in DroppedBy(m) : m.courses[i].id \notin x
    BY RefitMakes, Zenon
  <1> HIDE DEF r
  <1>2. ASSUME NEW i \in 1..N
        PROVE  LET c == CourseLeft(m, i) IN
               /\ c.id = m.courses[i].id /\ c.refs = m.courses[i].refs /\ c.line = m.courses[i].line
               /\ i \in Refitted(m) => c.pattern = DerivedId(m, i)
               /\ i \notin Refitted(m) => c.pattern = m.courses[i].pattern
    <2> DEFINE c == m.courses[i]
               d == [c EXCEPT !.pattern = DerivedId(m, i)]
    <2>1. DOMAIN c = {"id", "pattern", "line", "refs"}
      BY Zenon DEF IsCourse
    <2>2. i \in Refitted(m) <=> CourseVerdict(m, c) = "refit"
      BY DEF Refitted
    <2>3. CourseLeft(m, i) = IF i \in Refitted(m) THEN d ELSE c
      BY <2>2, Zenon DEF CourseLeft
    <2> HIDE DEF c
    <2>4. d.id = c.id /\ d.refs = c.refs /\ d.line = c.line /\ d.pattern = DerivedId(m, i)
      BY <2>1
    <2> HIDE DEF d
    <2> QED BY <2>3, <2>4, Zenon DEF c
  <1>3. ASSUME NEW i \in Refitted(m)
        PROVE  LET c == m.courses[i] IN
               /\ i \in 1..N /\ c.pattern = <<c.pattern[1], 0>> /\ IsList(c.refs)
               /\ c.pattern \in DOMAIN m.patterns /\ Readable(c.refs, m.patterns[c.pattern].points)
               /\ Refits(m, c.pattern, i)
    <2>1. i \in 1..N /\ CourseVerdict(m, m.courses[i]) = "refit"
      BY DEF Refitted
    <2>2. Refits(m, m.courses[i].pattern, i)
      BY <2>1 DEF Refits
    <2>3. IsCourse(m.courses[i])
      BY <2>1
    <2> DEFINE c == m.courses[i]
    <2> HIDE DEF c
    <2>4. c.pattern \in DOMAIN m.patterns /\ Readable(c.refs, m.patterns[c.pattern].points)
      BY <2>1, VerdictIs DEF c
    <2>5. c.pattern = <<c.pattern[1], 0>> /\ IsList(c.refs)
      BY <2>3, Zenon DEF IsCourse, c
    <2> QED BY <2>1, <2>2, <2>4, <2>5, Zenon DEF c
  <1>4. \A d \in DerivedIds(m) : \A q : q = <<q[1], 0>> => d # q
    <2>1. ASSUME NEW i \in Refitted(m) PROVE \A q : q = <<q[1], 0>> => DerivedId(m, i) # q
      <3>1. i \in Nat \ {0} /\ Refits(m, m.courses[i].pattern, i)
        BY <1>3
      <3> QED BY <3>1, DerivedIsNew
    <2> QED BY <2>1, Zenon DEF DerivedIds
  \* A derived pattern is timed where each course of its kind is.
  <1>5. ASSUME NEW d \in DerivedIds(m)
        PROVE  LET p == PatternLeft(m, d) IN
               /\ \A i \in Refitted(m) : DerivedId(m, i) = d => p.points = m.courses[i].refs
               /\ \E q \in DOMAIN m.patterns : p.line = m.patterns[q].line /\ p.route = m.patterns[q].route
    <2> DEFINE s == SourceOf(m, d)
               c == m.courses[s]
               p == PatternLeft(m, d)
    <2>1. s \in Refitted(m) /\ DerivedId(m, s) = d
      BY Zenon DEF SourceOf, DerivedIds
    <2>2. p = Derived(m.patterns[c.pattern], c.refs)
      BY Zenon DEF PatternLeft
    <2> HIDE DEF s
    <2>3. /\ s \in 1..N /\ c.pattern = <<c.pattern[1], 0>> /\ IsList(c.refs)
          /\ c.pattern \in DOMAIN m.patterns /\ Readable(c.refs, m.patterns[c.pattern].points)
          /\ Refits(m, c.pattern, s)
      BY <1>3, <2>1, Zenon
    <2>4. /\ p.points = c.refs /\ p.line = m.patterns[c.pattern].line
          /\ p.route = m.patterns[c.pattern].route
      <3> DEFINE whole == m.patterns[c.pattern]
                 refs == c.refs
      <3>1. IsPattern(whole) /\ IsList(refs) /\ Readable(refs, whole.points) /\ p = Derived(whole, refs)
        BY <2>2, <2>3, Zenon
      <3> HIDE DEF whole, refs, p
      <3>2. p.points = refs /\ p.line = whole.line /\ p.route = whole.route
        BY <3>1, DerivedIs, Zenon
      <3> QED BY <3>2 DEF whole, refs
    <2>5. ASSUME NEW i \in Refitted(m), DerivedId(m, i) = d PROVE c.refs = m.courses[i].refs
      <3> DEFINE e == m.courses[i]
      <3>1. /\ i \in 1..N /\ e.pattern = <<e.pattern[1], 0>> /\ Refits(m, e.pattern, i)
        BY <1>3, Zenon
      <3>2. DerivedId(m, s) = DerivedId(m, i)
        BY <2>1, <2>5
      <3> QED BY <2>3, <3>1, <3>2, DerivedSame, ZenonT(60)
    <2> HIDE DEF p, c
    <2> QED BY <2>3, <2>4, <2>5, Zenon DEF p
  <1>6. ASSUME NEW i \in DOMAIN r.courses
        PROVE  /\ i \in 1..N /\ i \notin DroppedBy(m) /\ r.courses[i] = CourseLeft(m, i)
               /\ r.courses[i].id = m.courses[i].id
               /\ r.courses[i].refs = m.courses[i].refs /\ r.courses[i].line = m.courses[i].line
    BY <1>1, <1>2, Zenon
  <1>7. ASSUME NEW i \in DOMAIN r.courses, r.courses[i].pattern \in DOMAIN r.patterns
        PROVE  r.patterns[r.courses[i].pattern].points = r.courses[i].refs
    <2> DEFINE c == m.courses[i]
    <2>1. CASE i \in Refitted(m)
      <3>1. r.courses[i].pattern = DerivedId(m, i)
        BY <1>2, <1>6, <2>1, Zenon
      <3>2. DerivedId(m, i) \in DerivedIds(m)
        BY <2>1, Zenon DEF DerivedIds
      <3>3. r.patterns[DerivedId(m, i)] = PatternLeft(m, DerivedId(m, i))
        BY <1>1, <1>7, <3>1, Zenon
      <3>4. PatternLeft(m, DerivedId(m, i)).points = c.refs
        BY <1>5, <2>1, <3>2, Zenon
      <3> QED BY <1>6, <3>1, <3>3, <3>4, Zenon
    <2>2. CASE i \notin Refitted(m)
      <3>1. r.courses[i].pattern = c.pattern /\ i \in 1..N
        BY <1>2, <1>6, <2>2, Zenon
      <3>2. c.pattern = <<c.pattern[1], 0>>
        BY <3>1, Zenon DEF IsCourse
      <3>3. c.pattern \notin DerivedIds(m) /\ c.pattern \in DOMAIN m.patterns
        BY <1>1, <1>4, <1>7, <3>1, <3>2
      <3>4. r.patterns[c.pattern] = m.patterns[c.pattern]
        BY <1>1, <1>7, <3>1, <3>3, Zenon DEF PatternLeft
      <3>5. CourseVerdict(m, c) # "refit" /\ CourseVerdict(m, c) # "drop"
        BY <1>6, <2>2, <3>1 DEF Refitted, DroppedBy
      <3>6. c.refs = m.patterns[c.pattern].points
        <4> HIDE DEF c
        <4> QED BY <3>3, <3>5, VerdictIs
      <3> QED BY <1>6, <3>1, <3>4, <3>6, Zenon
    <2> QED BY <2>1, <2>2
  <1>8. ASSUME NEW x \in r.links, NEW id \in x, id \in CourseIds(m) PROVE id \in CourseIds(r)
    <2>1. PICK i \in 1..N : m.courses[i].id = id
      BY <1>8, Zenon DEF CourseIds
    <2>2. i \notin DroppedBy(m)
      BY <1>1, <1>8, <2>1
    <2>3. i \in DOMAIN r.courses
      BY <1>1, <2>2
    <2>4. r.courses[i].id = id
      BY <1>6, <2>1, <2>3
    <2> QED BY <2>3, <2>4, Zenon DEF CourseIds
  <1>9. ASSUME NEW l \in LineRefs(r) PROVE l \in LineRefs(m)
    <2>1. /\ l # Absent
          /\ \/ \E i \in DOMAIN r.courses : l = r.courses[i].line
             \/ \E p \in DOMAIN r.patterns : l = r.patterns[p].line \/ l = r.patterns[p].route
      BY LineRefsAre
    <2>2. CASE \E i \in DOMAIN r.courses : l = r.courses[i].line
      <3>1. \E i \in DOMAIN m.courses : l = m.courses[i].line
        BY <1>6, <2>2
      <3> QED BY <2>1, <3>1, LineRefsAre
    <2>3. ASSUME NEW p \in DOMAIN r.patterns, l = r.patterns[p].line \/ l = r.patterns[p].route
          PROVE  l \in LineRefs(m)
      <3>1. r.patterns[p] = PatternLeft(m, p)
        BY <1>1, Zenon
      <3>2. CASE p \in DerivedIds(m)
        <4>1. PICK q \in DOMAIN m.patterns : /\ r.patterns[p].line = m.patterns[q].line
                                             /\ r.patterns[p].route = m.patterns[q].route
          BY <1>5, <3>1, <3>2, Zenon
        <4> QED BY <2>1, <2>3, <4>1, LineRefsAre
      <3>3. CASE p \notin DerivedIds(m)
        <4>1. p \in DOMAIN m.patterns /\ r.patterns[p] = m.patterns[p]
          BY <1>1, <3>1, <3>3, Zenon DEF PatternLeft
        <4> QED BY <2>1, <2>3, <4>1, LineRefsAre
      <3> QED BY <3>2, <3>3
    <2> QED BY <2>1, <2>2, <2>3
  <1>10. /\ \A x \in r.links : x \cap CourseIds(m) \subseteq CourseIds(r)
         /\ LineRefs(r) \subseteq LineRefs(m)
    BY <1>8, <1>9
  <1>11. \A i \in DOMAIN r.courses : r.courses[i].pattern \in DOMAIN r.patterns =>
                 r.patterns[r.courses[i].pattern].points = r.courses[i].refs
    BY <1>7
  <1>12. \A i \in DOMAIN r.courses :
                 /\ i \in 1..N /\ r.courses[i].id = m.courses[i].id
                 /\ r.courses[i].refs = m.courses[i].refs /\ r.courses[i].line = m.courses[i].line
    BY <1>6
  <1> QED BY <1>10, <1>11, <1>12, Zenon DEF r

\* The homes of lines are members that define them.
AreHomes(homes) ==
    \A l \in DOMAIN homes : IsMember(zip[homes[l]]) /\ l \in DOMAIN zip[homes[l]].lines

\* What r is when it is m, of the zip z, repaired with those lines and operators at hand.
IsRepairOf(r, m, z, homes, others) ==
    /\ Outline(r, m) /\ r.parents \subseteq r.sites
    /\ \A i \in DOMAIN m.courses : CourseVerdict(m, m.courses[i]) # "drop" =>
          /\ i \in DOMAIN r.courses /\ r.courses[i].id = m.courses[i].id
          /\ r.courses[i].refs = m.courses[i].refs
    /\ \A i \in DOMAIN r.courses : r.courses[i].pattern \in DOMAIN r.patterns =>
          r.patterns[r.courses[i].pattern].points = r.courses[i].refs
    /\ \A x \in r.links : x \cap CourseIds(m) \subseteq CourseIds(r)
    /\ LineRefs(r) \subseteq LineRefs(m) \cup DOMAIN m.lines
    /\ DOMAIN m.lines \subseteq DOMAIN r.lines
    /\ "lines" \in m.containers => MissingLines(m) \cap DOMAIN homes \subseteq DOMAIN r.lines
    /\ m.operators \subseteq r.operators
    /\ \A l \in DOMAIN r.lines :
          \/ l \in DOMAIN m.lines /\ r.lines[l].given = m.lines[l].given
          \/ l \in DOMAIN homes /\ r.lines[l].given = z[homes[l]].lines[l].given
          \/ r.lines[l].given \in r.operators \cup others

LEMMA VerdictStays ==
    ASSUME NEW m, NEW r, DOMAIN r.patterns = DOMAIN m.patterns,
           \A p \in DOMAIN m.patterns : r.patterns[p].points = m.patterns[p].points, NEW c
    PROVE  CourseVerdict(r, c) = "drop" <=> CourseVerdict(m, c) = "drop"
  <1>1. CourseVerdict(m, c) = "drop" <=>
           /\ c.pattern \in DOMAIN m.patterns
           /\ ~(c.refs = m.patterns[c.pattern].points /\ Len(c.refs) >= 2)
           /\ ~Readable(c.refs, m.patterns[c.pattern].points)
    BY VerdictIs
  <1>2. CourseVerdict(r, c) = "drop" <=>
           /\ c.pattern \in DOMAIN r.patterns
           /\ ~(c.refs = r.patterns[c.pattern].points /\ Len(c.refs) >= 2)
           /\ ~Readable(c.refs, r.patterns[c.pattern].points)
    BY VerdictIs
  <1> QED BY <1>1, <1>2

LEMMA GivenInCopy ==
    ASSUME NEW m, NEW homes, NEW l, IsMember(zip[homes[l]]), l \in DOMAIN zip[homes[l]].lines
    PROVE  "given" \in DOMAIN CopyOf(m, homes, l)
  <1> DEFINE home == zip[homes[l]]
             line == home.lines[l]
             taken == LineOf(home, l)
             comes == taken.withOperator /\ "organisations" \in m.containers
  <1>1. CopyOf(m, homes, l) = IF taken.line.operator \in m.operators \/ comes THEN taken.line
                              ELSE [taken.line EXCEPT !.operator = Absent]
    BY Zenon DEF CopyOf, LineCopy
  <1>2. taken.line = line
    <2> HIDE DEF line, home
    <2>1. taken.line = home.lines[l]
      BY DEF LineOf
    <2> QED BY <2>1 DEF line
  <1>3. DOMAIN line = {"operator", "given"}
    BY Zenon DEF IsMember
  <1> HIDE DEF taken, line, comes, home
  <1>4. "given" \in DOMAIN line /\ "given" \in DOMAIN [line EXCEPT !.operator = Absent]
    BY <1>3
  <1>5. CopyOf(m, homes, l) = line \/ CopyOf(m, homes, l) = [line EXCEPT !.operator = Absent]
    BY <1>1, <1>2, Zenon
  <1> QED BY <1>4, <1>5, Zenon

\* The stages before the courses.
LinesBrought(m, homes) == CopyConditions(CopyMissingLines(DropDanglingParents(m), homes))

LEMMA LinesBroughtIs ==
    ASSUME NEW m, IsMember(m), NEW homes, AreHomes(homes)
    PROVE  LET r == LinesBrought(m, homes)
               found == IF "lines" \in m.containers THEN MissingLines(m) \cap DOMAIN homes ELSE {} IN
           /\ Outline(r, m) /\ r.parents \subseteq r.sites /\ m.operators \subseteq r.operators
           /\ r.courses = m.courses /\ r.patterns = m.patterns /\ r.links = m.links
           /\ DOMAIN r.lines = DOMAIN m.lines \cup found
           /\ \A l \in DOMAIN r.lines : "given" \in DOMAIN r.lines[l]
           /\ \A l \in DOMAIN r.lines :
                 \/ l \in DOMAIN m.lines /\ r.lines[l].given = m.lines[l].given
                 \/ l \in DOMAIN homes /\ r.lines[l].given = zip[homes[l]].lines[l].given
  <1> DEFINE a == DropDanglingParents(m)
             b == CopyMissingLines(a, homes)
             r == CopyConditions(b)
             found == IF "lines" \in m.containers THEN MissingLines(m) \cap DOMAIN homes ELSE {}
  <1>1. /\ DOMAIN m = MemberFields
        /\ \A l \in DOMAIN m.lines : DOMAIN m.lines[l] = {"operator", "given"}
    BY Zenon DEF IsMember
  <1>2. /\ Outline(a, m) /\ a.parents = m.parents \cap m.sites
        /\ a.courses = m.courses /\ a.patterns = m.patterns /\ a.lines = m.lines
        /\ a.operators = m.operators /\ a.links = m.links
    BY <1>1, ParentsDropped, Zenon
  <1> HIDE DEF a
  <1>3. DOMAIN a = MemberFields
    BY <1>2 DEF Outline
  <1>4. /\ Outline(b, a) /\ b.parents = a.parents /\ b.links = a.links
        /\ b.courses = a.courses /\ b.patterns = a.patterns
        /\ DOMAIN b.lines = DOMAIN a.lines \cup Copied(a, homes)
        /\ \A l \in DOMAIN b.lines : b.lines[l] = IF l \in Copied(a, homes) THEN CopyOf(a, homes, l) ELSE a.lines[l]
        /\ a.operators \subseteq b.operators
    BY <1>3, LinesCopied, Zenon
  <1>5. Copied(a, homes) = found
    <2>1. LineRefs(a) = LineRefs(m)
      BY <1>2, Zenon DEF LineRefs
    <2>2. MissingLines(a) = MissingLines(m) /\ a.containers = m.containers
      BY <1>2, <2>1, Zenon DEF MissingLines, Outline
    <2> QED BY <2>2, Zenon DEF Copied
  <1>6. found \subseteq DOMAIN homes
    BY Zenon
  <1> HIDE DEF b, found
  <1>7. DOMAIN b = MemberFields
    BY <1>4 DEF Outline
  <1>8. /\ Outline(r, b) /\ r.parents = b.parents
        /\ r.courses = b.courses /\ r.patterns = b.patterns /\ r.lines = b.lines
        /\ r.operators = b.operators /\ r.links = b.links
    BY <1>7, ConditionsCopied, Zenon
  <1> HIDE DEF r
  <1>9. Outline(r, m)
    BY <1>2, <1>4, <1>8 DEF Outline
  <1>10. r.parents \subseteq r.sites
    BY <1>2, <1>4, <1>8, <1>9 DEF Outline
  <1>11. ASSUME NEW l \in DOMAIN b.lines
         PROVE  /\ "given" \in DOMAIN b.lines[l]
                /\ \/ l \in DOMAIN m.lines /\ b.lines[l].given = m.lines[l].given
                   \/ l \in DOMAIN homes /\ b.lines[l].given = zip[homes[l]].lines[l].given
    <2>1. CASE l \in found
      <3>1. l \in DOMAIN homes /\ IsMember(zip[homes[l]]) /\ l \in DOMAIN zip[homes[l]].lines
        BY <1>6, <2>1 DEF AreHomes
      <3>2. b.lines[l] = CopyOf(a, homes, l)
        BY <1>4, <1>5, <2>1
      <3>3. "given" \in DOMAIN b.lines[l] /\ b.lines[l].given = zip[homes[l]].lines[l].given
        <4>1. "given" \in DOMAIN CopyOf(a, homes, l)
          BY <3>1, GivenInCopy
        <4>2. CopyOf(a, homes, l).given = zip[homes[l]].lines[l].given
          BY <3>1, CopyGiven
        <4> QED BY <3>2, <4>1, <4>2
      <3> QED BY <3>1, <3>3
    <2>2. CASE l \notin found
      <3>1. l \in DOMAIN m.lines /\ b.lines[l] = m.lines[l]
        BY <1>2, <1>4, <1>5, <2>2
      <3>2. "given" \in DOMAIN m.lines[l]
        BY <1>1, <3>1
      <3> QED BY <3>1, <3>2
    <2> QED BY <2>1, <2>2
  <1>12. r.lines = b.lines /\ DOMAIN b.lines = DOMAIN m.lines \cup found
    BY <1>2, <1>4, <1>5, <1>8
  <1>13. m.operators \subseteq r.operators /\ r.courses = m.courses /\ r.patterns = m.patterns
         /\ r.links = m.links
    BY <1>2, <1>4, <1>8
  <1>14. /\ DOMAIN r.lines = DOMAIN m.lines \cup found
         /\ \A l \in DOMAIN r.lines : "given" \in DOMAIN r.lines[l]
         /\ \A l \in DOMAIN r.lines :
                 \/ l \in DOMAIN m.lines /\ r.lines[l].given = m.lines[l].given
                 \/ l \in DOMAIN homes /\ r.lines[l].given = zip[homes[l]].lines[l].given
    BY <1>11, <1>12
  <1> QED BY <1>9, <1>10, <1>13, <1>14, Zenon DEF LinesBrought, found, r, b, a

LEMMA RepairedIs ==
    ASSUME NEW m, IsMember(m), NEW homes, AreHomes(homes), NEW shared, NEW asBase, NEW only
    PROVE  IsRepairOf(Repaired(m, homes, shared, asBase, only), m, zip, homes,
                      IF asBase THEN shared ELSE {})
  <1> DEFINE a == LinesBrought(m, homes)
             b == GivePatternsTheirLine(a, DOMAIN m.lines)
             c == RefitCourses(b)
             others == IF asBase THEN shared ELSE {}
             r == GiveLinesTheirOperator(c, Reachable(c, shared, asBase), only)
             found == IF "lines" \in m.containers THEN MissingLines(m) \cap DOMAIN homes ELSE {}
             N == Len(m.courses)
  <1>1. Repaired(m, homes, shared, asBase, only) = r
    BY Zenon DEF Repaired, LinesBrought
  <1>2. /\ IsList(m.courses) /\ \A i \in DOMAIN m.courses : IsCourse(m.courses[i])
        /\ \A p \in DOMAIN m.patterns : p = <<p[1], 0>> /\ IsPattern(m.patterns[p])
    BY Zenon DEF IsMember
  <1>3. N \in Nat /\ DOMAIN m.courses = 1..N
    <2>1. m.courses \in Seq(Range(m.courses))
      BY <1>2 DEF IsList
    <2> QED BY <2>1, LenProperties
  <1> HIDE DEF N
  <1>4. /\ Outline(a, m) /\ a.parents \subseteq a.sites /\ m.operators \subseteq a.operators
        /\ a.courses = m.courses /\ a.patterns = m.patterns /\ a.links = m.links
        /\ DOMAIN a.lines = DOMAIN m.lines \cup found
        /\ \A l \in DOMAIN a.lines : "given" \in DOMAIN a.lines[l]
        /\ \A l \in DOMAIN a.lines :
              \/ l \in DOMAIN m.lines /\ a.lines[l].given = m.lines[l].given
              \/ l \in DOMAIN homes /\ a.lines[l].given = zip[homes[l]].lines[l].given
    BY LinesBroughtIs
  <1> HIDE DEF a, found
  <1>5. /\ Outline(b, a) /\ b.parents = a.parents /\ b.courses = a.courses /\ b.lines = a.lines
        /\ b.operators = a.operators /\ b.links = a.links
        /\ DOMAIN b.patterns = DOMAIN a.patterns
        /\ \A p \in DOMAIN a.patterns : /\ IsPattern(b.patterns[p])
                                        /\ b.patterns[p].points = a.patterns[p].points
        /\ LineRefs(b) \subseteq LineRefs(a) \cup DOMAIN m.lines
    <2>1. DOMAIN a = MemberFields /\ DOMAIN a.courses = 1..N
      BY <1>3, <1>4 DEF Outline
    <2>2. \A p \in DOMAIN a.patterns : IsPattern(a.patterns[p])
      BY <1>2, <1>4
    <2> QED BY <1>3, <2>1, <2>2, PatternsGiven, Zenon
  <1> HIDE DEF b
  <1>6. /\ DOMAIN b = MemberFields /\ b.courses = m.courses /\ DOMAIN b.courses = 1..N
        /\ DOMAIN b.patterns = DOMAIN m.patterns
        /\ \A p \in DOMAIN b.patterns : p = <<p[1], 0>> /\ IsPattern(b.patterns[p])
        /\ \A p \in DOMAIN m.patterns : b.patterns[p].points = m.patterns[p].points
        /\ \A i \in 1..N : IsCourse(b.courses[i])
    BY <1>2, <1>3, <1>4, <1>5 DEF Outline
  <1>7. /\ Outline(c, b) /\ c.parents = b.parents /\ c.lines = b.lines /\ c.operators = b.operators
        /\ DOMAIN c.courses = (DOMAIN b.courses) \ DroppedBy(b)
    BY <1>6, RefitMakes, Zenon
  <1>8. /\ \A i \in DOMAIN c.courses :
                 /\ i \in 1..N /\ c.courses[i].id = b.courses[i].id
                 /\ c.courses[i].refs = b.courses[i].refs /\ c.courses[i].line = b.courses[i].line
        /\ \A i \in DOMAIN c.courses : c.courses[i].pattern \in DOMAIN c.patterns =>
                 c.patterns[c.courses[i].pattern].points = c.courses[i].refs
        /\ \A x \in c.links : x \cap CourseIds(b) \subseteq CourseIds(c)
        /\ LineRefs(c) \subseteq LineRefs(b)
    BY <1>3, <1>6, RefitIs, Zenon
  <1> HIDE DEF c
  <1>9. /\ Outline(r, c) /\ r.parents = c.parents /\ r.courses = c.courses
        /\ r.patterns = c.patterns /\ r.operators = c.operators /\ r.links = c.links
        /\ DOMAIN r.lines = DOMAIN c.lines
        /\ \A l \in DOMAIN c.lines : \/ r.lines[l].given = c.lines[l].given
                                     \/ r.lines[l].given \in Reachable(c, shared, asBase)
    <2>1. DOMAIN c = MemberFields
      BY <1>7 DEF Outline
    <2>2. \A l \in DOMAIN c.lines : "given" \in DOMAIN c.lines[l]
      BY <1>4, <1>5, <1>7
    <2> DEFINE reached == Reachable(c, shared, asBase)
    <2> HIDE DEF reached
    <2> DEFINE g == GiveLinesTheirOperator(c, reached, only)
    <2>3. r = g
      BY DEF reached
    <2>4. /\ Outline(g, c) /\ g.parents = c.parents /\ g.courses = c.courses
          /\ g.patterns = c.patterns /\ g.operators = c.operators /\ g.links = c.links
          /\ DOMAIN g.lines = DOMAIN c.lines
          /\ \A l \in DOMAIN c.lines : g.lines[l].given = c.lines[l].given \/ g.lines[l].given \in reached
      BY <2>1, <2>2, OperatorsGiven
    <2> HIDE DEF r, g
    <2> QED BY <2>3, <2>4 DEF reached
  <1> HIDE DEF r
  <1>10. Outline(r, m) /\ r.parents \subseteq r.sites
    BY <1>4, <1>5, <1>7, <1>9 DEF Outline
  <1>11. ASSUME NEW i \in DOMAIN m.courses, CourseVerdict(m, m.courses[i]) # "drop"
         PROVE  /\ i \in DOMAIN r.courses /\ r.courses[i].id = m.courses[i].id
                /\ r.courses[i].refs = m.courses[i].refs
    <2>1. CourseVerdict(b, m.courses[i]) # "drop"
      BY <1>6, <1>11, VerdictStays
    <2>2. i \notin DroppedBy(b)
      BY <1>6, <2>1 DEF DroppedBy
    <2>3. i \in DOMAIN c.courses
      BY <1>6, <1>7, <2>2
    <2> QED BY <1>6, <1>8, <1>9, <2>3
  <1>12. \A i \in DOMAIN r.courses : r.courses[i].pattern \in DOMAIN r.patterns =>
            r.patterns[r.courses[i].pattern].points = r.courses[i].refs
    BY <1>8, <1>9
  <1>13. \A x \in r.links : x \cap CourseIds(m) \subseteq CourseIds(r)
    <2>1. CourseIds(b) = CourseIds(m) /\ CourseIds(r) = CourseIds(c)
      BY <1>6, <1>9, Zenon DEF CourseIds
    <2> QED BY <1>8, <1>9, <2>1
  <1>14. LineRefs(r) \subseteq LineRefs(m) \cup DOMAIN m.lines
    <2>1. LineRefs(a) = LineRefs(m)
      <3>1. a.courses = m.courses /\ a.patterns = m.patterns
        BY <1>4
      <3> QED BY <3>1, Zenon DEF LineRefs
    <2>2. LineRefs(r) = LineRefs(c)
      <3>1. r.courses = c.courses /\ r.patterns = c.patterns
        BY <1>9
      <3> QED BY <3>1, Zenon DEF LineRefs
    <2> QED BY <1>5, <1>8, <2>1, <2>2
  <1>15. DOMAIN r.lines = DOMAIN m.lines \cup found
    BY <1>4, <1>5, <1>7, <1>9
  <1>16. "lines" \in m.containers => MissingLines(m) \cap DOMAIN homes \subseteq DOMAIN r.lines
    BY <1>15 DEF found
  <1>17. m.operators \subseteq r.operators
    BY <1>4, <1>5, <1>7, <1>9
  <1>18. ASSUME NEW l \in DOMAIN r.lines
         PROVE  \/ l \in DOMAIN m.lines /\ r.lines[l].given = m.lines[l].given
                \/ l \in DOMAIN homes /\ r.lines[l].given = zip[homes[l]].lines[l].given
                \/ r.lines[l].given \in r.operators \cup others
    <2>1. Reachable(c, shared, asBase) = r.operators \cup others
      BY <1>9, Zenon DEF Reachable
    <2>2. l \in DOMAIN a.lines /\ a.lines = c.lines
      BY <1>5, <1>7, <1>9
    <2>3. \/ r.lines[l].given = c.lines[l].given
          \/ r.lines[l].given \in r.operators \cup others
      BY <1>9, <2>1, <2>2
    <2> QED BY <1>4, <2>2, <2>3
  <1>19. IsRepairOf(r, m, zip, homes, others)
    <2> HIDE DEF others
    <2> QED BY <1>10, <1>11, <1>12, <1>13, <1>14, <1>15, <1>16, <1>17, <1>18, Zenon DEF IsRepairOf
  <1> QED BY <1>1, <1>19

\* What the pass gathered of the first n members of the zip z.
Gathered(z, n, ctx) ==
    /\ \A i \in 1..n : ~z[i].large => DOMAIN z[i].lines \subseteq DOMAIN ctx.homes
    /\ \A l \in DOMAIN ctx.homes : ctx.homes[l] \in 1..n /\ l \in DOMAIN z[ctx.homes[l]].lines
    /\ \A i \in 1..n : Shared(z[i]) => z[i].dayTypes \subseteq ctx.sharedDayTypes
    /\ \A o \in ctx.sharedOperators : \E i \in 1..n : Shared(z[i]) /\ o \in z[i].operators
    /\ \A i \in 1..n : ~Shared(z[i]) /\ ~z[i].large => ForeignDayTypes(z[i]) \subseteq ctx.foreign

\* A member written when it was seen needed no other and is no base file.
AtFirst(z, e) ==
    LET m == z[e.place] IN
    /\ ~e.base /\ ~Shared(m)
    /\ \/ m.large /\ e.member = m
       \/ ~m.large /\ ~Waits(m) /\ IsRepairOf(e.member, m, z, NoContext.homes, {})

\* One that waited was written with all that the pass gathered.
AtEnd(z, e, ctx, asBase) ==
    LET m == z[e.place] IN
    /\ e.base <=> asBase /\ Shared(m)
    /\ \/ m.large /\ e.member = m
       \/ ~m.large /\ IsRepairOf(e.member, m, z, ctx.homes, IF asBase THEN ctx.sharedOperators ELSE {})

ContextFields ==
    {"homes", "foreign", "sharedDayTypes", "operators", "sharedOperators", "operatorsKnown"}

MembersFit ==
    /\ DOMAIN zip = 1..Len(zip) /\ \A i \in 1..Len(zip) : IsMember(zip[i])
    /\ DOMAIN context = ContextFields /\ Gathered(zip, seen, context)
    /\ \A k \in DOMAIN copied : \/ AtFirst(zip, copied[k])
                                \/ seen = Len(zip) /\ AtEnd(zip, copied[k], context, AsBase)

LEMMA FitStarts == RepairInit \/ RepairAtRest => MembersFit
  <1> SUFFICES ASSUME RepairInit \/ RepairAtRest PROVE MembersFit
    OBVIOUS
  <1>1. /\ DOMAIN zip = 1..Len(zip) /\ \A i \in 1..Len(zip) : IsMember(zip[i])
        /\ seen = 0 /\ context = NoContext /\ copied = <<>>
    <2>1. CASE RepairInit
      BY <2>1, ZipAssumption, Zenon DEF RepairInit
    <2>2. CASE RepairAtRest
      BY <2>2 DEF RepairAtRest
    <2> QED BY <2>1, <2>2
  <1>2. /\ DOMAIN NoContext = ContextFields /\ DOMAIN NoContext.homes = {}
        /\ NoContext.sharedOperators = {}
    BY DEF NoContext, ContextFields
  <1>3. 1..0 = {} /\ DOMAIN <<>> = {}
    OBVIOUS
  <1>4. Gathered(zip, seen, context)
    BY <1>1, <1>2, <1>3 DEF Gathered
  <1> QED BY <1>1, <1>2, <1>3, <1>4 DEF MembersFit

LEMMA FitStays == MembersFit /\ UNCHANGED repairVars => MembersFit'
  BY DEF MembersFit, repairVars, AsBase

LEMMA GatherMore ==
    ASSUME NEW z, NEW n \in Nat, NEW c, NEW d, Gathered(z, n, c),
           DOMAIN c.homes \subseteq DOMAIN d.homes,
           \A l \in DOMAIN c.homes : d.homes[l] = c.homes[l],
           \A l \in DOMAIN d.homes : l \notin DOMAIN c.homes =>
               d.homes[l] = n + 1 /\ l \in DOMAIN z[n + 1].lines,
           ~z[n + 1].large => DOMAIN z[n + 1].lines \subseteq DOMAIN d.homes,
           c.sharedDayTypes \subseteq d.sharedDayTypes,
           Shared(z[n + 1]) => z[n + 1].dayTypes \subseteq d.sharedDayTypes,
           \A o \in d.sharedOperators : \/ o \in c.sharedOperators
                                        \/ Shared(z[n + 1]) /\ o \in z[n + 1].operators,
           c.foreign \subseteq d.foreign,
           ~Shared(z[n + 1]) /\ ~z[n + 1].large => ForeignDayTypes(z[n + 1]) \subseteq d.foreign
    PROVE  Gathered(z, n + 1, d)
  <1> DEFINE past == 1..n
             x == n + 1
             all == 1..x
  <1>1. \A i : i \in all <=> i \in past \/ i = x
    OBVIOUS
  <1>2. /\ \A i \in past : ~z[i].large => DOMAIN z[i].lines \subseteq DOMAIN c.homes
        /\ \A l \in DOMAIN c.homes : c.homes[l] \in past /\ l \in DOMAIN z[c.homes[l]].lines
        /\ \A i \in past : Shared(z[i]) => z[i].dayTypes \subseteq c.sharedDayTypes
        /\ \A o \in c.sharedOperators : \E i \in past : Shared(z[i]) /\ o \in z[i].operators
        /\ \A i \in past : ~Shared(z[i]) /\ ~z[i].large => ForeignDayTypes(z[i]) \subseteq c.foreign
    BY Zenon DEF Gathered
  <1> HIDE DEF past, x, all
  <1>3. \A i \in all : ~z[i].large => DOMAIN z[i].lines \subseteq DOMAIN d.homes
    BY <1>1, <1>2 DEF x
  <1>4. \A l \in DOMAIN d.homes : d.homes[l] \in all /\ l \in DOMAIN z[d.homes[l]].lines
    BY <1>1, <1>2 DEF x
  <1>5. \A i \in all : Shared(z[i]) => z[i].dayTypes \subseteq d.sharedDayTypes
    BY <1>1, <1>2 DEF x
  <1>6. \A o \in d.sharedOperators : \E i \in all : Shared(z[i]) /\ o \in z[i].operators
    BY <1>1, <1>2 DEF x
  <1>7. \A i \in all : ~Shared(z[i]) /\ ~z[i].large => ForeignDayTypes(z[i]) \subseteq d.foreign
    BY <1>1, <1>2 DEF x
  <1> QED BY <1>3, <1>4, <1>5, <1>6, <1>7, Zenon DEF Gathered, all, x

\* A member written adds its record to those of the members written.
EntryAdded(p, base, m) ==
    \E n : /\ DOMAIN copied' = DOMAIN copied \cup {n}
           /\ \A k \in DOMAIN copied : copied'[k] = copied[k]
           /\ copied'[n].place = p /\ copied'[n].member = m /\ copied'[n].base = base

LEMMA WriteAddsEntry ==
    ASSUME RepairShape, NEW p, NEW base, NEW m, copied' = Write(p, base, m)
    PROVE  EntryAdded(p, base, m)
  <1>1. PICK A : copied \in Seq(A)
    BY DEF RepairShape
  <1> DEFINE x == [place |-> p, base |-> base, member |-> m]
  <1>2. copied' = Append(copied, x) /\ x.place = p /\ x.member = m /\ x.base = base
    BY DEF Write
  <1> HIDE DEF x
  <1>3. /\ DOMAIN copied' = DOMAIN copied \cup {Len(copied) + 1}
        /\ \A k \in DOMAIN copied : copied'[k] = copied[k]
        /\ copied'[Len(copied) + 1] = x
    BY <1>1, <1>2, Longer
  <1> QED BY <1>2, <1>3, Zenon DEF EntryAdded

LEMMA HomesAre ==
    ASSUME NEW n, NEW ctx, Gathered(zip, n, ctx), n \in 0..Len(zip), Len(zip) \in Nat,
           \A i \in 1..Len(zip) : IsMember(zip[i])
    PROVE  AreHomes(ctx.homes)
  <1>1. \A i \in 1..n : IsMember(zip[i])
    OBVIOUS
  <1>2. \A l \in DOMAIN ctx.homes : ctx.homes[l] \in 1..n /\ l \in DOMAIN zip[ctx.homes[l]].lines
    BY Zenon DEF Gathered
  <1> QED BY <1>1, <1>2, Zenon DEF AreHomes

LEMMA FitKept == RepairInv /\ MembersFit /\ [RepairNext]_repairVars => MembersFit'
  <1> SUFFICES ASSUME RepairInv, MembersFit, RepairNext PROVE MembersFit'
    BY FitStays
  <1>1. seen \in 0..Len(zip) /\ Len(zip) \in Nat /\ later \in Seq(1..seen) /\ RepairShape
    BY DEF RepairInv, RepairShape
  <1>2. /\ DOMAIN zip = 1..Len(zip) /\ \A i \in 1..Len(zip) : IsMember(zip[i])
        /\ DOMAIN context = ContextFields /\ Gathered(zip, seen, context)
        /\ \A k \in DOMAIN copied : \/ AtFirst(zip, copied[k])
                                    \/ seen = Len(zip) /\ AtEnd(zip, copied[k], context, AsBase)
    BY DEF MembersFit
  \* A member is seen.
  <1>3. ASSUME seen < Len(zip), seen' = seen + 1, zip' = zip,
               DOMAIN context' = ContextFields, Gathered(zip, seen + 1, context'),
               \A k \in DOMAIN copied' : \/ k \in DOMAIN copied /\ copied'[k] = copied[k]
                                         \/ AtFirst(zip, copied'[k])
        PROVE  MembersFit'
    <2>1. \A k \in DOMAIN copied : AtFirst(zip, copied[k])
      <3>1. seen # Len(zip)
        BY <1>1, <1>3
      <3> QED BY <1>2, <3>1
    <2>2. \A k \in DOMAIN copied' : AtFirst(zip, copied'[k])
      BY <1>3, <2>1, Zenon
    <2>3. \A k \in DOMAIN copied' : AtFirst(zip', copied'[k])
      BY <1>3, <2>2
    <2>4. Gathered(zip', seen', context')
      BY <1>3
    <2> QED BY <1>2, <1>3, <2>3, <2>4 DEF MembersFit
  <1> DEFINE x == seen + 1
             m == zip[x]
  <1>4. ASSUME seen < Len(zip) PROVE x \in 1..Len(zip) /\ IsMember(m) /\ seen \in Nat
    <2>1. x \in 1..Len(zip) /\ seen \in Nat
      BY <1>1, <1>4
    <2> HIDE DEF x
    <2> QED BY <1>2, <2>1
  <1>8. ASSUME NEW p, NEW base, NEW r, copied' = Write(p, base, r) PROVE EntryAdded(p, base, r)
    BY <1>1, <1>8, WriteAddsEntry
  <1>9. \A p, base, r : copied' = Write(p, base, r) => EntryAdded(p, base, r)
    BY <1>8, Zenon
  <1>10. \A p, r : copied' = Write(p, FALSE, r) => EntryAdded(p, FALSE, r)
    <2>1. ASSUME NEW p, NEW r, copied' = Write(p, FALSE, r) PROVE EntryAdded(p, FALSE, r)
      BY <1>1, <2>1, WriteAddsEntry
    <2> QED BY <2>1, Zenon
  <1>5. CASE SeeLarge
    <2>1. seen < Len(zip) /\ seen' = seen + 1 /\ zip' = zip /\ m.large
      BY <1>5, Zenon DEF SeeLarge
    <2>2. CASE Shared(m)
      <3>1. copied' = copied /\ context' = ScannedInto(context, m)
        BY <1>5, <2>2, Zenon DEF SeeLarge
      <3> DEFINE a == context.sharedDayTypes \cup m.dayTypes
                 b == context.operators \cup m.operators
                 c == context.sharedOperators \cup m.operators
                 d == [context EXCEPT !.sharedDayTypes = a, !.operators = b, !.sharedOperators = c]
      <3>2. context' = d
        BY <3>1, Zenon DEF ScannedInto
      <3>3. /\ context.sharedDayTypes \subseteq a /\ m.dayTypes \subseteq a
            /\ \A o \in c : o \in context.sharedOperators \/ o \in m.operators
        OBVIOUS
      <3> HIDE DEF a, b, c
      <3>4. /\ DOMAIN d = ContextFields /\ d.homes = context.homes /\ d.foreign = context.foreign
            /\ d.sharedDayTypes = a /\ d.sharedOperators = c
        BY <1>2, SMTT(30) DEF ContextFields
      <3> HIDE DEF d, m, x
      <3>5. Gathered(zip, x, d)
        <4>1. x = seen + 1 /\ seen \in Nat /\ m = zip[seen + 1]
          BY <1>4, <2>1 DEF x, m
        <4>2. /\ DOMAIN context.homes \subseteq DOMAIN d.homes
              /\ \A l \in DOMAIN context.homes : d.homes[l] = context.homes[l]
              /\ \A l \in DOMAIN d.homes : l \in DOMAIN context.homes
              /\ context.foreign \subseteq d.foreign
          BY <3>4
        <4>3. /\ context.sharedDayTypes \subseteq d.sharedDayTypes /\ m.dayTypes \subseteq d.sharedDayTypes
              /\ \A o \in d.sharedOperators : o \in context.sharedOperators \/ o \in m.operators
          BY <3>3, <3>4
        <4> QED BY <1>2, <2>1, <2>2, <4>1, <4>2, <4>3, GatherMore, Zenon
      <3> QED BY <1>3, <2>1, <3>1, <3>2, <3>4, <3>5 DEF x
    <2>3. CASE ~Shared(m)
      <3>1. copied' = Write(x, FALSE, m) /\ context' = [context EXCEPT !.operatorsKnown = FALSE]
        BY <1>5, <2>3, Zenon DEF SeeLarge
      <3> DEFINE d == [context EXCEPT !.operatorsKnown = FALSE]
      <3>2. /\ DOMAIN d = ContextFields /\ d.homes = context.homes /\ d.foreign = context.foreign
            /\ d.sharedDayTypes = context.sharedDayTypes /\ d.sharedOperators = context.sharedOperators
        BY <1>2 DEF ContextFields
      <3>3. context' = d
        BY <3>1, Zenon
      <3> HIDE DEF d, m, x
      <3>4. Gathered(zip, x, d)
        <4>1. x = seen + 1 /\ seen \in Nat /\ m = zip[seen + 1]
          BY <1>4, <2>1 DEF x, m
        <4>2. /\ DOMAIN context.homes \subseteq DOMAIN d.homes
              /\ \A l \in DOMAIN context.homes : d.homes[l] = context.homes[l]
              /\ \A l \in DOMAIN d.homes : l \in DOMAIN context.homes
              /\ context.foreign \subseteq d.foreign
              /\ context.sharedDayTypes \subseteq d.sharedDayTypes
              /\ \A o \in d.sharedOperators : o \in context.sharedOperators
          BY <3>2
        <4> QED BY <1>2, <2>1, <2>3, <4>1, <4>2, GatherMore
      <3>5. PICK n : /\ DOMAIN copied' = DOMAIN copied \cup {n}
                     /\ \A k \in DOMAIN copied : copied'[k] = copied[k]
                     /\ copied'[n].place = x /\ copied'[n].member = m /\ copied'[n].base = FALSE
        <4>1. EntryAdded(x, FALSE, m)
          BY <1>10, <3>1, Zenon
        <4> QED BY <4>1, Zenon DEF EntryAdded, x, m
      <3>6. AtFirst(zip, copied'[n])
        BY <2>1, <2>3, <3>5 DEF AtFirst, m
      <3>7. \A k \in DOMAIN copied' : \/ k \in DOMAIN copied /\ copied'[k] = copied[k]
                                      \/ AtFirst(zip, copied'[k])
        BY <3>5, <3>6
      <3> QED BY <1>3, <2>1, <3>2, <3>3, <3>4, <3>7 DEF x
    <2> QED BY <2>2, <2>3
  <1>6. CASE SeeWhole
    <2> DEFINE homes == [l \in DOMAIN context.homes \cup DOMAIN m.lines |->
                            IF l \in DOMAIN context.homes THEN context.homes[l] ELSE x]
               a == context.operators \cup m.operators
               b == IF Shared(m) THEN context.sharedDayTypes \cup m.dayTypes ELSE context.sharedDayTypes
               c == IF Shared(m) THEN context.sharedOperators \cup m.operators ELSE context.sharedOperators
               f == IF Shared(m) THEN context.foreign ELSE context.foreign \cup ForeignDayTypes(m)
               d == [context EXCEPT !.homes = homes, !.operators = a, !.sharedDayTypes = b,
                                    !.sharedOperators = c, !.foreign = f]
    <2>1. seen < Len(zip) /\ seen' = seen + 1 /\ zip' = zip /\ ~m.large /\ context' = d
      BY <1>6, Zenon DEF SeeWhole
    <2>2. /\ DOMAIN homes = DOMAIN context.homes \cup DOMAIN m.lines
          /\ \A l \in DOMAIN homes : homes[l] = IF l \in DOMAIN context.homes THEN context.homes[l] ELSE x
      <3> HIDE DEF m, x
      <3> QED OBVIOUS
    <2>3. /\ context.sharedDayTypes \subseteq b /\ (Shared(m) => m.dayTypes \subseteq b)
          /\ \A o \in c : o \in context.sharedOperators \/ (Shared(m) /\ o \in m.operators)
          /\ context.foreign \subseteq f /\ (~Shared(m) => ForeignDayTypes(m) \subseteq f)
      <3> HIDE DEF m
      <3> QED OBVIOUS
    <2> HIDE DEF homes, a, b, c, f
    <2>4. /\ DOMAIN d = ContextFields /\ d.homes = homes /\ d.foreign = f
          /\ d.sharedDayTypes = b /\ d.sharedOperators = c
      BY <1>2, SMTT(30) DEF ContextFields
    <2> HIDE DEF d, m, x
    <2>5. Gathered(zip, x, d)
      <3>1. x = seen + 1 /\ seen \in Nat /\ m = zip[seen + 1]
        BY <1>4, <2>1 DEF x, m
      <3>2. /\ DOMAIN context.homes \subseteq DOMAIN d.homes
            /\ \A l \in DOMAIN context.homes : d.homes[l] = context.homes[l]
            /\ \A l \in DOMAIN d.homes : l \notin DOMAIN context.homes =>
                  d.homes[l] = x /\ l \in DOMAIN m.lines
            /\ DOMAIN m.lines \subseteq DOMAIN d.homes
        BY <2>2, <2>4
      <3>3. /\ context.sharedDayTypes \subseteq d.sharedDayTypes
            /\ Shared(m) => m.dayTypes \subseteq d.sharedDayTypes
            /\ \A o \in d.sharedOperators : o \in context.sharedOperators \/ (Shared(m) /\ o \in m.operators)
            /\ context.foreign \subseteq d.foreign
            /\ ~Shared(m) => ForeignDayTypes(m) \subseteq d.foreign
        BY <2>3, <2>4
      <3> QED BY <1>2, <3>1, <3>2, <3>3, GatherMore, Zenon
    <2>6. CASE Waits(m)
      <3>1. copied' = copied
        BY <1>6, <2>6, Zenon DEF SeeWhole, m, x
      <3> QED BY <1>3, <2>1, <2>4, <2>5, <3>1 DEF x
    <2>7. CASE ~Waits(m)
      <3> DEFINE r == Repaired(m, NoContext.homes, {}, FALSE, Absent)
      <3>1. copied' = Write(x, FALSE, r)
        BY <1>6, <2>7, Zenon DEF SeeWhole, m, x
      <3>2. IsRepairOf(r, m, zip, NoContext.homes, {})
        <4>1. AreHomes(NoContext.homes)
          <5>1. DOMAIN NoContext.homes = {}
            BY DEF NoContext
          <5> QED BY <5>1 DEF AreHomes
        <4>2. IsMember(m)
          BY <1>4, <2>1
        <4>3. IsRepairOf(Repaired(m, NoContext.homes, {}, FALSE, Absent), m, zip, NoContext.homes,
                         IF FALSE THEN {} ELSE {})
          BY <4>1, <4>2, RepairedIs
        <4> QED BY <4>3
      <3> HIDE DEF r
      <3>3. PICK n : /\ DOMAIN copied' = DOMAIN copied \cup {n}
                     /\ \A k \in DOMAIN copied : copied'[k] = copied[k]
                     /\ copied'[n].place = x /\ copied'[n].member = r /\ copied'[n].base = FALSE
        <4>1. EntryAdded(x, FALSE, r)
          BY <1>10, <3>1, Zenon
        <4> QED BY <4>1, Zenon DEF EntryAdded, x, m
      <3>4. ~Shared(m)
        BY <2>7 DEF Waits
      <3>5. AtFirst(zip, copied'[n])
        BY <2>1, <2>7, <3>2, <3>3, <3>4 DEF AtFirst, m
      <3>6. \A k \in DOMAIN copied' : \/ k \in DOMAIN copied /\ copied'[k] = copied[k]
                                      \/ AtFirst(zip, copied'[k])
        BY <3>3, <3>5
      <3> QED BY <1>3, <2>1, <2>4, <2>5, <3>6 DEF x
    <2> QED BY <2>6, <2>7
  <1>7. CASE FinishHeld
    <2> DEFINE p == Head(later)
               w == zip[p]
               others == IF AsBase THEN context.sharedOperators ELSE {}
               q == Repaired(w, context.homes, context.sharedOperators, AsBase, OnlyOperator)
               r == IF w.large THEN w ELSE q
               base == AsBase /\ Shared(w)
    <2>1. /\ seen = Len(zip) /\ later # <<>> /\ zip' = zip /\ seen' = seen /\ context' = context
          /\ copied' = Write(p, base, r)
      BY <1>7, Zenon DEF FinishHeld
    <2>2. IsMember(w)
      <3>1. p \in 1..seen
        BY <1>1, <2>1, SMTT(30)
      <3> QED BY <1>1, <1>2, <2>1, <3>1
    <2>3. AreHomes(context.homes)
      BY <1>1, <1>2, HomesAre, Zenon
    <2>4. IsRepairOf(q, w, zip, context.homes, others)
      BY <2>2, <2>3, RepairedIs
    <2> HIDE DEF p, q, r, base
    <2>5. PICK n : /\ DOMAIN copied' = DOMAIN copied \cup {n}
                   /\ \A k \in DOMAIN copied : copied'[k] = copied[k]
                   /\ copied'[n].place = p /\ copied'[n].member = r /\ copied'[n].base = base
      <3>1. EntryAdded(p, base, r)
        BY <1>9, <2>1, Zenon
      <3> QED BY <3>1, Zenon DEF EntryAdded, x, m
    <2>6. AtEnd(zip, copied'[n], context, AsBase)
      <3>1. r = IF w.large THEN w ELSE q
        BY DEF r
      <3>2. base <=> AsBase /\ Shared(w)
        BY DEF base
      <3> QED BY <2>4, <2>5, <3>1, <3>2 DEF AtEnd
    <2>7. \A k \in DOMAIN copied' : \/ AtFirst(zip, copied'[k])
                                    \/ AtEnd(zip, copied'[k], context, AsBase)
      BY <1>2, <2>5, <2>6, Zenon
    <2>8. AsBase' <=> AsBase
      BY <2>1 DEF AsBase
    <2>9. \A k \in DOMAIN copied' : \/ AtFirst(zip', copied'[k])
                                    \/ AtEnd(zip', copied'[k], context', AsBase')
      BY <2>1, <2>7, <2>8
    <2>10. Gathered(zip', seen', context')
      BY <1>2, <2>1
    <2> QED BY <1>2, <2>1, <2>9, <2>10 DEF MembersFit
  <1> QED BY <1>5, <1>6, <1>7 DEF RepairNext

\* Once all are written, the shared members are base files where one is.
LEMMA BasesHold ==
    ASSUME RepairInv, MembersFit, CopyDone, AsBase, NEW i \in DOMAIN zip, Shared(zip[i])
    PROVE  \E b \in Bases : zip[i].dayTypes \subseteq b.dayTypes /\ zip[i].operators \subseteq b.operators
  <1>1. seen = Len(zip) /\ later = <<>> /\ i \in 1..seen
    BY DEF CopyDone, MembersFit
  <1>2. DOMAIN later = {}
    BY <1>1
  <1>3. PICK k \in DOMAIN copied : copied[k].place = i
    BY <1>1, <1>2 DEF RepairInv, PlacedOnce
  <1>4. AtFirst(zip, copied[k]) \/ AtEnd(zip, copied[k], context, AsBase)
    BY <1>3, Zenon DEF MembersFit
  <1>5. ~AtFirst(zip, copied[k])
    BY <1>3, Zenon DEF AtFirst
  <1> DEFINE b == copied[k].member
             m == zip[i]
  <1>6. copied[k].base /\ (b = m \/ \E o : IsRepairOf(b, m, zip, context.homes, o))
    BY <1>3, <1>4, <1>5, Zenon DEF AtEnd
  <1>7. b \in Bases
    BY <1>3, <1>6, Zenon DEF Bases
  <1> HIDE DEF b, m
  <1>8. CASE b = m
    BY <1>7, <1>8 DEF m
  <1>9. CASE \E o : IsRepairOf(b, m, zip, context.homes, o)
    <2>1. b.dayTypes = m.dayTypes /\ m.operators \subseteq b.operators
      BY <1>9, Zenon DEF IsRepairOf, Outline
    <2> QED BY <1>7, <2>1 DEF m
  <1> QED BY <1>6, <1>8, <1>9, Zenon

LEMMA FitShowsCourses == MembersFit => CoursesKept
  <1> SUFFICES ASSUME MembersFit, NEW k \in DOMAIN copied,
                      NEW i \in DOMAIN zip[copied[k].place].courses,
                      LET was == zip[copied[k].place]
                          c == was.courses[i] IN
                      \/ c.pattern \notin DOMAIN was.patterns
                      \/ c.refs = was.patterns[c.pattern].points /\ Len(c.refs) >= 2
                      \/ Readable(c.refs, was.patterns[c.pattern].points)
               PROVE  LET was == zip[copied[k].place]
                          now == copied[k].member
                          c == was.courses[i] IN
                      \E j \in DOMAIN now.courses : now.courses[j].id = c.id /\ now.courses[j].refs = c.refs
    BY Zenon DEF CoursesKept
  <1> DEFINE was == zip[copied[k].place]
             now == copied[k].member
             c == was.courses[i]
  <1>1. CourseVerdict(was, c) # "drop"
    <2>1. CourseVerdict(was, c) = "drop" <=>
             /\ c.pattern \in DOMAIN was.patterns
             /\ ~(c.refs = was.patterns[c.pattern].points /\ Len(c.refs) >= 2)
             /\ ~Readable(c.refs, was.patterns[c.pattern].points)
      <3> HIDE DEF was, c
      <3> QED BY VerdictIs, Zenon
    <2> QED BY <2>1, Zenon
  <1>2. now = was \/ \E h, o : IsRepairOf(now, was, zip, h, o)
    <2>1. AtFirst(zip, copied[k]) \/ AtEnd(zip, copied[k], context, AsBase)
      BY Zenon DEF MembersFit
    <2>2. CASE AtFirst(zip, copied[k])
      BY <2>2, Zenon DEF AtFirst
    <2>3. CASE AtEnd(zip, copied[k], context, AsBase)
      BY <2>3, Zenon DEF AtEnd
    <2> QED BY <2>1, <2>2, <2>3
  <1>3. i \in DOMAIN now.courses /\ now.courses[i].id = c.id /\ now.courses[i].refs = c.refs
    <2>1. i \in DOMAIN was.courses
      OBVIOUS
    <2> HIDE DEF now, was
    <2>2. CASE now = was
      BY <2>1, <2>2
    <2>3. CASE \E h, o : IsRepairOf(now, was, zip, h, o)
      BY <1>1, <2>1, <2>3, Zenon DEF IsRepairOf
    <2> QED BY <1>2, <2>2, <2>3
  <1> QED BY <1>3, Zenon

LEMMA FitShowsOperators == RepairInv /\ MembersFit => OperatorIsFound
  <1> SUFFICES ASSUME RepairInv, MembersFit, CopyDone, NEW k \in DOMAIN copied,
                      NEW l \in DOMAIN copied[k].member.lines
               PROVE  LET m == copied[k].member
                          given == m.lines[l].given
                          was == IF l \in DOMAIN zip[copied[k].place].lines
                                 THEN zip[copied[k].place].lines[l].given ELSE Absent
                      IN (given # Absent /\ given # was /\ ~(\E i \in DOMAIN zip : l \in DOMAIN zip[i].lines
                                               /\ zip[i].lines[l].given = given)) =>
                            given \in m.operators \cup UNION {b.operators : b \in Bases}
    BY Zenon DEF OperatorIsFound
  <1> DEFINE m == copied[k].member
             w == zip[copied[k].place]
             given == m.lines[l].given
             bases == UNION {b.operators : b \in Bases}
             elsewhere == \E i \in DOMAIN zip : l \in DOMAIN zip[i].lines /\ zip[i].lines[l].given = given
             asPublished == l \in DOMAIN w.lines /\ given = w.lines[l].given
  <1>1. Gathered(zip, seen, context) /\ DOMAIN zip = 1..seen
    BY DEF MembersFit, CopyDone
  <1>2. \A h, o : IsRepairOf(m, w, zip, h, o) =>
           \/ asPublished
           \/ l \in DOMAIN h /\ given = zip[h[l]].lines[l].given
           \/ given \in m.operators \cup o
    <2> HIDE DEF w
    <2> QED BY Zenon DEF IsRepairOf
  <1>3. asPublished \/ elsewhere \/ given \in m.operators \cup bases
    <2>1. CASE AtFirst(zip, copied[k])
      <3>1. \/ w.large /\ m = w
            \/ IsRepairOf(m, w, zip, NoContext.homes, {})
        BY <2>1, Zenon DEF AtFirst
      <3>2. CASE m = w
        BY <3>2
      <3>3. CASE IsRepairOf(m, w, zip, NoContext.homes, {})
        <4>1. l \notin DOMAIN NoContext.homes
          BY DEF NoContext
        <4>2. asPublished \/ given \in m.operators \cup {}
          BY <1>2, <3>3, <4>1, Zenon
        <4> HIDE DEF asPublished, given, m, bases
        <4> QED BY <4>2
      <3> QED BY <3>1, <3>2, <3>3, Zenon
    <2>2. CASE AtEnd(zip, copied[k], context, AsBase)
      <3> DEFINE o == IF AsBase THEN context.sharedOperators ELSE {}
      <3>1. \/ w.large /\ m = w
            \/ IsRepairOf(m, w, zip, context.homes, o)
        BY <2>2, Zenon DEF AtEnd
      <3>2. CASE m = w
        BY <3>2
      <3>3. CASE IsRepairOf(m, w, zip, context.homes, o)
        <4>0. \/ asPublished
              \/ l \in DOMAIN context.homes /\ given = zip[context.homes[l]].lines[l].given
              \/ given \in m.operators \cup o
          <5> HIDE DEF o, asPublished, given, m, w
          <5> QED BY <1>2, <3>3, Zenon
        <4>1. CASE l \in DOMAIN context.homes /\ given = zip[context.homes[l]].lines[l].given
          <5>1. context.homes[l] \in 1..seen /\ l \in DOMAIN zip[context.homes[l]].lines
            BY <1>1, <4>1, Zenon DEF Gathered
          <5> HIDE DEF given
          <5>2. elsewhere
            BY <1>1, <4>1, <5>1, Zenon
          <5> QED BY <5>2
        <4>2. ASSUME given \in o PROVE given \in bases
          <5>1. AsBase /\ given \in context.sharedOperators
            <6> HIDE DEF given
            <6> QED BY <4>2
          <5>2. PICK i \in DOMAIN zip : Shared(zip[i]) /\ given \in zip[i].operators
            <6> HIDE DEF given
            <6> QED BY <1>1, <5>1, Zenon DEF Gathered
          <5>3. PICK b \in Bases : zip[i].operators \subseteq b.operators
            BY <5>1, <5>2, BasesHold
          <5> HIDE DEF given
          <5> QED BY <5>2, <5>3
        <4> HIDE DEF asPublished, given, m, bases, o, elsewhere
        <4> QED BY <4>0, <4>1, <4>2
      <3> QED BY <3>1, <3>2, <3>3, Zenon
    <2>3. AtFirst(zip, copied[k]) \/ AtEnd(zip, copied[k], context, AsBase)
      BY Zenon DEF MembersFit
    <2> QED BY <2>1, <2>2, <2>3
  <1>4. asPublished => given = IF l \in DOMAIN w.lines THEN w.lines[l].given ELSE Absent
    <2> HIDE DEF w, given
    <2> QED OBVIOUS
  <1> QED BY <1>3, <1>4, Zenon

LEMMA FitShowsWhole == RepairInv /\ MembersFit => NothingDropped
  <1> SUFFICES ASSUME RepairInv, MembersFit, CopyDone, NEW k \in DOMAIN copied, ~copied[k].member.large
               PROVE  LET m == copied[k].member IN
                      /\ \A i \in DOMAIN m.courses : m.courses[i].pattern \in DOMAIN m.patterns =>
                           m.patterns[m.courses[i].pattern].points = m.courses[i].refs
                      /\ \A x \in m.links : x \cap CourseIds(zip[copied[k].place]) \subseteq CourseIds(m)
                      /\ m.parents \subseteq m.sites
                      /\ "lines" \in m.containers =>
                           \A l \in MissingLines(m) : \A i \in DOMAIN zip :
                              l \in DOMAIN zip[i].lines => zip[i].large
                      /\ ~Shared(zip[copied[k].place]) => \A d \in ForeignDayTypes(m) :
                           (\E i \in DOMAIN zip : Shared(zip[i]) /\ d \in zip[i].dayTypes)
                              => \E b \in Bases : d \in b.dayTypes
    BY Zenon DEF NothingDropped
  <1> DEFINE m == copied[k].member
             w == zip[copied[k].place]
  <1>1. Gathered(zip, seen, context) /\ DOMAIN zip = 1..seen /\ copied[k].place \in 1..seen
    BY DEF MembersFit, CopyDone, RepairInv, PlacedOnce
  <1>2. \/ ~Waits(w) /\ IsRepairOf(m, w, zip, NoContext.homes, {})
        \/ \E o : IsRepairOf(m, w, zip, context.homes, o)
    <2>1. CASE AtFirst(zip, copied[k])
      BY <2>1, Zenon DEF AtFirst
    <2>2. CASE AtEnd(zip, copied[k], context, AsBase)
      BY <2>2, Zenon DEF AtEnd
    <2>3. AtFirst(zip, copied[k]) \/ AtEnd(zip, copied[k], context, AsBase)
      BY Zenon DEF MembersFit
    <2> QED BY <2>1, <2>2, <2>3
  <1>3. PICK h, o : /\ IsRepairOf(m, w, zip, h, o)
                    /\ MissingLines(w) = {} \/ h = context.homes
    BY <1>2, Zenon DEF Waits
  <1>4. ~m.large
    OBVIOUS
  <1>5. w = zip[copied[k].place]
    OBVIOUS
  <1> HIDE DEF m, w
  <1>6. /\ \A i \in DOMAIN m.courses : m.courses[i].pattern \in DOMAIN m.patterns =>
             m.patterns[m.courses[i].pattern].points = m.courses[i].refs
        /\ \A x \in m.links : x \cap CourseIds(w) \subseteq CourseIds(m)
        /\ m.parents \subseteq m.sites
    BY <1>3, Zenon DEF IsRepairOf
  <1>7. m.large = w.large /\ m.containers = w.containers /\ ForeignDayTypes(m) = ForeignDayTypes(w)
    BY <1>3, Zenon DEF IsRepairOf, Outline, ForeignDayTypes
  <1>8. ASSUME "lines" \in m.containers, NEW l \in MissingLines(m), NEW i \in DOMAIN zip,
               l \in DOMAIN zip[i].lines
        PROVE  zip[i].large
    <2>1. /\ LineRefs(m) \subseteq LineRefs(w) \cup DOMAIN w.lines
          /\ DOMAIN w.lines \subseteq DOMAIN m.lines
          /\ "lines" \in w.containers => MissingLines(w) \cap DOMAIN h \subseteq DOMAIN m.lines
      BY <1>3, Zenon DEF IsRepairOf
    <2>2. l \in LineRefs(m) /\ l \notin DOMAIN m.lines
      BY <1>8, Zenon DEF MissingLines
    <2>3. l \in LineRefs(w) \ DOMAIN w.lines
      BY <2>1, <2>2
    <2>4. l \in MissingLines(w)
      BY <2>3, Zenon DEF MissingLines
    <2>5. l \notin DOMAIN h /\ h = context.homes
      BY <1>3, <1>7, <1>8, <2>1, <2>2, <2>4
    <2>6. ~zip[i].large => DOMAIN zip[i].lines \subseteq DOMAIN context.homes
      BY <1>1, <1>8, Zenon DEF Gathered
    <2> QED BY <1>8, <2>5, <2>6
  <1>9. ASSUME ~Shared(w), NEW d \in ForeignDayTypes(m), NEW i \in DOMAIN zip,
               Shared(zip[i]), d \in zip[i].dayTypes
        PROVE  \E b \in Bases : d \in b.dayTypes
    <2>1. ForeignDayTypes(w) \subseteq context.foreign
      BY <1>1, <1>4, <1>5, <1>7, <1>9, Zenon DEF Gathered
    <2>2. zip[i].dayTypes \subseteq context.sharedDayTypes
      BY <1>1, <1>9, Zenon DEF Gathered
    <2>3. d \in context.foreign /\ d \in context.sharedDayTypes
      BY <1>7, <1>9, <2>1, <2>2
    <2>4. AsBase
      BY <2>3 DEF AsBase
    <2>5. PICK b \in Bases : zip[i].dayTypes \subseteq b.dayTypes
      BY <1>9, <2>4, BasesHold
    <2> QED BY <1>9, <2>5
  <1> QED BY <1>5, <1>6, <1>8, <1>9, Zenon DEF m

-----------------------------------------------------------------------------
(* The parts together *)

FilesInv ==
    /\ StoreInv /\ OsmInv /\ IntakeInv /\ DownloadInv /\ ResolverInv
    /\ FilterInv /\ CalendarInv /\ NotesTold /\ RepairInv /\ MembersFit

\* A part at rest satisfies its invariant too.
LEMMA FilesStart == Init => FilesInv
  <1> SUFFICES ASSUME Init PROVE DownloadInv /\ ResolverInv
    BY StoreStarts, OsmStarts, IntakeStarts, FilterStarts, CalendarStarts, NotesStart,
       RepairStarts, FitStarts DEF Init, FilesInv
  <1>1. DownloadInv
    <2>1. CASE part = "download"
      BY <2>1, DownloadStarts DEF Init
    <2>2. CASE part # "download"
      <3>1. /\ dpc = "failed" /\ held = NoVersion /\ published = 1 /\ coded = FALSE /\ dest = <<>>
            /\ total = 0 /\ validator = NoVersion /\ ranges = FALSE /\ resuming = FALSE
            /\ before = 0 /\ body = NoVersion /\ limit = 0 /\ tried = NoneTried /\ requests = 0
            /\ server = [ranges |-> TRUE, strong |-> TRUE, framing |-> "length",
                         accepts |-> {"identity"}]
        BY <2>2 DEF Init
      <3>2. 1 \in Versions /\ NoneTried \in Budgets
        BY DownloadAssumption DEF NoneTried, Budgets
      <3>3. server \in Servers
        BY <3>1 DEF Servers
      <3>4. DownloadTypeOK
        BY <3>1, <3>2, <3>3, NothingYet DEF DownloadTypeOK
      <3>5. requests <= Spent
        BY <3>1 DEF Spent, NoneTried
      <3>6. Uniform /\ OneWholeVersion
        BY <3>1 DEF Uniform, OneWholeVersion
      <3> QED BY <3>4, <3>5, <3>6 DEF DownloadInv
    <2> QED BY <2>1, <2>2
  <1>2. ResolverInv
    <2>1. ResolverInit \/ ResolverAtRest
      BY DEF Init
    <2>2. ResolverAtRest => ResolverInit
      BY DEF ResolverAtRest, ResolverInit, Answers
    <2> QED BY <2>1, <2>2, ResolverStarts
  <1> QED BY <1>1, <1>2

\* A step of one part is a step of it or leaves it alone.
LEMMA StepOf ==
    [Next]_allVars =>
        /\ [StoreNext]_storeVars /\ [OsmNext]_osmVars /\ [IntakeNext]_intakeVars
        /\ [DownloadNext]_downloadVars /\ [ResolverNext]_resolverVars
        /\ [FilterNext]_filterVars /\ [CalendarNext]_calendarVars /\ [RepairNext]_repairVars
  <1> SUFFICES ASSUME [Next]_allVars
               PROVE /\ [StoreNext]_storeVars /\ [OsmNext]_osmVars /\ [IntakeNext]_intakeVars
                     /\ [DownloadNext]_downloadVars /\ [ResolverNext]_resolverVars
                     /\ [FilterNext]_filterVars /\ [CalendarNext]_calendarVars
                     /\ [RepairNext]_repairVars
    OBVIOUS
  <1>1. CASE UNCHANGED allVars
    BY <1>1 DEF allVars, fileVars, feedVars
  <1>2. CASE Next
    BY <1>2, Zenon DEF Next, DownloadRest, fileVars, feedVars
  <1> QED BY <1>1, <1>2

LEMMA FilesKept == FilesInv /\ [Next]_allVars => FilesInv'
  <1> SUFFICES ASSUME FilesInv, [Next]_allVars PROVE FilesInv'
    OBVIOUS
  <1>1. DownloadInv'
    BY StepOf, DownloadKept, DownloadStays DEF FilesInv
  <1>2. ResolverInv'
    BY StepOf, ResolverKept, ResolverStays DEF FilesInv
  <1>3. CalendarInv' /\ NotesTold'
    BY StepOf, CalendarKept, NotesKept DEF FilesInv
  <1>4. RepairInv' /\ MembersFit'
    BY StepOf, RepairKept, FitKept DEF FilesInv
  <1> QED BY <1>1, <1>2, <1>3, <1>4, StepOf, StoreKept, OsmKept, OsmStays, IntakeKept,
             FilterKept DEF FilesInv

\* THEOREM: the graph a session serves is complete on disk and is the one its snapshot row
\* records, a build reads a whole copy of its timetable file no older than the file it looked at,
\* and the newest OSM generation comes first (run_build, record_snapshot, _motis_timetable_path,
\* _rotate_osm_pbf). A session is deleted at most once: with two deletions a clean-up that read
\* the row as gone can remove the folder of the session created since.
THEOREM GraphsAreStored ==
    ASSUME MaxDeletions <= 1
    PROVE Spec => []StoredIsServed
  <1>1. FilesInv => StoredIsServed
    BY StoreShows DEF FilesInv, OsmInv, StoredIsServed
  <1> QED BY <1>1, FilesStart, FilesKept, PTL DEF Spec

\* THEOREM: however often sessions are deleted, the link names a complete graph unless a deleted
\* session left something behind, a build reads a whole and fresh copy of its timetable file, and
\* a newer OSM file is never behind an older one (the parts of StoredIsServed without a condition).
THEOREM StoreHolds == Spec => [](StoreTypeOK /\ ServedGraphExists /\ CopyIsFresh /\ NewestFirst)
  <1>1. FilesInv => StoreTypeOK /\ ServedGraphExists /\ CopyIsFresh /\ NewestFirst
    BY StoreShows DEF FilesInv, OsmInv
  <1> QED BY <1>1, FilesStart, FilesKept, PTL DEF Spec

\* THEOREM: a refresh never writes back over what an administrator saved while it ran
\* (_relock_session), whatever uploads and crashes happen in between.
THEOREM SavesAreKept == Spec => [](IntakeTypeOK /\ SavesSurvive)
  <1>1. FilesInv => IntakeTypeOK /\ SavesSurvive
    BY IntakeShows DEF FilesInv
  <1> QED BY <1>1, FilesStart, FilesKept, PTL DEF Spec

\* THEOREM: what is downloaded is one whole version of the file, however often it was cut, resumed,
\* refused or replaced meanwhile, and no run of errors makes the download send more requests than
\* its budgets together (_download_into, _ride_out, accept_range).
THEOREM DownloadsAreWhole == Spec => [](DownloadTypeOK /\ OneWholeVersion /\ RequestsBounded)
  <1>1. FilesInv => DownloadTypeOK /\ OneWholeVersion /\ RequestsBounded
    BY DownloadShows DEF FilesInv
  <1> QED BY <1>1, FilesStart, FilesKept, PTL DEF Spec

\* THEOREM: a resolver takes the newest file there is, or none: it steps past no day that it did
\* not ask, replaces no resource that is gone and chooses among entries by their order alone, and
\* the timetable year changes on its Sunday (app/feed_resolvers.py), for every catalogue.
THEOREM ResolversNeverGuess ==
    Spec => [](DatedIsNewest /\ NewestIsTaken /\ NeverGuessed /\ YearChangesOnSunday)
  <1>1. FilesInv => DatedIsNewest /\ NewestIsTaken /\ NeverGuessed /\ YearChangesOnSunday
    BY ResolverShows DEF FilesInv
  <1> QED BY <1>1, FilesStart, FilesKept, PTL DEF Spec

\* THEOREM: where a refresh and an upload do not overlap, a feed arrives as one whole version of
\* the file its resolver names, the inbox holds only files of the saved configuration when the
\* refresh ends (_sweep_orphans), and a feed reported unchanged is the one in its slot, but where
\* a derived file took its place.
THEOREM FeedsArriveWhole ==
    ASSUME ~Overlap
    PROVE Spec => []ArrivedIsWhole
  <1>1. FilesInv => ArrivedIsWhole
    BY IntakeShows, DownloadShows, ResolverShows DEF FilesInv, ArrivedIsWhole
  <1> QED BY <1>1, FilesStart, FilesKept, PTL DEF Spec

\* THEOREM: of RewrittenIsSound, what the corridor filter and the pass over a zip promise, for
\* every feed that names only rows it has and every zip. A corridor feed has a row for all that its
\* rows name; corridors of several homes hold a train once; a route kept really calls in two
\* countries; no order of stop_times changes what is kept (filter_to_cross_border); and a member of
\* a NeTEx zip is written once or waits (_ZipPass).
THEOREM RewritesKeepTheirRows ==
    Spec => [](FilteredIsClosed /\ OwnedOnce /\ NoFalseCrossing /\ RowsInAnyOrder /\ MembersOnce)
  <1>1. FilesInv => FilteredIsClosed /\ OwnedOnce /\ NoFalseCrossing /\ RowsInAnyOrder /\ MembersOnce
    BY FilterShows, RepairShows DEF FilesInv
  <1> QED BY <1>1, FilesStart, FilesKept, PTL DEF Spec

\* THEOREM: of RewrittenIsSound, what the calendar promises, for every frame. However the array
\* of a day type has grown, it holds the days the assignments applied so far say; and the period
\* written for it reads back as the days the published assignments say in their order, unless the
\* scan of a large frame counted one out of order (_DayBits, _Calendar.apply, render, convert_frame).
THEOREM CalendarsAreExact == Spec => [](DaysExact /\ RewriteIsExact)
  <1>1. FilesInv => DaysExact /\ RewriteIsExact
    BY CalendarShows DEF FilesInv
  <1> QED BY <1>1, FilesStart, FilesKept, PTL DEF Spec

\* THEOREM: of RewrittenIsSound, what the repairs of a member promise, for every zip. A member
\* that is not large comes out with courses that pair with their patterns, links and parents it
\* has, the lines that a whole file of the zip defines and the shared day types it names, in it or
\* in a base file; a course is dropped only when no pattern can be derived for it; and a line is
\* given only an operator of its own file or of a base file (repair, _ZipPass.finish).
THEOREM MembersStayWhole == Spec => [](NothingDropped /\ CoursesKept /\ OperatorIsFound)
  <1>1. FilesInv => NothingDropped /\ CoursesKept /\ OperatorIsFound
    BY FitShowsWhole, FitShowsCourses, FitShowsOperators DEF FilesInv
  <1> QED BY <1>1, FilesStart, FilesKept, PTL DEF Spec

\* THEOREM: a rewritten feed says what the original said, where no assignment that gives days
\* names a period that ends before it begins. Beside what the three theorems above say, a frame is
\* left as published only where MOTIS reads it right (_Calendar.note, needs_conversion).
THEOREM RewritesAreSound ==
    ASSUME PeriodsRun
    PROVE Spec => []RewrittenIsSound
  <1>1. FilesInv => FilteredIsClosed /\ OwnedOnce /\ NoFalseCrossing /\ RowsInAnyOrder /\ MembersOnce
    BY FilterShows, RepairShows DEF FilesInv
  <1>2. FilesInv => DaysExact /\ RewriteIsExact /\ LeftAloneIsRead
    BY CalendarShows, NotesShow DEF FilesInv
  <1>3. FilesInv => NothingDropped /\ CoursesKept /\ OperatorIsFound
    BY FitShowsWhole, FitShowsCourses, FitShowsOperators DEF FilesInv
  <1>4. FilesInv => RewrittenIsSound
    BY <1>1, <1>2, <1>3 DEF RewrittenIsSound
  <1> QED BY <1>4, FilesStart, FilesKept, PTL DEF Spec

\* THEOREM: no step loses a file somebody still needs. A slot's file moves to the generation behind
\* it or to the quarantine, a clean-up spares the build under way and the graph being served, and
\* an OSM generation is dropped only by the rotation that replaces it.
THEOREM NothingIsLost == Spec => FilesAreKept
  <1>1. FilesInv /\ [Next]_allVars => [FilesStay]_intakeVars
    BY FilesStayed, StepOf DEF FilesInv
  <1>2. FilesInv /\ [Next]_allVars => [SparesBuild]_storeVars
    BY CleanupSpares, StepOf DEF FilesInv
  <1>3. FilesInv /\ [Next]_allVars => [FileKept]_osmVars
    BY OsmFileStays, StepOf DEF FilesInv
  <1>4. Spec => [][FilesStay]_intakeVars /\ [][SparesBuild]_storeVars /\ [][FileKept]_osmVars
    BY <1>1, <1>2, <1>3, FilesStart, FilesKept, PTL DEF Spec
  <1> QED BY <1>4
             DEF FilesAreKept, NoFileDropped, CleanupSparesBuild, OsmFileKept, FilesStay,
                 SparesBuild, FileKept

=============================================================================
