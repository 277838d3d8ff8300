------------------------- MODULE RebuildWorkerProofs -------------------------
(***************************************************************************)
(* Proofs about RebuildWorker, for any sessions, requests and bounds. What *)
(* docker and the disk must do for two of them is the hypothesis ~Faults.  *)
(* Each conjunct of the inductive invariant has a lemma: the actions that  *)
(* leave its variables alone are one step, each other action is a case.    *)
(***************************************************************************)
EXTENDS RebuildWorker, FiniteSetTheorems, TLAPS

\* Where the worker holds a claimed job, and where that job has its folder.
Working == {"prepare", "mark", "stop", "run", "wait", "unlink", "link", "prune",
            "finally", "record"}
WithFolder == {"mark", "stop", "run", "wait", "unlink", "link", "prune"}

\* A request that has not inserted has no row, and nothing cancels a missing row.
Rows ==
    \A j \in Requests :
        /\ pc[j] \in {"idle", "queue", "insert"} => status[j] = "none"
        /\ cancelPc[j] # "none" => status[j] # "none"

\* A job with a folder or a container was claimed: no longer pending.
Started ==
    \A j \in Requests :
        j \in containers \/ j \in folders => status[j] \notin {"none", "pending"}

\* The job the worker holds was pending when it was claimed, and is not again.
Held ==
    /\ wpc \in Working \cup {"claim"} => wjob \in Requests
    /\ wpc \in Working => status[wjob] \notin {"none", "pending"}
    /\ wpc \in Working => wjob \notin withdrawn
    /\ wpc \in {"prepare", "mark", "stop", "run"} => runsLeft > 0

\* The folder being built is the newest, complete before it is linked.
Building ==
    /\ \A j \in Requests : stamp[j] <= builds
    /\ wpc \in WithFolder => wjob \in folders /\ stamp[wjob] = builds
    /\ wpc \in {"unlink", "link", "prune"} => wjob \in whole
    /\ wpc = "prune" => current[SessionOf[wjob]] = wjob

\* No container outlives its build but across a restart of the worker.
Alone ==
    /\ \A a, b \in containers : a = b
    /\ wpc \notin {"down", "orphans", "kill", "wait"} => containers = {}
    /\ wpc = "wait" => containers \subseteq {wjob}

Marked == StoppedAreRemembered /\ (wpc = "stop" => marker)

IInv ==
    /\ TypeOK /\ Rows /\ Started /\ Held
    /\ PlacedIsNotForgotten /\ CancelWins
    /\ Building /\ CurrentIsWhole
    /\ ~Faults => Alone /\ Marked

\* The worker starts in the invariant.
LEMMA InitIInv == Init => IInv
<1> SUFFICES ASSUME Init PROVE IInv
  OBVIOUS
<1> USE RebuildAssumption DEF Init
<1>1. JobTypes
  BY DEF JobTypes, Statuses
<1>0. wmax \in BOOLEAN /\ marker \in BOOLEAN /\ servicesUp \in BOOLEAN
     /\ leftDown \in BOOLEAN
  BY Zenon
<1>2. WebTypes /\ WorkerTypes
  BY <1>0 DEF WebTypes, WorkerTypes
<1>3. DiskTypes
  BY <1>0 DEF DiskTypes
<1>4. Rows /\ Started /\ Held /\ PlacedIsNotForgotten /\ CancelWins
  BY DEF Rows, Started, Held, Working, PlacedIsNotForgotten, CancelWins
<1>5. Building /\ CurrentIsWhole /\ Alone /\ Marked
  BY DEF Building, WithFolder, CurrentIsWhole, Alone, Marked, StoppedAreRemembered
<1>6. QED
  BY <1>1, <1>2, <1>3, <1>4, <1>5 DEF IInv, TypeOK

\* Every step keeps the types of the rows.
LEMMA JobTypesStep ==
  ASSUME IInv, [Next]_vars
  PROVE  JobTypes'
<1> USE RebuildAssumption DEF IInv, jobVars, webVars, workerVars, diskVars, history
<1>0. \/ UNCHANGED <<status, maxMem, cancelReq, order, ripe>>
      \/ \E r \in Requests : Insert(r)
      \/ \E r \in Requests : Upgrade(r)
      \/ \E r \in Requests : CancelCommit(r)
      \/ Ripen
      \/ MarkOrphans
      \/ Claim
      \/ Record
  BY ZenonT(60) DEF Next, Request, Startup, Tick, Build, Place, Ask, ReadPending, CancelRead,
     RefreshStarts, RefreshEnds, KillOrphans, Recover, Select, NotClaimed, NotBuilt,
     MakeFolder, TickRaises, MarkStopped, StopServices, RunContainer,
     ContainerSucceeds, ContainerFails, Unlink, Link, Prune, BuildRaises, Finally,
     Crash, OrphanEnds, Restart, Idle, Leave, vars
<1>1. CASE UNCHANGED <<status, maxMem, cancelReq, order, ripe>>
  BY <1>1 DEF TypeOK, JobTypes, Statuses, WebTypes, WorkerTypes
<1>2. CASE \E r \in Requests : Insert(r)
  BY <1>2 DEF Insert, Wants, TypeOK, JobTypes, Statuses, WebTypes, WorkerTypes
<1>3. CASE \E r \in Requests : Upgrade(r)
  <2>1. PICK r \in Requests : Upgrade(r)
    BY <1>3
  <2>2. maxMem' \in [Requests -> BOOLEAN]
    <3>1. maxMem \in [Requests -> BOOLEAN] /\ maxMem' = [maxMem EXCEPT ![target[r]] = TRUE]
      BY <2>1 DEF Upgrade, TypeOK, JobTypes
    <3> QED
      BY <3>1, Zenon
  <2> QED
    BY <2>1, <2>2 DEF Upgrade, TypeOK, JobTypes
<1>4. CASE \E r \in Requests : CancelCommit(r)
  <2>1. PICK j \in Requests : CancelCommit(j)
    BY <1>4
  <2>2. /\ status' \in [Requests -> Statuses]
        /\ UNCHANGED <<maxMem, order, ripe>>
    BY <2>1 DEF CancelCommit, TypeOK, JobTypes, Statuses
  <2>3. cancelReq \in [Requests -> BOOLEAN]
    BY DEF TypeOK, JobTypes
  <2>4. cancelReq' = cancelReq \/ cancelReq' = [cancelReq EXCEPT ![j] = TRUE]
    BY <2>1 DEF CancelCommit
  <2>5. cancelReq' \in [Requests -> BOOLEAN]
    BY <2>3, <2>4, Zenon
  <2> QED
    BY <2>2, <2>5 DEF TypeOK, JobTypes
<1>5. CASE Ripen
  BY <1>5 DEF Ripen, TypeOK, JobTypes, Statuses, WebTypes, WorkerTypes
<1>6. CASE MarkOrphans
  BY <1>6 DEF MarkOrphans, TypeOK, JobTypes, Statuses, WebTypes, WorkerTypes
<1>7. CASE Claim
  BY <1>7 DEF Claim, MayClaim, TypeOK, JobTypes, Statuses, WebTypes, WorkerTypes
<1>8. CASE Record
  BY <1>8 DEF Record, Idle, Leave, FinalStatus, TypeOK, JobTypes, Statuses, WebTypes,
     WorkerTypes
<1>9. QED
  BY <1>0, <1>1, <1>2, <1>3, <1>4, <1>5, <1>6, <1>7, <1>8

\* Every step keeps the types of the requests.
LEMMA WebTypesStep ==
  ASSUME IInv, [Next]_vars
  PROVE  WebTypes'
<1> USE RebuildAssumption DEF IInv, jobVars, webVars, workerVars, diskVars, history
<1>0. \/ UNCHANGED <<pc, target, cancelPc, refreshing, refreshes>>
      \/ \E r \in Requests : Place(r)
      \/ \E r \in Requests : Ask(r)
      \/ \E r \in Requests : ReadPending(r)
      \/ \E r \in Requests : Insert(r)
      \/ \E r \in Requests : Upgrade(r)
      \/ \E r \in Requests : CancelRead(r)
      \/ \E r \in Requests : CancelCommit(r)
      \/ \E s \in Sessions : RefreshStarts(s)
      \/ \E s \in Sessions : RefreshEnds(s)
  BY DEF Next, Request, Startup, Tick, Build, Ripen, MarkOrphans, KillOrphans, Recover,
     Select, Claim, NotClaimed, NotBuilt, MakeFolder, TickRaises, MarkStopped,
     StopServices, RunContainer, ContainerSucceeds, ContainerFails, Unlink, Link, Prune,
     BuildRaises, Finally, Record, Crash, OrphanEnds, Restart, Idle, Leave, vars
<1>1. CASE UNCHANGED <<pc, target, cancelPc, refreshing, refreshes>>
  BY <1>1 DEF TypeOK, WebTypes, JobTypes
<1>2. CASE \E r \in Requests : Place(r)
  BY <1>2 DEF Place, TypeOK, WebTypes, JobTypes
<1>3. CASE \E r \in Requests : Ask(r)
  BY <1>3 DEF Ask, TypeOK, WebTypes, JobTypes
<1>4. CASE \E r \in Requests : ReadPending(r)
  BY <1>4 DEF ReadPending, Coalesced, PendingOf, Wants, TypeOK, WebTypes, JobTypes
<1>5. CASE \E r \in Requests : Insert(r)
  BY <1>5 DEF Insert, Wants, TypeOK, WebTypes, JobTypes
<1>6. CASE \E r \in Requests : Upgrade(r)
  BY <1>6 DEF Upgrade, TypeOK, WebTypes, JobTypes
<1>7. CASE \E r \in Requests : CancelRead(r)
  BY <1>7 DEF CancelRead, TypeOK, WebTypes, JobTypes
<1>8. CASE \E r \in Requests : CancelCommit(r)
  BY <1>8 DEF CancelCommit, PendingOf, TypeOK, WebTypes, JobTypes
<1>9. CASE \E s \in Sessions : RefreshStarts(s)
  BY <1>9 DEF RefreshStarts, TypeOK, WebTypes, JobTypes
<1>10. CASE \E s \in Sessions : RefreshEnds(s)
  BY <1>10 DEF RefreshEnds, TypeOK, WebTypes, JobTypes
<1>11. QED
  BY <1>0, <1>1, <1>2, <1>3, <1>4, <1>5, <1>6, <1>7, <1>8, <1>9, <1>10

\* Every step keeps the types of the worker's state.
LEMMA WorkerTypesStep ==
  ASSUME IInv, [Next]_vars
  PROVE  WorkerTypes'
<1> USE RebuildAssumption DEF IInv, jobVars, webVars, workerVars, diskVars, history
<1>0. \/ UNCHANGED <<wpc, wjob, wmax, result, runsLeft>>
      \/ MarkOrphans
      \/ KillOrphans
      \/ Recover
      \/ \E r \in Requests : Select(r)
      \/ Claim
      \/ NotClaimed
      \/ NotBuilt
      \/ MakeFolder
      \/ TickRaises
      \/ MarkStopped
      \/ StopServices
      \/ RunContainer
      \/ ContainerSucceeds
      \/ ContainerFails
      \/ Unlink
      \/ Link
      \/ Prune
      \/ BuildRaises
      \/ Finally
      \/ Record
      \/ Crash
      \/ Restart
  BY DEF Next, Request, Startup, Tick, Build, Place, Ask, ReadPending, Insert, Upgrade,
     CancelRead, CancelCommit, RefreshStarts, RefreshEnds, Ripen, OrphanEnds, vars
<1>1. CASE UNCHANGED <<wpc, wjob, wmax, result, runsLeft>>
  BY <1>1 DEF TypeOK, WorkerTypes, Held, JobTypes
<1>2. CASE MarkOrphans
  BY <1>2 DEF MarkOrphans, TypeOK, WorkerTypes, Held, JobTypes
<1>3. CASE KillOrphans
  BY <1>3 DEF KillOrphans, Surviving, TypeOK, WorkerTypes, Held, JobTypes
<1>4. CASE Recover
  BY <1>4 DEF Recover, TypeOK, WorkerTypes, Held, JobTypes
<1>5. CASE \E r \in Requests : Select(r)
  BY <1>5 DEF Select, NextPendingJob, Eligible, TypeOK, WorkerTypes, Held, JobTypes
<1>6. CASE Claim
  BY <1>6 DEF Claim, MayClaim, TypeOK, WorkerTypes, Held, JobTypes
<1>7. CASE NotClaimed
  <2>1. wmax' \in BOOLEAN
    BY <1>7, Zenon DEF NotClaimed, Idle, Leave, MayClaim, TypeOK, WorkerTypes
  <2> QED
    BY <1>7, <2>1 DEF NotClaimed, Idle, Leave, MayClaim, TypeOK, WorkerTypes, Held,
       JobTypes
<1>8. CASE NotBuilt
  BY <1>8 DEF NotBuilt, TypeOK, WorkerTypes, Held, JobTypes
<1>9. CASE MakeFolder
  BY <1>9 DEF MakeFolder, TypeOK, WorkerTypes, Held, JobTypes
<1>10. CASE TickRaises
  <2>1. wmax' \in BOOLEAN
    BY <1>10, Zenon DEF TickRaises, Idle, Leave, TypeOK, WorkerTypes
  <2> QED
    BY <1>10, <2>1 DEF TickRaises, Idle, Leave, TypeOK, WorkerTypes, Held, JobTypes
<1>11. CASE MarkStopped
  BY <1>11 DEF MarkStopped, TypeOK, WorkerTypes, Held, JobTypes
<1>12. CASE StopServices
  <2>1. wmax' \in BOOLEAN
    BY <1>12, Zenon DEF StopServices, Idle, Leave, TypeOK, WorkerTypes
  <2>2. \/ wpc' = "run" /\ UNCHANGED <<wjob, result, runsLeft>>
        \/ wpc' = "tick" /\ wjob' = NoJob /\ result' = "none" /\ runsLeft' = 0
    BY <1>12, Zenon DEF StopServices, Idle, Leave
  <2> QED
    BY <2>1, <2>2 DEF TypeOK, WorkerTypes
<1>13. CASE RunContainer
  BY <1>13 DEF RunContainer, TypeOK, WorkerTypes, Held, JobTypes
<1>14. CASE ContainerSucceeds
  BY <1>14 DEF ContainerSucceeds, TypeOK, WorkerTypes, Held, JobTypes
<1>15. CASE ContainerFails
  BY <1>15 DEF ContainerFails, TypeOK, WorkerTypes, Held, JobTypes
<1>16. CASE Unlink
  BY <1>16 DEF Unlink, TypeOK, WorkerTypes, Held, JobTypes
<1>17. CASE Link
  BY <1>17 DEF Link, TypeOK, WorkerTypes, Held, JobTypes
<1>18. CASE Prune
  BY <1>18 DEF Prune, TypeOK, WorkerTypes, Held, JobTypes
<1>19. CASE BuildRaises
  BY <1>19 DEF BuildRaises, TypeOK, WorkerTypes, Held, JobTypes
<1>20. CASE Finally
  <2>1. wmax' \in BOOLEAN
    BY <1>20, Zenon DEF Finally, Idle, Leave, Discarded, TypeOK, WorkerTypes
  <2> QED
    BY <1>20, <2>1 DEF Finally, Idle, Leave, Discarded, TypeOK, WorkerTypes, Held,
       JobTypes
<1>21. CASE Record
  <2>1. wmax' \in BOOLEAN
    BY <1>21, Zenon DEF Record, Idle, Leave, FinalStatus, TypeOK, WorkerTypes
  <2> QED
    BY <1>21, <2>1 DEF Record, Idle, Leave, FinalStatus, TypeOK, WorkerTypes, Held,
       JobTypes
<1>22. CASE Crash
  <2>1. wmax' \in BOOLEAN
    BY <1>22, Zenon DEF Crash, Leave, TypeOK, WorkerTypes
  <2> QED
    BY <1>22, <2>1 DEF Crash, Leave, TypeOK, WorkerTypes, Held, JobTypes
<1>23. CASE Restart
  BY <1>23 DEF Restart, TypeOK, WorkerTypes, Held, JobTypes
<1>24. QED
  BY <1>0, <1>1, <1>2, <1>3, <1>4, <1>5, <1>6, <1>7, <1>8, <1>9, <1>10, <1>11, <1>12,
     <1>13, <1>14, <1>15, <1>16, <1>17, <1>18, <1>19, <1>20, <1>21, <1>22, <1>23

\* A restart of the services leaves none of them both down and unnamed, when compose
\* ps can be asked.
LEMMA Restarted ==
  ASSUME StartServices
  PROVE  /\ marker' \in BOOLEAN /\ servicesUp' \in BOOLEAN /\ leftDown' \in BOOLEAN
         /\ ~Faults => servicesUp' \/ leftDown'
<1>1. PICK end \in Restarts : /\ servicesUp' = (servicesUp \/ end = "up")
                             /\ leftDown' = (~servicesUp /\ end = "named")
  BY DEF StartServices
<1>2. ~Faults => end = "up" \/ end = "named"
  BY <1>1 DEF Restarts
<1>3. servicesUp' \in BOOLEAN /\ leftDown' \in BOOLEAN
  BY <1>1, Zenon
<1>4. marker' \in BOOLEAN
  BY Zenon DEF StartServices
<1>5. ~Faults => servicesUp' \/ leftDown'
  BY <1>1, <1>2, Zenon
<1>6. QED
  BY <1>3, <1>4, <1>5

\* Every step keeps the types of the containers and of the disk.
LEMMA DiskTypesStep ==
  ASSUME IInv, [Next]_vars
  PROVE  DiskTypes'
<1> USE RebuildAssumption DEF IInv, jobVars, webVars, workerVars, diskVars, history
<1>0. \/ UNCHANGED <<containers, builds, stamp, folders,
                      whole, current, marker, servicesUp, leftDown, crashes>>
      \/ KillOrphans
      \/ Recover
      \/ MakeFolder
      \/ TickRaises
      \/ BuildRaises
      \/ MarkStopped
      \/ StopServices
      \/ RunContainer
      \/ ContainerSucceeds
      \/ ContainerFails
      \/ Unlink
      \/ Link
      \/ Prune
      \/ Finally
      \/ Crash
      \/ OrphanEnds
  BY DEF Next, Request, Startup, Tick, Build, Place, Ask, ReadPending, Insert, Upgrade,
     CancelRead, CancelCommit, RefreshStarts, RefreshEnds, Ripen, MarkOrphans, Select,
     Claim, NotClaimed, NotBuilt, Record, Restart, Idle,
     Leave, vars
<1>1. CASE UNCHANGED <<containers, builds, stamp, folders,
                      whole, current, marker, servicesUp, leftDown, crashes>>
  BY <1>1 DEF TypeOK, DiskTypes, WorkerTypes, Held, Working
<1>2. CASE KillOrphans
  BY <1>2 DEF KillOrphans, Surviving, TypeOK, DiskTypes, WorkerTypes, Held, Working
<1>3. CASE Recover
  <2>1. \/ StartServices /\ UNCHANGED crashes
        \/ StartRaises
        \/ UNCHANGED <<marker, servicesUp, leftDown, crashes>>
    BY <1>3, Zenon DEF Recover
  <2>2. marker' \in BOOLEAN /\ servicesUp' \in BOOLEAN /\ leftDown' \in BOOLEAN
    BY <2>1, Restarted, Zenon DEF StartRaises, TypeOK, DiskTypes
  <2>5. UNCHANGED crashes \/ Raises
    BY <2>1, Zenon DEF StartRaises
  <2>3. crashes' \in 0 .. MaxCrashes
    BY <2>5 DEF Raises, TypeOK, DiskTypes
  <2> QED
    BY <1>3, <2>2, <2>3 DEF Recover, TypeOK, DiskTypes
<1>4. CASE MakeFolder
  BY <1>4 DEF MakeFolder, TypeOK, DiskTypes, WorkerTypes, Held, Working
<1>5. CASE MarkStopped
  BY <1>5 DEF MarkStopped, TypeOK, DiskTypes, WorkerTypes, Held, Working
<1>6. CASE StopServices
  <2>1. marker' \in BOOLEAN /\ servicesUp' \in BOOLEAN /\ leftDown' \in BOOLEAN
    BY <1>6, Zenon DEF StopServices, TypeOK, DiskTypes
  <2>5. UNCHANGED crashes \/ Raises
    BY <1>6, Zenon DEF StopServices
  <2>2. crashes' \in 0 .. MaxCrashes
    BY <2>5 DEF Raises, TypeOK, DiskTypes
  <2> QED
    BY <1>6, <2>1, <2>2 DEF StopServices, TypeOK, DiskTypes
<1>7. CASE RunContainer
  BY <1>7 DEF RunContainer, TypeOK, DiskTypes, WorkerTypes, Held, Working
<1>8. CASE ContainerSucceeds
  BY <1>8 DEF ContainerSucceeds, TypeOK, DiskTypes, WorkerTypes, Held, Working
<1>9. CASE ContainerFails
  BY <1>9 DEF ContainerFails, TypeOK, DiskTypes, WorkerTypes, Held, Working
<1>10. CASE Unlink
  BY <1>10 DEF Unlink, TypeOK, DiskTypes, WorkerTypes, Held, Working
<1>11. CASE Link
  BY <1>11 DEF Link, TypeOK, DiskTypes, WorkerTypes, Held, Working
<1>12. CASE Prune
  BY <1>12 DEF Prune, TypeOK, DiskTypes, WorkerTypes, Held, Working
<1>13. CASE Finally
  <2>1. \/ StartServices /\ UNCHANGED crashes
        \/ StartRaises
        \/ UNCHANGED <<marker, servicesUp, leftDown, crashes>>
    BY <1>13, Zenon DEF Finally
  <2>2. marker' \in BOOLEAN /\ servicesUp' \in BOOLEAN /\ leftDown' \in BOOLEAN
    BY <2>1, Restarted, Zenon DEF StartRaises, TypeOK, DiskTypes
  <2>5. UNCHANGED crashes \/ Raises
    BY <2>1, Zenon DEF StartRaises
  <2>3. crashes' \in 0 .. MaxCrashes
    BY <2>5 DEF Raises, TypeOK, DiskTypes
  <2>4. folders' \subseteq Requests
    BY <1>13 DEF Finally, TypeOK, DiskTypes
  <2> QED
    BY <1>13, <2>2, <2>3, <2>4 DEF Finally, TypeOK, DiskTypes
<1>14. CASE Crash
  BY <1>14 DEF Crash, Raises, Leave, TypeOK, DiskTypes, WorkerTypes, Held, Working
<1>15. CASE OrphanEnds
  BY <1>15 DEF OrphanEnds, TypeOK, DiskTypes, WorkerTypes, Held, Working
<1>17. CASE TickRaises
  BY <1>17 DEF TickRaises, Raises, TypeOK, DiskTypes, WorkerTypes, Held, Working
<1>18. CASE BuildRaises
  BY <1>18 DEF BuildRaises, Raises, TypeOK, DiskTypes, WorkerTypes, Held, Working
<1>16. QED
  BY <1>0, <1>1, <1>2, <1>3, <1>4, <1>5, <1>6, <1>7, <1>8, <1>9, <1>10, <1>11, <1>12,
     <1>13, <1>14, <1>15, <1>17, <1>18

\* Every step keeps the types.
LEMMA TypeStep ==
  ASSUME IInv, [Next]_vars
  PROVE  TypeOK'
<1>1. unbuilt' \subseteq Files /\ withdrawn' \subseteq Requests
  BY RebuildAssumption DEF IInv, TypeOK, Next, Request, Startup, Tick, Build, Place,
     Ask, ReadPending, Insert, Upgrade, CancelRead, CancelCommit, RefreshStarts,
     RefreshEnds, Ripen, MarkOrphans, KillOrphans, Recover, Select, Claim, NotClaimed,
     NotBuilt, MakeFolder, TickRaises, MarkStopped, StopServices, RunContainer,
     ContainerSucceeds, ContainerFails, Unlink, Link, Prune, BuildRaises, Finally,
     Record, Crash, OrphanEnds, Restart, Idle, Leave, jobVars, webVars, workerVars,
     diskVars, history, vars
<1>2. QED
  BY <1>1, JobTypesStep, WebTypesStep, WorkerTypesStep, DiskTypesStep DEF TypeOK

\* A row appears once, by its own request.
LEMMA RowsStep ==
  ASSUME IInv, [Next]_vars
  PROVE  Rows'
<1> USE RebuildAssumption DEF IInv, jobVars, webVars, workerVars, diskVars, history
<1>0. \/ UNCHANGED <<pc, status, cancelPc>>
      \/ \E r \in Requests : Place(r)
      \/ \E r \in Requests : Ask(r)
      \/ \E r \in Requests : ReadPending(r)
      \/ \E r \in Requests : Insert(r)
      \/ \E r \in Requests : Upgrade(r)
      \/ \E r \in Requests : CancelRead(r)
      \/ \E r \in Requests : CancelCommit(r)
      \/ MarkOrphans
      \/ Claim
      \/ Record
  BY DEF Next, Request, Startup, Tick, Build, RefreshStarts, RefreshEnds, Ripen,
     KillOrphans, Recover, Select, NotClaimed, NotBuilt, MakeFolder, TickRaises,
     MarkStopped, StopServices, RunContainer, ContainerSucceeds, ContainerFails, Unlink,
     Link, Prune, BuildRaises, Finally, Crash, OrphanEnds, Restart, Idle, Leave, vars
<1>1. CASE UNCHANGED <<pc, status, cancelPc>>
  BY <1>1 DEF Rows, TypeOK, JobTypes, WebTypes, Held, Working
<1>2. CASE \E r \in Requests : Place(r)
  BY <1>2 DEF Place, Rows, TypeOK, JobTypes, WebTypes, Held, Working
<1>3. CASE \E r \in Requests : Ask(r)
  BY <1>3 DEF Ask, Rows, TypeOK, JobTypes, WebTypes, Held, Working
<1>4. CASE \E r \in Requests : ReadPending(r)
  BY <1>4 DEF ReadPending, Coalesced, PendingOf, Wants, Rows, TypeOK, JobTypes,
     WebTypes, Held, Working
<1>5. CASE \E r \in Requests : Insert(r)
  BY <1>5 DEF Insert, Wants, Rows, TypeOK, JobTypes, WebTypes, Held, Working
<1>6. CASE \E r \in Requests : Upgrade(r)
  BY <1>6 DEF Upgrade, Rows, TypeOK, JobTypes, WebTypes, Held, Working
<1>7. CASE \E r \in Requests : CancelRead(r)
  BY <1>7 DEF CancelRead, Rows, TypeOK, JobTypes, WebTypes, Held, Working
<1>8. CASE \E r \in Requests : CancelCommit(r)
  BY <1>8 DEF CancelCommit, PendingOf, Rows, TypeOK, JobTypes, WebTypes, Held, Working
<1>9. CASE MarkOrphans
  BY <1>9 DEF MarkOrphans, Rows, TypeOK, JobTypes, WebTypes, Held, Working
<1>10. CASE Claim
  BY <1>10 DEF Claim, MayClaim, Rows, TypeOK, JobTypes, WebTypes, Held, Working
<1>11. CASE Record
  BY <1>11 DEF Record, Idle, Leave, FinalStatus, Rows, TypeOK, JobTypes, WebTypes, Held,
     Working
<1>12. QED
  BY <1>0, <1>1, <1>2, <1>3, <1>4, <1>5, <1>6, <1>7, <1>8, <1>9, <1>10, <1>11

\* Folders and containers belong to claimed jobs.
LEMMA StartedStep ==
  ASSUME IInv, [Next]_vars
  PROVE  Started'
<1> USE RebuildAssumption DEF IInv, jobVars, webVars, workerVars, diskVars, history
<1>0. \/ UNCHANGED <<containers, folders, status>>
      \/ \E r \in Requests : Insert(r)
      \/ \E r \in Requests : CancelCommit(r)
      \/ MarkOrphans
      \/ KillOrphans
      \/ Claim
      \/ MakeFolder
      \/ RunContainer
      \/ ContainerSucceeds
      \/ ContainerFails
      \/ Prune
      \/ Finally
      \/ Record
      \/ OrphanEnds
  BY DEF Next, Request, Startup, Tick, Build, Place, Ask, ReadPending, Upgrade,
     CancelRead, RefreshStarts, RefreshEnds, Ripen, Recover, Select, NotClaimed,
     NotBuilt, TickRaises, MarkStopped, StopServices, Unlink, Link, BuildRaises,
     Crash, Restart, Idle, Leave, vars
<1>1. CASE UNCHANGED <<containers, folders, status>>
  BY <1>1 DEF Started, Rows, Held, Working, TypeOK, JobTypes, WorkerTypes, DiskTypes
<1>2. CASE \E r \in Requests : Insert(r)
  BY <1>2 DEF Insert, Wants, Started, Rows, Held, Working, TypeOK, JobTypes,
     WorkerTypes, DiskTypes
<1>3. CASE \E r \in Requests : CancelCommit(r)
  BY <1>3 DEF CancelCommit, PendingOf, Started, Rows, Held, Working, TypeOK, JobTypes,
     WorkerTypes, DiskTypes
<1>4. CASE MarkOrphans
  BY <1>4 DEF MarkOrphans, Started, Rows, Held, Working, TypeOK, JobTypes, WorkerTypes,
     DiskTypes
<1>5. CASE KillOrphans
  BY <1>5 DEF KillOrphans, Surviving, Started, Rows, Held, Working, TypeOK, JobTypes,
     WorkerTypes, DiskTypes
<1>6. CASE Claim
  BY <1>6 DEF Claim, MayClaim, Started, Rows, Held, Working, TypeOK, JobTypes,
     WorkerTypes, DiskTypes
<1>7. CASE MakeFolder
  BY <1>7 DEF MakeFolder, Started, Rows, Held, Working, TypeOK, JobTypes, WorkerTypes,
     DiskTypes
<1>8. CASE RunContainer
  BY <1>8 DEF RunContainer, Started, Rows, Held, Working, TypeOK, JobTypes, WorkerTypes,
     DiskTypes
<1>9. CASE ContainerSucceeds
  BY <1>9 DEF ContainerSucceeds, Started, Rows, Held, Working, TypeOK, JobTypes,
     WorkerTypes, DiskTypes
<1>10. CASE ContainerFails
  BY <1>10 DEF ContainerFails, Started, Rows, Held, Working, TypeOK, JobTypes,
     WorkerTypes, DiskTypes
<1>11. CASE Prune
  BY <1>11 DEF Prune, Started, Rows, Held, Working, TypeOK, JobTypes, WorkerTypes,
     DiskTypes
<1>12. CASE Finally
  BY <1>12 DEF Finally, Idle, Leave, Discarded, Started, Rows, Held, Working, TypeOK,
     JobTypes, WorkerTypes, DiskTypes
<1>13. CASE Record
  BY <1>13 DEF Record, Idle, Leave, FinalStatus, Started, Rows, Held, Working, TypeOK,
     JobTypes, WorkerTypes, DiskTypes
<1>14. CASE OrphanEnds
  BY <1>14 DEF OrphanEnds, Started, Rows, Held, Working, TypeOK, JobTypes, WorkerTypes,
     DiskTypes
<1>15. QED
  BY <1>0, <1>1, <1>2, <1>3, <1>4, <1>5, <1>6, <1>7, <1>8, <1>9, <1>10, <1>11, <1>12,
     <1>13, <1>14

\* The worker's job is not pending again while it is held.
LEMMA HeldStep ==
  ASSUME IInv, [Next]_vars
  PROVE  Held'
<1> USE RebuildAssumption DEF IInv, jobVars, webVars, workerVars, diskVars, history
<1>0. \/ UNCHANGED <<wpc, wjob, status, withdrawn, runsLeft>>
      \/ \E r \in Requests : Insert(r)
      \/ \E r \in Requests : CancelCommit(r)
      \/ MarkOrphans
      \/ KillOrphans
      \/ Recover
      \/ \E r \in Requests : Select(r)
      \/ Claim
      \/ NotClaimed
      \/ NotBuilt
      \/ MakeFolder
      \/ TickRaises
      \/ MarkStopped
      \/ StopServices
      \/ RunContainer
      \/ ContainerSucceeds
      \/ ContainerFails
      \/ Unlink
      \/ Link
      \/ Prune
      \/ BuildRaises
      \/ Finally
      \/ Record
      \/ Crash
      \/ Restart
  BY DEF Next, Request, Startup, Tick, Build, Place, Ask, ReadPending, Upgrade,
     CancelRead, RefreshStarts, RefreshEnds, Ripen, OrphanEnds, vars
<1>1. CASE UNCHANGED <<wpc, wjob, status, withdrawn, runsLeft>>
  BY <1>1 DEF Held, Working, Rows, CancelWins, TypeOK, JobTypes, WorkerTypes
<1>2. CASE \E r \in Requests : Insert(r)
  BY <1>2 DEF Insert, Wants, Held, Working, Rows, CancelWins, TypeOK, JobTypes,
     WorkerTypes
<1>3. CASE \E r \in Requests : CancelCommit(r)
  BY <1>3 DEF CancelCommit, PendingOf, Held, Working, Rows, CancelWins, TypeOK,
     JobTypes, WorkerTypes
<1>4. CASE MarkOrphans
  BY <1>4 DEF MarkOrphans, Held, Working, Rows, CancelWins, TypeOK, JobTypes,
     WorkerTypes
<1>5. CASE KillOrphans
  BY <1>5 DEF KillOrphans, Surviving, Held, Working, Rows, CancelWins, TypeOK, JobTypes,
     WorkerTypes
<1>6. CASE Recover
  BY <1>6 DEF Recover, Held, Working, Rows, CancelWins, TypeOK, JobTypes, WorkerTypes
<1>7. CASE \E r \in Requests : Select(r)
  BY <1>7 DEF Select, NextPendingJob, Eligible, Held, Working, Rows, CancelWins, TypeOK,
     JobTypes, WorkerTypes
<1>8. CASE Claim
  BY <1>8 DEF Claim, MayClaim, Held, Working, Rows, CancelWins, TypeOK, JobTypes,
     WorkerTypes
<1>9. CASE NotClaimed
  BY <1>9 DEF NotClaimed, Idle, Leave, MayClaim, Held, Working, Rows, CancelWins,
     TypeOK, JobTypes, WorkerTypes
<1>10. CASE NotBuilt
  BY <1>10 DEF NotBuilt, Held, Working, Rows, CancelWins, TypeOK, JobTypes, WorkerTypes
<1>11. CASE MakeFolder
  BY <1>11 DEF MakeFolder, Held, Working, Rows, CancelWins, TypeOK, JobTypes,
     WorkerTypes
<1>12. CASE TickRaises
  BY <1>12 DEF TickRaises, Idle, Leave, Held, Working, Rows, CancelWins, TypeOK,
     JobTypes, WorkerTypes
<1>13. CASE MarkStopped
  BY <1>13 DEF MarkStopped, Held, Working, Rows, CancelWins, TypeOK, JobTypes,
     WorkerTypes
<1>14. CASE StopServices
  BY <1>14 DEF StopServices, Idle, Leave, Held, Working, Rows, CancelWins, TypeOK, JobTypes,
     WorkerTypes
<1>15. CASE RunContainer
  BY <1>15 DEF RunContainer, Held, Working, Rows, CancelWins, TypeOK, JobTypes,
     WorkerTypes
<1>16. CASE ContainerSucceeds
  BY <1>16 DEF ContainerSucceeds, Held, Working, Rows, CancelWins, TypeOK, JobTypes,
     WorkerTypes
<1>17. CASE ContainerFails
  BY <1>17 DEF ContainerFails, Held, Working, Rows, CancelWins, TypeOK, JobTypes,
     WorkerTypes
<1>18. CASE Unlink
  BY <1>18 DEF Unlink, Held, Working, Rows, CancelWins, TypeOK, JobTypes, WorkerTypes
<1>19. CASE Link
  BY <1>19 DEF Link, Held, Working, Rows, CancelWins, TypeOK, JobTypes, WorkerTypes
<1>20. CASE Prune
  BY <1>20 DEF Prune, Held, Working, Rows, CancelWins, TypeOK, JobTypes, WorkerTypes
<1>21. CASE BuildRaises
  BY <1>21 DEF BuildRaises, Held, Working, Rows, CancelWins, TypeOK, JobTypes,
     WorkerTypes
<1>22. CASE Finally
  BY <1>22 DEF Finally, Idle, Leave, Discarded, Held, Working, Rows, CancelWins, TypeOK,
     JobTypes, WorkerTypes
<1>23. CASE Record
  BY <1>23 DEF Record, Idle, Leave, FinalStatus, Held, Working, Rows, CancelWins,
     TypeOK, JobTypes, WorkerTypes
<1>24. CASE Crash
  BY <1>24 DEF Crash, Leave, Held, Working, Rows, CancelWins, TypeOK, JobTypes,
     WorkerTypes
<1>25. CASE Restart
  BY <1>25 DEF Restart, Held, Working, Rows, CancelWins, TypeOK, JobTypes, WorkerTypes
<1>26. QED
  BY <1>0, <1>1, <1>2, <1>3, <1>4, <1>5, <1>6, <1>7, <1>8, <1>9, <1>10, <1>11, <1>12,
     <1>13, <1>14, <1>15, <1>16, <1>17, <1>18, <1>19, <1>20, <1>21, <1>22, <1>23, <1>24,
     <1>25

\* No step forgets a placed file.
LEMMA PlacedStep ==
  ASSUME IInv, [Next]_vars
  PROVE  PlacedIsNotForgotten'
<1> USE RebuildAssumption DEF IInv, jobVars, webVars, workerVars, diskVars, history
<1>0. \/ UNCHANGED <<unbuilt, pc, status>>
      \/ \E r \in Requests : Place(r)
      \/ \E r \in Requests : Ask(r)
      \/ \E r \in Requests : ReadPending(r)
      \/ \E r \in Requests : Insert(r)
      \/ \E r \in Requests : Upgrade(r)
      \/ \E r \in Requests : CancelCommit(r)
      \/ MarkOrphans
      \/ Claim
      \/ Record
  BY DEF Next, Request, Startup, Tick, Build, CancelRead, RefreshStarts, RefreshEnds,
     Ripen, KillOrphans, Recover, Select, NotClaimed, NotBuilt, MakeFolder,
     TickRaises, MarkStopped, StopServices, RunContainer, ContainerSucceeds,
     ContainerFails, Unlink, Link, Prune, BuildRaises, Finally, Crash, OrphanEnds,
     Restart, Idle, Leave, vars
<1>1. CASE UNCHANGED <<unbuilt, pc, status>>
  BY <1>1 DEF PlacedIsNotForgotten, PendingOf, TypeOK, JobTypes, WebTypes, Held,
     Working, Rows
<1>2. CASE \E r \in Requests : Place(r)
  BY <1>2 DEF Place, PlacedIsNotForgotten, PendingOf, TypeOK, JobTypes, WebTypes, Held,
     Working, Rows
<1>3. CASE \E r \in Requests : Ask(r)
  BY <1>3 DEF Ask, PlacedIsNotForgotten, PendingOf, TypeOK, JobTypes, WebTypes, Held,
     Working, Rows
<1>4. CASE \E r \in Requests : ReadPending(r)
  BY <1>4 DEF ReadPending, Coalesced, PendingOf, Wants, PlacedIsNotForgotten, TypeOK,
     JobTypes, WebTypes, Held, Working, Rows
<1>5. CASE \E r \in Requests : Insert(r)
  BY <1>5 DEF Insert, Wants, PlacedIsNotForgotten, PendingOf, TypeOK, JobTypes,
     WebTypes, Held, Working, Rows
<1>6. CASE \E r \in Requests : Upgrade(r)
  BY <1>6 DEF Upgrade, PlacedIsNotForgotten, PendingOf, TypeOK, JobTypes, WebTypes,
     Held, Working, Rows
<1>7. CASE \E r \in Requests : CancelCommit(r)
  BY <1>7 DEF CancelCommit, PendingOf, PlacedIsNotForgotten, TypeOK, JobTypes, WebTypes,
     Held, Working, Rows
<1>8. CASE MarkOrphans
  BY <1>8 DEF MarkOrphans, PlacedIsNotForgotten, PendingOf, TypeOK, JobTypes, WebTypes,
     Held, Working, Rows
<1>9. CASE Claim
  BY <1>9 DEF Claim, MayClaim, PlacedIsNotForgotten, PendingOf, TypeOK, JobTypes,
     WebTypes, Held, Working, Rows
<1>10. CASE Record
  BY <1>10 DEF Record, Idle, Leave, FinalStatus, PlacedIsNotForgotten, PendingOf,
     TypeOK, JobTypes, WebTypes, Held, Working, Rows
<1>11. QED
  BY <1>0, <1>1, <1>2, <1>3, <1>4, <1>5, <1>6, <1>7, <1>8, <1>9, <1>10

\* No step starts a withdrawn job.
LEMMA WithdrawnStep ==
  ASSUME IInv, [Next]_vars
  PROVE  CancelWins'
<1> USE RebuildAssumption DEF IInv, jobVars, webVars, workerVars, diskVars, history
<1>0. \/ UNCHANGED <<withdrawn, status, containers, folders>>
      \/ \E r \in Requests : Insert(r)
      \/ \E r \in Requests : CancelCommit(r)
      \/ MarkOrphans
      \/ KillOrphans
      \/ Claim
      \/ MakeFolder
      \/ RunContainer
      \/ ContainerSucceeds
      \/ ContainerFails
      \/ Prune
      \/ Finally
      \/ Record
      \/ OrphanEnds
  BY DEF Next, Request, Startup, Tick, Build, Place, Ask, ReadPending, Upgrade,
     CancelRead, RefreshStarts, RefreshEnds, Ripen, Recover, Select, NotClaimed,
     NotBuilt, TickRaises, MarkStopped, StopServices, Unlink, Link, BuildRaises,
     Crash, Restart, Idle, Leave, vars
<1>1. CASE UNCHANGED <<withdrawn, status, containers, folders>>
  BY <1>1 DEF CancelWins, Started, Held, Working, Rows, TypeOK, JobTypes, DiskTypes
<1>2. CASE \E r \in Requests : Insert(r)
  BY <1>2 DEF Insert, Wants, CancelWins, Started, Held, Working, Rows, TypeOK, JobTypes,
     DiskTypes
<1>3. CASE \E r \in Requests : CancelCommit(r)
  BY <1>3 DEF CancelCommit, PendingOf, CancelWins, Started, Held, Working, Rows, TypeOK,
     JobTypes, DiskTypes
<1>4. CASE MarkOrphans
  BY <1>4 DEF MarkOrphans, CancelWins, Started, Held, Working, Rows, TypeOK, JobTypes,
     DiskTypes
<1>5. CASE KillOrphans
  BY <1>5 DEF KillOrphans, Surviving, CancelWins, Started, Held, Working, Rows, TypeOK,
     JobTypes, DiskTypes
<1>6. CASE Claim
  BY <1>6 DEF Claim, MayClaim, CancelWins, Started, Held, Working, Rows, TypeOK,
     JobTypes, DiskTypes
<1>7. CASE MakeFolder
  BY <1>7 DEF MakeFolder, CancelWins, Started, Held, Working, Rows, TypeOK, JobTypes,
     DiskTypes
<1>8. CASE RunContainer
  BY <1>8 DEF RunContainer, CancelWins, Started, Held, Working, Rows, TypeOK, JobTypes,
     DiskTypes
<1>9. CASE ContainerSucceeds
  BY <1>9 DEF ContainerSucceeds, CancelWins, Started, Held, Working, Rows, TypeOK,
     JobTypes, DiskTypes
<1>10. CASE ContainerFails
  BY <1>10 DEF ContainerFails, CancelWins, Started, Held, Working, Rows, TypeOK,
     JobTypes, DiskTypes
<1>11. CASE Prune
  BY <1>11 DEF Prune, CancelWins, Started, Held, Working, Rows, TypeOK, JobTypes,
     DiskTypes
<1>12. CASE Finally
  BY <1>12 DEF Finally, Idle, Leave, Discarded, CancelWins, Started, Held, Working,
     Rows, TypeOK, JobTypes, DiskTypes
<1>13. CASE Record
  BY <1>13 DEF Record, Idle, Leave, FinalStatus, CancelWins, Started, Held, Working,
     Rows, TypeOK, JobTypes, DiskTypes
<1>14. CASE OrphanEnds
  BY <1>14 DEF OrphanEnds, CancelWins, Started, Held, Working, Rows, TypeOK, JobTypes,
     DiskTypes
<1>15. QED
  BY <1>0, <1>1, <1>2, <1>3, <1>4, <1>5, <1>6, <1>7, <1>8, <1>9, <1>10, <1>11, <1>12,
     <1>13, <1>14

\* The folder being built stays the newest and is linked whole.
LEMMA BuildingStep ==
  ASSUME IInv, [Next]_vars
  PROVE  Building'
<1> USE RebuildAssumption DEF IInv, jobVars, webVars, workerVars, diskVars, history
<1>0. \/ UNCHANGED <<wpc, wjob, folders, stamp, builds, whole, current>>
      \/ MarkOrphans
      \/ KillOrphans
      \/ Recover
      \/ \E r \in Requests : Select(r)
      \/ Claim
      \/ NotClaimed
      \/ NotBuilt
      \/ MakeFolder
      \/ TickRaises
      \/ MarkStopped
      \/ StopServices
      \/ RunContainer
      \/ ContainerSucceeds
      \/ ContainerFails
      \/ Unlink
      \/ Link
      \/ Prune
      \/ BuildRaises
      \/ Finally
      \/ Record
      \/ Crash
      \/ Restart
  BY DEF Next, Request, Startup, Tick, Build, Place, Ask, ReadPending, Insert, Upgrade,
     CancelRead, CancelCommit, RefreshStarts, RefreshEnds, Ripen, OrphanEnds, vars
<1>1. CASE UNCHANGED <<wpc, wjob, folders, stamp, builds, whole, current>>
  BY <1>1 DEF Building, WithFolder, Working, Held, TypeOK, WorkerTypes, DiskTypes
<1>2. CASE MarkOrphans
  BY <1>2 DEF MarkOrphans, Building, WithFolder, Working, Held, TypeOK, WorkerTypes,
     DiskTypes
<1>3. CASE KillOrphans
  BY <1>3 DEF KillOrphans, Surviving, Building, WithFolder, Working, Held, TypeOK,
     WorkerTypes, DiskTypes
<1>4. CASE Recover
  BY <1>4 DEF Recover, Building, WithFolder, Working, Held, TypeOK, WorkerTypes,
     DiskTypes
<1>5. CASE \E r \in Requests : Select(r)
  BY <1>5 DEF Select, NextPendingJob, Eligible, Building, WithFolder, Working, Held,
     TypeOK, WorkerTypes, DiskTypes
<1>6. CASE Claim
  BY <1>6 DEF Claim, MayClaim, Building, WithFolder, Working, Held, TypeOK, WorkerTypes,
     DiskTypes
<1>7. CASE NotClaimed
  BY <1>7 DEF NotClaimed, Idle, Leave, MayClaim, Building, WithFolder, Working, Held,
     TypeOK, WorkerTypes, DiskTypes
<1>8. CASE NotBuilt
  BY <1>8 DEF NotBuilt, Building, WithFolder, Working, Held, TypeOK, WorkerTypes,
     DiskTypes
<1>9. CASE MakeFolder
  BY <1>9 DEF MakeFolder, Building, WithFolder, Working, Held, TypeOK, WorkerTypes,
     DiskTypes
<1>10. CASE TickRaises
  BY <1>10 DEF TickRaises, Idle, Leave, Building, WithFolder, Working, Held, TypeOK,
     WorkerTypes, DiskTypes
<1>11. CASE MarkStopped
  BY <1>11 DEF MarkStopped, Building, WithFolder, Working, Held, TypeOK, WorkerTypes,
     DiskTypes
<1>12. CASE StopServices
  BY <1>12 DEF StopServices, Idle, Leave, Building, WithFolder, Working, Held, TypeOK, WorkerTypes,
     DiskTypes
<1>13. CASE RunContainer
  BY <1>13 DEF RunContainer, Building, WithFolder, Working, Held, TypeOK, WorkerTypes,
     DiskTypes
<1>14. CASE ContainerSucceeds
  BY <1>14 DEF ContainerSucceeds, Building, WithFolder, Working, Held, TypeOK,
     WorkerTypes, DiskTypes
<1>15. CASE ContainerFails
  BY <1>15 DEF ContainerFails, Building, WithFolder, Working, Held, TypeOK, WorkerTypes,
     DiskTypes
<1>16. CASE Unlink
  BY <1>16 DEF Unlink, Building, WithFolder, Working, Held, TypeOK, WorkerTypes,
     DiskTypes
<1>17. CASE Link
  BY <1>17 DEF Link, Building, WithFolder, Working, Held, TypeOK, WorkerTypes, DiskTypes
<1>18. CASE Prune
  BY <1>18 DEF Prune, Building, WithFolder, Working, Held, TypeOK, WorkerTypes,
     DiskTypes, Kept, Newer
<1>19. CASE BuildRaises
  BY <1>19 DEF BuildRaises, Building, WithFolder, Working, Held, TypeOK, WorkerTypes,
     DiskTypes
<1>20. CASE Finally
  BY <1>20 DEF Finally, Idle, Leave, Discarded, Building, WithFolder, Working, Held,
     TypeOK, WorkerTypes, DiskTypes
<1>21. CASE Record
  BY <1>21 DEF Record, Idle, Leave, FinalStatus, Building, WithFolder, Working, Held,
     TypeOK, WorkerTypes, DiskTypes
<1>22. CASE Crash
  BY <1>22 DEF Crash, Leave, Building, WithFolder, Working, Held, TypeOK, WorkerTypes,
     DiskTypes
<1>23. CASE Restart
  BY <1>23 DEF Restart, Building, WithFolder, Working, Held, TypeOK, WorkerTypes,
     DiskTypes
<1>24. QED
  BY <1>0, <1>1, <1>2, <1>3, <1>4, <1>5, <1>6, <1>7, <1>8, <1>9, <1>10, <1>11, <1>12,
     <1>13, <1>14, <1>15, <1>16, <1>17, <1>18, <1>19, <1>20, <1>21, <1>22, <1>23

\* `current` stays linked to a complete folder on disk.
LEMMA CurrentStep ==
  ASSUME IInv, [Next]_vars
  PROVE  CurrentIsWhole'
<1> USE RebuildAssumption DEF IInv, jobVars, webVars, workerVars, diskVars, history
<1>0. \/ UNCHANGED <<current, whole, folders>>
      \/ MakeFolder
      \/ ContainerSucceeds
      \/ Unlink
      \/ Link
      \/ Prune
      \/ Finally
  BY ZenonT(60) DEF Next, Request, Startup, Tick, Build, Place, Ask, ReadPending, Insert, Upgrade,
     CancelRead, CancelCommit, RefreshStarts, RefreshEnds, Ripen, MarkOrphans,
     KillOrphans, Recover, Select, Claim, NotClaimed, NotBuilt, TickRaises,
     MarkStopped, StopServices, RunContainer, ContainerFails, BuildRaises, Record,
     Crash, OrphanEnds, Restart, Idle, Leave, vars
<1>1. CASE UNCHANGED <<current, whole, folders>>
  BY <1>1 DEF CurrentIsWhole, Building, WithFolder, Held, Working, TypeOK, JobTypes,
     WorkerTypes, DiskTypes
<1>2. CASE MakeFolder
  BY <1>2 DEF MakeFolder, CurrentIsWhole, Building, WithFolder, Held, Working, TypeOK,
     JobTypes, WorkerTypes, DiskTypes
<1>3. CASE ContainerSucceeds
  BY <1>3 DEF ContainerSucceeds, CurrentIsWhole, Building, WithFolder, Held, Working,
     TypeOK, JobTypes, WorkerTypes, DiskTypes
<1>4. CASE Unlink
  BY <1>4 DEF Unlink, CurrentIsWhole, Building, WithFolder, Held, Working, TypeOK,
     JobTypes, WorkerTypes, DiskTypes
<1>5. CASE Link
  BY <1>5 DEF Link, CurrentIsWhole, Building, WithFolder, Held, Working, TypeOK,
     JobTypes, WorkerTypes, DiskTypes
<1>6. CASE Prune
  <2>1. current' = current /\ whole' = whole /\ folders' = {j \in folders : Kept(j)}
    BY <1>6 DEF Prune
  <2>2. SUFFICES ASSUME NEW s \in Sessions, current[s] # NoJob
                 PROVE  Kept(current[s])
    BY <2>1, <2>2 DEF CurrentIsWhole
  <2>3. current[s] \in Requests /\ SessionOf[current[s]] = s
    BY <2>2 DEF CurrentIsWhole, TypeOK, DiskTypes
  <2>4. CASE s = SessionOf[wjob]
    <3>1. wjob \in Requests /\ current[s] = wjob /\ stamp[wjob] = builds
      BY <1>6, <2>4 DEF Prune, Building, WithFolder, Held, Working
    <3>2. Newer(current[s]) = {}
      BY <3>1 DEF Newer, Building, TypeOK, DiskTypes
    <3>3. Cardinality(Newer(current[s])) = 0
      BY <3>2, FS_EmptySet
    <3> QED
      BY <3>3 DEF Kept
  <2>5. CASE s # SessionOf[wjob]
    BY <2>3, <2>5 DEF Kept
  <2> QED
    BY <2>4, <2>5
<1>7. CASE Finally
  BY <1>7 DEF Finally, Idle, Leave, Discarded, CurrentIsWhole, Building, WithFolder,
     Held, Working, TypeOK, JobTypes, WorkerTypes, DiskTypes
<1>8. QED
  BY <1>0, <1>1, <1>2, <1>3, <1>4, <1>5, <1>6, <1>7

\* A restart kills what the last worker left before it builds.
LEMMA AloneStep ==
  ASSUME IInv, [Next]_vars, ~Faults
  PROVE  Alone'
<1> USE RebuildAssumption DEF IInv, jobVars, webVars, workerVars, diskVars, history
<1>0. \/ UNCHANGED <<containers, wpc, wjob>>
      \/ MarkOrphans
      \/ KillOrphans
      \/ Recover
      \/ \E r \in Requests : Select(r)
      \/ Claim
      \/ NotClaimed
      \/ NotBuilt
      \/ MakeFolder
      \/ TickRaises
      \/ MarkStopped
      \/ StopServices
      \/ RunContainer
      \/ ContainerSucceeds
      \/ ContainerFails
      \/ Unlink
      \/ Link
      \/ Prune
      \/ BuildRaises
      \/ Finally
      \/ Record
      \/ Crash
      \/ OrphanEnds
      \/ Restart
  BY DEF Next, Request, Startup, Tick, Build, Place, Ask, ReadPending, Insert, Upgrade,
     CancelRead, CancelCommit, RefreshStarts, RefreshEnds, Ripen, vars
<1>1. CASE UNCHANGED <<containers, wpc, wjob>>
  BY <1>1 DEF Alone, TypeOK, DiskTypes, Held, Working
<1>2. CASE MarkOrphans
  BY <1>2 DEF MarkOrphans, Alone, TypeOK, DiskTypes, Held, Working
<1>3. CASE KillOrphans
  BY <1>3 DEF KillOrphans, Surviving, Alone, TypeOK, DiskTypes, Held, Working
<1>4. CASE Recover
  BY <1>4 DEF Recover, Alone, TypeOK, DiskTypes, Held, Working
<1>5. CASE \E r \in Requests : Select(r)
  BY <1>5 DEF Select, NextPendingJob, Eligible, Alone, TypeOK, DiskTypes, Held, Working
<1>6. CASE Claim
  BY <1>6 DEF Claim, MayClaim, Alone, TypeOK, DiskTypes, Held, Working
<1>7. CASE NotClaimed
  BY <1>7 DEF NotClaimed, Idle, Leave, MayClaim, Alone, TypeOK, DiskTypes, Held, Working
<1>8. CASE NotBuilt
  BY <1>8 DEF NotBuilt, Alone, TypeOK, DiskTypes, Held, Working
<1>9. CASE MakeFolder
  BY <1>9 DEF MakeFolder, Alone, TypeOK, DiskTypes, Held, Working
<1>10. CASE TickRaises
  BY <1>10 DEF TickRaises, Idle, Leave, Alone, TypeOK, DiskTypes, Held, Working
<1>11. CASE MarkStopped
  BY <1>11 DEF MarkStopped, Alone, TypeOK, DiskTypes, Held, Working
<1>12. CASE StopServices
  BY <1>12 DEF StopServices, Idle, Leave, Alone, TypeOK, DiskTypes, Held, Working
<1>13. CASE RunContainer
  BY <1>13 DEF RunContainer, Alone, TypeOK, DiskTypes, Held, Working
<1>14. CASE ContainerSucceeds
  BY <1>14 DEF ContainerSucceeds, Alone, TypeOK, DiskTypes, Held, Working
<1>15. CASE ContainerFails
  BY <1>15 DEF ContainerFails, Alone, TypeOK, DiskTypes, Held, Working
<1>16. CASE Unlink
  BY <1>16 DEF Unlink, Alone, TypeOK, DiskTypes, Held, Working
<1>17. CASE Link
  BY <1>17 DEF Link, Alone, TypeOK, DiskTypes, Held, Working
<1>18. CASE Prune
  BY <1>18 DEF Prune, Alone, TypeOK, DiskTypes, Held, Working
<1>19. CASE BuildRaises
  BY <1>19 DEF BuildRaises, Alone, TypeOK, DiskTypes, Held, Working
<1>20. CASE Finally
  BY <1>20 DEF Finally, Idle, Leave, Discarded, Alone, TypeOK, DiskTypes, Held, Working
<1>21. CASE Record
  BY <1>21 DEF Record, Idle, Leave, FinalStatus, Alone, TypeOK, DiskTypes, Held, Working
<1>22. CASE Crash
  BY <1>22 DEF Crash, Leave, Alone, TypeOK, DiskTypes, Held, Working
<1>23. CASE OrphanEnds
  BY <1>23 DEF OrphanEnds, Alone, TypeOK, DiskTypes, Held, Working
<1>24. CASE Restart
  BY <1>24 DEF Restart, Alone, TypeOK, DiskTypes, Held, Working
<1>25. QED
  BY <1>0, <1>1, <1>2, <1>3, <1>4, <1>5, <1>6, <1>7, <1>8, <1>9, <1>10, <1>11, <1>12,
     <1>13, <1>14, <1>15, <1>16, <1>17, <1>18, <1>19, <1>20, <1>21, <1>22, <1>23, <1>24

\* The marker is written before the services stop, and removed only once a restart
\* has brought them back or named them in the log.
LEMMA MarkedStep ==
  ASSUME IInv, [Next]_vars, ~Faults
  PROVE  Marked'
<1> USE RebuildAssumption DEF IInv, jobVars, webVars, workerVars, diskVars, history
<1>0. \/ UNCHANGED <<marker, servicesUp, leftDown, wpc>>
      \/ MarkOrphans
      \/ KillOrphans
      \/ Recover
      \/ \E r \in Requests : Select(r)
      \/ Claim
      \/ NotClaimed
      \/ NotBuilt
      \/ MakeFolder
      \/ TickRaises
      \/ MarkStopped
      \/ StopServices
      \/ RunContainer
      \/ ContainerSucceeds
      \/ ContainerFails
      \/ Unlink
      \/ Link
      \/ Prune
      \/ BuildRaises
      \/ Finally
      \/ Record
      \/ Crash
      \/ Restart
  BY DEF Next, Request, Startup, Tick, Build, Place, Ask, ReadPending, Insert, Upgrade,
     CancelRead, CancelCommit, RefreshStarts, RefreshEnds, Ripen, OrphanEnds, vars
<1>1. CASE UNCHANGED <<marker, servicesUp, leftDown, wpc>>
  BY <1>1 DEF Marked, StoppedAreRemembered, TypeOK, DiskTypes
<1>2. CASE MarkOrphans
  BY <1>2 DEF MarkOrphans, Marked, StoppedAreRemembered, TypeOK, DiskTypes
<1>3. CASE KillOrphans
  BY <1>3 DEF KillOrphans, Surviving, Marked, StoppedAreRemembered, TypeOK, DiskTypes
<1>4. CASE Recover
  <2>1. wpc' # "stop"
    BY <1>4 DEF Recover
  <2>2. CASE StartServices
    BY <2>1, <2>2, Restarted, Zenon DEF Marked, StoppedAreRemembered
  <2>3. CASE ~StartServices
    <3>1. UNCHANGED <<marker, leftDown>> /\ servicesUp' \in {servicesUp, TRUE}
      BY <1>4, <2>3, Zenon DEF Recover, StartRaises
    <3> QED
      BY <2>1, <3>1, Zenon DEF Marked, StoppedAreRemembered
  <2> QED
    BY <2>2, <2>3
<1>5. CASE \E r \in Requests : Select(r)
  BY <1>5 DEF Select, NextPendingJob, Eligible, Marked, StoppedAreRemembered, TypeOK,
     DiskTypes
<1>6. CASE Claim
  BY <1>6 DEF Claim, MayClaim, Marked, StoppedAreRemembered, TypeOK, DiskTypes
<1>7. CASE NotClaimed
  BY <1>7 DEF NotClaimed, Idle, Leave, MayClaim, Marked, StoppedAreRemembered, TypeOK,
     DiskTypes
<1>8. CASE NotBuilt
  BY <1>8 DEF NotBuilt, Marked, StoppedAreRemembered, TypeOK, DiskTypes
<1>9. CASE MakeFolder
  BY <1>9 DEF MakeFolder, Marked, StoppedAreRemembered, TypeOK, DiskTypes
<1>10. CASE TickRaises
  BY <1>10 DEF TickRaises, Idle, Leave, Marked, StoppedAreRemembered, TypeOK,
     DiskTypes
<1>11. CASE MarkStopped
  BY <1>11 DEF MarkStopped, Marked, StoppedAreRemembered, TypeOK, DiskTypes
<1>12. CASE StopServices
  BY <1>12 DEF StopServices, Idle, Leave, Marked, StoppedAreRemembered, TypeOK, DiskTypes
<1>13. CASE RunContainer
  BY <1>13 DEF RunContainer, Marked, StoppedAreRemembered, TypeOK, DiskTypes
<1>14. CASE ContainerSucceeds
  BY <1>14 DEF ContainerSucceeds, Marked, StoppedAreRemembered, TypeOK, DiskTypes
<1>15. CASE ContainerFails
  BY <1>15 DEF ContainerFails, Marked, StoppedAreRemembered, TypeOK, DiskTypes
<1>16. CASE Unlink
  BY <1>16 DEF Unlink, Marked, StoppedAreRemembered, TypeOK, DiskTypes
<1>17. CASE Link
  BY <1>17 DEF Link, Marked, StoppedAreRemembered, TypeOK, DiskTypes
<1>18. CASE Prune
  BY <1>18 DEF Prune, Marked, StoppedAreRemembered, TypeOK, DiskTypes
<1>19. CASE BuildRaises
  BY <1>19 DEF BuildRaises, Marked, StoppedAreRemembered, TypeOK, DiskTypes
<1>20. CASE Finally
  <2>1. wpc' # "stop"
    BY <1>20 DEF Finally, Idle, Leave
  <2>2. CASE StartServices
    BY <2>1, <2>2, Restarted, Zenon DEF Marked, StoppedAreRemembered
  <2>3. CASE ~StartServices
    <3>1. UNCHANGED <<marker, leftDown>> /\ servicesUp' \in {servicesUp, TRUE}
      BY <1>20, <2>3, Zenon DEF Finally, StartRaises
    <3> QED
      BY <2>1, <3>1, Zenon DEF Marked, StoppedAreRemembered
  <2> QED
    BY <2>2, <2>3
<1>21. CASE Record
  BY <1>21 DEF Record, Idle, Leave, FinalStatus, Marked, StoppedAreRemembered, TypeOK,
     DiskTypes
<1>22. CASE Crash
  BY <1>22 DEF Crash, Leave, Marked, StoppedAreRemembered, TypeOK, DiskTypes
<1>23. CASE Restart
  BY <1>23 DEF Restart, Marked, StoppedAreRemembered, TypeOK, DiskTypes
<1>24. QED
  BY <1>0, <1>1, <1>2, <1>3, <1>4, <1>5, <1>6, <1>7, <1>8, <1>9, <1>10, <1>11, <1>12,
     <1>13, <1>14, <1>15, <1>16, <1>17, <1>18, <1>19, <1>20, <1>21, <1>22, <1>23

\* Every action keeps the invariant.
LEMMA IInvStep == IInv /\ [Next]_vars => IInv'
<1> SUFFICES ASSUME IInv, [Next]_vars PROVE IInv'
  OBVIOUS
<1>1. ~Faults => Alone' /\ Marked'
  BY AloneStep, MarkedStep
<1>2. QED
  BY <1>1, TypeStep, RowsStep, StartedStep, HeldStep, PlacedStep, WithdrawnStep,
     BuildingStep, CurrentStep DEF IInv

\* The invariant holds in every state.
LEMMA Inductive == Spec => []IInv
  BY InitIInv, IInvStep, PTL DEF Spec

-----------------------------------------------------------------------------
\* The rows, the requests and the worker of app/worker.py keep their types.
THEOREM TypeCorrect == Spec => []TypeOK
  BY Inductive, PTL DEF IInv

\* Between ingestion.place and the claim of tick, a placed file always has a
\* request about to queue a job, or a pending job of its session.
THEOREM FilesAreRemembered == Spec => []PlacedIsNotForgotten
  BY Inductive, PTL DEF IInv

\* A cancel committed on a pending job wins: tick's claim is conditional on it.
THEOREM CancelledIsNotStarted == Spec => []CancelWins
  BY Inductive, PTL DEF IInv

\* The link run_build makes is never to a partial, a pruned or a discarded folder.
THEOREM LinkedIsWhole == Spec => []CurrentIsWhole
  BY Inductive, PTL DEF IInv

\* The startup's kill is enough, when docker answers: never two build containers.
THEOREM BuildsOneByOne == ASSUME ~Faults PROVE Spec => []OneBuildAtATime
<1>1. IInv => OneBuildAtATime
  <2> SUFFICES ASSUME IInv PROVE OneBuildAtATime
    OBVIOUS
  <2>1. CASE containers = {}
    BY <2>1, FS_EmptySet DEF OneBuildAtATime
  <2>2. CASE containers # {}
    <3>1. PICK j \in containers : TRUE
      BY <2>2
    <3>2. containers = {j}
      BY <3>1 DEF IInv, Alone
    <3> QED
      BY <3>2, FS_Singleton DEF OneBuildAtATime
  <2> QED
    BY <2>1, <2>2
<1>2. QED
  BY <1>1, Inductive, PTL

\* When the marker can be written and docker be asked, services that a max-memory build
\* stopped are up again, named in the marker, or reported down by _start_services,
\* after any crash and any exception of the worker.
THEOREM StoppedAreNotForgotten == ASSUME ~Faults PROVE Spec => []StoppedAreRemembered
<1>1. IInv => StoppedAreRemembered
  BY DEF IInv, Marked
<1>2. QED
  BY <1>1, Inductive, PTL

\* When docker answers and the marker can be written, no crash or exception of the
\* worker makes two builds run at once or leaves services down that neither the marker
\* nor the error log of their restart names.
THEOREM BuildsSafe == ASSUME ~Faults PROVE Spec => []BuildsAreSafe
  BY TypeCorrect, BuildsOneByOne, StoppedAreNotForgotten, PTL DEF BuildsAreSafe
==============================================================================
