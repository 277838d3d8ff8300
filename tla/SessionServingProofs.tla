-------------------------- MODULE SessionServingProofs --------------------------
(***************************************************************************)
(* Theorems about SessionServing for any sessions, requests and bounds.    *)
(*                                                                         *)
(* A fragment is written from what a request selected before it commits,   *)
(* so between the two files, and between the files and the commit, nothing *)
(* agrees.  What holds throughout: unless two renderings overlapped, only  *)
(* one request renders (OneRenders), each file it has written holds what   *)
(* it selected, and that is every serving session but the one it deletes   *)
(* and those set since without a rendering; the row a promotion is about   *)
(* to write is among them too, or was created since (RenderedIsSeen).      *)
(***************************************************************************)
EXTENDS SessionServing, TLAPS

\* A lock is of the delete that flushed that row.
LockedRows ==
    \A s \in SSessions : rowLock[s] # NoThread =>
        LET r == rowLock[s] IN
        rsess[r] = s /\ rpc[r] \notin {"idle", "flush"} /\ rop[r] = "delete"

\* A request in flight is about a session; only a delete flushes.
RequestsNameRows ==
    \A r \in WebThreads :
        /\ rpc[r] # "idle" => rsess[r] \in SSessions /\ rop[r] # "none"
        /\ rpc[r] = "flush" => rop[r] = "delete"

\* A build that ended is of a session.
BuildNamesRow == spc = "built" => swork \in SSessions

\* A process that is down has no request.
DownIsIdle == ~webUp => \A r \in WebThreads : rpc[r] = "idle"

\* Unless renderings overlapped, one request renders at a time.
OneRenders ==
    ~mixed => \A r, o \in WebThreads : Rendering(r) /\ Rendering(o) => r = o

\* The session whose row a request has deleted without commit.
Deleted(r) == {s \in SSessions : rsess[r] = s /\ rowLock[s] = r}

\* What a rendering request selected, and what it has written of it.
RenderedIsSeen ==
    ~mixed => \A r \in WebThreads : Rendering(r) =>
        /\ Serving \ unrendered \subseteq rview[r] \cup Deleted(r)
        /\ rop[r] = "promote" /\ Exists(rsess[r]) => rsess[r] \in rview[r] \cup unrendered
        /\ rpc[r] # "compose" => compose = rview[r]
        /\ rpc[r] \notin {"compose", "nginx"} => nginxFile = rview[r]

\* Each step of a pass finds what the steps before it applied.
PassInOrder ==
    /\ spc \in {"orphans", "reload", "unlink"} => seen \subseteq up
    /\ spc \in {"reload", "unlink"} => (up \ Motis) \ seen \subseteq rmFailed

RowsInv == LockedRows /\ RequestsNameRows /\ BuildNamesRow /\ DownIsIdle
FilesInv == OneRenders /\ RenderedIsSeen /\ FragmentsFollowRows

\* The inductive invariant.
ServingInv == ServingTypeOK /\ RowsInv /\ FilesInv /\ PassInOrder

-----------------------------------------------------------------------------
\* No request and no pass is under way at first.
LEMMA InitServing == ServingInit => ServingInv
  <1> SUFFICES ASSUME ServingInit PROVE ServingInv
    OBVIOUS
  <1> USE ServingAssumption
  <1>1. ServingTypeOK
    <2>1. sstate \in [SSessions -> SessionStates \cup {"absent"}] /\ graphOn \subseteq SSessions
      BY DEF ServingInit, SessionStates
    <2>2. /\ rowLock \in [SSessions -> WebThreads \cup {NoThread}]
          /\ rpc \in [WebThreads -> {"idle", "flush", "select", "compose", "nginx",
                                     "files", "trigger", "commit"}]
          /\ rop \in [WebThreads -> {"none", "promote", "retrigger", "delete"}]
          /\ rsess \in [WebThreads -> SSessions \cup {NoSession}]
          /\ rview \in [WebThreads -> SUBSET SSessions]
      BY DEF ServingInit
    <2>3. ops \in 0..MaxOps /\ faults \in 0..MaxFaults
      BY DEF ServingInit
    <2> QED BY <2>1, <2>2, <2>3 DEF ServingInit, ServingTypeOK
  <1>2. RowsInv
    BY DEF ServingInit, RowsInv, LockedRows, RequestsNameRows, BuildNamesRow, DownIsIdle
  <1>3. FilesInv /\ PassInOrder
    BY DEF ServingInit, FilesInv, OneRenders, RenderedIsSeen, FragmentsFollowRows, PassInOrder,
       Rendering, Serving
  <1> QED BY <1>1, <1>2, <1>3 DEF ServingInv

-----------------------------------------------------------------------------
(* Types *)

\* Every action keeps the types.
LEMMA ServingTypeStep ==
    ASSUME ServingInv, [ServingNext]_servingVars
    PROVE  ServingTypeOK'
  <1> USE ServingAssumption DEF rowVars, reqVars, fileVars, loopVars
  <1>0. ServingTypeOK /\ RequestsNameRows /\ BuildNamesRow
    BY DEF ServingInv, RowsInv
  <1>00. faults < MaxFaults => faults + 1 \in 0..MaxFaults
    BY <1>0 DEF ServingTypeOK
  <1>1. ASSUME NEW s \in SSessions, NEW st \in SessionStates, RowWrite(s, st),
               unrendered' \subseteq SSessions
        PROVE  ServingTypeOK'
    BY <1>0, <1>1 DEF RowWrite, ServingTypeOK
  <1>2. ASSUME NEW s \in SSessions,
               \/ CreateSession(s) \/ AddUpload(s) \/ ArchiveSession(s)
               \/ \E st \in PatchStates : PatchSession(s, st)
        PROVE  ServingTypeOK'
    BY <1>0, <1>1, <1>2, ZenonT(60) DEF CreateSession, AddUpload, ArchiveSession, PatchSession, ServingTypeOK,
       SessionStates
  <1>3. ASSUME NEW s \in SSessions, BuildEnds(s) PROVE ServingTypeOK'
    BY <1>0, <1>3 DEF BuildEnds, ServingTypeOK
  <1>4. ASSUME NEW s \in SSessions, NEW r \in WebThreads, PromoteSession(r, s) \/ DeleteSession(r, s)
        PROVE  ServingTypeOK'
    <2>1. PICK op \in {"promote", "retrigger", "delete"} : Begin(r, op, s)
      BY <1>4 DEF PromoteSession, DeleteSession
    <2> QED BY <1>0, <2>1 DEF Begin, ServingTypeOK
  <1>5. ASSUME NEW r \in WebThreads, RequestStep(r) PROVE ServingTypeOK'
    <2>1. CASE Flush(r)
      BY <1>0, <2>1 DEF Flush, Idle, ServingTypeOK, RequestsNameRows
    <2>2. CASE RegenerateSelect(r)
      <3>1. rsess[r] \in SSessions /\ SeesServing(r) \subseteq SSessions
        BY <1>0, <2>2 DEF RegenerateSelect, RequestsNameRows, SeesServing, Serving
      <3> QED BY <1>0, <2>2, <3>1 DEF RegenerateSelect, ServingTypeOK
    <2>3. CASE RenderCompose(r) \/ RenderNginx(r) \/ TouchTrigger(r)
      BY <1>0, <2>3, ZenonT(60) DEF RenderCompose, RenderNginx, TouchTrigger, ServingTypeOK
    <2>5. CASE RemoveTrees(r)
      <3>1. graphOn' \subseteq SSessions /\ faults' \in 0..MaxFaults
        BY <1>0, <1>00, <2>5 DEF RemoveTrees, ServingTypeOK
      <3> QED BY <1>0, <2>5, <3>1 DEF RemoveTrees, ServingTypeOK
    <2>4. CASE Commit(r)
      BY <1>0, <2>4 DEF Commit, Idle, ServingTypeOK, SessionStates, RequestsNameRows
    <2> QED BY <1>5, <2>1, <2>2, <2>3, <2>4, <2>5 DEF RequestStep
  <1>6. CASE WebCrash
    <2>1. faults' \in 0..MaxFaults
      BY <1>00, <1>6 DEF WebCrash
    <2> QED BY <1>0, <1>6, <2>1 DEF WebCrash, ServingTypeOK
  <1>7. CASE Startup
    <2>1. /\ faults' \in 0..MaxFaults /\ compose' \subseteq SSessions /\ nginxFile' \subseteq SSessions
          /\ unrendered' \subseteq SSessions /\ mixed' \in BOOLEAN /\ webUp' \in BOOLEAN
      BY <1>0, <1>00, <1>7 DEF Startup, ServingTypeOK, Serving
    <2> QED BY <1>0, <1>7, <2>1 DEF Startup, ServingTypeOK
  <1>8. CASE WorkerCrash
    BY <1>0, <1>8 DEF WorkerCrash, PassOver, ServingTypeOK
  <1>9. CASE ReloadStep
    <2>1. CASE TickCommit
      BY <1>0, <2>1 DEF TickCommit, ServingTypeOK, SessionStates, BuildNamesRow
    <2>2. CASE ReadServing
      BY <1>0, <2>2 DEF ReadServing, ServingTypeOK, Serving
    <2>3. CASE ComposeUp
      BY <1>0, <2>3 DEF ComposeUp, ServingTypeOK
    <2>4. CASE RemoveOrphans
      BY <1>0, <2>4 DEF RemoveOrphans, Orphans, ServingTypeOK
    <2>5. CASE ReloadNginx \/ UnlinkTrigger
      <3>1. /\ faults' \in 0..MaxFaults /\ routes' \subseteq SSessions /\ trigger' \in BOOLEAN
            /\ seen' \subseteq SSessions /\ rmFailed' \subseteq SSessions /\ spc' \in {"idle", "unlink"}
        BY <1>0, <1>00, <2>5 DEF ReloadNginx, UnlinkTrigger, PassOver, ServingTypeOK
      <3> QED BY <1>0, <2>5, <3>1 DEF ReloadNginx, UnlinkTrigger, ServingTypeOK
    <2> QED BY <1>9, <2>1, <2>2, <2>3, <2>4, <2>5 DEF ReloadStep
  <1>10. CASE UNCHANGED servingVars
    BY <1>0, <1>10 DEF servingVars, ServingTypeOK
  <1> QED BY <1>2, <1>3, <1>4, <1>5, <1>6, <1>7, <1>8, <1>9, <1>10 DEF ServingNext

-----------------------------------------------------------------------------
(* Rows and requests *)

\* Every action keeps what is known of the rows.
LEMMA RowsStep ==
    ASSUME ServingInv, [ServingNext]_servingVars
    PROVE  RowsInv'
  <1> USE ServingAssumption DEF rowVars, reqVars, fileVars, loopVars, RowsInv, LockedRows,
          RequestsNameRows, BuildNamesRow, DownIsIdle
  <1>0. ServingTypeOK /\ RowsInv
    BY DEF ServingInv
  <1>1. ASSUME NEW s \in SSessions, NEW st \in SessionStates, RowWrite(s, st) PROVE RowsInv'
    BY <1>0, <1>1 DEF RowWrite, Free, Exists, ServingTypeOK
  <1>2. ASSUME NEW s \in SSessions,
               \/ CreateSession(s) \/ AddUpload(s) \/ ArchiveSession(s)
               \/ \E st \in PatchStates : PatchSession(s, st)
        PROVE  RowsInv'
    BY <1>1, <1>2 DEF CreateSession, AddUpload, ArchiveSession, PatchSession, SessionStates
  <1>3. ASSUME NEW s \in SSessions, BuildEnds(s) PROVE RowsInv'
    BY <1>0, <1>3 DEF BuildEnds, Exists
  <1>4. ASSUME NEW s \in SSessions, NEW r \in WebThreads, PromoteSession(r, s) \/ DeleteSession(r, s)
        PROVE  RowsInv'
    <2>1. PICK op \in {"promote", "retrigger", "delete"} : Begin(r, op, s)
      BY <1>4 DEF PromoteSession, DeleteSession
    <2> QED BY <1>0, <2>1 DEF Begin, ServingTypeOK
  <1>5. ASSUME NEW r \in WebThreads, RequestStep(r) PROVE RowsInv'
    <2>1. CASE Flush(r)
      <3>1. CASE rpc'[r] = "idle"
        BY <1>0, <2>1, <3>1 DEF Flush, Idle, Free, ServingTypeOK
      <3>2. CASE rpc'[r] # "idle"
        BY <1>0, <2>1, <3>2 DEF Flush, Idle, Free, ServingTypeOK
      <3> QED BY <3>1, <3>2
    <2>2. CASE \/ RegenerateSelect(r) \/ RenderCompose(r) \/ RenderNginx(r)
               \/ RemoveTrees(r) \/ TouchTrigger(r)
      <3>1. /\ UNCHANGED <<sstate, rowLock, rop, rsess, spc, swork, webUp>>
            /\ rpc[r] \notin {"idle", "flush"}
            /\ \E pc \in {"compose", "nginx", "files", "trigger", "commit"} :
                 rpc' = [rpc EXCEPT ![r] = pc]
        BY <2>2 DEF RegenerateSelect, RenderCompose, RenderNginx, RemoveTrees, TouchTrigger
      <3> QED BY <1>0, <3>1 DEF Exists, ServingTypeOK
    <2>3. CASE Commit(r)
      BY <1>0, <2>3 DEF Commit, Idle, Exists, ServingTypeOK
    <2> QED BY <1>5, <2>1, <2>2, <2>3 DEF RequestStep
  <1>6. CASE WebCrash
    BY <1>0, <1>6 DEF WebCrash
  <1>7. CASE Startup
    BY <1>0, <1>7 DEF Startup, Exists
  <1>8. CASE WorkerCrash
    BY <1>0, <1>8 DEF WorkerCrash, PassOver, Exists
  <1>9. CASE ReloadStep
    <2>1. CASE TickCommit
      BY <1>0, <2>1 DEF TickCommit, Exists, Free, ServingTypeOK
    <2>2. CASE ReadServing \/ ComposeUp \/ RemoveOrphans \/ ReloadNginx \/ UnlinkTrigger
      BY <1>0, <2>2 DEF ReadServing, ComposeUp, RemoveOrphans, ReloadNginx, UnlinkTrigger, PassOver,
         Exists
    <2> QED BY <1>9, <2>1, <2>2 DEF ReloadStep
  <1>10. CASE UNCHANGED servingVars
    BY <1>0, <1>10 DEF servingVars, Exists
  <1> QED BY <1>2, <1>3, <1>4, <1>5, <1>6, <1>7, <1>8, <1>9, <1>10 DEF ServingNext

-----------------------------------------------------------------------------
(* Fragments *)

\* What is not a request past its SELECT leaves what it sees and wrote alone, but for
\* sessions that stop serving and for those a PATCH added.
LEMMA FilesKept ==
    ASSUME ServingInv, UNCHANGED <<compose, nginxFile, mixed, rview>>,
           webUp' => webUp,
           \A r \in WebThreads : Rendering(r)' =>
               /\ Rendering(r) /\ rpc'[r] = rpc[r] /\ rop'[r] = rop[r] /\ rsess'[r] = rsess[r]
               /\ rowLock'[rsess[r]] = r <=> rowLock[rsess[r]] = r
               /\ rop[r] = "promote" /\ Exists(rsess[r])' =>
                     Exists(rsess[r]) \/ rsess[r] \in unrendered',
           webUp' => \A r \in WebThreads : Rendering(r) => Rendering(r)',
           Serving' \ unrendered' \subseteq Serving \ unrendered,
           unrendered \subseteq unrendered'
    PROVE  FilesInv'
  <1>0. OneRenders /\ RenderedIsSeen /\ FragmentsFollowRows
    BY DEF ServingInv, FilesInv
  <1>1. OneRenders'
    BY <1>0 DEF OneRenders
  <1>2. RenderedIsSeen'
    <2> SUFFICES ASSUME ~mixed, NEW r \in WebThreads, Rendering(r)'
                 PROVE  /\ Serving' \ unrendered' \subseteq rview[r] \cup Deleted(r)'
                        /\ rop[r] = "promote" /\ Exists(rsess[r])' =>
                              rsess[r] \in rview[r] \cup unrendered'
                        /\ rpc[r] # "compose" => compose = rview[r]
                        /\ rpc[r] \notin {"compose", "nginx"} => nginxFile = rview[r]
      BY DEF RenderedIsSeen, Exists
    <2>1. /\ Serving \ unrendered \subseteq rview[r] \cup Deleted(r)
          /\ rop[r] = "promote" /\ Exists(rsess[r]) => rsess[r] \in rview[r] \cup unrendered
          /\ rpc[r] # "compose" => compose = rview[r]
          /\ rpc[r] \notin {"compose", "nginx"} => nginxFile = rview[r]
      BY <1>0 DEF RenderedIsSeen
    <2>2. Deleted(r)' = Deleted(r)
      BY DEF Deleted
    <2> QED BY <2>1, <2>2
  <1>3. FragmentsFollowRows'
    BY <1>0 DEF FragmentsFollowRows
  <1> QED BY <1>1, <1>2, <1>3 DEF FilesInv

\* Every action keeps what is known of the files.
LEMMA FilesStep ==
    ASSUME ServingInv, [ServingNext]_servingVars
    PROVE  FilesInv'
  <1> USE ServingAssumption DEF rowVars, reqVars, fileVars, loopVars
  <1>0. /\ ServingTypeOK /\ RowsInv /\ OneRenders /\ RenderedIsSeen /\ FragmentsFollowRows
        /\ \A r \in WebThreads : Rendering(r) => rsess[r] \in SSessions
        /\ ServingTypeOK'
    BY ServingTypeStep DEF ServingInv, FilesInv, RowsInv, RequestsNameRows, Rendering
  <1>1. ASSUME UNCHANGED <<reqVars, fileVars, rowLock, webUp>>,
               Serving' \ unrendered' \subseteq Serving \ unrendered,
               unrendered \subseteq unrendered',
               \A r \in WebThreads : rop[r] = "promote" /\ rsess[r] \in SSessions
                   /\ Exists(rsess[r])' => Exists(rsess[r]) \/ rsess[r] \in unrendered'
        PROVE  FilesInv'
    BY <1>0, <1>1, FilesKept DEF Rendering
  <1>11. ASSUME UNCHANGED <<reqVars, fileVars, rowVars, webUp>> PROVE FilesInv'
    BY <1>1, <1>11 DEF Serving, Exists
  <1>2. ASSUME NEW s \in SSessions,
               \/ CreateSession(s) \/ AddUpload(s) \/ ArchiveSession(s)
               \/ \E st \in PatchStates : PatchSession(s, st)
        PROVE  FilesInv'
    <2>1. UNCHANGED <<reqVars, fileVars, rowLock, webUp>>
      BY <1>2 DEF CreateSession, AddUpload, ArchiveSession, PatchSession, RowWrite
    <2>2. Serving' \ unrendered' \subseteq Serving \ unrendered
      BY <1>0, <1>2 DEF CreateSession, AddUpload, ArchiveSession, PatchSession, RowWrite, Serving,
         ServingTypeOK
    <2>3. unrendered \subseteq unrendered'
      BY <1>2 DEF CreateSession, AddUpload, ArchiveSession, PatchSession
    <2>4. \A o \in SSessions : Exists(o)' => Exists(o) \/ (o = s /\ CreateSession(s))
      BY <1>0, <1>2 DEF CreateSession, AddUpload, ArchiveSession, PatchSession, RowWrite, Exists,
         ServingTypeOK
    <2>5. \A r \in WebThreads : rop[r] = "promote" /\ rsess[r] \in SSessions
                   /\ Exists(rsess[r])' => Exists(rsess[r]) \/ rsess[r] \in unrendered'
      <3> SUFFICES ASSUME NEW r \in WebThreads, rop[r] = "promote", rsess[r] \in SSessions,
                          Exists(rsess[r])', ~Exists(rsess[r])
                   PROVE  rsess[r] \in unrendered'
        OBVIOUS
      <3>1. rsess' = rsess
        BY <2>1
      <3>2. rsess[r] = s /\ CreateSession(s)
        BY <2>4, <3>1 DEF Exists
      <3>3. \E o \in WebThreads : rop[o] = "promote" /\ rsess[o] = s
        BY <3>2
      <3>4. unrendered' = unrendered \cup {s}
        BY <3>2, <3>3, Zenon DEF CreateSession
      <3> QED BY <3>2, <3>4
    <2> QED BY <1>1, <2>1, <2>2, <2>3, <2>5
  <1>3. ASSUME NEW s \in SSessions, BuildEnds(s) PROVE FilesInv'
    BY <1>1, <1>3 DEF BuildEnds, Serving, Exists
  <1>4. ASSUME NEW s \in SSessions, NEW r \in WebThreads, PromoteSession(r, s) \/ DeleteSession(r, s)
        PROVE  FilesInv'
    <2>1. /\ UNCHANGED <<rowVars, rview, fileVars, webUp>> /\ rpc[r] = "idle"
          /\ rpc'[r] \in {"select", "flush"}
          /\ \A o \in WebThreads \ {r} : rpc'[o] = rpc[o] /\ rop'[o] = rop[o] /\ rsess'[o] = rsess[o]
      BY <1>0, <1>4 DEF PromoteSession, DeleteSession, Begin, ServingTypeOK
    <2> QED BY <1>0, <2>1, FilesKept DEF Rendering, Serving, Exists
  <1>5. ASSUME NEW r \in WebThreads, RequestStep(r) PROVE FilesInv'
    <2>0. webUp /\ webUp' = webUp /\ rpc[r] # "idle"
      BY <1>0, <1>5 DEF RequestStep, Flush, RegenerateSelect, RenderCompose, RenderNginx, RemoveTrees,
         TouchTrigger, Commit, RowsInv, DownIsIdle
    <2>1. CASE Flush(r)
      <3>1. /\ UNCHANGED <<sstate, unrendered, fileVars>> /\ rpc[r] = "flush"
            /\ rpc'[r] \in {"idle", "select"}
            /\ \A o \in WebThreads \ {r} : /\ rpc'[o] = rpc[o] /\ rop'[o] = rop[o]
                                           /\ rsess'[o] = rsess[o] /\ rview'[o] = rview[o]
            /\ \A s \in SSessions : rowLock'[s] = rowLock[s] \/ (rowLock[s] = NoThread /\ rowLock'[s] = r)
        BY <1>0, <2>1 DEF Flush, Idle, Free, ServingTypeOK, RowsInv, RequestsNameRows
      <3>2. \A o \in WebThreads : Rendering(o)' <=> Rendering(o)
        BY <3>1 DEF Rendering
      <3>3. \A o \in WebThreads : Rendering(o) =>
               /\ o # r /\ rsess[o] \in SSessions
               /\ rowLock'[rsess[o]] = o <=> rowLock[rsess[o]] = o
        BY <1>0, <3>1 DEF Rendering
      <3>4. OneRenders' /\ FragmentsFollowRows'
        BY <1>0, <2>0, <3>1, <3>2 DEF OneRenders, FragmentsFollowRows, Serving
      <3>6. \A o \in WebThreads : Rendering(o) => Deleted(o)' = Deleted(o)
        BY <3>1, <3>3 DEF Deleted
      <3>5. RenderedIsSeen'
        BY <1>0, <3>1, <3>2, <3>3, <3>6 DEF RenderedIsSeen, Serving, Exists
      <3> QED BY <3>4, <3>5 DEF FilesInv
    <2>2. CASE RegenerateSelect(r)
      <3>1. /\ rpc[r] = "select" /\ rpc' = [rpc EXCEPT ![r] = "compose"]
            /\ rview' = [rview EXCEPT ![r] = SeesServing(r)]
            /\ mixed' = \E o \in WebThreads \ {r} : Rendering(o)
            /\ UNCHANGED <<sstate, rowLock, rop, rsess, compose, nginxFile>>
        BY <2>2 DEF RegenerateSelect
      <3>2. Rendering(r)' /\ rview'[r] = SeesServing(r) /\ rpc'[r] = "compose"
            /\ \A o \in WebThreads \ {r} : Rendering(o)' <=> Rendering(o)
        BY <1>0, <3>1 DEF Rendering, ServingTypeOK
      <3>3. OneRenders' /\ FragmentsFollowRows'
        BY <3>1, <3>2 DEF OneRenders, FragmentsFollowRows
      <3>4. UNCHANGED <<Serving, Exists(rsess[r]), Deleted(r)>> /\ unrendered' \subseteq unrendered
        BY <1>0, <3>1, <2>2 DEF RegenerateSelect, Serving, Exists, Deleted
      <3>5. /\ Serving \subseteq SeesServing(r) \cup Deleted(r)
            /\ rop[r] = "promote" /\ Exists(rsess[r]) => rsess[r] \in SeesServing(r)
        BY DEF SeesServing, Deleted, Serving
      <3>7. ~mixed' => \A o \in WebThreads : Rendering(o)' => o = r
        BY <3>1, <3>2
      <3>6. RenderedIsSeen'
        BY <3>1, <3>2, <3>4, <3>5, <3>7 DEF RenderedIsSeen
      <3> QED BY <3>3, <3>6 DEF FilesInv
    <2>3. CASE RenderCompose(r) \/ RenderNginx(r) \/ RemoveTrees(r) \/ TouchTrigger(r)
      <3>1. /\ UNCHANGED <<sstate, rowLock, unrendered, rop, rsess, rview, mixed>>
            /\ Rendering(r) /\ Rendering(r)'
            /\ \A o \in WebThreads \ {r} : rpc'[o] = rpc[o]
        BY <1>0, <2>3 DEF RenderCompose, RenderNginx, RemoveTrees, TouchTrigger, Rendering, ServingTypeOK
      <3>2. \A o \in WebThreads : Rendering(o)' <=> Rendering(o)
        BY <3>1 DEF Rendering
      <3>3. OneRenders' /\ FragmentsFollowRows'
        BY <1>0, <3>1, <3>2 DEF OneRenders, FragmentsFollowRows
      <3>4. ~mixed => /\ rpc'[r] # "compose" => compose' = rview[r]
                      /\ rpc'[r] \notin {"compose", "nginx"} => nginxFile' = rview[r]
        BY <1>0, <2>3, <3>1 DEF RenderCompose, RenderNginx, RemoveTrees, TouchTrigger, RenderedIsSeen,
           ServingTypeOK
      <3>5. RenderedIsSeen'
        <4> SUFFICES ASSUME ~mixed, NEW o \in WebThreads, Rendering(o)'
                     PROVE  /\ Serving \ unrendered \subseteq rview[o] \cup Deleted(o)
                            /\ rop[o] = "promote" /\ Exists(rsess[o]) =>
                                  rsess[o] \in rview[o] \cup unrendered
                            /\ rpc'[o] # "compose" => compose' = rview[o]
                            /\ rpc'[o] \notin {"compose", "nginx"} => nginxFile' = rview[o]
          BY <3>1 DEF RenderedIsSeen, Serving, Exists, Deleted
        <4>1. o = r
          BY <1>0, <3>1, <3>2 DEF OneRenders
        <4> QED BY <1>0, <3>1, <3>4, <4>1 DEF RenderedIsSeen
      <3> QED BY <3>3, <3>5 DEF FilesInv
    <2>4. CASE Commit(r)
      <3> DEFINE s == rsess[r]
      <3>1. /\ rpc[r] = "commit" /\ rpc'[r] = "idle" /\ UNCHANGED fileVars
            /\ \A o \in WebThreads \ {r} : rpc'[o] = rpc[o]
        BY <1>0, <2>4 DEF Commit, Idle, ServingTypeOK
      <3>2. Rendering(r) /\ ~Rendering(r)' /\ \A o \in WebThreads \ {r} : Rendering(o)' <=> Rendering(o)
        BY <3>1 DEF Rendering
      <3>6. /\ Serving' \subseteq
                  (Serving \ Deleted(r))
                  \cup (IF rop[r] = "promote" /\ Exists(s) THEN {s} ELSE {})
            /\ unrendered \subseteq unrendered' \cup (IF rop[r] = "promote" THEN rview[r] ELSE {})
        <4>1. CASE rop[r] = "promote"
          <5>1. rowLock[s] # r
            <6>1. s \in SSessions
              BY <1>0, <3>2
            <6>2. rowLock[s] # NoThread => rop[rowLock[s]] = "delete"
              BY <1>0, <6>1 DEF RowsInv, LockedRows
            <6> QED BY <4>1, <6>2, ServingAssumption
          <5> QED BY <1>0, <2>4, <4>1, <5>1 DEF Commit, Serving, Exists, Deleted, ServingTypeOK
        <4>2. CASE rop[r] # "promote" /\ rowLock[s] = r
          BY <1>0, <2>4, <4>2 DEF Commit, Serving, Deleted, ServingTypeOK
        <4>3. CASE rop[r] # "promote" /\ rowLock[s] # r
          BY <1>0, <2>4, <4>3 DEF Commit, Serving, Deleted, ServingTypeOK
        <4> QED BY <4>1, <4>2, <4>3
      <3>3. ~mixed => \A o \in WebThreads : ~Rendering(o)'
        BY <1>0, <3>2 DEF OneRenders
      <3>4. ~mixed => compose = nginxFile /\ Serving' \ unrendered' \subseteq compose
        <4> SUFFICES ASSUME ~mixed
                     PROVE  compose = nginxFile /\ Serving' \ unrendered' \subseteq compose
          OBVIOUS
        <4>1. /\ Serving \ unrendered \subseteq compose \cup Deleted(r)
              /\ compose = nginxFile /\ compose = rview[r]
              /\ rop[r] = "promote" /\ Exists(s) => s \in rview[r] \cup unrendered
          BY <1>0, <3>1, <3>2 DEF RenderedIsSeen
        <4> QED BY <3>6, <4>1
      <3>5. OneRenders' /\ RenderedIsSeen' /\ FragmentsFollowRows'
        BY <3>1, <3>3, <3>4 DEF OneRenders, RenderedIsSeen, FragmentsFollowRows
      <3> QED BY <3>5 DEF FilesInv
    <2> QED BY <1>5, <2>1, <2>2, <2>3, <2>4 DEF RequestStep
  <1>6. CASE WebCrash
    <2>1. /\ ~webUp' /\ \A r \in WebThreads : ~Rendering(r)'
      BY <1>6 DEF WebCrash, Rendering
    <2> QED BY <2>1 DEF FilesInv, OneRenders, RenderedIsSeen, FragmentsFollowRows
  <1>7. CASE Startup
    <2>1. \A r \in WebThreads : ~Rendering(r)'
      BY <1>0, <1>7 DEF Startup, Rendering, RowsInv, DownIsIdle
    <2>2. mixed' \/ (compose' = Serving' /\ nginxFile' = Serving')
      BY <1>7 DEF Startup, Serving
    <2> QED BY <2>1, <2>2 DEF FilesInv, OneRenders, RenderedIsSeen, FragmentsFollowRows
  <1>8. CASE WorkerCrash
    BY <1>11, <1>8 DEF WorkerCrash
  <1>9. CASE ReloadStep
    <2>1. CASE TickCommit
      <3>1. UNCHANGED <<reqVars, fileVars, rowLock, webUp>>
        BY <2>1 DEF TickCommit
      <3>2. Serving' \ unrendered' \subseteq Serving \ unrendered
        BY <1>0, <2>1 DEF TickCommit, Serving, Exists, ServingTypeOK
      <3>3. unrendered' = unrendered /\ \A o \in SSessions : Exists(o)' => Exists(o)
        BY <1>0, <2>1 DEF TickCommit, Exists, ServingTypeOK
      <3> QED BY <1>1, <3>1, <3>2, <3>3
    <2>2. CASE ReadServing \/ ComposeUp \/ RemoveOrphans \/ ReloadNginx
      BY <1>11, <2>2 DEF ReadServing, ComposeUp, RemoveOrphans, ReloadNginx
    <2>3. CASE UnlinkTrigger
      BY <1>0, <2>3, FilesKept DEF UnlinkTrigger, Serving, Rendering, Exists
    <2> QED BY <1>9, <2>1, <2>2, <2>3 DEF ReloadStep
  <1>10. CASE UNCHANGED servingVars
    BY <1>11, <1>10 DEF servingVars
  <1> QED BY <1>2, <1>3, <1>4, <1>5, <1>6, <1>7, <1>8, <1>9, <1>10 DEF ServingNext

-----------------------------------------------------------------------------
(* The worker's pass *)

\* Every action keeps the order of a pass.
LEMMA PassStep ==
    ASSUME ServingInv, [ServingNext]_servingVars
    PROVE  PassInOrder'
  <1> USE DEF rowVars, reqVars, fileVars, loopVars, PassInOrder
  <1>0. PassInOrder
    BY DEF ServingInv
  <1>1. ASSUME UNCHANGED <<spc, seen, up, rmFailed>> PROVE PassInOrder'
    BY <1>0, <1>1
  <1>2. ASSUME NEW s \in SSessions,
               \/ CreateSession(s) \/ AddUpload(s) \/ ArchiveSession(s)
               \/ \E st \in PatchStates : PatchSession(s, st)
               \/ \E r \in WebThreads : PromoteSession(r, s) \/ DeleteSession(r, s)
        PROVE  PassInOrder'
    BY <1>1, <1>2 DEF CreateSession, AddUpload, ArchiveSession, PatchSession, RowWrite,
       PromoteSession, DeleteSession, Begin
  <1>3. ASSUME NEW r \in WebThreads, RequestStep(r) PROVE PassInOrder'
    BY <1>1, <1>3 DEF RequestStep, Flush, RegenerateSelect, RenderCompose, RenderNginx, RemoveTrees,
       TouchTrigger, Commit
  <1>4. CASE WebCrash \/ Startup
    BY <1>1, <1>4 DEF WebCrash, Startup
  <1>5. ASSUME spc' \in {"idle", "built", "up"} PROVE PassInOrder'
    BY <1>5
  <1>6. ASSUME NEW s \in SSessions, BuildEnds(s) PROVE PassInOrder'
    BY <1>5, <1>6 DEF BuildEnds
  <1>7. CASE WorkerCrash \/ TickCommit \/ UnlinkTrigger
    BY <1>5, <1>7 DEF WorkerCrash, TickCommit, UnlinkTrigger, PassOver
  <1>8. CASE ReadServing
    BY <1>8 DEF ReadServing
  <1>9. CASE ComposeUp
    BY <1>9 DEF ComposeUp
  <1>10. CASE RemoveOrphans
    BY <1>0, <1>10 DEF RemoveOrphans, Orphans
  <1>11. CASE ReloadNginx
    BY <1>0, <1>11 DEF ReloadNginx, PassOver
  <1>12. CASE UNCHANGED servingVars
    BY <1>1, <1>12 DEF servingVars
  <1> QED BY <1>2, <1>3, <1>4, <1>6, <1>7, <1>8, <1>9, <1>10, <1>11, <1>12 DEF ServingNext, ReloadStep

\* The invariant holds in every state.
LEMMA ServingInvariance == ServingSpec => []ServingInv
  <1>1. ServingInv /\ [ServingNext]_servingVars => ServingInv'
    BY ServingTypeStep, RowsStep, FilesStep, PassStep DEF ServingInv
  <1> QED BY <1>1, InitServing, PTL DEF ServingSpec

-----------------------------------------------------------------------------
\* With no request rendering, both fragments name every serving session but those that a
\* PATCH, or a promotion of a row created under it, set without rendering them
\* (promote_session, sessions_orchestrator.regenerate), and a pass deletes its trigger only once it
\* has applied what it read (handle_reload_trigger), for any number of requests at once.
THEOREM ServingFollows == ServingSpec => []ServingFollowsRows
  <1>1. ServingInv => ServingFollowsRows
    BY DEF ServingInv, FilesInv, PassInOrder, PassIsApplied, ServingFollowsRows
  <1> QED BY <1>1, ServingInvariance, PTL

\* No request and no build that read a row before it was deleted brings it back
\* (delete_session, tick): only create_session inserts one.
THEOREM DeletedIsGone == ServingSpec => DeletedStaysDeleted
  <1> DEFINE Gone == \A s \in SSessions : ~Exists(s) => sstate'[s] \in {"absent", "created"}
  <1>1. ServingInv /\ [ServingNext]_servingVars => [Gone]_servingVars
    <2> SUFFICES ASSUME ServingInv, ServingNext PROVE Gone
      OBVIOUS
    <2> USE DEF rowVars
    <2>0. ServingTypeOK /\ LockedRows
      BY DEF ServingInv, RowsInv
    <2>1. ASSUME sstate' = sstate PROVE Gone
      BY <2>1 DEF Exists
    <2>2. ASSUME NEW s \in SSessions,
                 \/ CreateSession(s) \/ AddUpload(s) \/ ArchiveSession(s)
                 \/ \E st \in PatchStates : PatchSession(s, st)
          PROVE  Gone
      BY <2>0, <2>2 DEF CreateSession, AddUpload, ArchiveSession, PatchSession, RowWrite, Exists,
         ServingTypeOK
    <2>3. ASSUME NEW r \in WebThreads, Commit(r) PROVE Gone
      <3>1. CASE rop[r] = "promote"
        BY <2>0, <2>3, <3>1 DEF Commit, Exists, ServingTypeOK
      <3>2. CASE rop[r] # "promote"
        BY <2>0, <2>3, <3>2 DEF Commit, Exists, ServingTypeOK
      <3> QED BY <3>1, <3>2
    <2>4. CASE TickCommit
      BY <2>0, <2>4 DEF TickCommit, Exists, ServingTypeOK
    <2>5. sstate' = sstate
          \/ (\E s \in SSessions : \/ CreateSession(s) \/ AddUpload(s) \/ ArchiveSession(s)
                                   \/ \E st \in PatchStates : PatchSession(s, st))
          \/ (\E r \in WebThreads : Commit(r)) \/ TickCommit
      BY DEF ServingNext, RequestStep, ReloadStep, BuildEnds, PromoteSession, DeleteSession, Begin,
         Flush, RegenerateSelect, RenderCompose, RenderNginx, RemoveTrees, TouchTrigger, WebCrash,
         Startup, WorkerCrash, ReadServing, ComposeUp, RemoveOrphans, ReloadNginx, UnlinkTrigger
    <2> QED BY <2>1, <2>2, <2>3, <2>4, <2>5
  <1> QED BY <1>1, ServingInvariance, PTL DEF ServingSpec, DeletedStaysDeleted
=============================================================================
