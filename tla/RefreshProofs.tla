----------------------------- MODULE RefreshProofs -----------------------------
(***************************************************************************)
(* Theorems about RefreshProgress, and about ExtractFollowUp composed with *)
(* it, for any providers, requests and number of tasks.                    *)
(*                                                                         *)
(* The properties of the record rest on the fence: a run_id is claimed     *)
(* once and in its own scope (ClaimedOnce, RunOfScope), so a refresh that  *)
(* lost its row never owns it again (LostIsGone); what waits in the        *)
(* writer's queue is in order and between the record and the memory        *)
(* (QueueInOrder).  Mutual exclusion of the work, not only of the rows,    *)
(* needs that a live refresh keeps a fresh row (PunctualOwns).             *)
(*                                                                         *)
(* RefreshProgress keeps its invariant beside the sender: the sender       *)
(* thread writes only `extract`, and a request that queued its pass only   *)
(* returns.  What the records say of the passes then rests on two facts: a *)
(* pass under way is one of a finished record (ExtractIsFollowUp), so only *)
(* a claim, which resets it, takes the record away; and, unless the event  *)
(* loop stalls, a request about to queue its pass still is the one its     *)
(* record names (EndedOwns), so it cannot displace the pass of a newer     *)
(* refresh.                                                                *)
(***************************************************************************)
EXTENDS ExtractFollowUp, TLAPS, SequenceTheorems, FiniteSetTheorems

\* A row names a request that refreshes its scope.
RunOfScope ==
    \A s \in Scopes : rowRun[s] # NoRun => ScopeOf[rowRun[s]] = s

\* Before its claim a request is in no row, and has done nothing.
ClaimedOnce ==
    \A q \in Requests :
        pc[q] \in {"new", "claiming"} =>
            rowRun[ScopeOf[q]] # q /\ ~lost[q] /\ queue[q] = <<>> /\ done[q] = 0

\* A refresh that found its row gone does not own it, now or later.
LostIsGone == \A q \in Requests : lost[q] => ~Owns(q)

\* A refresh that ends as finished did every task, or lost its row.
EndedWhole ==
    \A q \in Requests :
        pc[q] = "ending" /\ endState[q] = "finished" => lost[q] \/ done[q] = Tasks

\* A task is under way only while one is left.
BusyIsLeft == \A q \in Requests : busy[q] => done[q] < Tasks /\ pc[q] = "body"

\* The submitted details are in order, none is ahead of the refresh, and none is
\* behind the record that it will be written to.
QueueInOrder ==
    \A q \in Requests :
        /\ \A i, j \in 1..Len(queue[q]) : i <= j => queue[q][i] <= queue[q][j]
        /\ \A i \in 1..Len(queue[q]) : queue[q][i] <= done[q]
        /\ \A i \in 1..Len(queue[q]) : Owns(q) => rowDone[ScopeOf[q]] <= queue[q][i]

\* A process that is down has crashed, and serves no request.
DownIsCrashed ==
    /\ crashes = 0 => up
    /\ ~up => \A q \in Requests : pc[q] \notin Writing

\* Unless it stalls, a live refresh owns its row within the lease.
PunctualOwns ==
    ~Stalls => \A q \in Requests : Alive(q) => Owns(q) /\ fresh[ScopeOf[q]]

\* The part of the invariant about the record.
Record ==
    /\ RunOfScope /\ ClaimedOnce /\ LostIsGone /\ EndedWhole /\ BusyIsLeft
    /\ RecordIsOwn /\ FinishedReachedEveryTask

\* The part about who holds a row.
Holding == Exclusive /\ DownIsCrashed /\ PunctualOwns /\ RunningHasAnEnder

\* The inductive invariant.
IInv == TypeOK /\ Record /\ QueueInOrder /\ Holding

-----------------------------------------------------------------------------
\* What a queue holds after its first element left, and after one joined.
LEMMA TailOfQueue ==
    ASSUME NEW S, NEW seq \in Seq(S), seq # <<>>
    PROVE  /\ Head(seq) \in S /\ Tail(seq) \in Seq(S)
           /\ Len(seq) \in Nat \ {0} /\ Len(Tail(seq)) = Len(seq) - 1
           /\ Head(seq) = seq[1]
           /\ \A i \in 1..Len(Tail(seq)) : Tail(seq)[i] = seq[i + 1]
  BY HeadTailProperties, EmptySeq, LenProperties

\* Appending leaves what was queued in its place.
LEMMA AppendToQueue ==
    ASSUME NEW S, NEW seq \in Seq(S), NEW n \in S
    PROVE  /\ Append(seq, n) \in Seq(S)
           /\ Len(seq) \in Nat /\ Len(Append(seq, n)) = Len(seq) + 1
           /\ \A i \in 1..Len(seq) : Append(seq, n)[i] = seq[i]
           /\ Append(seq, n)[Len(seq) + 1] = n
  BY AppendProperties, LenProperties

\* Forbidding is symmetric, and never of a scope by itself.
LEMMA ForbiddingSymmetric ==
    \A s \in Scopes : \A t \in Forbidding(s) : t \in Scopes /\ t # s /\ s \in Forbidding(t)
  BY ScopeAssumption DEF Forbidding, Scopes

\* What a claim does to the rows: its own is taken, the stale ones expire.
LEMMA ClaimedRow ==
    ASSUME TypeOK, NEW q \in Requests, Claim(q)
    PROVE  /\ rowState' \in [Scopes -> RowStates]
           /\ \A s \in Scopes :
                rowState'[s] = IF s = ScopeOf[q] THEN "running"
                               ELSE IF Running(s) /\ ~fresh[s] THEN "interrupted" ELSE rowState[s]
           /\ \A r \in Requests : r # q /\ Owns(r)' => Owns(r)
  <1> USE ScopeAssumption
  <1>1. Expired \in [Scopes -> RowStates]
    BY DEF Expired, TypeOK, RowStates, Ends
  <1>2. rowState' \in [Scopes -> RowStates]
    BY <1>1 DEF Claim, RowStates
  <1>3. \A s \in Scopes :
          rowState'[s] = IF s = ScopeOf[q] THEN "running"
                         ELSE IF Running(s) /\ ~fresh[s] THEN "interrupted" ELSE rowState[s]
    BY DEF Claim, Expired, Stale, TypeOK
  <1>4. \A r \in Requests : r # q /\ Owns(r)' => Owns(r)
    BY <1>3 DEF Claim, TypeOK, Owns, Running
  <1> QED BY <1>2, <1>3, <1>4

\* What the end of a refresh does to the rows: it ends its own, if it has it.
LEMMA FinishedRow ==
    ASSUME TypeOK, NEW q \in Requests, NEW end \in Ends, FinishRow(q, end)
    PROVE  /\ rowRun' = rowRun /\ fresh' = fresh
           /\ rowState' \in [Scopes -> RowStates]
           /\ rowDone' \in [Scopes -> 0..Tasks]
           /\ extract' \in [Scopes -> {"none", "off", "queued", "running", "ended"}]
           /\ \A s \in Scopes :
                /\ rowState'[s] = IF Owns(q) /\ s = ScopeOf[q] THEN end ELSE rowState[s]
                /\ rowDone'[s] = IF Owns(q) /\ s = ScopeOf[q] THEN done[q] ELSE rowDone[s]
  <1> USE ScopeAssumption DEF db
  <1>1. CASE ~Owns(q)
    BY <1>1 DEF FinishRow, TypeOK
  <1>2. CASE Owns(q)
    <2>1. ExtractOnFinish(end) \in {"none", "off", "queued"}
      BY DEF ExtractOnFinish
    <2>2. ScopeOf[q] \in Scopes /\ done[q] \in 0..Tasks
      BY DEF TypeOK
    <2>3. rowState' \in [Scopes -> RowStates] /\ rowDone' \in [Scopes -> 0..Tasks]
      BY <1>2, <2>2 DEF FinishRow, TypeOK, RowStates
    <2>4. extract' \in [Scopes -> {"none", "off", "queued", "running", "ended"}]
      BY <1>2, <2>1, <2>2 DEF FinishRow, TypeOK
    <2>5. rowRun' = rowRun /\ fresh' = fresh
      BY <1>2 DEF FinishRow
    <2>6. \A s \in Scopes :
            /\ rowState'[s] = IF s = ScopeOf[q] THEN end ELSE rowState[s]
            /\ rowDone'[s] = IF s = ScopeOf[q] THEN done[q] ELSE rowDone[s]
      BY <1>2, <2>2 DEF FinishRow, TypeOK
    <2> QED BY <1>2, <2>3, <2>4, <2>5, <2>6
  <1> QED BY <1>1, <1>2

\* What a progress write does: it shows in its own row, or the row is lost.
LEMMA WrittenRow ==
    ASSUME TypeOK, NEW q \in Requests, Write(q)
    PROVE  /\ Head(queue[q]) = queue[q][1] /\ Head(queue[q]) \in 0..Tasks
           /\ rowDone' \in [Scopes -> 0..Tasks]
           /\ fresh' \in [Scopes -> BOOLEAN]
           /\ lost' \in [Requests -> BOOLEAN]
           /\ \A s \in Scopes :
                /\ rowDone'[s] = IF Owns(q) /\ s = ScopeOf[q]
                                 THEN Head(queue[q]) ELSE rowDone[s]
                /\ fresh[s] => fresh'[s]
           /\ \A r \in Requests : lost'[r] => lost[r] \/ (r = q /\ ~Owns(q))
           /\ \A r \in Requests : lost[r] => lost'[r]
  <1> USE ScopeAssumption
  <1>0. Head(queue[q]) \in 0..Tasks /\ Head(queue[q]) = queue[q][1]
    BY TailOfQueue, ZenonT(60) DEF Write, TypeOK
  <1>1. CASE Owns(q)
    <2>1. ScopeOf[q] \in Scopes
      OBVIOUS
    <2>2. /\ rowDone' = [rowDone EXCEPT ![ScopeOf[q]] = Head(queue[q])]
          /\ fresh' = [fresh EXCEPT ![ScopeOf[q]] = TRUE]
          /\ lost' = lost
      BY <1>1 DEF Write
    <2>3. /\ rowDone' \in [Scopes -> 0..Tasks]
          /\ \A s \in Scopes :
                rowDone'[s] = IF s = ScopeOf[q] THEN Head(queue[q]) ELSE rowDone[s]
      BY <1>0, <2>1, <2>2 DEF TypeOK
    <2>4. /\ fresh' \in [Scopes -> BOOLEAN]
          /\ \A s \in Scopes : fresh[s] => fresh'[s]
      BY <2>1, <2>2 DEF TypeOK
    <2> QED BY <1>0, <1>1, <2>2, <2>3, <2>4 DEF TypeOK
  <1>2. CASE ~Owns(q)
    BY <1>0, <1>2 DEF Write, TypeOK
  <1> QED BY <1>1, <1>2

\* The refreshes start in the invariant.
LEMMA InitIInv == Init => IInv
  <1> SUFFICES ASSUME Init PROVE IInv
    OBVIOUS
  <1>1. TypeOK
    <2>1. <<>> \in Seq(0..Tasks)
      BY EmptySeq
    <2> QED BY <2>1, SizeAssumption DEF Init, TypeOK, RowStates, Ends, PCs
  <1>2. Record
    BY ScopeAssumption, SizeAssumption DEF Init, Record, RunOfScope, ClaimedOnce, LostIsGone, EndedWhole,
       BusyIsLeft, RecordIsOwn, FinishedReachedEveryTask
  <1>3. QueueInOrder
    BY EmptySeq DEF Init, QueueInOrder
  <1>4. Holding
    BY ScopeAssumption DEF Init, Holding, Exclusive, DownIsCrashed, PunctualOwns, RunningHasAnEnder, Running,
       Forbidding, Scopes, Alive, Writing
  <1> QED BY <1>1, <1>2, <1>3, <1>4 DEF IInv

\* Every step keeps the types: no count passes the number of tasks.
LEMMA TypeStep == IInv /\ [Next]_vars => TypeOK'
  <1> SUFFICES ASSUME IInv, [Next]_vars PROVE TypeOK'
    OBVIOUS
  <1> USE ScopeAssumption DEF db, mem
  <1>1. ASSUME NEW q \in Requests, Ask(q) PROVE TypeOK'
    BY <1>1 DEF Ask, At, Goto, TypeOK, IInv, RowStates, Ends, PCs
  <1>2. ASSUME NEW q \in Requests, Refused(q) PROVE TypeOK'
    BY <1>2 DEF Refused, At, ReturnTo, Goto, TypeOK, IInv, RowStates, Ends, PCs
  <1>3. ASSUME NEW q \in Requests, Claim(q) PROVE TypeOK'
    <2>1. rowState' \in [Scopes -> RowStates]
      BY <1>3, ClaimedRow DEF IInv
    <2> QED BY <1>3, <2>1, SizeAssumption DEF Claim, Goto, TypeOK, IInv, PCs
  <1>4. ASSUME NEW q \in Requests, ClaimFails(q) PROVE TypeOK'
    BY <1>4 DEF ClaimFails, At, ReturnTo, Goto, TypeOK, IInv, RowStates, Ends, PCs
  <1>5. ASSUME NEW q \in Requests, HandOff(q) PROVE TypeOK'
    BY <1>5 DEF HandOff, At, Goto, TypeOK, IInv, RowStates, Ends, PCs
  <1>6. ASSUME NEW q \in Requests, Enter(q) PROVE TypeOK'
    BY <1>6 DEF Enter, At, Goto, TypeOK, IInv, RowStates, Ends, PCs
  <1>7. ASSUME NEW q \in Requests, CancelClaim(q) PROVE TypeOK'
    BY <1>7 DEF CancelClaim, TypeOK, IInv, RowStates, Ends, PCs
  <1>8. ASSUME NEW q \in Requests, CancelHanded(q) PROVE TypeOK'
    BY <1>8 DEF CancelHanded, At, Goto, TypeOK, IInv, RowStates, Ends, PCs
  <1>9. ASSUME NEW q \in Requests, CancelBody(q) PROVE TypeOK'
    BY <1>9 DEF CancelBody, At, LeaveWith, Goto, TypeOK, IInv, RowStates, Ends, PCs
  <1>10. ASSUME NEW q \in Requests, CancelEnd(q) PROVE TypeOK'
    BY <1>10 DEF CancelEnd, At, TypeOK, IInv, RowStates, Ends, PCs
  <1>11. ASSUME NEW q \in Requests, StartTask(q) PROVE TypeOK'
    <2>1. done[q] \in 0..Tasks
      BY <1>11, SizeAssumption DEF StartTask, MayStart, TypeOK, IInv, Record, BusyIsLeft
    <2>2. Append(queue[q], done[q]) \in Seq(0..Tasks)
      BY <2>1, AppendToQueue DEF TypeOK, IInv
    <2> QED BY <1>11, <2>1, <2>2 DEF StartTask, Submit, TypeOK, IInv
  <1>12. ASSUME NEW q \in Requests, EndTask(q) PROVE TypeOK'
    <2>1. done[q] + 1 \in 0..Tasks
      BY <1>12, SizeAssumption DEF EndTask, MayStart, TypeOK, IInv, Record, BusyIsLeft
    <2>2. Append(queue[q], done[q] + 1) \in Seq(0..Tasks)
      BY <2>1, AppendToQueue DEF TypeOK, IInv
    <2> QED BY <1>12, <2>1, <2>2 DEF EndTask, Submit, TypeOK, IInv
  <1>13. ASSUME NEW q \in Requests, Leave(q) PROVE TypeOK'
    BY <1>13 DEF Leave, At, MayStart, LeaveWith, Goto, TypeOK, IInv, RowStates, Ends, PCs
  <1>14. ASSUME NEW q \in Requests, Fail(q) PROVE TypeOK'
    BY <1>14 DEF Fail, At, LeaveWith, Goto, TypeOK, IInv, RowStates, Ends, PCs
  <1>15. ASSUME NEW q \in Requests, Write(q) PROVE TypeOK'
    <2>1. Tail(queue[q]) \in Seq(0..Tasks)
      BY <1>15, TailOfQueue DEF Write, TypeOK, IInv
    <2> QED BY <1>15, <2>1, WrittenRow DEF Write, TypeOK, IInv
  <1>16. ASSUME NEW q \in Requests, WriteDropped(q) PROVE TypeOK'
    <2>1. Tail(queue[q]) \in Seq(0..Tasks)
      BY <1>16, TailOfQueue DEF WriteDropped, TypeOK, IInv
    <2> QED BY <1>16, <2>1 DEF WriteDropped, TypeOK, IInv
  <1>17. ASSUME NEW q \in Requests, Beat(q) PROVE TypeOK'
    BY <1>17 DEF Beat, Owns, Running, TypeOK, IInv, RowStates, Ends, PCs
  <1>18. ASSUME NEW q \in Requests, End(q) PROVE TypeOK'
    <2>1. endState[q] \in Ends /\ FinishRow(q, endState[q]) /\ TypeOK
      BY <1>18 DEF End, IInv, TypeOK, Ends
    <2>2. /\ rowRun' = rowRun /\ fresh' = fresh
          /\ rowState' \in [Scopes -> RowStates]
          /\ rowDone' \in [Scopes -> 0..Tasks]
          /\ extract' \in [Scopes -> {"none", "off", "queued", "running", "ended"}]
          /\ \A s \in Scopes :
               /\ rowState'[s] = IF Owns(q) /\ s = ScopeOf[q] THEN endState[q] ELSE rowState[s]
               /\ rowDone'[s] = IF Owns(q) /\ s = ScopeOf[q] THEN done[q] ELSE rowDone[s]
      BY <2>1, FinishedRow
    <2>3. pc' \in [Requests -> PCs]
      BY <1>18, <2>1, <2>2 DEF End, At, AfterEnd, ReturnTo, Goto, PCs, TypeOK, IInv
    <2>4. /\ abandoned' \in [Requests -> BOOLEAN]
          /\ endState' \in [Requests -> Ends]
          /\ lost' \in [Requests -> BOOLEAN]
      BY <1>18, <2>1, <2>2 DEF End, At, AfterEnd, ReturnTo, Goto, Ends, TypeOK, IInv
    <2> QED BY <1>18, <2>1, <2>2, <2>3, <2>4 DEF End, TypeOK, IInv
  <1>19. ASSUME NEW q \in Requests, EndDropped(q) PROVE TypeOK'
    BY <1>19 DEF EndDropped, At, AfterEnd, ReturnTo, Goto, TypeOK, IInv, RowStates, Ends, PCs
  <1>20. ASSUME NEW q \in Requests, EndAbandoned(q) PROVE TypeOK'
    <2>1. "interrupted" \in Ends /\ FinishRow(q, "interrupted") /\ TypeOK
      BY <1>20 DEF EndAbandoned, IInv, TypeOK, Ends
    <2>2. /\ rowRun' = rowRun /\ fresh' = fresh
          /\ rowState' \in [Scopes -> RowStates]
          /\ rowDone' \in [Scopes -> 0..Tasks]
          /\ extract' \in [Scopes -> {"none", "off", "queued", "running", "ended"}]
          /\ \A s \in Scopes :
               /\ rowState'[s] = IF Owns(q) /\ s = ScopeOf[q] THEN "interrupted" ELSE rowState[s]
               /\ rowDone'[s] = IF Owns(q) /\ s = ScopeOf[q] THEN done[q] ELSE rowDone[s]
      BY <2>1, FinishedRow
    <2>3. pc' \in [Requests -> PCs]
      BY <1>20, <2>1, <2>2 DEF EndAbandoned, At, ReturnTo, Goto, PCs, TypeOK, IInv
    <2>4. /\ abandoned' \in [Requests -> BOOLEAN]
          /\ endState' \in [Requests -> Ends]
          /\ lost' \in [Requests -> BOOLEAN]
      BY <1>20, <2>1, <2>2 DEF EndAbandoned, At, ReturnTo, Goto, Ends, TypeOK, IInv
    <2> QED BY <1>20, <2>1, <2>2, <2>3, <2>4 DEF EndAbandoned, TypeOK, IInv
  <1>21. ASSUME NEW q \in Requests, EndAbandonedDropped(q) PROVE TypeOK'
    BY <1>21 DEF EndAbandonedDropped, At, ReturnTo, Goto, TypeOK, IInv, RowStates, Ends, PCs
  <1>22. ASSUME NEW s \in Scopes, Lapse(s) PROVE TypeOK'
    BY <1>22 DEF Lapse, Running, Alive, Writing, TypeOK, IInv, RowStates, Ends, PCs
  <1>23. ASSUME Read PROVE TypeOK'
    BY <1>23 DEF Read, Stale, Expired, Running, TypeOK, IInv, RowStates, Ends, PCs
  <1>24. ASSUME Crash PROVE TypeOK'
    <2>1. <<>> \in Seq(0..Tasks)
      BY EmptySeq
    <2>2. crashes' \in 0..MaxCrashes
      BY <1>24, SizeAssumption DEF Crash, TypeOK, IInv
    <2>3. queue' \in [Requests -> Seq(0..Tasks)]
      BY <1>24, <2>1 DEF Crash
    <2>4. pc' \in [Requests -> PCs] /\ endState' \in [Requests -> Ends]
      BY <1>24 DEF Crash, PCs, Ends
    <2>5. /\ up' \in BOOLEAN /\ abandoned' \in [Requests -> BOOLEAN]
          /\ lost' \in [Requests -> BOOLEAN] /\ busy' \in [Requests -> BOOLEAN]
      BY <1>24 DEF Crash
    <2> QED BY <1>24, <2>2, <2>3, <2>4, <2>5 DEF Crash, TypeOK, IInv
  <1>25. ASSUME Restart PROVE TypeOK'
    BY <1>25 DEF Restart, TypeOK, IInv, RowStates, Ends, PCs
  <1>26. ASSUME UNCHANGED vars PROVE TypeOK'
    BY <1>26 DEF vars, TypeOK, IInv, RowStates, Ends, PCs
  <1> QED BY <1>1, <1>2, <1>3, <1>4, <1>5, <1>6, <1>7, <1>8, <1>9, <1>10, <1>11, <1>12, <1>13, <1>14, <1>15, <1>16, <1>17, <1>18, <1>19, <1>20, <1>21, <1>22, <1>23, <1>24, <1>25, <1>26 DEF Next, RequestStep

\* Every step keeps the record its own and a finished one whole.
LEMMA RecordStep == IInv /\ [Next]_vars => Record'
  <1> SUFFICES ASSUME IInv, [Next]_vars PROVE Record'
    OBVIOUS
  <1> USE ScopeAssumption, SizeAssumption DEF IInv, db, mem
  <1>1. ASSUME NEW q \in Requests, Ask(q) PROVE Record'
    BY <1>1 DEF Ask, At, Goto, TypeOK, Record, RunOfScope, ClaimedOnce,
       LostIsGone, EndedWhole, BusyIsLeft, RecordIsOwn, FinishedReachedEveryTask, Owns, Running
  <1>2. ASSUME NEW q \in Requests, Refused(q) PROVE Record'
    BY <1>2 DEF Refused, At, ReturnTo, Goto, TypeOK, Record, RunOfScope, ClaimedOnce,
       LostIsGone, EndedWhole, BusyIsLeft, RecordIsOwn, FinishedReachedEveryTask, Owns, Running
  <1>3. ASSUME NEW q \in Requests, Claim(q) PROVE Record'
    <2>0. /\ rowState' \in [Scopes -> RowStates]
          /\ \A s \in Scopes :
               rowState'[s] = IF s = ScopeOf[q] THEN "running"
                              ELSE IF Running(s) /\ ~fresh[s] THEN "interrupted" ELSE rowState[s]
          /\ \A r \in Requests : r # q /\ Owns(r)' => Owns(r)
      BY <1>3, ClaimedRow
    <2>1. RunOfScope' /\ ClaimedOnce'
      BY <1>3 DEF Claim, Goto, At, TypeOK, Record, RunOfScope, ClaimedOnce
    <2>2. LostIsGone' /\ EndedWhole' /\ BusyIsLeft'
      BY <1>3, <2>0 DEF Claim, Goto, At, TypeOK, Record, ClaimedOnce, LostIsGone, EndedWhole, BusyIsLeft
    <2>3. RecordIsOwn' /\ FinishedReachedEveryTask'
      BY <1>3, <2>0 DEF Claim, Goto, At, TypeOK, Record, ClaimedOnce, RecordIsOwn,
         FinishedReachedEveryTask
    <2> QED BY <2>1, <2>2, <2>3 DEF Record
  <1>4. ASSUME NEW q \in Requests, ClaimFails(q) PROVE Record'
    BY <1>4 DEF ClaimFails, At, ReturnTo, Goto, TypeOK, Record, RunOfScope, ClaimedOnce,
       LostIsGone, EndedWhole, BusyIsLeft, RecordIsOwn, FinishedReachedEveryTask, Owns, Running
  <1>5. ASSUME NEW q \in Requests, HandOff(q) PROVE Record'
    BY <1>5 DEF HandOff, At, Goto, TypeOK, Record, RunOfScope, ClaimedOnce,
       LostIsGone, EndedWhole, BusyIsLeft, RecordIsOwn, FinishedReachedEveryTask, Owns, Running
  <1>6. ASSUME NEW q \in Requests, Enter(q) PROVE Record'
    BY <1>6 DEF Enter, At, Goto, TypeOK, Record, RunOfScope, ClaimedOnce,
       LostIsGone, EndedWhole, BusyIsLeft, RecordIsOwn, FinishedReachedEveryTask, Owns, Running
  <1>7. ASSUME NEW q \in Requests, CancelClaim(q) PROVE Record'
    BY <1>7 DEF CancelClaim, TypeOK, Record, RunOfScope, ClaimedOnce,
       LostIsGone, EndedWhole, BusyIsLeft, RecordIsOwn, FinishedReachedEveryTask, Owns, Running
  <1>8. ASSUME NEW q \in Requests, CancelHanded(q) PROVE Record'
    BY <1>8 DEF CancelHanded, At, Goto, TypeOK, Record, RunOfScope, ClaimedOnce,
       LostIsGone, EndedWhole, BusyIsLeft, RecordIsOwn, FinishedReachedEveryTask, Owns, Running
  <1>9. ASSUME NEW q \in Requests, CancelBody(q) PROVE Record'
    BY <1>9 DEF CancelBody, At, LeaveWith, Goto, TypeOK, Record, RunOfScope, ClaimedOnce,
       LostIsGone, EndedWhole, BusyIsLeft, RecordIsOwn, FinishedReachedEveryTask, Owns, Running
  <1>10. ASSUME NEW q \in Requests, CancelEnd(q) PROVE Record'
    BY <1>10 DEF CancelEnd, At, TypeOK, Record, RunOfScope, ClaimedOnce,
       LostIsGone, EndedWhole, BusyIsLeft, RecordIsOwn, FinishedReachedEveryTask, Owns, Running
  <1>11. ASSUME NEW q \in Requests, StartTask(q) PROVE Record'
    BY <1>11 DEF StartTask, At, Submit, MayStart, TypeOK, Record, RunOfScope, ClaimedOnce,
       LostIsGone, EndedWhole, BusyIsLeft, RecordIsOwn, FinishedReachedEveryTask, Owns, Running
  <1>12. ASSUME NEW q \in Requests, EndTask(q) PROVE Record'
    BY <1>12 DEF EndTask, At, Submit, TypeOK, Record, RunOfScope, ClaimedOnce,
       LostIsGone, EndedWhole, BusyIsLeft, RecordIsOwn, FinishedReachedEveryTask, Owns, Running
  <1>13. ASSUME NEW q \in Requests, Leave(q) PROVE Record'
    BY <1>13 DEF Leave, At, MayStart, LeaveWith, Goto, TypeOK, Record, RunOfScope, ClaimedOnce,
       LostIsGone, EndedWhole, BusyIsLeft, RecordIsOwn, FinishedReachedEveryTask, Owns, Running
  <1>14. ASSUME NEW q \in Requests, Fail(q) PROVE Record'
    BY <1>14 DEF Fail, At, LeaveWith, Goto, TypeOK, Record, RunOfScope, ClaimedOnce,
       LostIsGone, EndedWhole, BusyIsLeft, RecordIsOwn, FinishedReachedEveryTask, Owns, Running
  <1>15. ASSUME NEW q \in Requests, Write(q) PROVE Record'
    <2>0. /\ rowDone' \in [Scopes -> 0..Tasks]
          /\ fresh' \in [Scopes -> BOOLEAN]
          /\ lost' \in [Requests -> BOOLEAN]
          /\ \A s \in Scopes :
               /\ rowDone'[s] = IF Owns(q) /\ s = ScopeOf[q]
                                THEN Head(queue[q]) ELSE rowDone[s]
               /\ fresh[s] => fresh'[s]
          /\ \A r \in Requests : lost'[r] => lost[r] \/ (r = q /\ ~Owns(q))
          /\ \A r \in Requests : lost[r] => lost'[r]
      BY <1>15, WrittenRow
    <2>1. Head(queue[q]) <= done[q] /\ pc[q] \in {"body", "ending"}
      BY <1>15, TailOfQueue DEF Write, TypeOK, QueueInOrder
    <2>2. RunOfScope' /\ ClaimedOnce' /\ BusyIsLeft'
      BY <1>15, <2>1, <2>0 DEF Write, TypeOK, Record, RunOfScope, ClaimedOnce, BusyIsLeft
    <2>3. LostIsGone' /\ EndedWhole'
      BY <1>15, <2>0 DEF Write, TypeOK, Record, LostIsGone, EndedWhole, Owns, Running
    <2>4. RecordIsOwn' /\ FinishedReachedEveryTask'
      BY <1>15, <2>1, <2>0 DEF Write, TypeOK, Record, RecordIsOwn, FinishedReachedEveryTask,
         Owns, Running
    <2> QED BY <2>2, <2>3, <2>4 DEF Record
  <1>16. ASSUME NEW q \in Requests, WriteDropped(q) PROVE Record'
    BY <1>16 DEF WriteDropped, TypeOK, Record, RunOfScope, ClaimedOnce,
       LostIsGone, EndedWhole, BusyIsLeft, RecordIsOwn, FinishedReachedEveryTask, Owns, Running
  <1>17. ASSUME NEW q \in Requests, Beat(q) PROVE Record'
    BY <1>17 DEF Beat, Owns, Running, TypeOK, Record, RunOfScope, ClaimedOnce,
       LostIsGone, EndedWhole, BusyIsLeft, RecordIsOwn, FinishedReachedEveryTask, Owns, Running
  <1>18. ASSUME NEW q \in Requests, End(q) PROVE Record'
    <2>1. endState[q] \in Ends /\ FinishRow(q, endState[q]) /\ TypeOK
      BY <1>18 DEF End, IInv, TypeOK, Ends
    <2>2. /\ rowRun' = rowRun /\ fresh' = fresh
          /\ rowState' \in [Scopes -> RowStates]
          /\ rowDone' \in [Scopes -> 0..Tasks]
          /\ extract' \in [Scopes -> {"none", "off", "queued", "running", "ended"}]
          /\ \A s \in Scopes :
               /\ rowState'[s] = IF Owns(q) /\ s = ScopeOf[q] THEN endState[q] ELSE rowState[s]
               /\ rowDone'[s] = IF Owns(q) /\ s = ScopeOf[q] THEN done[q] ELSE rowDone[s]
      BY <2>1, FinishedRow
    <2>3. RunOfScope' /\ ClaimedOnce' /\ BusyIsLeft'
      BY <1>18, <2>1, <2>2 DEF End, At, AfterEnd, ReturnTo, Goto, TypeOK, Record, RunOfScope, ClaimedOnce, BusyIsLeft
    <2>4. LostIsGone' /\ EndedWhole'
      BY <1>18, <2>1, <2>2 DEF End, At, AfterEnd, ReturnTo, Goto, TypeOK, Record, LostIsGone, EndedWhole, Owns, Running, Ends
    <2>5. RecordIsOwn'
      <3> SUFFICES ASSUME NEW s \in Scopes, rowRun'[s] # NoRun
                   PROVE rowDone'[s] <= done'[rowRun'[s]]
        BY DEF RecordIsOwn
      <3>1. done' = done /\ rowRun' = rowRun /\ done[q] \in 0..Tasks
        BY <1>18, <2>2 DEF End, TypeOK
      <3>2. CASE Owns(q) /\ s = ScopeOf[q]
        BY <2>2, <3>1, <3>2 DEF Owns
      <3>3. CASE ~(Owns(q) /\ s = ScopeOf[q])
        BY <2>2, <3>1, <3>3 DEF Record, RecordIsOwn
      <3> QED BY <3>2, <3>3
    <2>6. FinishedReachedEveryTask'
      BY <1>18, <2>1, <2>2 DEF End, At, AfterEnd, ReturnTo, Goto, TypeOK, Record, LostIsGone, EndedWhole, FinishedReachedEveryTask, Owns, Running, Ends
    <2> QED BY <1>18, <2>1, <2>2, <2>3, <2>4, <2>5, <2>6 DEF End, Record
  <1>19. ASSUME NEW q \in Requests, EndDropped(q) PROVE Record'
    BY <1>19 DEF EndDropped, At, AfterEnd, ReturnTo, Goto, TypeOK, Record, RunOfScope, ClaimedOnce,
       LostIsGone, EndedWhole, BusyIsLeft, RecordIsOwn, FinishedReachedEveryTask, Owns, Running
  <1>20. ASSUME NEW q \in Requests, EndAbandoned(q) PROVE Record'
    <2>1. "interrupted" \in Ends /\ FinishRow(q, "interrupted") /\ TypeOK
      BY <1>20 DEF EndAbandoned, IInv, TypeOK, Ends
    <2>2. /\ rowRun' = rowRun /\ fresh' = fresh
          /\ rowState' \in [Scopes -> RowStates]
          /\ rowDone' \in [Scopes -> 0..Tasks]
          /\ extract' \in [Scopes -> {"none", "off", "queued", "running", "ended"}]
          /\ \A s \in Scopes :
               /\ rowState'[s] = IF Owns(q) /\ s = ScopeOf[q] THEN "interrupted" ELSE rowState[s]
               /\ rowDone'[s] = IF Owns(q) /\ s = ScopeOf[q] THEN done[q] ELSE rowDone[s]
      BY <2>1, FinishedRow
    <2>3. RunOfScope' /\ ClaimedOnce' /\ BusyIsLeft'
      BY <1>20, <2>1, <2>2 DEF EndAbandoned, At, ReturnTo, Goto, TypeOK, Record, RunOfScope, ClaimedOnce, BusyIsLeft
    <2>4. LostIsGone' /\ EndedWhole'
      BY <1>20, <2>1, <2>2, SMTT(30) DEF EndAbandoned, At, ReturnTo, Goto, TypeOK, Record, LostIsGone, EndedWhole, Owns, Running, Ends
    <2>5. RecordIsOwn'
      <3> SUFFICES ASSUME NEW s \in Scopes, rowRun'[s] # NoRun
                   PROVE rowDone'[s] <= done'[rowRun'[s]]
        BY DEF RecordIsOwn
      <3>1. done' = done /\ rowRun' = rowRun /\ done[q] \in 0..Tasks
        BY <1>20, <2>2 DEF EndAbandoned, TypeOK
      <3>2. CASE Owns(q) /\ s = ScopeOf[q]
        BY <2>2, <3>1, <3>2 DEF Owns
      <3>3. CASE ~(Owns(q) /\ s = ScopeOf[q])
        BY <2>2, <3>1, <3>3 DEF Record, RecordIsOwn
      <3> QED BY <3>2, <3>3
    <2>6. FinishedReachedEveryTask'
      BY <1>20, <2>1, <2>2 DEF EndAbandoned, At, ReturnTo, Goto, TypeOK, Record, LostIsGone, EndedWhole, FinishedReachedEveryTask, Owns, Running, Ends
    <2> QED BY <1>20, <2>1, <2>2, <2>3, <2>4, <2>5, <2>6 DEF EndAbandoned, Record
  <1>21. ASSUME NEW q \in Requests, EndAbandonedDropped(q) PROVE Record'
    BY <1>21 DEF EndAbandonedDropped, At, ReturnTo, Goto, TypeOK, Record, RunOfScope, ClaimedOnce,
       LostIsGone, EndedWhole, BusyIsLeft, RecordIsOwn, FinishedReachedEveryTask, Owns, Running
  <1>22. ASSUME NEW s \in Scopes, Lapse(s) PROVE Record'
    BY <1>22 DEF Lapse, Running, Alive, Writing, TypeOK, Record, RunOfScope, ClaimedOnce,
       LostIsGone, EndedWhole, BusyIsLeft, RecordIsOwn, FinishedReachedEveryTask, Owns, Running
  <1>23. ASSUME Read PROVE Record'
    BY <1>23 DEF Read, Stale, Expired, Running, TypeOK, Record, RunOfScope, ClaimedOnce,
       LostIsGone, EndedWhole, BusyIsLeft, RecordIsOwn, FinishedReachedEveryTask, Owns, Running
  <1>24. ASSUME Crash PROVE Record'
    BY <1>24 DEF Crash, TypeOK, Record, RunOfScope, ClaimedOnce,
       LostIsGone, EndedWhole, BusyIsLeft, RecordIsOwn, FinishedReachedEveryTask, Owns, Running
  <1>25. ASSUME Restart PROVE Record'
    BY <1>25 DEF Restart, TypeOK, Record, RunOfScope, ClaimedOnce,
       LostIsGone, EndedWhole, BusyIsLeft, RecordIsOwn, FinishedReachedEveryTask, Owns, Running
  <1>26. ASSUME UNCHANGED vars PROVE Record'
    BY <1>26 DEF vars, TypeOK, Record, RunOfScope, ClaimedOnce,
       LostIsGone, EndedWhole, BusyIsLeft, RecordIsOwn, FinishedReachedEveryTask, Owns, Running
  <1> QED BY <1>1, <1>2, <1>3, <1>4, <1>5, <1>6, <1>7, <1>8, <1>9, <1>10, <1>11, <1>12, <1>13, <1>14, <1>15, <1>16, <1>17, <1>18, <1>19, <1>20, <1>21, <1>22, <1>23, <1>24, <1>25, <1>26 DEF Next, RequestStep

\* Every step keeps conflicting rows apart and every running row attended.
LEMMA HoldingStep == IInv /\ [Next]_vars => Holding'
  <1> SUFFICES ASSUME IInv, [Next]_vars PROVE Holding'
    OBVIOUS
  <1> USE ScopeAssumption, SizeAssumption DEF IInv, db, mem
  <1>1. ASSUME NEW q \in Requests, Ask(q) PROVE Holding'
    BY <1>1 DEF Ask, At, Goto, TypeOK, Holding, Exclusive, DownIsCrashed,
       PunctualOwns, RunningHasAnEnder, Alive, Writing, Owns, Running, Forbidding, Scopes,
       Record, RunOfScope, ClaimedOnce
  <1>2. ASSUME NEW q \in Requests, Refused(q) PROVE Holding'
    BY <1>2 DEF Refused, At, ReturnTo, Goto, TypeOK, Holding, Exclusive, DownIsCrashed,
       PunctualOwns, RunningHasAnEnder, Alive, Writing, Owns, Running, Forbidding, Scopes,
       Record, RunOfScope, ClaimedOnce
  <1>3. ASSUME NEW q \in Requests, Claim(q) PROVE Holding'
    <2>0. /\ rowState' \in [Scopes -> RowStates]
          /\ \A s \in Scopes :
               rowState'[s] = IF s = ScopeOf[q] THEN "running"
                              ELSE IF Running(s) /\ ~fresh[s] THEN "interrupted" ELSE rowState[s]
          /\ \A r \in Requests : r # q /\ Owns(r)' => Owns(r)
      BY <1>3, ClaimedRow
    <2>1. Exclusive'
      <3> SUFFICES ASSUME NEW s \in Scopes, NEW t \in Forbidding(s), Running(s)', Running(t)'
                   PROVE FALSE
        BY DEF Exclusive
      <3>1. t \in Scopes /\ t # s /\ s \in Forbidding(t)
        BY ForbiddingSymmetric
      <3>2. ~Blocked(ScopeOf[q])
        BY <1>3 DEF Claim
      <3>3. CASE s = ScopeOf[q]
        BY <2>0, <3>1, <3>2, <3>3 DEF Running, Blocked, Held
      <3>4. CASE t = ScopeOf[q]
        BY <2>0, <3>1, <3>2, <3>4 DEF Running, Blocked, Held
      <3>5. CASE s # ScopeOf[q] /\ t # ScopeOf[q]
        BY <2>0, <3>1, <3>5 DEF Running, Holding, Exclusive
      <3> QED BY <3>3, <3>4, <3>5
    <2>4. DownIsCrashed'
      BY <1>3 DEF Claim, At, Holding, DownIsCrashed
    <2>2. PunctualOwns'
      BY <1>3, <2>0 DEF Claim, At, Goto, Blocked, Held, TypeOK, Holding, PunctualOwns, Alive, Writing,
         Owns, Running
    <2>3. RunningHasAnEnder'
      BY <1>3, <2>0 DEF Claim, At, Goto, TypeOK, Holding, RunningHasAnEnder, Alive, Writing, Running
    <2> QED BY <2>1, <2>2, <2>3, <2>4 DEF Holding
  <1>4. ASSUME NEW q \in Requests, ClaimFails(q) PROVE Holding'
    BY <1>4 DEF ClaimFails, At, ReturnTo, Goto, TypeOK, Holding, Exclusive, DownIsCrashed,
       PunctualOwns, RunningHasAnEnder, Alive, Writing, Owns, Running, Forbidding, Scopes,
       Record, RunOfScope, ClaimedOnce
  <1>5. ASSUME NEW q \in Requests, HandOff(q) PROVE Holding'
    BY <1>5 DEF HandOff, At, Goto, TypeOK, Holding, Exclusive, DownIsCrashed,
       PunctualOwns, RunningHasAnEnder, Alive, Writing, Owns, Running, Forbidding, Scopes,
       Record, RunOfScope, ClaimedOnce
  <1>6. ASSUME NEW q \in Requests, Enter(q) PROVE Holding'
    BY <1>6 DEF Enter, At, Goto, TypeOK, Holding, Exclusive, DownIsCrashed,
       PunctualOwns, RunningHasAnEnder, Alive, Writing, Owns, Running, Forbidding, Scopes,
       Record, RunOfScope, ClaimedOnce
  <1>7. ASSUME NEW q \in Requests, CancelClaim(q) PROVE Holding'
    BY <1>7 DEF CancelClaim, TypeOK, Holding, Exclusive, DownIsCrashed,
       PunctualOwns, RunningHasAnEnder, Alive, Writing, Owns, Running, Forbidding, Scopes,
       Record, RunOfScope, ClaimedOnce
  <1>8. ASSUME NEW q \in Requests, CancelHanded(q) PROVE Holding'
    BY <1>8 DEF CancelHanded, At, Goto, TypeOK, Holding, Exclusive, DownIsCrashed,
       PunctualOwns, RunningHasAnEnder, Alive, Writing, Owns, Running, Forbidding, Scopes,
       Record, RunOfScope, ClaimedOnce
  <1>9. ASSUME NEW q \in Requests, CancelBody(q) PROVE Holding'
    BY <1>9 DEF CancelBody, At, LeaveWith, Goto, TypeOK, Holding, Exclusive, DownIsCrashed,
       PunctualOwns, RunningHasAnEnder, Alive, Writing, Owns, Running, Forbidding, Scopes,
       Record, RunOfScope, ClaimedOnce
  <1>10. ASSUME NEW q \in Requests, CancelEnd(q) PROVE Holding'
    BY <1>10 DEF CancelEnd, At, TypeOK, Holding, Exclusive, DownIsCrashed,
       PunctualOwns, RunningHasAnEnder, Alive, Writing, Owns, Running, Forbidding, Scopes,
       Record, RunOfScope, ClaimedOnce
  <1>11. ASSUME NEW q \in Requests, StartTask(q) PROVE Holding'
    BY <1>11 DEF StartTask, At, Submit, MayStart, TypeOK, Holding, Exclusive, DownIsCrashed,
       PunctualOwns, RunningHasAnEnder, Alive, Writing, Owns, Running, Forbidding, Scopes,
       Record, RunOfScope, ClaimedOnce
  <1>12. ASSUME NEW q \in Requests, EndTask(q) PROVE Holding'
    BY <1>12 DEF EndTask, At, Submit, TypeOK, Holding, Exclusive, DownIsCrashed,
       PunctualOwns, RunningHasAnEnder, Alive, Writing, Owns, Running, Forbidding, Scopes,
       Record, RunOfScope, ClaimedOnce
  <1>13. ASSUME NEW q \in Requests, Leave(q) PROVE Holding'
    BY <1>13 DEF Leave, At, MayStart, LeaveWith, Goto, TypeOK, Holding, Exclusive, DownIsCrashed,
       PunctualOwns, RunningHasAnEnder, Alive, Writing, Owns, Running, Forbidding, Scopes,
       Record, RunOfScope, ClaimedOnce
  <1>14. ASSUME NEW q \in Requests, Fail(q) PROVE Holding'
    BY <1>14 DEF Fail, At, LeaveWith, Goto, TypeOK, Holding, Exclusive, DownIsCrashed,
       PunctualOwns, RunningHasAnEnder, Alive, Writing, Owns, Running, Forbidding, Scopes,
       Record, RunOfScope, ClaimedOnce
  <1>15. ASSUME NEW q \in Requests, Write(q) PROVE Holding'
    <2>0. /\ rowDone' \in [Scopes -> 0..Tasks]
          /\ fresh' \in [Scopes -> BOOLEAN]
          /\ lost' \in [Requests -> BOOLEAN]
          /\ \A s \in Scopes :
               /\ rowDone'[s] = IF Owns(q) /\ s = ScopeOf[q]
                                THEN Head(queue[q]) ELSE rowDone[s]
               /\ fresh[s] => fresh'[s]
          /\ \A r \in Requests : lost'[r] => lost[r] \/ (r = q /\ ~Owns(q))
          /\ \A r \in Requests : lost[r] => lost'[r]
      BY <1>15, WrittenRow
    <2>1. Exclusive' /\ DownIsCrashed' /\ RunningHasAnEnder'
      BY <1>15 DEF Write, Holding, Exclusive, DownIsCrashed, RunningHasAnEnder, Running, Alive
    <2>2. PunctualOwns'
      BY <1>15, <2>0 DEF Write, Holding, PunctualOwns, Alive, Owns, Running
    <2> QED BY <2>1, <2>2 DEF Holding
  <1>16. ASSUME NEW q \in Requests, WriteDropped(q) PROVE Holding'
    BY <1>16 DEF WriteDropped, TypeOK, Holding, Exclusive, DownIsCrashed,
       PunctualOwns, RunningHasAnEnder, Alive, Writing, Owns, Running, Forbidding, Scopes,
       Record, RunOfScope, ClaimedOnce
  <1>17. ASSUME NEW q \in Requests, Beat(q) PROVE Holding'
    BY <1>17 DEF Beat, Owns, Running, TypeOK, Holding, Exclusive, DownIsCrashed,
       PunctualOwns, RunningHasAnEnder, Alive, Writing, Owns, Running, Forbidding, Scopes,
       Record, RunOfScope, ClaimedOnce
  <1>18. ASSUME NEW q \in Requests, End(q) PROVE Holding'
    <2>1. endState[q] \in Ends /\ FinishRow(q, endState[q]) /\ TypeOK
      BY <1>18 DEF End, IInv, TypeOK, Ends
    <2>2. /\ rowRun' = rowRun /\ fresh' = fresh
          /\ rowState' \in [Scopes -> RowStates]
          /\ rowDone' \in [Scopes -> 0..Tasks]
          /\ extract' \in [Scopes -> {"none", "off", "queued", "running", "ended"}]
          /\ \A s \in Scopes :
               /\ rowState'[s] = IF Owns(q) /\ s = ScopeOf[q] THEN endState[q] ELSE rowState[s]
               /\ rowDone'[s] = IF Owns(q) /\ s = ScopeOf[q] THEN done[q] ELSE rowDone[s]
      BY <2>1, FinishedRow
    <2>3. Exclusive' /\ DownIsCrashed'
      BY <1>18, <2>1, <2>2 DEF End, At, AfterEnd, ReturnTo, Goto, TypeOK, Holding, Exclusive, DownIsCrashed, Running, Forbidding, Scopes, Ends
    <2>4. PunctualOwns'
      BY <1>18, <2>1, <2>2 DEF End, At, AfterEnd, ReturnTo, Goto, TypeOK, Holding, PunctualOwns, Alive, Writing, Owns, Running, Ends
    <2>5. RunningHasAnEnder'
      BY <1>18, <2>1, <2>2 DEF End, At, AfterEnd, ReturnTo, Goto, TypeOK, Holding, RunningHasAnEnder, DownIsCrashed, Alive, Writing, Owns, Running, Ends, Record, RunOfScope
    <2> QED BY <1>18, <2>1, <2>2, <2>3, <2>4, <2>5 DEF End, Holding
  <1>19. ASSUME NEW q \in Requests, EndDropped(q) PROVE Holding'
    BY <1>19 DEF EndDropped, At, AfterEnd, ReturnTo, Goto, TypeOK, Holding, Exclusive, DownIsCrashed,
       PunctualOwns, RunningHasAnEnder, Alive, Writing, Owns, Running, Forbidding, Scopes,
       Record, RunOfScope, ClaimedOnce
  <1>20. ASSUME NEW q \in Requests, EndAbandoned(q) PROVE Holding'
    <2>1. "interrupted" \in Ends /\ FinishRow(q, "interrupted") /\ TypeOK
      BY <1>20 DEF EndAbandoned, IInv, TypeOK, Ends
    <2>2. /\ rowRun' = rowRun /\ fresh' = fresh
          /\ rowState' \in [Scopes -> RowStates]
          /\ rowDone' \in [Scopes -> 0..Tasks]
          /\ extract' \in [Scopes -> {"none", "off", "queued", "running", "ended"}]
          /\ \A s \in Scopes :
               /\ rowState'[s] = IF Owns(q) /\ s = ScopeOf[q] THEN "interrupted" ELSE rowState[s]
               /\ rowDone'[s] = IF Owns(q) /\ s = ScopeOf[q] THEN done[q] ELSE rowDone[s]
      BY <2>1, FinishedRow
    <2>3. Exclusive' /\ DownIsCrashed'
      BY <1>20, <2>1, <2>2 DEF EndAbandoned, At, ReturnTo, Goto, TypeOK, Holding, Exclusive, DownIsCrashed, Running, Forbidding, Scopes, Ends
    <2>4. PunctualOwns'
      BY <1>20, <2>1, <2>2 DEF EndAbandoned, At, ReturnTo, Goto, TypeOK, Holding, PunctualOwns, Alive, Writing, Owns, Running, Ends
    <2>5. RunningHasAnEnder'
      BY <1>20, <2>1, <2>2 DEF EndAbandoned, At, ReturnTo, Goto, TypeOK, Holding, RunningHasAnEnder, DownIsCrashed, Alive, Writing, Owns, Running, Ends, Record, RunOfScope
    <2> QED BY <1>20, <2>1, <2>2, <2>3, <2>4, <2>5 DEF EndAbandoned, Holding
  <1>21. ASSUME NEW q \in Requests, EndAbandonedDropped(q) PROVE Holding'
    BY <1>21 DEF EndAbandonedDropped, At, ReturnTo, Goto, TypeOK, Holding, Exclusive, DownIsCrashed,
       PunctualOwns, RunningHasAnEnder, Alive, Writing, Owns, Running, Forbidding, Scopes,
       Record, RunOfScope, ClaimedOnce
  <1>22. ASSUME NEW s \in Scopes, Lapse(s) PROVE Holding'
    BY <1>22 DEF Lapse, Running, Alive, Writing, TypeOK, Holding, Exclusive, DownIsCrashed,
       PunctualOwns, RunningHasAnEnder, Alive, Writing, Owns, Running, Forbidding, Scopes,
       Record, RunOfScope, ClaimedOnce
  <1>23. ASSUME Read PROVE Holding'
    BY <1>23 DEF Read, Stale, Expired, Running, TypeOK, Holding, Exclusive, DownIsCrashed,
       PunctualOwns, RunningHasAnEnder, Alive, Writing, Owns, Running, Forbidding, Scopes,
       Record, RunOfScope, ClaimedOnce
  <1>24. ASSUME Crash PROVE Holding'
    BY <1>24 DEF Crash, TypeOK, Holding, Exclusive, DownIsCrashed,
       PunctualOwns, RunningHasAnEnder, Alive, Writing, Owns, Running, Forbidding, Scopes,
       Record, RunOfScope, ClaimedOnce
  <1>25. ASSUME Restart PROVE Holding'
    <2>1. crashes # 0 /\ rowState' = rowState /\ crashes' = crashes
      BY <1>25 DEF Restart, Holding, DownIsCrashed
    <2>2. Exclusive' /\ DownIsCrashed' /\ RunningHasAnEnder'
      BY <1>25, <2>1 DEF Restart, Holding, Exclusive, DownIsCrashed, RunningHasAnEnder, Running
    <2>3. PunctualOwns'
      BY <1>25 DEF Restart, Holding, DownIsCrashed, PunctualOwns, Alive, Writing, Owns, Running
    <2> QED BY <2>2, <2>3 DEF Holding
  <1>26. ASSUME UNCHANGED vars PROVE Holding'
    BY <1>26 DEF vars, TypeOK, Holding, Exclusive, DownIsCrashed,
       PunctualOwns, RunningHasAnEnder, Alive, Writing, Owns, Running, Forbidding, Scopes,
       Record, RunOfScope, ClaimedOnce
  <1> QED BY <1>1, <1>2, <1>3, <1>4, <1>5, <1>6, <1>7, <1>8, <1>9, <1>10, <1>11, <1>12, <1>13, <1>14, <1>15, <1>16, <1>17, <1>18, <1>19, <1>20, <1>21, <1>22, <1>23, <1>24, <1>25, <1>26 DEF Next, RequestStep

\* Every step keeps the writer's queue in order.
LEMMA QueueStep == IInv /\ [Next]_vars => QueueInOrder'
  <1> SUFFICES ASSUME IInv, [Next]_vars PROVE QueueInOrder'
    OBVIOUS
  <1> USE ScopeAssumption, SizeAssumption DEF IInv, db, mem
  <1>1. ASSUME NEW q \in Requests, Ask(q) PROVE QueueInOrder'
    BY <1>1 DEF Ask, At, Goto, TypeOK, QueueInOrder, Record, RunOfScope,
       ClaimedOnce, BusyIsLeft, RecordIsOwn, Owns, Running
  <1>2. ASSUME NEW q \in Requests, Refused(q) PROVE QueueInOrder'
    BY <1>2 DEF Refused, At, ReturnTo, Goto, TypeOK, QueueInOrder, Record, RunOfScope,
       ClaimedOnce, BusyIsLeft, RecordIsOwn, Owns, Running
  <1>3. ASSUME NEW q \in Requests, Claim(q) PROVE QueueInOrder'
    <2>0. /\ rowState' \in [Scopes -> RowStates]
          /\ \A s \in Scopes :
               rowState'[s] = IF s = ScopeOf[q] THEN "running"
                              ELSE IF Running(s) /\ ~fresh[s] THEN "interrupted" ELSE rowState[s]
          /\ \A r \in Requests : r # q /\ Owns(r)' => Owns(r)
      BY <1>3, ClaimedRow
    <2>1. queue' = queue /\ done' = done /\ queue[q] = <<>>
      BY <1>3 DEF Claim, At, Record, ClaimedOnce
    <2>2. \A r \in Requests \ {q} : Owns(r)' => Owns(r) /\ rowDone'[ScopeOf[r]] = rowDone[ScopeOf[r]]
      BY <1>3, <2>0 DEF Claim, TypeOK, Owns
    <2>3. Len(queue[q]) = 0
      BY <2>1, EmptySeq
    <2> QED BY <2>1, <2>2, <2>3 DEF QueueInOrder
  <1>4. ASSUME NEW q \in Requests, ClaimFails(q) PROVE QueueInOrder'
    BY <1>4 DEF ClaimFails, At, ReturnTo, Goto, TypeOK, QueueInOrder, Record, RunOfScope,
       ClaimedOnce, BusyIsLeft, RecordIsOwn, Owns, Running
  <1>5. ASSUME NEW q \in Requests, HandOff(q) PROVE QueueInOrder'
    BY <1>5 DEF HandOff, At, Goto, TypeOK, QueueInOrder, Record, RunOfScope,
       ClaimedOnce, BusyIsLeft, RecordIsOwn, Owns, Running
  <1>6. ASSUME NEW q \in Requests, Enter(q) PROVE QueueInOrder'
    BY <1>6 DEF Enter, At, Goto, TypeOK, QueueInOrder, Record, RunOfScope,
       ClaimedOnce, BusyIsLeft, RecordIsOwn, Owns, Running
  <1>7. ASSUME NEW q \in Requests, CancelClaim(q) PROVE QueueInOrder'
    BY <1>7 DEF CancelClaim, TypeOK, QueueInOrder, Record, RunOfScope,
       ClaimedOnce, BusyIsLeft, RecordIsOwn, Owns, Running
  <1>8. ASSUME NEW q \in Requests, CancelHanded(q) PROVE QueueInOrder'
    BY <1>8 DEF CancelHanded, At, Goto, TypeOK, QueueInOrder, Record, RunOfScope,
       ClaimedOnce, BusyIsLeft, RecordIsOwn, Owns, Running
  <1>9. ASSUME NEW q \in Requests, CancelBody(q) PROVE QueueInOrder'
    BY <1>9 DEF CancelBody, At, LeaveWith, Goto, TypeOK, QueueInOrder, Record, RunOfScope,
       ClaimedOnce, BusyIsLeft, RecordIsOwn, Owns, Running
  <1>10. ASSUME NEW q \in Requests, CancelEnd(q) PROVE QueueInOrder'
    BY <1>10 DEF CancelEnd, At, TypeOK, QueueInOrder, Record, RunOfScope,
       ClaimedOnce, BusyIsLeft, RecordIsOwn, Owns, Running
  <1>11. ASSUME NEW q \in Requests, StartTask(q) PROVE QueueInOrder'
    <2>1. done[q] \in 0..Tasks /\ queue[q] \in Seq(0..Tasks)
      BY <1>11 DEF StartTask, MayStart, TypeOK, Record, BusyIsLeft
    <2>2. /\ Len(queue[q]) \in Nat /\ Len(Append(queue[q], done[q])) = Len(queue[q]) + 1
          /\ \A i \in 1..Len(queue[q]) : Append(queue[q], done[q])[i] = queue[q][i]
          /\ Append(queue[q], done[q])[Len(queue[q]) + 1] = done[q]
      BY <2>1, AppendToQueue
    <2>3. queue' = [queue EXCEPT ![q] = Append(queue[q], done[q])]
      BY <1>11 DEF StartTask, Submit, TypeOK
    <2>4. \A r \in Requests \ {q} : queue'[r] = queue[r] /\ done'[r] = done[r]
      BY <1>11, <2>3 DEF StartTask, TypeOK
    <2>5. /\ queue'[q] = Append(queue[q], done[q])
          /\ done'[q] = done[q]
          /\ \A i \in 1..Len(queue[q]) : queue[q][i] \in 0..Tasks /\ queue[q][i] <= done[q]
          /\ done[q] \in 0..Tasks /\ done[q] <= done[q]
      BY <1>11, <2>1, <2>3 DEF StartTask, TypeOK, QueueInOrder
    <2>6. rowDone' = rowDone /\ rowRun' = rowRun /\ rowState' = rowState
      BY <1>11 DEF StartTask
    <2>7. Owns(q) => rowDone[ScopeOf[q]] <= done[q] /\ rowDone[ScopeOf[q]] \in 0..Tasks
      BY DEF TypeOK, Record, RecordIsOwn, Owns
    <2> SUFFICES ASSUME NEW r \in Requests
                 PROVE /\ \A i, j \in 1..Len(queue'[r]) : i <= j => queue'[r][i] <= queue'[r][j]
                       /\ \A i \in 1..Len(queue'[r]) : queue'[r][i] <= done'[r]
                       /\ \A i \in 1..Len(queue'[r]) : Owns(r)' => rowDone'[ScopeOf[r]] <= queue'[r][i]
      BY DEF QueueInOrder
    <2>8. CASE r # q
      BY <2>4, <2>6, <2>8 DEF QueueInOrder, Owns, Running
    <2>9. CASE r = q
      <3>1. \A i \in 1..Len(queue'[q]) :
              \/ i \in 1..Len(queue[q]) /\ queue'[q][i] = queue[q][i]
              \/ i = Len(queue[q]) + 1 /\ queue'[q][i] = done[q]
        BY <2>2, <2>5
      <3>2. \A i, j \in 1..Len(queue'[q]) : i <= j => queue'[q][i] <= queue'[q][j]
        BY <2>1, <2>2, <2>5, <3>1 DEF QueueInOrder
      <3>3. \A i \in 1..Len(queue'[q]) : queue'[q][i] <= done'[q]
        <4>1. \A i \in 1..Len(queue[q]) : queue[q][i] <= done[q]
          BY <2>5
        <4> QED BY <2>1, <2>5, <3>1, <4>1
      <3>4. \A i \in 1..Len(queue'[q]) : Owns(q)' => rowDone'[ScopeOf[q]] <= queue'[q][i]
        BY <2>1, <2>5, <2>6, <2>7, <3>1 DEF QueueInOrder, Owns, Running
      <3> QED BY <2>9, <3>2, <3>3, <3>4
    <2> QED BY <2>8, <2>9
  <1>12. ASSUME NEW q \in Requests, EndTask(q) PROVE QueueInOrder'
    <2>1. (done[q] + 1) \in 0..Tasks /\ queue[q] \in Seq(0..Tasks)
      BY <1>12 DEF EndTask, MayStart, TypeOK, Record, BusyIsLeft
    <2>2. /\ Len(queue[q]) \in Nat /\ Len(Append(queue[q], (done[q] + 1))) = Len(queue[q]) + 1
          /\ \A i \in 1..Len(queue[q]) : Append(queue[q], (done[q] + 1))[i] = queue[q][i]
          /\ Append(queue[q], (done[q] + 1))[Len(queue[q]) + 1] = (done[q] + 1)
      BY <2>1, AppendToQueue
    <2>3. queue' = [queue EXCEPT ![q] = Append(queue[q], (done[q] + 1))]
      BY <1>12 DEF EndTask, Submit, TypeOK
    <2>4. \A r \in Requests \ {q} : queue'[r] = queue[r] /\ done'[r] = done[r]
      BY <1>12, <2>3 DEF EndTask, TypeOK
    <2>5. /\ queue'[q] = Append(queue[q], (done[q] + 1))
          /\ done'[q] = (done[q] + 1)
          /\ \A i \in 1..Len(queue[q]) : queue[q][i] \in 0..Tasks /\ queue[q][i] <= done[q]
          /\ done[q] \in 0..Tasks /\ done[q] <= (done[q] + 1)
      BY <1>12, <2>1, <2>3 DEF EndTask, TypeOK, QueueInOrder
    <2>6. rowDone' = rowDone /\ rowRun' = rowRun /\ rowState' = rowState
      BY <1>12 DEF EndTask
    <2>7. Owns(q) => rowDone[ScopeOf[q]] <= done[q] /\ rowDone[ScopeOf[q]] \in 0..Tasks
      BY DEF TypeOK, Record, RecordIsOwn, Owns
    <2> SUFFICES ASSUME NEW r \in Requests
                 PROVE /\ \A i, j \in 1..Len(queue'[r]) : i <= j => queue'[r][i] <= queue'[r][j]
                       /\ \A i \in 1..Len(queue'[r]) : queue'[r][i] <= done'[r]
                       /\ \A i \in 1..Len(queue'[r]) : Owns(r)' => rowDone'[ScopeOf[r]] <= queue'[r][i]
      BY DEF QueueInOrder
    <2>8. CASE r # q
      BY <2>4, <2>6, <2>8 DEF QueueInOrder, Owns, Running
    <2>9. CASE r = q
      <3>1. \A i \in 1..Len(queue'[q]) :
              \/ i \in 1..Len(queue[q]) /\ queue'[q][i] = queue[q][i]
              \/ i = Len(queue[q]) + 1 /\ queue'[q][i] = (done[q] + 1)
        BY <2>2, <2>5
      <3>2. \A i, j \in 1..Len(queue'[q]) : i <= j => queue'[q][i] <= queue'[q][j]
        BY <2>1, <2>2, <2>5, <3>1, SMTT(30) DEF QueueInOrder
      <3>3. \A i \in 1..Len(queue'[q]) : queue'[q][i] <= done'[q]
        <4>1. \A i \in 1..Len(queue[q]) : queue[q][i] <= (done[q] + 1)
          BY <2>5
        <4> QED BY <2>1, <2>5, <3>1, <4>1
      <3>4. \A i \in 1..Len(queue'[q]) : Owns(q)' => rowDone'[ScopeOf[q]] <= queue'[q][i]
        BY <2>1, <2>5, <2>6, <2>7, <3>1, SMTT(30) DEF QueueInOrder, Owns, Running
      <3> QED BY <2>9, <3>2, <3>3, <3>4
    <2> QED BY <2>8, <2>9
  <1>13. ASSUME NEW q \in Requests, Leave(q) PROVE QueueInOrder'
    BY <1>13 DEF Leave, At, MayStart, LeaveWith, Goto, TypeOK, QueueInOrder, Record, RunOfScope,
       ClaimedOnce, BusyIsLeft, RecordIsOwn, Owns, Running
  <1>14. ASSUME NEW q \in Requests, Fail(q) PROVE QueueInOrder'
    BY <1>14 DEF Fail, At, LeaveWith, Goto, TypeOK, QueueInOrder, Record, RunOfScope,
       ClaimedOnce, BusyIsLeft, RecordIsOwn, Owns, Running
  <1>15. ASSUME NEW q \in Requests, Write(q) PROVE QueueInOrder'
    <2>1. /\ Tail(queue[q]) \in Seq(0..Tasks) /\ Head(queue[q]) = queue[q][1]
          /\ Len(queue[q]) \in Nat \ {0} /\ Len(Tail(queue[q])) = Len(queue[q]) - 1
          /\ \A i \in 1..Len(Tail(queue[q])) : Tail(queue[q])[i] = queue[q][i + 1]
      BY <1>15, TailOfQueue DEF Write, TypeOK
    <2>2. queue'[q] = Tail(queue[q]) /\ \A r \in Requests \ {q} : queue'[r] = queue[r]
      BY <1>15 DEF Write, TypeOK
    <2>3. done' = done /\ rowRun' = rowRun /\ rowState' = rowState
      BY <1>15 DEF Write
    <2>4. \A r \in Requests : Owns(r)' <=> Owns(r)
      BY <2>3 DEF Owns, Running
    <2>5. /\ Owns(q) => rowDone'[ScopeOf[q]] = queue[q][1]
          /\ \A r \in Requests \ {q} : Owns(r) => rowDone'[ScopeOf[r]] = rowDone[ScopeOf[r]]
      BY <1>15, <2>1, WrittenRow DEF TypeOK, Owns
    <2>6. \A r \in Requests : \A i \in 1..Len(queue[r]) : queue[r][i] \in 0..Tasks
      BY DEF TypeOK
    <2> SUFFICES ASSUME NEW r \in Requests
                 PROVE /\ \A i, j \in 1..Len(queue'[r]) : i <= j => queue'[r][i] <= queue'[r][j]
                       /\ \A i \in 1..Len(queue'[r]) : queue'[r][i] <= done'[r]
                       /\ \A i \in 1..Len(queue'[r]) : Owns(r)' => rowDone'[ScopeOf[r]] <= queue'[r][i]
      BY DEF QueueInOrder
    <2>7. CASE r # q
      BY <2>2, <2>3, <2>4, <2>5, <2>7 DEF QueueInOrder
    <2>8. CASE r = q
      <3>1. \A i \in 1..Len(queue'[q]) : i + 1 \in 1..Len(queue[q]) /\ queue'[q][i] = queue[q][i + 1]
        BY <2>1, <2>2
      <3>2. \A i, j \in 1..Len(queue'[q]) : i <= j => queue'[q][i] <= queue'[q][j]
        BY <3>1 DEF QueueInOrder
      <3>3. \A i \in 1..Len(queue'[q]) : queue'[q][i] <= done'[q]
        BY <2>3, <3>1 DEF QueueInOrder
      <3>4. \A i \in 1..Len(queue'[q]) : Owns(q)' => rowDone'[ScopeOf[q]] <= queue'[q][i]
        <4> SUFFICES ASSUME NEW i \in 1..Len(queue'[q]), Owns(q)
                     PROVE  rowDone'[ScopeOf[q]] <= queue'[q][i]
          BY <2>4
        <4>1. 1 \in 1..Len(queue[q]) /\ i + 1 \in 1..Len(queue[q]) /\ 1 <= i + 1
          BY <2>1, <3>1
        <4>2. queue[q][1] <= queue[q][i + 1]
          BY <4>1 DEF QueueInOrder
        <4> QED BY <2>5, <3>1, <4>2
      <3> QED BY <2>8, <3>2, <3>3, <3>4
    <2> QED BY <2>7, <2>8
  <1>16. ASSUME NEW q \in Requests, WriteDropped(q) PROVE QueueInOrder'
    <2>1. /\ Tail(queue[q]) \in Seq(0..Tasks) /\ Head(queue[q]) = queue[q][1]
          /\ Len(queue[q]) \in Nat \ {0} /\ Len(Tail(queue[q])) = Len(queue[q]) - 1
          /\ \A i \in 1..Len(Tail(queue[q])) : Tail(queue[q])[i] = queue[q][i + 1]
      BY <1>16, TailOfQueue DEF WriteDropped, TypeOK
    <2>2. queue'[q] = Tail(queue[q]) /\ \A r \in Requests \ {q} : queue'[r] = queue[r]
      BY <1>16 DEF WriteDropped, TypeOK
    <2>3. done' = done /\ rowRun' = rowRun /\ rowState' = rowState
      BY <1>16 DEF WriteDropped
    <2>4. \A r \in Requests : Owns(r)' <=> Owns(r)
      BY <2>3 DEF Owns, Running
    <2>5. rowDone' = rowDone
      BY <1>16 DEF WriteDropped
    <2>6. \A r \in Requests : \A i \in 1..Len(queue[r]) : queue[r][i] \in 0..Tasks
      BY DEF TypeOK
    <2> SUFFICES ASSUME NEW r \in Requests
                 PROVE /\ \A i, j \in 1..Len(queue'[r]) : i <= j => queue'[r][i] <= queue'[r][j]
                       /\ \A i \in 1..Len(queue'[r]) : queue'[r][i] <= done'[r]
                       /\ \A i \in 1..Len(queue'[r]) : Owns(r)' => rowDone'[ScopeOf[r]] <= queue'[r][i]
      BY DEF QueueInOrder
    <2>7. CASE r # q
      BY <2>2, <2>3, <2>4, <2>5, <2>7 DEF QueueInOrder
    <2>8. CASE r = q
      <3>1. \A i \in 1..Len(queue'[q]) : i + 1 \in 1..Len(queue[q]) /\ queue'[q][i] = queue[q][i + 1]
        BY <2>1, <2>2
      <3>2. \A i, j \in 1..Len(queue'[q]) : i <= j => queue'[q][i] <= queue'[q][j]
        BY <3>1 DEF QueueInOrder
      <3>3. \A i \in 1..Len(queue'[q]) : queue'[q][i] <= done'[q]
        BY <2>3, <3>1 DEF QueueInOrder
      <3>4. \A i \in 1..Len(queue'[q]) : Owns(q)' => rowDone'[ScopeOf[q]] <= queue'[q][i]
        BY <2>1, <2>4, <2>5, <3>1 DEF QueueInOrder
      <3> QED BY <2>8, <3>2, <3>3, <3>4
    <2> QED BY <2>7, <2>8
  <1>17. ASSUME NEW q \in Requests, Beat(q) PROVE QueueInOrder'
    BY <1>17 DEF Beat, Owns, Running, TypeOK, QueueInOrder, Record, RunOfScope,
       ClaimedOnce, BusyIsLeft, RecordIsOwn, Owns, Running
  <1>18. ASSUME NEW q \in Requests, End(q) PROVE QueueInOrder'
    <2>1. endState[q] \in Ends /\ FinishRow(q, endState[q]) /\ TypeOK
      BY <1>18 DEF End, IInv, TypeOK, Ends
    <2>2. /\ rowRun' = rowRun /\ fresh' = fresh
          /\ rowState' \in [Scopes -> RowStates]
          /\ rowDone' \in [Scopes -> 0..Tasks]
          /\ extract' \in [Scopes -> {"none", "off", "queued", "running", "ended"}]
          /\ \A s \in Scopes :
               /\ rowState'[s] = IF Owns(q) /\ s = ScopeOf[q] THEN endState[q] ELSE rowState[s]
               /\ rowDone'[s] = IF Owns(q) /\ s = ScopeOf[q] THEN done[q] ELSE rowDone[s]
      BY <2>1, FinishedRow
    <2>3. queue' = queue /\ done' = done
      BY <1>18 DEF End
    <2>4. \A r \in Requests : Owns(r)' => Owns(r) /\ rowDone'[ScopeOf[r]] = rowDone[ScopeOf[r]]
      BY <2>1, <2>2 DEF Owns, Running, Ends
    <2> QED BY <2>3, <2>4 DEF QueueInOrder
  <1>19. ASSUME NEW q \in Requests, EndDropped(q) PROVE QueueInOrder'
    BY <1>19 DEF EndDropped, At, AfterEnd, ReturnTo, Goto, TypeOK, QueueInOrder, Record, RunOfScope,
       ClaimedOnce, BusyIsLeft, RecordIsOwn, Owns, Running
  <1>20. ASSUME NEW q \in Requests, EndAbandoned(q) PROVE QueueInOrder'
    <2>1. "interrupted" \in Ends /\ FinishRow(q, "interrupted") /\ TypeOK
      BY <1>20 DEF EndAbandoned, IInv, TypeOK, Ends
    <2>2. /\ rowRun' = rowRun /\ fresh' = fresh
          /\ rowState' \in [Scopes -> RowStates]
          /\ rowDone' \in [Scopes -> 0..Tasks]
          /\ extract' \in [Scopes -> {"none", "off", "queued", "running", "ended"}]
          /\ \A s \in Scopes :
               /\ rowState'[s] = IF Owns(q) /\ s = ScopeOf[q] THEN "interrupted" ELSE rowState[s]
               /\ rowDone'[s] = IF Owns(q) /\ s = ScopeOf[q] THEN done[q] ELSE rowDone[s]
      BY <2>1, FinishedRow
    <2>3. queue' = queue /\ done' = done
      BY <1>20 DEF EndAbandoned
    <2>4. \A r \in Requests : Owns(r)' => Owns(r) /\ rowDone'[ScopeOf[r]] = rowDone[ScopeOf[r]]
      BY <2>1, <2>2 DEF Owns, Running, Ends
    <2> QED BY <2>3, <2>4 DEF QueueInOrder
  <1>21. ASSUME NEW q \in Requests, EndAbandonedDropped(q) PROVE QueueInOrder'
    BY <1>21 DEF EndAbandonedDropped, At, ReturnTo, Goto, TypeOK, QueueInOrder, Record, RunOfScope,
       ClaimedOnce, BusyIsLeft, RecordIsOwn, Owns, Running
  <1>22. ASSUME NEW s \in Scopes, Lapse(s) PROVE QueueInOrder'
    BY <1>22 DEF Lapse, Running, Alive, Writing, TypeOK, QueueInOrder, Record, RunOfScope,
       ClaimedOnce, BusyIsLeft, RecordIsOwn, Owns, Running
  <1>23. ASSUME Read PROVE QueueInOrder'
    BY <1>23 DEF Read, Stale, Expired, Running, TypeOK, QueueInOrder, Record, RunOfScope,
       ClaimedOnce, BusyIsLeft, RecordIsOwn, Owns, Running
  <1>24. ASSUME Crash PROVE QueueInOrder'
    BY <1>24 DEF Crash, TypeOK, QueueInOrder, Record, RunOfScope,
       ClaimedOnce, BusyIsLeft, RecordIsOwn, Owns, Running
  <1>25. ASSUME Restart PROVE QueueInOrder'
    BY <1>25 DEF Restart, TypeOK, QueueInOrder, Record, RunOfScope,
       ClaimedOnce, BusyIsLeft, RecordIsOwn, Owns, Running
  <1>26. ASSUME UNCHANGED vars PROVE QueueInOrder'
    BY <1>26 DEF vars, TypeOK, QueueInOrder, Record, RunOfScope,
       ClaimedOnce, BusyIsLeft, RecordIsOwn, Owns, Running
  <1> QED BY <1>1, <1>2, <1>3, <1>4, <1>5, <1>6, <1>7, <1>8, <1>9, <1>10, <1>11, <1>12, <1>13, <1>14, <1>15, <1>16, <1>17, <1>18, <1>19, <1>20, <1>21, <1>22, <1>23, <1>24, <1>25, <1>26 DEF Next, RequestStep

\* Invariance of IInv.
LEMMA Invariance == Spec => []IInv
  <1>1. IInv /\ [Next]_vars => IInv'
    BY TypeStep, RecordStep, QueueStep, HoldingStep DEF IInv
  <1> QED BY <1>1, InitIInv, PTL DEF Spec

-----------------------------------------------------------------------------
\* The rows and the requests keep their types.
THEOREM TypeCorrect == Spec => []TypeOK
  <1>1. IInv => TypeOK
    BY DEF IInv
  <1> QED BY <1>1, Invariance, PTL

\* The whole session's record never runs beside a provider's own (_blocker),
\* for any number of providers and requests.
THEOREM RowsExclude == Spec => []Exclusive
  <1>1. IInv => Exclusive
    BY DEF IInv, Holding
  <1> QED BY <1>1, Invariance, PTL

\* Without stalls, two requests never download the same files at once.
THEOREM WorkExcludes == Spec => []MutualExclusion
  <1>1. IInv => MutualExclusion
    BY ScopeAssumption DEF IInv, Holding, PunctualOwns, Exclusive, MutualExclusion, Overlap, At, Alive,
       Writing, Owns, TypeOK
  <1> QED BY <1>1, Invariance, PTL

\* No write of a refresh that lost its row shows in the next one's record.
THEOREM RecordFenced == Spec => []RecordIsOwn
  <1>1. IInv => RecordIsOwn
    BY DEF IInv, Record
  <1> QED BY <1>1, Invariance, PTL

\* A record that says finished has every task done.
THEOREM FinishedIsWhole == Spec => []FinishedReachedEveryTask
  <1>1. IInv => FinishedReachedEveryTask
    BY DEF IInv, Record
  <1> QED BY <1>1, Invariance, PTL

\* While the process lives and its writes succeed, no claim is left without
\* someone to end it, whenever its request was cancelled (_claim_off_loop).
THEOREM ClaimsAreEnded == Spec => []RunningHasAnEnder
  <1>1. IInv => RunningHasAnEnder
    BY DEF IInv, Holding
  <1> QED BY <1>1, Invariance, PTL

\* No step takes the count of a record back.
LEMMA CountStep == IInv /\ [Next]_vars => CountGrows
  <1> SUFFICES ASSUME IInv, [Next]_vars PROVE CountGrows
    OBVIOUS
  <1> USE ScopeAssumption, SizeAssumption DEF IInv, db, mem
  <1>1. ASSUME NEW q \in Requests, Ask(q) PROVE CountGrows
    BY <1>1 DEF Ask, At, Goto, TypeOK, CountGrows, Record, ClaimedOnce
  <1>2. ASSUME NEW q \in Requests, Refused(q) PROVE CountGrows
    BY <1>2 DEF Refused, At, ReturnTo, Goto, TypeOK, CountGrows, Record, ClaimedOnce
  <1>3. ASSUME NEW q \in Requests, Claim(q) PROVE CountGrows
    BY <1>3 DEF Claim, At, Goto, Blocked, Held, Expired, Stale, Running, TypeOK, CountGrows, Record, ClaimedOnce
  <1>4. ASSUME NEW q \in Requests, ClaimFails(q) PROVE CountGrows
    BY <1>4 DEF ClaimFails, At, ReturnTo, Goto, TypeOK, CountGrows, Record, ClaimedOnce
  <1>5. ASSUME NEW q \in Requests, HandOff(q) PROVE CountGrows
    BY <1>5 DEF HandOff, At, Goto, TypeOK, CountGrows, Record, ClaimedOnce
  <1>6. ASSUME NEW q \in Requests, Enter(q) PROVE CountGrows
    BY <1>6 DEF Enter, At, Goto, TypeOK, CountGrows, Record, ClaimedOnce
  <1>7. ASSUME NEW q \in Requests, CancelClaim(q) PROVE CountGrows
    BY <1>7 DEF CancelClaim, TypeOK, CountGrows, Record, ClaimedOnce
  <1>8. ASSUME NEW q \in Requests, CancelHanded(q) PROVE CountGrows
    BY <1>8 DEF CancelHanded, At, Goto, TypeOK, CountGrows, Record, ClaimedOnce
  <1>9. ASSUME NEW q \in Requests, CancelBody(q) PROVE CountGrows
    BY <1>9 DEF CancelBody, At, LeaveWith, Goto, TypeOK, CountGrows, Record, ClaimedOnce
  <1>10. ASSUME NEW q \in Requests, CancelEnd(q) PROVE CountGrows
    BY <1>10 DEF CancelEnd, At, TypeOK, CountGrows, Record, ClaimedOnce
  <1>11. ASSUME NEW q \in Requests, StartTask(q) PROVE CountGrows
    BY <1>11 DEF StartTask, At, Submit, MayStart, TypeOK, CountGrows, Record, ClaimedOnce
  <1>12. ASSUME NEW q \in Requests, EndTask(q) PROVE CountGrows
    BY <1>12 DEF EndTask, At, Submit, TypeOK, CountGrows, Record, ClaimedOnce
  <1>13. ASSUME NEW q \in Requests, Leave(q) PROVE CountGrows
    BY <1>13 DEF Leave, At, MayStart, LeaveWith, Goto, TypeOK, CountGrows, Record, ClaimedOnce
  <1>14. ASSUME NEW q \in Requests, Fail(q) PROVE CountGrows
    BY <1>14 DEF Fail, At, LeaveWith, Goto, TypeOK, CountGrows, Record, ClaimedOnce
  <1>15. ASSUME NEW q \in Requests, Write(q) PROVE CountGrows
    <2>0. /\ rowDone' \in [Scopes -> 0..Tasks]
          /\ fresh' \in [Scopes -> BOOLEAN]
          /\ lost' \in [Requests -> BOOLEAN]
          /\ \A s \in Scopes :
               /\ rowDone'[s] = IF Owns(q) /\ s = ScopeOf[q]
                                THEN Head(queue[q]) ELSE rowDone[s]
               /\ fresh[s] => fresh'[s]
          /\ \A r \in Requests : lost'[r] => lost[r] \/ (r = q /\ ~Owns(q))
          /\ \A r \in Requests : lost[r] => lost'[r]
      BY <1>15, WrittenRow
    <2>1. Head(queue[q]) \in 0..Tasks /\ (Owns(q) => rowDone[ScopeOf[q]] <= Head(queue[q]))
      BY <1>15, TailOfQueue DEF Write, TypeOK, QueueInOrder
    <2> QED BY <1>15, <2>1, <2>0 DEF TypeOK, CountGrows
  <1>16. ASSUME NEW q \in Requests, WriteDropped(q) PROVE CountGrows
    BY <1>16 DEF WriteDropped, TypeOK, CountGrows, Record, ClaimedOnce
  <1>17. ASSUME NEW q \in Requests, Beat(q) PROVE CountGrows
    BY <1>17 DEF Beat, Owns, Running, TypeOK, CountGrows, Record, ClaimedOnce
  <1>18. ASSUME NEW q \in Requests, End(q) PROVE CountGrows
    <2>1. endState[q] \in Ends /\ FinishRow(q, endState[q]) /\ TypeOK
      BY <1>18 DEF End, IInv, TypeOK, Ends
    <2>2. /\ rowRun' = rowRun /\ fresh' = fresh
          /\ rowState' \in [Scopes -> RowStates]
          /\ rowDone' \in [Scopes -> 0..Tasks]
          /\ extract' \in [Scopes -> {"none", "off", "queued", "running", "ended"}]
          /\ \A s \in Scopes :
               /\ rowState'[s] = IF Owns(q) /\ s = ScopeOf[q] THEN endState[q] ELSE rowState[s]
               /\ rowDone'[s] = IF Owns(q) /\ s = ScopeOf[q] THEN done[q] ELSE rowDone[s]
      BY <2>1, FinishedRow
    <2>3. Owns(q) => rowDone[ScopeOf[q]] <= done[q]
      BY DEF Record, RecordIsOwn, Owns
    <2> QED BY <2>2, <2>3 DEF TypeOK, CountGrows
  <1>19. ASSUME NEW q \in Requests, EndDropped(q) PROVE CountGrows
    BY <1>19 DEF EndDropped, At, AfterEnd, ReturnTo, Goto, TypeOK, CountGrows, Record, ClaimedOnce
  <1>20. ASSUME NEW q \in Requests, EndAbandoned(q) PROVE CountGrows
    <2>1. "interrupted" \in Ends /\ FinishRow(q, "interrupted") /\ TypeOK
      BY <1>20 DEF EndAbandoned, IInv, TypeOK, Ends
    <2>2. /\ rowRun' = rowRun /\ fresh' = fresh
          /\ rowState' \in [Scopes -> RowStates]
          /\ rowDone' \in [Scopes -> 0..Tasks]
          /\ extract' \in [Scopes -> {"none", "off", "queued", "running", "ended"}]
          /\ \A s \in Scopes :
               /\ rowState'[s] = IF Owns(q) /\ s = ScopeOf[q] THEN "interrupted" ELSE rowState[s]
               /\ rowDone'[s] = IF Owns(q) /\ s = ScopeOf[q] THEN done[q] ELSE rowDone[s]
      BY <2>1, FinishedRow
    <2>3. Owns(q) => rowDone[ScopeOf[q]] <= done[q]
      BY DEF Record, RecordIsOwn, Owns
    <2> QED BY <2>2, <2>3 DEF TypeOK, CountGrows
  <1>21. ASSUME NEW q \in Requests, EndAbandonedDropped(q) PROVE CountGrows
    BY <1>21 DEF EndAbandonedDropped, At, ReturnTo, Goto, TypeOK, CountGrows, Record, ClaimedOnce
  <1>22. ASSUME NEW s \in Scopes, Lapse(s) PROVE CountGrows
    BY <1>22 DEF Lapse, Running, Alive, Writing, TypeOK, CountGrows, Record, ClaimedOnce
  <1>23. ASSUME Read PROVE CountGrows
    BY <1>23 DEF Read, Stale, Expired, Running, TypeOK, CountGrows, Record, ClaimedOnce
  <1>24. ASSUME Crash PROVE CountGrows
    BY <1>24 DEF Crash, TypeOK, CountGrows, Record, ClaimedOnce
  <1>25. ASSUME Restart PROVE CountGrows
    BY <1>25 DEF Restart, TypeOK, CountGrows, Record, ClaimedOnce
  <1>26. ASSUME UNCHANGED vars PROVE CountGrows
    BY <1>26 DEF vars, TypeOK, CountGrows, Record, ClaimedOnce
  <1> QED BY <1>1, <1>2, <1>3, <1>4, <1>5, <1>6, <1>7, <1>8, <1>9, <1>10, <1>11, <1>12, <1>13, <1>14, <1>15, <1>16, <1>17, <1>18, <1>19, <1>20, <1>21, <1>22, <1>23, <1>24, <1>25, <1>26 DEF Next, RequestStep

\* The count of a record never goes back while the same refresh owns it.
THEOREM CountNeverGoesBack == Spec => ProgressNeverGoesBack
  <1>1. IInv /\ [Next]_vars => [CountGrows]_vars
    BY CountStep
  <1> QED BY <1>1, Invariance, PTL DEF Spec, ProgressNeverGoesBack

\* A record tells the truth about its own refresh.
THEOREM RecordHolds == Spec => []RecordIsTrue
  BY TypeCorrect, RecordFenced, FinishedIsWhole, PTL DEF RecordIsTrue

\* Refreshes that overlap exclude each other and none is left without an ender.
THEOREM RefreshesAlone == Spec => []RefreshesExclude
  BY RowsExclude, WorkExcludes, ClaimsAreEnded, PTL DEF RefreshesExclude

-----------------------------------------------------------------------------
(* ExtractFollowUp beside RefreshProgress *)


\* A process that is down has no queue and no thread.
DownIsEmpty == ~up => passScope = NoScope /\ \A s \in Scopes : queuedRun[s] = NoRun

\* The sender thread reports to a record while it runs a pass.
ThreadOwnsPass ==
    /\ passScope = NoScope <=> passRun = NoRun
    /\ passOn => passScope # NoScope

\* Only what has a follow-up, with the module on, is queued and run.
PassesFollow ==
    /\ \A s \in Scopes : queuedRun[s] # NoRun => FollowUp(s) /\ ModuleOn
    /\ passScope # NoScope => FollowUp(passScope) /\ ModuleOn
    /\ \A q \in Requests : pc[q] = "ended" => FollowUp(ScopeOf[q])

\* A record names the refresh that it shows.
NamedRows == \A s \in Scopes : rowState[s] # "none" => rowRun[s] \in Requests

\* A record with a pass under way is a finished one with a follow-up.
ExtractIsFollowUp ==
    \A s \in Scopes : extract[s] \in {"queued", "running"} =>
        FollowUp(s) /\ rowState[s] = "finished" /\ rowRun[s] # NoRun /\ ModuleOn

\* Unless it stalls, a request about to queue its pass still has its record.
EndedOwns == ~Stalls => \A q \in Requests : pc[q] = "ended" => rowRun[ScopeOf[q]] = q

QueuedOnTime == ~Stalls => QueuedIsServed

\* The part of the invariant about the queue, and the part about the records.
Queueing == WaitingAgree /\ DownIsEmpty /\ ThreadOwnsPass /\ PassesFollow
Reported == NamedRows /\ ExtractIsFollowUp /\ EndedOwns /\ RunningPassIsOwn /\ QueuedOnTime

FInv == IInv /\ FTypeOK /\ Queueing /\ Reported

-----------------------------------------------------------------------------
(* The queue as a sequence of different scopes. *)

\* Appending a scope that is not there keeps the queue without repetition.
LEMMA Appended ==
    ASSUME NEW S, NEW seq \in Seq(S), NEW x \in S
    PROVE  /\ Append(seq, x) \in Seq(S)
           /\ Range(Append(seq, x)) = Range(seq) \cup {x}
           /\ IsInjective(seq) /\ x \notin Range(seq) => IsInjective(Append(seq, x))
  <1>1. /\ Append(seq, x) \in Seq(S) /\ Len(seq) \in Nat
        /\ DOMAIN seq = 1..Len(seq) /\ DOMAIN Append(seq, x) = 1..(Len(seq) + 1)
        /\ \A i \in 1..Len(seq) : Append(seq, x)[i] = seq[i]
        /\ Append(seq, x)[Len(seq) + 1] = x
    BY AppendProperties, LenProperties
  <1> QED BY <1>1 DEF Range, IsInjective

\* Taking the first scope leaves the others.
LEMMA Shortened ==
    ASSUME NEW S, NEW seq \in Seq(S), seq # <<>>
    PROVE  /\ Tail(seq) \in Seq(S) /\ Head(seq) \in S /\ Head(seq) \in Range(seq)
           /\ IsInjective(seq) => /\ IsInjective(Tail(seq))
                                  /\ Range(Tail(seq)) = Range(seq) \ {Head(seq)}
  <1>1. /\ Head(seq) \in S /\ Tail(seq) \in Seq(S)
        /\ Len(seq) \in Nat \ {0} /\ Len(Tail(seq)) = Len(seq) - 1
        /\ DOMAIN seq = 1..Len(seq) /\ DOMAIN Tail(seq) = 1..(Len(seq) - 1)
        /\ Head(seq) = seq[1]
        /\ \A i \in 1..(Len(seq) - 1) : Tail(seq)[i] = seq[i + 1]
    BY TailOfQueue, LenProperties
  <1>2. Head(seq) \in Range(seq)
    BY <1>1 DEF Range
  <1>3. ASSUME IsInjective(seq) PROVE IsInjective(Tail(seq))
    BY <1>1, <1>3 DEF IsInjective
  <1>4. ASSUME IsInjective(seq) PROVE Range(Tail(seq)) = Range(seq) \ {Head(seq)}
    <2>1. ASSUME NEW y \in Range(Tail(seq)) PROVE y \in Range(seq) \ {Head(seq)}
      BY <1>1, <1>4 DEF Range, IsInjective
    <2>2. ASSUME NEW y \in Range(seq) \ {Head(seq)} PROVE y \in Range(Tail(seq))
      <3>1. PICK i \in 1..Len(seq) : seq[i] = y /\ i # 1
        BY <1>1 DEF Range
      <3>2. i - 1 \in 1..(Len(seq) - 1) /\ Tail(seq)[i - 1] = y
        BY <1>1, <3>1
      <3> QED BY <1>1, <3>2 DEF Range
    <2> QED BY <2>1, <2>2
  <1> QED BY <1>1, <1>2, <1>3, <1>4

\* Every enumeration of a finite set of scopes holds each of them once.
LEMMA Enumerated ==
    ASSUME NEW S, IsFiniteSet(S), NEW seq \in SetToSeqs(S)
    PROVE  seq \in Seq(S) /\ IsInjective(seq) /\ Range(seq) = S
  <1> DEFINE D == 1..Cardinality(S)
  <1>1. Cardinality(S) \in Nat
    BY FS_CardinalityType
  <1>2. seq \in [D -> S] /\ \A i, j \in D : i # j => seq[i] # seq[j]
    BY DEF SetToSeqs
  <1>3. IsInjective(seq)
    BY <1>2 DEF IsInjective
  <1>4. IsFiniteSet(D) /\ Cardinality(D) = Cardinality(S)
    BY <1>1, FS_Interval
  <1>5. seq \in Surjection(D, S)
    BY <1>2, <1>3, <1>4, FS_Injection DEF Injection
  <1>6. Range(seq) = S
    BY <1>2, <1>5 DEF Surjection, Range
  <1>7. seq \in Seq(S)
    BY <1>1, <1>2, IsASeq
  <1> QED BY <1>3, <1>6, <1>7

-----------------------------------------------------------------------------
(* What a step of a refresh does to the records. *)

\* It leaves them alone, takes one for its request, or ends its own.
Quiet == rowRun' = rowRun /\ rowState' = rowState /\ extract' = extract
TakesRow(q) ==
    /\ rowRun[ScopeOf[q]] # q
    /\ rowRun' = [rowRun EXCEPT ![ScopeOf[q]] = q]
    /\ extract' = [extract EXCEPT ![ScopeOf[q]] = "none"]
    /\ \A s \in Scopes : s # ScopeOf[q] => rowState'[s] = rowState[s] \/ rowState[s] = "running"
    /\ pc'[q] = "handoff"
EndsRow(q) ==
    /\ Owns(q) /\ rowRun' = rowRun
    /\ \A s \in Scopes : s # ScopeOf[q] => rowState'[s] = rowState[s] /\ extract'[s] = extract[s]
    /\ extract'[ScopeOf[q]] \in {"queued", "running"} /\ extract'[ScopeOf[q]] # extract[ScopeOf[q]] =>
        /\ extract'[ScopeOf[q]] = "queued" /\ rowState'[ScopeOf[q]] = "finished"
        /\ FollowUp(ScopeOf[q]) /\ ModuleOn
        /\ pc[q] = "ending"
        /\ pc'[q] = "ended" \/ (abandoned[q] /\ pc'[q] = "over")

\* A refresh runs in a live process, ends itself alone, and writes its own record.
LEMMA StepEffect ==
    ASSUME IInv, NEW q \in Requests, RequestStep(q)
    PROVE  /\ up /\ up' /\ pc[q] # "ended"
           /\ \A r \in Requests : r # q => pc'[r] = pc[r]
           /\ pc'[q] = "ended" => pc[q] = "ending" /\ FollowUp(ScopeOf[q])
           /\ Quiet \/ TakesRow(q) \/ EndsRow(q)
  <1> USE ScopeAssumption DEF db, mem
  <1> DEFINE G == /\ up /\ up' /\ pc[q] # "ended"
                  /\ \A r \in Requests : r # q => pc'[r] = pc[r]
                  /\ pc'[q] = "ended" => pc[q] = "ending" /\ FollowUp(ScopeOf[q])
                  /\ Quiet \/ TakesRow(q) \/ EndsRow(q)
  <1>1. CASE Claim(q)
    <2>1. /\ rowRun[ScopeOf[q]] # q /\ ScopeOf[q] \in Scopes
          /\ rowRun' = [rowRun EXCEPT ![ScopeOf[q]] = q]
          /\ extract' = [extract EXCEPT ![ScopeOf[q]] = "none"]
      BY <1>1 DEF Claim, At, IInv, Record, ClaimedOnce
    <2>2. \A s \in Scopes : s # ScopeOf[q] => rowState'[s] = rowState[s] \/ rowState[s] = "running"
      BY <1>1, ClaimedRow DEF IInv, Running
    <2>3. up /\ up' /\ pc[q] = "claiming" /\ pc' = [pc EXCEPT ![q] = "handoff"]
      BY <1>1 DEF Claim, At, Goto
    <2>4. TakesRow(q)
      BY <2>1, <2>2, <2>3 DEF TakesRow, IInv, TypeOK
    <2> QED BY <2>3, <2>4 DEF IInv, TypeOK
  <1>2. ASSUME NEW end \in Ends, FinishRow(q, end), up, up', pc[q] \in {"ending", "ender"},
               \A r \in Requests : r # q => pc'[r] = pc[r],
               pc'[q] = "ended" => pc[q] = "ending" /\ FollowUp(ScopeOf[q]),
               end = "finished" /\ FollowUp(ScopeOf[q]) =>
                  pc[q] = "ending" /\ (pc'[q] = "ended" \/ (abandoned[q] /\ pc'[q] = "over"))
        PROVE  G
    <2>1. CASE ~Owns(q)
      BY <1>2, <2>1 DEF FinishRow, Quiet
    <2>2. CASE Owns(q)
      <3>1. /\ rowRun' = rowRun /\ ScopeOf[q] \in Scopes
            /\ rowState' = [rowState EXCEPT ![ScopeOf[q]] = end]
            /\ extract' = IF FollowUp(ScopeOf[q])
                          THEN [extract EXCEPT ![ScopeOf[q]] = ExtractOnFinish(end)] ELSE extract
        BY <1>2, <2>2 DEF FinishRow
      <3>2. ExtractOnFinish(end) \in {"queued", "running"} =>
               ExtractOnFinish(end) = "queued" /\ end = "finished" /\ ModuleOn
        BY KnobAssumption DEF ExtractOnFinish
      <3>3. \A s \in Scopes : s # ScopeOf[q] =>
               rowState'[s] = rowState[s] /\ extract'[s] = extract[s]
        BY <3>1 DEF IInv, TypeOK
      <3>4. /\ rowState'[ScopeOf[q]] = end
            /\ extract'[ScopeOf[q]] = IF FollowUp(ScopeOf[q]) THEN ExtractOnFinish(end)
                                      ELSE extract[ScopeOf[q]]
        BY <3>1 DEF IInv, TypeOK
      <3>5. ASSUME extract'[ScopeOf[q]] \in {"queued", "running"},
                   extract'[ScopeOf[q]] # extract[ScopeOf[q]]
            PROVE  /\ extract'[ScopeOf[q]] = "queued" /\ end = "finished"
                   /\ FollowUp(ScopeOf[q]) /\ ModuleOn
        BY <3>2, <3>4, <3>5
      <3>6. EndsRow(q)
        BY <1>2, <2>2, <3>1, <3>3, <3>4, <3>5 DEF EndsRow
      <3> QED BY <1>2, <3>6
    <2> QED BY <2>1, <2>2
  <1>3. CASE End(q)
    <2>1. endState[q] \in Ends /\ FinishRow(q, endState[q]) /\ up /\ up' /\ pc[q] = "ending"
      BY <1>3 DEF End, At, IInv, TypeOK
    <2>2. pc' = [pc EXCEPT ![q] = AfterEnd(q)]
      BY <1>3 DEF End, ReturnTo, Goto
    <2> QED BY <1>2, <2>1, <2>2 DEF AfterEnd, IInv, TypeOK
  <1>4. CASE EndAbandoned(q)
    <2>1. "interrupted" \in Ends /\ FinishRow(q, "interrupted") /\ up /\ up' /\ pc[q] = "ender"
      BY <1>4 DEF EndAbandoned, At, Ends
    <2>2. pc' = [pc EXCEPT ![q] = "over"]
      BY <1>4 DEF EndAbandoned, ReturnTo, Goto
    <2> QED BY <1>2, <2>1, <2>2 DEF IInv, TypeOK
  <1>5. CASE \/ Ask(q) \/ Refused(q) \/ ClaimFails(q) \/ HandOff(q) \/ Enter(q)
             \/ CancelHanded(q) \/ CancelBody(q) \/ Leave(q) \/ Fail(q)
             \/ EndDropped(q) \/ EndAbandonedDropped(q)
    BY <1>5 DEF Quiet, Ask, Refused, ClaimFails, HandOff, Enter, CancelHanded, CancelBody,
       Leave, Fail, EndDropped, EndAbandonedDropped, AfterEnd, LeaveWith, ReturnTo, Goto, At,
       IInv, TypeOK
  <1>6. CASE \/ CancelClaim(q) \/ CancelEnd(q) \/ StartTask(q) \/ EndTask(q)
             \/ WriteDropped(q) \/ Beat(q)
    BY <1>6 DEF Quiet, CancelClaim, CancelEnd, StartTask, EndTask, WriteDropped, Beat, At
  <1>7. CASE Write(q)
    BY <1>7 DEF Quiet, Write
  <1> QED BY <1>1, <1>3, <1>4, <1>5, <1>6, <1>7 DEF RequestStep

-----------------------------------------------------------------------------
(* Every step keeps the invariant of RefreshProgress. *)

\* The queue starts empty.
LEMMA InitFInv == FInit => FInv
  <1> SUFFICES ASSUME FInit PROVE FInv
    OBVIOUS
  <1> USE ScopeAssumption
  <1>1. IInv
    BY InitIInv DEF FInit
  <1>2. <<>> \in Seq(Scopes) /\ DOMAIN <<>> = {}
    BY EmptySeq
  <1>3. FTypeOK
    BY <1>1, <1>2 DEF FInit, FTypeOK, IInv
  <1>4. Queueing
    BY <1>2, NoScopeAssumption DEF FInit, Init, Queueing, WaitingAgree, IsInjective, Range, DownIsEmpty,
       ThreadOwnsPass, PassesFollow
  <1>5. Reported
    BY DEF FInit, Init, Reported, NamedRows, ExtractIsFollowUp, EndedOwns, RunningPassIsOwn,
       QueuedOnTime, QueuedIsServed
  <1> QED BY <1>1, <1>3, <1>4, <1>5 DEF FInv

\* The invariant of RefreshProgress reads neither `extract` nor a request that ended.
LEMMA SenderKeepsIInv ==
    ASSUME IInv, NamedRows, UNCHANGED <<rowRun, rowState, fresh, rowDone, crashes, busy, done, queue>>,
           extract' \in [Scopes -> {"none", "off", "queued", "running", "ended"}],
           up' \in BOOLEAN,
           \/ up' = up /\ UNCHANGED <<pc, abandoned, endState, lost>>
           \/ up' /\ UNCHANGED <<pc, abandoned, endState, lost>>
           \/ /\ up' = up
              /\ \E q \in Requests : pc[q] = "ended" /\ ReturnTo(q, "over")
    PROVE  IInv'
  <1>1. TypeOK' /\ \A q \in Requests : pc'[q] = pc[q] \/ (pc[q] = "ended" /\ pc'[q] = "over")
    BY ZenonT(60) DEF IInv, TypeOK, ReturnTo, Goto, PCs, Ends
  <1>2. \A q \in Requests : /\ lost'[q] => lost[q]
                            /\ pc'[q] # "over" => abandoned'[q] = abandoned[q]
                                    /\ endState'[q] = endState[q] /\ lost'[q] = lost[q]
    BY DEF IInv, TypeOK, ReturnTo, Goto
  <1>3. \A s \in Scopes : Running(s)' <=> Running(s)
    BY DEF Running
  <1>4. \A q \in Requests : Owns(q)' <=> Owns(q)
    BY <1>3 DEF Owns, Running
  <1>5. Record'
    BY <1>1, <1>2, <1>4 DEF IInv, Record, RunOfScope, ClaimedOnce, LostIsGone, EndedWhole,
       BusyIsLeft, RecordIsOwn, FinishedReachedEveryTask
  <1>6. QueueInOrder'
    BY <1>4 DEF IInv, QueueInOrder
  <1>7. \A q \in Requests : pc'[q] \in Writing <=> pc[q] \in Writing
    BY <1>1 DEF Writing
  <1>8. Holding'
    <2>1. up => up'
      OBVIOUS
    <2>2. ~up => \A q \in Requests : pc[q] \notin Writing
      BY DEF IInv, Holding, DownIsCrashed
    <2>3. \A q \in Requests : Alive(q)' <=> Alive(q)
      BY <1>7, <2>1, <2>2 DEF Alive
    <2>4. Exclusive' /\ DownIsCrashed'
      <3>1. Exclusive'
        BY <1>3, ForbiddingSymmetric DEF IInv, Holding, Exclusive
      <3>2. DownIsCrashed'
        BY <1>7, <2>1 DEF IInv, Holding, DownIsCrashed, TypeOK
      <3> QED BY <3>1, <3>2
    <2>5. PunctualOwns'
      <3> SUFFICES ASSUME ~Stalls, NEW q \in Requests, Alive(q)' PROVE (Owns(q) /\ fresh[ScopeOf[q]])'
        BY DEF PunctualOwns
      <3>1. Owns(q) /\ fresh[ScopeOf[q]]
        BY <2>3 DEF IInv, Holding, PunctualOwns
      <3> QED BY <1>4, <3>1
    <2>6. RunningHasAnEnder'
      <3> SUFFICES ASSUME crashes' = 0, ~WriteFails, NEW s \in Scopes, Running(s)'
                   PROVE  Alive(rowRun[s])'
        BY DEF RunningHasAnEnder
      <3>1. crashes = 0 /\ Running(s)
        BY <1>3
      <3>2. Alive(rowRun[s]) /\ rowRun[s] \in Requests /\ rowRun'[s] = rowRun[s]
        BY <3>1 DEF IInv, Holding, RunningHasAnEnder, NamedRows, Running
      <3> QED BY <1>7, <2>1, <3>2 DEF Alive
    <2> QED BY <2>4, <2>5, <2>6 DEF Holding
  <1> QED BY <1>1, <1>5, <1>6, <1>8 DEF IInv

\* The refreshes' own invariant holds beside the sender.
LEMMA StepIInv ==
    ASSUME IInv, NamedRows, [FNext]_allVars
    PROVE  IInv'
  <1> USE DEF db, mem
  <1>1. ASSUME [Next]_vars PROVE IInv'
    BY <1>1, TypeStep, RecordStep, QueueStep, HoldingStep DEF IInv
  <1>2. CASE RefreshStep
    BY <1>1, <1>2 DEF RefreshStep, Next
  <1>3. ASSUME NEW q \in Requests, AfterRefresh(q) PROVE IInv'
    BY <1>3, SenderKeepsIInv DEF AfterRefresh, At, IInv, TypeOK
  <1>4. CASE StartPass
    BY <1>1, <1>4 DEF StartPass
  <1>5. CASE PassStarted
    BY <1>5, SenderKeepsIInv DEF PassStarted, Report, IInv, TypeOK
  <1>6. CASE PassEnds
    BY <1>6, SenderKeepsIInv DEF PassEnds, Report, IInv, TypeOK
  <1>7. CASE CrashAll
    BY <1>1, <1>7 DEF CrashAll, Next
  <1>8. CASE Resume
    BY <1>8, SenderKeepsIInv DEF Resume, IInv, TypeOK
  <1>9. CASE ResumeFails
    BY <1>1, <1>9 DEF ResumeFails, Next
  <1>10. CASE UNCHANGED allVars
    BY <1>1, <1>10 DEF allVars
  <1> QED BY <1>2, <1>3, <1>4, <1>5, <1>6, <1>7, <1>8, <1>9, <1>10 DEF FNext

-----------------------------------------------------------------------------
(* The queue and the sender thread. *)

\* A restart queues finitely many scopes.
LEMMA ResumedFinite == IsFiniteSet(ToResume) /\ ToResume \subseteq Scopes
  <1>1. IsFiniteSet({"providers", "osm"})
    <2>1. {"providers", "osm"} = {"providers"} \cup {"osm"}
      OBVIOUS
    <2>2. IsFiniteSet({"providers"}) /\ IsFiniteSet({"osm"})
      BY FS_Singleton
    <2>3. IsFiniteSet({"providers"} \cup {"osm"})
      BY ONLY <2>2, FS_Union
    <2> QED BY <2>1, <2>3
  <1>2. IsFiniteSet(Scopes)
    BY <1>1, ProvidersAssumption, FS_Union DEF Scopes
  <1> QED BY <1>2, FS_Subset DEF ToResume

\* Every step keeps the types of the queue.
LEMMA QueueTypeStep ==
    ASSUME FInv, [FNext]_allVars
    PROVE  FTypeOK'
  <1> USE ScopeAssumption, NoScopeAssumption DEF db, mem, vars
  <1>0. TypeOK'
    BY StepIInv DEF FInv, Reported, IInv
  <1> SUFFICES /\ waiting' \in Seq(Scopes) /\ queuedRun' \in [Scopes -> Requests \cup {NoRun}]
               /\ passScope' \in Scopes \cup {NoScope} /\ passRun' \in Requests \cup {NoRun}
               /\ passOn' \in BOOLEAN /\ silent' \subseteq Scopes
    BY <1>0 DEF FTypeOK
  <1>1. FTypeOK
    BY DEF FInv
  <1>2. CASE RefreshStep
    BY <1>1, <1>2 DEF RefreshStep, FTypeOK, CutOff
  <1>3. ASSUME NEW q \in Requests, AfterRefresh(q) PROVE FTypeOK'
    <2>1. Append(waiting, ScopeOf[q]) \in Seq(Scopes)
      BY <1>1, Appended DEF FTypeOK
    <2> QED BY <1>0, <1>1, <1>3, <2>1 DEF AfterRefresh, FTypeOK, Reporting
  <1>4. CASE StartPass
    <2>1. Tail(waiting) \in Seq(Scopes) /\ Head(waiting) \in Scopes
      BY <1>1, <1>4, Shortened DEF FTypeOK, StartPass
    <2> QED BY <1>1, <1>4, <2>1 DEF StartPass, FTypeOK
  <1>5. CASE PassStarted
    BY <1>1, <1>5 DEF PassStarted, Report, FTypeOK
  <1>6. CASE PassEnds
    BY <1>1, <1>6 DEF PassEnds, Report, FTypeOK
  <1>7. CASE CrashAll
    BY <1>1, <1>7, EmptySeq DEF CrashAll, FTypeOK
  <1>8. CASE Resume
    <2>1. waiting' \in Seq(Scopes)
      <3>1. waiting' \in SetToSeqs(ToResume)
        BY <1>8 DEF Resume
      <3>2. waiting' \in Seq(ToResume)
        BY <3>1, ResumedFinite, Enumerated
      <3> QED BY <3>2, ResumedFinite, SeqMonotonic
    <2> QED BY <1>1, <1>8, <2>1 DEF Resume, FTypeOK, TypeOK
  <1>9. CASE ResumeFails
    BY <1>1, <1>9, ResumedFinite DEF ResumeFails, FTypeOK
  <1>10. CASE UNCHANGED allVars
    BY <1>1, <1>10 DEF allVars, sender, FTypeOK
  <1> QED BY <1>2, <1>3, <1>4, <1>5, <1>6, <1>7, <1>8, <1>9, <1>10 DEF FNext, FTypeOK

\* What the steps that are not a request's do to the process, the requests and the records.
LEMMA ReaderEffect ==
    ASSUME IInv, Read \/ \E s \in Scopes : Lapse(s)
    PROVE  /\ up' = up /\ pc' = pc /\ rowRun' = rowRun /\ extract' = extract
           /\ \A s \in Scopes : rowState'[s] = rowState[s]
                                \/ (rowState[s] = "running" /\ rowState'[s] = "interrupted")
  BY DEF Read, Lapse, Expired, Stale, Running, mem, IInv, TypeOK

\* Every step keeps the queue, the pass and the memory of the sender in agreement.
LEMMA QueueingStep ==
    ASSUME FInv, [FNext]_allVars
    PROVE  Queueing'
  <1> USE ScopeAssumption, NoScopeAssumption
  <1>0. FTypeOK /\ IInv /\ Queueing /\ Reported
    BY DEF FInv
  <1>1. CASE RefreshStep
    <2>1. ASSUME NEW q \in Requests, RequestStep(q)
          PROVE  up /\ up' /\ \A r \in Requests : pc'[r] = "ended" => FollowUp(ScopeOf[r])
      BY <1>0, <2>1, StepEffect DEF Queueing, PassesFollow
    <2>2. ASSUME Read \/ \E s \in Scopes : Lapse(s)
          PROVE  up' = up /\ \A r \in Requests : pc'[r] = "ended" => FollowUp(ScopeOf[r])
      BY <1>0, <2>2, ReaderEffect DEF Queueing, PassesFollow
    <2>3. (up' => up) /\ (~up' => ~up)
          /\ \A r \in Requests : pc'[r] = "ended" => FollowUp(ScopeOf[r])
      BY <1>1, <2>1, <2>2 DEF RefreshStep
    <2> QED BY <1>0, <1>1, <2>3 DEF RefreshStep, Queueing, WaitingAgree, DownIsEmpty,
               ThreadOwnsPass, PassesFollow
  <1>2. ASSUME NEW q \in Requests, AfterRefresh(q) PROVE Queueing'
    <2> DEFINE s == ScopeOf[q]
    <2>1. s \in Scopes /\ FollowUp(s) /\ up /\ up' = up /\ pc' = [pc EXCEPT ![q] = "over"]
      BY <1>0, <1>2 DEF AfterRefresh, At, ReturnTo, Goto, Queueing, PassesFollow
    <2>2. DownIsEmpty' /\ ThreadOwnsPass'
      BY <1>0, <1>2, <2>1 DEF AfterRefresh, Queueing, DownIsEmpty, ThreadOwnsPass
    <2>3. /\ queuedRun' = IF ModuleOn THEN [queuedRun EXCEPT ![s] = q] ELSE queuedRun
          /\ waiting' = IF ModuleOn /\ queuedRun[s] = NoRun THEN Append(waiting, s) ELSE waiting
      BY <1>2, KnobAssumption DEF AfterRefresh, Reporting
    <2>4. PassesFollow'
      BY <1>0, <1>2, <2>1, <2>3 DEF AfterRefresh, Queueing, PassesFollow, FTypeOK, IInv, TypeOK
    <2>5. WaitingAgree'
      <3>1. CASE ModuleOn /\ queuedRun[s] = NoRun
        <4>1. /\ Range(waiting') = Range(waiting) \cup {s}
              /\ s \notin Range(waiting) /\ IsInjective(waiting')
          BY <1>0, <2>1, <2>3, <3>1, Appended DEF Queueing, WaitingAgree, FTypeOK
        <4> QED BY <1>0, <2>1, <2>3, <3>1, <4>1 DEF Queueing, WaitingAgree, FTypeOK
      <3>2. CASE ~(ModuleOn /\ queuedRun[s] = NoRun)
        BY <1>0, <2>1, <2>3, <3>2 DEF Queueing, WaitingAgree, FTypeOK
      <3> QED BY <3>1, <3>2
    <2> QED BY <2>2, <2>4, <2>5 DEF Queueing
  <1>3. CASE StartPass
    <2>1. /\ up /\ up' = up /\ pc' = pc /\ passOn' = FALSE
          /\ passScope' = Head(waiting) /\ passRun' = queuedRun[Head(waiting)]
          /\ queuedRun' = [queuedRun EXCEPT ![Head(waiting)] = NoRun]
          /\ waiting' = Tail(waiting)
      BY <1>3 DEF StartPass, vars, mem
    <2>2. /\ Head(waiting) \in Scopes /\ Head(waiting) \in Range(waiting)
          /\ IsInjective(Tail(waiting))
          /\ Range(Tail(waiting)) = Range(waiting) \ {Head(waiting)}
      BY <1>0, <1>3, Shortened DEF StartPass, FTypeOK, Queueing, WaitingAgree
    <2>3. queuedRun[Head(waiting)] # NoRun
      BY <1>0, <2>2 DEF Queueing, WaitingAgree
    <2>4. WaitingAgree'
      BY <1>0, <2>1, <2>2 DEF Queueing, WaitingAgree, FTypeOK
    <2>5. DownIsEmpty' /\ ThreadOwnsPass' /\ PassesFollow'
      BY <1>0, <2>1, <2>2, <2>3 DEF Queueing, DownIsEmpty, ThreadOwnsPass, PassesFollow, FTypeOK
    <2> QED BY <2>4, <2>5 DEF Queueing
  <1>4. CASE PassStarted \/ PassEnds
    <2>1. pc' = pc /\ up' = up /\ up /\ UNCHANGED <<waiting, queuedRun>>
          /\ \/ passScope' = passScope /\ passRun' = passRun /\ passScope # NoScope
             \/ passScope' = NoScope /\ passRun' = NoRun /\ passOn' = FALSE
      BY <1>4 DEF PassStarted, PassEnds, Report, mem
    <2> QED BY <1>0, <2>1 DEF Queueing, WaitingAgree, DownIsEmpty, ThreadOwnsPass, PassesFollow
  <1>5. CASE CrashAll
    <2>1. DOMAIN <<>> = {} /\ waiting' = <<>> /\ queuedRun' = [s \in Scopes |-> NoRun]
          /\ passScope' = NoScope /\ passRun' = NoRun /\ passOn' = FALSE
          /\ \A q \in Requests : pc'[q] # "ended"
      BY <1>5, EmptySeq DEF CrashAll, Crash
    <2> QED BY <2>1 DEF Queueing, WaitingAgree, DownIsEmpty, ThreadOwnsPass, PassesFollow,
               IsInjective, Range
  <1>6. CASE Resume
    <2>1. /\ up' /\ pc' = pc /\ UNCHANGED <<passScope, passRun, passOn>>
          /\ queuedRun' = [s \in Scopes |-> IF s \in ToResume THEN rowRun[s] ELSE NoRun]
          /\ waiting' \in SetToSeqs(ToResume)
      BY <1>6 DEF Resume, mem
    <2>2. IsInjective(waiting') /\ Range(waiting') = ToResume
      BY <2>1, ResumedFinite, Enumerated
    <2>3. \A s \in ToResume : s \in Scopes /\ FollowUp(s) /\ ModuleOn /\ rowRun[s] \in Requests
      BY <1>0 DEF ToResume, Unfinished, Reported, NamedRows
    <2>4. WaitingAgree'
      BY <2>1, <2>2, <2>3 DEF WaitingAgree
    <2>5. DownIsEmpty' /\ ThreadOwnsPass' /\ PassesFollow'
      BY <1>0, <2>1, <2>3 DEF Queueing, DownIsEmpty, ThreadOwnsPass, PassesFollow
    <2> QED BY <2>4, <2>5 DEF Queueing
  <1>7. CASE ResumeFails
    BY <1>0, <1>7 DEF ResumeFails, Restart, mem, Queueing, WaitingAgree, DownIsEmpty, ThreadOwnsPass,
       PassesFollow
  <1>8. CASE UNCHANGED allVars
    BY <1>0, <1>8 DEF allVars, vars, mem, sender, Queueing, WaitingAgree, DownIsEmpty,
       ThreadOwnsPass, PassesFollow
  <1> QED BY <1>1, <1>2, <1>3, <1>4, <1>5, <1>6, <1>7, <1>8 DEF FNext

-----------------------------------------------------------------------------
(* What the records say of the passes. *)

\* A step of a refresh: it leaves the records alone, takes one, or ends its own.
LEMMA ReportingRefresh ==
    ASSUME FInv, RefreshStep
    PROVE  Reported'
  <1> USE ScopeAssumption
  <1>0. FTypeOK /\ IInv /\ Queueing /\ Reported /\ TypeOK
    BY DEF FInv, IInv
  <1>1. /\ UNCHANGED <<passScope, passRun, passOn, queuedRun>> /\ Prompt
        /\ silent' = (silent \cup CutOff) \ Reclaimed
    BY DEF RefreshStep
  <1>2. ASSUME Read \/ \E s \in Scopes : Lapse(s) PROVE Reported'
    <2>1. /\ up' = up /\ pc' = pc /\ rowRun' = rowRun /\ extract' = extract
          /\ \A s \in Scopes : rowState'[s] = rowState[s]
                               \/ (rowState[s] = "running" /\ rowState'[s] = "interrupted")
      BY <1>0, <1>2, ReaderEffect
    <2>2. silent' = silent
      BY <1>0, <1>1, <2>1 DEF CutOff, Reclaimed, FTypeOK
    <2> QED BY <1>0, <1>1, <2>1, <2>2 DEF Reported, NamedRows, ExtractIsFollowUp, EndedOwns,
               RunningPassIsOwn, QueuedOnTime, QueuedIsServed, At
  <1>3. ASSUME NEW q \in Requests, RequestStep(q) PROVE Reported'
    <2> DEFINE s == ScopeOf[q]
    <2>1. /\ up /\ up' /\ pc[q] # "ended" /\ s \in Scopes
          /\ \A r \in Requests : r # q => pc'[r] = pc[r]
          /\ pc'[q] = "ended" => pc[q] = "ending" /\ FollowUp(s)
          /\ Quiet \/ TakesRow(q) \/ EndsRow(q)
      BY <1>0, <1>3, StepEffect
    <2>2. ~Stalls /\ pc[q] = "ending" => rowRun[s] = q
      BY <1>0, <2>1 DEF IInv, Holding, PunctualOwns, Alive, Writing, Owns
    <2>3. CASE Quiet
      <3>1. \A t \in silent : t \in silent'
        BY <1>0, <1>1, <2>3 DEF Reclaimed, Quiet
      <3>2. NamedRows' /\ ExtractIsFollowUp' /\ RunningPassIsOwn'
        BY <1>0, <1>1, <2>1, <2>3, <3>1 DEF Quiet, Reported, NamedRows, ExtractIsFollowUp,
           RunningPassIsOwn
      <3>3. EndedOwns'
        BY <1>0, <2>1, <2>2, <2>3 DEF Quiet, Reported, EndedOwns
      <3>4. QueuedOnTime'
        <4> SUFFICES ASSUME ~Stalls, NEW t \in Scopes, extract'[t] = "queued"
                     PROVE  \/ t \in silent' \/ At(rowRun[t], "ended")'
                            \/ queuedRun'[t] = rowRun'[t]
                            \/ passScope' = t /\ passRun' = rowRun'[t]
          BY DEF QueuedOnTime, QueuedIsServed
        <4>1. extract[t] = "queued" /\ rowRun'[t] = rowRun[t]
          BY <2>3 DEF Quiet
        <4>2. rowRun[t] \in Requests
          BY <1>0, <4>1 DEF Reported, ExtractIsFollowUp, TypeOK
        <4>3. \/ t \in silent \/ At(rowRun[t], "ended") \/ queuedRun[t] = rowRun[t]
              \/ passScope = t /\ passRun = rowRun[t]
          BY <1>0, <2>1, <4>1 DEF Reported, QueuedOnTime, QueuedIsServed
        <4>4. At(rowRun[t], "ended") => At(rowRun[t], "ended")'
          BY <2>1, <4>1, <4>2 DEF At
        <4> QED BY <1>1, <3>1, <4>1, <4>3, <4>4
      <3> QED BY <3>2, <3>3, <3>4 DEF Reported
    <2>4. CASE TakesRow(q)
      <3>1. /\ rowRun[s] # q /\ pc'[q] = "handoff" /\ rowRun'[s] = q /\ extract'[s] = "none"
            /\ \A t \in Scopes \ {s} : /\ rowRun'[t] = rowRun[t] /\ extract'[t] = extract[t]
                                       /\ rowState'[t] = rowState[t] \/ rowState[t] = "running"
        BY <1>0, <2>1, <2>4 DEF TakesRow, TypeOK
      <3>2. \A t \in silent \ {s} : t \in silent'
        BY <1>0, <1>1, <3>1 DEF Reclaimed, FTypeOK
      <3>3. NamedRows' /\ ExtractIsFollowUp'
        BY <1>0, <3>1 DEF Reported, NamedRows, ExtractIsFollowUp
      <3>4. RunningPassIsOwn'
        <4> SUFFICES ASSUME NEW t \in Scopes, extract'[t] = "running"
                     PROVE  rowState'[t] = "finished"
                            /\ (t \in silent' \/ (passScope' = t /\ passRun' = rowRun'[t] /\ passOn'))
          BY DEF RunningPassIsOwn
        <4>1. t # s /\ extract[t] = "running"
          BY <3>1
        <4> QED BY <1>0, <1>1, <2>1, <3>1, <3>2, <4>1 DEF Reported, RunningPassIsOwn
      <3>5. EndedOwns'
        BY <1>0, <1>1, <2>1, <3>1 DEF Prompt, Reported, EndedOwns
      <3>6. QueuedOnTime'
        <4> SUFFICES ASSUME ~Stalls, NEW t \in Scopes, extract'[t] = "queued"
                     PROVE  \/ t \in silent' \/ At(rowRun[t], "ended")'
                            \/ queuedRun'[t] = rowRun'[t]
                            \/ passScope' = t /\ passRun' = rowRun'[t]
          BY DEF QueuedOnTime, QueuedIsServed
        <4>1. t # s /\ extract[t] = "queued" /\ rowRun'[t] = rowRun[t]
          BY <3>1
        <4>2. rowRun[t] \in Requests
          BY <1>0, <4>1 DEF Reported, ExtractIsFollowUp, TypeOK
        <4>3. \/ t \in silent \/ At(rowRun[t], "ended") \/ queuedRun[t] = rowRun[t]
              \/ passScope = t /\ passRun = rowRun[t]
          BY <1>0, <2>1, <4>1 DEF Reported, QueuedOnTime, QueuedIsServed
        <4>4. At(rowRun[t], "ended") => At(rowRun[t], "ended")'
          BY <2>1, <4>1, <4>2 DEF At
        <4> QED BY <1>1, <3>2, <4>1, <4>3, <4>4
      <3> QED BY <3>3, <3>4, <3>5, <3>6 DEF Reported
    <2>5. CASE EndsRow(q)
      <3>1. /\ rowRun[s] = q /\ rowState[s] = "running" /\ rowRun' = rowRun
            /\ \A t \in Scopes \ {s} : extract'[t] = extract[t] /\ rowState'[t] = rowState[t]
        BY <2>5 DEF EndsRow, Owns, Running
      <3>2. extract[s] \notin {"queued", "running"}
        BY <1>0, <2>1, <3>1 DEF Reported, ExtractIsFollowUp
      <3>3. extract'[s] \in {"queued", "running"} =>
               /\ extract'[s] = "queued" /\ rowState'[s] = "finished"
               /\ FollowUp(s) /\ ModuleOn /\ pc[q] = "ending"
               /\ pc'[q] = "ended" \/ (abandoned[q] /\ pc'[q] = "over")
        BY <2>5, <3>2 DEF EndsRow
      <3>4. \A t \in silent : t \in silent'
        BY <1>0, <1>1, <3>1 DEF Reclaimed
      <3>5. NamedRows' /\ ExtractIsFollowUp'
        BY <1>0, <2>1, <3>1, <3>3 DEF Reported, NamedRows, ExtractIsFollowUp
      <3>6. RunningPassIsOwn'
        BY <1>0, <1>1, <2>1, <3>1, <3>3, <3>4 DEF Reported, RunningPassIsOwn
      <3>7. EndedOwns'
        BY <1>0, <2>1, <2>2, <3>1 DEF Reported, EndedOwns
      <3>8. QueuedOnTime'
        <4> SUFFICES ASSUME ~Stalls, NEW t \in Scopes, extract'[t] = "queued"
                     PROVE  \/ t \in silent' \/ At(rowRun[t], "ended")'
                            \/ queuedRun'[t] = rowRun'[t]
                            \/ passScope' = t /\ passRun' = rowRun'[t]
          BY DEF QueuedOnTime, QueuedIsServed
        <4>1. CASE t = s
          <5>1. pc[q] = "ending" /\ (pc'[q] = "ended" \/ (abandoned[q] /\ pc'[q] = "over"))
            BY <3>3, <4>1
          <5>2. CASE pc'[q] = "ended"
            BY <2>1, <3>1, <4>1, <5>2 DEF At
          <5>3. CASE abandoned[q] /\ pc'[q] = "over"
            <6>1. s \in CutOff
              BY <5>1, <5>3 DEF CutOff
            <6> QED BY <1>1, <2>1, <3>1, <4>1, <6>1 DEF Reclaimed
          <5> QED BY <5>1, <5>2, <5>3
        <4>2. CASE t # s
          <5>1. extract[t] = "queued"
            BY <3>1, <4>2
          <5>2. rowRun[t] \in Requests
            BY <1>0, <5>1 DEF Reported, ExtractIsFollowUp, TypeOK
          <5>3. \/ t \in silent \/ At(rowRun[t], "ended") \/ queuedRun[t] = rowRun[t]
                \/ passScope = t /\ passRun = rowRun[t]
            BY <1>0, <2>1, <5>1 DEF Reported, QueuedOnTime, QueuedIsServed
          <5>4. At(rowRun[t], "ended") => At(rowRun[t], "ended")'
            BY <2>1, <3>1, <5>2 DEF At
          <5> QED BY <1>1, <3>1, <3>4, <5>3, <5>4
        <4> QED BY <4>1, <4>2
      <3> QED BY <3>5, <3>6, <3>7, <3>8 DEF Reported
    <2> QED BY <2>1, <2>3, <2>4, <2>5
  <1> QED BY <1>2, <1>3 DEF RefreshStep

\* A step of the sender thread, of the queue or of the process.
LEMMA ReportingStep ==
    ASSUME FInv, [FNext]_allVars
    PROVE  Reported'
  <1> USE ScopeAssumption, NoScopeAssumption
  <1>0. FTypeOK /\ IInv /\ Queueing /\ Reported /\ TypeOK
    BY DEF FInv, IInv
  <1>1. CASE RefreshStep
    BY <1>1, ReportingRefresh
  <1>2. ASSUME NEW q \in Requests, AfterRefresh(q) PROVE Reported'
    <2> DEFINE s == ScopeOf[q]
    <2>1. /\ up /\ up' = up /\ pc[q] = "ended" /\ pc' = [pc EXCEPT ![q] = "over"]
          /\ UNCHANGED <<rowRun, rowState, extract, passScope, passRun, passOn, silent>>
          /\ s \in Scopes
      BY <1>2 DEF AfterRefresh, At, ReturnTo, Goto, db
    <2>2. queuedRun' = IF ModuleOn THEN [queuedRun EXCEPT ![s] = q] ELSE queuedRun
      BY <1>2, KnobAssumption DEF AfterRefresh, Reporting
    <2>3. NamedRows' /\ ExtractIsFollowUp' /\ EndedOwns' /\ RunningPassIsOwn'
      BY <1>0, <2>1 DEF Reported, NamedRows, ExtractIsFollowUp, EndedOwns, RunningPassIsOwn
    <2>4. QueuedOnTime'
      <3> SUFFICES ASSUME ~Stalls, NEW t \in Scopes, extract[t] = "queued"
                   PROVE  \/ t \in silent \/ At(rowRun[t], "ended")'
                          \/ queuedRun'[t] = rowRun[t]
                          \/ passScope = t /\ passRun = rowRun[t]
        BY <2>1 DEF QueuedOnTime, QueuedIsServed
      <3>1. rowRun[t] \in Requests /\ ScopeOf[rowRun[t]] = t /\ ModuleOn
        BY <1>0 DEF Reported, ExtractIsFollowUp, IInv, Record, RunOfScope, TypeOK
      <3>2. \/ t \in silent \/ At(rowRun[t], "ended") \/ queuedRun[t] = rowRun[t]
            \/ passScope = t /\ passRun = rowRun[t]
        BY <1>0, <2>1 DEF Reported, QueuedOnTime, QueuedIsServed
      <3>3. rowRun[s] = q
        BY <1>0, <2>1 DEF Reported, EndedOwns
      <3>4. CASE t = s
        BY <1>0, <2>1, <2>2, <3>1, <3>3, <3>4 DEF FTypeOK
      <3>5. CASE t # s
        BY <1>0, <2>1, <2>2, <3>1, <3>2, <3>5 DEF At, FTypeOK
      <3> QED BY <3>4, <3>5
    <2> QED BY <2>3, <2>4 DEF Reported
  <1>3. CASE StartPass
    <2>1. /\ up /\ up' = up /\ UNCHANGED <<pc, rowRun, rowState, extract, silent>>
          /\ passScope = NoScope /\ passScope' = Head(waiting)
          /\ passRun' = queuedRun[Head(waiting)]
          /\ queuedRun' = [queuedRun EXCEPT ![Head(waiting)] = NoRun]
      BY <1>3 DEF StartPass, vars, mem, db
    <2>2. NamedRows' /\ ExtractIsFollowUp' /\ EndedOwns' /\ RunningPassIsOwn'
      BY <1>0, <2>1 DEF Reported, NamedRows, ExtractIsFollowUp, EndedOwns, RunningPassIsOwn
    <2>3. QueuedOnTime'
      BY <1>0, <2>1 DEF Reported, QueuedOnTime, QueuedIsServed, At, FTypeOK
    <2> QED BY <2>2, <2>3 DEF Reported
  <1>4. CASE PassStarted
    <2>1. /\ up /\ up' = up /\ passScope \in Scopes /\ ~passOn /\ passOn'
          /\ UNCHANGED <<pc, rowRun, rowState, queuedRun, passScope, passRun>>
          /\ silent \subseteq silent'
          /\ \A t \in Scopes : extract'[t] = extract[t] \/ (t = passScope /\ Reports /\ extract'[t] = "running")
      BY <1>0, <1>4 DEF PassStarted, Report, mem, TypeOK, FTypeOK
    <2>2. passRun # NoRun /\ FollowUp(passScope) /\ ModuleOn
      BY <1>0, <2>1 DEF Queueing, ThreadOwnsPass, PassesFollow
    <2>3. NamedRows' /\ EndedOwns'
      BY <1>0, <2>1 DEF Reported, NamedRows, EndedOwns
    <2>4. ExtractIsFollowUp'
      BY <1>0, <2>1, <2>2 DEF Reported, ExtractIsFollowUp, Reports
    <2>5. RunningPassIsOwn'
      BY <1>0, <2>1 DEF Reported, RunningPassIsOwn, Reports
    <2>6. QueuedOnTime'
      BY <1>0, <2>1 DEF Reported, QueuedOnTime, QueuedIsServed, At
    <2> QED BY <2>3, <2>4, <2>5, <2>6 DEF Reported
  <1>5. CASE PassEnds
    <2>1. /\ up /\ up' = up /\ passScope \in Scopes /\ passScope' = NoScope
          /\ UNCHANGED <<pc, rowRun, rowState, queuedRun>>
          /\ silent \subseteq silent'
          /\ \A t \in Scopes : extract'[t] = extract[t] \/ (t = passScope /\ extract'[t] = "ended")
          /\ Reports => extract'[passScope] = "ended" \/ passScope \in silent'
      BY <1>0, <1>5 DEF PassEnds, Report, mem, TypeOK, FTypeOK
    <2>2. NamedRows' /\ EndedOwns' /\ ExtractIsFollowUp'
      BY <1>0, <2>1 DEF Reported, NamedRows, EndedOwns, ExtractIsFollowUp
    <2>3. RunningPassIsOwn'
      <3> SUFFICES ASSUME NEW t \in Scopes, extract'[t] = "running"
                   PROVE  rowState[t] = "finished" /\ t \in silent'
        BY <2>1 DEF RunningPassIsOwn
      <3>1. extract[t] = "running" /\ (Reports /\ t = passScope => t \in silent')
        BY <2>1
      <3>2. /\ rowState[t] = "finished"
            /\ t \in silent \/ (passScope = t /\ passRun = rowRun[t])
        BY <1>0, <2>1, <3>1 DEF Reported, RunningPassIsOwn
      <3> QED BY <2>1, <3>1, <3>2 DEF Reports
    <2>4. QueuedOnTime'
      <3> SUFFICES ASSUME ~Stalls, NEW t \in Scopes, extract'[t] = "queued"
                   PROVE  t \in silent' \/ At(rowRun[t], "ended")' \/ queuedRun[t] = rowRun[t]
        BY <2>1 DEF QueuedOnTime, QueuedIsServed
      <3>1. extract[t] = "queued" /\ (Reports /\ t = passScope => t \in silent')
        BY <2>1
      <3>2. /\ rowState[t] = "finished"
            /\ \/ t \in silent \/ At(rowRun[t], "ended") \/ queuedRun[t] = rowRun[t]
               \/ passScope = t /\ passRun = rowRun[t]
        BY <1>0, <2>1, <3>1 DEF Reported, QueuedOnTime, QueuedIsServed, ExtractIsFollowUp
      <3> QED BY <2>1, <3>1, <3>2 DEF Reports, At
    <2> QED BY <2>2, <2>3, <2>4 DEF Reported
  <1>6. CASE CrashAll
    <2>1. /\ ~up' /\ UNCHANGED <<rowRun, rowState, extract>>
          /\ \A q \in Requests : pc'[q] # "ended"
      BY <1>6 DEF CrashAll, Crash, db
    <2> QED BY <1>0, <2>1 DEF Reported, NamedRows, EndedOwns, ExtractIsFollowUp,
               RunningPassIsOwn, QueuedOnTime, QueuedIsServed
  <1>7. CASE Resume
    <2>1. /\ UNCHANGED <<pc, rowRun, rowState>>
          /\ \A t \in Scopes :
               /\ extract'[t] = IF t \in ToResume THEN "queued" ELSE extract[t]
               /\ queuedRun'[t] = IF t \in ToResume THEN rowRun[t] ELSE NoRun
      BY <1>7 DEF Resume, mem
    <2>2. \A t \in ToResume : /\ FollowUp(t) /\ rowState[t] = "finished" /\ ModuleOn
                              /\ rowRun[t] \in Requests
      BY <1>0 DEF ToResume, Unfinished, Reported, NamedRows
    <2>3. \A t \in Scopes : extract[t] \in {"queued", "running"} => t \in ToResume
      BY <1>0 DEF ToResume, Unfinished, Reported, ExtractIsFollowUp
    <2>4. NamedRows' /\ EndedOwns' /\ ExtractIsFollowUp'
      BY <1>0, <2>1, <2>2 DEF Reported, NamedRows, EndedOwns, ExtractIsFollowUp
    <2>5. RunningPassIsOwn' /\ QueuedOnTime'
      BY <2>1, <2>2, <2>3 DEF RunningPassIsOwn, QueuedOnTime, QueuedIsServed
    <2> QED BY <2>4, <2>5 DEF Reported
  <1>8. CASE ResumeFails
    <2>1. /\ UNCHANGED <<pc, rowRun, rowState, extract>> /\ ToResume \subseteq silent'
      BY <1>8 DEF ResumeFails, Restart, mem, db
    <2>2. \A t \in Scopes : extract[t] \in {"queued", "running"} => t \in ToResume /\ rowState[t] = "finished"
      BY <1>0 DEF ToResume, Unfinished, Reported, ExtractIsFollowUp
    <2> QED BY <1>0, <2>1, <2>2 DEF Reported, NamedRows, EndedOwns, ExtractIsFollowUp,
               RunningPassIsOwn, QueuedOnTime, QueuedIsServed
  <1>9. CASE UNCHANGED allVars
    BY <1>0, <1>9 DEF allVars, vars, mem, db, sender, Reported, NamedRows, EndedOwns,
       ExtractIsFollowUp, RunningPassIsOwn, QueuedOnTime, QueuedIsServed, At
  <1> QED BY <1>1, <1>2, <1>3, <1>4, <1>5, <1>6, <1>7, <1>8, <1>9 DEF FNext

\* The invariant holds in every state.
LEMMA FInvariance == FSpec => []FInv
  <1>1. FInv /\ [FNext]_allVars => FInv'
    <2> SUFFICES ASSUME FInv, [FNext]_allVars PROVE FInv'
      OBVIOUS
    <2>1. IInv'
      BY StepIInv DEF FInv, Reported
    <2> QED BY <2>1, QueueTypeStep, QueueingStep, ReportingStep DEF FInv
  <1> QED BY <1>1, InitFInv, PTL DEF FSpec

-----------------------------------------------------------------------------
\* The queue of the sender thread, the run each pass reports to and the records tell the
\* same story (after_refresh, _send_queued, _write), even when a stalled refresh queues
\* its pass after a newer one claimed the record, and whatever writes fail.
THEOREM QueueAndRecordsAgree == FSpec => []PassesAgree
  <1>1. FInv => PassesAgree
    BY DEF FInv, Queueing, Reported, PassesAgree
  <1> QED BY <1>1, FInvariance, PTL

\* Unless the event loop stalls, a record that says its pass is queued has that pass: no
\* refresh displaces the pass of a newer one (after_refresh), and a restart queues again
\* what its records still owe (resume_passes).
THEOREM QueuedPassExists == ~Stalls => (FSpec => []QueuedIsServed)
  <1> SUFFICES ASSUME ~Stalls PROVE FSpec => []QueuedIsServed
    OBVIOUS
  <1>1. FInv => QueuedIsServed
    BY DEF FInv, Reported, QueuedOnTime
  <1> QED BY <1>1, FInvariance, PTL

\* Beside the sender thread and its restarts, the records of the refreshes stay true and
\* the refreshes keep excluding each other.
THEOREM RefreshesBesideSender == FSpec => [](RecordIsTrue /\ RefreshesExclude)
  <1>1. FInv => RecordIsTrue /\ RefreshesExclude
    <2> SUFFICES ASSUME IInv PROVE RecordIsTrue /\ RefreshesExclude
      BY DEF FInv
    <2>1. MutualExclusion
      BY ScopeAssumption DEF IInv, Holding, PunctualOwns, Exclusive, MutualExclusion, Overlap, At,
         Alive, Writing, Owns, TypeOK
    <2> QED BY <2>1 DEF IInv, Record, Holding, RecordIsTrue, RefreshesExclude
  <1> QED BY <1>1, FInvariance, PTL

\* The count of a record never goes back beside the sender thread either.
THEOREM CountBesideSender == FSpec => ProgressNeverGoesBack
  <1>1. FInv /\ [FNext]_allVars => [CountGrows]_vars
    <2> SUFFICES ASSUME FInv, [FNext]_allVars PROVE [CountGrows]_vars
      OBVIOUS
    <2>1. IInv /\ TypeOK
      BY DEF FInv, IInv
    <2>2. ASSUME [Next]_vars PROVE CountGrows
      BY <2>1, <2>2, CountStep
    <2>3. ASSUME rowDone' = rowDone PROVE CountGrows
      BY <2>1, <2>3 DEF CountGrows, TypeOK
    <2>4. [Next]_vars \/ rowDone' = rowDone
      BY DEF FNext, RefreshStep, AfterRefresh, StartPass, PassStarted, PassEnds, Report, CrashAll,
         Resume, ResumeFails, Next, allVars, vars, db
    <2> QED BY <2>2, <2>3, <2>4
  <1> QED BY <1>1, FInvariance, PTL DEF FSpec, ProgressNeverGoesBack
=============================================================================
