------------------------- MODULE CoverageRunProofs -------------------------
(***************************************************************************)
(* Theorems about CoverageRun for any number of executors and pairs.       *)
(*                                                                         *)
(* CompletedHasEveryPair is not inductive: the completion reads the rows,  *)
(* sweeps for hours and flips the status later.  What carries it over that *)
(* window is that a row is never removed while the run row exists, so what *)
(* an executor has seen stays true (SeenIsPast, SweptRunIsWhole).          *)
(***************************************************************************)
EXTENDS CoverageRun, TLAPS, FiniteSetTheorems

\* The rows an executor read and is about to count are still there.
SeenIsPast ==
    \A e \in Executors :
        pc[e] \in {"recount", "cancel_commit", "hold", "sweep"} /\ status # "deleted"
            => seen[e] \subseteq rows

\* An executor only sweeps a run that has every result row.
SweptRunIsWhole ==
    \A e \in Executors : pc[e] = "sweep" /\ status # "deleted" => rows = Pairs

\* Nobody holds a deleted run, so no write fenced on the holder revives it.
DeletedIsUnheld == status = "deleted" => holder = NoHolder

\* A Stop on a queued run cancels it at once, so no queued run is stopped.
StoppedIsNotQueued == stopReq => status # "pending"

\* The inductive invariant.
IInv ==
    /\ TypeOK
    /\ DeletedIsUnheld
    /\ StoppedIsNotQueued
    /\ SeenIsPast
    /\ SweptRunIsWhole
    /\ CompletedHasEveryPair
    /\ CounterNeverAhead

-----------------------------------------------------------------------------
(* Counting the result rows. *)

\* The number of a set of pairs is a natural number, and counting is monotone.
LEMMA PairsCounted ==
    \A S, T \in SUBSET Pairs :
        /\ Cardinality(S) \in Nat
        /\ S \subseteq T => Cardinality(S) <= Cardinality(T)
  <1> SUFFICES ASSUME NEW S \in SUBSET Pairs, NEW T \in SUBSET Pairs
               PROVE  /\ Cardinality(S) \in Nat
                      /\ S \subseteq T => Cardinality(S) <= Cardinality(T)
    OBVIOUS
  <1>1. IsFiniteSet(S) /\ IsFiniteSet(T)
    BY PairsAssumption, FS_Subset
  <1>2. Cardinality(S) \in Nat
    BY <1>1, FS_CardinalityType
  <1>3. S \subseteq T => Cardinality(S) <= Cardinality(T)
    BY <1>1, FS_Subset
  <1> QED BY <1>2, <1>3

\* One more pair makes the count one larger; no pair makes it zero.
LEMMA OneMorePair ==
    /\ Cardinality({}) = 0
    /\ \A S \in SUBSET Pairs : \A p \in Pairs \ S :
         Cardinality(S \cup {p}) = Cardinality(S) + 1
  BY PairsAssumption, FS_Subset, FS_EmptySet, FS_AddElement

-----------------------------------------------------------------------------
(* The invariant holds initially and is kept by every step. *)

\* A run starts in the invariant.
LEMMA InitIInv == Init => IInv
  <1> SUFFICES ASSUME Init PROVE IInv
    OBVIOUS
  <1>1. TypeOK
    <2>1. status \in Statuses /\ holder \in Executors \cup {NoHolder}
      BY DEF Init, Statuses
    <2>2. crashes \in 0..MaxResumes /\ releases \in 0..MaxReleases
      BY KnobsAssumption DEF Init
    <2>3. pc \in [Executors -> PCs]
      BY DEF Init, PCs
    <2>4. cancel \in [Executors -> BOOLEAN] /\ abandoned \in [Executors -> BOOLEAN]
      BY DEF Init
    <2>5. /\ todo \in [Executors -> SUBSET Pairs]
          /\ inflight \in [Executors -> SUBSET Pairs]
          /\ stray \in [Executors -> SUBSET Pairs]
          /\ seen \in [Executors -> SUBSET Pairs]
      BY DEF Init
    <2>6. loaded \in [Executors -> Nat]
      BY DEF Init
    <2> QED BY <2>1, <2>2, <2>3, <2>4, <2>5, <2>6 DEF Init, TypeOK
  <1>2. /\ DeletedIsUnheld /\ StoppedIsNotQueued
        /\ SeenIsPast /\ SweptRunIsWhole /\ CompletedHasEveryPair
    BY DEF Init, DeletedIsUnheld, StoppedIsNotQueued, SeenIsPast, SweptRunIsWhole, CompletedHasEveryPair
  <1>3. CounterNeverAhead
    BY OneMorePair DEF Init, CounterNeverAhead
  <1> QED BY <1>1, <1>2, <1>3 DEF IInv

\* Every step keeps the types; the crash resumes stay within their limit.
LEMMA TypeStep == TypeOK /\ [Next]_vars => TypeOK'
  <1> SUFFICES ASSUME TypeOK, [Next]_vars PROVE TypeOK'
    OBVIOUS
  <1> USE KnobsAssumption DEF TypeOK, db, mem
  <1>1. ASSUME NEW e \in Executors, Start(e) PROVE TypeOK'
    BY <1>1 DEF Start, Goto, PCs, Executing, Completing, Statuses, Terminal
  <1>2. ASSUME NEW e \in Executors, Crash(e) PROVE TypeOK'
    BY <1>2 DEF Crash, ReturnTo, Goto, PCs, Executing, Completing, Statuses, Terminal
  <1>3. ASSUME NEW e \in Executors, Release(e) PROVE TypeOK'
    BY <1>3 DEF Release, ReturnTo, Goto, PCs, Executing, Completing, Statuses, Terminal
  <1>4. ASSUME NEW e \in Executors, SettleInsteadOfClaim(e) PROVE TypeOK'
    BY <1>4, PairsCounted DEF SettleInsteadOfClaim, CancelOnRow, Unheld, StopClicked, ResumeLimitReached, PCs, Executing, Completing, Statuses, Terminal
  <1>5. ASSUME NEW e \in Executors, Take(e) PROVE TypeOK'
    BY <1>5 DEF Take, ReturnTo, Goto, Unheld, StopClicked, ResumeLimitReached, CrashCost, PCs, Executing, Completing, Statuses, Terminal
  <1>6. ASSUME NEW e \in Executors, Heartbeat(e) PROVE TypeOK'
    BY <1>6 DEF Heartbeat, PCs, Executing, Completing, Statuses, Terminal
  <1>7. ASSUME NEW e \in Executors, Phase1Load(e) PROVE TypeOK'
    BY <1>7 DEF Phase1Load, Goto, PCs, Executing, Completing, Statuses, Terminal
  <1>8. ASSUME NEW e \in Executors, Phase1Unavailable(e) PROVE TypeOK'
    BY <1>8 DEF Phase1Unavailable, ReturnTo, Goto, PCs, Executing, Completing, Statuses, Terminal
  <1>9. ASSUME NEW e \in Executors, NoTargets(e) PROVE TypeOK'
    BY <1>9 DEF NoTargets, Goto, PCs, Executing, Completing, Statuses, Terminal
  <1>10. ASSUME NEW e \in Executors, Phase1Rows(e) PROVE TypeOK'
    BY <1>10 DEF Phase1Rows, Goto, PCs, Executing, Completing, Statuses, Terminal
  <1>11. ASSUME NEW e \in Executors, Recount(e) PROVE TypeOK'
    BY <1>11, PairsCounted DEF Recount, Goto, RecountedBy, PCs, Executing, Completing, Statuses, Terminal
  <1>12. ASSUME NEW e \in Executors, PairsStopped(e) PROVE TypeOK'
    BY <1>12 DEF PairsStopped, PCs, Executing, Completing, Statuses, Terminal
  <1>13. ASSUME NEW e \in Executors, PairLoopFails(e) PROVE TypeOK'
    BY <1>13 DEF PairLoopFails, Goto, PCs, Executing, Completing, Statuses, Terminal
  <1>14. ASSUME NEW e \in Executors, PairsDone(e) PROVE TypeOK'
    BY <1>14 DEF PairsDone, Goto, PCs, Executing, Completing, Statuses, Terminal
  <1>15. ASSUME NEW e \in Executors, LastCheck(e) PROVE TypeOK'
    BY <1>15 DEF LastCheck, Goto, PCs, Executing, Completing, Statuses, Terminal
  <1>16. ASSUME NEW e \in Executors, CancelLoad(e) PROVE TypeOK'
    BY <1>16 DEF CancelLoad, Goto, PCs, Executing, Completing, Statuses, Terminal
  <1>17. ASSUME NEW e \in Executors, CancelRows(e) PROVE TypeOK'
    BY <1>17 DEF CancelRows, Goto, PCs, Executing, Completing, Statuses, Terminal
  <1>18. ASSUME NEW e \in Executors, CancelCommit(e) PROVE TypeOK'
    BY <1>18, PairsCounted DEF CancelCommit, Goto, RecountedBy, PCs, Executing, Completing, Statuses, Terminal
  <1>19. ASSUME NEW e \in Executors, FinLoad(e) PROVE TypeOK'
    BY <1>19 DEF FinLoad, Goto, PCs, Executing, Completing, Statuses, Terminal
  <1>20. ASSUME NEW e \in Executors, FinRows(e) PROVE TypeOK'
    BY <1>20 DEF FinRows, Goto, MissingPairs, PCs, Executing, Completing, Statuses, Terminal
  <1>21. ASSUME NEW e \in Executors, Hold(e) PROVE TypeOK'
    BY <1>21, PairsCounted DEF Hold, ReturnTo, Goto, RecountedBy, PCs, Executing, Completing, Statuses, Terminal
  <1>22. ASSUME NEW e \in Executors, FinCommit(e) PROVE TypeOK'
    BY <1>22, PairsCounted DEF FinCommit, Goto, RecountedBy, MayComplete, PCs, Executing, Completing, Statuses, Terminal
  <1>23. ASSUME NEW e \in Executors, UnexpectedError(e) PROVE TypeOK'
    BY <1>23 DEF UnexpectedError, Goto, PCs, Executing, Completing, Statuses, Terminal
  <1>24. ASSUME NEW e \in Executors, Settle(e) PROVE TypeOK'
    BY <1>24 DEF Settle, ReturnTo, Goto, PCs, Executing, Completing, Statuses, Terminal
  <1>25. ASSUME NEW e \in Executors, SettleFails(e) PROVE TypeOK'
    BY <1>25 DEF SettleFails, ReturnTo, Goto, PCs, Executing, Completing, Statuses, Terminal
  <1>26. ASSUME NEW e \in Executors, NEW p \in Pairs, StartPair(e, p) PROVE TypeOK'
    BY <1>26 DEF StartPair
  <1>27. ASSUME NEW e \in Executors, NEW p \in Pairs, WritePair(e, p) PROVE TypeOK'
    BY <1>27 DEF WritePair, Accepted
  <1>28. CASE Stop
    BY <1>28, PairsCounted, OneMorePair DEF Stop, Statuses, Terminal
  <1>29. CASE CancelUnheldRun
    BY <1>29, PairsCounted, OneMorePair DEF CancelUnheldRun, CancelOnRow, Unheld, Statuses, Terminal
  <1>30. CASE Delete
    BY <1>30, PairsCounted, OneMorePair DEF Delete, Statuses, Terminal
  <1>31. CASE SqlStatus
    BY <1>31, PairsCounted, OneMorePair DEF SqlStatus, Statuses, Terminal
  <1>32. CASE Expire
    BY <1>32, PairsCounted, OneMorePair DEF Expire, Statuses, Terminal
  <1>33. CASE UNCHANGED vars
    BY <1>33 DEF vars
  <1> QED BY <1>1, <1>2, <1>3, <1>4, <1>5, <1>6, <1>7, <1>8, <1>9, <1>10, <1>11, <1>12, <1>13, <1>14, <1>15, <1>16, <1>17, <1>18, <1>19, <1>20, <1>21, <1>22, <1>23, <1>24, <1>25, <1>26, <1>27, <1>28, <1>29, <1>30, <1>31, <1>32, <1>33
    DEF Next, Claim, ExecutorStep, ExecutorFault, Web

\* Every step keeps what the executors have seen true, the completed run whole
\* and the counter behind the rows.
LEMMA SafetyStep == IInv /\ [Next]_vars => IInv'
  <1> SUFFICES ASSUME IInv, [Next]_vars PROVE IInv'
    OBVIOUS
  <1> USE HolderAssumption DEF IInv, db, mem
  <1>type. TypeOK'
    BY TypeStep
  <1> USE <1>type
  <1> DEFINE Kept == /\ DeletedIsUnheld' /\ StoppedIsNotQueued'
                    /\ SeenIsPast' /\ SweptRunIsWhole' /\ CompletedHasEveryPair'
  <1> DEFINE Behind == CounterNeverAhead'
  <1>1. ASSUME NEW e \in Executors, Start(e) PROVE Kept /\ Behind
    <2>1. Kept
      BY <1>1 DEF Start, Goto, TypeOK, DeletedIsUnheld, StoppedIsNotQueued,
          SeenIsPast, SweptRunIsWhole, CompletedHasEveryPair
    <2>2. Behind
      BY <1>1 DEF Start, Goto, CounterNeverAhead
    <2> QED BY <2>1, <2>2
  <1>2. ASSUME NEW e \in Executors, Crash(e) PROVE Kept /\ Behind
    <2>1. Kept
      BY <1>2 DEF Crash, ReturnTo, Goto, TypeOK, DeletedIsUnheld, StoppedIsNotQueued,
          SeenIsPast, SweptRunIsWhole, CompletedHasEveryPair
    <2>2. Behind
      BY <1>2 DEF Crash, ReturnTo, Goto, CounterNeverAhead
    <2> QED BY <2>1, <2>2
  <1>3. ASSUME NEW e \in Executors, Release(e) PROVE Kept /\ Behind
    <2>1. Kept
      BY <1>3 DEF Release, ReturnTo, Goto, TypeOK, DeletedIsUnheld, StoppedIsNotQueued,
          SeenIsPast, SweptRunIsWhole, CompletedHasEveryPair
    <2>2. Behind
      BY <1>3 DEF Release, ReturnTo, Goto, CounterNeverAhead
    <2> QED BY <2>1, <2>2
  <1>4. ASSUME NEW e \in Executors, SettleInsteadOfClaim(e) PROVE Kept /\ Behind
    <2>1. Kept
      BY <1>4 DEF SettleInsteadOfClaim, CancelOnRow, Unheld, StopClicked, ResumeLimitReached, TypeOK, DeletedIsUnheld, StoppedIsNotQueued,
          SeenIsPast, SweptRunIsWhole, CompletedHasEveryPair
    <2>2. Behind
      BY <1>4, PairsCounted, OneMorePair DEF SettleInsteadOfClaim, CancelOnRow, Unheld, StopClicked, ResumeLimitReached, TypeOK, DeletedIsUnheld, SeenIsPast, CounterNeverAhead
    <2> QED BY <2>1, <2>2
  <1>5. ASSUME NEW e \in Executors, Take(e) PROVE Kept /\ Behind
    <2>1. Kept
      BY <1>5 DEF Take, ReturnTo, Goto, Unheld, StopClicked, ResumeLimitReached, CrashCost, TypeOK, DeletedIsUnheld, StoppedIsNotQueued,
          SeenIsPast, SweptRunIsWhole, CompletedHasEveryPair
    <2>2. Behind
      BY <1>5 DEF Take, ReturnTo, Goto, Unheld, StopClicked, ResumeLimitReached, CrashCost, CounterNeverAhead
    <2> QED BY <2>1, <2>2
  <1>6. ASSUME NEW e \in Executors, Heartbeat(e) PROVE Kept /\ Behind
    <2>1. Kept
      BY <1>6 DEF Heartbeat, TypeOK, DeletedIsUnheld, StoppedIsNotQueued,
          SeenIsPast, SweptRunIsWhole, CompletedHasEveryPair
    <2>2. Behind
      BY <1>6 DEF Heartbeat, CounterNeverAhead
    <2> QED BY <2>1, <2>2
  <1>7. ASSUME NEW e \in Executors, Phase1Load(e) PROVE Kept /\ Behind
    <2>1. Kept
      BY <1>7 DEF Phase1Load, Goto, TypeOK, DeletedIsUnheld, StoppedIsNotQueued,
          SeenIsPast, SweptRunIsWhole, CompletedHasEveryPair
    <2>2. Behind
      BY <1>7 DEF Phase1Load, Goto, CounterNeverAhead
    <2> QED BY <2>1, <2>2
  <1>8. ASSUME NEW e \in Executors, Phase1Unavailable(e) PROVE Kept /\ Behind
    <2>1. Kept
      BY <1>8 DEF Phase1Unavailable, ReturnTo, Goto, TypeOK, DeletedIsUnheld, StoppedIsNotQueued,
          SeenIsPast, SweptRunIsWhole, CompletedHasEveryPair
    <2>2. Behind
      BY <1>8 DEF Phase1Unavailable, ReturnTo, Goto, CounterNeverAhead
    <2> QED BY <2>1, <2>2
  <1>9. ASSUME NEW e \in Executors, NoTargets(e) PROVE Kept /\ Behind
    <2>1. Kept
      BY <1>9 DEF NoTargets, Goto, TypeOK, DeletedIsUnheld, StoppedIsNotQueued,
          SeenIsPast, SweptRunIsWhole, CompletedHasEveryPair
    <2>2. Behind
      BY <1>9 DEF NoTargets, Goto, CounterNeverAhead
    <2> QED BY <2>1, <2>2
  <1>10. ASSUME NEW e \in Executors, Phase1Rows(e) PROVE Kept /\ Behind
    <2>1. Kept
      BY <1>10 DEF Phase1Rows, Goto, TypeOK, DeletedIsUnheld, StoppedIsNotQueued,
          SeenIsPast, SweptRunIsWhole, CompletedHasEveryPair
    <2>2. Behind
      BY <1>10 DEF Phase1Rows, Goto, CounterNeverAhead
    <2> QED BY <2>1, <2>2
  <1>11. ASSUME NEW e \in Executors, Recount(e) PROVE Kept /\ Behind
    <2>1. Kept
      BY <1>11 DEF Recount, Goto, RecountedBy, TypeOK, DeletedIsUnheld, StoppedIsNotQueued,
          SeenIsPast, SweptRunIsWhole, CompletedHasEveryPair
    <2>2. Behind
      BY <1>11, PairsCounted, OneMorePair DEF Recount, Goto, RecountedBy, TypeOK, DeletedIsUnheld, SeenIsPast, CounterNeverAhead
    <2> QED BY <2>1, <2>2
  <1>12. ASSUME NEW e \in Executors, PairsStopped(e) PROVE Kept /\ Behind
    <2>1. Kept
      BY <1>12 DEF PairsStopped, TypeOK, DeletedIsUnheld, StoppedIsNotQueued,
          SeenIsPast, SweptRunIsWhole, CompletedHasEveryPair
    <2>2. Behind
      BY <1>12 DEF PairsStopped, CounterNeverAhead
    <2> QED BY <2>1, <2>2
  <1>13. ASSUME NEW e \in Executors, PairLoopFails(e) PROVE Kept /\ Behind
    <2>1. Kept
      BY <1>13 DEF PairLoopFails, Goto, TypeOK, DeletedIsUnheld, StoppedIsNotQueued,
          SeenIsPast, SweptRunIsWhole, CompletedHasEveryPair
    <2>2. Behind
      BY <1>13 DEF PairLoopFails, Goto, CounterNeverAhead
    <2> QED BY <2>1, <2>2
  <1>14. ASSUME NEW e \in Executors, PairsDone(e) PROVE Kept /\ Behind
    <2>1. Kept
      BY <1>14 DEF PairsDone, Goto, TypeOK, DeletedIsUnheld, StoppedIsNotQueued,
          SeenIsPast, SweptRunIsWhole, CompletedHasEveryPair
    <2>2. Behind
      BY <1>14 DEF PairsDone, Goto, CounterNeverAhead
    <2> QED BY <2>1, <2>2
  <1>15. ASSUME NEW e \in Executors, LastCheck(e) PROVE Kept /\ Behind
    <2>1. Kept
      BY <1>15 DEF LastCheck, Goto, TypeOK, DeletedIsUnheld, StoppedIsNotQueued,
          SeenIsPast, SweptRunIsWhole, CompletedHasEveryPair
    <2>2. Behind
      BY <1>15 DEF LastCheck, Goto, CounterNeverAhead
    <2> QED BY <2>1, <2>2
  <1>16. ASSUME NEW e \in Executors, CancelLoad(e) PROVE Kept /\ Behind
    <2>1. Kept
      BY <1>16 DEF CancelLoad, Goto, TypeOK, DeletedIsUnheld, StoppedIsNotQueued,
          SeenIsPast, SweptRunIsWhole, CompletedHasEveryPair
    <2>2. Behind
      BY <1>16 DEF CancelLoad, Goto, CounterNeverAhead
    <2> QED BY <2>1, <2>2
  <1>17. ASSUME NEW e \in Executors, CancelRows(e) PROVE Kept /\ Behind
    <2>1. Kept
      BY <1>17 DEF CancelRows, Goto, TypeOK, DeletedIsUnheld, StoppedIsNotQueued,
          SeenIsPast, SweptRunIsWhole, CompletedHasEveryPair
    <2>2. Behind
      BY <1>17 DEF CancelRows, Goto, CounterNeverAhead
    <2> QED BY <2>1, <2>2
  <1>18. ASSUME NEW e \in Executors, CancelCommit(e) PROVE Kept /\ Behind
    <2>1. Kept
      BY <1>18 DEF CancelCommit, Goto, RecountedBy, TypeOK, DeletedIsUnheld, StoppedIsNotQueued,
          SeenIsPast, SweptRunIsWhole, CompletedHasEveryPair
    <2>2. Behind
      BY <1>18, PairsCounted, OneMorePair DEF CancelCommit, Goto, RecountedBy, TypeOK, DeletedIsUnheld, SeenIsPast, CounterNeverAhead
    <2> QED BY <2>1, <2>2
  <1>19. ASSUME NEW e \in Executors, FinLoad(e) PROVE Kept /\ Behind
    <2>1. Kept
      BY <1>19 DEF FinLoad, Goto, TypeOK, DeletedIsUnheld, StoppedIsNotQueued,
          SeenIsPast, SweptRunIsWhole, CompletedHasEveryPair
    <2>2. Behind
      BY <1>19 DEF FinLoad, Goto, CounterNeverAhead
    <2> QED BY <2>1, <2>2
  <1>20. ASSUME NEW e \in Executors, FinRows(e) PROVE Kept /\ Behind
    <2>1. Kept
      BY <1>20 DEF FinRows, Goto, MissingPairs, TypeOK, DeletedIsUnheld, StoppedIsNotQueued,
          SeenIsPast, SweptRunIsWhole, CompletedHasEveryPair
    <2>2. Behind
      BY <1>20 DEF FinRows, Goto, MissingPairs, CounterNeverAhead
    <2> QED BY <2>1, <2>2
  <1>21. ASSUME NEW e \in Executors, Hold(e) PROVE Kept /\ Behind
    <2>1. Kept
      BY <1>21 DEF Hold, ReturnTo, Goto, RecountedBy, TypeOK, DeletedIsUnheld, StoppedIsNotQueued,
          SeenIsPast, SweptRunIsWhole, CompletedHasEveryPair
    <2>2. Behind
      BY <1>21, PairsCounted, OneMorePair DEF Hold, ReturnTo, Goto, RecountedBy, TypeOK, DeletedIsUnheld, SeenIsPast, CounterNeverAhead
    <2> QED BY <2>1, <2>2
  <1>22. ASSUME NEW e \in Executors, FinCommit(e) PROVE Kept /\ Behind
    <2>1. Kept
      BY <1>22 DEF FinCommit, Goto, RecountedBy, MayComplete, TypeOK, DeletedIsUnheld, StoppedIsNotQueued,
          SeenIsPast, SweptRunIsWhole, CompletedHasEveryPair
    <2>2. Behind
      BY <1>22, PairsCounted, OneMorePair DEF FinCommit, Goto, RecountedBy, MayComplete, TypeOK, DeletedIsUnheld, SeenIsPast, CounterNeverAhead
    <2> QED BY <2>1, <2>2
  <1>23. ASSUME NEW e \in Executors, UnexpectedError(e) PROVE Kept /\ Behind
    <2>1. Kept
      BY <1>23 DEF UnexpectedError, Goto, TypeOK, DeletedIsUnheld, StoppedIsNotQueued,
          SeenIsPast, SweptRunIsWhole, CompletedHasEveryPair, Completing
    <2>2. Behind
      BY <1>23 DEF UnexpectedError, Goto, CounterNeverAhead
    <2> QED BY <2>1, <2>2
  <1>24. ASSUME NEW e \in Executors, Settle(e) PROVE Kept /\ Behind
    <2>1. Kept
      BY <1>24 DEF Settle, ReturnTo, Goto, TypeOK, DeletedIsUnheld, StoppedIsNotQueued,
          SeenIsPast, SweptRunIsWhole, CompletedHasEveryPair
    <2>2. Behind
      BY <1>24 DEF Settle, ReturnTo, Goto, CounterNeverAhead
    <2> QED BY <2>1, <2>2
  <1>25. ASSUME NEW e \in Executors, SettleFails(e) PROVE Kept /\ Behind
    <2>1. Kept
      BY <1>25 DEF SettleFails, ReturnTo, Goto, TypeOK, DeletedIsUnheld, StoppedIsNotQueued,
          SeenIsPast, SweptRunIsWhole, CompletedHasEveryPair
    <2>2. Behind
      BY <1>25 DEF SettleFails, ReturnTo, Goto, CounterNeverAhead
    <2> QED BY <2>1, <2>2
  <1>26. ASSUME NEW e \in Executors, NEW p \in Pairs, StartPair(e, p) PROVE Kept /\ Behind
    <2>1. Kept
      BY <1>26 DEF StartPair, TypeOK, DeletedIsUnheld, StoppedIsNotQueued,
          SeenIsPast, SweptRunIsWhole, CompletedHasEveryPair
    <2>2. Behind
      BY <1>26 DEF StartPair, CounterNeverAhead
    <2> QED BY <2>1, <2>2
  <1>27. ASSUME NEW e \in Executors, NEW p \in Pairs, WritePair(e, p) PROVE Kept /\ Behind
    <2>1. Kept
      BY <1>27 DEF WritePair, Accepted, TypeOK, DeletedIsUnheld, StoppedIsNotQueued,
          SeenIsPast, SweptRunIsWhole, CompletedHasEveryPair
    <2>2. Behind
      BY <1>27, PairsCounted, OneMorePair DEF WritePair, Accepted, TypeOK, DeletedIsUnheld, SeenIsPast, CounterNeverAhead
    <2> QED BY <2>1, <2>2
  <1>28. ASSUME Stop PROVE Kept /\ Behind
    <2>1. Kept
      BY <1>28 DEF Stop, TypeOK, DeletedIsUnheld, StoppedIsNotQueued,
          SeenIsPast, SweptRunIsWhole, CompletedHasEveryPair
    <2>2. Behind
      BY <1>28 DEF Stop, CounterNeverAhead
    <2> QED BY <2>1, <2>2
  <1>29. ASSUME CancelUnheldRun PROVE Kept /\ Behind
    <2>1. Kept
      BY <1>29 DEF CancelUnheldRun, CancelOnRow, Unheld, TypeOK, DeletedIsUnheld, StoppedIsNotQueued,
          SeenIsPast, SweptRunIsWhole, CompletedHasEveryPair
    <2>2. Behind
      BY <1>29, PairsCounted, OneMorePair DEF CancelUnheldRun, CancelOnRow, Unheld, TypeOK, DeletedIsUnheld, SeenIsPast, CounterNeverAhead
    <2> QED BY <2>1, <2>2
  <1>30. ASSUME Delete PROVE Kept /\ Behind
    <2>1. Kept
      BY <1>30 DEF Delete, TypeOK, DeletedIsUnheld, StoppedIsNotQueued,
          SeenIsPast, SweptRunIsWhole, CompletedHasEveryPair
    <2>2. Behind
      BY <1>30, PairsCounted, OneMorePair DEF Delete, TypeOK, DeletedIsUnheld, SeenIsPast, CounterNeverAhead
    <2> QED BY <2>1, <2>2
  <1>31. ASSUME SqlStatus PROVE Kept /\ Behind
    <2>1. Kept
      BY <1>31 DEF SqlStatus, TypeOK, DeletedIsUnheld, StoppedIsNotQueued,
          SeenIsPast, SweptRunIsWhole, CompletedHasEveryPair
    <2>2. Behind
      BY <1>31 DEF SqlStatus, CounterNeverAhead
    <2> QED BY <2>1, <2>2
  <1>32. ASSUME Expire PROVE Kept /\ Behind
    <2>1. Kept
      BY <1>32 DEF Expire, TypeOK, DeletedIsUnheld, StoppedIsNotQueued,
          SeenIsPast, SweptRunIsWhole, CompletedHasEveryPair
    <2>2. Behind
      BY <1>32 DEF Expire, CounterNeverAhead
    <2> QED BY <2>1, <2>2
  <1>33. ASSUME UNCHANGED vars PROVE Kept /\ Behind
    BY <1>33 DEF vars, TypeOK, DeletedIsUnheld, StoppedIsNotQueued,
          SeenIsPast, SweptRunIsWhole, CompletedHasEveryPair, CounterNeverAhead
  <1> QED BY <1>1, <1>2, <1>3, <1>4, <1>5, <1>6, <1>7, <1>8, <1>9, <1>10, <1>11, <1>12, <1>13, <1>14, <1>15, <1>16, <1>17, <1>18, <1>19, <1>20, <1>21, <1>22, <1>23, <1>24, <1>25, <1>26, <1>27, <1>28, <1>29, <1>30, <1>31, <1>32, <1>33
    DEF Next, Claim, ExecutorStep, ExecutorFault, Web

\* Invariance of IInv.
LEMMA Invariance == Spec => []IInv
  BY InitIInv, SafetyStep, PTL DEF Spec

\* The run row and the executors' memory keep their types, and no run is given
\* more crash resumes than COVERAGE_MAX_RESUMES, for any number of executors.
THEOREM TypeCorrect == Spec => []TypeOK
  <1>1. IInv => TypeOK
    BY DEF IInv
  <1> QED BY <1>1, Invariance, PTL

\* A completed run has a result row for every pair.
THEOREM CompletedWhole == Spec => []CompletedHasEveryPair
  <1>1. IInv => CompletedHasEveryPair
    BY DEF IInv
  <1> QED BY <1>1, Invariance, PTL

\* completed_pairs never exceeds the number of result rows.
THEOREM NeverAhead == Spec => []CounterNeverAhead
  <1>1. IInv => CounterNeverAhead
    BY DEF IInv
  <1> QED BY <1>1, Invariance, PTL

\* Only the executor that holds the run flips it to completed.
THEOREM HolderCompletes == Spec => CompletedByHolder
  <1> DEFINE A == status # "completed" /\ status' = "completed"
                    => /\ holder \in Executors
                       /\ pc[holder] = "sweep" /\ pc'[holder] # "sweep"
  <1>1. TypeOK /\ [Next]_vars => [A]_vars
    <2> SUFFICES ASSUME TypeOK, Next PROVE A
      OBVIOUS
    <2> USE DEF db, mem
    <2>1. ASSUME NEW e \in Executors, FinCommit(e) PROVE A
      BY <2>1 DEF FinCommit, MayComplete, Goto, TypeOK
    <2>2. ASSUME NEW e \in Executors,
                 Start(e) \/ Claim(e) \/ Heartbeat(e) \/ ExecutorFault(e)
          PROVE  A
      BY <2>2 DEF Start, Claim, SettleInsteadOfClaim, CancelOnRow, Take, Heartbeat,
         ExecutorFault, Crash, Release, Phase1Unavailable, NoTargets, PairLoopFails,
         UnexpectedError, SettleFails
    <2>3. ASSUME NEW e \in Executors, ExecutorStep(e), ~FinCommit(e) PROVE A
      BY <2>3 DEF ExecutorStep, Phase1Load, Phase1Rows, Recount, StartPair, PairsStopped,
         WritePair, PairsDone, LastCheck, CancelLoad, CancelRows, CancelCommit, FinLoad,
         FinRows, Hold, Settle
    <2>4. CASE Web \/ Expire
      BY <2>4 DEF Web, Expire, Stop, CancelUnheldRun, CancelOnRow, Delete, SqlStatus
    <2> QED BY <2>1, <2>2, <2>3, <2>4 DEF Next
  <1> QED BY <1>1, TypeCorrect, PTL DEF Spec, CompletedByHolder

\* A run whose Stop was clicked is never claimed or resumed.
THEOREM StoppedIsNeverClaimed == Spec => NoClaimAfterStop
  <1> DEFINE A == stopReq => NoNewHolder
  <1>1. IInv /\ [Next]_vars => [A]_vars
    <2> SUFFICES ASSUME IInv, Next PROVE A
      OBVIOUS
    <2> USE HolderAssumption DEF db, mem, NoNewHolder
    <2>1. ASSUME NEW e \in Executors, Take(e) PROVE A
      BY <2>1 DEF Take, StopClicked, IInv, StoppedIsNotQueued
    <2>2. ASSUME NEW e \in Executors,
                 Start(e) \/ SettleInsteadOfClaim(e) \/ Heartbeat(e) \/ ExecutorFault(e)
          PROVE  A
      BY <2>2 DEF Start, SettleInsteadOfClaim, CancelOnRow, Heartbeat, ExecutorFault,
         Crash, Release, Phase1Unavailable, NoTargets, PairLoopFails, UnexpectedError,
         SettleFails
    <2>3. ASSUME NEW e \in Executors, ExecutorStep(e) PROVE A
      BY <2>3 DEF ExecutorStep, Phase1Load, Phase1Rows, Recount, StartPair, PairsStopped,
         WritePair, PairsDone, LastCheck, CancelLoad, CancelRows, CancelCommit, FinLoad,
         FinRows, Hold, FinCommit, Settle
    <2>4. CASE Web \/ Expire
      BY <2>4 DEF Web, Expire, Stop, CancelUnheldRun, CancelOnRow, Delete, SqlStatus
    <2> QED BY <2>1, <2>2, <2>3, <2>4 DEF Next, Claim
  <1> QED BY <1>1, Invariance, PTL DEF Spec, NoClaimAfterStop

\* The row of a run tells the truth to whoever reads it.
THEOREM RowIsTrue == Spec => []RunRowIsTrue
  BY TypeCorrect, CompletedWhole, NeverAhead, PTL DEF RunRowIsTrue

\* A claim is worth what the executors take it for.
THEOREM ClaimsHold == Spec => ClaimsAreRespected
  BY HolderCompletes, StoppedIsNeverClaimed, PTL DEF ClaimsAreRespected

-----------------------------------------------------------------------------
(* One worker at a time: the count is exact, the ended run is closed, and a *)
(* held run is cancelled by its holder only.  Two workers break all three   *)
(* (the stale recount, the unfenced cancel): what one worker adds is that   *)
(* whoever executes a running run holds it, and that nobody writes between  *)
(* its load, its read of the rows and its commit.                           *)

\* At most one worker process is up.
Alone == \A e, f \in Executors : pc[e] # "down" /\ pc[f] # "down" => e = f

\* A dead worker asks nothing.
DownIsClean == \A e \in Executors : pc[e] = "down" => inflight[e] = {} /\ stray[e] = {}

\* A pair is in flight only while the pairs are asked, and what a failed gather left
\* behind belongs to a run that ended, which its executor no longer executes.
InflightInPairs == \A e \in Executors : inflight[e] # {} => pc[e] = "pairs"
StrayIsOver ==
    \A e \in Executors : stray[e] # {} =>
        status \in Terminal \cup {"deleted"} /\ pc[e] \notin Executing

\* Who executes a run found it queued no more, and holds it while it runs: no beat makes
\* it abandon the execution.
ExecutesItsOwn ==
    \A e \in Executors :
        /\ ~abandoned[e]
        /\ pc[e] \in Executing => status # "pending" /\ (status = "running" => holder = e)

Single == Alone /\ DownIsClean /\ InflightInPairs /\ StrayIsOver /\ ExecutesItsOwn

\* What an executor loaded and read is what the database still holds.
LoadedIsCurrent ==
    \A e \in Executors :
        status # "deleted" /\ pc[e] \in {"targets", "recount", "cancel_rows", "cancel_commit",
                                         "fin_rows", "hold", "sweep"} => loaded[e] = counter
SeenIsCurrent ==
    \A e \in Executors :
        status # "deleted" /\ pc[e] \in {"recount", "cancel_commit", "hold", "sweep"}
            => seen[e] = rows

Current == LoadedIsCurrent /\ SeenIsCurrent /\ CountersExact

\* Without an operator's SQL, an execution is of a run that did not end by itself.
ExecutedIsOpen ==
    \A e \in Executors : pc[e] \in Executing => status \in {"running", "cancelled", "deleted"}

\* No worker is up when the run is created.
LEMMA InitSingle == Init => Single /\ Current /\ ExecutedIsOpen
  BY OneMorePair DEF Init, Single, Alone, DownIsClean, InflightInPairs, StrayIsOver,
     ExecutesItsOwn, Current, LoadedIsCurrent, SeenIsCurrent, CountersExact, ExecutedIsOpen,
     Executing

\* Every step of a single worker, of the web and of the operator keeps it single.
LEMMA SingleStep ==
    SingleWorker /\ IInv /\ Single /\ [Next]_vars => Single'
  <1> SUFFICES ASSUME SingleWorker, TypeOK, Single, [Next]_vars PROVE Single'
    BY DEF IInv
  <1> USE HolderAssumption DEF db, mem, TypeOK, Executing, Completing, Terminal, Statuses,
       Single, Alone, DownIsClean,
       InflightInPairs, StrayIsOver, ExecutesItsOwn
  <1>1. ASSUME NEW e \in Executors, Start(e) PROVE Single'
    BY <1>1 DEF Start, Goto
  <1>2. ASSUME NEW e \in Executors, Crash(e) PROVE Single'
    BY <1>2 DEF Crash, ReturnTo, Goto
  <1>3. ASSUME NEW e \in Executors, Release(e) PROVE Single'
    BY <1>3 DEF Release, ReturnTo, Goto
  <1>4. ASSUME NEW e \in Executors, SettleInsteadOfClaim(e) PROVE Single'
    BY <1>4 DEF SettleInsteadOfClaim, CancelOnRow, Unheld, StopClicked, ResumeLimitReached
  <1>5. ASSUME NEW e \in Executors, Take(e) PROVE Single'
    BY <1>5 DEF Take, ReturnTo, Goto, Unheld, StopClicked, ResumeLimitReached, CrashCost
  <1>6. ASSUME NEW e \in Executors, Heartbeat(e) PROVE Single'
    BY <1>6 DEF Heartbeat
  <1>7. ASSUME NEW e \in Executors, Phase1Load(e) PROVE Single'
    BY <1>7 DEF Phase1Load, Goto
  <1>8. ASSUME NEW e \in Executors, Phase1Unavailable(e) PROVE Single'
    BY <1>8 DEF Phase1Unavailable, ReturnTo, Goto
  <1>9. ASSUME NEW e \in Executors, NoTargets(e) PROVE Single'
    BY <1>9 DEF NoTargets, Goto
  <1>10. ASSUME NEW e \in Executors, Phase1Rows(e) PROVE Single'
    BY <1>10 DEF Phase1Rows, Goto
  <1>11. ASSUME NEW e \in Executors, Recount(e) PROVE Single'
    BY <1>11 DEF Recount, Goto, RecountedBy
  <1>12. ASSUME NEW e \in Executors, PairsStopped(e) PROVE Single'
    BY <1>12 DEF PairsStopped
  <1>13. ASSUME NEW e \in Executors, PairLoopFails(e) PROVE Single'
    BY <1>13 DEF PairLoopFails, Goto
  <1>14. ASSUME NEW e \in Executors, PairsDone(e) PROVE Single'
    BY <1>14 DEF PairsDone, Goto
  <1>15. ASSUME NEW e \in Executors, LastCheck(e) PROVE Single'
    BY <1>15 DEF LastCheck, Goto
  <1>16. ASSUME NEW e \in Executors, CancelLoad(e) PROVE Single'
    BY <1>16 DEF CancelLoad, Goto
  <1>17. ASSUME NEW e \in Executors, CancelRows(e) PROVE Single'
    BY <1>17 DEF CancelRows, Goto
  <1>18. ASSUME NEW e \in Executors, CancelCommit(e) PROVE Single'
    BY <1>18 DEF CancelCommit, Goto, RecountedBy
  <1>19. ASSUME NEW e \in Executors, FinLoad(e) PROVE Single'
    BY <1>19 DEF FinLoad, Goto
  <1>20. ASSUME NEW e \in Executors, FinRows(e) PROVE Single'
    BY <1>20 DEF FinRows, Goto, MissingPairs
  <1>21. ASSUME NEW e \in Executors, Hold(e) PROVE Single'
    BY <1>21 DEF Hold, ReturnTo, Goto, RecountedBy
  <1>22. ASSUME NEW e \in Executors, FinCommit(e) PROVE Single'
    BY <1>22 DEF FinCommit, Goto, RecountedBy, MayComplete
  <1>23. ASSUME NEW e \in Executors, UnexpectedError(e) PROVE Single'
    BY <1>23 DEF UnexpectedError, Goto
  <1>24. ASSUME NEW e \in Executors, Settle(e) PROVE Single'
    BY <1>24 DEF Settle, ReturnTo, Goto
  <1>25. ASSUME NEW e \in Executors, SettleFails(e) PROVE Single'
    BY <1>25 DEF SettleFails, ReturnTo, Goto
  <1>26. ASSUME NEW e \in Executors, NEW p \in Pairs, StartPair(e, p) PROVE Single'
    BY <1>26 DEF StartPair
  <1>27. ASSUME NEW e \in Executors, NEW p \in Pairs, WritePair(e, p) PROVE Single'
    BY <1>27 DEF WritePair, Accepted
  <1>28. CASE Stop
    BY <1>28 DEF Stop
  <1>29. CASE CancelUnheldRun
    BY <1>29 DEF CancelUnheldRun, CancelOnRow, Unheld
  <1>30. CASE Delete
    BY <1>30 DEF Delete
  <1>31. CASE SqlStatus
    BY <1>31 DEF SqlStatus
  <1>32. CASE Expire
    BY <1>32 DEF Expire
  <1>33. CASE UNCHANGED vars
    BY <1>33 DEF vars
  <1> QED BY <1>1, <1>2, <1>3, <1>4, <1>5, <1>6, <1>7, <1>8, <1>9, <1>10, <1>11, <1>12, <1>13, <1>14, <1>15, <1>16, <1>17, <1>18, <1>19, <1>20, <1>21, <1>22, <1>23, <1>24, <1>25, <1>26, <1>27, <1>28, <1>29, <1>30, <1>31, <1>32, <1>33
    DEF Next, Claim, ExecutorStep, ExecutorFault, Web

\* Nobody writes between what it loads, reads and commits.
LEMMA CurrentStep ==
    IInv /\ Single /\ Current /\ [Next]_vars => Current'
  <1> SUFFICES ASSUME TypeOK, DeletedIsUnheld, Single, Current, [Next]_vars PROVE Current'
    BY DEF IInv
  <1> USE HolderAssumption DEF db, mem, TypeOK, DeletedIsUnheld, Executing,
       Single, Alone, InflightInPairs,
       StrayIsOver, Current, LoadedIsCurrent, SeenIsCurrent, CountersExact
  <1>1. ASSUME NEW e \in Executors, Start(e) PROVE Current'
    BY <1>1 DEF Start, Goto
  <1>2. ASSUME NEW e \in Executors, Crash(e) PROVE Current'
    BY <1>2 DEF Crash, ReturnTo, Goto
  <1>3. ASSUME NEW e \in Executors, Release(e) PROVE Current'
    BY <1>3 DEF Release, ReturnTo, Goto
  <1>4. ASSUME NEW e \in Executors, SettleInsteadOfClaim(e) PROVE Current'
    BY <1>4, PairsCounted, OneMorePair DEF SettleInsteadOfClaim, CancelOnRow, Unheld, StopClicked, ResumeLimitReached
  <1>5. ASSUME NEW e \in Executors, Take(e) PROVE Current'
    BY <1>5 DEF Take, ReturnTo, Goto, Unheld, StopClicked, ResumeLimitReached, CrashCost
  <1>6. ASSUME NEW e \in Executors, Heartbeat(e) PROVE Current'
    BY <1>6 DEF Heartbeat
  <1>7. ASSUME NEW e \in Executors, Phase1Load(e) PROVE Current'
    BY <1>7 DEF Phase1Load, Goto
  <1>8. ASSUME NEW e \in Executors, Phase1Unavailable(e) PROVE Current'
    BY <1>8 DEF Phase1Unavailable, ReturnTo, Goto
  <1>9. ASSUME NEW e \in Executors, NoTargets(e) PROVE Current'
    BY <1>9 DEF NoTargets, Goto
  <1>10. ASSUME NEW e \in Executors, Phase1Rows(e) PROVE Current'
    BY <1>10 DEF Phase1Rows, Goto
  <1>11. ASSUME NEW e \in Executors, Recount(e) PROVE Current'
    BY <1>11, PairsCounted, OneMorePair DEF Recount, Goto, RecountedBy
  <1>12. ASSUME NEW e \in Executors, PairsStopped(e) PROVE Current'
    BY <1>12 DEF PairsStopped
  <1>13. ASSUME NEW e \in Executors, PairLoopFails(e) PROVE Current'
    BY <1>13 DEF PairLoopFails, Goto
  <1>14. ASSUME NEW e \in Executors, PairsDone(e) PROVE Current'
    BY <1>14 DEF PairsDone, Goto
  <1>15. ASSUME NEW e \in Executors, LastCheck(e) PROVE Current'
    BY <1>15 DEF LastCheck, Goto
  <1>16. ASSUME NEW e \in Executors, CancelLoad(e) PROVE Current'
    BY <1>16 DEF CancelLoad, Goto
  <1>17. ASSUME NEW e \in Executors, CancelRows(e) PROVE Current'
    BY <1>17 DEF CancelRows, Goto
  <1>18. ASSUME NEW e \in Executors, CancelCommit(e) PROVE Current'
    BY <1>18, PairsCounted, OneMorePair DEF CancelCommit, Goto, RecountedBy
  <1>19. ASSUME NEW e \in Executors, FinLoad(e) PROVE Current'
    BY <1>19 DEF FinLoad, Goto
  <1>20. ASSUME NEW e \in Executors, FinRows(e) PROVE Current'
    BY <1>20 DEF FinRows, Goto, MissingPairs
  <1>21. ASSUME NEW e \in Executors, Hold(e) PROVE Current'
    BY <1>21, PairsCounted, OneMorePair DEF Hold, ReturnTo, Goto, RecountedBy
  <1>22. ASSUME NEW e \in Executors, FinCommit(e) PROVE Current'
    BY <1>22, PairsCounted, OneMorePair DEF FinCommit, Goto, RecountedBy, MayComplete
  <1>23. ASSUME NEW e \in Executors, UnexpectedError(e) PROVE Current'
    BY <1>23 DEF UnexpectedError, Goto
  <1>24. ASSUME NEW e \in Executors, Settle(e) PROVE Current'
    BY <1>24 DEF Settle, ReturnTo, Goto
  <1>25. ASSUME NEW e \in Executors, SettleFails(e) PROVE Current'
    BY <1>25 DEF SettleFails, ReturnTo, Goto
  <1>26. ASSUME NEW e \in Executors, NEW p \in Pairs, StartPair(e, p) PROVE Current'
    BY <1>26 DEF StartPair
  <1>27. ASSUME NEW e \in Executors, NEW p \in Pairs, WritePair(e, p) PROVE Current'
    BY <1>27, PairsCounted, OneMorePair DEF WritePair, Accepted
  <1>28. CASE Stop
    BY <1>28 DEF Stop
  <1>29. CASE CancelUnheldRun
    BY <1>29, PairsCounted, OneMorePair DEF CancelUnheldRun, CancelOnRow, Unheld
  <1>30. CASE Delete
    BY <1>30, PairsCounted, OneMorePair DEF Delete
  <1>31. CASE SqlStatus
    BY <1>31 DEF SqlStatus
  <1>32. CASE Expire
    BY <1>32 DEF Expire
  <1>33. CASE UNCHANGED vars
    BY <1>33 DEF vars
  <1> QED BY <1>1, <1>2, <1>3, <1>4, <1>5, <1>6, <1>7, <1>8, <1>9, <1>10, <1>11, <1>12, <1>13, <1>14, <1>15, <1>16, <1>17, <1>18, <1>19, <1>20, <1>21, <1>22, <1>23, <1>24, <1>25, <1>26, <1>27, <1>28, <1>29, <1>30, <1>31, <1>32, <1>33
    DEF Next, Claim, ExecutorStep, ExecutorFault, Web

\* A run whose execution goes on is ended by that execution, or cancelled and deleted.
LEMMA OpenStep ==
    ~OperatorSql /\ IInv /\ Single /\ ExecutedIsOpen /\ [Next]_vars => ExecutedIsOpen'
  <1> SUFFICES ASSUME ~OperatorSql, TypeOK, Single, ExecutedIsOpen, [Next]_vars PROVE ExecutedIsOpen'
    BY DEF IInv
  <1> USE HolderAssumption DEF db, mem, TypeOK, Executing, Completing, Terminal, Statuses,
       Single, Alone,
       ExecutesItsOwn, ExecutedIsOpen
  <1>1. ASSUME NEW e \in Executors, Start(e) PROVE ExecutedIsOpen'
    BY <1>1 DEF Start, Goto
  <1>2. ASSUME NEW e \in Executors, Crash(e) PROVE ExecutedIsOpen'
    BY <1>2 DEF Crash, ReturnTo, Goto
  <1>3. ASSUME NEW e \in Executors, Release(e) PROVE ExecutedIsOpen'
    BY <1>3 DEF Release, ReturnTo, Goto
  <1>4. ASSUME NEW e \in Executors, SettleInsteadOfClaim(e) PROVE ExecutedIsOpen'
    BY <1>4 DEF SettleInsteadOfClaim, CancelOnRow, Unheld, StopClicked, ResumeLimitReached
  <1>5. ASSUME NEW e \in Executors, Take(e) PROVE ExecutedIsOpen'
    BY <1>5 DEF Take, ReturnTo, Goto, Unheld, StopClicked, ResumeLimitReached, CrashCost
  <1>6. ASSUME NEW e \in Executors, Heartbeat(e) PROVE ExecutedIsOpen'
    BY <1>6 DEF Heartbeat
  <1>7. ASSUME NEW e \in Executors, Phase1Load(e) PROVE ExecutedIsOpen'
    BY <1>7 DEF Phase1Load, Goto
  <1>8. ASSUME NEW e \in Executors, Phase1Unavailable(e) PROVE ExecutedIsOpen'
    BY <1>8 DEF Phase1Unavailable, ReturnTo, Goto
  <1>9. ASSUME NEW e \in Executors, NoTargets(e) PROVE ExecutedIsOpen'
    BY <1>9 DEF NoTargets, Goto
  <1>10. ASSUME NEW e \in Executors, Phase1Rows(e) PROVE ExecutedIsOpen'
    BY <1>10 DEF Phase1Rows, Goto
  <1>11. ASSUME NEW e \in Executors, Recount(e) PROVE ExecutedIsOpen'
    BY <1>11 DEF Recount, Goto, RecountedBy
  <1>12. ASSUME NEW e \in Executors, PairsStopped(e) PROVE ExecutedIsOpen'
    BY <1>12 DEF PairsStopped
  <1>13. ASSUME NEW e \in Executors, PairLoopFails(e) PROVE ExecutedIsOpen'
    BY <1>13 DEF PairLoopFails, Goto
  <1>14. ASSUME NEW e \in Executors, PairsDone(e) PROVE ExecutedIsOpen'
    BY <1>14 DEF PairsDone, Goto
  <1>15. ASSUME NEW e \in Executors, LastCheck(e) PROVE ExecutedIsOpen'
    BY <1>15 DEF LastCheck, Goto
  <1>16. ASSUME NEW e \in Executors, CancelLoad(e) PROVE ExecutedIsOpen'
    BY <1>16 DEF CancelLoad, Goto
  <1>17. ASSUME NEW e \in Executors, CancelRows(e) PROVE ExecutedIsOpen'
    BY <1>17 DEF CancelRows, Goto
  <1>18. ASSUME NEW e \in Executors, CancelCommit(e) PROVE ExecutedIsOpen'
    BY <1>18 DEF CancelCommit, Goto, RecountedBy
  <1>19. ASSUME NEW e \in Executors, FinLoad(e) PROVE ExecutedIsOpen'
    BY <1>19 DEF FinLoad, Goto
  <1>20. ASSUME NEW e \in Executors, FinRows(e) PROVE ExecutedIsOpen'
    BY <1>20 DEF FinRows, Goto, MissingPairs
  <1>21. ASSUME NEW e \in Executors, Hold(e) PROVE ExecutedIsOpen'
    BY <1>21 DEF Hold, ReturnTo, Goto, RecountedBy
  <1>22. ASSUME NEW e \in Executors, FinCommit(e) PROVE ExecutedIsOpen'
    BY <1>22 DEF FinCommit, Goto, RecountedBy, MayComplete
  <1>23. ASSUME NEW e \in Executors, UnexpectedError(e) PROVE ExecutedIsOpen'
    BY <1>23 DEF UnexpectedError, Goto
  <1>24. ASSUME NEW e \in Executors, Settle(e) PROVE ExecutedIsOpen'
    BY <1>24 DEF Settle, ReturnTo, Goto
  <1>25. ASSUME NEW e \in Executors, SettleFails(e) PROVE ExecutedIsOpen'
    BY <1>25 DEF SettleFails, ReturnTo, Goto
  <1>26. ASSUME NEW e \in Executors, NEW p \in Pairs, StartPair(e, p) PROVE ExecutedIsOpen'
    BY <1>26 DEF StartPair
  <1>27. ASSUME NEW e \in Executors, NEW p \in Pairs, WritePair(e, p) PROVE ExecutedIsOpen'
    BY <1>27 DEF WritePair, Accepted
  <1>28. CASE Stop
    BY <1>28 DEF Stop
  <1>29. CASE CancelUnheldRun
    BY <1>29 DEF CancelUnheldRun, CancelOnRow, Unheld
  <1>30. CASE Delete
    BY <1>30 DEF Delete
  <1>31. CASE SqlStatus
    BY <1>31 DEF SqlStatus
  <1>32. CASE Expire
    BY <1>32 DEF Expire
  <1>33. CASE UNCHANGED vars
    BY <1>33 DEF vars
  <1> QED BY <1>1, <1>2, <1>3, <1>4, <1>5, <1>6, <1>7, <1>8, <1>9, <1>10, <1>11, <1>12, <1>13, <1>14, <1>15, <1>16, <1>17, <1>18, <1>19, <1>20, <1>21, <1>22, <1>23, <1>24, <1>25, <1>26, <1>27, <1>28, <1>29, <1>30, <1>31, <1>32, <1>33
    DEF Next, Claim, ExecutorStep, ExecutorFault, Web

\* Invariance, for one worker at a time.
LEMMA SingleInvariance == ASSUME SingleWorker PROVE Spec => [](IInv /\ Single /\ Current)
  <1>1. IInv /\ Single /\ Current /\ [Next]_vars => (Single /\ Current)'
    BY SingleStep, CurrentStep
  <1> QED BY <1>1, InitSingle, Invariance, PTL DEF Spec

\* A worker executes open runs only, in every state.
LEMMA OpenInvariance ==
    ASSUME SingleWorker, ~OperatorSql PROVE Spec => []ExecutedIsOpen
  <1>1. IInv /\ Single /\ ExecutedIsOpen /\ [Next]_vars => ExecutedIsOpen'
    BY OpenStep
  <1> QED BY <1>1, InitSingle, SingleInvariance, PTL DEF Spec

\* With one worker at a time completed_pairs is the number of result rows, whatever
\* crashes, Stop clicks and lost writes happen.
THEOREM CountIsExact == SingleWorker /\ Spec => []CountersExact
  <1> SUFFICES ASSUME SingleWorker PROVE Spec => []CountersExact
    OBVIOUS
  <1>1. Current => CountersExact
    BY DEF Current
  <1> QED BY <1>1, SingleInvariance, PTL

\* With one worker at a time and no SQL, a run held with a live heartbeat is cancelled by
\* a step of its holder only.
THEOREM HolderCancels == SingleWorker /\ ~OperatorSql /\ Spec => HeldRunCancelledByHolder
  <1> DEFINE A == status = "running" /\ holder \in Executors /\ fresh /\ status' = "cancelled"
                    => pc'[holder] # pc[holder]
  <1> SUFFICES ASSUME SingleWorker, ~OperatorSql PROVE Spec => HeldRunCancelledByHolder
    OBVIOUS
  <1>1. TypeOK /\ Single /\ [Next]_vars => [A]_vars
    <2> SUFFICES ASSUME TypeOK, Single, Next PROVE A
      OBVIOUS
    <2> USE HolderAssumption DEF db, mem
    <2>1. ASSUME NEW e \in Executors, CancelCommit(e) PROVE A
      BY <2>1 DEF CancelCommit, Goto, TypeOK, Single, ExecutesItsOwn, Executing
    <2>2. ASSUME NEW e \in Executors,
                 Start(e) \/ Claim(e) \/ Heartbeat(e) \/ ExecutorFault(e)
          PROVE  A
      BY <2>2 DEF Start, Claim, SettleInsteadOfClaim, Unheld, CancelOnRow, Take, Heartbeat,
         ExecutorFault, Crash, Release, Phase1Unavailable, NoTargets, PairLoopFails,
         UnexpectedError, SettleFails
    <2>3. ASSUME NEW e \in Executors, ExecutorStep(e), ~CancelCommit(e) PROVE A
      BY <2>3 DEF ExecutorStep, Phase1Load, Phase1Rows, Recount, StartPair, PairsStopped,
         WritePair, PairsDone, LastCheck, CancelLoad, CancelRows, FinLoad,
         FinRows, Hold, FinCommit, Settle
    <2>4. CASE Web \/ Expire
      BY <2>4 DEF Web, Expire, Stop, CancelUnheldRun, Unheld, CancelOnRow, Delete, SqlStatus
    <2> QED BY <2>1, <2>2, <2>3, <2>4 DEF Next
  <1>2. IInv => TypeOK
    BY DEF IInv
  <1> QED BY <1>1, <1>2, SingleInvariance, PTL DEF Spec, HeldRunCancelledByHolder

-----------------------------------------------------------------------------
(* The refinement: one worker keeps the promise of CoverageRunLifecycle. *)

\* Every step of the run is a step of its lifecycle, or changes nothing of it.
LEMMA LifecycleStep ==
    ~OperatorSql /\ IInv /\ Single /\ ExecutedIsOpen /\ [Next]_vars
        => [Lifecycle!Next]_<<status, rows>>
  <1> SUFFICES ASSUME ~OperatorSql, IInv, Single, ExecutedIsOpen, [Next]_vars
               PROVE  [Lifecycle!Next]_<<status, rows>>
    OBVIOUS
  <1> USE HolderAssumption DEF db, mem, IInv, TypeOK, Executing, Terminal, Statuses,
          Lifecycle!Next, Lifecycle!Ended
  <1>1. ASSUME NEW e \in Executors, Start(e)
        PROVE  [Lifecycle!Next]_<<status, rows>>
    BY <1>1 DEF Start, Goto
  <1>2. ASSUME NEW e \in Executors, Crash(e)
        PROVE  [Lifecycle!Next]_<<status, rows>>
    BY <1>2 DEF Crash, ReturnTo, Goto
  <1>3. ASSUME NEW e \in Executors, Release(e)
        PROVE  [Lifecycle!Next]_<<status, rows>>
    BY <1>3 DEF Release, ReturnTo, Goto
  <1>4. ASSUME NEW e \in Executors, SettleInsteadOfClaim(e)
        PROVE  [Lifecycle!Next]_<<status, rows>>
    BY <1>4 DEF SettleInsteadOfClaim, CancelOnRow, Unheld, StopClicked, ResumeLimitReached, Lifecycle!End
  <1>5. ASSUME NEW e \in Executors, Take(e)
        PROVE  [Lifecycle!Next]_<<status, rows>>
    BY <1>5 DEF Take, ReturnTo, Goto, Unheld, StopClicked, ResumeLimitReached, CrashCost, Lifecycle!Begin
  <1>6. ASSUME NEW e \in Executors, Heartbeat(e)
        PROVE  [Lifecycle!Next]_<<status, rows>>
    BY <1>6 DEF Heartbeat
  <1>7. ASSUME NEW e \in Executors, Phase1Load(e)
        PROVE  [Lifecycle!Next]_<<status, rows>>
    BY <1>7 DEF Phase1Load, Goto
  <1>8. ASSUME NEW e \in Executors, Phase1Unavailable(e)
        PROVE  [Lifecycle!Next]_<<status, rows>>
    BY <1>8 DEF Phase1Unavailable, ReturnTo, Goto
  <1>9. ASSUME NEW e \in Executors, NoTargets(e)
        PROVE  [Lifecycle!Next]_<<status, rows>>
    BY <1>9 DEF NoTargets, Goto, Lifecycle!End, Lifecycle!Relabel, ExecutedIsOpen
  <1>10. ASSUME NEW e \in Executors, Phase1Rows(e)
        PROVE  [Lifecycle!Next]_<<status, rows>>
    BY <1>10 DEF Phase1Rows, Goto
  <1>11. ASSUME NEW e \in Executors, Recount(e)
        PROVE  [Lifecycle!Next]_<<status, rows>>
    BY <1>11 DEF Recount, Goto, RecountedBy
  <1>12. ASSUME NEW e \in Executors, PairsStopped(e)
        PROVE  [Lifecycle!Next]_<<status, rows>>
    BY <1>12 DEF PairsStopped
  <1>13. ASSUME NEW e \in Executors, PairLoopFails(e)
        PROVE  [Lifecycle!Next]_<<status, rows>>
    BY <1>13 DEF PairLoopFails, Goto, Lifecycle!End, Lifecycle!Relabel, ExecutedIsOpen, DeletedIsUnheld
  <1>14. ASSUME NEW e \in Executors, PairsDone(e)
        PROVE  [Lifecycle!Next]_<<status, rows>>
    BY <1>14 DEF PairsDone, Goto
  <1>15. ASSUME NEW e \in Executors, LastCheck(e)
        PROVE  [Lifecycle!Next]_<<status, rows>>
    BY <1>15 DEF LastCheck, Goto
  <1>16. ASSUME NEW e \in Executors, CancelLoad(e)
        PROVE  [Lifecycle!Next]_<<status, rows>>
    BY <1>16 DEF CancelLoad, Goto
  <1>17. ASSUME NEW e \in Executors, CancelRows(e)
        PROVE  [Lifecycle!Next]_<<status, rows>>
    BY <1>17 DEF CancelRows, Goto
  <1>18. ASSUME NEW e \in Executors, CancelCommit(e)
        PROVE  [Lifecycle!Next]_<<status, rows>>
    BY <1>18 DEF CancelCommit, Goto, RecountedBy, Lifecycle!End, ExecutedIsOpen
  <1>19. ASSUME NEW e \in Executors, FinLoad(e)
        PROVE  [Lifecycle!Next]_<<status, rows>>
    BY <1>19 DEF FinLoad, Goto
  <1>20. ASSUME NEW e \in Executors, FinRows(e)
        PROVE  [Lifecycle!Next]_<<status, rows>>
    BY <1>20 DEF FinRows, Goto, MissingPairs
  <1>21. ASSUME NEW e \in Executors, Hold(e)
        PROVE  [Lifecycle!Next]_<<status, rows>>
    BY <1>21 DEF Hold, ReturnTo, Goto, RecountedBy
  <1>22. ASSUME NEW e \in Executors, FinCommit(e)
        PROVE  [Lifecycle!Next]_<<status, rows>>
    BY <1>22 DEF FinCommit, Goto, RecountedBy, MayComplete, Lifecycle!End, SweptRunIsWhole
  <1>23. ASSUME NEW e \in Executors, UnexpectedError(e)
        PROVE  [Lifecycle!Next]_<<status, rows>>
    BY <1>23 DEF UnexpectedError, Goto
  <1>24. ASSUME NEW e \in Executors, Settle(e)
        PROVE  [Lifecycle!Next]_<<status, rows>>
    BY <1>24 DEF Settle, ReturnTo, Goto, Lifecycle!End
  <1>25. ASSUME NEW e \in Executors, SettleFails(e)
        PROVE  [Lifecycle!Next]_<<status, rows>>
    BY <1>25 DEF SettleFails, ReturnTo, Goto
  <1>26. ASSUME NEW e \in Executors, NEW p \in Pairs, StartPair(e, p)
        PROVE  [Lifecycle!Next]_<<status, rows>>
    BY <1>26 DEF StartPair
  <1>27. ASSUME NEW e \in Executors, NEW p \in Pairs, WritePair(e, p)
        PROVE  [Lifecycle!Next]_<<status, rows>>
    BY <1>27 DEF WritePair, Accepted, Lifecycle!AddRow
  <1>28. CASE Stop
    BY <1>28 DEF Stop, Lifecycle!CancelQueued
  <1>29. CASE CancelUnheldRun
    BY <1>29 DEF CancelUnheldRun, CancelOnRow, Unheld, Lifecycle!End
  <1>30. CASE Delete
    BY <1>30 DEF Delete, Lifecycle!Delete
  <1>31. CASE SqlStatus
    BY <1>31 DEF SqlStatus
  <1>32. CASE Expire
    BY <1>32 DEF Expire
  <1>33. CASE UNCHANGED vars
    BY <1>33 DEF vars
  <1> QED BY <1>1, <1>2, <1>3, <1>4, <1>5, <1>6, <1>7, <1>8, <1>9, <1>10, <1>11, <1>12, <1>13, <1>14, <1>15, <1>16, <1>17, <1>18, <1>19, <1>20, <1>21, <1>22, <1>23, <1>24, <1>25, <1>26, <1>27, <1>28, <1>29, <1>30, <1>31, <1>32, <1>33
    DEF Next, Claim, ExecutorStep, ExecutorFault, Web

\* With one worker at a time and no SQL, the detailed run implements the lifecycle: it ends
\* once and for all, completed only with the row of every pair.
THEOREM LifecycleHolds == SingleWorker /\ ~OperatorSql /\ Spec => LifecycleSpec
  <1> SUFFICES ASSUME SingleWorker, ~OperatorSql PROVE Spec => LifecycleSpec
    OBVIOUS
  <1>1. Init => Lifecycle!Init
    BY DEF Init, Lifecycle!Init
  <1>2. IInv /\ Single /\ ExecutedIsOpen /\ [Next]_vars => [Lifecycle!Next]_<<status, rows>>
    BY LifecycleStep
  <1> QED BY <1>1, <1>2, SingleInvariance, OpenInvariance, PTL
          DEF Spec, LifecycleSpec, Lifecycle!Spec
=============================================================================
