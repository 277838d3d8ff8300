----------------------------- MODULE JourneysProofs -----------------------------
(***************************************************************************)
(* Theorems about the searches, for any requests, engines, pairs, cells,   *)
(* executors and recorded searches.                                        *)
(*                                                                         *)
(* Every component has its own inductive invariant; the instance runs one  *)
(* of them beside the others at rest, so its steps are steps of each. The  *)
(* sweep's says what the executor that holds the run knows of the answers  *)
(* saved (KnowsTheSaved); the ledger's that the row of an open replay is   *)
(* still free and its original still there; a pair's how each failure is   *)
(* reached (QueryHolds); a search's that it asks the sessions chosen at    *)
(* its start and no other (SearchHolds); a check's by the OeBB engine that *)
(* its verdict is what two answered calls said, or a failure (VerdictInv). *)
(***************************************************************************)
EXTENDS MCJourneys, FiniteSetTheorems, SequenceTheorems, WellFoundedInduction, TLAPS

-----------------------------------------------------------------------------
(* The verification sweep *)

Phases == {"start", "sweep", "commit"}
SweepSheets ==
    [pc : Phases \cup {"away", "claimed", "over"}, todo : SUBSET Cells, asking : SUBSET Cells,
     answered : SUBSET Cells, pending : SUBSET Cells, written : Nat, stopped : BOOLEAN]

\* An executor's sheet: every cell is still to ask, asked or answered; what it has written
\* counts the answers that no longer wait.
SheetHolds(s) ==
    /\ s.pending \subseteq s.answered /\ s.asking \cap (s.todo \cup s.answered) = {}
    /\ s.todo \cap s.answered = {} /\ Cardinality(s.asking) <= VerifyParallelism
    /\ s.stopped => s.pending = {}
    /\ s.pc \notin Phases => s.todo = {} /\ s.asking = {}
    /\ s.pc \in Phases => /\ Cells \subseteq s.todo \cup s.asking \cup s.answered
                          /\ ~s.stopped => s.written = Cardinality(s.answered \ s.pending)
    /\ s.pc = "start" => s.pending = {} /\ s.asking = {}
    /\ s.pc = "commit" => s.asking = {} /\ (s.todo = {} \/ s.stopped)

\* The executor that holds the run has answered all that is saved; while the run runs, its
\* writer goes on and what no longer waits is saved.
KnowsTheSaved(e, s) ==
    s.pc \in Phases =>
        /\ sweepHolder = e => savedCells \subseteq s.answered
        /\ Fence(e) => ~s.stopped /\ s.answered \ s.pending \subseteq savedCells

SweepRow ==
    /\ runState \in {"running", "completed", "cancelled"} /\ verifyDone \in 0..Cardinality(Cells)
    /\ savedCells \subseteq Cells /\ sweepHolder \in Sweepers \cup {NoSweeper}
SweepInv ==
    /\ SweepRow /\ SweepProgressExact /\ CompletedIsChecked
    /\ sweeper \in [Sweepers -> SweepSheets]
    /\ \A e \in Sweepers : SheetHolds(sweeper[e]) /\ KnowsTheSaved(e, sweeper[e])

\* Subsets of the cells are counted.
LEMMA CellsCounted ==
    \A S \in SUBSET Cells :
        /\ IsFiniteSet(S) /\ Cardinality(S) \in 0..Cardinality(Cells) /\ Cardinality(S) \in Nat
        /\ Cardinality(Cells) \in Nat
  BY SweepAssumption, FS_Subset, FS_CardinalityType

\* An executor that is over has nothing in hand.
LEMMA NothingInHand ==
    LET t == [Away EXCEPT !.pc = "over"] IN t \in SweepSheets /\ SheetHolds(t) /\ t.pc \notin Phases
  <1> DEFINE t == [Away EXCEPT !.pc = "over"]
  <1>1. /\ t.pc = "over" /\ t.todo = {} /\ t.asking = {} /\ t.answered = {} /\ t.pending = {}
        /\ t.written = 0 /\ t.stopped = FALSE /\ t \in SweepSheets
    BY DEF Away, SweepSheets, Phases
  <1>2. Cardinality({}) = 0
    BY FS_EmptySet
  <1> HIDE DEF t
  <1>3. SheetHolds(t)
    BY <1>1, <1>2, SweepAssumption DEF SheetHolds, Phases
  <1>4. t \in SweepSheets /\ SheetHolds(t) /\ t.pc \notin Phases
    BY <1>1, <1>3 DEF Phases
  <1> QED BY <1>4 DEF t

\* The executors start away, with nothing saved.
LEMMA SweepStart == SweepInit => SweepInv
  <1> SUFFICES ASSUME SweepInit PROVE SweepInv
    OBVIOUS
  <1>1. Cardinality({}) = 0 /\ Cardinality(Cells) \in Nat
    BY CellsCounted, FS_EmptySet
  <1>2. SweepRow /\ SweepProgressExact /\ CompletedIsChecked
    BY <1>1 DEF SweepInit, SweepRow, SweepProgressExact, CompletedIsChecked
  <1>3. Away \in SweepSheets /\ SheetHolds(Away) /\ Away.pc \notin Phases
    BY <1>1, SweepAssumption DEF Away, SweepSheets, SheetHolds, Phases
  <1>4. sweeper \in [Sweepers -> SweepSheets] /\ \A e \in Sweepers : sweeper[e] = Away
    BY <1>3 DEF SweepInit
  <1> QED BY <1>2, <1>3, <1>4 DEF SweepInv, KnowsTheSaved

\* A step of one executor that writes nothing: only its own sheet is to account for.
LEMMA SheetMoves ==
    ASSUME SweepInv, NEW e \in Sweepers, NEW t \in SweepSheets, SheetHolds(t), KnowsTheSaved(e, t),
           sweeper' = [sweeper EXCEPT ![e] = t],
           UNCHANGED <<runState, sweepHolder, verifyDone, savedCells>>
    PROVE  SweepInv'
  <1>1. sweeper' \in [Sweepers -> SweepSheets] /\ sweeper'[e] = t
        /\ \A x \in Sweepers \ {e} : sweeper'[x] = sweeper[x]
    BY DEF SweepInv
  <1>2. SweepRow' /\ SweepProgressExact' /\ CompletedIsChecked'
    BY DEF SweepInv, SweepRow, SweepProgressExact, CompletedIsChecked
  <1>3. \A x \in Sweepers, s \in SweepSheets : KnowsTheSaved(x, s) => KnowsTheSaved(x, s)'
    BY DEF KnowsTheSaved, Fence
  <1>4. ASSUME NEW x \in Sweepers PROVE SheetHolds(sweeper'[x]) /\ KnowsTheSaved(x, sweeper[x])'
    <2>1. CASE x = e
      BY <1>1, <2>1 DEF KnowsTheSaved, Fence
    <2>2. CASE x # e
      BY <1>1, <2>2 DEF SweepInv, KnowsTheSaved, Fence
    <2> QED BY <2>1, <2>2
  <1> QED BY <1>1, <1>2, <1>4 DEF SweepInv

\* A write of the answers that wait: refused by the fence, landed, or failed with the commit
\* made or not. The progress is the number of answers saved in every case.
LEMMA FlushKeeps ==
    ASSUME SweepInv, NEW e \in Sweepers, NEW t \in SweepSheets, SheetHolds(t), KnowsTheSaved(e, t),
           t.pc \in {"sweep", "commit"}, Flush(e, t), UNCHANGED <<runState, sweepHolder>>
    PROVE  SweepInv'
  <1>0. t.answered \in SUBSET Cells /\ t.pending \in SUBSET Cells /\ t.pc \in Phases
    BY DEF SweepSheets, Phases
  <1> DEFINE done == t.written + Cardinality(t.pending)
  <1>1. CASE ~Fence(e) /\ UNCHANGED <<verifyDone, savedCells>>
             /\ sweeper' = [sweeper EXCEPT ![e] = [t EXCEPT !.stopped = TRUE, !.pending = {}]]
    <2> DEFINE u == [t EXCEPT !.stopped = TRUE, !.pending = {}]
    <2>1. u \in SweepSheets /\ SheetHolds(u)
      BY <1>0 DEF SweepSheets, SheetHolds
    <2>2. KnowsTheSaved(e, u)
      BY <1>0, <1>1 DEF KnowsTheSaved, SweepSheets
    <2>3. /\ sweeper' = [sweeper EXCEPT ![e] = u]
          /\ UNCHANGED <<runState, sweepHolder, verifyDone, savedCells>>
      BY <1>1
    <2> HIDE DEF u
    <2> QED BY <2>1, <2>2, <2>3, SheetMoves
  <1>2. ASSUME Fence(e)
        PROVE  /\ ~t.stopped /\ savedCells \cup t.pending = t.answered
               /\ done = Cardinality(t.answered) /\ done \in 0..Cardinality(Cells) /\ done \in Nat
    <2>1. ~t.stopped /\ savedCells \subseteq t.answered /\ t.answered \ t.pending \subseteq savedCells
      BY <1>0, <1>2 DEF KnowsTheSaved, Fence
    <2>2. t.pending \subseteq t.answered /\ t.written = Cardinality(t.answered \ t.pending)
      BY <1>0, <2>1 DEF SheetHolds
    <2>3. Cardinality(t.answered \ t.pending) = Cardinality(t.answered) - Cardinality(t.answered \cap t.pending)
      BY <1>0, CellsCounted, FS_Difference
    <2>4. t.answered \cap t.pending = t.pending
      BY <2>2
    <2>5. /\ Cardinality(t.pending) \in Nat /\ Cardinality(t.answered) \in Nat
          /\ Cardinality(t.answered) \in 0..Cardinality(Cells)
      BY <1>0, CellsCounted
    <2>7. Cardinality(t.answered \ t.pending) = Cardinality(t.answered) - Cardinality(t.pending)
      BY <2>3, <2>4
    <2>6. done = Cardinality(t.answered)
      BY ONLY <2>2, <2>5, <2>7
    <2> QED BY <2>1, <2>2, <2>5, <2>6
  <1>3. ASSUME Fence(e), verifyDone' = done, savedCells' = savedCells \cup t.pending,
               NEW u \in SweepSheets, SheetHolds(u), u.answered = t.answered, ~u.stopped,
               sweeper' = [sweeper EXCEPT ![e] = u]
        PROVE  SweepInv'
    <2>1. savedCells' = t.answered /\ verifyDone' = Cardinality(t.answered)
          /\ verifyDone' \in 0..Cardinality(Cells)
      BY <1>2, <1>3
    <2>2. runState = "running" /\ sweepHolder = e
      BY <1>3 DEF Fence
    <2>3. SweepRow' /\ SweepProgressExact' /\ CompletedIsChecked'
      BY <1>0, <2>1, <2>2 DEF SweepInv, SweepRow, SweepProgressExact, CompletedIsChecked
    <2>4. sweeper' \in [Sweepers -> SweepSheets] /\ sweeper'[e] = u
          /\ \A x \in Sweepers \ {e} : sweeper'[x] = sweeper[x]
      BY <1>3 DEF SweepInv
    <2>5. ASSUME NEW x \in Sweepers PROVE SheetHolds(sweeper'[x]) /\ KnowsTheSaved(x, sweeper[x])'
      <3>1. CASE x = e
        BY <1>3, <2>1, <2>4, <3>1 DEF KnowsTheSaved
      <3>2. CASE x # e
        BY <2>2, <2>4, <3>2 DEF SweepInv, KnowsTheSaved, Fence
      <3> QED BY <3>1, <3>2
    <2> QED BY <2>3, <2>4, <2>5 DEF SweepInv
  <1>4. CASE Fence(e) /\ verifyDone' = done /\ savedCells' = savedCells \cup t.pending
             /\ sweeper' = [sweeper EXCEPT ![e] = [t EXCEPT !.written = done, !.pending = {}]]
    <2> DEFINE u == [t EXCEPT !.written = done, !.pending = {}]
    <2>1. ~t.stopped /\ done = Cardinality(t.answered) /\ done \in Nat
      BY <1>2, <1>4
    <2>2. t.answered \ {} = t.answered
      OBVIOUS
    <2> HIDE DEF done
    <2>3. u \in SweepSheets /\ SheetHolds(u) /\ u.answered = t.answered /\ ~u.stopped
      BY <1>0, <2>1, <2>2 DEF SweepSheets, SheetHolds, Phases
    <2>4. sweeper' = [sweeper EXCEPT ![e] = u] /\ Fence(e) /\ verifyDone' = done
          /\ savedCells' = savedCells \cup t.pending
      BY <1>4
    <2> HIDE DEF u
    <2> QED BY <1>3, <2>3, <2>4
  <1>5. CASE Fence(e) /\ verifyDone' = done /\ savedCells' = savedCells \cup t.pending
             /\ sweeper' = [sweeper EXCEPT ![e] = t]
    BY <1>2, <1>3, <1>5
  <1>6. CASE UNCHANGED <<verifyDone, savedCells>> /\ sweeper' = [sweeper EXCEPT ![e] = t]
    BY <1>6, SheetMoves
  <1> QED BY <1>1, <1>4, <1>5, <1>6 DEF Flush, Write

\* A claim, and the read of the rows: the sheet starts from what is saved.
LEMMA ClaimKeeps == \A e \in Sweepers : SweepInv /\ (ClaimSweep(e) \/ ReadRows(e)) => SweepInv'
  <1>1. ASSUME SweepInv, NEW e \in Sweepers, ClaimSweep(e) PROVE SweepInv'
    <2> DEFINE t == [sweeper[e] EXCEPT !.pc = "claimed"]
    <2>1. sweeper[e] \in SweepSheets /\ SheetHolds(sweeper[e]) /\ sweeper[e].pc = "away"
      BY <1>1 DEF SweepInv, ClaimSweep
    <2>2. t \in SweepSheets /\ SheetHolds(t) /\ t.pc \notin Phases
      BY <2>1 DEF SweepSheets, SheetHolds, Phases
    <2>3. sweeper' \in [Sweepers -> SweepSheets] /\ sweeper'[e] = t
          /\ \A x \in Sweepers \ {e} : sweeper'[x] = sweeper[x]
      BY <1>1, <2>2 DEF SweepInv, ClaimSweep
    <2>4. SweepRow' /\ SweepProgressExact' /\ CompletedIsChecked'
      BY <1>1 DEF ClaimSweep, SweepInv, SweepRow, SweepProgressExact, CompletedIsChecked
    <2> HIDE DEF t
    <2>5. ASSUME NEW x \in Sweepers PROVE SheetHolds(sweeper'[x]) /\ KnowsTheSaved(x, sweeper[x])'
      <3>1. CASE x = e
        BY <2>2, <2>3, <3>1 DEF KnowsTheSaved
      <3>2. CASE x # e
        BY <1>1, <2>3, <3>2 DEF ClaimSweep, SweepInv, KnowsTheSaved, Fence
      <3> QED BY <3>1, <3>2
    <2> QED BY <2>3, <2>4, <2>5 DEF SweepInv
  <1>2. ASSUME SweepInv, NEW e \in Sweepers, ReadRows(e) PROVE SweepInv'
    <2> DEFINE known == Cells \ Unchecked(savedCells)
    <2>1. known = savedCells /\ savedCells \in SUBSET Cells /\ Cardinality(savedCells) \in Nat
      BY <1>2, CellsCounted DEF SweepInv, SweepRow, Unchecked
    <2>2. Cardinality({}) = 0 /\ savedCells \ {} = savedCells
      BY FS_EmptySet
    <2>3. CASE runState = "running"
      <3> DEFINE t == [Away EXCEPT !.pc = "start", !.todo = Unchecked(savedCells),
                                  !.answered = known, !.written = Cardinality(known)]
      <3>1. /\ t.pc = "start" /\ t.todo = Cells \ savedCells /\ t.asking = {} /\ t.pending = {}
            /\ t.answered = savedCells /\ t.written = Cardinality(savedCells) /\ ~t.stopped
            /\ t \in SweepSheets
        BY <2>1 DEF Away, SweepSheets, Phases, Unchecked
      <3>2. sweeper' = [sweeper EXCEPT ![e] = t]
            /\ UNCHANGED <<runState, sweepHolder, verifyDone, savedCells>>
        BY <1>2, <2>3 DEF ReadRows
      <3> HIDE DEF t
      <3>3. SheetHolds(t) /\ KnowsTheSaved(e, t)
        BY <2>1, <2>2, <3>1, SweepAssumption DEF SheetHolds, KnowsTheSaved, Phases
      <3> QED BY <1>2, <3>1, <3>2, <3>3, SheetMoves
    <2>4. CASE runState # "running"
      <3> DEFINE t == [Away EXCEPT !.pc = "over"]
      <3>1. t \in SweepSheets /\ SheetHolds(t) /\ t.pc \notin Phases
        BY NothingInHand
      <3>2. sweeper' = [sweeper EXCEPT ![e] = t]
            /\ UNCHANGED <<runState, sweepHolder, verifyDone, savedCells>>
        BY <1>2, <2>4 DEF ReadRows
      <3> HIDE DEF t
      <3> QED BY <1>2, <3>1, <3>2, SheetMoves DEF KnowsTheSaved
    <2> QED BY <2>3, <2>4
  <1> QED BY <1>1, <1>2

\* The writer's first write, a cell asked and answered, the last write.
LEMMA ChecksKeep ==
    \A e \in Sweepers :
        /\ SweepInv /\ (StartWriter(e) \/ SweepDone(e)) => SweepInv'
        /\ \A c \in Cells : SweepInv /\ (AskCell(e, c) \/ CellChecked(e, c)) => SweepInv'
  <1>0. ASSUME SweepInv, NEW e \in Sweepers
        PROVE  sweeper[e] \in SweepSheets /\ SheetHolds(sweeper[e]) /\ KnowsTheSaved(e, sweeper[e])
    BY <1>0 DEF SweepInv
  <1>1. ASSUME SweepInv, NEW e \in Sweepers, StartWriter(e) PROVE SweepInv'
    <2> DEFINE s == sweeper[e]
               t == [s EXCEPT !.pc = "sweep"]
    <2>1. s \in SweepSheets /\ SheetHolds(s) /\ KnowsTheSaved(e, s) /\ s.pc = "start"
      BY <1>0, <1>1 DEF StartWriter
    <2>2. t \in SweepSheets /\ SheetHolds(t) /\ t.pc = "sweep"
      BY <2>1 DEF SweepSheets, SheetHolds, Phases
    <2>3. KnowsTheSaved(e, t)
      BY <2>1 DEF KnowsTheSaved, Phases, SweepSheets
    <2>4. t.pending = {} /\ t.written = s.written /\ s.written \in Nat
      BY <2>1 DEF SheetHolds, SweepSheets
    <2>5. Write(e, t, {}, s.written) /\ UNCHANGED <<runState, sweepHolder>>
      BY <1>1 DEF StartWriter
    <2> HIDE DEF t, s
    <2>6. s.written = t.written + Cardinality(t.pending)
      BY <2>4, FS_EmptySet
    <2>7. Flush(e, t)
      BY <2>4, <2>5, <2>6 DEF Flush
    <2> QED BY <1>1, <2>2, <2>3, <2>5, <2>7, FlushKeeps
  <1>2. ASSUME SweepInv, NEW e \in Sweepers, SweepDone(e) PROVE SweepInv'
    <2> DEFINE s == sweeper[e]
               t == [s EXCEPT !.pc = "commit"]
    <2>1. s \in SweepSheets /\ SheetHolds(s) /\ KnowsTheSaved(e, s) /\ s.pc = "sweep"
          /\ s.asking = {} /\ (s.todo = {} \/ s.stopped) /\ UNCHANGED <<runState, sweepHolder>>
      BY <1>0, <1>2 DEF SweepDone
    <2>2. t \in SweepSheets /\ SheetHolds(t) /\ t.pc = "commit"
      BY <2>1 DEF SweepSheets, SheetHolds, Phases
    <2>3. KnowsTheSaved(e, t)
      BY <2>1 DEF KnowsTheSaved, Phases, SweepSheets
    <2>4. \/ sweeper' = [sweeper EXCEPT ![e] = t] /\ UNCHANGED <<verifyDone, savedCells>>
          \/ Flush(e, t)
      BY <1>2 DEF SweepDone
    <2> HIDE DEF t, s
    <2> QED BY <1>2, <2>1, <2>2, <2>3, <2>4, FlushKeeps, SheetMoves
  <1>3. ASSUME SweepInv, NEW e \in Sweepers, NEW c \in Cells, AskCell(e, c) PROVE SweepInv'
    <2> DEFINE s == sweeper[e]
               t == [s EXCEPT !.todo = @ \ {c}, !.asking = @ \cup {c}]
    <2>1. /\ s \in SweepSheets /\ SheetHolds(s) /\ KnowsTheSaved(e, s) /\ s.pc = "sweep" /\ c \in s.todo
          /\ Cardinality(s.asking) < VerifyParallelism
          /\ UNCHANGED <<runState, sweepHolder, verifyDone, savedCells>>
      BY <1>0, <1>3 DEF AskCell
    <2>2. sweeper' = [sweeper EXCEPT ![e] = t]
      BY <1>3 DEF AskCell, SweepInv, SweepSheets
    <2>3. s.asking \in SUBSET Cells /\ IsFiniteSet(s.asking) /\ Cardinality(s.asking) \in Nat
      BY <2>1, CellsCounted DEF SweepSheets
    <2>4. Cardinality(s.asking \cup {c}) <= VerifyParallelism
      <3> HIDE DEF s
      <3>1. Cardinality(s.asking \cup {c}) <= Cardinality(s.asking) + 1
        BY <2>3, FS_AddElement
      <3>2. Cardinality(s.asking \cup {c}) \in Nat
        BY <2>3, FS_AddElement, FS_CardinalityType
      <3> QED BY <2>1, <2>3, <3>1, <3>2, SweepAssumption
    <2>5. /\ t.pc = s.pc /\ t.todo = s.todo \ {c} /\ t.asking = s.asking \cup {c}
          /\ t.written = s.written /\ t.answered = s.answered /\ t.pending = s.pending
          /\ t.stopped = s.stopped /\ t \in SweepSheets
      BY <2>1 DEF SweepSheets
    <2> HIDE DEF t
    <2>6. SheetHolds(t)
      BY <2>1, <2>4, <2>5 DEF SheetHolds, Phases
    <2>7. KnowsTheSaved(e, t)
      BY <2>1, <2>5 DEF KnowsTheSaved, Phases
    <2> HIDE DEF s
    <2> QED BY <1>3, <2>1, <2>2, <2>5, <2>6, <2>7, SheetMoves
  <1>4. ASSUME SweepInv, NEW e \in Sweepers, NEW c \in Cells, CellChecked(e, c) PROVE SweepInv'
    <2> DEFINE s == sweeper[e]
               waits == IF s.stopped THEN {} ELSE s.pending \cup {c}
               t == [s EXCEPT !.asking = @ \ {c}, !.answered = @ \cup {c}, !.pending = waits]
    <2>1. /\ s \in SweepSheets /\ SheetHolds(s) /\ KnowsTheSaved(e, s) /\ s.pc = "sweep" /\ c \in s.asking
          /\ UNCHANGED <<runState, sweepHolder>>
      BY <1>0, <1>4 DEF CellChecked
    <2>2. \/ Flush(e, t)
          \/ sweeper' = [sweeper EXCEPT ![e] = t] /\ UNCHANGED <<verifyDone, savedCells>>
      BY <1>4 DEF CellChecked
    <2>3. s.asking \in SUBSET Cells /\ Cardinality(s.asking \ {c}) <= Cardinality(s.asking)
          /\ Cardinality(s.asking \ {c}) \in Nat /\ Cardinality(s.asking) \in Nat
      <3>1. s.asking \in SUBSET Cells
        BY <2>1 DEF SweepSheets
      <3>2. IsFiniteSet(s.asking)
        BY <3>1, CellsCounted
      <3> HIDE DEF s
      <3> QED BY <3>1, <3>2, FS_Subset, FS_CardinalityType
    <2>4. ~s.stopped => (s.answered \cup {c}) \ waits = s.answered \ s.pending
      BY <2>1 DEF SheetHolds
    <2>5. waits \subseteq s.pending \cup {c} /\ (s.stopped => waits = {})
      OBVIOUS
    <2>6. /\ t.pc = "sweep" /\ t.todo = s.todo /\ t.asking = s.asking \ {c} /\ t.written = s.written
          /\ t.answered = s.answered \cup {c} /\ t.pending = waits /\ t.stopped = s.stopped
          /\ t \in SweepSheets
      BY <2>1, <2>5 DEF SweepSheets
    <2> HIDE DEF t, waits
    <2>7. SheetHolds(t)
      BY <2>1, <2>3, <2>4, <2>5, <2>6, SweepAssumption DEF SheetHolds, Phases
    <2>8. KnowsTheSaved(e, t)
      BY <2>1, <2>4, <2>6 DEF KnowsTheSaved, Phases
    <2> HIDE DEF s
    <2> QED BY <1>4, <2>1, <2>2, <2>6, <2>7, <2>8, FlushKeeps, SheetMoves
  <1> QED BY <1>1, <1>2, <1>3, <1>4

\* The end of a completion: the status and the answers of an executor that still holds the
\* run, who has them all; a death and an operator's cancellation leave what is saved.
LEMMA EndsOfSweep ==
    SweepInv /\ (CancelBySql \/ \E e \in Sweepers : CommitCompletion(e) \/ SweeperDies(e)) => SweepInv'
  <1> DEFINE t == [Away EXCEPT !.pc = "over"]
  <1>0. t \in SweepSheets /\ SheetHolds(t) /\ t.pc \notin Phases
    BY NothingInHand
  <1> HIDE DEF t
  <1>1. ASSUME SweepInv, NEW e \in Sweepers, sweeper' = [sweeper EXCEPT ![e] = t]
        PROVE  /\ sweeper' \in [Sweepers -> SweepSheets] /\ sweeper'[e] = t
               /\ \A x \in Sweepers \ {e} : sweeper'[x] = sweeper[x]
    BY <1>0, <1>1 DEF SweepInv
  <1>2. ASSUME SweepInv, NEW e \in Sweepers, CommitCompletion(e) PROVE SweepInv'
    <2>1. /\ sweeper[e].pc = "commit" /\ sweeper' = [sweeper EXCEPT ![e] = t]
          /\ UNCHANGED <<sweepHolder, verifyDone>>
      BY <1>2 DEF CommitCompletion, t
    <2>2. CASE MayFlip(e)
      <3>1. runState' = "completed" /\ savedCells' = savedCells \cup sweeper[e].answered /\ Fence(e)
            /\ sweepHolder = e
        BY <1>2, <2>2 DEF CommitCompletion, MayFlip, Fence
      <3>2. SheetHolds(sweeper[e]) /\ KnowsTheSaved(e, sweeper[e]) /\ sweeper[e] \in SweepSheets
        BY <1>2 DEF SweepInv
      <3>3. ~sweeper[e].stopped
        BY <2>1, <3>1, <3>2 DEF KnowsTheSaved, Phases
      <3>4. savedCells' = Cells
        BY <1>2, <2>1, <3>1, <3>2, <3>3 DEF SheetHolds, Phases, SweepSheets, SweepInv, SweepRow
      <3>5. SweepRow' /\ SweepProgressExact' /\ CompletedIsChecked'
        BY <1>2, <2>1, <3>1, <3>4 DEF SweepInv, SweepRow, SweepProgressExact, CompletedIsChecked
      <3>6. ASSUME NEW x \in Sweepers PROVE SheetHolds(sweeper'[x]) /\ KnowsTheSaved(x, sweeper[x])'
        <4>1. CASE x = e
          BY <1>0, <1>1, <1>2, <2>1, <4>1 DEF KnowsTheSaved
        <4>2. CASE x # e
          BY <1>1, <1>2, <2>1, <3>1, <4>2 DEF SweepInv, KnowsTheSaved, Fence
        <4> QED BY <4>1, <4>2
      <3> QED BY <1>1, <1>2, <2>1, <3>5, <3>6 DEF SweepInv
    <2>3. CASE ~MayFlip(e)
      <3>1. UNCHANGED <<runState, savedCells>>
        BY <1>2, <2>3 DEF CommitCompletion
      <3> QED BY <1>0, <1>2, <2>1, <3>1, SheetMoves DEF KnowsTheSaved
    <2> QED BY <2>2, <2>3
  <1>3. ASSUME SweepInv, NEW e \in Sweepers, SweeperDies(e) PROVE SweepInv'
    <2>1. /\ sweeper' = [sweeper EXCEPT ![e] = t] /\ UNCHANGED <<runState, verifyDone, savedCells>>
          /\ sweepHolder' \in {sweepHolder, NoSweeper}
      BY <1>3 DEF SweeperDies, t
    <2>2. SweepRow' /\ SweepProgressExact' /\ CompletedIsChecked'
      BY <1>3, <2>1 DEF SweepInv, SweepRow, SweepProgressExact, CompletedIsChecked
    <2>3. ASSUME NEW x \in Sweepers PROVE SheetHolds(sweeper'[x]) /\ KnowsTheSaved(x, sweeper[x])'
      <3>1. CASE x = e
        BY <1>0, <1>1, <1>3, <2>1, <3>1 DEF KnowsTheSaved
      <3>2. CASE x # e
        BY <1>1, <1>3, <2>1, <3>2, SweepAssumption DEF SweepInv, KnowsTheSaved, Fence
      <3> QED BY <3>1, <3>2
    <2> QED BY <1>1, <1>3, <2>1, <2>2, <2>3 DEF SweepInv
  <1>4. ASSUME SweepInv, CancelBySql PROVE SweepInv'
    <2>1. runState' = "cancelled" /\ UNCHANGED <<sweepHolder, verifyDone, savedCells, sweeper>>
          /\ runState = "running"
      BY <1>4 DEF CancelBySql
    <2>2. SweepRow' /\ SweepProgressExact' /\ CompletedIsChecked'
      BY <1>4, <2>1 DEF SweepInv, SweepRow, SweepProgressExact, CompletedIsChecked
    <2>3. \A x \in Sweepers : SheetHolds(sweeper'[x]) /\ KnowsTheSaved(x, sweeper[x])'
      BY <1>4, <2>1 DEF SweepInv, KnowsTheSaved, Fence
    <2> QED BY <1>4, <2>1, <2>2, <2>3 DEF SweepInv
  <1> QED BY <1>2, <1>3, <1>4

\* Every step of the sweep, and every step elsewhere.
LEMMA SweepGoesOn == SweepInv /\ (SweepNext \/ UNCHANGED sweepVars) => SweepInv'
  <1>1. SweepInv /\ UNCHANGED sweepVars => SweepInv'
    BY DEF sweepVars, SweepInv, SweepRow, SweepProgressExact, CompletedIsChecked, KnowsTheSaved, Fence
  <1>2. SweepInv /\ SweepNext => SweepInv'
    BY ClaimKeeps, ChecksKeep, EndsOfSweep DEF SweepNext, SweepStep
  <1> QED BY <1>1, <1>2

\* What the sweep promises.
LEMMA SweepAgrees ==
    SweepInv => SweepTypeOK /\ SweepProgressExact /\ CompletedIsChecked /\ SavedNotAsked
  <1> SUFFICES ASSUME SweepInv PROVE SweepTypeOK /\ SavedNotAsked
    BY DEF SweepInv
  <1>1. SweepTypeOK
    BY DEF SweepInv, SweepRow, SweepTypeOK, SheetHolds
  <1>2. SavedNotAsked
    <2> SUFFICES ASSUME NEW c \in savedCells, NEW e \in Sweepers, sweepHolder = e
                 PROVE  c \notin sweeper[e].todo \cup (sweeper[e].asking \ sweeper[e].answered)
      BY DEF SavedNotAsked
    <2>1. SheetHolds(sweeper[e]) /\ KnowsTheSaved(e, sweeper[e])
      BY DEF SweepInv
    <2> QED BY <2>1 DEF SheetHolds, KnowsTheSaved
  <1> QED BY <1>1, <1>2

\* Once it has ended, no write of a sweep passes the fence.
LEMMA EndedStays ==
    ASSUME SweepNext, runState # "running" PROVE UNCHANGED <<runState, savedCells, verifyDone>>
  <1>1. \A e \in Sweepers : \A s, rows, done : Write(e, s, rows, done) => UNCHANGED <<verifyDone, savedCells>>
    BY DEF Write, Fence
  <1>2. ~CancelBySql
    BY DEF CancelBySql
  <1>3. \A e \in Sweepers : ClaimSweep(e) \/ SweeperDies(e) \/ ReadRows(e)
                            => UNCHANGED <<runState, savedCells, verifyDone>>
    BY DEF ClaimSweep, SweeperDies, ReadRows
  <1>4. \A e \in Sweepers : StartWriter(e) \/ SweepDone(e) => UNCHANGED <<runState, savedCells, verifyDone>>
    BY <1>1 DEF StartWriter, SweepDone, Flush
  <1>5. \A e \in Sweepers : CommitCompletion(e) => UNCHANGED <<runState, savedCells, verifyDone>>
    BY DEF CommitCompletion, MayFlip
  <1>6. \A e \in Sweepers, c \in Cells :
            AskCell(e, c) \/ CellChecked(e, c) => UNCHANGED <<runState, savedCells, verifyDone>>
    BY <1>1 DEF AskCell, CellChecked, Flush
  <1> QED BY <1>2, <1>3, <1>4, <1>5, <1>6 DEF SweepNext, SweepStep

-----------------------------------------------------------------------------
(* The recorded searches *)

SearchRows ==
    [age : Nat, of : SearchIds \cup {NoRow}, raw : BOOLEAN, trips : BOOLEAN, execution : BOOLEAN]

\* Ids are given in order; an open replay has an id of its own, still without a row, and the
\* search it repeats is there.
LedgerInv ==
    /\ nextId \in 1..(1 + Cardinality(SearchIds))
    /\ ledger \in [SearchIds -> SearchRows \cup {NoRow}]
    /\ \A i \in SearchIds : i >= nextId => ledger[i] = NoRow
    /\ \A i \in Rows : ledger[i].trips => ledger[i].execution
    /\ ReplayHasOriginal
    /\ DOMAIN batch = {"pc", "queue", "row"} /\ (batch.pc = "asking" => batch.row # NoRow)
    /\ batch.row # NoRow =>
        /\ batch.row.id \in SearchIds /\ batch.row.id < nextId /\ ledger[batch.row.id] = NoRow
        /\ batch.row.of \in Rows

\* The ids are numbers from 1 on, and no row is none of them.
LEMMA IdsAreNumbers ==
    /\ Cardinality(SearchIds) \in Nat /\ SearchIds = 1..Cardinality(SearchIds) /\ NoRow \notin SearchRows
    /\ \A i, j \in SearchIds : [id |-> i, of |-> j] # NoRow
  <1>1. Cardinality(SearchIds) \in Nat /\ SearchIds = 1..Cardinality(SearchIds)
    BY LedgerAssumption, FS_CardinalityType
  <1>2. NoRow \notin SearchRows /\ NoRow \notin [id : SearchIds, of : SearchIds]
    BY LedgerAssumption DEF SearchRows
  <1> QED BY <1>1, <1>2

\* A row that is written: of the search it repeats, if it repeats one.
LEMMA RowIsARow ==
    ASSUME NEW o \in SearchIds \cup {NoRow}, NEW b \in BOOLEAN
    PROVE  /\ Row(o, b) \in SearchRows /\ Row(o, b).of = o /\ Row(o, b) # NoRow
           /\ Row(o, b).trips /\ Row(o, b).execution
  <1>1. Row(o, b) \in SearchRows
    BY DEF Row, SearchRows
  <1>2. Row(o, b).of = o /\ Row(o, b).trips /\ Row(o, b).execution
    BY DEF Row
  <1> QED BY <1>1, <1>2, IdsAreNumbers

\* The ledger starts empty.
LEMMA LedgerStart == LedgerInit => LedgerInv
  <1> SUFFICES ASSUME LedgerInit PROVE LedgerInv
    OBVIOUS
  <1>1. ledger = [i \in SearchIds |-> NoRow] /\ nextId = 1 /\ batch = Idle
    BY DEF LedgerInit
  <1>2. Rows = {} /\ nextId \in 1..(1 + Cardinality(SearchIds))
    BY <1>1, IdsAreNumbers DEF Rows
  <1>3. DOMAIN batch = {"pc", "queue", "row"} /\ batch.pc # "asking" /\ batch.row = NoRow
    BY <1>1 DEF Idle
  <1> QED BY <1>1, <1>2, <1>3 DEF LedgerInv, ReplayHasOriginal

\* A search or a replay gets its row, under an id without one.
LEMMA RowIsAdded ==
    ASSUME LedgerInv, NEW i \in SearchIds, ledger[i] = NoRow, NEW o \in Rows \cup {NoRow},
           NEW b \in BOOLEAN, ledger' = [ledger EXCEPT ![i] = Row(o, b)], nextId' \in 1..(1 + Cardinality(SearchIds)),
           i < nextId', nextId <= nextId',
           DOMAIN batch' = {"pc", "queue", "row"}, batch'.pc # "asking" \/ batch' = batch,
           batch'.row = NoRow \/ (batch' = batch /\ (batch.row # NoRow => batch.row.id # i))
    PROVE  LedgerInv'
  <1>0. o \in SearchIds \cup {NoRow}
    BY DEF Rows
  <1>1. /\ Row(o, b) \in SearchRows /\ Row(o, b).of = o /\ Row(o, b) # NoRow
        /\ Row(o, b).trips /\ Row(o, b).execution
    BY <1>0, RowIsARow
  <1>2. ledger' \in [SearchIds -> SearchRows \cup {NoRow}] /\ ledger'[i] = Row(o, b)
        /\ \A k \in SearchIds \ {i} : ledger'[k] = ledger[k]
    BY <1>1 DEF LedgerInv
  <1>3. Rows' = Rows \cup {i} /\ i \notin Rows
    BY <1>1, <1>2 DEF Rows
  <1>4. \A k \in SearchIds : k >= nextId' => ledger'[k] = NoRow
    BY <1>2, IdsAreNumbers DEF LedgerInv
  <1>5. \A k \in Rows' : ledger'[k].trips => ledger'[k].execution
    BY <1>1, <1>2, <1>3 DEF LedgerInv, Rows
  <1>6. ReplayHasOriginal'
    BY <1>1, <1>2, <1>3 DEF LedgerInv, ReplayHasOriginal, Rows
  <1>7. batch'.pc = "asking" => batch'.row # NoRow
    BY DEF LedgerInv
  <1>8. batch'.row # NoRow =>
            /\ batch'.row.id \in SearchIds /\ batch'.row.id < nextId' /\ ledger'[batch'.row.id] = NoRow
            /\ batch'.row.of \in Rows'
    <2> SUFFICES ASSUME batch'.row # NoRow
                 PROVE  /\ batch'.row.id \in SearchIds /\ batch'.row.id < nextId'
                        /\ ledger'[batch'.row.id] = NoRow /\ batch'.row.of \in Rows'
      OBVIOUS
    <2>1. batch' = batch /\ batch.row # NoRow /\ batch.row.id # i
      OBVIOUS
    <2>2. /\ batch.row.id \in SearchIds /\ batch.row.id < nextId /\ ledger[batch.row.id] = NoRow
          /\ batch.row.of \in Rows
      BY <2>1 DEF LedgerInv
    <2>3. nextId \in Nat /\ nextId' \in Nat /\ batch.row.id \in Nat
      BY <2>2, IdsAreNumbers DEF LedgerInv
    <2> QED BY <1>2, <1>3, <2>1, <2>2, <2>3
  <1> QED BY <1>2, <1>4, <1>5, <1>6, <1>7, <1>8 DEF LedgerInv

\* The pass and the passing of a day: rows go or keep what they repeat; none goes that
\* another row, or the open replay, repeats.
LEMMA RowsThin ==
    ASSUME LedgerInv, NEW gone, \A i \in Rows \ gone : ledger[i].of \notin gone,
           batch.row # NoRow => batch.row.of \notin gone,
           ledger' \in [SearchIds -> SearchRows \cup {NoRow}], UNCHANGED <<nextId, batch>>,
           \A i \in SearchIds : ledger'[i] = NoRow <=> ledger[i] = NoRow \/ i \in gone,
           \A i \in Rows \ gone : /\ ledger'[i].of = ledger[i].of
                                  /\ ledger'[i].trips => ledger'[i].execution
    PROVE  LedgerInv'
  <1>1. Rows' = Rows \ gone
    BY DEF Rows
  <1>2. ReplayHasOriginal'
    BY <1>1 DEF LedgerInv, ReplayHasOriginal
  <1>3. \A i \in SearchIds : i >= nextId' => ledger'[i] = NoRow
    BY DEF LedgerInv
  <1>4. \A i \in Rows' : ledger'[i].trips => ledger'[i].execution
    BY <1>1
  <1>5. batch'.row # NoRow =>
            /\ batch'.row.id \in SearchIds /\ batch'.row.id < nextId' /\ ledger'[batch'.row.id] = NoRow
            /\ batch'.row.of \in Rows'
    BY <1>1 DEF LedgerInv
  <1> QED BY <1>2, <1>3, <1>4, <1>5 DEF LedgerInv

\* A day makes rows older, a search is recorded, a pass thins the rows out.
LEMMA DaysKeep == LedgerInv /\ (DayPasses \/ RecordSearch \/ Prune) => LedgerInv'
  <1>1. ASSUME LedgerInv, DayPasses PROVE LedgerInv'
    <2>1. /\ ledger' = [i \in SearchIds |-> IF ledger[i] = NoRow THEN NoRow
                         ELSE [ledger[i] EXCEPT !.age = IF @ < Oldest THEN @ + 1 ELSE @]]
          /\ UNCHANGED <<nextId, batch>>
      BY <1>1 DEF DayPasses
    <2>2. \A i \in Rows : ledger[i] \in SearchRows /\ ledger'[i] \in SearchRows
                          /\ ledger'[i] = [ledger[i] EXCEPT !.age = IF @ < Oldest THEN @ + 1 ELSE @]
      BY <1>1, <2>1 DEF LedgerInv, Rows, SearchRows
    <2>3. \A i \in Rows : /\ ledger'[i].of = ledger[i].of /\ ledger'[i].trips = ledger[i].trips
                          /\ ledger'[i].execution = ledger[i].execution
      BY <2>2 DEF SearchRows
    <2>4. \A i \in SearchIds : ledger'[i] = NoRow <=> ledger[i] = NoRow
      BY <2>1, <2>2, IdsAreNumbers DEF Rows
    <2>5. ledger' \in [SearchIds -> SearchRows \cup {NoRow}]
      BY <2>1, <2>2, <2>4 DEF Rows
    <2>6. \A i \in Rows : ledger[i].trips => ledger[i].execution
      BY <1>1 DEF LedgerInv
    <2> DEFINE gone == {}
    <2>7. /\ \A i \in Rows \ gone : ledger[i].of \notin gone
          /\ batch.row # NoRow => batch.row.of \notin gone
          /\ \A i \in SearchIds : ledger'[i] = NoRow <=> ledger[i] = NoRow \/ i \in gone
          /\ \A i \in Rows \ gone : ledger'[i].of = ledger[i].of /\ (ledger'[i].trips => ledger'[i].execution)
      BY <2>3, <2>4, <2>6
    <2> HIDE DEF gone
    <2> QED BY <1>1, <2>1, <2>5, <2>7, RowsThin
  <1>2. ASSUME LedgerInv, RecordSearch PROVE LedgerInv'
    <2>1. /\ nextId \in SearchIds /\ ledger' = [ledger EXCEPT ![nextId] = Row(NoRow, TRUE)]
          /\ nextId' = nextId + 1 /\ batch' = batch
      BY <1>2 DEF RecordSearch
    <2>2. ledger[nextId] = NoRow /\ nextId' \in 1..(1 + Cardinality(SearchIds)) /\ nextId < nextId'
      BY <1>2, <2>1, IdsAreNumbers DEF LedgerInv
    <2>3. batch.row # NoRow => batch.row.id # nextId
      BY <1>2, <2>1, IdsAreNumbers DEF LedgerInv
    <2>4. DOMAIN batch' = {"pc", "queue", "row"} /\ nextId <= nextId'
      BY <1>2, <2>1, IdsAreNumbers DEF LedgerInv
    <2> QED BY <1>2, <2>1, <2>2, <2>3, <2>4, RowIsAdded
  <1>3. ASSUME LedgerInv, Prune PROVE LedgerInv'
    <2>1. CASE Refused(Expired)
      <3>1. UNCHANGED <<ledger, nextId, batch>>
        BY <1>3, <2>1 DEF Prune
      <3> QED BY <1>3, <3>1 DEF LedgerInv, Rows, ReplayHasOriginal
    <2>2. CASE ~Refused(Expired)
      <3>1. /\ ledger' = [i \in SearchIds |->
                            IF ledger[i] = NoRow \/ i \in Expired THEN NoRow ELSE Shed(ledger[i])]
            /\ UNCHANGED <<nextId, batch>>
        BY <1>3, <2>2 DEF Prune
      <3>2. /\ \A i \in Rows \ Expired : ledger[i].of \notin Expired
            /\ batch.row # NoRow => batch.row.of \notin Expired
        BY <1>3, <2>2 DEF Prune, Refused
      <3>3. ASSUME NEW row \in SearchRows, row.trips => row.execution
            PROVE  /\ Shed(row) \in SearchRows /\ Shed(row).of = row.of
                   /\ Shed(row).trips => Shed(row).execution
        BY <3>3 DEF Shed, SearchRows
      <3>4. \A i \in Rows : ledger[i] \in SearchRows /\ (ledger[i].trips => ledger[i].execution)
        BY <1>3 DEF LedgerInv, Rows
      <3>5. \A i \in Rows \ Expired : ledger'[i] = Shed(ledger[i])
        BY <3>1 DEF Rows
      <3>6. \A i \in Rows \ Expired : /\ ledger'[i] \in SearchRows /\ ledger'[i].of = ledger[i].of
                                      /\ ledger'[i].trips => ledger'[i].execution
        BY <3>3, <3>4, <3>5
      <3>7. \A i \in SearchIds : ledger'[i] = NoRow <=> ledger[i] = NoRow \/ i \in Expired
        BY <3>1, <3>6, IdsAreNumbers DEF Rows
      <3>8. ledger' \in [SearchIds -> SearchRows \cup {NoRow}]
        BY <3>1, <3>6 DEF Rows
      <3> DEFINE gone == Expired
      <3>9. /\ \A i \in Rows \ gone : ledger[i].of \notin gone
            /\ batch.row # NoRow => batch.row.of \notin gone
            /\ \A i \in SearchIds : ledger'[i] = NoRow <=> ledger[i] = NoRow \/ i \in gone
            /\ \A i \in Rows \ gone : ledger'[i].of = ledger[i].of /\ (ledger'[i].trips => ledger'[i].execution)
        BY <3>2, <3>6, <3>7
      <3> HIDE DEF gone
      <3> QED BY <1>3, <3>1, <3>8, <3>9, RowsThin
    <2> QED BY <2>1, <2>2
  <1> QED BY <1>1, <1>2, <1>3

\* A batch is queued, flushes the row of a replay, commits it or gives it up, and ends.
LEMMA ReplaysKeep ==
    LedgerInv /\ (StartReplay \/ BeginReplay \/ CommitReplay \/ CommitReplayFails \/ EndReplay) => LedgerInv'
  <1>0. ASSUME LedgerInv, UNCHANGED <<ledger, nextId>>, DOMAIN batch' = {"pc", "queue", "row"},
               batch'.pc # "asking", batch'.row = NoRow
        PROVE  LedgerInv'
    BY <1>0 DEF LedgerInv, Rows, ReplayHasOriginal
  <1>1. ASSUME LedgerInv, StartReplay PROVE LedgerInv'
    BY <1>0, <1>1 DEF StartReplay
  <1>2. ASSUME LedgerInv, BeginReplay PROVE LedgerInv'
    <2> DEFINE original == Head(batch.queue)
    <2>1. nextId \in SearchIds /\ UNCHANGED ledger
      BY <1>2 DEF BeginReplay
    <2>2. CASE original \in Rows
      <3> DEFINE row == [id |-> nextId, of |-> original]
      <3>1. /\ batch' = [pc |-> "asking", queue |-> Tail(batch.queue), row |-> row]
            /\ nextId' = nextId + 1
        BY <1>2, <2>2 DEF BeginReplay
      <3>2. /\ DOMAIN batch' = {"pc", "queue", "row"} /\ batch'.row = row /\ row.id = nextId
            /\ row.of \in Rows
        BY <2>2, <3>1
      <3>3. row # NoRow
        BY <2>1, <2>2, IdsAreNumbers DEF Rows
      <3> HIDE DEF row, original
      <3>4. nextId' \in 1..(1 + Cardinality(SearchIds)) /\ nextId < nextId' /\ ledger[nextId] = NoRow
        BY <1>2, <2>1, <3>1, IdsAreNumbers DEF LedgerInv
      <3>5. \A i \in SearchIds : i >= nextId' => ledger[i] = NoRow
        BY <1>2, <3>1, IdsAreNumbers DEF LedgerInv
      <3> QED BY <1>2, <2>1, <3>2, <3>3, <3>4, <3>5 DEF LedgerInv, Rows, ReplayHasOriginal
    <2>3. CASE original \notin Rows
      <3>1. batch' = [pc |-> "broken", queue |-> Tail(batch.queue), row |-> NoRow] /\ UNCHANGED nextId
        BY <1>2, <2>3 DEF BeginReplay
      <3> QED BY <1>0, <1>2, <2>1, <3>1
    <2> QED BY <2>2, <2>3
  <1>3. ASSUME LedgerInv, CommitReplay PROVE LedgerInv'
    <2> DEFINE i == batch.row.id
               o == batch.row.of
    <2>1. batch.row # NoRow
      BY <1>3 DEF CommitReplay, LedgerInv
    <2>2. /\ i \in SearchIds /\ ledger[i] = NoRow /\ o \in Rows /\ i < nextId
          /\ nextId \in 1..(1 + Cardinality(SearchIds))
      BY <1>3, <2>1 DEF LedgerInv
    <2>3. /\ ledger' = [ledger EXCEPT ![i] = Row(o, FALSE)] /\ nextId' = nextId
          /\ batch' = [batch EXCEPT !.pc = "next", !.row = NoRow]
      BY <1>3 DEF CommitReplay
    <2>4. DOMAIN batch' = {"pc", "queue", "row"} /\ batch'.pc # "asking" /\ batch'.row = NoRow
      BY <1>3, <2>3 DEF LedgerInv
    <2>5. o \in Rows \cup {NoRow} /\ nextId' \in 1..(1 + Cardinality(SearchIds)) /\ i < nextId'
          /\ nextId <= nextId'
      BY <2>2, <2>3, IdsAreNumbers
    <2> HIDE DEF i, o
    <2> QED BY <1>3, <2>2, <2>3, <2>4, <2>5, RowIsAdded
  <1>4. ASSUME LedgerInv, CommitReplayFails PROVE LedgerInv'
    <2>1. UNCHANGED <<ledger, nextId>> /\ batch' = [batch EXCEPT !.pc = "next", !.row = NoRow]
      BY <1>4 DEF CommitReplayFails
    <2>2. DOMAIN batch' = {"pc", "queue", "row"} /\ batch'.pc # "asking" /\ batch'.row = NoRow
      BY <1>4, <2>1 DEF LedgerInv
    <2> QED BY <1>0, <1>4, <2>1, <2>2
  <1>5. ASSUME LedgerInv, EndReplay PROVE LedgerInv'
    BY <1>0, <1>5 DEF EndReplay, Idle
  <1> QED BY <1>1, <1>2, <1>3, <1>4, <1>5

\* Every step of the ledger, and every step elsewhere.
LEMMA LedgerGoesOn == LedgerInv /\ (LedgerNext \/ UNCHANGED ledgerVars) => LedgerInv'
  <1>1. LedgerInv /\ UNCHANGED ledgerVars => LedgerInv'
    BY DEF ledgerVars, LedgerInv, Rows, ReplayHasOriginal
  <1> QED BY <1>1, DaysKeep, ReplaysKeep DEF LedgerNext

\* What the ledger promises.
LEMMA LedgerAgrees == LedgerInv => LedgerTypeOK /\ ReplayHasOriginal
  BY IdsAreNumbers DEF LedgerInv, LedgerTypeOK

\* The shorter of two tiers.
LEMMA ShorterTier ==
    \A m, n \in Nat : Min({m, n}) <= m /\ Min({m, n}) <= n /\ Min({m, n}) \in {m, n}
  <1> TAKE m, n \in Nat
  <1>1. \E x \in {m, n} : \A y \in {m, n} : x <= y
    OBVIOUS
  <1>2. Min({m, n}) \in {m, n} /\ \A y \in {m, n} : Min({m, n}) <= y
    BY <1>1 DEF Min
  <1> QED BY <1>2

\* What one step sheds is older than its tier allows.
LEMMA ShedIsOld ==
    ASSUME LedgerInv, LedgerNext, NEW i \in Rows
    PROVE  /\ ledger'[i] = NoRow => ledger[i].age > SearchDays
           /\ ledger'[i] # NoRow =>
                /\ (ledger[i].raw /\ ~ledger'[i].raw) => ledger[i].age > Min({RawDays, TripDays})
                /\ (ledger[i].trips /\ ~ledger'[i].trips) => ledger[i].age > TripDays
  <1>0. i \in SearchIds /\ ledger[i] \in SearchRows /\ ledger[i] # NoRow
    BY DEF Rows, LedgerInv
  <1>1. CASE ledger'[i] = ledger[i]
    BY <1>0, <1>1
  <1>2. CASE DayPasses
    <2>1. ledger'[i] = [ledger[i] EXCEPT !.age = IF @ < Oldest THEN @ + 1 ELSE @]
      BY <1>0, <1>2 DEF DayPasses
    <2>2. ledger'[i] \in SearchRows /\ ledger'[i].raw = ledger[i].raw /\ ledger'[i].trips = ledger[i].trips
      BY <1>0, <2>1 DEF SearchRows
    <2> QED BY <2>2, IdsAreNumbers
  <1>3. CASE RecordSearch
    <2>1. i # nextId /\ ledger' = [ledger EXCEPT ![nextId] = Row(NoRow, TRUE)]
      BY <1>0, <1>3, IdsAreNumbers DEF RecordSearch, LedgerInv
    <2> QED BY <1>0, <1>1, <2>1 DEF LedgerInv
  <1>4. CASE CommitReplay
    <2>1. i # batch.row.id /\ ledger' = [ledger EXCEPT ![batch.row.id] = Row(batch.row.of, FALSE)]
      BY <1>0, <1>4 DEF CommitReplay, LedgerInv
    <2> QED BY <1>0, <1>1, <2>1 DEF LedgerInv
  <1>5. CASE Prune /\ ledger' # ledger
    <2>1. ledger'[i] = IF i \in Expired THEN NoRow ELSE Shed(ledger[i])
      BY <1>0, <1>5 DEF Prune
    <2>2. ledger[i].age \in Nat /\ ledger[i].raw \in BOOLEAN /\ ledger[i].trips \in BOOLEAN
      BY <1>0 DEF SearchRows
    <2>3. CASE i \in Expired
      <3>1. ledger'[i] = NoRow
        BY <2>1, <2>3
      <3>2. ledger[i].age > SearchDays
        BY <2>3 DEF Expired
      <3> QED BY <3>1, <3>2
    <2>4. CASE i \notin Expired
      <3>1. ledger'[i] = Shed(ledger[i])
        BY <2>1, <2>4
      <3>2. /\ ledger'[i] \in SearchRows
            /\ ledger'[i].trips = (ledger[i].trips /\ ledger[i].age <= TripDays)
            /\ ledger'[i].raw = (ledger[i].raw /\ ledger[i].age <= RawDays /\ ledger[i].age <= TripDays)
        BY <1>0, <3>1 DEF Shed, SearchRows
      <3>3. ledger'[i] # NoRow
        BY <3>2, IdsAreNumbers
      <3>4. RawDays \in Nat /\ TripDays \in Nat
        BY LedgerAssumption
      <3>8. /\ ledger[i].age > TripDays <=> ~(ledger[i].age <= TripDays)
            /\ ledger[i].age > RawDays <=> ~(ledger[i].age <= RawDays)
        BY <2>2, <3>4
      <3>5. (ledger[i].trips /\ ~ledger'[i].trips) => ledger[i].age > TripDays
        BY ONLY <3>2, <3>8, Zenon
      <3>6. (ledger[i].raw /\ ~ledger'[i].raw) => ledger[i].age > RawDays \/ ledger[i].age > TripDays
        BY ONLY <3>2, <3>8, Zenon
      <3> HIDE DEF Min
      <3>7. (ledger[i].raw /\ ~ledger'[i].raw) => ledger[i].age > Min({RawDays, TripDays})
        BY <2>2, <3>4, <3>6, ShorterTier
      <3> QED BY <3>3, <3>5, <3>7
    <2> QED BY <2>3, <2>4
  <1>6. CASE StartReplay \/ BeginReplay \/ CommitReplayFails \/ EndReplay \/ (Prune /\ ledger' = ledger)
    BY <1>1, <1>6 DEF StartReplay, BeginReplay, CommitReplayFails, EndReplay
  <1> QED BY <1>2, <1>3, <1>4, <1>5, <1>6 DEF LedgerNext

-----------------------------------------------------------------------------
(* The pairs of a coverage run *)

\* A query's record, its attempts within the retries, and how a failure is reached: every
\* slot refused the connection, or none answered.
QueryHolds(q) ==
    LET in(state) == {k \in SlotNames : q.slot[k].state = state} IN
    /\ DOMAIN q = {"pc", "attempt", "slot", "trips", "status"} /\ DOMAIN q.slot = SlotNames
    /\ \A k \in SlotNames : DOMAIN q.slot[k] = {"state", "trips"}
    /\ q.pc \in {"slots", "backoff", "over"} /\ q.attempt \in 1..(MaxRetries + 1)
    /\ Cardinality(in("asking")) <= WithinPair
    /\ q.pc = "backoff" => q.attempt <= MaxRetries /\ in("connect") = SlotNames
    /\ q.pc = "over" /\ q.status \notin {"ok", "no_route"} => in("answered") = {}
PairInv == DOMAIN query = PairSessions /\ \A s \in PairSessions : QueryHolds(query[s])

\* The slots are a finite set of positive numbers.
LEMMA SlotsAreNumbers ==
    /\ IsFiniteSet(SlotNames) /\ SlotNames \subseteq Nat /\ Cardinality(SlotNames) \in Nat
    /\ \A S \in SUBSET SlotNames : IsFiniteSet(S) /\ Cardinality(S) \in Nat
  BY PairAssumption, FS_CardinalityType, FS_Subset

\* A set of numbers has a smallest.
LEMMA SmallestOf ==
    ASSUME NEW S \in SUBSET Nat, S # {}
    PROVE  Min(S) \in S /\ \A y \in S : Min(S) <= y
  <1>1. PICK x \in S : \A y \in S : ~(<<y, x>> \in OpToRel(<, Nat))
    BY NatLessThanWellFounded, WFMin
  <1>2. \A y \in S : ~(y < x)
    BY <1>1, Zenon DEF OpToRel
  <1>3. \A y \in S : x <= y
    BY <1>2
  <1> QED BY <1>3 DEF Min

\* An attempt starts with every slot waiting.
LEMMA FreshHolds == \A n \in 1..(MaxRetries + 1) : QueryHolds(Fresh(n))
  <1> TAKE n \in 1..(MaxRetries + 1)
  <1> DEFINE q == Fresh(n)
  <1>1. /\ DOMAIN q = {"pc", "attempt", "slot", "trips", "status"} /\ q.pc = "slots" /\ q.attempt = n
        /\ q.slot = [k \in SlotNames |-> NoAnswer]
    BY DEF Fresh
  <1>2. NoAnswer.state = "waiting" /\ DOMAIN NoAnswer = {"state", "trips"}
    BY DEF NoAnswer
  <1> HIDE DEF q
  <1>3. {k \in SlotNames : q.slot[k].state = "asking"} = {}
    BY <1>1, <1>2
  <1>4. Cardinality({k \in SlotNames : q.slot[k].state = "asking"}) <= WithinPair
    <2>1. Cardinality({}) = 0 /\ 0 <= WithinPair
      BY FS_EmptySet, PairAssumption
    <2> QED BY <1>3, <2>1
  <1>5. QueryHolds(q)
    BY <1>1, <1>2, <1>4 DEF QueryHolds
  <1> QED BY <1>5 DEF q

\* A step of one query: only its own record is to account for.
LEMMA QueryMoves ==
    ASSUME PairInv, NEW s \in PairSessions, NEW q, QueryHolds(q), query' = [query EXCEPT ![s] = q]
    PROVE  PairInv' /\ query'[s] = q /\ \A x \in PairSessions \ {s} : query'[x] = query[x]
  BY DEF PairInv

\* A slot of a query that still asks changes: at most as many are asked as before, or there is room.
LEMMA SlotMoves ==
    ASSUME PairInv, NEW s \in PairSessions, query[s].pc = "slots", NEW k \in SlotNames, NEW r,
           DOMAIN r = {"state", "trips"}, query' = [query EXCEPT ![s].slot[k] = r],
           r.state # "asking" \/ Cardinality(SlotsIn(s, "asking")) < WithinPair
    PROVE  /\ PairInv' /\ query'[s].attempt = query[s].attempt
           /\ \A x \in PairSessions \ {s} : query'[x] = query[x]
  <1> DEFINE p == query[s]
             slots == [p.slot EXCEPT ![k] = r]
             q == [p EXCEPT !.slot = slots]
             before == {i \in SlotNames : p.slot[i].state = "asking"}
             after == {i \in SlotNames : q.slot[i].state = "asking"}
  <1>1. QueryHolds(p) /\ p.pc = "slots" /\ before = SlotsIn(s, "asking")
    BY DEF PairInv, SlotsIn
  <1>2. /\ DOMAIN p = {"pc", "attempt", "slot", "trips", "status"} /\ DOMAIN p.slot = SlotNames
        /\ \A i \in SlotNames : DOMAIN p.slot[i] = {"state", "trips"}
        /\ p.attempt \in 1..(MaxRetries + 1) /\ Cardinality(before) <= WithinPair
    BY <1>1 DEF QueryHolds
  <1>3. query' = [query EXCEPT ![s] = q]
    BY <1>2 DEF PairInv
  <1>4. /\ DOMAIN q = {"pc", "attempt", "slot", "trips", "status"} /\ q.slot = slots /\ q.pc = "slots"
        /\ q.attempt = p.attempt
    BY <1>1, <1>2
  <1>5. DOMAIN slots = SlotNames /\ slots[k] = r /\ \A i \in SlotNames \ {k} : slots[i] = p.slot[i]
    BY <1>2
  <1> HIDE DEF p, q, slots
  <1>6. after \subseteq before \cup {k} /\ (r.state # "asking" => after \subseteq before)
    BY <1>4, <1>5
  <1>7. before \in SUBSET SlotNames /\ after \in SUBSET SlotNames
    OBVIOUS
  <1>8. Cardinality(after) <= WithinPair
    <2>1. IsFiniteSet(before) /\ Cardinality(before) \in Nat /\ Cardinality(after) \in Nat
      BY <1>7, SlotsAreNumbers
    <2> HIDE DEF before, after
    <2>2. CASE r.state # "asking"
      <3>1. Cardinality(after) <= Cardinality(before)
        BY <1>6, <2>1, <2>2, FS_Subset
      <3> QED BY <1>2, <2>1, <3>1, PairAssumption
    <2>3. CASE r.state = "asking"
      <3>1. IsFiniteSet(before \cup {k}) /\ Cardinality(before \cup {k}) <= Cardinality(before) + 1
        <4>1. /\ IsFiniteSet(before \cup {k})
              /\ Cardinality(before \cup {k}) = (IF k \in before THEN Cardinality(before) ELSE Cardinality(before) + 1)
          BY <2>1, FS_AddElement
        <4> QED BY ONLY <2>1, <4>1
      <3>2. Cardinality(after) <= Cardinality(before \cup {k}) /\ Cardinality(before \cup {k}) \in Nat
        BY <1>6, <3>1, FS_Subset, FS_CardinalityType
      <3>3. Cardinality(before) < WithinPair
        BY <1>1, <2>3
      <3> QED BY <2>1, <3>1, <3>2, <3>3, PairAssumption
    <2> QED BY <2>2, <2>3
  <1>9. QueryHolds(q)
    BY <1>2, <1>4, <1>5, <1>8 DEF QueryHolds
  <1>10. PairInv' /\ query'[s] = q /\ \A x \in PairSessions \ {s} : query'[x] = query[x]
    BY <1>3, <1>9, QueryMoves
  <1> QED BY <1>4, <1>10 DEF p

\* A slot is asked, answers or fails.
LEMMA SlotsGoOn ==
    \A s \in PairSessions, k \in SlotNames :
        PairInv /\ \/ AskSlot(s, k)
                   \/ \E a \in AnswerSets : SlotAnswers(s, k, a)
                   \/ \E how \in {"connect", "timeout", "error"} : SlotFails(s, k, how)
        => /\ PairInv' /\ \A x \in PairSessions : query'[x].attempt = query[x].attempt
  <1> SUFFICES ASSUME PairInv, NEW s \in PairSessions, NEW k \in SlotNames,
                      \/ AskSlot(s, k)
                      \/ \E a \in AnswerSets : SlotAnswers(s, k, a)
                      \/ \E how \in {"connect", "timeout", "error"} : SlotFails(s, k, how)
               PROVE  PairInv' /\ \A x \in PairSessions : query'[x].attempt = query[x].attempt
    OBVIOUS
  <1>1. QueryHolds(query[s]) /\ DOMAIN query = PairSessions
    BY DEF PairInv
  <1>2. DOMAIN query[s] = {"pc", "attempt", "slot", "trips", "status"} /\ DOMAIN query[s].slot = SlotNames
        /\ DOMAIN query[s].slot[k] = {"state", "trips"}
    BY <1>1 DEF QueryHolds
  <1>3. \A x : [query EXCEPT ![s].slot[k].state = x]
                = [query EXCEPT ![s].slot[k] = [query[s].slot[k] EXCEPT !.state = x]]
    BY <1>1, <1>2
  <1>4. \A x : LET r == [query[s].slot[k] EXCEPT !.state = x] IN DOMAIN r = {"state", "trips"} /\ r.state = x
    BY <1>2
  <1>5. CASE AskSlot(s, k)
    <2> DEFINE r == [query[s].slot[k] EXCEPT !.state = "asking"]
    <2>1. /\ query[s].pc = "slots" /\ query' = [query EXCEPT ![s].slot[k] = r]
          /\ Cardinality(SlotsIn(s, "asking")) < WithinPair /\ DOMAIN r = {"state", "trips"}
      BY <1>3, <1>4, <1>5 DEF AskSlot
    <2> HIDE DEF r
    <2> QED BY <2>1, SlotMoves
  <1>6. ASSUME NEW how \in {"connect", "timeout", "error"}, SlotFails(s, k, how)
        PROVE  PairInv' /\ \A x \in PairSessions : query'[x].attempt = query[x].attempt
    <2> DEFINE r == [query[s].slot[k] EXCEPT !.state = how]
    <2>1. /\ query[s].pc = "slots" /\ query' = [query EXCEPT ![s].slot[k] = r]
          /\ DOMAIN r = {"state", "trips"} /\ r.state # "asking"
      BY <1>3, <1>4, <1>6 DEF SlotFails
    <2> HIDE DEF r
    <2> QED BY <2>1, SlotMoves
  <1>7. ASSUME NEW a \in AnswerSets, SlotAnswers(s, k, a)
        PROVE  PairInv' /\ \A x \in PairSessions : query'[x].attempt = query[x].attempt
    <2> DEFINE r == [state |-> "answered", trips |-> a]
    <2>1. /\ query[s].pc = "slots" /\ query' = [query EXCEPT ![s].slot[k] = r]
          /\ DOMAIN r = {"state", "trips"} /\ r.state # "asking"
      BY <1>7 DEF SlotAnswers
    <2> HIDE DEF r
    <2> QED BY <2>1, SlotMoves
  <1> QED BY <1>5, <1>6, <1>7

\* The slots are gathered: an answer, a failure of them all, or a wait after refused connections.
LEMMA GatherKeeps ==
    \A s \in PairSessions : PairInv /\ Gathered(s)
        => PairInv' /\ \A x \in PairSessions : query'[x].attempt = query[x].attempt
  <1> SUFFICES ASSUME PairInv, NEW s \in PairSessions, Gathered(s)
               PROVE  PairInv' /\ \A x \in PairSessions : query'[x].attempt = query[x].attempt
    OBVIOUS
  <1> DEFINE p == query[s]
             how == SlotFailure(p.slot)
             over(status, trips) == [p EXCEPT !.pc = "over", !.status = status, !.trips = trips]
  <1>1. /\ QueryHolds(p) /\ DOMAIN p = {"pc", "attempt", "slot", "trips", "status"}
        /\ DOMAIN p.slot = SlotNames /\ p.attempt \in 1..(MaxRetries + 1)
        /\ Cardinality({k \in SlotNames : p.slot[k].state = "asking"}) <= WithinPair
        /\ \A k \in SlotNames : DOMAIN p.slot[k] = {"state", "trips"}
    BY DEF PairInv, QueryHolds
  <1>2. ASSUME NEW status, NEW trips, status \in {"ok", "no_route"} \/ AllFailed(p.slot)
        PROVE  QueryHolds(over(status, trips)) /\ over(status, trips).attempt = p.attempt
    <2>1. /\ DOMAIN over(status, trips) = {"pc", "attempt", "slot", "trips", "status"}
          /\ over(status, trips).pc = "over" /\ over(status, trips).status = status
          /\ over(status, trips).slot = p.slot /\ over(status, trips).attempt = p.attempt
      BY <1>1
    <2>2. AllFailed(p.slot) => {k \in SlotNames : p.slot[k].state = "answered"} = {}
      BY DEF AllFailed
    <2> HIDE DEF over, p
    <2> QED BY <1>1, <1>2, <2>1, <2>2 DEF QueryHolds
  <1>3. CASE ~AllFailed(p.slot)
    <2> DEFINE status == IF Merged(p.slot) = <<>> THEN "no_route" ELSE "ok"
               q == over(status, Merged(p.slot))
    <2>1. query' = [query EXCEPT ![s] = q]
      BY <1>3 DEF Gathered
    <2>2. status \in {"ok", "no_route"}
      OBVIOUS
    <2> HIDE DEF over, status, p
    <2>3. QueryHolds(q) /\ q.attempt = p.attempt
      BY <1>2, <2>2
    <2> HIDE DEF q
    <2> QED BY <2>1, <2>3, QueryMoves DEF p
  <1>4. CASE AllFailed(p.slot) /\ how = "connect" /\ p.attempt <= MaxRetries /\ ~pairStop
    <2> DEFINE q == [p EXCEPT !.pc = "backoff"]
    <2>1. query' = [query EXCEPT ![s] = q]
      BY <1>4 DEF Gathered
    <2>2. {k \in SlotNames : p.slot[k].state = "connect"} = SlotNames
      <3> DEFINE other == {k \in SlotNames : p.slot[k].state # "connect"}
      <3>1. other # {} => how = p.slot[Min(other)].state
        BY DEF SlotFailure
      <3>2. other # {} => Min(other) \in other
        BY SmallestOf, SlotsAreNumbers
      <3> HIDE DEF p, how, Min
      <3> QED BY <1>4, <3>1, <3>2
    <2>3. /\ DOMAIN q = {"pc", "attempt", "slot", "trips", "status"} /\ q.pc = "backoff"
          /\ q.slot = p.slot /\ q.attempt = p.attempt
      BY <1>1
    <2> HIDE DEF q, p, how
    <2>4. QueryHolds(q)
      BY <1>1, <1>4, <2>2, <2>3 DEF QueryHolds
    <2> QED BY <2>1, <2>3, <2>4, QueryMoves, ZenonT(60) DEF p
  <1>5. CASE AllFailed(p.slot) /\ ~(how = "connect" /\ p.attempt <= MaxRetries /\ ~pairStop)
    <2> DEFINE status == IF how = "connect" THEN "error" ELSE how
               q == over(status, <<>>)
    <2>1. query' = [query EXCEPT ![s] = q]
      BY <1>5 DEF Gathered
    <2>2. QueryHolds(q) /\ q.attempt = p.attempt
      BY <1>2, <1>5
    <2> HIDE DEF q
    <2> QED BY <2>1, <2>2, QueryMoves
  <1> QED BY <1>3, <1>4, <1>5

\* After the wait: another attempt, never once the run is stopped.
LEMMA BackoffKeeps ==
    \A s \in PairSessions : PairInv /\ BackoffEnds(s)
        => PairInv' /\ \A x \in PairSessions : query'[x].attempt # query[x].attempt => ~pairStop
  <1> SUFFICES ASSUME PairInv, NEW s \in PairSessions, BackoffEnds(s)
               PROVE  PairInv' /\ \A x \in PairSessions : query'[x].attempt # query[x].attempt => ~pairStop
    OBVIOUS
  <1> DEFINE p == query[s]
  <1>1. QueryHolds(p) /\ p.pc = "backoff"
    BY DEF PairInv, BackoffEnds
  <1>2. CASE pairStop
    <2> DEFINE q == [p EXCEPT !.pc = "over", !.status = "error"]
    <2>1. query' = [query EXCEPT ![s] = q]
      BY <1>2 DEF BackoffEnds
    <2>2. DOMAIN p = {"pc", "attempt", "slot", "trips", "status"}
      BY <1>1 DEF QueryHolds
    <2>3. /\ DOMAIN q = {"pc", "attempt", "slot", "trips", "status"} /\ q.pc = "over"
          /\ q.slot = p.slot /\ q.attempt = p.attempt
      BY <2>2
    <2> HIDE DEF q, p
    <2>4. QueryHolds(q)
      BY <1>1, <2>3 DEF QueryHolds
    <2> QED BY <2>1, <2>3, <2>4, QueryMoves, ZenonT(60) DEF p
  <1>3. CASE ~pairStop
    <2>1. query' = [query EXCEPT ![s] = Fresh(p.attempt + 1)]
      BY <1>3 DEF BackoffEnds, PairInv
    <2>2. p.attempt + 1 \in 1..(MaxRetries + 1)
      BY <1>1, PairAssumption DEF QueryHolds
    <2>3. QueryHolds(Fresh(p.attempt + 1))
      BY <2>2, FreshHolds
    <2> QED BY <1>3, <2>1, <2>3, QueryMoves
  <1> QED BY <1>2, <1>3

\* Every step of a pair, and every step elsewhere; an attempt begins only before a Stop.
LEMMA PairGoesOn ==
    /\ PairInit => PairInv
    /\ PairInv /\ (PairNext \/ UNCHANGED pairVars) => PairInv'
    /\ PairInv /\ PairNext => \A s \in PairSessions : query'[s].attempt # query[s].attempt => ~pairStop
  <1>1. PairInit => PairInv
    <2>1. 1 \in 1..(MaxRetries + 1)
      BY PairAssumption
    <2> QED BY <2>1, FreshHolds DEF PairInit, PairInv
  <1>2. PairInv /\ query' = query => PairInv'
    BY DEF PairInv
  <1>3. PairInv /\ (PairDone \/ MergeRaises \/ StopPair \/ \E t \in BOOLEAN : WriteFails(t))
            => PairInv' /\ \A s \in PairSessions : query'[s].attempt = query[s].attempt
    BY <1>2 DEF PairDone, MergeRaises, WriteFails, StopPair
  <1>4. PairInv /\ PairStep
            => PairInv' /\ \A s \in PairSessions : query'[s].attempt # query[s].attempt => ~pairStop
    BY <1>3, SlotsGoOn, GatherKeeps, BackoffKeeps DEF PairStep
  <1> QED BY <1>1, <1>2, <1>3, <1>4 DEF PairNext, pairVars

\* The pair ends with its row or without, after as many tries as there are.
LEMMA RowGoesOn ==
    /\ PairInit => RowTypeOK
    /\ RowTypeOK /\ (PairNext \/ UNCHANGED pairVars) => RowTypeOK'
  <1>1. PairInit => RowTypeOK
    BY PairAssumption DEF PairInit, RowTypeOK
  <1>2. RowTypeOK /\ UNCHANGED rowVars => RowTypeOK'
    BY DEF RowTypeOK, rowVars
  <1>3. ASSUME RowTypeOK, PairDone PROVE RowTypeOK'
    <2>1. pairEnd' = "written" /\ UNCHANGED writeTries /\ "status" \in DOMAIN pairResult'
      BY <1>3 DEF PairDone
    <2>2. pairResult' # <<>>
      BY <2>1
    <2> QED BY <1>3, <2>1, <2>2 DEF RowTypeOK
  <1>4. ASSUME RowTypeOK, MergeRaises PROVE RowTypeOK'
    BY <1>4 DEF MergeRaises, Writing, RowTypeOK
  <1>5. ASSUME RowTypeOK, NEW t \in BOOLEAN, WriteFails(t) PROVE RowTypeOK'
    <2>1. /\ pairEnd = "open" /\ UNCHANGED pairResult
          /\ \/ writeTries < WriteRetries /\ writeTries' = writeTries + 1 /\ UNCHANGED pairEnd
             \/ pairEnd' = "left" /\ UNCHANGED writeTries
      BY <1>5, Zenon DEF WriteFails, Writing
    <2> QED BY <1>5, <2>1, PairAssumption DEF RowTypeOK
  <1>6. PairStep => UNCHANGED rowVars \/ PairDone \/ MergeRaises \/ \E t \in BOOLEAN : WriteFails(t)
    BY Zenon DEF PairStep, AskSlot, SlotAnswers, SlotFails, Gathered, BackoffEnds
  <1>7. StopPair \/ UNCHANGED pairVars => UNCHANGED rowVars
    BY DEF StopPair, pairVars
  <1> QED BY <1>1, <1>2, <1>3, <1>4, <1>5, <1>6, <1>7, Zenon DEF PairNext

\* What a pair promises.
LEMMA PairAgrees == PairInv /\ RowTypeOK => PairTypeOK /\ FailsOnlyIfAllFailed
  BY DEF PairInv, QueryHolds, PairTypeOK, FailsOnlyIfAllFailed, SlotsIn

-----------------------------------------------------------------------------
(* What the slots of a pair answer, merged *)

\* A trip is kept unless it boards outside the window or one like it is kept.
Adds(kept, t) ==
    IF t \notin InWindow \/ \E i \in DOMAIN kept : KeyOf[kept[i]] = KeyOf[t]
    THEN kept ELSE Append(kept, t)

\* What is kept of the trips found: those in the window, one of each key.
KeepsOf(kept, found) ==
    /\ kept \in Seq(Trips) /\ Range(kept) \subseteq found \cap InWindow
    /\ \A t \in found \cap InWindow : \E i \in DOMAIN kept : KeyOf[kept[i]] = KeyOf[t]
    /\ \A i, j \in DOMAIN kept : i # j => KeyOf[kept[i]] # KeyOf[kept[j]]

\* Nothing is kept of nothing.
LEMMA KeepsNothing == KeepsOf(<<>>, {})
  <1>1. <<>> \in Seq(Trips) /\ DOMAIN <<>> = {}
    OBVIOUS
  <1>2. Range(<<>>) = {}
    BY <1>1 DEF Range
  <1> QED BY <1>1, <1>2 DEF KeepsOf

LEMMA AddsKeeps ==
    ASSUME NEW kept, NEW found, KeepsOf(kept, found), NEW t \in Trips
    PROVE  KeepsOf(Adds(kept, t), found \cup {t})
  <1>1. /\ kept \in Seq(Trips) /\ Range(kept) \subseteq found \cap InWindow
        /\ \A u \in found \cap InWindow : \E i \in DOMAIN kept : KeyOf[kept[i]] = KeyOf[u]
        /\ \A i, j \in DOMAIN kept : i # j => KeyOf[kept[i]] # KeyOf[kept[j]]
    BY DEF KeepsOf
  <1>2. CASE t \notin InWindow \/ \E i \in DOMAIN kept : KeyOf[kept[i]] = KeyOf[t]
    BY <1>1, <1>2 DEF Adds, KeepsOf
  <1>3. CASE ~(t \notin InWindow \/ \E i \in DOMAIN kept : KeyOf[kept[i]] = KeyOf[t])
    <2> DEFINE r == Append(kept, t)
               n == Len(kept)
    <2>1. n \in Nat /\ DOMAIN kept = 1..n /\ r \in Seq(Trips) /\ DOMAIN r = 1..(n + 1)
          /\ r[n + 1] = t /\ \A i \in 1..n : r[i] = kept[i]
      BY <1>1
    <2>2. Adds(kept, t) = r
      BY <1>3 DEF Adds
    <2> HIDE DEF r, n
    <2>3. DOMAIN r = DOMAIN kept \cup {n + 1} /\ n + 1 \notin DOMAIN kept
      BY <2>1
    <2>4. Range(r) = Range(kept) \cup {t}
      BY <2>1, <2>3 DEF Range
    <2>5. \A u \in (found \cup {t}) \cap InWindow : \E i \in DOMAIN r : KeyOf[r[i]] = KeyOf[u]
      BY <1>1, <2>1, <2>3
    <2>6. \A i, j \in DOMAIN r : i # j => KeyOf[r[i]] # KeyOf[r[j]]
      BY <1>1, <1>3, <2>1, <2>3
    <2> QED BY <1>1, <1>3, <2>1, <2>2, <2>4, <2>5, <2>6 DEF KeepsOf
  <1> QED BY <1>2, <1>3

\* The lists kept after the first trips of an answer, and after the first slots.
Adding(f, N, kept, trips) ==
    f = [n \in 0..N |-> IF n = 0 THEN kept ELSE Adds(f[n - 1], trips[n])]
Merging(f, N, slot) ==
    f = [k \in 0..N |-> IF k = 0 THEN <<>> ELSE Accumulate(f[k - 1], slot[k].trips)]

LEMMA AddingIs == ASSUME NEW N \in Nat, NEW kept, NEW trips PROVE \E f : Adding(f, N, kept, trips)
  <1> DEFINE S == {n \in Nat : ~\E f : Adding(f, n, kept, trips)}
  <1> SUFFICES ASSUME S # {} PROVE FALSE
    OBVIOUS
  <1>1. Min(S) \in S /\ \A n \in S : Min(S) <= n
    <2>1. S \in SUBSET Nat
      OBVIOUS
    <2> HIDE DEF S
    <2> QED BY <2>1, SmallestOf
  <1>2. PICK top \in S : \A n \in S : top <= n
    BY <1>1
  <1>3. top \in Nat /\ ~\E f : Adding(f, top, kept, trips)
    OBVIOUS
  <1>4. CASE top = 0
    <2>1. Adding([n \in 0..0 |-> kept], 0, kept, trips)
      BY DEF Adding
    <2> QED BY <1>3, <1>4, <2>1
  <1>5. CASE top # 0
    <2>1. top - 1 \in Nat /\ top - 1 \notin S
      BY <1>2, <1>3, <1>5
    <2>2. PICK f : Adding(f, top - 1, kept, trips)
      BY <2>1
    <2> DEFINE g == [n \in 0..top |-> IF n = top THEN Adds(f[top - 1], trips[top]) ELSE f[n]]
    <2> HIDE DEF S
    <2>3. ASSUME NEW n \in 0..top PROVE g[n] = IF n = 0 THEN kept ELSE Adds(g[n - 1], trips[n])
      <3>1. CASE n = top
        <4>1. g[n - 1] = f[top - 1] /\ n # 0
          BY <1>3, <1>5, <3>1
        <4> QED BY <3>1, <4>1
      <3>2. CASE n # top
        <4>1. n \in 0..(top - 1)
          BY <1>3, <3>2
        <4>2. f[n] = IF n = 0 THEN kept ELSE Adds(f[n - 1], trips[n])
          BY <2>2, <4>1 DEF Adding
        <4>3. g[n] = f[n] /\ (n # 0 => g[n - 1] = f[n - 1])
          BY <1>3, <3>2, <4>1
        <4> QED BY <4>2, <4>3
      <3> QED BY <3>1, <3>2
    <2>4. g = [n \in 0..top |-> g[n]]
      OBVIOUS
    <2> HIDE DEF g
    <2>5. Adding(g, top, kept, trips)
      BY <2>3, <2>4 DEF Adding
    <2> QED BY <1>3, <2>5
  <1> QED BY <1>4, <1>5

LEMMA MergingIs == ASSUME NEW N \in Nat, NEW slot PROVE \E f : Merging(f, N, slot)
  <1> DEFINE S == {n \in Nat : ~\E f : Merging(f, n, slot)}
  <1> SUFFICES ASSUME S # {} PROVE FALSE
    OBVIOUS
  <1>1. Min(S) \in S /\ \A n \in S : Min(S) <= n
    <2>1. S \in SUBSET Nat
      OBVIOUS
    <2> HIDE DEF S
    <2> QED BY <2>1, SmallestOf
  <1>2. PICK top \in S : \A n \in S : top <= n
    BY <1>1
  <1>3. top \in Nat /\ ~\E f : Merging(f, top, slot)
    OBVIOUS
  <1>4. CASE top = 0
    <2>1. Merging([n \in 0..0 |-> <<>>], 0, slot)
      BY DEF Merging
    <2> QED BY <1>3, <1>4, <2>1
  <1>5. CASE top # 0
    <2>1. top - 1 \in Nat /\ top - 1 \notin S
      BY <1>2, <1>3, <1>5
    <2>2. PICK f : Merging(f, top - 1, slot)
      BY <2>1
    <2> DEFINE g == [n \in 0..top |-> IF n = top THEN Accumulate(f[top - 1], slot[top].trips) ELSE f[n]]
    <2> HIDE DEF S
    <2>3. ASSUME NEW n \in 0..top
          PROVE  g[n] = IF n = 0 THEN <<>> ELSE Accumulate(g[n - 1], slot[n].trips)
      <3>1. CASE n = top
        <4>1. g[n - 1] = f[top - 1] /\ n # 0
          BY <1>3, <1>5, <3>1
        <4> QED BY <3>1, <4>1
      <3>2. CASE n # top
        <4>1. n \in 0..(top - 1)
          BY <1>3, <3>2
        <4>2. f[n] = IF n = 0 THEN <<>> ELSE Accumulate(f[n - 1], slot[n].trips)
          BY <2>2, <4>1 DEF Merging
        <4>3. g[n] = f[n] /\ (n # 0 => g[n - 1] = f[n - 1])
          BY <1>3, <3>2, <4>1
        <4> QED BY <4>2, <4>3
      <3> QED BY <3>1, <3>2
    <2>4. g = [n \in 0..top |-> g[n]]
      OBVIOUS
    <2> HIDE DEF g
    <2>5. Merging(g, top, slot)
      BY <2>3, <2>4 DEF Merging
    <2> QED BY <1>3, <2>5
  <1> QED BY <1>4, <1>5

\* An answer is taken trip by trip.
LEMMA AccumulateKeeps ==
    ASSUME NEW kept, NEW found, KeepsOf(kept, found), NEW trips \in Seq(Trips)
    PROVE  KeepsOf(Accumulate(kept, trips), found \cup Range(trips))
  <1> DEFINE f == CHOOSE g : Adding(g, Len(trips), kept, trips)
             some(n) == {trips[i] : i \in 1..n}
             S == {n \in 0..Len(trips) : ~KeepsOf(f[n], found \cup some(n))}
  <1>0. Len(trips) \in Nat /\ DOMAIN trips = 1..Len(trips)
    OBVIOUS
  <1>1. Adding(f, Len(trips), kept, trips)
    BY <1>0, AddingIs
  <1>2. Accumulate(kept, trips) = f[Len(trips)]
    BY DEF Accumulate, Adding, Adds
  <1>3. \A n \in 0..Len(trips) : f[n] = IF n = 0 THEN kept ELSE Adds(f[n - 1], trips[n])
    BY <1>1 DEF Adding
  <1> HIDE DEF f
  <1>4. ASSUME S # {} PROVE FALSE
    <2>1. Min(S) \in S /\ \A n \in S : Min(S) <= n
      <3>1. S \in SUBSET Nat
        BY <1>0
      <3> HIDE DEF S
      <3> QED BY <1>4, <3>1, SmallestOf
    <2>2. PICK top \in S : \A n \in S : top <= n
      BY <2>1
    <2>3. top \in 0..Len(trips) /\ ~KeepsOf(f[top], found \cup some(top))
      OBVIOUS
    <2>4. CASE top = 0
      <3>1. f[0] = kept
        BY <1>0, <1>3
      <3>2. some(0) = {}
        OBVIOUS
      <3>3. found \cup some(0) = found
        BY <3>2
      <3> QED BY <2>3, <2>4, <3>1, <3>3
    <2>5. CASE top # 0
      <3>1. top - 1 \in 0..Len(trips) /\ top - 1 \notin S /\ top \in 1..Len(trips)
        <4>1. top - 1 \in 0..Len(trips) /\ top \in 1..Len(trips) /\ ~(top <= top - 1)
          BY <1>0, <2>3, <2>5
        <4> HIDE DEF S
        <4> QED BY <2>2, <4>1
      <3>2. KeepsOf(f[top - 1], found \cup some(top - 1))
        BY <3>1
      <3>3. f[top] = Adds(f[top - 1], trips[top])
        BY <1>3, <2>3, <2>5
      <3>4. trips[top] \in Trips
        BY <3>1
      <3>5. some(top) = some(top - 1) \cup {trips[top]}
        <4>1. top \in Nat \ {0}
          BY <1>0, <3>1
        <4>2. 1..top = (1..(top - 1)) \cup {top}
          BY <4>1
        <4> QED BY <4>2
      <3>6. (found \cup some(top - 1)) \cup {trips[top]} = found \cup some(top)
        BY <3>5
      <3> HIDE DEF some, S
      <3> QED BY <2>3, <3>2, <3>3, <3>4, <3>6, AddsKeeps
    <2> QED BY <2>4, <2>5
  <1>5. some(Len(trips)) = Range(trips)
    BY <1>0 DEF Range
  <1>6. Len(trips) \in 0..Len(trips)
    BY <1>0
  <1> QED BY <1>2, <1>4, <1>5, <1>6

\* The slots are merged one after the other.
FoundBy(slot) == UNION {Range(slot[k].trips) : k \in SlotNames}
LEMMA MergedKeeps ==
    ASSUME NEW slot, \A k \in SlotNames : slot[k].trips \in Seq(Trips)
    PROVE  /\ Cardinality(SlotNames) > 1 => KeepsOf(Merged(slot), FoundBy(slot))
           /\ Cardinality(SlotNames) = 1 => Merged(slot) = slot[1].trips /\ 1 \in SlotNames
           /\ Merged(slot) \in Seq(Trips)
  <1> DEFINE N == Cardinality(SlotNames)
             f == CHOOSE g : Merging(g, N, slot)
             some(n) == UNION {Range(slot[k].trips) : k \in 1..n}
             S == {n \in 0..N : ~KeepsOf(f[n], some(n))}
  <1>0. N \in Nat /\ SlotNames = 1..N
    BY PairAssumption, FS_CardinalityType
  <1>1. Merging(f, N, slot)
    BY <1>0, MergingIs
  <1>2. Merged(slot) = IF N = 1 THEN slot[1].trips ELSE f[N]
    BY DEF Merged, Merging
  <1> HIDE DEF N
  <1>3. \A n \in 0..N : f[n] = IF n = 0 THEN <<>> ELSE Accumulate(f[n - 1], slot[n].trips)
    BY <1>1 DEF Merging
  <1> HIDE DEF f
  <1>4. ASSUME S # {} PROVE FALSE
    <2>1. Min(S) \in S /\ \A n \in S : Min(S) <= n
      <3>1. S \in SUBSET Nat
        BY <1>0
      <3> HIDE DEF S
      <3> QED BY <1>4, <3>1, SmallestOf
    <2>2. PICK top \in S : \A n \in S : top <= n
      BY <2>1
    <2>3. top \in 0..N /\ ~KeepsOf(f[top], some(top))
      OBVIOUS
    <2>4. CASE top = 0
      <3>1. f[0] = <<>>
        BY <1>0, <1>3
      <3>2. some(0) = {}
        OBVIOUS
      <3> QED BY <2>3, <2>4, <3>1, <3>2, KeepsNothing
    <2>5. CASE top # 0
      <3>1. top - 1 \in 0..N /\ top - 1 \notin S /\ top \in 1..N
        <4>1. top - 1 \in 0..N /\ top \in 1..N /\ ~(top <= top - 1)
          BY <1>0, <2>3, <2>5
        <4> HIDE DEF S
        <4> QED BY <2>2, <4>1
      <3>2. KeepsOf(f[top - 1], some(top - 1))
        BY <3>1
      <3>3. f[top] = Accumulate(f[top - 1], slot[top].trips)
        BY <1>3, <2>3, <2>5
      <3>4. slot[top].trips \in Seq(Trips)
        BY <1>0, <3>1
      <3>5. some(top) = some(top - 1) \cup Range(slot[top].trips)
        <4>1. top \in Nat \ {0}
          BY <1>0, <3>1
        <4>2. 1..top = (1..(top - 1)) \cup {top}
          BY <4>1
        <4> QED BY <4>2
      <3> HIDE DEF some, S
      <3> QED BY <2>3, <3>2, <3>3, <3>4, <3>5, AccumulateKeeps
    <2> QED BY <2>4, <2>5
  <1>5. some(N) = FoundBy(slot)
    BY <1>0 DEF FoundBy
  <1>6. N \in 0..N
    BY <1>0
  <1>7. KeepsOf(f[N], FoundBy(slot))
    BY <1>4, <1>5, <1>6
  <1>8. f[N] \in Seq(Trips)
    BY <1>7 DEF KeepsOf
  <1>9. N = 1 => 1 \in SlotNames
    BY <1>0
  <1> QED BY <1>0, <1>2, <1>7, <1>8, <1>9 DEF N

\* A list with one of each key is as long as it has keys.
LEMMA KeysAreCounted ==
    ASSUME NEW kept, NEW found, KeepsOf(kept, found)
    PROVE  Cardinality({KeyOf[t] : t \in Range(kept)}) = Len(kept)
  <1> DEFINE n == Len(kept)
             K == {KeyOf[t] : t \in Range(kept)}
             f == [i \in 1..n |-> KeyOf[kept[i]]]
  <1>1. n \in Nat /\ DOMAIN kept = 1..n
        /\ \A i, j \in 1..n : i # j => KeyOf[kept[i]] # KeyOf[kept[j]]
    BY DEF KeepsOf
  <1>2. f \in [1..n -> K] /\ \A k \in K : \E i \in 1..n : f[i] = k
    BY <1>1 DEF Range
  <1>3. \A i, j \in 1..n : f[i] = f[j] => i = j
    BY <1>1
  <1> HIDE DEF n, K, f
  <1>4. f \in Bijection(1..n, K)
    <2>1. f \in Surjection(1..n, K)
      BY <1>2, Zenon DEF Surjection
    <2>2. f \in Injection(1..n, K)
      BY <1>2, <1>3, Zenon DEF Injection, IsInjective
    <2> QED BY <2>1, <2>2, Zenon DEF Bijection
  <1>5. ExistsBijection(1..n, K)
    BY <1>4 DEF ExistsBijection
  <1>6. Cardinality(K) = n
    BY <1>1, <1>5, FS_CountingElements
  <1> QED BY <1>6 DEF n, K

-----------------------------------------------------------------------------
(* The row of a pair *)

\* A slot that did not answer has no trips; a query that is over is ok if it has trips, and
\* they are what it keeps of those its slots found.
SlotHolds(x) ==
    /\ x.state \in {"waiting", "asking", "answered", "connect", "timeout", "error"}
    /\ x.trips \in Seq(Trips) /\ (x.state # "answered" => x.trips = <<>>)
AnswersHold(q) ==
    /\ q.trips \in Seq(Trips) /\ \A k \in SlotNames : SlotHolds(q.slot[k])
    /\ q.pc # "over" => q.trips = <<>>
    /\ q.pc = "over" =>
         /\ q.status = "ok" <=> q.trips # <<>>
         /\ Cardinality(SlotNames) > 1 => KeepsOf(q.trips, FoundBy(q.slot))
PairKept ==
    /\ \A s \in PairSessions : AnswersHold(query[s])
    /\ pairResult # <<>> => RowIsTheBest /\ \A s \in PairSessions : query[s].pc = "over"

\* An attempt starts with no trips.
LEMMA FreshIsEmpty == ASSUME NEW n PROVE AnswersHold(Fresh(n)) /\ Fresh(n).pc = "slots"
  <1> DEFINE q == Fresh(n)
  <1>1. q.pc = "slots" /\ q.trips = <<>> /\ q.slot = [k \in SlotNames |-> NoAnswer]
    BY DEF Fresh
  <1>2. SlotHolds(NoAnswer)
    <2>1. NoAnswer.state = "waiting" /\ NoAnswer.trips = <<>> /\ <<>> \in Seq(Trips)
      BY DEF NoAnswer
    <2> QED BY <2>1 DEF SlotHolds
  <1> HIDE DEF q
  <1>3. \A k \in SlotNames : q.slot[k] = NoAnswer
    BY <1>1
  <1>4. q.trips \in Seq(Trips) /\ q.trips = <<>> /\ q.pc # "over"
    BY <1>1
  <1>5. AnswersHold(q)
    BY <1>2, <1>3, <1>4 DEF AnswersHold
  <1> QED BY <1>1, <1>5 DEF q

\* No slot answered: nothing was found, and nothing is kept.
LEMMA NothingFound ==
    ASSUME NEW slot, \A k \in SlotNames : SlotHolds(slot[k]), AllFailed(slot)
    PROVE  KeepsOf(<<>>, FoundBy(slot))
  <1>1. \A k \in SlotNames : slot[k].trips = <<>>
    BY DEF AllFailed, SlotHolds
  <1>2. Range(<<>>) = {}
    <2>1. DOMAIN <<>> = {}
      OBVIOUS
    <2> QED BY <2>1 DEF Range
  <1>3. FoundBy(slot) = {}
    BY <1>1, <1>2 DEF FoundBy
  <1> QED BY <1>3, KeepsNothing

\* A step of one query, before there is a row.
LEMMA AnswersMove ==
    ASSUME PairInv, PairKept, NEW s \in PairSessions, query[s].pc # "over", NEW q, AnswersHold(q),
           query' = [query EXCEPT ![s] = q], UNCHANGED pairResult
    PROVE  PairKept'
  <1>1. pairResult = <<>>
    BY DEF PairKept
  <1>2. \A x \in PairSessions : query'[x] = IF x = s THEN q ELSE query[x]
    BY DEF PairInv
  <1>3. \A x \in PairSessions : AnswersHold(query'[x])
    BY <1>2 DEF PairKept
  <1> QED BY <1>1, <1>3 DEF PairKept, AnswersHold

\* A slot is asked, answers or fails.
LEMMA SlotsKeep ==
    ASSUME PairInv, PairKept, NEW s \in PairSessions, NEW k \in SlotNames,
           \/ AskSlot(s, k)
           \/ \E a \in AnswerSets : SlotAnswers(s, k, a)
           \/ \E how \in {"connect", "timeout", "error"} : SlotFails(s, k, how)
    PROVE  PairKept'
  <1> DEFINE p == query[s]
  <1>1. /\ DOMAIN query = PairSessions /\ AnswersHold(p) /\ QueryHolds(p)
        /\ p.pc = "slots" /\ UNCHANGED pairResult
    BY DEF PairInv, PairKept, AskSlot, SlotAnswers, SlotFails, rowVars
  <1>2. DOMAIN p = {"pc", "attempt", "slot", "trips", "status"} /\ DOMAIN p.slot = SlotNames
        /\ DOMAIN p.slot[k] = {"state", "trips"}
    BY <1>1 DEF QueryHolds
  <1>3. SlotHolds(p.slot[k])
    BY <1>1 DEF AnswersHold
  <1>4. \E r : SlotHolds(r) /\ query' = [query EXCEPT ![s].slot[k] = r]
    <2>1. ASSUME NEW how \in {"asking", "connect", "timeout", "error"},
                 query' = [query EXCEPT ![s].slot[k].state = how], p.slot[k].state # "answered"
          PROVE  \E r : SlotHolds(r) /\ query' = [query EXCEPT ![s].slot[k] = r]
      <3> DEFINE r == [p.slot[k] EXCEPT !.state = how]
      <3>1. query' = [query EXCEPT ![s].slot[k] = r]
        BY <1>1, <1>2, <2>1
      <3>2. r.state = how /\ r.trips = p.slot[k].trips
        BY <1>2
      <3> HIDE DEF r
      <3>3. SlotHolds(r)
        BY <1>3, <2>1, <3>2 DEF SlotHolds
      <3> QED BY <3>1, <3>3
    <2>2. ASSUME NEW a \in AnswerSets, SlotAnswers(s, k, a)
          PROVE  \E r : SlotHolds(r) /\ query' = [query EXCEPT ![s].slot[k] = r]
      <3> DEFINE r == [state |-> "answered", trips |-> a]
      <3>1. query' = [query EXCEPT ![s].slot[k] = r]
        BY <2>2 DEF SlotAnswers
      <3>2. r.state = "answered" /\ r.trips = a /\ a \in Seq(Trips)
        BY PairAssumption
      <3> HIDE DEF r
      <3>3. SlotHolds(r)
        BY <3>2 DEF SlotHolds
      <3> QED BY <3>1, <3>3
    <2>3. CASE AskSlot(s, k)
      <3>1. query' = [query EXCEPT ![s].slot[k].state = "asking"] /\ p.slot[k].state = "waiting"
        BY <2>3 DEF AskSlot, SlotsIn
      <3> HIDE DEF p
      <3> QED BY <2>1, <3>1
    <2>4. ASSUME NEW how \in {"connect", "timeout", "error"}, SlotFails(s, k, how)
          PROVE  \E r : SlotHolds(r) /\ query' = [query EXCEPT ![s].slot[k] = r]
      <3>1. query' = [query EXCEPT ![s].slot[k].state = how] /\ p.slot[k].state = "asking"
        BY <2>4 DEF SlotFails, SlotsIn
      <3> HIDE DEF p
      <3> QED BY <2>1, <3>1
    <2> QED BY <2>2, <2>3, <2>4
  <1>5. PICK r : SlotHolds(r) /\ query' = [query EXCEPT ![s].slot[k] = r]
    BY <1>4
  <1> DEFINE slots == [p.slot EXCEPT ![k] = r]
             q == [p EXCEPT !.slot = slots]
  <1>6. query' = [query EXCEPT ![s] = q]
    BY <1>1, <1>2, <1>5
  <1>7. q.slot = slots /\ q.pc = p.pc /\ q.trips = p.trips
    BY <1>2
  <1>8. \A i \in SlotNames : slots[i] = IF i = k THEN r ELSE p.slot[i]
    BY <1>2
  <1> HIDE DEF q, slots
  <1>9. AnswersHold(q)
    BY <1>1, <1>5, <1>7, <1>8 DEF AnswersHold
  <1> QED BY <1>1, <1>6, <1>9, AnswersMove

\* The slots are gathered, or a wait ends.
LEMMA GatherIsKept ==
    ASSUME PairInv, PairKept, NEW s \in PairSessions, Gathered(s)
    PROVE  PairKept'
  <1> DEFINE p == query[s]
             how == SlotFailure(p.slot)
             m == Merged(p.slot)
             over(status, trips) == [p EXCEPT !.pc = "over", !.status = status, !.trips = trips]
             waiting == [p EXCEPT !.pc = "backoff"]
             merged == over(IF m = <<>> THEN "no_route" ELSE "ok", m)
             failed == over(IF how = "connect" THEN "error" ELSE how, <<>>)
  <1>1. /\ AnswersHold(p) /\ QueryHolds(p) /\ p.pc = "slots" /\ UNCHANGED pairResult
        /\ SlotsIn(s, "waiting") = {} /\ SlotsIn(s, "asking") = {}
    BY DEF PairInv, PairKept, Gathered, rowVars
  <1>2. DOMAIN p = {"pc", "attempt", "slot", "trips", "status"}
    BY <1>1 DEF QueryHolds
  <1>3. p.trips \in Seq(Trips) /\ \A k \in SlotNames : SlotHolds(p.slot[k])
    BY <1>1 DEF AnswersHold
  <1>13. query' = [query EXCEPT ![s] =
            IF ~AllFailed(p.slot) THEN merged
            ELSE IF how = "connect" /\ p.attempt <= MaxRetries /\ ~pairStop THEN waiting ELSE failed]
    BY DEF Gathered
  <1>5. AllFailed(p.slot) => how # "ok"
    <2>1. SlotNames # {} => how = "connect" \/ \E k \in SlotNames : how = p.slot[k].state
      <3> DEFINE other == {k \in SlotNames : p.slot[k].state # "connect"}
      <3>1. how = IF other = {} THEN "connect" ELSE p.slot[Min(other)].state
        BY DEF SlotFailure
      <3>2. other # {} => Min(other) \in other
        BY SmallestOf, SlotsAreNumbers
      <3> HIDE DEF how, p, Min
      <3> QED BY <3>1, <3>2
    <2>2. SlotNames = {} => how = "connect"
      BY DEF SlotFailure
    <2> HIDE DEF how, p
    <2> QED BY <1>3, <2>1, <2>2 DEF SlotHolds
  <1>6. ASSUME NEW status, NEW trips
        PROVE  /\ over(status, trips).pc = "over" /\ over(status, trips).status = status
               /\ over(status, trips).trips = trips /\ over(status, trips).slot = p.slot
    BY <1>2
  <1>18. p.trips = <<>>
    BY <1>1 DEF AnswersHold
  <1>7. waiting.pc = "backoff" /\ waiting.slot = p.slot /\ waiting.trips = p.trips
    BY <1>2
  <1>8. m \in Seq(Trips) /\ (Cardinality(SlotNames) > 1 => KeepsOf(m, FoundBy(p.slot)))
    <2>1. \A k \in SlotNames : p.slot[k].trips \in Seq(Trips)
      BY <1>3 DEF SlotHolds
    <2> HIDE DEF p
    <2> QED BY <2>1, MergedKeeps
  <1>9. AllFailed(p.slot) => KeepsOf(<<>>, FoundBy(p.slot))
    BY <1>3, NothingFound
  <1>10. <<>> \in Seq(Trips)
    OBVIOUS
  <1>11. /\ merged.pc = "over" /\ merged.status = (IF m = <<>> THEN "no_route" ELSE "ok")
         /\ merged.trips = m /\ merged.slot = p.slot
    BY <1>6
  <1>12. /\ failed.pc = "over" /\ failed.status = (IF how = "connect" THEN "error" ELSE how)
         /\ failed.trips = <<>> /\ failed.slot = p.slot
    BY <1>6
  <1> HIDE DEF merged, failed, waiting, over, m, how
  <1>14. AnswersHold(merged)
    BY <1>3, <1>8, <1>11 DEF AnswersHold
  <1>15. AllFailed(p.slot) => AnswersHold(failed)
    BY <1>3, <1>5, <1>9, <1>10, <1>12 DEF AnswersHold
  <1>16. AnswersHold(waiting)
    BY <1>3, <1>7, <1>18 DEF AnswersHold
  <1>17. p.pc # "over"
    BY <1>1
  <1> QED BY <1>1, <1>13, <1>14, <1>15, <1>16, <1>17, AnswersMove

LEMMA WaitIsKept ==
    ASSUME PairInv, PairKept, NEW s \in PairSessions, BackoffEnds(s)
    PROVE  PairKept'
  <1> DEFINE p == query[s]
             q == IF pairStop THEN [p EXCEPT !.pc = "over", !.status = "error"] ELSE Fresh(p.attempt + 1)
  <1>1. /\ AnswersHold(p) /\ QueryHolds(p) /\ p.pc = "backoff" /\ UNCHANGED pairResult
        /\ query' = [query EXCEPT ![s] = q]
    BY DEF PairInv, PairKept, BackoffEnds, rowVars
  <1>2. /\ DOMAIN p = {"pc", "attempt", "slot", "trips", "status"}
        /\ {k \in SlotNames : p.slot[k].state = "connect"} = SlotNames
    BY <1>1 DEF QueryHolds
  <1>3. p.trips = <<>> /\ \A k \in SlotNames : SlotHolds(p.slot[k])
    BY <1>1 DEF AnswersHold
  <1>4. CASE ~pairStop
    <2>1. AnswersHold(q)
      BY <1>4, FreshIsEmpty
    <2> QED BY <1>1, <2>1, AnswersMove
  <1>5. CASE pairStop
    <2>1. q.pc = "over" /\ q.status = "error" /\ q.trips = p.trips /\ q.slot = p.slot
      BY <1>2, <1>5
    <2>2. AllFailed(p.slot)
      BY <1>2 DEF AllFailed
    <2>3. <<>> \in Seq(Trips)
      OBVIOUS
    <2>4. KeepsOf(<<>>, FoundBy(p.slot))
      BY <1>3, <2>2, NothingFound
    <2> HIDE DEF q, p
    <2>5. AnswersHold(q)
      BY <1>3, <2>1, <2>3, <2>4 DEF AnswersHold
    <2>6. p.pc # "over"
      BY <1>1
    <2> QED BY <1>1, <2>5, <2>6, AnswersMove DEF p
  <1> QED BY <1>4, <1>5

\* The shortest trip of each signature is no longer than any trip.
LEMMA ShortestIsFound ==
    ASSUME NEW trips \in SUBSET Trips, trips # {}
    PROVE  LET best == {BestOf(trips, g) : g \in {SignatureOf[t] : t \in trips}}
               shortest == Min({DurationOf[t] : t \in best})
           IN  best # {} /\ \A t \in trips : shortest <= DurationOf[t]
  <1> DEFINE best == {BestOf(trips, g) : g \in {SignatureOf[t] : t \in trips}}
             D == {DurationOf[t] : t \in best}
  <1>1. \A t \in trips : DurationOf[t] \in Nat
    BY PairAssumption
  <1>2. ASSUME NEW t \in trips
        PROVE  LET b == BestOf(trips, SignatureOf[t]) IN b \in trips /\ DurationOf[b] <= DurationOf[t]
    <2> DEFINE like == {u \in trips : SignatureOf[u] = SignatureOf[t]}
               L == {DurationOf[u] : u \in like}
    <2>1. L \in SUBSET Nat /\ L # {}
      BY <1>1
    <2>2. Min(L) \in L /\ \A y \in L : Min(L) <= y
      BY <2>1, SmallestOf
    <2>3. PICK u \in like : \A v \in like : DurationOf[u] <= DurationOf[v]
      BY <2>2
    <2>4. \E b \in trips : /\ SignatureOf[b] = SignatureOf[t]
                           /\ \A v \in trips : SignatureOf[v] = SignatureOf[t] => DurationOf[b] <= DurationOf[v]
      BY <2>3
    <2> QED BY <2>4 DEF BestOf
  <1>3. best # {} /\ best \subseteq trips
    BY <1>2
  <1>4. D \in SUBSET Nat /\ D # {}
    BY <1>1, <1>3
  <1>5. Min(D) \in D /\ \A y \in D : Min(D) <= y
    BY <1>4, SmallestOf
  <1>6. ASSUME NEW t \in trips PROVE Min(D) <= DurationOf[t]
    <2> DEFINE b == BestOf(trips, SignatureOf[t])
    <2>1. b \in trips /\ DurationOf[b] <= DurationOf[t]
      BY <1>2
    <2>2. b \in best
      OBVIOUS
    <2> HIDE DEF b, best
    <2>3. DurationOf[b] \in D
      BY <2>2
    <2> HIDE DEF D
    <2>4. Min(D) <= DurationOf[b] /\ Min(D) \in Nat
      BY <1>4, <1>5, <2>3
    <2>5. DurationOf[b] \in Nat /\ DurationOf[t] \in Nat
      BY <1>1, <2>1
    <2> QED BY <2>1, <2>4, <2>5
  <1> QED BY <1>3, <1>6

\* The row of a pair, of queries that are over.
LEMMA RowIsKept ==
    ASSUME PairInv, PairKept, PairDone
    PROVE  PairKept'
  <1> DEFINE sigs == {SignatureOf[t] : t \in AllTrips}
             best == {BestOf(AllTrips, g) : g \in sigs}
             statuses == {query[s].status : s \in PairSessions}
             row == [status |-> PairStatus(statuses),
                     itineraries |-> IF Cardinality(PairSessions) = 1
                                     THEN Cardinality(AllTrips) ELSE Cardinality(sigs),
                     best |-> IF best = {} THEN 0 ELSE Min({DurationOf[t] : t \in best}),
                     sessions |-> {s \in PairSessions : query[s].status = "ok"}]
  <1>1. /\ pairResult' = row /\ UNCHANGED query /\ \A s \in PairSessions : query[s].pc = "over"
        /\ \A s \in PairSessions : AnswersHold(query[s])
    BY DEF PairDone, Writing, PairKept
  <1>2. \A s \in PairSessions : query[s].trips \in Seq(Trips) /\ (query[s].status = "ok" <=> query[s].trips # <<>>)
    BY <1>1 DEF AnswersHold
  <1>3. /\ row.status = PairStatus(statuses) /\ row.sessions = {s \in PairSessions : query[s].status = "ok"}
        /\ row.best = IF best = {} THEN 0 ELSE Min({DurationOf[t] : t \in best})
    OBVIOUS
  <1> HIDE DEF row
  <1>4. AllTrips \in SUBSET Trips
    BY <1>2 DEF AllTrips
  <1>5. ASSUME NEW s \in PairSessions, query[s].trips # <<>> PROVE AllTrips # {}
    <2>1. 1 \in DOMAIN query[s].trips
      BY <1>2, <1>5
    <2> DEFINE some(x) == {query[x].trips[i] : i \in DOMAIN query[x].trips}
    <2>2. query[s].trips[1] \in some(s)
      BY <2>1
    <2> HIDE DEF some
    <2>3. query[s].trips[1] \in UNION {some(x) : x \in PairSessions}
      BY <2>2, Zenon
    <2> QED BY <2>3 DEF AllTrips, some
  <1>6. AllTrips # {} => \E s \in PairSessions : query[s].trips # <<>>
    <2> SUFFICES ASSUME AllTrips # {} PROVE \E s \in PairSessions : query[s].trips # <<>>
      OBVIOUS
    <2>1. PICK s \in PairSessions : \E i \in DOMAIN query[s].trips : TRUE
      BY Zenon DEF AllTrips
    <2>2. DOMAIN <<>> = {}
      OBVIOUS
    <2> QED BY <2>1, <2>2
  <1>7. (AllTrips # {}) <=> "ok" \in statuses
    BY <1>2, <1>5, <1>6
  <1>8. (PairStatus(statuses) = "ok") <=> "ok" \in statuses
    <2>1. CASE Cardinality(PairSessions) = 1
      <3>1. PICK s : PairSessions = {s}
        BY <2>1, PairAssumption, FS_Singleton
      <3>2. statuses = {query[s].status}
        BY <3>1
      <3> HIDE DEF statuses
      <3> QED BY <2>1, <3>2 DEF PairStatus
    <2>2. CASE Cardinality(PairSessions) # 1
      <3> HIDE DEF statuses
      <3> QED BY <2>2 DEF PairStatus
    <2> QED BY <2>1, <2>2
  <1>9. AllTrips # {} => \A t \in AllTrips : row.best <= DurationOf[t]
    <2> SUFFICES ASSUME AllTrips # {} PROVE \A t \in AllTrips : row.best <= DurationOf[t]
      OBVIOUS
    <2>1. best # {} /\ \A t \in AllTrips : Min({DurationOf[u] : u \in best}) <= DurationOf[t]
      BY <1>4, ShortestIsFound
    <2> HIDE DEF best
    <2> QED BY <1>3, <2>1
  <1>10. row.sessions = {s \in PairSessions : query[s].trips # <<>>}
    BY <1>2, <1>3
  <1> HIDE DEF statuses
  <1>11. AllTrips' = AllTrips
    BY <1>1 DEF AllTrips
  <1>12. RowIsTheBest'
    BY <1>1, <1>3, <1>7, <1>8, <1>9, <1>10, <1>11 DEF RowIsTheBest
  <1> QED BY <1>1, <1>12 DEF PairKept, AnswersHold

\* Every step keeps the row and what it is of.
LEMMA PairKeepsOn ==
    /\ PairInit => PairKept
    /\ PairInv /\ PairKept /\ (PairNext \/ UNCHANGED pairVars) => PairKept'
  <1>1. PairInit => PairKept
    <2> SUFFICES ASSUME PairInit PROVE PairKept
      OBVIOUS
    <2>1. pairResult = <<>> /\ \A s \in PairSessions : query[s] = Fresh(1)
      BY DEF PairInit
    <2>2. \A s \in PairSessions : AnswersHold(query[s])
      BY <2>1, FreshIsEmpty
    <2> QED BY <2>1, <2>2 DEF PairKept
  <1>2. ASSUME PairKept, query' = query, pairResult' = pairResult PROVE PairKept'
    <2>1. AllTrips' = AllTrips
      BY <1>2 DEF AllTrips
    <2>2. RowIsTheBest' <=> RowIsTheBest
      BY <1>2, <2>1 DEF RowIsTheBest
    <2>3. \A s \in PairSessions : AnswersHold(query'[s])
      BY <1>2 DEF PairKept
    <2>4. pairResult' # <<>> => RowIsTheBest' /\ \A s \in PairSessions : query'[s].pc = "over"
      BY <1>2, <2>2 DEF PairKept
    <2> QED BY <2>3, <2>4 DEF PairKept, AnswersHold
  <1>3. StopPair \/ MergeRaises \/ (\E t \in BOOLEAN : WriteFails(t)) \/ UNCHANGED pairVars
            => query' = query /\ pairResult' = pairResult
    BY DEF StopPair, MergeRaises, WriteFails, pairVars, rowVars
  <1>4. PairInv /\ PairKept /\ PairStep => PairKept'
    BY SlotsKeep, GatherIsKept, WaitIsKept, RowIsKept, <1>2, <1>3 DEF PairStep
  <1> QED BY <1>1, <1>2, <1>3, <1>4 DEF PairNext

\* A query keeps what it found once, and the row is of the best.
LEMMA PairTells == PairKept => KeptOnce /\ RowIsTheBest
  <1> SUFFICES ASSUME PairKept PROVE KeptOnce /\ RowIsTheBest
    OBVIOUS
  <1>1. ASSUME NEW s \in PairSessions, query[s].pc = "over", Cardinality(SlotNames) > 1
        PROVE  LET found == FoundBy(query[s].slot)  kept == Range(query[s].trips) IN
               /\ kept \subseteq found \cap InWindow
               /\ {KeyOf[t] : t \in kept} = {KeyOf[t] : t \in found \cap InWindow}
               /\ Cardinality({KeyOf[t] : t \in kept}) = Len(query[s].trips)
    <2> DEFINE found == FoundBy(query[s].slot)
               list == query[s].trips
    <2>1. KeepsOf(list, found)
      BY <1>1 DEF PairKept, AnswersHold
    <2> HIDE DEF found, list
    <2>2. Cardinality({KeyOf[t] : t \in Range(list)}) = Len(list)
      BY <2>1, KeysAreCounted
    <2>3. /\ Range(list) \subseteq found \cap InWindow
          /\ \A t \in found \cap InWindow : \E i \in DOMAIN list : KeyOf[list[i]] = KeyOf[t]
      BY <2>1 DEF KeepsOf
    <2>4. {KeyOf[t] : t \in Range(list)} = {KeyOf[t] : t \in found \cap InWindow}
      BY <2>3 DEF Range
    <2> QED BY <2>2, <2>3, <2>4 DEF found, list
  <1>2. KeptOnce
    BY <1>1 DEF KeptOnce, FoundBy, Range
  <1>3. RowIsTheBest
    BY DEF PairKept, RowIsTheBest
  <1> QED BY <1>2, <1>3

-----------------------------------------------------------------------------
(* A search and its gate *)

\* A search asks the sessions chosen at its start and no other, and goes on when each answered.
SearchHolds(q) ==
    /\ DOMAIN q = {"pc", "kind", "sessions", "answer"} /\ q.kind \in {"fanout", "plan"}
    /\ q.sessions \subseteq Engines /\ DOMAIN q.answer \subseteq q.sessions
    /\ \A s \in DOMAIN q.answer : q.answer[s] \in AnswersOf
    /\ q.pc \in {"chosen", "asking", "answered"} =>
            q.sessions # {} /\ (q.kind = "plan" => \A s, t \in q.sessions : s = t)
    /\ q.pc = "answered" => DOMAIN q.answer = q.sessions

\* What RecordIsWhole says of one row, of the search it records.
RowIsWhole(row, q) ==
    LET e == row.executions
        statuses == {e[s].status : s \in DOMAIN e}
        trips == UNION {e[s].trips : s \in DOMAIN e} IN
    /\ DOMAIN e = q.sessions
    /\ (row.status = "partial") => ("ok" \in statuses /\ statuses # {"ok"} /\ q.kind = "fanout")
    /\ (row.status = "ok") = (statuses = {"ok"})
    /\ q.kind = "fanout" => row.unique = Cardinality({TripSignature[t] : t \in trips})

\* What SlotsTellTheTruth says of one row.
RowTellsTheTruth(row) ==
    \A slot \in row.slots :
        LET e == row.executions
            has(s) == {t \in e[s].trips : TripSignature[t] = slot.signature} IN
        /\ slot.foundIn = {s \in DOMAIN e : has(s) # {}}
        /\ \A s \in DOMAIN e : \A t \in has(s) : slot.seconds <= TripSeconds[t]
        /\ (OriginFlag(slot, DOMAIN e) = "ALL") = (\A s \in DOMAIN e : has(s) # {})

JourneyInv ==
    /\ DOMAIN gate = {"limit", "inFlight"} /\ JourneyTypeOK
    /\ DOMAIN search = Requests /\ DOMAIN recorded = Requests /\ serving \subseteq Engines
    /\ \A r \in Requests : SearchHolds(search[r])
    /\ \A r \in Requests : recorded[r] # Absent =>
            /\ search[r].pc = "done"
            /\ RowIsWhole(recorded[r], search[r]) /\ RowTellsTheTruth(recorded[r])

\* An answer: a status, and finitely many trips with a duration.
LEMMA AnswersAreFinite ==
    \A a \in AnswersOf : /\ a.status \in {"ok", "no_route", "timeout", "error"}
                         /\ IsFiniteSet(a.trips) /\ \A t \in a.trips : TripSeconds[t] \in Nat
  <1> TAKE a \in AnswersOf
  <1>1. CASE \E t \in Found : a = [status |-> IF t = {} THEN "no_route" ELSE "ok", trips |-> t]
    BY <1>1, JourneyAssumption
  <1>2. CASE \E f \in Failures : a = [status |-> f, trips |-> {}]
    BY <1>2, JourneyAssumption, FS_EmptySet
  <1> QED BY <1>1, <1>2 DEF AnswersOf

\* A finite set's image is finite, and as large if no two of its elements meet in it.
LEMMA ImageOf ==
    ASSUME NEW S, IsFiniteSet(S), NEW f, DOMAIN f = S, f = [x \in S |-> f[x]]
    PROVE  LET T == {f[x] : x \in S} IN
           /\ IsFiniteSet(T)
           /\ (\A x, y \in S : f[x] = f[y] => x = y) => Cardinality(T) = Cardinality(S)
  <1> DEFINE T == {f[x] : x \in S}
  <1>1. f \in Surjection(S, T)
    <2>1. f \in [S -> T]
      OBVIOUS
    <2> QED BY <2>1 DEF Surjection
  <1>2. IsFiniteSet(T) /\ (Cardinality(T) = Cardinality(S) <=> f \in Injection(S, T))
    BY <1>1, FS_Surjection
  <1>3. (\A x, y \in S : f[x] = f[y] => x = y) => f \in Injection(S, T)
    BY <1>1 DEF Surjection, Injection, IsInjective
  <1> QED BY <1>2, <1>3

\* The slots of an answer: one for each signature, naming who found it, as fast as the fastest.
LEMMA SlotsTell ==
    ASSUME NEW answer, IsFiniteSet(DOMAIN answer),
           \A s \in DOMAIN answer : /\ IsFiniteSet(answer[s].trips)
                                    /\ \A t \in answer[s].trips : TripSeconds[t] \in Nat
    PROVE  LET has(s, g) == {t \in answer[s].trips : TripSignature[t] = g}
               trips == UNION {answer[s].trips : s \in DOMAIN answer} IN
           /\ Cardinality(Slots(answer)) = Cardinality({TripSignature[t] : t \in trips})
           /\ \A slot \in Slots(answer) :
                /\ slot.foundIn = {s \in DOMAIN answer : has(s, slot.signature) # {}}
                /\ \A s \in DOMAIN answer : \A t \in has(s, slot.signature) :
                        slot.seconds <= TripSeconds[t]
  <1> DEFINE trips == UNION {answer[s].trips : s \in DOMAIN answer}
             with(g) == {t \in trips : TripSignature[t] = g}
             finders(g) == {s \in DOMAIN answer : answer[s].trips \cap with(g) # {}}
             slotOf(g) == [signature |-> g, foundIn |-> finders(g), seconds |-> BestSeconds(with(g))]
             signs == {TripSignature[t] : t \in trips}
  <1>1. Slots(answer) = {slotOf(g) : g \in signs}
    BY DEF Slots
  <1>2. IsFiniteSet(signs)
    <2> DEFINE of == [s \in DOMAIN answer |-> answer[s].trips]
               sign == [t \in trips |-> TripSignature[t]]
    <2>1. IsFiniteSet({of[s] : s \in DOMAIN answer})
      BY ImageOf
    <2>2. IsFiniteSet(trips)
      <3>1. \A X \in {of[s] : s \in DOMAIN answer} : IsFiniteSet(X)
        OBVIOUS
      <3>2. trips = UNION {of[s] : s \in DOMAIN answer}
        OBVIOUS
      <3> QED BY ONLY <2>1, <3>1, <3>2, FS_UNION
    <2> HIDE DEF trips
    <2>3. IsFiniteSet({sign[t] : t \in trips})
      BY <2>2, ImageOf
    <2>4. {sign[t] : t \in trips} = {TripSignature[t] : t \in trips}
      OBVIOUS
    <2> QED BY <2>3, <2>4
  <1>3. Cardinality(Slots(answer)) = Cardinality(signs)
    <2> DEFINE slot == [g \in signs |-> slotOf(g)]
    <2> HIDE DEF signs, finders, with
    <2>1. \A g, h \in signs : slot[g] = slot[h] => g = h
      OBVIOUS
    <2>2. DOMAIN slot = signs /\ slot = [g \in signs |-> slot[g]]
      OBVIOUS
    <2>3. Slots(answer) = {slot[g] : g \in signs}
      BY <1>1
    <2> HIDE DEF slot
    <2> QED BY <1>2, <2>1, <2>2, <2>3, ImageOf
  <1>4. ASSUME NEW g \in signs PROVE \A t \in with(g) : BestSeconds(with(g)) <= TripSeconds[t]
    <2> DEFINE times == {TripSeconds[t] : t \in with(g)}
    <2>1. times \in SUBSET Nat
      OBVIOUS
    <2>2. BestSeconds(with(g)) = Min(times)
      BY DEF BestSeconds
    <2> HIDE DEF times
    <2>3. times # {} => \A y \in times : Min(times) <= y
      BY <2>1, SmallestOf
    <2>4. \A t \in with(g) : TripSeconds[t] \in times
      BY DEF times
    <2> QED BY <2>2, <2>3, <2>4
  <1>5. ASSUME NEW g \in signs
        PROVE  /\ finders(g) = {s \in DOMAIN answer : {t \in answer[s].trips : TripSignature[t] = g} # {}}
               /\ \A s \in DOMAIN answer : {t \in answer[s].trips : TripSignature[t] = g} \subseteq with(g)
    OBVIOUS
  <1>6. ASSUME NEW g \in signs
        PROVE  slotOf(g).signature = g /\ slotOf(g).foundIn = finders(g)
               /\ slotOf(g).seconds = BestSeconds(with(g))
    OBVIOUS
  <1> HIDE DEF slotOf, finders, with, signs
  <1>7. ASSUME NEW slot \in Slots(answer)
        PROVE  LET has(s) == {t \in answer[s].trips : TripSignature[t] = slot.signature} IN
               /\ slot.foundIn = {s \in DOMAIN answer : has(s) # {}}
               /\ \A s \in DOMAIN answer : \A t \in has(s) : slot.seconds <= TripSeconds[t]
    <2>1. PICK g \in signs : slot = slotOf(g)
      BY <1>1
    <2>2. slot.signature = g /\ slot.foundIn = finders(g) /\ slot.seconds = BestSeconds(with(g))
      BY <1>6, <2>1
    <2> QED BY <1>4, <1>5, <2>2
  <1> QED BY <1>3, <1>7 DEF signs

\* A search goes on: whether it asks is what the gate has to count.
LEMMA SearchMoves ==
    ASSUME JourneyInv, NEW r \in Requests, search[r].pc # "done", NEW q, SearchHolds(q),
           search' = [search EXCEPT ![r] = q], recorded' = recorded, serving' = serving,
           DOMAIN gate' = {"limit", "inFlight"}, gate'.limit = gate.limit,
           gate'.inFlight = IF (q.pc = "asking") = (search[r].pc = "asking") THEN gate.inFlight
                            ELSE IF q.pc = "asking" THEN gate.inFlight + 1 ELSE gate.inFlight - 1
    PROVE  JourneyInv'
  <1> DEFINE asking == {x \in Requests : search[x].pc = "asking"}
             next == {x \in Requests : search'[x].pc = "asking"}
  <1>1. DOMAIN search = Requests /\ search'[r] = q /\ \A x \in Requests \ {r} : search'[x] = search[x]
    BY DEF JourneyInv
  <1>2. IsFiniteSet(asking) /\ Cardinality(asking) \in Nat /\ r \in Requests
    BY JourneyAssumption, FS_Subset, FS_CardinalityType
  <1>3. gate.inFlight = Cardinality(asking) /\ gate.limit \in Limits
    BY DEF JourneyInv, JourneyTypeOK
  <1>4. Cardinality(next) = gate'.inFlight
    <2>1. CASE (q.pc = "asking") = (search[r].pc = "asking")
      <3>1. next = asking
        BY <1>1, <2>1
      <3> QED BY <1>3, <2>1, <3>1
    <2>2. CASE q.pc = "asking" /\ search[r].pc # "asking"
      <3>1. next = asking \cup {r} /\ r \notin asking
        BY <1>1, <2>2
      <3>2. gate'.inFlight = gate.inFlight + 1
        BY <2>2
      <3> HIDE DEF asking, next
      <3>3. Cardinality(next) = Cardinality(asking) + 1
        BY <1>2, <3>1, FS_AddElement
      <3> QED BY <1>3, <3>2, <3>3
    <2>3. CASE q.pc # "asking" /\ search[r].pc = "asking"
      <3>1. next = asking \ {r} /\ r \in asking
        BY <1>1, <2>3
      <3>2. gate'.inFlight = gate.inFlight - 1
        BY <2>3
      <3> HIDE DEF asking, next
      <3>3. Cardinality(next) = Cardinality(asking) - 1
        BY <1>2, <3>1, FS_RemoveElement
      <3> QED BY <1>3, <3>2, <3>3
    <2> QED BY <2>1, <2>2, <2>3
  <1>5. JourneyTypeOK'
    BY <1>3, <1>4 DEF JourneyTypeOK
  <1>6. \A x \in Requests : SearchHolds(search'[x])
    BY <1>1 DEF JourneyInv
  <1>7. DOMAIN search' = Requests /\ DOMAIN recorded' = Requests /\ serving' \subseteq Engines
    BY DEF JourneyInv
  <1>8. \A x \in Requests : recorded'[x] # Absent =>
            /\ search'[x].pc = "done"
            /\ RowIsWhole(recorded'[x], search'[x]) /\ RowTellsTheTruth(recorded'[x])
    <2>1. recorded[r] = Absent
      BY DEF JourneyInv
    <2> QED BY <1>1, <2>1 DEF JourneyInv
  <1> QED BY <1>5, <1>6, <1>7, <1>8 DEF JourneyInv

\* The searches start with nothing asked.
LEMMA JourneyStart == JourneyInit => JourneyInv
  <1> SUFFICES ASSUME JourneyInit PROVE JourneyInv
    OBVIOUS
  <1>1. /\ gate \in [limit : Limits, inFlight : {0}] /\ serving = Engines
        /\ search = [r \in Requests |-> NewSearch] /\ recorded = [r \in Requests |-> Absent]
    BY DEF JourneyInit
  <1>2. {r \in Requests : search[r].pc = "asking"} = {}
    BY <1>1 DEF NewSearch
  <1>3. JourneyTypeOK
    BY <1>1, <1>2, FS_EmptySet DEF JourneyTypeOK
  <1>4. SearchHolds(NewSearch)
    <2>1. DOMAIN <<>> = {}
      OBVIOUS
    <2> QED BY <2>1 DEF SearchHolds, NewSearch
  <1> QED BY <1>1, <1>3, <1>4 DEF JourneyInv

\* A limit, a promotion or a snapshot: no search is touched.
LEMMA ChangesKeep ==
    /\ \A n \in Limits : JourneyInv /\ SetLimit(n) => JourneyInv'
    /\ \A s \in Engines : JourneyInv /\ (ChangeServing(s) \/ NewSnapshot(s)) => JourneyInv'
  <1>1. ASSUME JourneyInv, DOMAIN gate' = {"limit", "inFlight"}, gate'.limit \in Limits,
               gate'.inFlight = gate.inFlight, search' = search, recorded' = recorded,
               serving' \subseteq Engines
        PROVE  JourneyInv'
    BY <1>1 DEF JourneyInv, JourneyTypeOK
  <1>2. ASSUME JourneyInv, NEW n \in Limits, SetLimit(n) PROVE JourneyInv'
    BY <1>1, <1>2 DEF SetLimit, searchVars, JourneyInv
  <1>3. ASSUME JourneyInv, NEW s \in Engines, ChangeServing(s) \/ NewSnapshot(s) PROVE JourneyInv'
    BY <1>1, <1>3 DEF ChangeServing, NewSnapshot, JourneyInv, JourneyTypeOK
  <1> QED BY <1>2, <1>3

\* A search chooses its sessions.
LEMMA ChooseKeeps ==
    ASSUME JourneyInv, NEW r \in Requests, NEW kind \in {"fanout", "plan"}, NEW which \in SUBSET Engines,
           kind = "plan" => \A s, t \in which : s = t, Choose(r, kind, which)
    PROVE  JourneyInv'
  <1> DEFINE q == [pc |-> IF which = {} THEN "refused" ELSE "chosen", kind |-> kind,
                   sessions |-> which, answer |-> <<>>]
  <1>1. /\ search[r].pc = "new" /\ search' = [search EXCEPT ![r] = q]
        /\ UNCHANGED <<gate, serving, recorded>>
    BY DEF Choose
  <1>2. DOMAIN <<>> = {}
    OBVIOUS
  <1>3. SearchHolds(q) /\ q.pc # "asking"
    BY <1>2 DEF SearchHolds
  <1>4. DOMAIN gate = {"limit", "inFlight"}
    BY DEF JourneyInv
  <1> HIDE DEF q
  <1> QED BY <1>1, <1>3, <1>4, SearchMoves

\* A search enters the gate, or is refused at it.
LEMMA AcquireKeeps == \A r \in Requests : JourneyInv /\ Acquire(r) => JourneyInv'
  <1> SUFFICES ASSUME JourneyInv, NEW r \in Requests, Acquire(r) PROVE JourneyInv'
    OBVIOUS
  <1> DEFINE full == gate.inFlight >= gate.limit
             q == [search[r] EXCEPT !.pc = IF full THEN "refused" ELSE "asking"]
  <1>1. SearchHolds(search[r]) /\ search[r].pc = "chosen" /\ DOMAIN gate = {"limit", "inFlight"}
        /\ DOMAIN search = Requests
    BY DEF JourneyInv, Acquire
  <1>2. /\ gate' = IF full THEN gate ELSE [gate EXCEPT !.inFlight = @ + 1]
        /\ search' = [search EXCEPT ![r].pc = IF full THEN "refused" ELSE "asking"]
        /\ UNCHANGED <<serving, recorded>>
    BY DEF Acquire
  <1>3. search' = [search EXCEPT ![r] = q]
    BY <1>1, <1>2
  <1>4. /\ DOMAIN q = {"pc", "kind", "sessions", "answer"} /\ q.kind = search[r].kind
        /\ q.sessions = search[r].sessions /\ q.answer = search[r].answer
        /\ q.pc = IF full THEN "refused" ELSE "asking"
    BY <1>1 DEF SearchHolds
  <1>5. /\ DOMAIN gate' = {"limit", "inFlight"} /\ gate'.limit = gate.limit
        /\ gate'.inFlight = IF full THEN gate.inFlight ELSE gate.inFlight + 1
    BY <1>1, <1>2
  <1> HIDE DEF q, full
  <1>6. SearchHolds(q)
    BY <1>1, <1>4 DEF SearchHolds
  <1> QED BY <1>1, <1>2, <1>3, <1>4, <1>5, <1>6, SearchMoves

\* A session answers.
LEMMA AnsweredKeeps ==
    \A r \in Requests, s \in Engines, a \in AnswersOf : JourneyInv /\ Answered(r, s, a) => JourneyInv'
  <1> SUFFICES ASSUME JourneyInv, NEW r \in Requests, NEW s \in Engines, NEW a \in AnswersOf, Answered(r, s, a)
               PROVE  JourneyInv'
    OBVIOUS
  <1> DEFINE old == search[r].answer
             answer == [x \in DOMAIN old \cup {s} |-> IF x = s THEN a ELSE old[x]]
             q == [search[r] EXCEPT !.answer = answer]
  <1>1. SearchHolds(search[r]) /\ search[r].pc = "asking" /\ DOMAIN gate = {"limit", "inFlight"}
        /\ DOMAIN search = Requests /\ s \in search[r].sessions /\ s \notin DOMAIN old
    BY DEF JourneyInv, Answered
  <1>2. search' = [search EXCEPT ![r].answer = answer] /\ UNCHANGED <<gate, serving, recorded>>
    BY DEF Answered
  <1>3. DOMAIN answer = DOMAIN old \cup {s} /\ \A x \in DOMAIN answer : answer[x] = IF x = s THEN a ELSE old[x]
    OBVIOUS
  <1> HIDE DEF answer
  <1>4. search' = [search EXCEPT ![r] = q]
    BY <1>1, <1>2
  <1>5. /\ DOMAIN q = {"pc", "kind", "sessions", "answer"} /\ q.kind = search[r].kind
        /\ q.sessions = search[r].sessions /\ q.answer = answer /\ q.pc = "asking"
    BY <1>1 DEF SearchHolds
  <1> HIDE DEF q
  <1>6. SearchHolds(q)
    BY <1>1, <1>3, <1>5 DEF SearchHolds
  <1> QED BY <1>1, <1>2, <1>4, <1>5, <1>6, SearchMoves

\* A search leaves the gate: with every answer, or raised.
LEMMA LeavingKeeps == \A r \in Requests : JourneyInv /\ (AllAnswered(r) \/ Raised(r)) => JourneyInv'
  <1> SUFFICES ASSUME JourneyInv, NEW r \in Requests, AllAnswered(r) \/ Raised(r) PROVE JourneyInv'
    OBVIOUS
  <1>1. SearchHolds(search[r]) /\ search[r].pc = "asking" /\ DOMAIN gate = {"limit", "inFlight"}
        /\ DOMAIN search = Requests
    BY DEF JourneyInv, AllAnswered, Raised
  <1>2. gate' = [gate EXCEPT !.inFlight = @ - 1] /\ UNCHANGED <<serving, recorded>>
    BY DEF AllAnswered, Raised
  <1>3. /\ DOMAIN gate' = {"limit", "inFlight"} /\ gate'.limit = gate.limit
        /\ gate'.inFlight = gate.inFlight - 1
    BY <1>1, <1>2
  <1>4. CASE AllAnswered(r)
    <2> DEFINE q == [search[r] EXCEPT !.pc = "answered"]
    <2>1. search' = [search EXCEPT ![r] = q] /\ search[r].sessions = DOMAIN search[r].answer
      BY <1>1, <1>4 DEF AllAnswered
    <2>2. /\ DOMAIN q = {"pc", "kind", "sessions", "answer"} /\ q.kind = search[r].kind
          /\ q.sessions = search[r].sessions /\ q.answer = search[r].answer /\ q.pc = "answered"
      BY <1>1 DEF SearchHolds
    <2> HIDE DEF q
    <2>3. SearchHolds(q)
      BY <1>1, <2>1, <2>2 DEF SearchHolds
    <2> QED BY <1>1, <1>2, <1>3, <2>1, <2>2, <2>3, SearchMoves
  <1>5. CASE Raised(r)
    <2> DEFINE q == [search[r] EXCEPT !.pc = "failed", !.answer = <<>>]
    <2>1. search' = [search EXCEPT ![r] = q]
      BY <1>1, <1>5 DEF Raised
    <2>2. /\ DOMAIN q = {"pc", "kind", "sessions", "answer"} /\ q.kind = search[r].kind
          /\ q.sessions = search[r].sessions /\ q.answer = <<>> /\ q.pc = "failed"
      BY <1>1 DEF SearchHolds
    <2>3. DOMAIN <<>> = {}
      OBVIOUS
    <2> HIDE DEF q
    <2>4. SearchHolds(q)
      BY <1>1, <2>2, <2>3 DEF SearchHolds
    <2> QED BY <1>1, <1>2, <1>3, <2>1, <2>2, <2>4, SearchMoves
  <1> QED BY <1>4, <1>5

\* The rows of a search that was answered: what they say of it is so.
LEMMA RowsAreTrue ==
    ASSUME NEW q, SearchHolds(q), q.pc = "answered",
           NEW row, row = IF q.kind = "plan" THEN PlanRow(q) ELSE FanoutRow(q)
    PROVE  RowIsWhole(row, q) /\ RowTellsTheTruth(row)
  <1> DEFINE e == Executions(q)
             trips == UNION {q.answer[s].trips : s \in DOMAIN q.answer}
             statuses == {q.answer[s].status : s \in q.sessions}
  <1>1. /\ DOMAIN q.answer = q.sessions /\ q.sessions \subseteq Engines /\ q.sessions # {}
        /\ q.kind \in {"fanout", "plan"} /\ \A s \in q.sessions : q.answer[s] \in AnswersOf
        /\ q.kind = "plan" => \A s, t \in q.sessions : s = t
    BY DEF SearchHolds
  <1>2. IsFiniteSet(DOMAIN q.answer)
    BY <1>1, JourneyAssumption, FS_Subset
  <1>3. \A s \in DOMAIN q.answer : /\ IsFiniteSet(q.answer[s].trips)
                                   /\ \A t \in q.answer[s].trips : TripSeconds[t] \in Nat
                                   /\ q.answer[s].status \in {"ok", "no_route", "timeout", "error"}
    BY <1>1, AnswersAreFinite
  <1>4. DOMAIN e = q.sessions /\ \A s \in q.sessions : e[s].status = q.answer[s].status
                                                      /\ e[s].trips = q.answer[s].trips
    BY DEF Executions
  <1> HIDE DEF e
  <1>5. {e[s].status : s \in DOMAIN e} = statuses
    BY <1>4
  <1>6. UNION {e[s].trips : s \in DOMAIN e} = trips
    BY <1>1, <1>4
  <1>7. CASE q.kind = "plan"
    <2>1. PICK s \in q.sessions : s = CHOOSE x \in q.sessions : TRUE
      BY <1>1
    <2>2. q.sessions = {s} /\ statuses = {q.answer[s].status}
      BY <1>1, <1>7, <2>1
    <2>3. row.status = q.answer[s].status /\ row.executions = e /\ row.slots = {}
      BY <1>7, <2>1 DEF PlanRow, e
    <2>4. RowTellsTheTruth(row)
      BY <2>3 DEF RowTellsTheTruth
    <2>5. row.status # "partial" /\ (row.status = "ok") = (statuses = {"ok"})
      BY <1>1, <1>3, <2>2, <2>3
    <2> HIDE DEF statuses
    <2>6. RowIsWhole(row, q)
      BY <1>4, <1>5, <1>7, <2>3, <2>5 DEF RowIsWhole
    <2> QED BY <2>4, <2>6
  <1>8. CASE q.kind = "fanout"
    <2>1. /\ row.status = FanoutStatus(statuses) /\ row.executions = e
          /\ row.unique = Cardinality(Slots(q.answer)) /\ row.slots = Slots(q.answer)
      BY <1>8 DEF FanoutRow, e
    <2>2. /\ Cardinality(Slots(q.answer)) = Cardinality({TripSignature[t] : t \in trips})
          /\ \A slot \in Slots(q.answer) :
                LET has(s) == {t \in q.answer[s].trips : TripSignature[t] = slot.signature} IN
                /\ slot.foundIn = {s \in DOMAIN q.answer : has(s) # {}}
                /\ \A s \in DOMAIN q.answer : \A t \in has(s) : slot.seconds <= TripSeconds[t]
      BY <1>2, <1>3, SlotsTell
    <2>3. RowTellsTheTruth(row)
      <3> SUFFICES ASSUME NEW slot \in row.slots
                   PROVE  LET has(s) == {t \in row.executions[s].trips : TripSignature[t] = slot.signature} IN
                          /\ slot.foundIn = {s \in DOMAIN row.executions : has(s) # {}}
                          /\ \A s \in DOMAIN row.executions :
                                \A t \in has(s) : slot.seconds <= TripSeconds[t]
                          /\ (OriginFlag(slot, DOMAIN row.executions) = "ALL")
                                = (\A s \in DOMAIN row.executions : has(s) # {})
        BY Zenon DEF RowTellsTheTruth
      <3> DEFINE has(s) == {t \in e[s].trips : TripSignature[t] = slot.signature}
      <3>1. slot.foundIn = {s \in DOMAIN e : has(s) # {}}
        BY <1>1, <1>4, <2>1, <2>2
      <3>2. \A s \in DOMAIN e : \A t \in has(s) : slot.seconds <= TripSeconds[t]
        BY <1>1, <1>4, <2>1, <2>2
      <3>3. (OriginFlag(slot, DOMAIN e) = "ALL") <=> slot.foundIn = DOMAIN e
        BY DEF OriginFlag
      <3> HIDE DEF has
      <3>4. (OriginFlag(slot, DOMAIN e) = "ALL") = (\A s \in DOMAIN e : has(s) # {})
        BY <3>1, <3>3
      <3> QED BY <2>1, <3>1, <3>2, <3>4 DEF has
    <2>4. /\ row.status = "partial" => "ok" \in statuses /\ statuses # {"ok"}
          /\ (row.status = "ok") = (statuses = {"ok"})
      BY <2>1 DEF FanoutStatus
    <2>5. RowIsWhole(row, q)
      <3>1. /\ DOMAIN row.executions = q.sessions
            /\ {row.executions[s].status : s \in DOMAIN row.executions} = statuses
            /\ UNION {row.executions[s].trips : s \in DOMAIN row.executions} = trips
        BY <1>4, <1>5, <1>6, <2>1
      <3>2. row.unique = Cardinality({TripSignature[t] : t \in trips})
        BY <2>1, <2>2
      <3> HIDE DEF statuses, trips
      <3>3. row.unique = Cardinality({TripSignature[t] : t \in
                UNION {row.executions[s].trips : s \in DOMAIN row.executions}})
        BY ONLY <3>1, <3>2
      <3>4. (row.status = "ok") = ({row.executions[s].status : s \in DOMAIN row.executions} = {"ok"})
        BY <2>4, <3>1
      <3>5. row.status = "partial" =>
                /\ "ok" \in {row.executions[s].status : s \in DOMAIN row.executions}
                /\ {row.executions[s].status : s \in DOMAIN row.executions} # {"ok"}
        BY <2>4, <3>1
      <3> QED BY ONLY <1>8, <3>1, <3>3, <3>4, <3>5 DEF RowIsWhole
    <2> QED BY <2>3, <2>5
  <1> QED BY <1>1, <1>7, <1>8

\* A search is recorded.
LEMMA RecordKeeps == \A r \in Requests : JourneyInv /\ Record(r) => JourneyInv'
  <1> SUFFICES ASSUME JourneyInv, NEW r \in Requests, Record(r) PROVE JourneyInv'
    OBVIOUS
  <1> DEFINE q == search[r]
             row == IF q.kind = "plan" THEN PlanRow(q) ELSE FanoutRow(q)
             over == [q EXCEPT !.pc = "done", !.answer = <<>>]
  <1>1. /\ q.pc = "answered" /\ recorded' = [recorded EXCEPT ![r] = row]
        /\ search' = [search EXCEPT ![r] = over] /\ UNCHANGED <<gate, serving>>
    BY DEF Record
  <1>2. SearchHolds(q) /\ DOMAIN search = Requests /\ DOMAIN recorded = Requests
    BY DEF JourneyInv
  <1>3. DOMAIN <<>> = {}
    OBVIOUS
  <1>4. /\ DOMAIN over = {"pc", "kind", "sessions", "answer"} /\ over.kind = q.kind
        /\ over.sessions = q.sessions /\ over.answer = <<>> /\ over.pc = "done"
    BY <1>2 DEF SearchHolds
  <1>5. RowIsWhole(row, q) /\ RowTellsTheTruth(row)
    BY <1>1, <1>2, RowsAreTrue
  <1> HIDE DEF over, row
  <1>6. SearchHolds(over)
    BY <1>2, <1>3, <1>4 DEF SearchHolds
  <1>7. RowIsWhole(row, over)
    BY <1>4, <1>5 DEF RowIsWhole
  <1>8. /\ search'[r] = over /\ \A x \in Requests \ {r} : search'[x] = search[x]
        /\ recorded'[r] = row /\ \A x \in Requests \ {r} : recorded'[x] = recorded[x]
    BY <1>1, <1>2
  <1>9. JourneyTypeOK'
    <2>1. \A x \in Requests : (search'[x].pc = "asking") <=> (search[x].pc = "asking")
      BY <1>1, <1>4, <1>8
    <2>2. {x \in Requests : search'[x].pc = "asking"} = {x \in Requests : search[x].pc = "asking"}
      BY <2>1
    <2> QED BY <1>1, <2>2 DEF JourneyInv, JourneyTypeOK
  <1>10. \A x \in Requests : SearchHolds(search'[x])
    BY <1>6, <1>8 DEF JourneyInv
  <1>11. \A x \in Requests : recorded'[x] # Absent =>
            /\ search'[x].pc = "done"
            /\ RowIsWhole(recorded'[x], search'[x]) /\ RowTellsTheTruth(recorded'[x])
    BY <1>4, <1>5, <1>7, <1>8 DEF JourneyInv
  <1>12. /\ DOMAIN gate' = {"limit", "inFlight"} /\ DOMAIN search' = Requests
         /\ DOMAIN recorded' = Requests /\ serving' \subseteq Engines
    BY <1>1, <1>2 DEF JourneyInv
  <1> QED BY <1>9, <1>10, <1>11, <1>12 DEF JourneyInv

\* Every step of the searches, and every step elsewhere.
LEMMA JourneyGoesOn == JourneyInv /\ (JourneyNext \/ UNCHANGED journeyVars) => JourneyInv'
  <1>1. JourneyInv /\ UNCHANGED journeyVars => JourneyInv'
    <2> SUFFICES ASSUME JourneyInv, UNCHANGED journeyVars PROVE JourneyInv'
      OBVIOUS
    <2>1. UNCHANGED <<gate, serving, search, recorded>>
      BY DEF journeyVars, searchVars
    <2> QED BY <2>1 DEF JourneyInv, JourneyTypeOK
  <1>2. ASSUME JourneyInv, NEW r \in Requests, ChooseAny(r) PROVE JourneyInv'
    <2>1. CASE Choose(r, "fanout", serving)
      <3>1. serving \in SUBSET Engines
        BY <1>2 DEF JourneyInv
      <3> QED BY <1>2, <2>1, <3>1, ChooseKeeps
    <2>2. ASSUME NEW s \in Engines, Choose(r, "plan", {s} \cap serving) PROVE JourneyInv'
      <3>1. {s} \cap serving \in SUBSET Engines /\ \A x, y \in {s} \cap serving : x = y
        OBVIOUS
      <3> QED BY <1>2, <2>2, <3>1, ChooseKeeps
    <2> QED BY <1>2, <2>1, <2>2 DEF ChooseAny
  <1>3. JourneyInv /\ JourneyNext => JourneyInv'
    BY <1>2, ChangesKeep, AcquireKeeps, AnsweredKeeps, LeavingKeeps, RecordKeeps DEF JourneyNext, SearchStep
  <1> QED BY <1>1, <1>3

\* What a search promises.
LEMMA JourneyAgrees == JourneyInv => JourneyTypeOK /\ RecordIsWhole /\ SlotsTellTheTruth
  BY DEF JourneyInv, RecordIsWhole, SlotsTellTheTruth, RowIsWhole, RowTellsTheTruth

-----------------------------------------------------------------------------
(* The verdict of the OeBB engine *)

\* A stop that was found is one of the backend's, of a service without an error.
LidFound(answer, i) ==
    i \in DOMAIN answer.svc /\ answer.svc[i].err \in {Unknown, "OK"} /\ answer.svc[i].found[1] \in Lids

\* Both calls are answered before a search is told of; else the verdict is a failure.
VerdictInv ==
    /\ DOMAIN check = {"at", "resolved", "searched", "verdict"}
    /\ check.at \in {"resolve", "search", "told"}
    /\ check.at # "told" => check.searched = Unknown
    /\ check.at = "search" => LidFound(check.resolved, 1) /\ LidFound(check.resolved, 2)
    /\ check.at = "told" =>
         \/ check.searched = Unknown /\ \E why : check.verdict = Failed(why) /\ why # Unknown
         \/ /\ check.searched \in SearchAnswers
            /\ LidFound(check.resolved, 1) /\ LidFound(check.resolved, 2)
            /\ check.verdict = IF PostFailed(check.searched) THEN Failed(check.searched.http)
                               ELSE ParsedResponse(check.searched)

\* At first nothing is asked.
LEMMA VerdictStart == VerdictInit => VerdictInv
  BY DEF VerdictInit, VerdictInv

\* A place that has a location is a stop that was found (_extract_lids_from_locgeopos).
LEMMA StopIsFound ==
    ASSUME NEW answer \in ResolveAnswers, NEW i \in {1, 2}, LidAt(answer, i) # Unknown
    PROVE  LidFound(answer, i)
  <1>1. /\ i <= Len(answer.svc) /\ answer.svc[i].err \in {Unknown, "OK"}
        /\ answer.svc[i].found # <<>>
    BY DEF LidAt
  <1>2. answer.svc \in Seq(Range(answer.svc)) /\ \A s \in Range(answer.svc) : s.found \in Seq(Lids)
    BY VerdictAssumption DEF Envelope
  <1>3. i \in DOMAIN answer.svc /\ answer.svc[i] \in Range(answer.svc)
    BY <1>1, <1>2 DEF Range
  <1>4. answer.svc[i].found \in Seq(Lids)
    BY <1>2, <1>3
  <1>5. answer.svc[i].found[1] \in Lids
    BY <1>1, <1>4
  <1> QED BY <1>1, <1>3, <1>5 DEF LidFound

\* Every step of a check keeps it.
LEMMA VerdictStep == VerdictInv /\ (VerdictNext \/ UNCHANGED verdictVars) => VerdictInv'
  <1> SUFFICES ASSUME VerdictInv, VerdictNext \/ UNCHANGED verdictVars PROVE VerdictInv'
    OBVIOUS
  <1>1. CASE Resolve
    <2>1. PICK answer \in ResolveAnswers :
            LET failure == IF PostFailed(answer) THEN answer.http
                       ELSE IF EnvelopeRefused(answer) THEN "envelope"
                       ELSE IF Unknown \in {LidAt(answer, 1), LidAt(answer, 2)} THEN "no station"
                       ELSE Unknown
            IN check' = [check EXCEPT !.resolved = answer,
                       !.at = IF failure = Unknown THEN "search" ELSE "told",
                       !.verdict = IF failure = Unknown THEN Unknown ELSE Failed(failure)]
      BY <1>1 DEF Resolve
    <2> DEFINE failure == IF PostFailed(answer) THEN answer.http
                       ELSE IF EnvelopeRefused(answer) THEN "envelope"
                       ELSE IF Unknown \in {LidAt(answer, 1), LidAt(answer, 2)} THEN "no station"
                       ELSE Unknown
    <2>2. failure = Unknown => LidAt(answer, 1) # Unknown /\ LidAt(answer, 2) # Unknown
      BY VerdictAssumption DEF PostFailed
    <2>3. check.at = "resolve" /\ check.searched = Unknown
      BY <1>1 DEF Resolve, VerdictInv
    <2> HIDE DEF failure
    <2>4. /\ DOMAIN check' = {"at", "resolved", "searched", "verdict"}
          /\ check'.at = IF failure = Unknown THEN "search" ELSE "told"
          /\ check'.searched = Unknown /\ check'.resolved = answer
          /\ failure # Unknown => check'.verdict = Failed(failure)
      BY <2>1, <2>3 DEF VerdictInv, failure
    <2>5. failure = Unknown => LidFound(answer, 1) /\ LidFound(answer, 2)
      BY <2>2, StopIsFound
    <2> QED BY <2>4, <2>5 DEF VerdictInv
  <1>2. CASE SearchTrip
    <2>1. PICK answer \in SearchAnswers :
            check' = [check EXCEPT !.at = "told", !.searched = answer,
                     !.verdict = IF PostFailed(answer) THEN Failed(answer.http)
                                 ELSE ParsedResponse(answer)]
      BY <1>2 DEF SearchTrip
    <2>2. check.at = "search"
      BY <1>2 DEF SearchTrip
    <2> QED BY <2>1, <2>2 DEF VerdictInv
  <1>3. CASE UNCHANGED verdictVars
    BY <1>3 DEF verdictVars, VerdictInv
  <1> QED BY <1>1, <1>2, <1>3 DEF VerdictNext

\* A search that was answered, when it gives a verdict without an error.
LEMMA AnsweredSearch ==
    ASSUME NEW answer \in SearchAnswers, ~PostFailed(answer), ParsedResponse(answer).error = Unknown
    PROVE  /\ answer.http = "ok" /\ answer.err \in {Unknown, "OK"}
           /\ answer.svc[1] \in Range(answer.svc)
           /\ \/ answer.svc[1].err = "H890" /\ ParsedResponse(answer) = NoService
              \/ /\ answer.svc[1].err \in {Unknown, "OK"}
                 /\ ParsedResponse(answer) = Summarised(answer.svc[1].found)
  <1>1. answer.http = "ok"
    BY VerdictAssumption DEF Envelope, PostFailed
  <1>2. \A why : Failed(why).error = why
    BY DEF Failed
  <1>3. ~EnvelopeRefused(answer) /\ answer.svc # <<>>
    BY <1>2, VerdictAssumption DEF ParsedResponse
  <1>4. answer.svc[1] \in Range(answer.svc)
    <2>1. answer.svc \in Seq(Range(answer.svc))
      BY VerdictAssumption DEF Envelope
    <2>2. 1 \in DOMAIN answer.svc
      BY <1>3, <2>1
    <2> QED BY <2>2 DEF Range
  <1>5. \/ answer.svc[1].err = "H890" /\ ParsedResponse(answer) = NoService
        \/ /\ answer.svc[1].err \in {Unknown, "OK"}
           /\ ParsedResponse(answer) = Summarised(answer.svc[1].found)
    BY <1>2, <1>3 DEF ParsedResponse
  <1> QED BY <1>1, <1>3, <1>4, <1>5 DEF EnvelopeRefused

\* A duration is a number of seconds.
LEMMA SecondsAreNumbers == \A d \in Nat : DurationSeconds(d) \in Nat
  <1> TAKE d \in Nat
  <1>1. d # Unknown
    BY VerdictAssumption
  <1>2. /\ d \div 1000000 \in Nat /\ (d \div 10000) % 100 \in Nat
        /\ (d \div 100) % 100 \in Nat /\ d % 100 \in Nat
    OBVIOUS
  <1> QED BY <1>1, <1>2 DEF DurationSeconds

\* A summary tells the shortest of the connections that can be read, and when all can be read
\* the changes of such a one.
TellsTheShortest(c, v) ==
    LET read == {i \in DOMAIN c : c[i].dur # Unknown}
        whole == \A i \in DOMAIN c : Unknown \notin {c[i].dur, c[i].chg}
        Seconds(i) == DurationSeconds(c[i].dur)
    IN /\ v.seconds = Unknown <=> read = {}
       /\ read # {} => v.seconds = Min({Seconds(i) : i \in read})
       /\ whole => \E i \in read : Seconds(i) = v.seconds /\ c[i].chg = v.changes

LEMMA SummaryIsTrue ==
    ASSUME NEW c, c \in Seq(Range(c)), \A x \in Range(c) : x.dur \in Nat \cup {Unknown}
    PROVE  /\ Summarised(c).ok => TellsTheShortest(c, Summarised(c))
           /\ ~Summarised(c).ok => c = <<>>
           /\ Summarised(c).error = Unknown
  <1> DEFINE v == Summarised(c)
             seconds == [i \in DOMAIN c |-> DurationSeconds(c[i].dur)]
             read    == {i \in DOMAIN c : c[i].dur # Unknown}
             counted == {i \in DOMAIN c : c[i].chg # Unknown}
             least   == {i \in read : \A j \in read : seconds[i] <= seconds[j]}
             best    == FirstLeast(seconds, read)
             there   == {i \in counted : PlaceAmong(counted, i) = PlaceAmong(read, best)}
             whole   == \A i \in DOMAIN c : Unknown \notin {c[i].dur, c[i].chg}
             values  == {DurationSeconds(c[i].dur) : i \in read}
  <1>1. CASE c = <<>>
    <2>1. v = NoService
      BY <1>1 DEF Summarised
    <2> QED BY <1>1, <2>1 DEF NoService
  <1>2. CASE c # <<>>
    <2>1. v = [ok |-> TRUE, count |-> Len(c),
             seconds |-> IF read = {} THEN Unknown ELSE seconds[best],
             changes |-> IF read = {} \/ there = {} THEN Unknown ELSE c[Min(there)].chg,
             error |-> Unknown]
      BY <1>2 DEF Summarised
    <2>2. Len(c) \in Nat /\ Len(c) >= 1 /\ DOMAIN c = 1..Len(c)
      BY <1>2
    <2>3. ASSUME NEW i \in read PROVE seconds[i] \in Nat /\ seconds[i] = DurationSeconds(c[i].dur)
      <3>1. i \in DOMAIN c /\ c[i] \in Range(c)
        BY DEF Range
      <3>2. c[i].dur \in Nat
        BY <3>1
      <3> QED BY <3>1, <3>2, SecondsAreNumbers
    <2>4. read \in SUBSET Nat /\ counted \in SUBSET Nat
      BY <2>2
    <2>5. ASSUME read # {}
          PROVE  /\ best \in read /\ \A j \in read : seconds[best] <= seconds[j]
                 /\ seconds[best] = Min(values)
      <3>1. values \in SUBSET Nat /\ values # {}
        BY <2>3, <2>5
      <3>2. Min(values) \in values /\ \A y \in values : Min(values) <= y
        <4> HIDE DEF values
        <4> QED BY <3>1, SmallestOf
      <3>3. PICK i \in read : Min(values) = DurationSeconds(c[i].dur)
        BY <3>2
      <3>4. \A j \in read : DurationSeconds(c[j].dur) \in values
        OBVIOUS
      <3> HIDE DEF values, read, seconds
      <3>5. i \in least
        BY <2>3, <3>2, <3>3, <3>4
      <3>6. least \in SUBSET Nat /\ least # {}
        BY <2>4, <3>5
      <3> HIDE DEF least
      <3>7. Min(least) \in least
        BY <3>6, SmallestOf
      <3>8. best = Min(least)
        BY DEF FirstLeast, least
      <3>9. best \in read /\ \A j \in read : seconds[best] <= seconds[j]
        BY <3>7, <3>8 DEF least
      <3>10. seconds[best] <= Min(values) /\ Min(values) <= seconds[best]
        BY <2>3, <3>2, <3>3, <3>4, <3>9
      <3>11. seconds[best] \in Nat /\ Min(values) \in Nat
        BY <2>3, <3>1, <3>2, <3>9
      <3> HIDE DEF best
      <3> QED BY <3>9, <3>10, <3>11
    <2>6. ASSUME whole PROVE there = {best} /\ best \in read
      <3>1. read = 1..Len(c) /\ counted = 1..Len(c)
        BY <2>2, <2>6
      <3> HIDE DEF read, counted, whole
      <3>2. best \in 1..Len(c) /\ read # {}
        BY <2>2, <2>5, <3>1
      <3> HIDE DEF best
      <3>3. ASSUME NEW i \in 1..Len(c) PROVE PlaceAmong(1..Len(c), i) = i
        <4>1. {j \in 1..Len(c) : j <= i} = 1..i
          BY <2>2
        <4>2. Cardinality(1..i) = i
          BY <2>2, FS_Interval
        <4> QED BY <4>1, <4>2 DEF PlaceAmong
      <3> QED BY <3>1, <3>2, <3>3
    <2>7. v.ok /\ v.error = Unknown
      BY <2>1
    <2>8. v.seconds = Unknown <=> read = {}
      <3>1. read # {} => seconds[best] \in Nat
        BY <2>3, <2>5
      <3> HIDE DEF read, seconds, best, there
      <3>2. Unknown \notin Nat
        BY VerdictAssumption
      <3>3. v.seconds = IF read = {} THEN Unknown ELSE seconds[best]
        BY <2>1
      <3> HIDE DEF v
      <3> QED BY <3>1, <3>2, <3>3
    <2>9. read # {} => v.seconds = Min(values)
      <3> HIDE DEF read, seconds, best, there, values
      <3> QED BY <2>1, <2>5
    <2>10. whole => \E i \in read : DurationSeconds(c[i].dur) = v.seconds /\ c[i].chg = v.changes
      <3> SUFFICES ASSUME whole PROVE DurationSeconds(c[best].dur) = v.seconds /\ c[best].chg = v.changes
        BY <2>6
      <3>1. Min({best}) = best
        <4>1. best \in Nat
          BY <2>4, <2>6
        <4> HIDE DEF best
        <4>2. {best} \in SUBSET Nat /\ {best} # {}
          BY <4>1
        <4> QED BY <4>2, SmallestOf
      <3>2. read # {} /\ there = {best} /\ DurationSeconds(c[best].dur) = seconds[best]
        BY <2>3, <2>6
      <3> HIDE DEF read, seconds, best, there
      <3> QED BY <2>1, <3>1, <3>2
    <2>11. TellsTheShortest(c, v)
      <3> HIDE DEF v
      <3> QED BY <2>8, <2>9, <2>10 DEF TellsTheShortest
    <2> QED BY <2>7, <2>11
  <1> QED BY <1>1, <1>2

\* What the invariant says of a verdict, in the words of the properties.
LEMMA VerdictIsTrue ==
    VerdictInv => NoServiceIsSaid /\ SearchedBetweenStations /\ BestIsTheShortest
  <1> SUFFICES ASSUME VerdictInv
               PROVE  NoServiceIsSaid /\ SearchedBetweenStations /\ BestIsTheShortest
    OBVIOUS
  <1>1. SearchedBetweenStations
    BY VerdictAssumption DEF VerdictInv, SearchedBetweenStations, LidFound
  <1>2. ASSUME check.at = "told", check.verdict.ok \/ check.verdict.error = Unknown
        PROVE  /\ check.searched \in SearchAnswers /\ ~PostFailed(check.searched)
               /\ check.verdict = ParsedResponse(check.searched)
    <2>1. \A why : ~Failed(why).ok /\ Failed(why).error = why
      BY DEF Failed
    <2>2. \A answer \in SearchAnswers : answer.http # Unknown
      BY VerdictAssumption DEF Envelope
    <2> QED BY <1>2, <2>1, <2>2 DEF VerdictInv
  <1> DEFINE answer == check.searched
  <1>3. ASSUME check.at = "told", check.verdict.ok PROVE check.verdict.error = Unknown
    <2>1. \A why : ~Failed(why).ok
      BY DEF Failed
    <2>2. NoService.error = Unknown
      BY DEF NoService
    <2>3. \A c : Summarised(c).error = Unknown
      BY <2>2 DEF Summarised
    <2> QED BY <1>2, <1>3, <2>1, <2>2, <2>3 DEF ParsedResponse
  <1>4. ASSUME check.at = "told", check.verdict.error = Unknown
        PROVE  LET c == answer.svc[1].found
               IN c \in Seq(Range(c)) /\ \A x \in Range(c) : x.dur \in Nat \cup {Unknown}
    <2>1. answer \in SearchAnswers /\ answer.svc[1] \in Range(answer.svc)
      BY <1>2, <1>4, AnsweredSearch
    <2> QED BY <2>1, VerdictAssumption
  <1>5. NoServiceIsSaid
    <2> SUFFICES ASSUME check.at = "told", ~check.verdict.ok, check.verdict.error = Unknown
                 PROVE  /\ answer # Unknown /\ answer.http = "ok" /\ answer.err \in {Unknown, "OK"}
                        /\ \/ answer.svc[1].err = "H890"
                           \/ answer.svc[1].err \in {Unknown, "OK"} /\ answer.svc[1].found = <<>>
      BY DEF NoServiceIsSaid
    <2>1. answer \in SearchAnswers /\ ~PostFailed(answer) /\ check.verdict = ParsedResponse(answer)
      BY <1>2
    <2>2. answer # Unknown
      BY <2>1, VerdictAssumption DEF Envelope
    <2>3. Summarised(answer.svc[1].found).ok \/ answer.svc[1].found = <<>>
      BY <1>4, SummaryIsTrue
    <2> HIDE DEF answer
    <2> QED BY <2>1, <2>2, <2>3, AnsweredSearch
  <1>6. BestIsTheShortest
    <2> SUFFICES ASSUME check.at = "told", check.verdict.ok
                 PROVE  TellsTheShortest(answer.svc[1].found, check.verdict)
      BY DEF BestIsTheShortest, TellsTheShortest
    <2>1. answer \in SearchAnswers /\ ~PostFailed(answer) /\ check.verdict = ParsedResponse(answer)
      BY <1>2
    <2>2. check.verdict = Summarised(answer.svc[1].found)
      <3>1. ~NoService.ok
        BY DEF NoService
      <3> HIDE DEF answer
      <3> QED BY <1>3, <2>1, <3>1, AnsweredSearch
    <2> QED BY <1>3, <1>4, <2>2, SummaryIsTrue, SMTT(30)
  <1> QED BY <1>1, <1>5, <1>6

-----------------------------------------------------------------------------
(* The tokens of stops *)

\* What is known of the location, and of its token once it has one.
TokenInv ==
    /\ DOMAIN located = {"ext", "lid"} /\ ChosenId(located.ext, located.lid) \in Seq(Nat)
    /\ token # NoToken => token = StopToken(located.ext, located.lid)

\* A slice from a place to the end, and one of all.
LEMMA Suffix ==
    ASSUME NEW s \in Seq(Nat), NEW k \in 1..Len(s)
    PROVE  LET r == SubSeq(s, k, Len(s))
           IN /\ r \in Seq(Nat) /\ Len(r) = Len(s) - k + 1
              /\ \A i \in 1..Len(r) : r[i] = s[k + i - 1]
  <1>1. Len(s) \in Nat /\ k \in Nat /\ k <= Len(s) /\ Len(s) \in Nat /\ k >= 1
    OBVIOUS
  <1>2. \A i \in k..Len(s) : s[i] \in Nat
    BY <1>1
  <1> DEFINE l == Len(s)
  <1>3. l \in Nat
    OBVIOUS
  <1> HIDE DEF l
  <1>4. /\ SubSeq(s, k, l) \in Seq(Nat)
        /\ Len(SubSeq(s, k, l)) = IF k <= l THEN l - k + 1 ELSE 0
        /\ \A i \in 1..(l - k + 1) : SubSeq(s, k, l)[i] = s[k + i - 1]
    BY <1>1, <1>2, <1>3, SubSeqProperties DEF l
  <1>5. Len(SubSeq(s, k, l)) = l - k + 1
    BY <1>1, <1>4 DEF l
  <1> QED BY <1>4, <1>5 DEF l

\* A list cut from its first place to its last is the list.
LEMMA AllOfIt == ASSUME NEW s \in Seq(Nat) PROVE SubSeq(s, 1, Len(s)) = s
  <1>1. CASE s = <<>>
    BY <1>1
  <1>2. CASE s # <<>>
    <2> DEFINE r == SubSeq(s, 1, Len(s))
    <2>1. Len(s) \in Nat /\ 1 \in 1..Len(s)
      BY <1>2
    <2>2. r \in Seq(Nat) /\ Len(r) = Len(s) - 1 + 1 /\ \A i \in 1..Len(r) : r[i] = s[1 + i - 1]
      BY <2>1, Suffix
    <2> HIDE DEF r
    <2>3. Len(r) = Len(s) /\ \A i \in 1..Len(r) : r[i] = s[i]
      BY <2>1, <2>2
    <2>4. r = s
      BY <2>2, <2>3, SeqEqual
    <2> QED BY <2>4 DEF r
  <1> QED BY <1>1, <1>2

\* An id without its leading zeros: what follows from the first other character.
Kept(id) == {i \in DOMAIN id : id[i] # 0}
LEMMA StripsZeros ==
    ASSUME NEW id \in Seq(Nat)
    PROVE  /\ Kept(id) = {} => Stripped(id) = <<>>
           /\ Kept(id) # {} => /\ Min(Kept(id)) \in Kept(id)
                               /\ \A j \in Kept(id) : Min(Kept(id)) <= j
                               /\ Stripped(id) = SubSeq(id, Min(Kept(id)), Len(id))
           /\ Stripped(id) \in Seq(Nat) /\ (AllDigits(id) => AllDigits(Stripped(id)))
  <1>1. Stripped(id) = IF Kept(id) = {} THEN <<>> ELSE SubSeq(id, Min(Kept(id)), Len(id))
    BY DEF Stripped, Kept
  <1>2. Kept(id) \in SUBSET Nat
    BY DEF Kept
  <1>3. CASE Kept(id) = {}
    BY <1>1, <1>3 DEF AllDigits
  <1>4. CASE Kept(id) # {}
    <2> DEFINE k == Min(Kept(id))
               r == SubSeq(id, k, Len(id))
    <2>1. k \in Kept(id) /\ \A j \in Kept(id) : k <= j
      BY <1>2, <1>4, SmallestOf
    <2>2. k \in 1..Len(id)
      BY <2>1 DEF Kept
    <2> HIDE DEF k
    <2>3. r \in Seq(Nat) /\ Len(r) = Len(id) - k + 1 /\ \A i \in 1..Len(r) : r[i] = id[k + i - 1]
      BY <2>2, Suffix
    <2> HIDE DEF r
    <2>4. \A i \in DOMAIN r : r[i] = id[k + i - 1] /\ k + i - 1 \in DOMAIN id
      <3> TAKE i \in DOMAIN r
      <3>1. DOMAIN r = 1..Len(r) /\ DOMAIN id = 1..Len(id) /\ Len(id) \in Nat
        BY <2>3
      <3>2. i \in Nat /\ 1 <= i /\ i <= Len(id) - k + 1 /\ i \in 1..Len(r)
        BY <2>2, <2>3, <3>1
      <3>3. k + i - 1 \in 1..Len(id)
        BY <2>2, <3>1, <3>2
      <3> QED BY <2>3, <3>1, <3>2, <3>3
    <2>5. AllDigits(id) => AllDigits(r)
      BY <2>4 DEF AllDigits
    <2> QED BY <1>1, <1>4, <2>1, <2>3, <2>5 DEF k, r
  <1> QED BY <1>3, <1>4

\* A zero before an id leaves the number it is.
LEMMA ZeroBefore ==
    ASSUME NEW id \in Seq(Nat)
    PROVE  /\ <<0>> \o id \in Seq(Nat) /\ <<0>> \o id # <<>> /\ Len(<<0>> \o id) = Len(id) + 1
           /\ AllDigits(id) => AllDigits(<<0>> \o id)
           /\ Stripped(<<0>> \o id) = Stripped(id)
  <1> DEFINE z == <<0>> \o id
  <1>1. /\ z \in Seq(Nat) /\ Len(z) = Len(id) + 1 /\ Len(id) \in Nat /\ z[1] = 0
        /\ \A i \in 1..Len(id) : z[i + 1] = id[i]
    OBVIOUS
  <1> HIDE DEF z
  <1>2. DOMAIN z = 1..(Len(id) + 1) /\ DOMAIN id = 1..Len(id)
    BY <1>1
  <1>3. \A i \in DOMAIN z : i = 1 \/ (i - 1 \in DOMAIN id /\ z[i] = id[i - 1])
    <2> TAKE i \in DOMAIN z
    <2>1. i = 1 \/ i - 1 \in 1..Len(id)
      BY <1>1, <1>2
    <2>2. i - 1 \in 1..Len(id) => z[(i - 1) + 1] = id[i - 1] /\ (i - 1) + 1 = i
      BY <1>1, <1>2, SMTT(30)
    <2> QED BY <1>2, <2>1, <2>2
  <1>4. AllDigits(id) => AllDigits(z)
    <2>1. Digit(0)
      BY DEF Digit
    <2>2. AllDigits(id) => \A i \in DOMAIN z : Digit(z[i])
      BY <1>1, <1>3, <2>1 DEF AllDigits
    <2> QED BY <2>2 DEF AllDigits
  <1>5. \A i \in Kept(z) : i - 1 \in Kept(id)
    BY <1>1, <1>3 DEF Kept
  <1>6. \A i \in Kept(id) : i + 1 \in Kept(z)
    BY <1>1, <1>2 DEF Kept
  <1>7. Stripped(z) = Stripped(id)
    <2>1. CASE Kept(id) = {}
      <3>1. Kept(z) = {}
        BY <1>5, <2>1
      <3> QED BY <1>1, <2>1, <3>1, StripsZeros
    <2>2. CASE Kept(id) # {}
      <3> DEFINE k == Min(Kept(id))
                 l == Min(Kept(z))
                 r == SubSeq(id, k, Len(id))
                 q == SubSeq(z, l, Len(z))
      <3>1. k \in Kept(id) /\ (\A j \in Kept(id) : k <= j) /\ Stripped(id) = r
        BY <2>2, StripsZeros
      <3>2. Kept(z) # {}
        BY <1>6, <2>2
      <3>3. l \in Kept(z) /\ (\A j \in Kept(z) : l <= j) /\ Stripped(z) = q
        BY <1>1, <3>2, StripsZeros
      <3> HIDE DEF k, l
      <3>4. k \in 1..Len(id) /\ l \in 1..(Len(id) + 1)
        BY <1>2, <3>1, <3>3 DEF Kept
      <3>5. l = k + 1
        <4>1. l <= k + 1 /\ k <= l - 1
          BY <1>5, <1>6, <3>1, <3>3
        <4> QED BY <1>1, <3>4, <4>1
      <3>6. r \in Seq(Nat) /\ Len(r) = Len(id) - k + 1 /\ \A i \in 1..Len(r) : r[i] = id[k + i - 1]
        BY <3>4, Suffix
      <3>7. q \in Seq(Nat) /\ Len(q) = Len(z) - l + 1 /\ \A i \in 1..Len(q) : q[i] = z[l + i - 1]
        <4>1. l \in 1..Len(z)
          BY <1>1, <3>4
        <4> QED BY <1>1, <4>1, Suffix
      <3> HIDE DEF r, q
      <3>8. Len(q) = Len(r)
        BY <1>1, <3>4, <3>5, <3>6, <3>7
      <3>9. ASSUME NEW i \in 1..Len(r) PROVE q[i] = r[i]
        <4>1. k + i - 1 \in 1..Len(id) /\ l + i - 1 = (k + i - 1) + 1
          BY <1>1, <3>4, <3>5, <3>6
        <4>2. z[(k + i - 1) + 1] = id[k + i - 1]
          BY <1>1, <4>1
        <4> QED BY <3>6, <3>7, <3>8, <4>1, <4>2
      <3>10. q = r
        BY <3>6, <3>7, <3>8, <3>9, SeqEqual
      <3> QED BY <3>1, <3>3, <3>10
    <2> QED BY <2>1, <2>2
  <1>8. z # <<>>
    BY <1>1
  <1> QED BY <1>1, <1>4, <1>7, <1>8 DEF z

\* The run of digits in a number is all of it, or there is none of that width.
LEMMA RunOfANumber ==
    ASSUME NEW text \in Seq(Nat), AllDigits(text)
    PROVE  FirstRun(text) = IF Len(text) \in {UicWidth, UicWidth + 1}
                            THEN SubSeq(text, 1, UicWidth) ELSE <<>>
  <1> DEFINE runs == {r \in (DOMAIN text) \X (DOMAIN text) :
                    /\ r[2] - r[1] + 1 \in {UicWidth, UicWidth + 1}
                    /\ \A k \in r[1]..r[2] : Digit(text[k])
                    /\ r[1] = 1 \/ ~Digit(text[r[1] - 1])
                    /\ r[2] = Len(text) \/ ~Digit(text[r[2] + 1])}
  <1>1. FirstRun(text) = IF runs = {} THEN <<>>
            ELSE LET i == Min({r[1] : r \in runs}) IN SubSeq(text, i, i + UicWidth - 1)
    BY DEF FirstRun
  <1>2. Len(text) \in Nat /\ DOMAIN text = 1..Len(text) /\ UicWidth \in Nat /\ UicWidth > 1
    BY TokenAssumption
  <1>3. \A k \in 1..Len(text) : Digit(text[k])
    BY <1>2 DEF AllDigits
  <1> HIDE DEF runs
  <1>9. /\ \A a \in 1..Len(text) : a = 1 \/ a - 1 \in 1..Len(text)
        /\ \A a \in 1..Len(text) : a = Len(text) \/ a + 1 \in 1..Len(text)
    <2> DEFINE l == Len(text)
    <2>1. l \in Nat
      BY <1>2
    <2> HIDE DEF l
    <2>2. \A a \in 1..l : a = 1 \/ a - 1 \in 1..l
      BY <2>1
    <2>3. \A a \in 1..l : a = l \/ a + 1 \in 1..l
      BY <2>1
    <2> QED BY <2>2, <2>3 DEF l
  <1> USE DEF runs
  <1>4. ASSUME NEW r \in runs PROVE r[1] = 1 /\ r[2] = Len(text) /\ Len(text) \in {UicWidth, UicWidth + 1}
    <2>1. r[1] \in 1..Len(text) /\ r[2] \in 1..Len(text)
      BY <1>2
    <2>2. r[1] = 1
      <3>1. r[1] = 1 \/ r[1] - 1 \in 1..Len(text)
        BY <1>9, <2>1
      <3> QED BY <1>3, <3>1
    <2>3. r[2] = Len(text)
      <3>1. r[2] = Len(text) \/ r[2] + 1 \in 1..Len(text)
        BY <1>9, <2>1
      <3> QED BY <1>3, <3>1
    <2>4. r[2] - r[1] + 1 \in {UicWidth, UicWidth + 1}
      OBVIOUS
    <2>5. Len(text) - 1 + 1 \in {UicWidth, UicWidth + 1}
      BY <2>2, <2>3, <2>4
    <2>6. Len(text) - 1 + 1 = Len(text)
      BY <1>2
    <2> QED BY <2>2, <2>3, <2>5, <2>6
  <1>5. CASE Len(text) \in {UicWidth, UicWidth + 1}
    <2> DEFINE r == <<1, Len(text)>>
    <2>1. r \in runs
      <3> DEFINE l == Len(text)
      <3>1. l \in Nat /\ l \in {UicWidth, UicWidth + 1} /\ DOMAIN text = 1..l
        BY <1>2, <1>5, Zenon
      <3> HIDE DEF l
      <3>2. 1 \in 1..l /\ l \in 1..l /\ l - 1 + 1 = l
        BY <1>2, <3>1
      <3>3. r \in (DOMAIN text) \X (DOMAIN text) /\ r[1] = 1 /\ r[2] = l
        BY <3>1, <3>2 DEF l
      <3> HIDE DEF r
      <3>4. r[2] - r[1] + 1 \in {UicWidth, UicWidth + 1}
        BY <3>1, <3>2, <3>3
      <3>5. \A k \in r[1]..r[2] : Digit(text[k])
        BY <1>3, <3>3 DEF l
      <3> QED BY <3>3, <3>4, <3>5 DEF l
    <2>2. r[1] = 1
      OBVIOUS
    <2> HIDE DEF r, runs
    <2>3. {x[1] : x \in runs} = {1}
      BY <1>4, <2>1, <2>2
    <2>4. Min({1}) = 1
      <3>1. {1} \in SUBSET Nat /\ {1} # {}
        OBVIOUS
      <3>2. Min({1}) \in {1}
        BY <3>1, SmallestOf
      <3> QED BY <3>2
    <2>5. 1 + UicWidth - 1 = UicWidth
      BY <1>2
    <2> QED BY <1>1, <1>5, <2>1, <2>3, <2>4, <2>5
  <1>6. CASE Len(text) \notin {UicWidth, UicWidth + 1}
    <2>1. runs = {}
      BY <1>4, <1>6
    <2> HIDE DEF runs
    <2> QED BY <1>1, <1>6, <2>1
  <1> QED BY <1>5, <1>6

\* What an id short enough is stored as.
LEMMA PayloadOfShort ==
    ASSUME NEW id \in Seq(Nat), Len(id) <= PayloadMax
    PROVE  OpaquePayload(id) = IF ~AllDigits(id) THEN id
                               ELSE IF Stripped(id) = <<>> THEN <<0>> ELSE Stripped(id)
  <1> DEFINE two == {Len(id), PayloadMax}
  <1>1. two \in SUBSET Nat /\ two # {} /\ Len(id) \in two
    BY TokenAssumption
  <1>2. Min(two) \in two /\ \A y \in two : Min(two) <= y
    <2> HIDE DEF two
    <2> QED BY <1>1, SmallestOf
  <1>3. Min(two) = Len(id)
    <2> DEFINE m == Min(two)
    <2>1. m <= Len(id) /\ (m = Len(id) \/ m = PayloadMax) /\ Len(id) \in Nat /\ PayloadMax \in Nat
      BY <1>1, <1>2, TokenAssumption
    <2> HIDE DEF m
    <2>2. m = Len(id)
      BY <2>1
    <2> QED BY <2>2 DEF m
  <1>4. SubSeq(id, 1, Min({Len(id), PayloadMax})) = id
    BY <1>3, AllOfIt
  <1> QED BY <1>4 DEF OpaquePayload

\* A location starts without a token.
LEMMA TokenStart == TokenInit => TokenInv
  <1> SUFFICES ASSUME TokenInit PROVE TokenInv
    OBVIOUS
  <1>1. /\ located.ext \in ExtIds /\ located.lid \in LidFields /\ DOMAIN located = {"ext", "lid"}
        /\ token = NoToken
    BY DEF TokenInit
  <1>2. LidField(located.lid, "L") \in Seq(Nat)
    <2> DEFINE lid == located.lid
               named == {i \in DOMAIN lid : lid[i].key = "L"}
    <2>1. lid \in Seq(Range(lid)) /\ \A field \in Range(lid) : field.value \in Seq(Nat)
      BY <1>1, TokenAssumption
    <2> HIDE DEF lid
    <2>2. named # {} => Min(named) \in DOMAIN lid
      <3>1. named \in SUBSET Nat
        BY <2>1
      <3>2. named # {} => Min(named) \in named
        <4> HIDE DEF named
        <4> QED BY <3>1, SmallestOf
      <3> QED BY <3>2
    <2>3. named # {} => lid[Min(named)].value \in Seq(Nat)
      BY <2>1, <2>2 DEF Range
    <2>4. LidField(lid, "L") = IF named = {} THEN <<>> ELSE lid[Min(named)].value
      BY DEF LidField
    <2> HIDE DEF named
    <2>5. LidField(lid, "L") \in Seq(Nat)
      <3>1. <<>> \in Seq(Nat)
        OBVIOUS
      <3>2. CASE named = {}
        BY <2>4, <3>1, <3>2
      <3>3. CASE named # {}
        BY <2>3, <2>4, <3>3
      <3> QED BY <3>2, <3>3
    <2> QED BY <2>5 DEF lid
  <1> QED BY <1>1, <1>2, TokenAssumption DEF TokenInv, ChosenId

\* Without a location there is nothing to classify.
LEMMA TokenRests == TokenAtRest => TokenInv
  <1> SUFFICES ASSUME TokenAtRest PROVE TokenInv
    OBVIOUS
  <1>1. located.ext = <<>> /\ located.lid = <<>> /\ DOMAIN located = {"ext", "lid"}
          /\ token = NoToken
    BY DEF TokenAtRest
  <1>2. LidField(<<>>, "L") = <<>>
    BY DEF LidField
  <1>3. ChosenId(<<>>, <<>>) = <<>> /\ <<>> \in Seq(Nat)
    BY <1>2 DEF ChosenId
  <1>4. ChosenId(located.ext, located.lid) \in Seq(Nat)
    BY <1>1, <1>3
  <1> QED BY <1>1, <1>4 DEF TokenInv

\* A location is classified once.
LEMMA TokenStep == TokenInv /\ (TokenNext \/ UNCHANGED tokenVars) => TokenInv'
  BY DEF TokenInv, TokenNext, Classify, tokenVars

\* What the invariant says of a token, in the words of the properties.
LEMMA TokensAreTrue ==
    TokenInv => OpaqueStaysOpaque /\ OneTokenPerStation /\ CoordinateIsNoStation
  <1> SUFFICES ASSUME TokenInv, token # NoToken
               PROVE  OpaqueStaysOpaque /\ OneTokenPerStation /\ CoordinateIsNoStation
    BY DEF OpaqueStaysOpaque, OneTokenPerStation, CoordinateIsNoStation
  <1> DEFINE id == ChosenId(located.ext, located.lid)
  <1>1. id \in Seq(Nat) /\ token = StopToken(located.ext, located.lid)
    BY DEF TokenInv
  <1>2. /\ id # <<>>
        /\ token = IF UicForm(id) THEN [scheme |-> "UIC", id |-> SubSeq(Stripped(id), 1, UicWidth)]
                   ELSE [scheme |-> "OEBB", id |-> OpaquePayload(id)]
    BY <1>1 DEF StopToken
  <1>3. Stripped(id) \in Seq(Nat) /\ (AllDigits(id) => AllDigits(Stripped(id)))
    BY <1>1, StripsZeros
  <1>4. UicWidth \in Nat /\ UicWidth > 1
    BY TokenAssumption
  <1> HIDE DEF id
  <1>5. OpaqueStaysOpaque
    <2> SUFFICES ASSUME Len(id) <= PayloadMax, token.scheme = "OEBB", AllDigits(token.id)
                 PROVE  ExtractUic(token.id) = NoToken
      BY DEF OpaqueStaysOpaque, id
    <2>1. ~UicForm(id) /\ token.id = OpaquePayload(id)
      BY <1>2
    <2>2. OpaquePayload(id) = IF ~AllDigits(id) THEN id
                              ELSE IF Stripped(id) = <<>> THEN <<0>> ELSE Stripped(id)
      BY <1>1, PayloadOfShort
    <2>3. AllDigits(id) /\ Len(Stripped(id)) \notin {UicWidth, UicWidth + 1}
      BY <2>1, <2>2 DEF UicForm
    <2>4. token.id \in Seq(Nat) /\ Len(token.id) \notin {UicWidth, UicWidth + 1}
      <3>1. <<0>> \in Seq(Nat) /\ Len(<<0>>) = 1
        OBVIOUS
      <3>2. 1 \notin {UicWidth, UicWidth + 1}
        BY <1>4
      <3> QED BY <1>3, <2>1, <2>2, <2>3, <3>1, <3>2
    <2>5. FirstRun(token.id) = <<>>
      BY <2>4, RunOfANumber
    <2> QED BY <2>5 DEF ExtractUic
  <1>6. OneTokenPerStation
    <2> SUFFICES ASSUME AllDigits(id), Len(id) < PayloadMax
                 PROVE  /\ StopToken(<<0>> \o id, <<>>) = token
                        /\ token.scheme = "UIC" => token = ExtractUic(Stripped(id))
      BY DEF OneTokenPerStation, id
    <2> DEFINE z == <<0>> \o id
    <2>1. /\ z \in Seq(Nat) /\ z # <<>> /\ Len(z) = Len(id) + 1 /\ AllDigits(z)
          /\ Stripped(z) = Stripped(id)
      BY <1>1, ZeroBefore
    <2> HIDE DEF z
    <2>2. Len(z) <= PayloadMax /\ Len(id) <= PayloadMax
      BY <1>1, <2>1, TokenAssumption
    <2>3. OpaquePayload(z) = OpaquePayload(id)
      BY <1>1, <2>1, <2>2, PayloadOfShort
    <2>4. UicForm(z) = UicForm(id)
      BY <2>1 DEF UicForm
    <2>5. ChosenId(z, <<>>) = z
      BY <2>1 DEF ChosenId
    <2>6. StopToken(z, <<>>) = token
      BY <1>2, <2>1, <2>3, <2>4, <2>5 DEF StopToken
    <2>7. ASSUME token.scheme = "UIC" PROVE token = ExtractUic(Stripped(id))
      <3> DEFINE text == Stripped(id)
      <3>1. UicForm(id)
        BY <1>2, <2>7
      <3>2. Len(text) \in {UicWidth, UicWidth + 1}
        BY <3>1 DEF UicForm
      <3>3. FirstRun(text) = SubSeq(text, 1, UicWidth)
        BY <1>3, <3>2, RunOfANumber
      <3>4. SubSeq(text, 1, UicWidth) # <<>>
        <4>1. /\ Len(SubSeq(text, 1, UicWidth)) = IF 1 <= UicWidth THEN UicWidth - 1 + 1 ELSE 0
          <5>1. \A i \in 1..UicWidth : text[i] \in Nat
            BY <1>3, <1>4, <3>2
          <5> HIDE DEF text
          <5> QED BY <1>4, <5>1, SubSeqProperties
        <4> HIDE DEF text
        <4>2. Len(SubSeq(text, 1, UicWidth)) > 1
          BY <1>4, <4>1
        <4> DEFINE cut == SubSeq(text, 1, UicWidth)
        <4>3. Len(cut) > 1
          BY <4>2
        <4> HIDE DEF cut
        <4>4. cut # <<>>
          BY <4>3
        <4> QED BY <4>4 DEF cut
      <3>5. token = [scheme |-> "UIC", id |-> SubSeq(text, 1, UicWidth)]
        BY <1>2, <3>1
      <3> HIDE DEF text
      <3> QED BY <3>3, <3>4, <3>5 DEF ExtractUic, text
    <2> QED BY <2>6, <2>7 DEF z
  <1>7. CoordinateIsNoStation
    BY <1>1 DEF CoordinateIsNoStation, StopToken, ChosenId
  <1> QED BY <1>5, <1>6, <1>7

-----------------------------------------------------------------------------
(* The window of a run *)

\* A day's number and the tick of the day determine an instant.
LEMMA DayAndTick ==
    ASSUME NEW w \in Int
    PROVE  /\ w \div Day \in Int /\ w % Day \in 0..(Day - 1)
           /\ w = Day * (w \div Day) + (w % Day)
  BY WindowAssumption

\* An instant within a day is of that day.
LEMMA DayOf ==
    ASSUME NEW w \in Int, NEW d \in Int, Day * d <= w, w < Day * d + Day
    PROVE  w \div Day = d
  <1> DEFINE q == w \div Day
             r == w % Day
  <1>1. q \in Int /\ r \in 0..(Day - 1) /\ w = Day * q + r
    BY DayAndTick
  <1> HIDE DEF q, r
  <1>2. CASE q <= d - 1
    <2>1. Day * q <= Day * (d - 1)
      BY <1>1, <1>2, WindowAssumption
    <2> QED BY <2>1, <1>1, WindowAssumption
  <1>3. CASE q >= d + 1
    <2>1. Day * q >= Day * (d + 1)
      BY <1>1, <1>3, WindowAssumption
    <2> QED BY <2>1, <1>1, WindowAssumption
  <1> QED BY <1>1, <1>2, <1>3 DEF q

\* Later instants are of the same day or a later one.
LEMMA DaysInOrder ==
    ASSUME NEW v \in Int, NEW w \in Int, v <= w
    PROVE  v \div Day <= w \div Day
  <1> DEFINE p == v \div Day
             q == w \div Day
             r == v % Day
             s == w % Day
  <1>1. p \in Int /\ r \in 0..(Day - 1) /\ v = Day * p + r
    BY DayAndTick
  <1>2. q \in Int /\ s \in 0..(Day - 1) /\ w = Day * q + s
    BY DayAndTick
  <1> HIDE DEF p, q, r, s
  <1>3. ASSUME p >= q + 1 PROVE FALSE
    <2>1. Day * p >= Day * (q + 1)
      BY <1>1, <1>2, <1>3, WindowAssumption
    <2> QED BY <2>1, <1>1, <1>2, WindowAssumption
  <1>4. p <= q
    BY <1>1, <1>2, <1>3
  <1> QED BY <1>4 DEF p, q

\* A zone's offsets are numbers, and every row has a zone.
LEMMA ZonesAreKnown ==
    /\ \A row, cfg : ZoneOf(row, cfg) \in DOMAIN OffsetOf
    /\ \A z \in DOMAIN OffsetOf : OffsetOf[z][1] \in Int /\ OffsetOf[z][2] \in Int
  <1>1. \A z \in DOMAIN OffsetOf : OffsetOf[z][1] \in Int /\ OffsetOf[z][2] \in Int
    <2> TAKE z \in DOMAIN OffsetOf
    <2>1. OffsetOf[z] \in Int \X Int
      BY WindowAssumption
    <2> QED BY <2>1
  <1>2. \A row, cfg : ZoneOf(row, cfg) \in DOMAIN OffsetOf
    BY WindowAssumption DEF ZoneOf
  <1> QED BY <1>1, <1>2

\* Instants and wall clocks are numbers.
LEMMA ClocksAreNumbers ==
    ASSUME NEW z \in DOMAIN OffsetOf, NEW t \in Int
    PROVE  ToLocal(z, t) \in Int /\ ToUtc(z, t) \in Int
  BY ZonesAreKnown, WindowAssumption DEF ToLocal, ToUtc

\* A wall clock that is skipped lies between the change as the zone read it before and
\* as it reads it after.
LEMMA SkippedOnes ==
    ASSUME NEW z \in DOMAIN OffsetOf, NEW w \in Int, Skipped(z, w)
    PROVE  Change + OffsetOf[z][1] <= w /\ w < Change + OffsetOf[z][2]
  <1> DEFINE a == OffsetOf[z][1]
             b == OffsetOf[z][2]
  <1>1. a \in Int /\ b \in Int /\ Change \in Nat
    BY ZonesAreKnown, WindowAssumption
  <1>2. ToUtc(z, w) = LET wall == Change + (IF a > b THEN a ELSE b)
                      IN IF w < wall THEN w - a ELSE w - b
    BY DEF ToUtc
  <1>3. ToLocal(z, ToUtc(z, w)) = ToUtc(z, w) + (IF ToUtc(z, w) < Change THEN a ELSE b)
    BY DEF ToLocal
  <1>4. ToLocal(z, ToUtc(z, w)) # w
    BY DEF Skipped
  <1> HIDE DEF a, b
  <1>5. Change + a <= w /\ w < Change + b
    BY <1>1, <1>2, <1>3, <1>4
  <1> QED BY <1>5 DEF a, b

\* Among the wall clocks that are not skipped, instants are in the order of their wall clocks.
LEMMA ClocksInOrder ==
    ASSUME NEW z \in DOMAIN OffsetOf, NEW v \in Int, NEW w \in Int, v < w,
           ~Skipped(z, v), ~Skipped(z, w)
    PROVE  ToUtc(z, v) < ToUtc(z, w)
  <1> DEFINE a == OffsetOf[z][1]
             b == OffsetOf[z][2]
             tv == ToUtc(z, v)
             tw == ToUtc(z, w)
  <1>1. a \in Int /\ b \in Int /\ Change \in Nat
    BY ZonesAreKnown, WindowAssumption
  <1>2. /\ tv = LET wall == Change + (IF a > b THEN a ELSE b) IN IF v < wall THEN v - a ELSE v - b
        /\ tw = LET wall == Change + (IF a > b THEN a ELSE b) IN IF w < wall THEN w - a ELSE w - b
    BY DEF ToUtc
  <1>3. /\ v = tv + (IF tv < Change THEN a ELSE b)
        /\ w = tw + (IF tw < Change THEN a ELSE b)
    BY DEF Skipped, ToLocal
  <1> HIDE DEF a, b, tv, tw
  <1>4. tv < tw
    BY <1>1, <1>2, <1>3
  <1> QED BY <1>4 DEF tv, tw

\* The bounds a row or a request may have.
BoundsOf(row) ==
    row.start \in Bounds \cup {Null} /\ row.end \in Bounds \cup {0, EndOfDay, Null}

\* A window starts within its day and ends later on it, or on the next day by that hour.
LEMMA BoundsAreOfADay ==
    ASSUME NEW row, NEW cfg \in Defaults, BoundsOf(row), NEW b, b = BoundsMinutes(row, cfg)
    PROVE  /\ b.start \in 0..(Day - 1) /\ b.end \in 0..(Day - 1)
           /\ b.over \in BOOLEAN /\ b.crosses \in BOOLEAN
           /\ b.crosses => b.over /\ b.end <= b.start
           /\ b.over /\ ~b.crosses => b.end = 0
           /\ ~b.over => b.start < b.end
  <1> DEFINE s == IF row.start = Null THEN cfg.start ELSE row.start
             e == IF row.end = Null THEN cfg.end ELSE row.end
             crosses == e # EndOfDay /\ e <= s
  <1>1. Day \in Nat \ {0} /\ Bounds \subseteq 0..(Day - 1) /\ EndOfDay = Day
    BY WindowAssumption DEF EndOfDay
  <1>2. s \in 0..(Day - 1)
    BY <1>1, WindowAssumption DEF BoundsOf
  <1>3. e \in 0..Day
    BY <1>1, WindowAssumption DEF BoundsOf
  <1>4. b = [start |-> s, end |-> IF e = EndOfDay THEN 0 ELSE e,
             over |-> e = EndOfDay \/ crosses, crosses |-> crosses]
    BY DEF BoundsMinutes
  <1> HIDE DEF s, e
  <1>5. /\ b.start = s /\ b.end = (IF e = Day THEN 0 ELSE e)
        /\ b.over = (e = Day \/ crosses) /\ b.crosses = crosses
    BY <1>1, <1>4
  <1>6. crosses = (e # Day /\ e <= s)
    BY <1>1
  <1> HIDE DEF crosses
  <1>7. b.start \in 0..(Day - 1) /\ b.end \in 0..(Day - 1)
    BY <1>1, <1>2, <1>3, <1>5
  <1>8. b.over \in BOOLEAN /\ b.crosses \in BOOLEAN
    BY <1>5, <1>6
  <1>9. CASE e = Day
    BY <1>1, <1>5, <1>6, <1>7, <1>8, <1>9
  <1>10. CASE e # Day
    <2>1. b.end = e /\ b.start = s /\ (b.over <=> e <= s) /\ (b.crosses <=> e <= s)
      BY <1>5, <1>6, <1>10
    <2>2. s \in Int /\ e \in Int
      BY <1>1, <1>2, <1>3
    <2>3. ~(e <= s) => s < e
      BY <2>2
    <2> QED BY <1>7, <1>8, <2>1, <2>3
  <1> QED BY <1>9, <1>10

\* No bound of a window is skipped on any day, if none around the change is.
LEMMA NoBoundSkipped ==
    ASSUME NEW row, NEW cfg \in Defaults, BoundsOf(row), ~OnSkippedClock(row, cfg),
           NEW d \in Int,
           NEW x \in {BoundsMinutes(row, cfg).start, BoundsMinutes(row, cfg).end}
    PROVE  ~Skipped(ZoneOf(row, cfg), d * Day + x)
  <1> DEFINE z == ZoneOf(row, cfg)
             a == OffsetOf[z][1]
             b == OffsetOf[z][2]
             w == d * Day + x
  <1>1. z \in DOMAIN OffsetOf /\ a \in Int /\ b \in Int /\ Change \in Nat /\ Day \in Nat \ {0}
    BY ZonesAreKnown, WindowAssumption
  <1>2. x \in 0..(Day - 1)
    BY BoundsAreOfADay
  <1>3. w \in Int /\ Day * d <= w /\ w < Day * d + Day
    BY <1>1, <1>2
  <1>4. w \div Day = d
    BY <1>3, DayOf
  <1>5. \A day \in ((Change + a) \div Day)..((Change + b) \div Day) : ~Skipped(z, day * Day + x)
    BY DEF OnSkippedClock
  <1> SUFFICES ASSUME Skipped(z, w) PROVE FALSE
    OBVIOUS
  <1>6. Change + a <= w /\ w <= Change + b
    <2>1. Change + a <= w /\ w < Change + b
      BY <1>1, <1>3, SkippedOnes
    <2> HIDE DEF a, b, w
    <2> QED BY <2>1, <1>1, <1>3
  <1>7. (Change + a) \div Day <= d /\ d <= (Change + b) \div Day
    <2> HIDE DEF a, b, w
    <2>1. Change + a \in Int /\ Change + b \in Int
      BY <1>1
    <2> QED BY <2>1, <1>3, <1>4, <1>6, DaysInOrder
  <1>8. (Change + a) \div Day \in Int /\ (Change + b) \div Day \in Int
    <2> HIDE DEF a, b
    <2>1. Change + a \in Int /\ Change + b \in Int
      BY <1>1
    <2> QED BY <2>1, DayAndTick
  <1>9. d \in ((Change + a) \div Day)..((Change + b) \div Day)
    <2> DEFINE m == (Change + a) \div Day
               n == (Change + b) \div Day
    <2> HIDE DEF m, n
    <2>1. m \in Int /\ n \in Int /\ m <= d /\ d <= n
      BY <1>7, <1>8 DEF m, n
    <2>2. d \in m..n
      BY <2>1
    <2> QED BY <2>2 DEF m, n
  <1> QED BY <1>5, <1>9

\* The day whose window holds a departure is the one it is anchored on.
LEMMA AnchoredOnItsDay ==
    ASSUME NEW row, NEW cfg \in Defaults, BoundsOf(row), ~OnSkippedClock(row, cfg),
           NEW u \in Int, ~Repeated(ZoneOf(row, cfg), u), NEW d \in Int,
           Inside(u, WindowOn(row, cfg, d))
    PROVE  Anchor(row, cfg, u) = d
  <1> DEFINE z == ZoneOf(row, cfg)
             b == BoundsMinutes(row, cfg)
             w == ToLocal(z, u)
             from == d * Day + b.start
             to == (IF b.over THEN d + 1 ELSE d) * Day + b.end
             q == w \div Day
             r == w % Day
  <1>1. z \in DOMAIN OffsetOf /\ Day \in Nat \ {0}
    BY ZonesAreKnown, WindowAssumption
  <1>2. w \in Int /\ ToUtc(z, w) = u
    BY <1>1, ClocksAreNumbers DEF Repeated
  <1>3. ~Skipped(z, w)
    BY <1>2 DEF Skipped
  <1>4. /\ b.start \in 0..(Day - 1) /\ b.end \in 0..(Day - 1)
        /\ b.over \in BOOLEAN /\ b.crosses \in BOOLEAN
        /\ b.crosses => b.over /\ b.end <= b.start
        /\ b.over /\ ~b.crosses => b.end = 0
        /\ ~b.over => b.start < b.end
    BY BoundsAreOfADay
  <1>5. ~Skipped(z, from) /\ ~Skipped(z, to)
    <2>1. ~Skipped(z, d * Day + b.start) /\ ~Skipped(z, d * Day + b.end)
      BY NoBoundSkipped
    <2>2. d + 1 \in Int
      OBVIOUS
    <2>3. ~Skipped(z, (d + 1) * Day + b.end)
      BY <2>2, NoBoundSkipped
    <2> QED BY <2>1, <2>3
  <1>6. ToUtc(z, from) <= u /\ u < ToUtc(z, to)
    BY DEF Inside, WindowOn
  <1>7. from \in Int /\ to \in Int
    <2>1. b.start \in Int /\ b.end \in Int /\ Day \in Int
      BY <1>1, <1>4
    <2> HIDE DEF b
    <2> QED BY <2>1
  <1>8. ToUtc(z, from) \in Int /\ ToUtc(z, to) \in Int
    BY <1>1, <1>7, ClocksAreNumbers
  <1>9. q \in Int /\ r \in 0..(Day - 1) /\ w = Day * q + r
    BY <1>2, DayAndTick
  <1>10. Anchor(row, cfg, u) = IF b.crosses /\ r < b.end THEN q - 1 ELSE q
    BY DEF Anchor
  <1> DEFINE s == b.start
             e == b.end
             over == b.over
             crosses == b.crosses
  <1>11. from = d * Day + s /\ to = (IF over THEN d + 1 ELSE d) * Day + e
    OBVIOUS
  <1> HIDE DEF z, w, from, to, q, r
  <1>12. ~(w < from)
    BY <1>1, <1>2, <1>3, <1>5, <1>6, <1>7, <1>8, ClocksInOrder
  <1>13. ~(to < w) /\ to # w
    BY <1>1, <1>2, <1>3, <1>5, <1>6, <1>7, <1>8, ClocksInOrder
  <1>14. from <= w /\ w < to
    BY <1>2, <1>7, <1>12, <1>13
  <1>15. /\ s \in 0..(Day - 1) /\ e \in 0..(Day - 1)
         /\ over \in BOOLEAN /\ crosses \in BOOLEAN
         /\ crosses => over /\ e <= s
         /\ over /\ ~crosses => e = 0
         /\ ~over => s < e
    BY <1>4
  <1>16. Anchor(row, cfg, u) = IF crosses /\ r < e THEN q - 1 ELSE q
    BY <1>10
  <1> HIDE DEF b, s, e, over, crosses
  <1>17. Day * d + s <= Day * q + r
    BY <1>1, <1>9, <1>11, <1>14, <1>15
  <1>18. CASE ~over
    <2>1. Day * q + r < Day * d + e
      BY <1>1, <1>9, <1>11, <1>14, <1>15, <1>18
    <2>2. Day * d <= w /\ w < Day * d + Day
      BY <2>1, <1>1, <1>2, <1>9, <1>15, <1>17
    <2>3. q = d
      BY <2>2, <1>2, DayOf DEF q
    <2> QED BY <2>3, <1>15, <1>16, <1>18
  <1>19. CASE over
    <2>1. Day * q + r < Day * d + Day + e
      BY <1>1, <1>9, <1>11, <1>14, <1>15, <1>19
    <2>2. CASE ~crosses
      <3>1. Day * d <= w /\ w < Day * d + Day
        BY <2>1, <2>2, <1>1, <1>2, <1>9, <1>15, <1>17, <1>19
      <3>2. q = d
        BY <3>1, <1>2, DayOf DEF q
      <3> QED BY <3>2, <1>16, <2>2
    <2>3. CASE crosses /\ w < Day * d + Day
      <3>1. Day * d <= w
        BY <1>1, <1>9, <1>15, <1>17
      <3>2. q = d
        BY <2>3, <3>1, <1>2, DayOf DEF q
      <3>3. s <= r
        <4>1. Day * d = Day * q
          BY <3>2
        <4>2. Day * d \in Int
          BY <1>1
        <4> QED BY <4>1, <4>2, <1>17, <1>15, <1>9
      <3>4. ~(r < e)
        BY <3>3, <2>3, <1>9, <1>15
      <3> QED BY <3>2, <3>4, <1>16
    <2>4. CASE crosses /\ ~(w < Day * d + Day)
      <3> DEFINE n == d + 1
      <3>1. n \in Int /\ Day * n = Day * d + Day /\ Day * d \in Int
        BY <1>1
      <3> HIDE DEF n
      <3>2. Day * n <= w /\ w < Day * n + Day
        BY <3>1, <2>1, <2>4, <1>1, <1>2, <1>9, <1>15
      <3>3. q = n
        BY <3>1, <3>2, <1>2, DayOf DEF q
      <3>4. r < e
        <4>1. Day * q = Day * d + Day
          BY <3>1, <3>3
        <4> DEFINE m == Day * q
                   l == Day * d
        <4>2. m = l + Day /\ l \in Int /\ m + r < l + Day + e
          BY <4>1, <3>1, <2>1
        <4> HIDE DEF m, l
        <4>3. r \in Int /\ e \in Int /\ Day \in Int
          BY <1>1, <1>9, <1>15
        <4> QED BY <4>2, <4>3
      <3>5. q - 1 = d
        BY <3>3 DEF n
      <3> QED BY <3>4, <3>5, <2>4, <1>16
    <2> QED BY <2>2, <2>3, <2>4, <1>15
  <1> QED BY <1>15, <1>18, <1>19

\* A run's row and what was asked for name the same windows.
WindowInv ==
    /\ settings \in Defaults /\ edited \in BOOLEAN
    /\ covRun = Null => grid = Null /\ ~edited
    /\ covRun # Null =>
        /\ BoundsOf(covRun.row) /\ covRun.departAt \in Int /\ covRun.reference \in Int
        /\ covRun.asked.start \in Bounds \cup {Null}
        /\ covRun.asked.end \in Bounds \cup {Null, EndOfDay}
        /\ covRun.row.start = Stored(covRun.asked.start)
        /\ covRun.row.end = Stored(covRun.asked.end)
        /\ covRun.row.zone = covRun.asked.zone
        /\ Own(covRun.row) \/ ~edited => ComparableDay(covRun, settings)
    /\ grid # Null =>
        /\ grid.cfg \in Defaults
        /\ grid.window = WindowOn(covRun.row, grid.cfg, covRun.reference)
        /\ \E n \in Nat : grid.slots = SlotBoundaries(grid.window, n)
        /\ Own(covRun.row) \/ ~edited => ComparableDay(covRun, grid.cfg)

\* A run's own bounds and zone do not follow the settings.
LEMMA OwnIsItsOwn ==
    ASSUME NEW row, Own(row), NEW cfg, NEW other, NEW u
    PROVE  Anchor(row, cfg, u) = Anchor(row, other, u)
  BY DEF Own, Anchor, BoundsMinutes, ZoneOf

\* '24:00' as it is stored.
LEMMA StoredBounds ==
    ASSUME NEW b \in Bounds \cup {Null, EndOfDay}
    PROVE  /\ Stored(b) \in Bounds \cup {0, Null}
           /\ b \in Bounds \cup {Null} => Stored(b) = b
           /\ b = EndOfDay => Stored(b) = 0
  BY WindowAssumption DEF Stored, EndOfDay

\* A bound that is stored makes the window that was asked for.
LEMMA StoredIsAsked ==
    ASSUME NEW row, NEW asked, NEW cfg \in Defaults, NEW d,
           asked.start \in Bounds \cup {Null}, asked.end \in Bounds \cup {Null, EndOfDay},
           row.start = Stored(asked.start), row.end = Stored(asked.end), row.zone = asked.zone
    PROVE  WindowOn(row, cfg, d) = WindowOn(asked, cfg, d)
  <1>1. row.start = asked.start
    BY StoredBounds
  <1>2. ZoneOf(row, cfg) = ZoneOf(asked, cfg)
    BY DEF ZoneOf
  <1>3. CASE asked.end # EndOfDay
    <2>1. row.end = asked.end
      BY <1>3, StoredBounds
    <2> QED BY <1>1, <1>2, <2>1 DEF WindowOn, BoundsMinutes
  <1>4. CASE asked.end = EndOfDay
    <2> DEFINE s == IF row.start = Null THEN cfg.start ELSE row.start
    <2>1. row.end = 0
      BY <1>4, StoredBounds
    <2>2. s \in 0..(Day - 1) /\ 0 # EndOfDay /\ 0 # Null /\ EndOfDay # Null
      BY <1>1, WindowAssumption DEF EndOfDay
    <2>3. 0 <= s
      BY <2>2, WindowAssumption
    <2>4. BoundsMinutes(row, cfg).start = s /\ BoundsMinutes(row, cfg).end = 0
          /\ BoundsMinutes(row, cfg).over = TRUE
      BY <2>1, <2>2, <2>3 DEF BoundsMinutes
    <2>5. BoundsMinutes(asked, cfg).start = s /\ BoundsMinutes(asked, cfg).end = 0
          /\ BoundsMinutes(asked, cfg).over = TRUE
      BY <1>1, <1>4, <2>2 DEF BoundsMinutes
    <2> QED BY <1>2, <2>4, <2>5 DEF WindowOn
  <1> QED BY <1>3, <1>4

\* The day of a departure is a number.
LEMMA AnchorIsADay ==
    ASSUME NEW row, NEW cfg, NEW u \in Int
    PROVE  Anchor(row, cfg, u) \in Int
  BY ZonesAreKnown, ClocksAreNumbers, DayAndTick DEF Anchor

\* Every step keeps the run, its grid and the settings it was created under together.
LEMMA WindowStart == WindowInit => WindowInv
  BY DEF WindowInit, WindowInv

LEMMA WindowRests == WindowAtRest => WindowInv
  <1> SUFFICES ASSUME WindowAtRest PROVE WindowInv
    OBVIOUS
  <1>1. settings \in Defaults
    BY WindowAssumption DEF WindowAtRest, SomeOf
  <1> QED BY <1>1 DEF WindowAtRest, WindowInv

LEMMA CreateKeeps ==
    ASSUME WindowInv, covRun = Null,
           NEW start \in Bounds \cup {Null}, NEW end \in Bounds \cup {Null, EndOfDay},
           NEW zone, NEW when \in Int, NEW naive \in BOOLEAN, NEW given,
           CreateWindow(start, end, zone, when, naive, given)
    PROVE  WindowInv'
  <1> DEFINE row == [start |-> Stored(start), end |-> Stored(end), zone |-> zone]
             departAt == IF naive THEN ToUtc(ZoneOf(row, settings), when) ELSE when
             day == Anchor(row, settings, departAt)
             run == [asked |-> [start |-> start, end |-> end, zone |-> zone], row |-> row,
                     departAt |-> departAt, reference |-> day]
  <1>1. covRun' = run /\ settings' = settings /\ grid' = grid /\ edited' = edited
    BY DEF CreateWindow
  <1>2. grid = Null /\ ~edited /\ settings \in Defaults
    BY DEF WindowInv
  <1>3. departAt \in Int
    BY ZonesAreKnown, ClocksAreNumbers
  <1>4. day \in Int
    BY <1>3, AnchorIsADay
  <1>5. Stored(start) \in Bounds \cup {Null} /\ Stored(end) \in Bounds \cup {0, Null}
    BY StoredBounds
  <1>6. BoundsOf(row)
    BY <1>5 DEF BoundsOf
  <1>7. ComparableDay(run, settings)
    BY DEF ComparableDay
  <1> HIDE DEF departAt, day
  <1>8. /\ run.asked.start = start /\ run.asked.end = end /\ run.asked.zone = zone
        /\ run.row = row /\ run.departAt = departAt /\ run.reference = day
        /\ row.start = Stored(start) /\ row.end = Stored(end) /\ row.zone = zone
    OBVIOUS
  <1> HIDE DEF run, row
  <1>9. ComparableDay(covRun', settings')
    BY <1>1, <1>7
  <1> QED BY <1>1, <1>2, <1>3, <1>4, <1>6, <1>8, <1>9 DEF WindowInv, ComparableDay

LEMMA EditKeeps == \A cfg \in Defaults : WindowInv /\ EditSettings(cfg) => WindowInv'
  <1> SUFFICES ASSUME NEW cfg \in Defaults, WindowInv, EditSettings(cfg) PROVE WindowInv'
    OBVIOUS
  <1>1. /\ covRun # Null /\ ~edited /\ settings' = cfg /\ edited' = TRUE
        /\ covRun' = covRun /\ grid' = grid
    BY DEF EditSettings
  <1>2. ComparableDay(covRun, settings)
    BY <1>1 DEF WindowInv
  <1>3. Own(covRun.row) => ComparableDay(covRun, cfg)
    BY <1>2, OwnIsItsOwn DEF ComparableDay
  <1>4. Own(covRun'.row) \/ ~edited' => ComparableDay(covRun', settings')
    BY <1>1, <1>3
  <1> QED BY <1>1, <1>4 DEF WindowInv, ComparableDay

LEMMA FreezeKeeps == \A n \in SlotCounts : WindowInv /\ FreezeWindow(n) => WindowInv'
  <1> SUFFICES ASSUME NEW n \in SlotCounts, WindowInv, FreezeWindow(n) PROVE WindowInv'
    OBVIOUS
  <1> DEFINE w == WindowOn(covRun.row, settings, covRun.reference)
  <1>1. /\ covRun # Null /\ grid' = [window |-> w, slots |-> SlotBoundaries(w, n), cfg |-> settings]
        /\ settings' = settings /\ covRun' = covRun /\ edited' = edited
    BY DEF FreezeWindow
  <1>2. n \in Nat
    BY WindowAssumption
  <1> HIDE DEF w
  <1>3. grid'.window = w /\ grid'.slots = SlotBoundaries(w, n) /\ grid'.cfg = settings
    BY <1>1
  <1>4. grid'.window = WindowOn(covRun'.row, grid'.cfg, covRun'.reference)
    BY <1>1, <1>3 DEF w
  <1>5. Own(covRun'.row) \/ ~edited' => ComparableDay(covRun', grid'.cfg)
    BY <1>1, <1>3 DEF WindowInv
  <1>6. \E k \in Nat : grid'.slots = SlotBoundaries(grid'.window, k)
    BY <1>2, <1>3
  <1>7. grid'.cfg \in Defaults
    BY <1>3 DEF WindowInv
  <1> QED BY <1>1, <1>4, <1>5, <1>6, <1>7 DEF WindowInv, ComparableDay

LEMMA WindowGoesOn == WindowInv /\ (WindowNext \/ UNCHANGED windowVars) => WindowInv'
  <1> SUFFICES ASSUME WindowInv, WindowNext \/ UNCHANGED windowVars PROVE WindowInv'
    OBVIOUS
  <1>1. CASE UNCHANGED windowVars
    BY <1>1 DEF WindowInv, windowVars, ComparableDay
  <1>2. ASSUME covRun = Null,
               NEW start \in Bounds \cup {Null}, NEW end \in Bounds \cup {Null, EndOfDay},
               NEW zone \in (DOMAIN OffsetOf) \cup {Null}, NEW when \in Days \X (0..(Day - 1)),
               NEW naive \in BOOLEAN, NEW given \in Days \cup {Null},
               CreateWindow(start, end, zone, when[1] * Day + when[2], naive, given)
        PROVE  WindowInv'
    <2>1. when[1] \in Int /\ when[2] \in Int /\ Day \in Int
      BY WindowAssumption
    <2>2. when[1] * Day + when[2] \in Int
      BY <2>1
    <2> QED BY <1>2, <2>2, CreateKeeps
  <1> QED BY <1>1, <1>2, EditKeeps, FreezeKeeps DEF WindowNext

\* The slots of a window.
LEMMA SlotsOfAWindow ==
    ASSUME NEW n \in Nat, NEW w, w.start \in Int, w.end \in Int,
           NEW slots, slots = SlotBoundaries(w, n), NEW k, k = Cardinality(DOMAIN slots) - 1
    PROVE  /\ slots[1] = k * w.start /\ slots[k + 1] = k * w.end
           /\ w.start < w.end => \A i \in 1..k : slots[i] < slots[i + 1]
  <1> DEFINE m == IF n < 1 THEN 1 ELSE n
             a == w.start
             b == w.end
             at(i) == m * a + (i - 1) * (b - a)
  <1>1. m \in Nat \ {0} /\ a \in Int /\ b \in Int
    OBVIOUS
  <1>2. slots = [i \in 1..(m + 1) |-> at(i)]
    BY DEF SlotBoundaries
  <1> HIDE DEF a, b, m
  <1>3. DOMAIN slots = 1..(m + 1) /\ \A i \in 1..(m + 1) : slots[i] = at(i)
    BY <1>2
  <1>4. Cardinality(1..(m + 1)) = m + 1
    <2>1. Cardinality(1..(m + 1)) = IF 1 > m + 1 THEN 0 ELSE (m + 1) - 1 + 1
      BY <1>1, FS_Interval
    <2> QED BY <2>1, <1>1
  <1>5. k = m
    BY <1>1, <1>3, <1>4
  <1>6. slots[1] = k * a
    <2>1. 1 \in 1..(m + 1) /\ at(1) = m * a
      BY <1>1
    <2> QED BY <2>1, <1>3, <1>5
  <1>7. slots[k + 1] = k * b
    <2>1. m + 1 \in 1..(m + 1)
      BY <1>1
    <2>2. at(m + 1) = m * b
      BY <1>1
    <2> QED BY <2>1, <2>2, <1>3, <1>5
  <1>8. ASSUME a < b, NEW i \in 1..k PROVE slots[i] < slots[i + 1]
    <2>1. i \in 1..(m + 1) /\ i + 1 \in 1..(m + 1) /\ i \in Int
      BY <1>1, <1>5
    <2>2. at(i + 1) = at(i) + (b - a)
      BY <1>1, <2>1
    <2>3. at(i) \in Int
      BY <1>1, <2>1
    <2> HIDE DEF at
    <2>4. at(i) < at(i + 1)
      BY <2>2, <2>3, <1>1, <1>8
    <2> QED BY <2>1, <2>4, <1>3
  <1> QED BY <1>6, <1>7, <1>8 DEF a, b

\* A window whose bounds are not skipped is neither empty nor turned around.
LEMMA WindowsGoForward ==
    ASSUME NEW row, NEW cfg \in Defaults, BoundsOf(row), NEW d \in Int,
           NEW w, w = WindowOn(row, cfg, d)
    PROVE  /\ w.start \in Int /\ w.end \in Int
           /\ ~OnSkippedClock(row, cfg) => w.start < w.end
  <1> DEFINE z == ZoneOf(row, cfg)
             b == BoundsMinutes(row, cfg)
             n == IF b.over THEN d + 1 ELSE d
             from == d * Day + b.start
             to == n * Day + b.end
  <1>1. z \in DOMAIN OffsetOf /\ Day \in Nat \ {0}
    BY ZonesAreKnown, WindowAssumption
  <1>2. /\ b.start \in 0..(Day - 1) /\ b.end \in 0..(Day - 1) /\ b.over \in BOOLEAN
        /\ ~b.over => b.start < b.end
    BY BoundsAreOfADay
  <1>3. w.start = ToUtc(z, from) /\ w.end = ToUtc(z, to)
    BY DEF WindowOn
  <1>4. n \in Int
    OBVIOUS
  <1>5. ~OnSkippedClock(row, cfg) => ~Skipped(z, from) /\ ~Skipped(z, to)
    BY <1>4, NoBoundSkipped
  <1> DEFINE s == b.start
             e == b.end
             over == b.over
  <1>6. from = d * Day + s /\ to = n * Day + e /\ n = (IF over THEN d + 1 ELSE d)
    OBVIOUS
  <1>7. s \in 0..(Day - 1) /\ e \in 0..(Day - 1) /\ over \in BOOLEAN /\ (~over => s < e)
    BY <1>2
  <1> HIDE DEF z, b, n, from, to, s, e, over
  <1>8. from \in Int /\ to \in Int
    BY <1>1, <1>4, <1>6, <1>7
  <1>9. from < to
    <2> DEFINE m == d * Day
    <2>1. m \in Int /\ to = (IF over THEN m + Day ELSE m) + e /\ from = m + s
      BY <1>1, <1>6
    <2> HIDE DEF m
    <2> QED BY <2>1, <1>1, <1>7
  <1>10. ToUtc(z, from) \in Int /\ ToUtc(z, to) \in Int
    BY <1>1, <1>8, ClocksAreNumbers
  <1> QED BY <1>1, <1>3, <1>5, <1>8, <1>9, <1>10, ClocksInOrder

LEMMA WindowIsTrue ==
    WindowInv => GridHoldsDeparture /\ AskedIsSearched /\ SlotsCoverWindow /\ ComparableStays
  <1> SUFFICES ASSUME WindowInv
               PROVE  GridHoldsDeparture /\ AskedIsSearched /\ SlotsCoverWindow /\ ComparableStays
    OBVIOUS
  <1>1. ComparableStays
    BY DEF WindowInv, ComparableStays
  <1>2. AskedIsSearched
    BY StoredIsAsked DEF WindowInv, AskedIsSearched
  <1>3. SlotsCoverWindow
    <2> SUFFICES ASSUME grid # Null
                 PROVE  LET k == Cardinality(DOMAIN grid.slots) - 1  w == grid.window IN
                        /\ grid.slots[1] = k * w.start /\ grid.slots[k + 1] = k * w.end
                        /\ ~OnSkippedClock(covRun.row, grid.cfg) =>
                              \A i \in 1..k : grid.slots[i] < grid.slots[i + 1]
      BY DEF SlotsCoverWindow
    <2>1. PICK n \in Nat : grid.slots = SlotBoundaries(grid.window, n)
      BY DEF WindowInv
    <2>2. /\ grid.window.start \in Int /\ grid.window.end \in Int
          /\ ~OnSkippedClock(covRun.row, grid.cfg) => grid.window.start < grid.window.end
      BY WindowsGoForward DEF WindowInv
    <2> QED BY <2>1, <2>2, SlotsOfAWindow
  <1>4. GridHoldsDeparture
    <2> SUFFICES ASSUME grid # Null, Own(covRun.row) \/ ~edited,
                        ~Repeated(ZoneOf(covRun.row, grid.cfg), covRun.departAt),
                        ~OnSkippedClock(covRun.row, grid.cfg), NEW d \in -1..6,
                        Inside(covRun.departAt, WindowOn(covRun.row, grid.cfg, d))
                 PROVE  Inside(covRun.departAt, grid.window)
      BY DEF GridHoldsDeparture
    <2>1. /\ covRun # Null /\ BoundsOf(covRun.row) /\ covRun.departAt \in Int
          /\ grid.cfg \in Defaults /\ ComparableDay(covRun, grid.cfg)
          /\ grid.window = WindowOn(covRun.row, grid.cfg, covRun.reference)
      BY DEF WindowInv
    <2>2. d \in Int
      OBVIOUS
    <2>3. Anchor(covRun.row, grid.cfg, covRun.departAt) = d
      BY <2>1, <2>2, AnchoredOnItsDay
    <2>4. covRun.reference = d
      BY <2>1, <2>3 DEF ComparableDay
    <2> QED BY <2>1, <2>4
  <1> QED BY <1>1, <1>2, <1>3, <1>4

-----------------------------------------------------------------------------
(* The pages of a reference *)

\* Places are ranked from 1 to their number, each by another rank.
LEMMA RanksOfPlaces ==
    ASSUME NEW kept \in SUBSET Nat, IsFiniteSet(kept),
           NEW rank, rank = [i \in kept |-> Cardinality({k \in kept : k <= i})]
    PROVE  /\ \A i \in kept : rank[i] \in 1..Cardinality(kept)
           /\ \A i, j \in kept : i < j => rank[i] < rank[j]
           /\ \A n \in 1..Cardinality(kept) : \E i \in kept : rank[i] = n
  <1> DEFINE c == Cardinality(kept)
             upTo(i) == {k \in kept : k <= i}
  <1>1. c \in Nat
    BY FS_CardinalityType
  <1>2. \A i \in kept : IsFiniteSet(upTo(i)) /\ Cardinality(upTo(i)) \in Nat /\ Cardinality(upTo(i)) <= c
    <2> TAKE i \in kept
    <2>1. upTo(i) \in SUBSET kept
      OBVIOUS
    <2> QED BY <2>1, FS_Subset, FS_CardinalityType
  <1>3. \A i \in kept : rank[i] = Cardinality(upTo(i))
    OBVIOUS
  <1>4. \A i \in kept : rank[i] \in 1..c
    <2> TAKE i \in kept
    <2>1. i \in upTo(i)
      OBVIOUS
    <2>2. Cardinality(upTo(i)) # 0
      BY <1>2, <2>1, FS_EmptySet
    <2> HIDE DEF upTo, c
    <2> QED BY <1>1, <1>2, <1>3, <2>2
  <1>5. \A i, j \in kept : i < j => rank[i] < rank[j]
    <2> SUFFICES ASSUME NEW i \in kept, NEW j \in kept, i < j PROVE rank[i] < rank[j]
      OBVIOUS
    <2>1. upTo(i) \in SUBSET upTo(j)
      <3>1. i \in Nat /\ j \in Nat /\ \A k \in kept : k \in Nat
        OBVIOUS
      <3>2. \A k \in kept : k <= i => k <= j
        BY <3>1
      <3> QED BY <3>2
    <2>2. j \in upTo(j) /\ j \notin upTo(i)
      OBVIOUS
    <2>3. upTo(i) # upTo(j)
      BY <2>2
    <2>4. Cardinality(upTo(i)) <= Cardinality(upTo(j)) /\ Cardinality(upTo(i)) # Cardinality(upTo(j))
      BY <1>2, <2>1, <2>3, FS_Subset
    <2> HIDE DEF upTo
    <2> QED BY <1>2, <1>3, <2>4
  <1>6. rank \in [kept -> 1..c]
    BY <1>4
  <1>7. rank \in Injection(kept, 1..c)
    <2>1. \A i, j \in kept : rank[i] = rank[j] => i = j
      <3> SUFFICES ASSUME NEW i \in kept, NEW j \in kept, i # j PROVE rank[i] # rank[j]
        OBVIOUS
      <3>1. rank[i] \in Nat /\ rank[j] \in Nat /\ i \in Nat /\ j \in Nat
        BY <1>4
      <3>2. i < j \/ j < i
        BY <3>1
      <3> QED BY <1>5, <3>1, <3>2
    <2> QED BY <1>6, <2>1 DEF Injection, IsInjective
  <1>8. IsFiniteSet(1..c) /\ Cardinality(1..c) = c
    BY <1>1, FS_Interval
  <1>9. rank \in Surjection(kept, 1..c)
    BY <1>7, <1>8, FS_Injection
  <1>10. \A n \in 1..c : \E i \in kept : rank[i] = n
    BY <1>9 DEF Surjection
  <1> QED BY <1>4, <1>5, <1>10 DEF c

\* What is picked of a list: its entries at those places, in their order.
LEMMA PickedInOrder ==
    ASSUME NEW T, NEW list \in Seq(T), NEW kept \in SUBSET (DOMAIN list),
           NEW p, p = Picked(list, kept)
    PROVE  /\ p \in Seq(T)
           /\ \A a \in kept : \E n \in DOMAIN p : p[n] = list[a]
           /\ \A m, n \in DOMAIN p : m # n =>
                \E a, b \in kept : a # b /\ p[m] = list[a] /\ p[n] = list[b]
           /\ \A n \in DOMAIN p : \E a \in kept : p[n] = list[a]
  <1> DEFINE c == Cardinality(kept)
             rank == [i \in kept |-> Cardinality({k \in kept : k <= i})]
             at(n) == CHOOSE i \in kept : rank[i] = n
  <1>1. DOMAIN list = 1..Len(list) /\ Len(list) \in Nat
    OBVIOUS
  <1>2. kept \in SUBSET Nat /\ IsFiniteSet(kept)
    <2>1. IsFiniteSet(1..Len(list))
      BY <1>1, FS_Interval
    <2> QED BY <1>1, <2>1, FS_Subset
  <1>3. c \in Nat
    BY <1>2, FS_CardinalityType
  <1>4. p = [n \in 1..c |-> list[at(n)]]
    <2>1. \A n : at(n) = CHOOSE i \in kept : Cardinality({k \in kept : k <= i}) = n
      OBVIOUS
    <2> HIDE DEF at, rank
    <2>2. p = [n \in 1..c |-> list[CHOOSE i \in kept : Cardinality({k \in kept : k <= i}) = n]]
      BY DEF Picked
    <2> QED BY <2>1, <2>2, Zenon
  <1>5. /\ \A i \in kept : rank[i] \in 1..c
        /\ \A i, j \in kept : i < j => rank[i] < rank[j]
        /\ \A n \in 1..c : \E i \in kept : rank[i] = n
    BY <1>2, RanksOfPlaces
  <1> HIDE DEF c, rank
  <1>6. \A n \in 1..c : at(n) \in kept /\ rank[at(n)] = n
    BY <1>5
  <1>7. \A a \in kept : at(rank[a]) = a
    <2> TAKE a \in kept
    <2>1. rank[a] \in 1..c
      BY <1>5
    <2>2. at(rank[a]) \in kept /\ rank[at(rank[a])] = rank[a]
      BY <1>6, <2>1
    <2> DEFINE b == at(rank[a])
    <2> HIDE DEF at
    <2>3. b \in Nat /\ a \in Nat /\ rank[a] \in Int
      BY <1>2, <2>1, <2>2
    <2>4. ~(a < b) /\ ~(b < a)
      BY <1>5, <2>1, <2>2, <2>3
    <2> QED BY <2>3, <2>4
  <1> HIDE DEF at
  <1>8. DOMAIN p = 1..c /\ \A n \in 1..c : p[n] = list[at(n)]
    BY <1>4
  <1>9. p \in Seq(T)
    <2>1. \A n \in 1..c : list[at(n)] \in T
      BY <1>1, <1>6
    <2> QED BY <1>3, <1>4, <2>1
  <1>10. \A a \in kept : \E n \in DOMAIN p : p[n] = list[a]
    BY <1>5, <1>7, <1>8
  <1>11. \A m, n \in DOMAIN p : m # n => \E a, b \in kept : a # b /\ p[m] = list[a] /\ p[n] = list[b]
    BY <1>6, <1>8
  <1>12. \A n \in DOMAIN p : \E a \in kept : p[n] = list[a]
    BY <1>6, <1>8
  <1> QED BY <1>9, <1>10, <1>11, <1>12

\* A finite set of numbers has a largest.
LEMMA LargestOf ==
    ASSUME NEW S \in SUBSET Nat, S # {}, IsFiniteSet(S)
    PROVE  Max(S) \in S /\ \A y \in S : y <= Max(S)
  <1> DEFINE rank == [i \in S |-> Cardinality({k \in S : k <= i})]
             c == Cardinality(S)
  <1>1. /\ \A i \in S : rank[i] \in 1..c
        /\ \A i, j \in S : i < j => rank[i] < rank[j]
        /\ \A n \in 1..c : \E i \in S : rank[i] = n
    BY RanksOfPlaces
  <1>2. c \in Nat /\ c # 0
    BY FS_CardinalityType, FS_EmptySet
  <1> HIDE DEF rank, c
  <1>3. PICK x \in S : rank[x] = c
    BY <1>1, <1>2
  <1>4. \A y \in S : y <= x
    <2> TAKE y \in S
    <2>1. ~(x < y)
      BY <1>1, <1>2, <1>3
    <2> QED BY <2>1
  <1>5. \A y \in S : x >= y
    BY <1>4
  <1>6. Max(S) \in S /\ \A y \in S : Max(S) >= y
    BY <1>5 DEF Max
  <1> QED BY <1>6

\* An empty list holds nothing.
LEMMA NothingInIt == Range(<<>>) = {}
  BY DEF Range

\* The fingerprints of trips; those without one are walks.
FingerprintsOf(trips) == {t.fp : t \in trips} \ {0}

\* A trip of a list is there once, by its fingerprint.
Distinct(list) ==
    \A i, j \in DOMAIN list : (i # j /\ list[i].fp # 0) => list[i].fp # list[j].fp

\* What a list holds.
LEMMA TwoLists ==
    ASSUME NEW T, NEW a \in Seq(T), NEW b \in Seq(T)
    PROVE  a \o b \in Seq(T) /\ Range(a \o b) = Range(a) \cup Range(b)
  <1>1. /\ a \o b \in Seq(T) /\ Len(a \o b) = Len(a) + Len(b)
        /\ DOMAIN (a \o b) = 1..(Len(a) + Len(b)) /\ DOMAIN a = 1..Len(a) /\ DOMAIN b = 1..Len(b)
        /\ Len(a) \in Nat /\ Len(b) \in Nat
    OBVIOUS
  <1>2. \A i \in 1..(Len(a) + Len(b)) :
            (a \o b)[i] = IF i <= Len(a) THEN a[i] ELSE b[i - Len(a)]
    OBVIOUS
  <1>3. ASSUME NEW x \in Range(a \o b) PROVE x \in Range(a) \cup Range(b)
    <2>1. PICK i \in 1..(Len(a) + Len(b)) : x = (a \o b)[i]
      BY <1>1 DEF Range
    <2>2. CASE i <= Len(a)
      <3>1. i \in DOMAIN a /\ x = a[i]
        BY <1>1, <1>2, <2>1, <2>2
      <3> QED BY <3>1 DEF Range
    <2>3. CASE ~(i <= Len(a))
      <3>1. i - Len(a) \in DOMAIN b /\ x = b[i - Len(a)]
        BY <1>1, <1>2, <2>1, <2>3
      <3> QED BY <3>1 DEF Range
    <2> QED BY <2>2, <2>3
  <1>4. ASSUME NEW x \in Range(a) PROVE x \in Range(a \o b)
    <2>1. PICK i \in 1..Len(a) : x = a[i]
      BY <1>1 DEF Range
    <2>2. i \in 1..(Len(a) + Len(b)) /\ (a \o b)[i] = x
      BY <1>1, <1>2, <2>1
    <2> QED BY <1>1, <2>2 DEF Range
  <1>5. ASSUME NEW x \in Range(b) PROVE x \in Range(a \o b)
    <2>1. PICK i \in 1..Len(b) : x = b[i]
      BY <1>1 DEF Range
    <2>2. /\ Len(a) + i \in 1..(Len(a) + Len(b)) /\ ~(Len(a) + i <= Len(a))
          /\ (Len(a) + i) - Len(a) = i
      BY <1>1, <2>1
    <2>3. (a \o b)[Len(a) + i] = x
      BY <1>2, <2>1, <2>2
    <2> QED BY <1>1, <2>2, <2>3 DEF Range
  <1> QED BY <1>1, <1>3, <1>4, <1>5

\* A page brings what it lists and is not collected yet, each trip once.
LEMMA FreshCollects ==
    ASSUME IsTimetable(timetable), NEW trips \in Seq(timetable), NEW answer \in Seq(timetable),
           NEW seen, seen = FingerprintsOf(Range(trips)), Distinct(trips),
           NEW new, new = FreshTrips(answer, seen)
    PROVE  /\ new \in Seq(timetable)
           /\ Range(trips \o new) = Range(trips) \cup Range(answer)
           /\ Distinct(trips \o new)
           /\ seen \cup FingerprintsOf(Range(new)) = FingerprintsOf(Range(trips \o new))
           /\ new = <<>> => Range(answer) \subseteq Range(trips)
  <1> DEFINE kept == {i \in DOMAIN answer :
                        \/ answer[i].fp = 0
                        \/ /\ answer[i].fp \notin seen
                           /\ \A k \in 1..(i - 1) : answer[k].fp # answer[i].fp}
  <1>1. /\ new \in Seq(timetable)
        /\ \A a \in kept : \E n \in DOMAIN new : new[n] = answer[a]
        /\ \A m, n \in DOMAIN new : m # n =>
             \E a, b \in kept : a # b /\ new[m] = answer[a] /\ new[n] = answer[b]
        /\ \A n \in DOMAIN new : \E a \in kept : new[n] = answer[a]
    <2>1. kept \in SUBSET (DOMAIN answer) /\ new = Picked(answer, kept)
      BY DEF FreshTrips
    <2> HIDE DEF kept
    <2>2. new \in Seq(timetable)
      BY <2>1, PickedInOrder
    <2>3. \A a \in kept : \E n \in DOMAIN new : new[n] = answer[a]
      BY <2>1, PickedInOrder
    <2>4. \A m, n \in DOMAIN new : m # n =>
             \E a, b \in kept : a # b /\ new[m] = answer[a] /\ new[n] = answer[b]
      BY <2>1, PickedInOrder
    <2>5. \A n \in DOMAIN new : \E a \in kept : new[n] = answer[a]
      BY <2>1, PickedInOrder
    <2> QED BY <2>2, <2>3, <2>4, <2>5
  <1>17. \A n \in DOMAIN new : \E a \in kept : new[n] = answer[a]
    BY <1>1
  <1>18. \A m, n \in DOMAIN new : m # n =>
             \E a, b \in kept : a # b /\ new[m] = answer[a] /\ new[n] = answer[b]
    BY <1>1
  <1>2. DOMAIN answer = 1..Len(answer) /\ Len(answer) \in Nat
    OBVIOUS
  <1>3. \A i \in DOMAIN answer : answer[i] \in timetable
    OBVIOUS
  <1>4. \A a \in kept : answer[a].fp = 0 \/ answer[a].fp \notin seen
    OBVIOUS
  <1>5. ASSUME NEW a \in kept, NEW b \in kept, a < b, answer[a].fp # 0
        PROVE  answer[a].fp # answer[b].fp
    <2>1. a \in 1..(b - 1)
      BY <1>2, <1>5
    <2>2. answer[b].fp = 0 \/ \A k \in 1..(b - 1) : answer[k].fp # answer[b].fp
      OBVIOUS
    <2> QED BY <1>5, <2>1, <2>2
  <1>6. ASSUME NEW a \in kept, NEW b \in kept, a # b, answer[a].fp # 0
        PROVE  answer[a].fp # answer[b].fp
    <2>1. a \in Nat /\ b \in Nat
      BY <1>2
    <2>2. a < b \/ b < a
      BY <1>6, <2>1
    <2>3. CASE a < b
      BY <1>5, <1>6, <2>3
    <2>4. CASE b < a
      <3>1. answer[b].fp # 0 => answer[b].fp # answer[a].fp
        BY <1>5, <2>4
      <3> QED BY <1>6, <3>1
    <2> QED BY <2>2, <2>3, <2>4
  <1>7. ASSUME NEW i \in DOMAIN answer, answer[i].fp # 0, answer[i].fp \notin seen
        PROVE  \E a \in kept : answer[a] = answer[i]
    <2> DEFINE same == {k \in DOMAIN answer : answer[k].fp = answer[i].fp}
               m == Min(same)
    <2>1. m \in same /\ \A k \in same : m <= k
      <3>1. same \in SUBSET Nat /\ i \in same
        BY <1>2
      <3> HIDE DEF same
      <3> QED BY <3>1, SmallestOf
    <2>2. m \in DOMAIN answer /\ answer[m].fp = answer[i].fp /\ m \in Nat
      BY <1>2, <2>1
    <2>3. \A k \in 1..(m - 1) : answer[k].fp # answer[m].fp
      <3> SUFFICES ASSUME NEW k \in 1..(m - 1), answer[k].fp = answer[m].fp PROVE FALSE
        OBVIOUS
      <3> HIDE DEF m
      <3>1. k \in DOMAIN answer /\ ~(m <= k)
        BY <1>2, <2>2
      <3> QED BY <2>1, <2>2, <3>1
    <2>4. m \in kept
      BY <1>7, <2>2, <2>3
    <2>5. answer[m] = answer[i]
      BY <1>3, <1>7, <2>2 DEF IsTimetable
    <2> QED BY <2>4, <2>5
  <1>8. \A i \in DOMAIN answer : answer[i].fp = 0 => i \in kept
    OBVIOUS
  <1>9. \A a \in kept : a \in DOMAIN answer
    OBVIOUS
  <1> HIDE DEF kept
  <1>10. Range(new) \subseteq Range(answer)
    <2> SUFFICES ASSUME NEW x \in Range(new) PROVE x \in Range(answer)
      OBVIOUS
    <2>1. PICK n \in DOMAIN new : x = new[n]
      BY DEF Range
    <2>2. PICK a \in kept : new[n] = answer[a]
      BY <1>17
    <2> QED BY <1>9, <2>1, <2>2 DEF Range
  <1>11. ASSUME NEW x \in Range(answer) PROVE x \in Range(trips) \cup Range(new)
    <2>1. PICK i \in DOMAIN answer : x = answer[i]
      BY DEF Range
    <2>2. CASE x.fp = 0
      <3>1. i \in kept
        BY <1>8, <2>1, <2>2
      <3> QED BY <1>1, <2>1, <3>1 DEF Range
    <2>3. CASE x.fp # 0 /\ x.fp \notin seen
      <3>1. PICK a \in kept : answer[a] = x
        BY <1>7, <2>1, <2>3
      <3> QED BY <1>1, <3>1 DEF Range
    <2>4. CASE x.fp # 0 /\ x.fp \in seen
      <3>1. PICK t \in Range(trips) : t.fp = x.fp
        BY <2>4 DEF FingerprintsOf
      <3>2. t \in timetable /\ x \in timetable
        BY <1>3, <2>1 DEF Range
      <3>3. t = x
        BY <2>4, <3>1, <3>2 DEF IsTimetable
      <3> QED BY <3>3
    <2> QED BY <2>2, <2>3, <2>4
  <1>12. Range(trips \o new) = Range(trips) \cup Range(new)
    <2>1. new \in Seq(timetable)
      BY <1>1
    <2> QED BY <2>1, TwoLists
  <1>13. Range(trips \o new) = Range(trips) \cup Range(answer)
    BY <1>10, <1>11, <1>12
  <1>14. Distinct(trips \o new)
    <2> DEFINE l == Len(trips)
               s == trips \o new
    <2>1. /\ l \in Nat /\ Len(new) \in Nat /\ DOMAIN s = 1..(l + Len(new))
          /\ DOMAIN trips = 1..l /\ DOMAIN new = 1..Len(new)
      BY <1>1
    <2>2. \A i \in 1..(l + Len(new)) : s[i] = IF i <= l THEN trips[i] ELSE new[i - l]
      BY <1>1
    <2>3. \A i \in 1..l, k \in DOMAIN new : trips[i].fp # 0 => trips[i].fp # new[k].fp
      <3> SUFFICES ASSUME NEW i \in 1..l, NEW k \in DOMAIN new, trips[i].fp # 0
                   PROVE  trips[i].fp # new[k].fp
        OBVIOUS
      <3>1. trips[i].fp \in seen
        BY <2>1 DEF Range, FingerprintsOf
      <3>2. new[k].fp = 0 \/ new[k].fp \notin seen
        <4>1. PICK a \in kept : new[k] = answer[a]
          BY <1>17
        <4> QED BY <4>1, <1>4
      <3> QED BY <3>1, <3>2
    <2>4. \A m, n \in DOMAIN new : (m # n /\ new[m].fp # 0) => new[m].fp # new[n].fp
      <3> SUFFICES ASSUME NEW m \in DOMAIN new, NEW n \in DOMAIN new, m # n, new[m].fp # 0
                   PROVE  new[m].fp # new[n].fp
        OBVIOUS
      <3>1. PICK a \in kept, b \in kept : a # b /\ new[m] = answer[a] /\ new[n] = answer[b]
        BY <1>18
      <3> QED BY <3>1, <1>6
    <2>5. \A i, j \in 1..l : (i # j /\ trips[i].fp # 0) => trips[i].fp # trips[j].fp
      BY <2>1 DEF Distinct
    <2> HIDE DEF s, l
    <2>7. /\ \A i \in DOMAIN s : i \in Nat
          /\ \A i \in DOMAIN s : i <= l => i \in 1..l /\ s[i] = trips[i]
          /\ \A i \in DOMAIN s : ~(i <= l) => i - l \in DOMAIN new /\ s[i] = new[i - l]
      <3> DEFINE n == Len(new)
      <3>1. DOMAIN s = 1..(l + n) /\ DOMAIN new = 1..n /\ l \in Nat /\ n \in Nat
        BY <2>1
      <3> HIDE DEF n
      <3>2. /\ \A i \in 1..(l + n) : i <= l => i \in 1..l
            /\ \A i \in 1..(l + n) : ~(i <= l) => i - l \in 1..n
        BY <3>1
      <3>3. \A i \in 1..(l + n) : s[i] = IF i <= l THEN trips[i] ELSE new[i - l]
        BY <2>2 DEF n
      <3> QED BY <3>1, <3>2, <3>3
    <2>6. ASSUME NEW i \in DOMAIN s, NEW j \in DOMAIN s, i # j, s[i].fp # 0
          PROVE  s[i].fp # s[j].fp
      <3>1. i \in Nat /\ j \in Nat
        BY <2>7
      <3>2. CASE i <= l /\ j <= l
        <4>1. i \in 1..l /\ j \in 1..l /\ s[i] = trips[i] /\ s[j] = trips[j]
          BY <2>7, <3>2
        <4> QED BY <2>5, <2>6, <4>1
      <3>3. CASE i <= l /\ ~(j <= l)
        <4>1. i \in 1..l /\ j - l \in DOMAIN new /\ s[i] = trips[i] /\ s[j] = new[j - l]
          BY <2>7, <3>3
        <4> QED BY <2>3, <2>6, <4>1
      <3>4. CASE ~(i <= l) /\ j <= l
        <4>1. j \in 1..l /\ i - l \in DOMAIN new /\ s[j] = trips[j] /\ s[i] = new[i - l]
          BY <2>7, <3>4
        <4>2. trips[j].fp # 0 => trips[j].fp # new[i - l].fp
          BY <2>3, <4>1
        <4> QED BY <2>6, <4>1, <4>2
      <3>5. CASE ~(i <= l) /\ ~(j <= l)
        <4>1. i - l \in DOMAIN new /\ j - l \in DOMAIN new /\ s[i] = new[i - l] /\ s[j] = new[j - l]
          BY <2>7, <3>5
        <4>2. i - l # j - l
          BY <2>1, <2>6, <3>1
        <4> QED BY <2>4, <2>6, <4>1, <4>2
      <3> QED BY <3>2, <3>3, <3>4, <3>5
    <2> QED BY <2>6 DEF Distinct, s
  <1>15. seen \cup FingerprintsOf(Range(new)) = FingerprintsOf(Range(trips \o new))
    BY <1>12 DEF FingerprintsOf
  <1>16. new = <<>> => Range(answer) \subseteq Range(trips)
    <2> SUFFICES ASSUME new = <<>>, NEW x \in Range(answer) PROVE x \in Range(trips)
      OBVIOUS
    <2>1. Range(new) = {}
      BY NothingInIt
    <2> QED BY <1>11, <2>1
  <1> QED BY <1>1, <1>13, <1>14, <1>15, <1>16

\* What a page lists: the trips from the anchor on without a hole, all there are if it lists
\* none of them; and nothing earlier than the last trip before the anchor.
LEMMA BatchesTell ==
    ASSUME IsTimetable(timetable), PageSize \in Nat \ {0}, NEW anchor \in Nat,
           anchor = 0 \/ \E t \in timetable : t.dep = anchor - 1,
           NEW answer \in Batches(anchor)
    PROVE  /\ answer \in Seq(timetable)
           /\ \A t \in timetable, u \in Range(answer) :
                (t.dep >= anchor /\ t.dep < u.dep) => t \in Range(answer)
           /\ (\A u \in Range(answer) : u.dep < anchor) => \A t \in timetable : t.dep < anchor
           /\ \A u \in Range(answer) : u.dep >= anchor - 1
  <1> DEFINE later == {t \in timetable : t.dep >= anchor}
             before == {t \in timetable \ later : \A u \in timetable \ later : u.dep <= t.dep}
             Next1(s) == /\ \A i, k \in DOMAIN s : i < k => s[i] # s[k] /\ s[i].dep <= s[k].dep
                         /\ \A t \in later \ Range(s) :
                              Len(s) = PageSize /\ \A i \in DOMAIN s : s[i].dep <= t.dep
             next == {s \in UNION {[1..n -> later] : n \in 0..PageSize} : Next1(s)}
  <1>1. answer \in next \/ \E t \in before, s \in next : answer = <<t>> \o s
    <2>1. Batches(anchor) = next \cup UNION {{<<t>> \o s : s \in next} : t \in before}
      BY DEF Batches
    <2> HIDE DEF next, before
    <2>2. answer \in next \cup UNION {{<<t>> \o s : s \in next} : t \in before}
      BY <2>1
    <2>3. CASE answer \in UNION {{<<t>> \o s : s \in next} : t \in before}
      BY <2>3
    <2> QED BY <2>2, <2>3
  <1>2. \A t \in timetable : t.dep \in Nat
    BY DEF IsTimetable
  <1>3. PICK s \in next : answer = s \/ \E t \in before : answer = <<t>> \o s
    BY <1>1
  <1>4. PICK n \in 0..PageSize : s \in [1..n -> later]
    OBVIOUS
  <1>5. s \in Seq(later) /\ Next1(s) /\ DOMAIN s = 1..n /\ Len(s) = n /\ n \in Nat
    BY <1>3, <1>4
  <1> HIDE DEF next
  <1>6. s \in Seq(timetable) /\ Range(s) \subseteq later
    <2>1. later \subseteq timetable
      OBVIOUS
    <2> HIDE DEF later
    <2> QED BY <2>1, <1>4, <1>5 DEF Range
  <1>7. /\ answer \in Seq(timetable)
        /\ Range(s) \subseteq Range(answer)
        /\ \A u \in Range(answer) : u \in Range(s) \/ u \in before
    <2>1. CASE answer = s
      BY <2>1, <1>6
    <2>2. CASE \E t \in before : answer = <<t>> \o s
      <3>1. PICK t \in before : answer = <<t>> \o s
        BY <2>2
      <3>2. <<t>> \in Seq(timetable) /\ Range(<<t>>) = {t}
        BY DEF Range
      <3>4. s \in Seq(timetable)
        BY <1>6
      <3>3. answer \in Seq(timetable) /\ Range(answer) = {t} \cup Range(s)
        <4> HIDE DEF before, later, Next1
        <4>1. /\ <<t>> \o s \in Seq(timetable)
              /\ Range(<<t>> \o s) = Range(<<t>>) \cup Range(s)
          <5> DEFINE one == <<t>>
          <5>1. one \in Seq(timetable)
            BY <3>2
          <5> HIDE DEF one
          <5>2. one \o s \in Seq(timetable) /\ Range(one \o s) = Range(one) \cup Range(s)
            BY <5>1, <3>4, TwoLists
          <5> QED BY <5>2 DEF one
        <4> QED BY <3>1, <3>2, <4>1
      <3> QED BY <3>1, <3>3
    <2> QED BY <1>3, <2>1, <2>2
  <1>8. \A t \in later, u \in Range(s) : t.dep < u.dep => t \in Range(s)
    <2> SUFFICES ASSUME NEW t \in later \ Range(s), NEW u \in Range(s), t.dep < u.dep PROVE FALSE
      OBVIOUS
    <2>1. PICK i \in DOMAIN s : u = s[i]
      BY DEF Range
    <2>2. u.dep <= t.dep
      BY <1>5, <2>1
    <2>3. t.dep \in Nat /\ u.dep \in Nat
      BY <1>2, <1>6
    <2> QED BY <2>2, <2>3
  <1>9. \A u \in before : u \in timetable /\ u.dep < anchor
    BY <1>2
  <1>10. \A t \in timetable, u \in Range(answer) :
            (t.dep >= anchor /\ t.dep < u.dep) => t \in Range(answer)
    <2> SUFFICES ASSUME NEW t \in timetable, NEW u \in Range(answer), t.dep >= anchor, t.dep < u.dep
                 PROVE  t \in Range(answer)
      OBVIOUS
    <2>1. u \notin before
      BY <1>2, <1>9
    <2>2. u \in Range(s) /\ t \in later
      BY <1>7, <2>1
    <2> QED BY <1>7, <1>8, <2>2
  <1>11. (\A u \in Range(answer) : u.dep < anchor) => \A t \in timetable : t.dep < anchor
    <2> SUFFICES ASSUME \A u \in Range(answer) : u.dep < anchor, NEW t \in timetable, ~(t.dep < anchor)
                 PROVE  FALSE
      OBVIOUS
    <2>1. t \in later
      BY <1>2
    <2>2. \A u \in Range(s) : FALSE
      <3> TAKE u \in Range(s)
      <3>1. u \in timetable /\ u.dep >= anchor /\ u.dep < anchor
        BY <1>6, <1>7
      <3> QED BY <1>2, <3>1
    <2>3. t \notin Range(s)
      BY <2>2
    <2>4. Len(s) = PageSize
      BY <1>5, <2>1, <2>3
    <2>5. 1 \in DOMAIN s
      BY <1>5, <2>4
    <2>6. s[1] \in Range(s)
      BY <2>5 DEF Range
    <2> QED BY <2>2, <2>6
  <1>12. \A u \in Range(answer) : u.dep >= anchor - 1
    <2> TAKE u \in Range(answer)
    <2>1. CASE u \in Range(s)
      BY <1>2, <1>6, <2>1
    <2>2. CASE u \in before
      <3>1. u \in timetable /\ u.dep < anchor /\ u.dep \in Nat
        BY <1>2, <1>9, <2>2
      <3>2. PICK t \in timetable : t.dep = anchor - 1
        BY <3>1
      <3>3. t \in timetable \ later
        BY <1>2, <3>2
      <3>4. t.dep <= u.dep
        BY <2>2, <3>3
      <3> QED BY <3>1, <3>2, <3>4
    <2> QED BY <1>7, <2>1, <2>2
  <1> QED BY <1>7, <1>10, <1>11, <1>12

\* The anchor moves past the last departure of a page that can be read.
LEMMA AnchorMoves ==
    ASSUME IsTimetable(timetable), NEW answer \in Seq(timetable)
    PROVE  /\ NextAnchor(answer) = Nothing =>
                \/ \A u \in Range(answer) : ~u.clear
                \/ \E u \in Range(answer) : u.dep >= TargetWindow
           /\ NextAnchor(answer) # Nothing =>
                \E u \in Range(answer) :
                    /\ NextAnchor(answer) = u.dep + 1 /\ u.clear
                    /\ \A x \in Range(answer) : x.clear => x.dep <= u.dep
  <1> DEFINE clear == {i \in DOMAIN answer : answer[i].clear}
             dep == [i \in clear |-> answer[i].dep]
             read == {t.dep : t \in {u \in Range(answer) : u.clear}}
  <1>1. DOMAIN answer = 1..Len(answer) /\ Len(answer) \in Nat /\ \A i \in DOMAIN answer : answer[i] \in timetable
    OBVIOUS
  <1>2. IsFiniteSet(clear)
    <2>1. IsFiniteSet(DOMAIN answer)
      BY <1>1, FS_Interval
    <2> QED BY <2>1, FS_Subset
  <1>3. read = {dep[i] : i \in clear}
    BY DEF Range
  <1>4. IsFiniteSet({dep[i] : i \in clear})
    <2> HIDE DEF clear
    <2> QED BY <1>2, ImageOf
  <1>5. read \in SUBSET Nat
    BY <1>1 DEF Range, IsTimetable
  <1>6. NextAnchor(answer) = IF read = {} THEN Nothing
                            ELSE IF Max(read) >= TargetWindow THEN Nothing ELSE Max(read) + 1
    BY DEF NextAnchor
  <1>7. \A u \in Range(answer) : u.clear => u.dep \in read
    OBVIOUS
  <1>8. \A d \in read : \E u \in Range(answer) : u.clear /\ u.dep = d
    OBVIOUS
  <1> HIDE DEF clear, dep, read
  <1>9. CASE read = {}
    <2>1. \A u \in Range(answer) : ~u.clear
      BY <1>7, <1>9
    <2> QED BY <1>6, <1>9, <2>1
  <1>10. CASE read # {}
    <2>1. Max(read) \in read /\ \A d \in read : d <= Max(read)
      BY <1>3, <1>4, <1>5, <1>10, LargestOf
    <2>2. PICK u \in Range(answer) : u.clear /\ u.dep = Max(read)
      BY <1>8, <2>1
    <2>3. \A x \in Range(answer) : x.clear => x.dep <= u.dep
      BY <1>7, <2>1, <2>2
    <2>4. Max(read) \in Nat
      BY <1>5, <2>1
    <2>5. CASE Max(read) >= TargetWindow
      <3>1. NextAnchor(answer) = Nothing
        BY <1>6, <1>10, <2>5
      <3> QED BY <2>2, <2>5, <3>1
    <2>6. CASE ~(Max(read) >= TargetWindow)
      <3>1. NextAnchor(answer) = u.dep + 1
        BY <1>6, <1>10, <2>2, <2>6
      <3>2. NextAnchor(answer) \in Nat
        BY <2>2, <2>4, <3>1
      <3>3. NextAnchor(answer) # Nothing
        BY <3>2, PagesAssumption
      <3> QED BY <2>2, <2>3, <3>1, <3>3
    <2> QED BY <2>5, <2>6
  <1> QED BY <1>9, <1>10

\* The calls of a client.
PagingType ==
    [client : {"hafas", "ojp"}, at : {"page", "told"}, anchor : Nat, trips : Seq(timetable),
     seen : SUBSET {t.fp : t \in timetable}, pages : Nat, spent : Nat,
     first : {Nothing, "ok", "no_route", "error"}, partial : BOOLEAN, budget : BOOLEAN,
     garbled : BOOLEAN]

\* What is collected has no hole: whatever departs before the anchor, or before a trip that
\* is collected, is collected, or another of its minute is.
NoHole(p) ==
    /\ \A t \in timetable : t.dep < p.anchor => \E v \in Range(p.trips) : v.dep = t.dep
    /\ \A t \in timetable, u \in Range(p.trips) :
         t.dep < u.dep => \E v \in Range(p.trips) : v.dep = t.dep

\* Why a client that is done may be short of the window.
Accounted(p) ==
    (/\ p.client = "hafas" /\ p.trips # <<>>
     /\ \E t \in timetable : t.dep < TargetWindow /\ \A u \in Range(p.trips) : u.dep < t.dep) =>
        \/ p.partial \/ p.budget \/ p.pages = MaxPages \/ p.garbled
        \/ \E u \in Range(p.trips) : ~u.clear

\* A client that goes on has collected nothing from the anchor on; it has spent no more than
\* what its pages were given.
PagingHolds(p) ==
    /\ p \in PagingType /\ p.seen = FingerprintsOf(Range(p.trips)) /\ Distinct(p.trips)
    /\ NoHole(p) /\ (p.anchor = 0 \/ \E t \in timetable : t.dep = p.anchor - 1)
    /\ p.at = "page" =>
         /\ \A u \in Range(p.trips) : u.clear => u.dep < p.anchor
         /\ p.pages = 0 => p.spent = 0
    /\ p.at = "told" => Accounted(p)
    /\ p.client = "ojp" => p.spent = 0
    /\ p.spent <= TotalTimeout + PageTimeout

\* A page that fails, that brings no trips, or that there is no budget for ends the call.
LEMMA EndedPages ==
    ASSUME NEW p, PagingHolds(p), p.at = "page"
    PROVE  /\ PagingHolds(PageFailed(p))
           /\ PagingHolds([Paged(p, <<>>) EXCEPT !.garbled = TRUE])
           /\ PagingHolds([p EXCEPT !.at = "told", !.budget = TRUE])
  <1>1. p \in PagingType
    BY DEF PagingHolds
  <1>5. NoHole(p)
    BY DEF PagingHolds
  <1>6. /\ p.seen = FingerprintsOf(Range(p.trips)) /\ Distinct(p.trips)
        /\ (p.anchor = 0 \/ \E t \in timetable : t.dep = p.anchor - 1)
        /\ p.client = "ojp" => p.spent = 0
        /\ p.spent <= TotalTimeout + PageTimeout
    BY DEF PagingHolds
  <1>2. PagingHolds(PageFailed(p))
    <2> DEFINE r == PageFailed(p)
    <2>1. /\ r \in PagingType /\ r.at = "told" /\ r.client = p.client /\ r.trips = p.trips
          /\ r.seen = p.seen /\ r.anchor = p.anchor /\ r.spent = p.spent
          /\ r.partial = (p.client = "hafas" /\ p.trips # <<>>)
      BY <1>1 DEF PagingType, PageFailed
    <2>2. Accounted(r)
      <3> HIDE DEF r
      <3> QED BY <2>1 DEF Accounted
    <2> HIDE DEF r
    <2>3. NoHole(r)
      BY <1>5, <2>1 DEF NoHole
    <2> QED BY <1>5, <1>6, <2>1, <2>2, <2>3 DEF PagingHolds, r
  <1>3. PagingHolds([Paged(p, <<>>) EXCEPT !.garbled = TRUE])
    <2> DEFINE r == [Paged(p, <<>>) EXCEPT !.garbled = TRUE]
    <2>1. Paged(p, <<>>) = [p EXCEPT !.at = "told", !.first = IF p.pages = 1 THEN "no_route" ELSE p.first]
      BY DEF Paged
    <2>2. /\ r \in PagingType /\ r.at = "told" /\ r.client = p.client /\ r.trips = p.trips
          /\ r.seen = p.seen /\ r.anchor = p.anchor /\ r.spent = p.spent /\ r.garbled = TRUE
      BY <1>1, <2>1 DEF PagingType
    <2> HIDE DEF r
    <2>3. NoHole(r) /\ Accounted(r)
      BY <1>5, <2>2 DEF NoHole, Accounted
    <2> QED BY <1>5, <1>6, <2>2, <2>3 DEF PagingHolds, r
  <1>4. PagingHolds([p EXCEPT !.at = "told", !.budget = TRUE])
    <2> DEFINE r == [p EXCEPT !.at = "told", !.budget = TRUE]
    <2>2. /\ r \in PagingType /\ r.at = "told" /\ r.client = p.client /\ r.trips = p.trips
          /\ r.seen = p.seen /\ r.anchor = p.anchor /\ r.spent = p.spent /\ r.budget = TRUE
      BY <1>1 DEF PagingType
    <2> HIDE DEF r
    <2>3. NoHole(r) /\ Accounted(r)
      BY <1>5, <2>2 DEF NoHole, Accounted
    <2> QED BY <1>5, <1>6, <2>2, <2>3 DEF PagingHolds, r
  <1> QED BY <1>2, <1>3, <1>4

\* A page with trips: all of them are collected, none twice.
LEMMA PageCollects ==
    ASSUME IsTimetable(timetable), NEW p, PagingHolds(p), p.at = "page",
           NEW answer \in Seq(timetable), answer # <<>>, NEW r, r = Paged(p, answer)
    PROVE  /\ r \in PagingType /\ r.client = p.client /\ r.pages = p.pages /\ r.spent = p.spent
           /\ Range(r.trips) = Range(p.trips) \cup Range(answer)
           /\ r.seen = FingerprintsOf(Range(r.trips)) /\ Distinct(r.trips)
           /\ r.at = "page" => NextAnchor(answer) # Nothing /\ r.anchor = NextAnchor(answer)
           /\ r.at = "told" =>
                /\ r.anchor = p.anchor
                /\ \/ Range(answer) \subseteq Range(p.trips) \/ NextAnchor(answer) = Nothing
                   \/ r.pages = MaxPages
  <1> DEFINE new == FreshTrips(answer, p.seen)
             fps == FingerprintsOf(Range(new))
             all == p.trips \o new
             q == [p EXCEPT !.first = IF p.pages = 1 THEN "ok" ELSE p.first,
                            !.trips = all, !.seen = p.seen \cup fps]
             ends == new = <<>> \/ NextAnchor(answer) = Nothing \/ p.pages = MaxPages
  <1>1. p \in PagingType /\ p.seen = FingerprintsOf(Range(p.trips)) /\ Distinct(p.trips)
    BY DEF PagingHolds
  <1>2. p.trips \in Seq(timetable)
    BY <1>1 DEF PagingType
  <1>3. /\ new \in Seq(timetable)
        /\ Range(all) = Range(p.trips) \cup Range(answer)
        /\ Distinct(all)
        /\ p.seen \cup fps = FingerprintsOf(Range(all))
        /\ new = <<>> => Range(answer) \subseteq Range(p.trips)
    BY <1>1, <1>2, FreshCollects
  <1>4. r = IF ends THEN [q EXCEPT !.at = "told"] ELSE [q EXCEPT !.anchor = NextAnchor(answer)]
    BY DEF Paged, FingerprintsOf
  <1>5. all \in Seq(timetable)
    BY <1>2, <1>3, TwoLists
  <1>6. FingerprintsOf(Range(all)) \subseteq {t.fp : t \in timetable}
    <2> HIDE DEF all
    <2>1. \A x \in Range(all) : x \in timetable
      BY <1>5 DEF Range
    <2> QED BY <2>1 DEF FingerprintsOf
  <1>7. NextAnchor(answer) # Nothing => NextAnchor(answer) \in Nat
    <2> SUFFICES ASSUME NextAnchor(answer) # Nothing PROVE NextAnchor(answer) \in Nat
      OBVIOUS
    <2>1. PICK u \in Range(answer) : NextAnchor(answer) = u.dep + 1
      BY AnchorMoves
    <2>2. u \in timetable
      BY DEF Range
    <2>3. u.dep \in Nat
      BY <2>2 DEF IsTimetable
    <2> QED BY <2>1, <2>3
  <1>8. p.seen \cup fps \in SUBSET {t.fp : t \in timetable}
    BY <1>3, <1>6
  <1> HIDE DEF new, fps, all
  <1>9. /\ q \in PagingType /\ q.client = p.client /\ q.pages = p.pages /\ q.spent = p.spent
        /\ q.trips = all /\ q.seen = p.seen \cup fps /\ q.anchor = p.anchor /\ q.at = "page"
    BY <1>1, <1>5, <1>8 DEF PagingType
  <1> HIDE DEF q
  <1>10. CASE ends
    <2>1. r = [q EXCEPT !.at = "told"]
      BY <1>4, <1>10
    <2>2. /\ r \in PagingType /\ r.client = p.client /\ r.pages = p.pages /\ r.spent = p.spent
          /\ r.trips = all /\ r.seen = p.seen \cup fps /\ r.anchor = p.anchor /\ r.at = "told"
      BY <1>9, <2>1 DEF PagingType
    <2> QED BY <1>3, <1>10, <2>2
  <1>11. CASE ~ends
    <2>1. r = [q EXCEPT !.anchor = NextAnchor(answer)]
      BY <1>4, <1>11
    <2>2. NextAnchor(answer) \in Nat
      BY <1>7, <1>11
    <2>3. /\ r \in PagingType /\ r.client = p.client /\ r.pages = p.pages /\ r.spent = p.spent
          /\ r.trips = all /\ r.seen = p.seen \cup fps /\ r.anchor = NextAnchor(answer) /\ r.at = "page"
      BY <1>9, <2>1, <2>2 DEF PagingType
    <2> QED BY <1>3, <1>11, <2>3
  <1> QED BY <1>10, <1>11

LEMMA PageKeeps ==
    ASSUME IsTimetable(timetable), NEW p, PagingHolds(p), p.at = "page",
           NEW answer \in Batches(p.anchor)
    PROVE  PagingHolds(Paged(p, answer))
  <1> DEFINE r == Paged(p, answer)
             C == Range(p.trips)
             B == Range(answer)
             a == p.anchor
  <1>1. /\ p \in PagingType /\ NoHole(p) /\ (a = 0 \/ \E t \in timetable : t.dep = a - 1)
        /\ \A u \in C : u.clear => u.dep < a
        /\ p.pages = 0 => p.spent = 0
        /\ p.client = "ojp" => p.spent = 0
        /\ p.spent <= TotalTimeout + PageTimeout
    BY DEF PagingHolds
  <1>2. a \in Nat /\ C \subseteq timetable
    BY <1>1 DEF PagingType, Range
  <1>3. \A t \in timetable : t.dep \in Nat
    BY DEF IsTimetable
  <1>4. PageSize \in Nat \ {0}
    BY PagesAssumption
  <1>5. /\ answer \in Seq(timetable)
        /\ \A t \in timetable, u \in B : (t.dep >= a /\ t.dep < u.dep) => t \in B
        /\ (\A u \in B : u.dep < a) => \A t \in timetable : t.dep < a
        /\ \A u \in B : u.dep >= a - 1
    BY <1>1, <1>2, <1>4, BatchesTell
  <1>6. B \subseteq timetable
    BY <1>5 DEF Range
  <1>7. \A t \in timetable : t.dep < a => \E v \in C : v.dep = t.dep
    BY <1>1 DEF NoHole
  <1>8. \A t \in timetable, u \in C : t.dep < u.dep => \E v \in C : v.dep = t.dep
    BY <1>1 DEF NoHole
  <1>9. CASE answer = <<>>
    <2>1. r = [p EXCEPT !.at = "told", !.first = IF p.pages = 1 THEN "no_route" ELSE p.first]
      BY <1>9 DEF Paged
    <2>2. /\ r \in PagingType /\ r.at = "told" /\ r.client = p.client /\ r.trips = p.trips
          /\ r.seen = p.seen /\ r.anchor = p.anchor /\ r.spent = p.spent
      BY <1>1, <2>1 DEF PagingType
    <2>3. \A t \in timetable : \E v \in C : v.dep = t.dep
      <3>1. B = {}
        BY <1>9, NothingInIt
      <3> QED BY <1>5, <1>7, <3>1
    <2> HIDE DEF r
    <2>4. Accounted(r)
      <3>1. \A t \in timetable : ~(\A u \in C : u.dep < t.dep)
        <4> TAKE t \in timetable
        <4>1. PICK v \in C : v.dep = t.dep
          BY <2>3
        <4> QED BY <4>1, <1>3
      <3> QED BY <2>2, <3>1 DEF Accounted
    <2>5. PagingHolds(r)
      BY <2>2, <2>4 DEF PagingHolds, NoHole
    <2> QED BY <2>5 DEF r
  <1>10. CASE answer # <<>>
    <2>1. /\ r \in PagingType /\ r.client = p.client /\ r.pages = p.pages /\ r.spent = p.spent
          /\ Range(r.trips) = C \cup B
          /\ r.seen = FingerprintsOf(Range(r.trips)) /\ Distinct(r.trips)
          /\ r.at = "page" => NextAnchor(answer) # Nothing /\ r.anchor = NextAnchor(answer)
          /\ r.at = "told" =>
               /\ r.anchor = a
               /\ B \subseteq C \/ NextAnchor(answer) = Nothing \/ r.pages = MaxPages
      BY <1>5, <1>10, PageCollects
    <2>2. \A t \in timetable, u \in C \cup B : t.dep < u.dep => \E v \in C \cup B : v.dep = t.dep
      <3> SUFFICES ASSUME NEW t \in timetable, NEW u \in C \cup B, t.dep < u.dep
                   PROVE  \E v \in C \cup B : v.dep = t.dep
        OBVIOUS
      <3>1. CASE u \in C
        BY <1>8, <3>1
      <3>2. CASE u \in B /\ t.dep < a
        BY <1>7, <3>2
      <3>3. CASE u \in B /\ ~(t.dep < a)
        BY <1>2, <1>3, <1>5, <3>3
      <3> QED BY <3>1, <3>2, <3>3
    <2> HIDE DEF r
    <2>3. r.at \in {"page", "told"} /\ r.anchor \in Nat
      BY <2>1 DEF PagingType
    <2>4. CASE r.at = "page"
      <3>1. PICK u \in B : /\ r.anchor = u.dep + 1 /\ u.clear
                           /\ \A x \in B : x.clear => x.dep <= u.dep
        BY <1>5, <2>1, <2>4, AnchorMoves
      <3>2. u \in timetable /\ u.dep \in Nat /\ u.dep >= a - 1
        BY <1>3, <1>5, <1>6
      <3>3. \A t \in timetable : t.dep < r.anchor => \E v \in C \cup B : v.dep = t.dep
        <4> SUFFICES ASSUME NEW t \in timetable, t.dep < r.anchor
                     PROVE  \E v \in C \cup B : v.dep = t.dep
          OBVIOUS
        <4>1. t.dep = u.dep \/ t.dep < u.dep
          BY <1>3, <3>1, <3>2
        <4> QED BY <4>1, <2>2
      <3>4. r.anchor - 1 = u.dep
        BY <3>1, <3>2
      <3>5. \A x \in C \cup B : x.clear => x.dep < r.anchor
        <4> SUFFICES ASSUME NEW x \in C \cup B, x.clear PROVE x.dep < r.anchor
          OBVIOUS
        <4>1. x.dep \in Nat
          BY <1>2, <1>3, <1>6
        <4>2. CASE x \in C
          BY <1>1, <1>2, <3>1, <3>2, <4>1, <4>2
        <4>3. CASE x \in B
          BY <3>1, <3>2, <4>1, <4>3
        <4> QED BY <4>2, <4>3
      <3>6. NoHole(r)
        BY <2>1, <2>2, <3>3 DEF NoHole
      <3> QED BY <1>1, <2>1, <2>4, <3>2, <3>4, <3>5, <3>6 DEF PagingHolds, r
    <2>5. CASE r.at = "told"
      <3>1. r.anchor = a
        BY <2>1, <2>5
      <3>2. NoHole(r)
        BY <1>7, <2>1, <2>2, <3>1 DEF NoHole
      <3>3. Accounted(r)
        <4> SUFFICES ASSUME NEW t \in timetable, t.dep < TargetWindow,
                            \A u \in C \cup B : u.dep < t.dep, r.pages # MaxPages,
                            \A u \in C \cup B : u.clear
                     PROVE  FALSE
          BY <2>1 DEF Accounted
        <4>1. ~(t.dep < a)
          <5> SUFFICES ASSUME t.dep < a PROVE FALSE
            OBVIOUS
          <5>1. PICK v \in C : v.dep = t.dep
            BY <1>7
          <5> QED BY <5>1, <1>3
        <4>2. \E u \in B : ~(u.dep < a)
          BY <1>5, <4>1
        <4>3. CASE B \subseteq C
          BY <1>1, <4>2, <4>3
        <4>4. CASE NextAnchor(answer) = Nothing
          <5>1. \/ \A u \in B : ~u.clear
                \/ \E u \in B : u.dep >= TargetWindow
            BY <1>5, <4>4, AnchorMoves
          <5>2. PICK u \in B : u.dep >= TargetWindow
            BY <5>1, <4>2
          <5>3. u.dep < t.dep /\ u.dep \in Nat /\ t.dep \in Nat /\ TargetWindow \in Nat
            BY <1>3, <1>6, PagesAssumption
          <5> QED BY <5>2, <5>3
        <4> QED BY <2>1, <2>5, <4>3, <4>4
      <3> QED BY <1>1, <2>1, <2>5, <3>1, <3>2, <3>3 DEF PagingHolds, r
    <2> QED BY <2>3, <2>4, <2>5
  <1> QED BY <1>9, <1>10 DEF r

\* What is told of a reference: each trip by one id, and no train that VIATOR shows is missing.
ReferenceHolds ==
    reference # Nothing =>
        /\ paging.at = "told"
        /\ \A i, j \in DOMAIN reference.trips :
             i # j => reference.trips[i].id # reference.trips[j].id
        /\ SharedTrainShown

PagesInv == IsTimetable(timetable) /\ PagingHolds(paging) /\ ReferenceHolds

\* The smaller and the larger of two numbers.
LEMMA OfTwo ==
    ASSUME NEW a \in Nat, NEW b \in Nat
    PROVE  /\ Min({a, b}) = IF a <= b THEN a ELSE b
           /\ Max({a, b}) = IF a <= b THEN b ELSE a
  <1>1. Min({a, b}) \in {a, b} /\ \A y \in {a, b} : Min({a, b}) <= y
    BY SmallestOf
  <1>2. IsFiniteSet({a, b})
    <2>1. {a, b} = {a} \cup {b}
      OBVIOUS
    <2>2. IsFiniteSet({a})
      BY FS_Singleton
    <2>3. IsFiniteSet({a} \cup {b})
      BY <2>2, FS_AddElement
    <2> QED BY <2>1, <2>3
  <1>3. Max({a, b}) \in {a, b} /\ \A y \in {a, b} : y <= Max({a, b})
    BY <1>2, LargestOf
  <1> QED BY <1>1, <1>3

\* Two calls of a page's timeout exceed the budget by one at most.
LEMMA BudgetOfAPage ==
    ASSUME NEW p, p \in PagingType, p.pages = 0 => p.spent = 0, PageBudget(p) # Nothing
    PROVE  /\ PageBudget(p) \in Nat
           /\ p.spent + 2 * PageBudget(p) <= TotalTimeout + PageTimeout
  <1> DEFINE rest == TotalTimeout - p.spent
             least == Min({PageTimeout, rest})
  <1>1. /\ PageTimeout \in Nat \ {0} /\ MinPageBudget \in Nat \ {0} /\ TotalTimeout \in Nat
        /\ TotalTimeout >= 2 * PageTimeout /\ MinPageBudget <= PageTimeout
    BY PagesAssumption
  <1>2. p.pages \in Nat /\ p.spent \in Nat
    BY DEF PagingType
  <1>3. ~(p.pages > 0 /\ rest < MinPageBudget)
    BY DEF PageBudget
  <1>4. PageBudget(p) = Max({MinPageBudget, least})
    BY <1>3 DEF PageBudget
  <1>5. rest \in Nat /\ rest + p.spent = TotalTimeout
    BY <1>1, <1>2, <1>3
  <1>6. p.pages = 0 => rest >= 2 * PageTimeout
    BY <1>1, <1>2
  <1>7. p.pages # 0 => rest >= MinPageBudget
    BY <1>1, <1>2, <1>3, <1>5
  <1> HIDE DEF rest
  <1>8. least = IF PageTimeout <= rest THEN PageTimeout ELSE rest
    BY <1>1, <1>5, OfTwo
  <1>9. least \in Nat /\ least <= PageTimeout /\ least <= rest /\ MinPageBudget <= least
    BY <1>1, <1>2, <1>5, <1>6, <1>7, <1>8
  <1> HIDE DEF least
  <1>10. PageBudget(p) = least
    BY <1>1, <1>4, <1>9, OfTwo
  <1> QED BY <1>1, <1>2, <1>5, <1>9, <1>10

LEMMA FetchKeeps == PagesInv /\ FetchPage => PagesInv'
  <1> SUFFICES ASSUME PagesInv, FetchPage PROVE PagesInv'
    OBVIOUS
  <1> DEFINE timed == paging.client = "hafas"
             budget == IF timed THEN PageBudget(paging) ELSE PageTimeout
             Paid(took) == [paging EXCEPT !.pages = @ + 1, !.spent = @ + took]
  <1>1. paging.at = "page" /\ timetable' = timetable /\ reference' = reference
    BY DEF FetchPage
  <1>2. reference = Nothing
    BY <1>1 DEF PagesInv, ReferenceHolds
  <1>3. IsTimetable(timetable) /\ PagingHolds(paging)
    BY DEF PagesInv
  <1>4. ASSUME NEW took \in (IF timed THEN 0..(2 * budget) ELSE {0}), budget # Nothing
        PROVE  PagingHolds(Paid(took)) /\ Paid(took).at = "page" /\ Paid(took).anchor = paging.anchor
    <2>1. /\ paging \in PagingType /\ (paging.pages = 0 => paging.spent = 0)
          /\ paging.client = "ojp" => paging.spent = 0
          /\ paging.seen = FingerprintsOf(Range(paging.trips)) /\ Distinct(paging.trips)
          /\ NoHole(paging) /\ (paging.anchor = 0 \/ \E t \in timetable : t.dep = paging.anchor - 1)
          /\ \A u \in Range(paging.trips) : u.clear => u.dep < paging.anchor
          /\ paging.spent <= TotalTimeout + PageTimeout
      BY <1>1, <1>3 DEF PagingHolds
    <2>2. /\ paging.client \in {"hafas", "ojp"} /\ paging.pages \in Nat /\ paging.spent \in Nat
          /\ TotalTimeout \in Nat /\ PageTimeout \in Nat
      BY <2>1, PagesAssumption DEF PagingType
    <2>3. took \in Nat /\ (paging.client = "ojp" => took = 0)
          /\ paging.spent + took <= TotalTimeout + PageTimeout
      <3>1. CASE timed
        <4>1. PageBudget(paging) \in Nat
              /\ paging.spent + 2 * PageBudget(paging) <= TotalTimeout + PageTimeout
          BY <1>4, <2>1, <3>1, BudgetOfAPage
        <4> DEFINE b == PageBudget(paging)
        <4>2. took \in 0..(2 * b)
          BY <3>1
        <4> HIDE DEF b
        <4>3. took \in Nat /\ took <= 2 * b /\ b \in Nat /\ paging.spent + 2 * b <= TotalTimeout + PageTimeout
          BY <4>1, <4>2 DEF b
        <4> QED BY <2>2, <3>1, <4>3
      <3>2. CASE ~timed
        <4>1. took = 0
          BY <3>2
        <4> QED BY <2>1, <2>2, <4>1
      <3> QED BY <3>1, <3>2
    <2> DEFINE q == Paid(took)
    <2>4. /\ q \in PagingType /\ q.client = paging.client /\ q.at = "page" /\ q.anchor = paging.anchor
          /\ q.trips = paging.trips /\ q.seen = paging.seen /\ q.pages = paging.pages + 1
          /\ q.spent = paging.spent + took
      <3> DEFINE m == paging.pages + 1
                 n == paging.spent + took
      <3>1. m \in Nat /\ n \in Nat
        BY <2>2, <2>3
      <3>2. q = [paging EXCEPT !.pages = m, !.spent = n]
        BY <2>1 DEF PagingType
      <3> HIDE DEF m, n, q
      <3>3. /\ q \in PagingType /\ q.client = paging.client /\ q.at = "page"
            /\ q.anchor = paging.anchor /\ q.trips = paging.trips /\ q.seen = paging.seen
            /\ q.pages = m /\ q.spent = n
        BY <1>1, <2>1, <3>1, <3>2 DEF PagingType
      <3> QED BY <3>3 DEF m, n
    <2> HIDE DEF q
    <2>5. NoHole(q)
      BY <2>1, <2>4 DEF NoHole
    <2>6. q.pages # 0
      BY <2>2, <2>4
    <2>7. q.client = "ojp" => q.spent = 0
      BY <2>1, <2>3, <2>4
    <2>8. PagingHolds(q)
      BY <2>1, <2>3, <2>4, <2>5, <2>6, <2>7 DEF PagingHolds
    <2> QED BY <2>4, <2>8 DEF q
  <1>5. \/ paging' = [paging EXCEPT !.at = "told", !.budget = TRUE]
        \/ /\ budget # Nothing
           /\ \E took \in (IF timed THEN 0..(2 * budget) ELSE {0}) :
                \/ paging' = PageFailed(Paid(took))
                \/ paging' = [Paged(Paid(took), <<>>) EXCEPT !.garbled = TRUE]
                \/ \E answer \in Batches(paging.anchor) : paging' = Paged(Paid(took), answer)
    BY DEF FetchPage
  <1> HIDE DEF timed, budget, Paid
  <1>6. PagingHolds(paging')
    <2>1. CASE paging' = [paging EXCEPT !.at = "told", !.budget = TRUE]
      BY <1>1, <1>3, <2>1, EndedPages
    <2>2. ASSUME NEW took \in (IF timed THEN 0..(2 * budget) ELSE {0}), budget # Nothing,
                 \/ paging' = PageFailed(Paid(took))
                 \/ paging' = [Paged(Paid(took), <<>>) EXCEPT !.garbled = TRUE]
                 \/ \E answer \in Batches(paging.anchor) : paging' = Paged(Paid(took), answer)
          PROVE  PagingHolds(paging')
      <3> DEFINE p == Paid(took)
      <3>1. PagingHolds(p) /\ p.at = "page" /\ p.anchor = paging.anchor
        BY <1>4, <2>2
      <3> HIDE DEF p
      <3>2. CASE paging' = PageFailed(p)
        BY <3>1, <3>2, EndedPages
      <3>3. CASE paging' = [Paged(p, <<>>) EXCEPT !.garbled = TRUE]
        BY <3>1, <3>3, EndedPages
      <3>4. ASSUME NEW answer \in Batches(paging.anchor), paging' = Paged(p, answer)
            PROVE  PagingHolds(paging')
        BY <1>3, <3>1, <3>4, PageKeeps
      <3> QED BY <2>2, <3>2, <3>3, <3>4 DEF p
    <2> QED BY <1>5, <2>1, <2>2
  <1>7. PagingHolds(paging)'
    BY <1>1, <1>6 DEF PagingHolds, PagingType, NoHole, Accounted
  <1>8. ReferenceHolds'
    BY <1>1, <1>2 DEF ReferenceHolds
  <1> QED BY <1>1, <1>3, <1>7, <1>8 DEF PagesInv

\* Trips are numbered by their places.
LEMMA NumberedTrips ==
    ASSUME NEW trips \in Seq(timetable), NEW list, list = Renumbered(trips)
    PROVE  /\ list \in Seq([trip : timetable, id : Nat]) /\ DOMAIN list = DOMAIN trips
           /\ \A i \in DOMAIN trips : list[i].trip = trips[i] /\ list[i].id = i - 1
           /\ \A i, j \in DOMAIN trips : i # j => list[i].id # list[j].id
  <1>1. DOMAIN trips = 1..Len(trips) /\ Len(trips) \in Nat /\ \A i \in DOMAIN trips : trips[i] \in timetable
    OBVIOUS
  <1>2. list = [i \in 1..Len(trips) |-> [trip |-> trips[i], id |-> i - 1]]
    BY <1>1 DEF Renumbered
  <1>3. \A i \in 1..Len(trips) : list[i] \in [trip : timetable, id : Nat]
    BY <1>1, <1>2
  <1>4. list \in Seq([trip : timetable, id : Nat]) /\ DOMAIN list = DOMAIN trips
    BY <1>1, <1>2, <1>3
  <1>5. \A i \in DOMAIN trips : list[i].trip = trips[i] /\ list[i].id = i - 1
    BY <1>1, <1>2
  <1>6. \A i, j \in DOMAIN trips : i # j => list[i].id # list[j].id
    BY <1>1, <1>5
  <1> QED BY <1>4, <1>5, <1>6

\* No trip that boards with one of VIATOR's, or before it, is clipped.
LEMMA ClippedTrips ==
    ASSUME NEW trips \in Seq(timetable), NEW journeys \in ViatorResults,
           NEW list, list = Clipped(Renumbered(trips), journeys)
    PROVE  /\ \A m, n \in DOMAIN list : m # n => list[m].id # list[n].id
           /\ \A i \in DOMAIN trips :
                (\E j \in journeys : j.board = trips[i].board) =>
                    \E k \in DOMAIN list : list[k].trip = trips[i]
  <1> DEFINE all == Renumbered(trips)
             latest == LatestBoarding(journeys)
             kept == {i \in DOMAIN all :
                 latest = Nothing \/ all[i].trip.board = Nothing \/ all[i].trip.board <= latest}
             board == [j \in journeys |-> j.board]
  <1>1. /\ all \in Seq([trip : timetable, id : Nat]) /\ DOMAIN all = DOMAIN trips
        /\ \A i \in DOMAIN trips : all[i].trip = trips[i] /\ all[i].id = i - 1
        /\ \A i, j \in DOMAIN trips : i # j => all[i].id # all[j].id
    <2> HIDE DEF latest, kept, board
    <2> QED BY NumberedTrips, ZenonT(60)
  <1>2. kept \in SUBSET (DOMAIN all) /\ list = Picked(all, kept)
    BY DEF Clipped
  <1>3. \A j \in journeys : latest \in Nat /\ j.board <= latest
    <2> SUFFICES ASSUME NEW j \in journeys PROVE latest \in Nat /\ j.board <= latest
      OBVIOUS
    <2>1. IsFiniteSet(journeys) /\ \A k \in journeys : k.board \in Nat
      BY PagesAssumption
    <2>2. IsFiniteSet({board[k] : k \in journeys})
      BY <2>1, ImageOf
    <2> DEFINE boards == {k.board : k \in journeys}
    <2>3. IsFiniteSet(boards) /\ boards \in SUBSET Nat /\ j.board \in boards
      BY <2>1, <2>2
    <2>4. latest = Max(boards)
      BY DEF LatestBoarding
    <2> HIDE DEF boards
    <2> QED BY <2>3, <2>4, LargestOf
  <1>4. \A i \in DOMAIN trips : (\E j \in journeys : j.board = trips[i].board) => i \in kept
    BY <1>1, <1>3
  <1> HIDE DEF all, kept
  <1>5. \A a \in kept : \E n \in DOMAIN list : list[n] = all[a]
    BY <1>1, <1>2, PickedInOrder
  <1>6. \A m, n \in DOMAIN list : m # n =>
            \E a, b \in kept : a # b /\ list[m] = all[a] /\ list[n] = all[b]
    BY <1>1, <1>2, PickedInOrder
  <1>7. \A m, n \in DOMAIN list : m # n => list[m].id # list[n].id
    <2> SUFFICES ASSUME NEW m \in DOMAIN list, NEW n \in DOMAIN list, m # n
                 PROVE  list[m].id # list[n].id
      OBVIOUS
    <2>1. PICK a \in kept, b \in kept : a # b /\ list[m] = all[a] /\ list[n] = all[b]
      BY <1>6
    <2> QED BY <1>1, <1>2, <2>1
  <1>8. ASSUME NEW i \in DOMAIN trips, \E j \in journeys : j.board = trips[i].board
        PROVE  \E k \in DOMAIN list : list[k].trip = trips[i]
    <2>1. i \in kept
      BY <1>4, <1>8
    <2>2. PICK k \in DOMAIN list : list[k] = all[i]
      BY <1>5, <2>1
    <2> QED BY <1>1, <2>2
  <1> QED BY <1>7, <1>8

LEMMA TellKeeps == PagesInv /\ (TellOjp \/ TellHafas) => PagesInv'
  <1> SUFFICES ASSUME PagesInv, TellOjp \/ TellHafas PROVE PagesInv'
    OBVIOUS
  <1>1. paging.at = "told" /\ timetable' = timetable /\ paging' = paging
    BY DEF TellOjp, TellHafas
  <1>2. paging.trips \in Seq(timetable)
    BY DEF PagesInv, PagingHolds, PagingType
  <1>3. PagingHolds(paging)'
    BY <1>1 DEF PagesInv, PagingHolds, PagingType, NoHole, Accounted
  <1>4. ReferenceHolds'
    <2>1. CASE TellOjp
      <3>1. PICK journeys \in ViatorResults :
              reference' = [status |-> ReferenceStatus(paging), viator |-> journeys,
                            trips |-> Renumbered(paging.trips), partial |-> FALSE]
        BY <2>1 DEF TellOjp
      <3>2. reference'.trips = Renumbered(paging.trips)
        BY <3>1
      <3>3. \A i, j \in DOMAIN reference'.trips :
              i # j => reference'.trips[i].id # reference'.trips[j].id
        BY <1>2, <3>2, NumberedTrips
      <3>4. paging'.client # "hafas"
        BY <1>1, <2>1 DEF TellOjp
      <3> QED BY <1>1, <3>3, <3>4 DEF ReferenceHolds, SharedTrainShown
    <2>2. CASE TellHafas
      <3>1. PICK journeys \in ViatorResults :
              reference' = [status |-> ReferenceStatus(paging), viator |-> journeys,
                            trips |-> Clipped(Renumbered(paging.trips), journeys),
                            partial |-> paging.partial]
        BY <2>2 DEF TellHafas
      <3>2. reference'.trips = Clipped(Renumbered(paging.trips), journeys) /\ reference'.viator = journeys
        BY <3>1
      <3>3. /\ \A i, j \in DOMAIN reference'.trips :
                 i # j => reference'.trips[i].id # reference'.trips[j].id
            /\ \A i \in DOMAIN paging.trips :
                 (\E j \in reference'.viator : j.board = paging.trips[i].board) =>
                    \E k \in DOMAIN reference'.trips : reference'.trips[k].trip = paging.trips[i]
        BY <1>2, <3>2, ClippedTrips
      <3> QED BY <1>1, <3>3 DEF ReferenceHolds, SharedTrainShown
    <2> QED BY <2>1, <2>2
  <1> QED BY <1>1, <1>3, <1>4 DEF PagesInv

LEMMA PagesGoOn == PagesInv /\ (PagesNext \/ UNCHANGED pagesVars) => PagesInv'
  <1> SUFFICES ASSUME PagesInv, UNCHANGED pagesVars PROVE PagesInv'
    BY FetchKeeps, TellKeeps DEF PagesNext
  <1> QED BY DEF PagesInv, pagesVars, PagingHolds, PagingType, NoHole, Accounted, ReferenceHolds,
                 SharedTrainShown

\* Nothing is collected before the first page.
LEMMA NothingCollected ==
    ASSUME IsTimetable(timetable), NEW c \in {"hafas", "ojp"},
           paging = [client |-> c, at |-> "page", anchor |-> 0, trips |-> <<>>, seen |-> {},
                     pages |-> 0, spent |-> 0, first |-> Nothing, partial |-> FALSE, budget |-> FALSE,
                     garbled |-> FALSE],
           reference = Nothing
    PROVE  PagesInv
  <1>1. Range(<<>>) = {}
    BY NothingInIt
  <1>2. paging \in PagingType
    BY DEF PagingType
  <1>3. /\ paging.at = "page" /\ paging.anchor = 0 /\ paging.trips = <<>> /\ paging.seen = {}
        /\ paging.spent = 0
    OBVIOUS
  <1>4. FingerprintsOf({}) = {}
    BY DEF FingerprintsOf
  <1>5. Distinct(<<>>)
    BY DEF Distinct
  <1>6. NoHole(paging)
    <2>1. \A t \in timetable : ~(t.dep < 0)
      BY DEF IsTimetable
    <2> QED BY <1>1, <1>3, <2>1 DEF NoHole
  <1>7. 0 <= TotalTimeout + PageTimeout
    BY PagesAssumption
  <1>8. PagingHolds(paging)
    BY <1>1, <1>2, <1>3, <1>4, <1>5, <1>6, <1>7 DEF PagingHolds
  <1> QED BY <1>8 DEF PagesInv, ReferenceHolds

LEMMA PagesStart == PagesInit => PagesInv
  BY NothingCollected, PagesAssumption DEF PagesInit

LEMMA PagesRest == PagesAtRest => PagesInv
  <1>1. IsTimetable({})
    BY DEF IsTimetable
  <1> QED BY <1>1, NothingCollected DEF PagesAtRest, RestPaging

LEMMA PagesAreTrue ==
    PagesInv => NothingSkipped /\ TripsAppearOnce /\ ShortIsTold /\ SpentIsBounded /\ SharedTrainShown
  <1> SUFFICES ASSUME PagesInv
               PROVE  NothingSkipped /\ TripsAppearOnce /\ ShortIsTold /\ SpentIsBounded /\ SharedTrainShown
    OBVIOUS
  <1>1. PagingHolds(paging) /\ ReferenceHolds
    BY DEF PagesInv
  <1>2. NothingSkipped
    BY <1>1 DEF PagingHolds, NoHole, NothingSkipped, Missed, Collected
  <1>3. TripsAppearOnce
    BY <1>1 DEF PagingHolds, Distinct, ReferenceHolds, TripsAppearOnce
  <1>4. ShortIsTold
    BY <1>1 DEF PagingHolds, Accounted, ShortIsTold, MissedAtEnd, Missed, Collected
  <1>5. SpentIsBounded
    BY <1>1 DEF PagingHolds, SpentIsBounded
  <1>6. SharedTrainShown
    BY <1>1 DEF ReferenceHolds, SharedTrainShown
  <1> QED BY <1>2, <1>3, <1>4, <1>5, <1>6

-----------------------------------------------------------------------------
(* The instance: each component goes on, or is at rest *)

\* Each component begins as it does alone, and a step of the instance is its own or none.
LEMMA JourneyPartsRun ==
    /\ Init => /\ SweepInv /\ LedgerInv /\ PairInv /\ JourneyInv /\ VerdictInv /\ TokenInv
               /\ WindowInv /\ PagesInv
    /\ [Next]_allVars => /\ (JourneyNext \/ UNCHANGED journeyVars)
                         /\ (SweepNext \/ UNCHANGED sweepVars)
                         /\ (LedgerNext \/ UNCHANGED ledgerVars)
                         /\ (PairNext \/ UNCHANGED pairVars)
                         /\ (VerdictNext \/ UNCHANGED verdictVars)
                         /\ (TokenNext \/ UNCHANGED tokenVars)
                         /\ (WindowNext \/ UNCHANGED windowVars)
                         /\ (PagesNext \/ UNCHANGED pagesVars)
  <1>1. Init => /\ SweepInv /\ LedgerInv /\ PairInv /\ JourneyInv /\ VerdictInv /\ TokenInv
                /\ WindowInv /\ PagesInv
    BY SweepStart, LedgerStart, PairGoesOn, JourneyStart, VerdictStart, TokenStart, TokenRests,
       WindowStart, WindowRests, PagesStart, PagesRest DEF Init
  <1>2. [Next]_allVars => /\ (JourneyNext \/ UNCHANGED journeyVars)
                          /\ (SweepNext \/ UNCHANGED sweepVars)
                          /\ (LedgerNext \/ UNCHANGED ledgerVars)
                          /\ (PairNext \/ UNCHANGED pairVars)
                          /\ (VerdictNext \/ UNCHANGED verdictVars)
                          /\ (TokenNext \/ UNCHANGED tokenVars)
                          /\ (WindowNext \/ UNCHANGED windowVars)
                          /\ (PagesNext \/ UNCHANGED pagesVars)
    BY DEF Next, allVars, servedVars, computedVars, JourneyRest, PairRest, SweepRest, LedgerRest,
           FedRest
  <1> QED BY <1>1, <1>2

\* The sweep's progress counts what was saved, a completed sweep asked about every cell, and
\* every replay has its original, for any executors, cells, crashes and retention.
THEOREM LedgersHold == Spec => []LedgersAgree
  <1>1. SweepInv /\ LedgerInv => LedgersAgree
    BY SweepAgrees, LedgerAgrees DEF LedgersAgree
  <1>2. SweepInv /\ LedgerInv /\ [Next]_allVars => (SweepInv /\ LedgerInv)'
    BY JourneyPartsRun, SweepGoesOn, LedgerGoesOn
  <1> QED BY <1>1, <1>2, JourneyPartsRun, PTL DEF Spec

\* No step asks a planner again after Stop, changes a sweep that ended, or sheds a search
\* before its day, for any slots, retries and tiers.
THEOREM NoStepUndoes == Spec => NothingIsUndone
  <1> DEFINE Asks == \A s \in PairSessions : query'[s].attempt # query[s].attempt => ~pairStop
             Keeps == runState # "running" => UNCHANGED <<runState, savedCells, verifyDone>>
             Sheds == \A i \in Rows :
                /\ ledger'[i] = NoRow => ledger[i].age > SearchDays
                /\ ledger'[i] # NoRow =>
                    /\ (ledger[i].raw /\ ~ledger'[i].raw) => ledger[i].age > Min({RawDays, TripDays})
                    /\ (ledger[i].trips /\ ~ledger'[i].trips) => ledger[i].age > TripDays
             Inv == LedgerInv /\ PairInv
  <1>1. Inv /\ [Next]_allVars => Inv'
    BY JourneyPartsRun, LedgerGoesOn, PairGoesOn
  <1>2. Inv /\ [Next]_allVars => [Asks]_pairVars
    BY JourneyPartsRun, PairGoesOn
  <1>3. [Next]_allVars => [Keeps]_sweepVars
    BY JourneyPartsRun, EndedStays
  <1>4. Inv /\ [Next]_allVars => [Sheds]_ledgerVars
    <2>1. LedgerInv /\ LedgerNext => Sheds
      BY ShedIsOld
    <2> QED BY <2>1, JourneyPartsRun
  <1>5. Init => Inv
    BY JourneyPartsRun
  <1> HIDE DEF Inv
  <1>6. Spec => [][Asks]_pairVars
    BY <1>1, <1>2, <1>5, PTL DEF Spec
  <1>7. Spec => [][Keeps]_sweepVars
    BY <1>3, PTL DEF Spec
  <1>8. Spec => [][Sheds]_ledgerVars
    BY <1>1, <1>4, <1>5, PTL DEF Spec
  <1> QED BY <1>6, <1>7, <1>8 DEF NothingIsUndone, StopEndsRetries, EndedIsKept, NothingGoesEarly

\* A pair's attempts stay within its retries and its slots within their semaphore, it has a
\* row exactly when its write was committed, and it fails only if every slot did, for any
\* sessions, slots and answers.
THEOREM PairsFailWhole == Spec => [](PairTypeOK /\ FailsOnlyIfAllFailed)
  <1>1. PairInv /\ RowTypeOK /\ [Next]_allVars => (PairInv /\ RowTypeOK)'
    BY JourneyPartsRun, PairGoesOn, RowGoesOn
  <1>2. Init => PairInv /\ RowTypeOK
    <2>1. Init => PairInit
      BY DEF Init
    <2> QED BY <2>1, PairGoesOn, RowGoesOn
  <1> QED BY <1>1, <1>2, PairAgrees, PTL DEF Spec

\* A query keeps every trip of its slots that boards in the window once, whichever of them
\* failed, and the row of a fan-out is ok exactly if a session found a trip, names those and
\* has the shortest, for any sessions, slots, answers and retries.
THEOREM PairsKeepTheBest == Spec => [](KeptOnce /\ RowIsTheBest)
  <1>1. PairInv /\ PairKept /\ [Next]_allVars => (PairInv /\ PairKept)'
    BY JourneyPartsRun, PairGoesOn, PairKeepsOn
  <1>2. Init => PairInv /\ PairKept
    <2>1. Init => PairInit
      BY DEF Init
    <2> QED BY <2>1, PairGoesOn, PairKeepsOn
  <1>3. PairKept => KeptOnce /\ RowIsTheBest
    BY PairTells
  <1> QED BY <1>1, <1>2, <1>3, PTL DEF Spec

\* The gate counts exactly the searches that ask, a recorded search has one execution for each
\* session chosen at its start, and its slots name who found them, for any requests, engines,
\* answers, limits and changes under the searches.
THEOREM SearchesAreRecorded == Spec => [](JourneyTypeOK /\ RecordIsWhole /\ SlotsTellTheTruth)
  <1>1. JourneyInv /\ [Next]_allVars => JourneyInv'
    BY JourneyPartsRun, JourneyGoesOn
  <1> QED BY <1>1, JourneyPartsRun, JourneyAgrees, PTL DEF Spec

\* The verdict on a pair is "no service" only when the backend said so between the two stations
\* meant, its best duration is the shortest that can be read, and the token of a stop is one
\* station's, for any answers of the backend, ids and widths.
THEOREM OebbUnderstood == Spec => []OebbIsUnderstood
  <1>1. VerdictInv /\ TokenInv => OebbIsUnderstood
    BY VerdictIsTrue, TokensAreTrue DEF OebbIsUnderstood
  <1>2. VerdictInv /\ TokenInv /\ [Next]_allVars => (VerdictInv /\ TokenInv)'
    BY JourneyPartsRun, VerdictStep, TokenStep
  <1> QED BY <1>1, <1>2, JourneyPartsRun, PTL DEF Spec

\* The window asked for is the window searched, on the day of its departure and slot by slot, and
\* a reference's pages leave no hole in it, are told when they end short, keep to their budget and
\* hide no train that VIATOR shows, for any day length, zones with one change, settings and
\* slots, and for any timetable, page size and budgets.
THEOREM SearchedAsAsked == Spec => []WindowIsSearched
  <1>1. WindowInv /\ PagesInv => WindowIsSearched
    BY WindowIsTrue, PagesAreTrue DEF WindowIsSearched
  <1>2. WindowInv /\ PagesInv /\ [Next]_allVars => (WindowInv /\ PagesInv)'
    BY JourneyPartsRun, WindowGoesOn, PagesGoOn
  <1> QED BY <1>1, <1>2, JourneyPartsRun, PTL DEF Spec
=============================================================================
