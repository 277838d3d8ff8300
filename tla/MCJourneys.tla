------------------------------ MODULE MCJourneys ------------------------------
(***************************************************************************)
(* Model-checking instance of the searches: a search behind its gate, one  *)
(* pair of a coverage run, the verification sweep, the ledger with its     *)
(* retention and replays; and, over every input of a bounded set each,     *)
(* what is computed from answers: stitching over two sessions, the window  *)
(* of a run, matching journeys and rides, the pages, verdicts and stop     *)
(* tokens of the reference engines. They share no variable: a behaviour    *)
(* runs one of them, `part`, and leaves the others at rest.                *)
(***************************************************************************)
EXTENDS JourneyService, PairSearch, VerifySweep, SearchLedger, FederatedPlanner,
        JourneyMatching, CoverageWindow, ReferencePages, OebbVerdict

VARIABLE part

computedVars == <<matchVars, rideVars, windowVars, pagesVars, verdictVars, tokenVars>>
servedVars == <<journeyVars, pairVars, sweepVars, ledgerVars, fedVars>>
allVars == <<part, servedVars, computedVars>>

-----------------------------------------------------------------------------
(* The searches *)

\* What an engine finds: a and c are one service, b another; c is the shorter of them.
MCFound == {{}, {"a", "b"}, {"c"}}
MCTripSignature == [t \in {"a", "b", "c"} |-> IF t = "b" THEN "h" ELSE "g"]
MCTripSeconds == [t \in {"a", "b", "c"} |-> CASE t = "a" -> 5 [] t = "b" -> 7 [] t = "c" -> 4]

\* What a slot of a pair answers: a and u are one trip seen twice, x is outside the window.
MCKeyOf == [t \in Trips |-> IF t = "u" THEN "a" ELSE t]
MCSignatureOf == [t \in Trips |-> IF t = "b" THEN "sb" ELSE "sa"]
MCDurationOf ==
    [t \in Trips |-> CASE t = "a" -> 5 [] t = "u" -> 4 [] t = "b" -> 7 [] t = "x" -> 1]
MCAnswerSets == {<<>>, <<"a", "x">>, <<"u", "b">>}

-----------------------------------------------------------------------------
(* Stations on a line, 1 to 9, in two countries, and trains of two sessions *)

MCPlace   == (1 :> 0) @@ (2 :> 3) @@ (3 :> 4) @@ (4 :> 5) @@ (9 :> 10)
MCCountry == (1 :> "f") @@ (2 :> "f") @@ (3 :> "c") @@ (4 :> "c") @@ (9 :> "c")
MCStaged  == {{1, 2, 3, 4}, {2, 3, 4, 9}, {2, 3}, {1, 9, 3}}
MCKnown   == {{1, 2, 3, 4, 9}, {2, 3, 4}, {2, 3}}
FedTrain(s, f, t, d, a, c, l) ==
    [session |-> s, from |-> f, to |-> t, dep |-> d, arr |-> a, changes |-> c, legs |-> l]
Direct  == <<"walk", "ic", "walk">>
Changed == <<"walk", "re", "s">>
MCTrains ==
    {FedTrain(1, 1, 2, 1, 2, 0, Direct), FedTrain(1, 1, 3, 1, 3, 0, Direct),
     FedTrain(1, 1, 4, 2, 5, 1, Changed), FedTrain(1, 1, 3, 2, 4, 1, Changed),
     FedTrain(2, 2, 9, 3, 5, 0, Direct), FedTrain(2, 3, 9, 4, 6, 0, Direct),
     FedTrain(2, 3, 9, 5, 8, 1, Changed), FedTrain(2, 4, 9, 6, 9, 0, Direct),
     FedTrain(2, 3, 9, 4, 6, 2, Changed), FedTrain(2, 3, 9, 3, 6, 2, Changed),
     FedTrain(2, 2, 9, 2, 5, 0, Direct), FedTrain(1, 3, 9, 3, 7, 0, Direct),
     FedTrain(2, 1, 3, 0, 1, 1, Changed)}

-----------------------------------------------------------------------------
(* Journeys to match *)

MCOutcomes ==
    {[verdict |-> "different", score |-> 0], [verdict |-> "probably_same", score |-> 80],
     [verdict |-> "probably_same", score |-> 100], [verdict |-> "same_service", score |-> 100]}
Weigh(o, g) == [verdict |-> o.verdict, score |-> o.score, gap |-> g]
Differs == [verdict |-> "different", score |-> 0]
NotSame == Weigh(Differs, 0)

\* Three families of inputs: pairings of two by two journeys, cells with boarding times, and
\* sides longer than the cap of a cell, of which only the journeys of one rank may pair.
MatchInputs ==
    /\ \E n \in 0..4, k \in 0..2 : left = [i \in 1..n |-> i] /\ right = [i \in 1..k |-> i]
    /\ LET l == ToSet(left)  r == ToSet(right)
           all == ({"left"} \X l) \cup ({"right"} \X r)
           timeless == [x \in all |-> NoTime] IN
       \/ /\ Len(left) <= 2 /\ boarding = timeless
          /\ rideless \in {{}} \cup {{x} : x \in {<<"left", 1>>, <<"right", 2>>} \cap all}
          /\ assessed \in [l \X r -> {NotSame} \cup
                              {Weigh(o, g) : o \in Outcomes \ {Differs}, g \in GapValues}]
       \/ /\ Len(left) <= 2 /\ rideless = {} /\ boarding \in [all -> Boardings \cup {NoTime}]
          /\ assessed \in [l \X r -> {Weigh(o, 0) : o \in Outcomes}]
          /\ \A p \in DOMAIN assessed : assessed[p].score # 80
       \/ /\ Len(left) > 2 /\ rideless = {} /\ boarding = timeless
          /\ assessed \in [l \X r -> {Weigh(o, 0) : o \in Outcomes}]
          /\ \A p \in DOMAIN assessed : p[1] # p[2] => assessed[p] = NotSame
    /\ compared = <<>>

-----------------------------------------------------------------------------
(* Rides: of stations with and without ids, trains with numbers or lines, buses to and from *)

Located(sid, parent, uic, pos) ==
    [sid |-> sid, parent |-> parent, uic |-> uic, token |-> None, pos |-> pos, ref |-> None]
StP  == Located(1, None, 1, 0)
StQ  == Located(2, 1, None, 2)
StP2 == Located(1, None, None, 1)
StX  == Located(None, None, None, 2)
StY  == Located(None, None, 2, 9)
Train(n, l, c) == [number |-> n, line |-> l, category |-> c]
Train1 == Train("1", <<"ic", "1">>, "ic")
Train2 == Train("2", None, "ic")
Line7  == Train(None, <<"7">>, "s")
LineS7 == Train(None, <<"s", "7">>, None)
RideOf(f, t, d, a, m, s, o) ==
    [from |-> f, to |-> t, dep |-> d, arr |-> a, mode |-> m, svc |-> s, operator |-> o]
RailRides ==
    {RideOf(f, StY, d, 7, "rail", s, None) : f \in {StP, StP2, StX}, d \in {3, 4},
        s \in {Train1, Train2, Line7, LineS7}}
    \cup {RideOf(StP, StY, d, 7, "rail", s, "db") : d \in {3, 4}, s \in {Train1, Line7}}
    \cup {RideOf(StQ, StY, 5, 8, "rail", Train1, "sncf")}
AccessRides == {RideOf(StX, StP, d, d + 2, "bus", Line7, None) : d \in {0, 2}}
EgressRides == {RideOf(StY, StX, d, d + 1, "tram", Line7, None) : d \in {7, 8}}
SomeRails ==
    {r \in RailRides : r.from # StP2 /\ r.svc \in {Train1, LineS7} /\ r.operator # "db"}
InTime(j) ==
    \A k \in DOMAIN j : j[k].dep < j[k].arr /\ (k > 1 => j[k - 1].arr <= j[k].dep)
MCJourneyRides ==
    {j \in {<<x>> : x \in RailRides \cup AccessRides} \cup AccessRides \X SomeRails
           \cup SomeRails \X EgressRides \cup AccessRides \X AccessRides
           \cup AccessRides \X {r \in SomeRails : r.svc = Train1} \X EgressRides : InTime(j)}
ProfileOf(d, conflict, unresolved) ==
    [depTol |-> d, arrTol |-> d, sameMin |-> 90, probableMin |-> 75, conflict |-> conflict,
     unresolved |-> unresolved, fallback |-> 1]
MCProfiles ==
    {ProfileOf(2, "veto_unless_same_minutes", "allow"), ProfileOf(2, "penalty", "allow"),
     ProfileOf(1, "veto_unless_same_minutes", "reject")}

-----------------------------------------------------------------------------
(* Windows: a zone without a change, one that skips hours and one that repeats them *)

MCOffsets ==
    [z \in {"UTC", "spring", "autumn"} |->
        CASE z = "UTC" -> <<0, 0>> [] z = "spring" -> <<0, 2>> [] z = "autumn" -> <<2, 0>>]
MCDefaults ==
    {[start |-> 0, end |-> EndOfDay, zone |-> "UTC"],
     [start |-> 6, end |-> 3, zone |-> "autumn"], [start |-> 3, end |-> 3, zone |-> "nowhere"]}

-----------------------------------------------------------------------------
(* A reference's timetable, and what the sessions found *)

RefTrip(d, c, b, f) == [dep |-> d, clear |-> c, board |-> b, fp |-> f]
MCTimetables ==
    SUBSET {RefTrip(0, TRUE, 1, 1), RefTrip(1, TRUE, 1, 2), RefTrip(1, TRUE, 3, 3),
            RefTrip(2, FALSE, Nothing, 4), RefTrip(3, TRUE, 3, 5), RefTrip(4, TRUE, 4, 0),
            RefTrip(5, TRUE, 6, 6)}
MCViator ==
    {{}, {[dep |-> 0, board |-> 1]}, {[dep |-> 0, board |-> 1], [dep |-> 2, board |-> 3]}}

(* What the OeBB backend answers: no answer, a refused call, places and connections *)

Service(err, found) == [err |-> err, found |-> found]
Whole(err, svc) == [http |-> "ok", err |-> err, svc |-> svc]
MCBroken ==
    {[http |-> h, err |-> Unknown, svc |-> <<>>] : h \in {"no answer", "status", "not json", "null"}}
    \cup {Whole("AUTH", <<>>), Whole("OK", <<>>)}
MCPlaces == {Service(e, f) : e \in {Unknown, "OK", "H9220"}, f \in {<<>>, <<"lA">>}}
MCResolveAnswers ==
    MCBroken \cup {Whole("OK", <<s>>) : s \in MCPlaces}
             \cup {Whole(Unknown, <<s, t>>) : s, t \in MCPlaces}
MCConnections ==
    BoundedSeq([dur : {Unknown, 5000, 13000, 1000000}, chg : {Unknown, 0, 1}], 3)
MCSearchAnswers ==
    MCBroken \cup {Whole("OK", <<Service(e, f)>>) : e \in {Unknown, "OK"}, f \in MCConnections}
             \cup {Whole("OK", <<Service(e, <<>>)>>) : e \in {"H890", "H500"}}

\* Ids of digits and a letter (10), and lids with a coordinate (X) and an id (L).
MCExtIds == BoundedSeq({0, 1, 10}, 5)
MCFieldLists ==
    {<<>>} \cup {<<[key |-> "X", value |-> x], [key |-> "L", value |-> v]>> :
                    x \in {<<1, 1>>, <<1, 1, 1, 1>>}, v \in {<<>>, <<1>>, <<0, 1, 1>>}}

-----------------------------------------------------------------------------
(* At rest: the components that have many initial states *)

SomeOf(S) == CHOOSE x \in S : TRUE
RestProfile == SomeOf(RideProfiles)
RestPaging ==
    [client |-> "ojp", at |-> "page", anchor |-> 0, trips |-> <<>>, seen |-> {}, pages |-> 0,
     spent |-> 0, first |-> Nothing, partial |-> FALSE, budget |-> FALSE, garbled |-> FALSE]

MatchAtRest ==
    /\ left = <<>> /\ right = <<>> /\ rideless = {} /\ assessed = <<>> /\ boarding = <<>>
    /\ compared = <<>>
RideAtRest == ridesL = <<>> /\ ridesR = <<>> /\ profile = RestProfile /\ verdict = None
WindowAtRest ==
    settings = SomeOf(Defaults) /\ covRun = Null /\ grid = Null /\ edited = FALSE
PagesAtRest == timetable = {} /\ paging = RestPaging /\ reference = Nothing
TokenAtRest == located = [ext |-> <<>>, lid |-> <<>>] /\ token = NoToken
FedAtRest ==
    /\ staged = [s \in FedSessions |-> {}] /\ servedUics = [s \in FedSessions |-> {}]
    /\ mastered = {} /\ fedDown = {} /\ planned = <<>>

Init ==
    /\ part \in {"journey", "pair", "sweep", "ledger", "federated",
                "matching", "rides", "window", "pages", "verdict", "tokens"}
    /\ JourneyInit /\ (part = "journey" \/ gate.limit = 1)
    /\ PairInit /\ SweepInit /\ LedgerInit
    /\ IF part = "federated" THEN FedInit ELSE FedAtRest
    /\ IF part = "matching" THEN MatchInputs ELSE MatchAtRest
    /\ IF part = "rides" THEN RideInit ELSE RideAtRest
    /\ IF part = "window" THEN WindowInit ELSE WindowAtRest
    /\ IF part = "pages" THEN PagesInit ELSE PagesAtRest
    /\ VerdictInit
    /\ IF part = "tokens" THEN TokenInit ELSE TokenAtRest

JourneyRest == UNCHANGED <<part, pairVars, sweepVars, ledgerVars, fedVars, computedVars>>
PairRest    == UNCHANGED <<part, journeyVars, sweepVars, ledgerVars, fedVars, computedVars>>
SweepRest   == UNCHANGED <<part, journeyVars, pairVars, ledgerVars, fedVars, computedVars>>
LedgerRest  == UNCHANGED <<part, journeyVars, pairVars, sweepVars, fedVars, computedVars>>
FedRest     == UNCHANGED <<part, journeyVars, pairVars, sweepVars, ledgerVars, computedVars>>

Next ==
    \/ part = "journey" /\ JourneyNext /\ JourneyRest
    \/ part = "pair" /\ PairNext /\ PairRest
    \/ part = "sweep" /\ SweepNext /\ SweepRest
    \/ part = "ledger" /\ LedgerNext /\ LedgerRest
    \/ part = "federated" /\ FedNext /\ FedRest
    \/ /\ part = "matching" /\ MatchNext
       /\ UNCHANGED <<part, servedVars, rideVars, windowVars, pagesVars, verdictVars, tokenVars>>
    \/ /\ part = "rides" /\ AssessPair
       /\ UNCHANGED <<part, servedVars, matchVars, windowVars, pagesVars, verdictVars, tokenVars>>
    \/ /\ part = "window" /\ WindowNext
       /\ UNCHANGED <<part, servedVars, matchVars, rideVars, pagesVars, verdictVars, tokenVars>>
    \/ /\ part = "pages" /\ PagesNext
       /\ UNCHANGED <<part, servedVars, matchVars, rideVars, windowVars, verdictVars, tokenVars>>
    \/ /\ part = "verdict" /\ VerdictNext
       /\ UNCHANGED <<part, servedVars, matchVars, rideVars, windowVars, pagesVars, tokenVars>>
    \/ /\ part = "tokens" /\ TokenNext
       /\ UNCHANGED <<part, servedVars, matchVars, rideVars, windowVars, pagesVars, verdictVars>>

\* The fairness of each part's own specification, in the behaviours that run the part.
Fairness ==
    /\ WF_journeyVars(part = "journey" /\ SearchGoesOn)
    /\ WF_pairVars(part = "pair" /\ PairStep)
    /\ WF_ledgerVars(part = "ledger" /\ DayPasses)
    /\ WF_ledgerVars(part = "ledger" /\ Prune)
    /\ WF_ledgerVars(part = "ledger" /\ ReplayGoesOn)

Spec == Init /\ [][Next]_allVars /\ Fairness

-----------------------------------------------------------------------------

\* What is recorded of a search is whole, each slot's figures are of its own answers, a pair
\* fails only if every slot failed, and a stitched journey can be ridden.
SearchesAreTrue ==
    /\ JourneyTypeOK /\ RecordIsWhole /\ SlotsTellTheTruth
    /\ PairTypeOK /\ KeptOnce /\ FailsOnlyIfAllFailed /\ RowIsTheBest
    /\ StitchIsRidable /\ BestOfStitches /\ KeepsTheRides /\ DestinationFirst

\* The progress of a sweep counts what was saved, a completed sweep asked about every cell,
\* nothing saved is asked again, and every replay has its original.
LedgersAgree ==
    /\ SweepTypeOK /\ SweepProgressExact /\ CompletedIsChecked /\ SavedNotAsked
    /\ LedgerTypeOK /\ ReplayHasOriginal

\* What no step does: ask again after Stop, change a sweep that ended, shed a search before
\* its day.
NothingIsUndone == StopEndsRetries /\ EndedIsKept /\ NothingGoesEarly

\* What every behaviour comes to: the gate's slots are given back, a pair ends with its row or
\* its write given up, an old search goes.
SearchesEnd == GateEmpties /\ PairEnds /\ SearchesGo

\* Journeys and rides are compared the same from both sides and in any order; each journey
\* is counted once and each pairing is the best there is.
ComparisonIsFair ==
    /\ OneBucket /\ PairingStable /\ OrderIndifferent /\ CountedOnce /\ CellScoreTrue
    /\ SharedIsLongest /\ TrimsOnlyAccess /\ NoFalseConflict /\ SidesAlike /\ UnknownIsNoEvidence

\* The window asked for is the window searched, by VIATOR slot by slot and by a reference
\* page by page, and a search cut short is told.
WindowIsSearched ==
    /\ GridHoldsDeparture /\ AskedIsSearched /\ SlotsCoverWindow /\ ComparableStays
    /\ NothingSkipped /\ TripsAppearOnce /\ ShortIsTold /\ SpentIsBounded /\ SharedTrainShown

\* The OeBB engine is asked between the stations meant, and its silence is not read as
\* "no service".
OebbIsUnderstood ==
    /\ NoServiceIsSaid /\ SearchedBetweenStations /\ BestIsTheShortest
    /\ OpaqueStaysOpaque /\ OneTokenPerStation /\ CoordinateIsNoStation
=============================================================================
