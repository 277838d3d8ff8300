------------------------------- MODULE MCStation -------------------------------
(***************************************************************************)
(* Model-checking instance of what VIATOR shares with the station module:  *)
(* the extracts and their passes, the wait before a graph build, the       *)
(* client's pause and cache, the placing of a search's stops and the OeBB  *)
(* stops. They share no variable: a behaviour runs one of them, `part`,    *)
(* and leaves the others at rest.                                          *)
(***************************************************************************)
EXTENDS StationExtracts, StationModule, StationPlacing, OebbStops, TLC

CONSTANTS s1, s2

VARIABLE part

stationVars == <<part, extractVars, waitVars, moduleVars, placingVars, stopVars>>

-----------------------------------------------------------------------------
\* The stops of a search: two of one station, one of another feed, and two of the other side.
PlacedStop(s, f, p, r) == [source |-> s, feed |-> f, parent |-> p, ref |-> r]
MCGroups ==
    <<{PlacedStop("motis", "a", "p", "x"), PlacedStop("motis", "a", "p", "y"),
       PlacedStop("motis", "d", Nil, "z")},
      {PlacedStop("otp", "a", Nil, "x"), PlacedStop("oebb", "d", Nil, "n")}>>
MCFeedKeys == ("a" :> "ka") @@ ("d" :> Nil)
MCKeys == {Key("stop", "ka", v) : v \in {"p", "x", "y"}} \cup {Key("code", "s", "n")}
\* The parent's key names no station, one or two, and so does the number.
MCWorlds ==
    {[k \in MCKeys |-> CASE k.value = "p" -> p [] k.value = "n" -> n [] OTHER -> {k.value}] :
        p \in {{}, {"p"}, {"p", "q"}}, n \in {{"n"}, {"n", "m"}}}

MCNumbers == {<<"n1", "n2">>, <<"n2">>}

-----------------------------------------------------------------------------
\* A pass before a build, with one feed and no fault; or two feeds, a restart, and faults or an
\* outcome that is lost.
TwoFeeds == slot[s2] = 1

Init ==
    /\ part \in {"extracts", "wait", "module", "placing", "stops"}
    /\ ExtractInit
    /\ slot[s1] = 1 /\ TwoFeeds = (buildPasses = MaxBuildPasses)
    /\ TwoFeeds = (restarts < MaxRestarts)
    /\ extractFaults < MaxExtractFaults => TwoFeeds
    /\ (lostOutcomes < MaxLostOutcomes) = (TwoFeeds /\ extractFaults = MaxExtractFaults)
    /\ part = "extracts" \/ (TwoFeeds /\ extractFaults < MaxExtractFaults)
    /\ \/ part = "wait" /\ WaitInit
       \/ /\ part # "wait" /\ wpc = "graph" /\ now = 0 /\ until = 0 /\ asked = NoId
          /\ waitEnd = "off" /\ builds = [b \in BuildIds |-> "none"] /\ cancelAt = NoId
          /\ lookFaults = 0
    /\ ModuleInit
    /\ PlacingInit /\ (part = "placing" \/ known = CHOOSE w \in ModuleWorlds : TRUE)
    /\ StopsInit /\ (part = "stops" \/ stopSeries = CHOOSE s \in StopSeries : TRUE)

WaitRest == UNCHANGED <<part, extractVars, moduleVars, placingVars, stopVars>>

Next ==
    \/ /\ part = "extracts" /\ ExtractNext
       /\ UNCHANGED <<part, waitVars, moduleVars, placingVars, stopVars>>
    \/ part = "wait" /\ WaitNext /\ WaitRest
    \/ /\ part = "module" /\ ModuleNext
       /\ UNCHANGED <<part, extractVars, waitVars, placingVars, stopVars>>
    \/ /\ part = "placing" /\ PlacingNext
       /\ UNCHANGED <<part, extractVars, waitVars, moduleVars, stopVars>>
    \/ /\ part = "stops" /\ StopsNext
       /\ UNCHANGED <<part, extractVars, waitVars, moduleVars, placingVars>>

Spec == Init /\ [][Next]_stationVars /\ WF_stationVars(part = "wait" /\ WaitStep /\ WaitRest)

-----------------------------------------------------------------------------

\* A wait ends with the verdict of the build it asked for, a cancel is heeded, and what the
\* client answers from its cache is recent and not from across a pause.
ModuleIsHeard ==
    /\ WaitTypeOK /\ DoneIsTheAsked /\ CancelHeeded
    /\ ModuleTypeOK /\ ServedIsRecent /\ PauseHolds /\ NothingAcrossPause

\* A stop is placed at its own station, both sides of a search alike, each key asked once.
StopsArePlaced ==
    /\ BothSidesAlike /\ StationIsItsOwn /\ ParentIsTrusted /\ EachKeyAskedOnce
    /\ AskedIsAccounted /\ StationOfItsSeries /\ OldestGoesFirst
=============================================================================
