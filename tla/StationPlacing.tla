---------------------------- MODULE StationPlacing ----------------------------
(***************************************************************************)
(* The station module's stations for the comparison of a search's journeys *)
(* (app/api/journey.py, _with_stations; app/journey/station_resolver.py).  *)
(* The stops of each session's journeys, then the reference's, are looked  *)
(* up in the process's cache and asked of the module call by call; a call  *)
(* that fails ends the group it is for, and the time limit ends it all,    *)
(* anywhere, with the journeys as they were. Searches run at once and      *)
(* share the cache.                                                        *)
(*                                                                         *)
(* A stop is [source, feed, parent, ref]; a key of the module is           *)
(* [kind, owner, value], and the module knows none, one or several         *)
(* stations for it. Entries of the cache that expire or go past its cap    *)
(* are dropped at any time.                                                *)
(***************************************************************************)
EXTENDS Naturals, Sequences, SequencesExt, FiniteSetsExt

CONSTANTS
    PlacingSearches,  \* searches that run at the same time
    Groups,           \* the stops of a search's journeys, by session, the reference last
    FeedKeyOf,        \* the module's key of a session's feed, or Nil
    CodeSeries,       \* COVERAGE_OEBB_STOP_SERIES, or Nil
    ModuleWorlds,     \* what the module may know: key -> set of stations
    MaxKeysPerCall,   \* STOP_STATIONS_MAX
    Nil

VARIABLES
    known,      \* what the module knows
    kept,       \* _cache: key -> station, Nil for a key placed nowhere
    placing     \* the searches

placingVars == <<known, kept, placing>>

NoPlacing == [at |-> "idle", group |-> 0, answers |-> <<>>, calls |-> <<>>, failed |-> FALSE,
              placed |-> <<>>]

PlacingInit == /\ known \in ModuleWorlds
               /\ kept = <<>>
               /\ placing = [w \in PlacingSearches |-> NoPlacing]

-----------------------------------------------------------------------------
(* Keys *)

Key(kind, owner, value) == [kind |-> kind, owner |-> owner, value |-> value]

\* keys_of: a MOTIS stop by its parent and then itself, an OTP stop by itself, an OEBB stop by
\* its number; a stop of a feed without a key is not asked.
KeysOf(stop) ==
    LET feed == IF stop.source \in {"motis", "otp"} THEN FeedKeyOf[stop.feed] ELSE Nil
        Asked(kind, owner, value) == IF value = Nil THEN <<>> ELSE <<Key(kind, owner, value)>>
    IN IF stop.source \in {"motis", "otp"} /\ feed # Nil
       THEN (IF stop.source = "motis" THEN Asked("stop", feed, stop.parent) ELSE <<>>)
              \o Asked("stop", feed, stop.ref)
       ELSE IF stop.source = "oebb" /\ CodeSeries # Nil
            THEN Asked("code", CodeSeries, stop.ref)
       ELSE <<>>

Wanted(group) == UNION {Range(KeysOf(stop)) : stop \in group}

ASSUME PlacingAssumption ==
    /\ MaxKeysPerCall \in Nat \ {0} /\ Groups \in Seq(Range(Groups)) /\ Groups # <<>>
    /\ \A group \in Range(Groups) :
         /\ IsFiniteSet(group)
         /\ \A world \in ModuleWorlds : \A k \in Wanted(group) :
              IsFiniteSet(world[k]) /\ Nil \notin world[k]

\* batches: the keys of one feed or series per call, at most so many.
Batches(s) ==
    LET n == MaxKeysPerCall
    IN {SubSeq(s, n * q + 1, Min({Len(s), n * q + n})) :
           q \in {p \in 0..Len(s) : n * p + 1 \in DOMAIN s}}
Calls(keys) ==
    LET of == [o \in {k.owner : k \in keys} |-> SetToSeq({k \in keys : k.owner = o})]
    IN SetToSeq(UNION {Batches(of[o]) : o \in DOMAIN of})

\* _stations_of: the station of a key that has one; a key of several is placed nowhere.
StationOfRows(stations) == IF \E s \in stations : stations = {s}
                           THEN CHOOSE s \in stations : TRUE ELSE Nil

-----------------------------------------------------------------------------
(* A search *)

\* The stations of a group's stops: each stop by the first of its keys that has one.
Placed(group, answers) ==
    LET Good(stop) == {i \in DOMAIN KeysOf(stop) : /\ KeysOf(stop)[i] \in DOMAIN answers
                                                   /\ answers[KeysOf(stop)[i]] # Nil}
    IN [stop \in {s \in group : Good(s) # {}} |-> answers[KeysOf(stop)[Min(Good(stop))]]]

Merge(f, g) == [x \in DOMAIN f \cup DOMAIN g |-> IF x \in DOMAIN g THEN g[x] ELSE f[x]]

\* ModuleStationResolver.resolve, to its first call: what the cache has, and the calls to make.
Opened(r, i) ==
    LET keys == Wanted(Groups[i])
        have == keys \cap DOMAIN kept
    IN [r EXCEPT !.group = i, !.answers = [k \in have |-> kept[k]], !.calls = Calls(keys \ have)]

\* The group is done: its stops are placed, and the next group is opened; after the last, the
\* journeys are compared.
Closed(r) ==
    LET placed == Merge(r.placed, Placed(Groups[r.group], r.answers))
    IN IF r.group = Len(Groups)
       THEN [NoPlacing EXCEPT !.at = "compared", !.placed = placed, !.failed = r.failed]
       ELSE Opened([r EXCEPT !.placed = placed, !.calls = <<>>], r.group + 1)

\* _with_stations: a module that is not configured, or a database step that failed, leaves the
\* journeys as they are.
StartPlacing(w) ==
    /\ placing[w].at = "idle"
    /\ placing' = [placing EXCEPT ![w] = Opened([NoPlacing EXCEPT !.at = "placing"], 1)]
    /\ UNCHANGED <<known, kept>>

LeavePlacing(w) ==
    /\ placing[w].at = "idle"
    /\ placing' = [placing EXCEPT ![w].at = "compared"]
    /\ UNCHANGED <<known, kept>>

\* _ask_missing: every answer of a call is kept, a key placed nowhere included.
CallAnswered(w) ==
    /\ placing[w].at = "placing" /\ placing[w].calls # <<>>
    /\ LET r == placing[w]
           news == [k \in Range(Head(r.calls)) |-> StationOfRows(known[k])]
       IN /\ kept' = Merge(kept, news)
          /\ placing' = [placing EXCEPT ![w] =
                [r EXCEPT !.answers = Merge(r.answers, news), !.calls = Tail(r.calls)]]
    /\ UNCHANGED known

\* The first call that fails ends the group with what it has.
CallRefused(w) ==
    /\ placing[w].at = "placing" /\ placing[w].calls # <<>>
    /\ placing' = [placing EXCEPT ![w] = [placing[w] EXCEPT !.calls = <<>>, !.failed = TRUE]]
    /\ UNCHANGED <<known, kept>>

GroupDone(w) ==
    /\ placing[w].at = "placing" /\ placing[w].calls = <<>>
    /\ placing' = [placing EXCEPT ![w] = Closed(placing[w])]
    /\ UNCHANGED <<known, kept>>

\* Mutant: what was placed so far is used.
OutOfTimeKeeping(r) == [NoPlacing EXCEPT !.at = "compared", !.placed = r.placed]

\* Past _STATION_BUDGET_S, or on any error: none of the journeys is placed.
OutOfTime(r) == [NoPlacing EXCEPT !.at = "compared"]

PlacingTimesOut(w) ==
    /\ placing[w].at = "placing"
    /\ placing' = [placing EXCEPT ![w] = OutOfTime(placing[w])]
    /\ UNCHANGED <<known, kept>>

\* An entry expires, or goes past the cap.
DropKept == /\ \E k \in DOMAIN kept : kept' = [x \in DOMAIN kept \ {k} |-> kept[x]]
            /\ UNCHANGED <<known, placing>>

PlacingNext ==
    \/ \E w \in PlacingSearches : \/ StartPlacing(w) \/ LeavePlacing(w) \/ CallAnswered(w)
                                  \/ CallRefused(w) \/ GroupDone(w) \/ PlacingTimesOut(w)
    \/ DropKept

PlacingSpec == PlacingInit /\ [][PlacingNext]_placingVars

-----------------------------------------------------------------------------
(* Properties *)

Unique(k) == Cardinality(known[k]) = 1

\* The two sides of a comparison are treated alike (_with_stations): when no call failed, the
\* journeys are compared with every station the module has for their stops, on both sides, or
\* with none at all; a time limit that falls between the sides never leaves one side placed
\* and the other by its codes.
BothSidesAlike ==
    \A w \in PlacingSearches : LET r == placing[w] IN
        (r.at = "compared" /\ ~r.failed /\ DOMAIN r.placed # {}) =>
            \A i \in DOMAIN Groups : \A stop \in Groups[i] :
                (\E k \in Range(KeysOf(stop)) : Unique(k)) => stop \in DOMAIN r.placed

\* A stop's station is one the module gives a key of that very stop, and gives it alone
\* (_stations_of): no answer of another stop, of another search's call or of a key of several
\* stations places it, through the shared cache either.
StationIsItsOwn ==
    \A w \in PlacingSearches : \A stop \in DOMAIN placing[w].placed :
        \E k \in Range(KeysOf(stop)) : known[k] = {placing[w].placed[stop]}

\* keys_of, "the one to trust first first": a MOTIS stop whose parent the module places gets
\* the parent's station, whichever of the two was in the cache, unless a call failed.
ParentIsTrusted ==
    \A w \in PlacingSearches : \A stop \in DOMAIN placing[w].placed :
        LET parent == Key("stop", FeedKeyOf[stop.feed], stop.parent)
        IN (stop.source = "motis" /\ stop.parent # Nil /\ ~placing[w].failed /\ Unique(parent)) =>
               placing[w].placed[stop] \in known[parent]

\* The calls of a group (batches) ask each key that is still open once, in a call of its own
\* feed or series within the limit.
EachKeyAskedOnce ==
    \A w \in PlacingSearches : LET r == placing[w] IN
        r.at = "placing" =>
            /\ r.failed \/ Wanted(Groups[r.group]) \subseteq
                   DOMAIN r.answers \cup UNION {Range(c) : c \in Range(r.calls)}
            /\ \A i, j \in DOMAIN r.calls : i # j => Range(r.calls[i]) \cap Range(r.calls[j]) = {}
            /\ \A c \in Range(r.calls) : Len(c) \in 1..MaxKeysPerCall
                                         /\ \A k, l \in Range(c) : k.owner = l.owner
=============================================================================
