------------------------------- MODULE OebbStops -------------------------------
(***************************************************************************)
(* The stations of the numbers in an OEBB answer, for the cell modal       *)
(* (app/api/admin/network_coverage.py, resolve_oebb_stops): one call of    *)
(* the station module per number that is not in the cache, one after the   *)
(* other, until one fails. Several administrators ask at once: the loop    *)
(* awaits each call, and the cache is the process's.                       *)
(*                                                                         *)
(* A station is what the module said of a number in a series, `of`, and    *)
(* when, `at`; the series of the request is read from the configuration    *)
(* when it starts.                                                         *)
(***************************************************************************)
EXTENDS Naturals, Sequences, SequencesExt

CONSTANTS
    StopRequests,   \* requests that run at the same time
    NumberLists,    \* the bodies' lists of distinct stop numbers
    StopSeries,     \* series the setting may hold
    RefusedSeries,  \* those the module does not take
    StopTtl,        \* OEBB_STOP_CACHE_SECONDS
    StopCap,        \* OEBB_STOP_CACHE_MAX
    MaxStopTime,    \* bound of the clock
    MaxResolves     \* bound of the requests

ASSUME StopsAssumption ==
    /\ StopTtl \in Nat \ {0} /\ StopCap \in Nat \ {0} /\ MaxStopTime \in Nat
    /\ RefusedSeries \subseteq StopSeries
    /\ \A codes \in NumberLists : codes \in Seq(Range(codes)) /\ IsInjective(codes)

VARIABLES
    stopTime,    \* time.monotonic
    stopSeries,  \* COVERAGE_OEBB_STOP_SERIES
    stopCache,   \* _oebb_stop_cache, oldest first
    resolving,   \* the requests
    resolves     \* how many there were (bound)

stopVars == <<stopTime, stopSeries, stopCache, resolving, resolves>>

Unasked == [at |-> "idle", series |-> CHOOSE s \in StopSeries : TRUE, stations |-> <<>>,
            todo |-> <<>>, asked |-> <<>>, since |-> 0]

StopsInit ==
    /\ stopTime = 0
    /\ stopSeries \in StopSeries
    /\ stopCache = <<>>
    /\ resolving = [q \in StopRequests |-> Unasked]
    /\ resolves = 0

-----------------------------------------------------------------------------
(* The cache *)

\* The members of a list that are in a set, in their order (SelectSeq as a function).
Members(s, of) ==
    LET upTo[n \in 0..Len(s)] ==
            IF n = 0 THEN <<>>
            ELSE IF s[n] \in of THEN Append(upTo[n - 1], s[n]) ELSE upTo[n - 1]
    IN upTo[Len(s)]

\* An entry serves until it expires.
FreshStop(entry, t) == entry.expires > t

\* The place in the cache of a number of a series.
EntriesOf(series, code) ==
    {i \in DOMAIN stopCache : stopCache[i].series = series /\ stopCache[i].code = code}

\* _cached_oebb_stops: the numbers still in the cache, with their stations.
CachedStops(series, codes, t) ==
    LET known == {c \in Range(codes) : \E i \in EntriesOf(series, c) : FreshStop(stopCache[i], t)}
    IN [c \in known |-> stopCache[CHOOSE i \in EntriesOf(series, c) : TRUE].station]

\* _remember_oebb_stop: a renewed entry goes last; the oldest goes past the cap.
StopRemembered(series, code, station, t) ==
    LET entry == [series |-> series, code |-> code, station |-> station, expires |-> t + StopTtl]
        others == {e \in Range(stopCache) : ~(e.series = series /\ e.code = code)}
        all == Append(Members(stopCache, others), entry)
    IN IF Len(all) > StopCap THEN Tail(all) ELSE all

-----------------------------------------------------------------------------
(* A request *)

\* Up to the first call: a series the module refuses and a module that is not configured
\* are answered at once, and so is a list that is all in the cache.
BeginResolve(q) ==
    /\ resolving[q].at # "asking" /\ resolves < MaxResolves
    /\ resolves' = resolves + 1
    /\ \E codes \in NumberLists :
        LET refused == stopSeries \in RefusedSeries
            found == IF refused THEN <<>> ELSE CachedStops(stopSeries, codes, stopTime)
            todo == Members(codes, Range(codes) \ DOMAIN found)
            Is(at) == resolving' = [resolving EXCEPT ![q] =
                [at |-> at, series |-> stopSeries, stations |-> found, todo |-> todo,
                 asked |-> codes, since |-> stopTime]]
        IN \/ refused /\ Is("unavailable")
           \/ ~refused /\ todo = <<>> /\ Is("ok")
           \/ ~refused /\ todo # <<>> /\ (Is("asking") \/ Is("unavailable"))
    /\ UNCHANGED <<stopTime, stopSeries, stopCache>>

\* The first failure ends it: the number it was about and the rest are unanswered.
FailedResolve(r, status) == [r EXCEPT !.at = status]

\* The module answered the number at hand: kept in the cache, and on to the next.
StopAnswered(q) ==
    /\ resolving[q].at = "asking"
    /\ LET r == resolving[q]
           code == Head(r.todo)
           station == [of |-> r.series, code |-> code, at |-> stopTime]
           rest == Tail(r.todo)
       IN /\ stopCache' = StopRemembered(r.series, code, station, stopTime)
          /\ resolving' = [resolving EXCEPT ![q] = [r EXCEPT
                !.stations = [c \in DOMAIN r.stations \cup {code} |->
                                 IF c = code THEN station ELSE r.stations[c]],
                !.todo = rest,
                !.at = IF rest = <<>> THEN "ok" ELSE "asking"]]
    /\ UNCHANGED <<stopTime, stopSeries, resolves>>

CallFailed(q) ==
    /\ resolving[q].at = "asking"
    /\ \E status \in {"limited", "unavailable"} :
           resolving' = [resolving EXCEPT ![q] = FailedResolve(resolving[q], status)]
    /\ UNCHANGED <<stopTime, stopSeries, stopCache, resolves>>

\* _oebb_stop_series: an administrator edits the setting; a request under way keeps its own.
EditSeries == /\ stopSeries' \in StopSeries \ {stopSeries}
              /\ UNCHANGED <<stopTime, stopCache, resolving, resolves>>

StopsTick == /\ stopTime < MaxStopTime
             /\ stopTime' = stopTime + 1
             /\ UNCHANGED <<stopSeries, stopCache, resolving, resolves>>

StopsNext ==
    \/ \E q \in StopRequests : BeginResolve(q) \/ StopAnswered(q) \/ CallFailed(q)
    \/ EditSeries
    \/ StopsTick

StopsSpec == StopsInit /\ [][StopsNext]_stopVars

-----------------------------------------------------------------------------
(* Properties *)

\* What is answered (resolve_oebb_stops, `stations` and `unanswered`) is what was asked: each
\* number once, with a station or unanswered, and "ok" only when none is unanswered, whichever
\* call failed and whatever the cache held.
AskedIsAccounted ==
    \A q \in StopRequests : LET r == resolving[q] IN
        /\ DOMAIN r.stations \cup Range(r.todo) = Range(r.asked)
        /\ DOMAIN r.stations \cap Range(r.todo) = {}
        /\ r.at = "ok" => r.todo = <<>>

\* A station answered is the one of that number in the series the answer names, and the module
\* said so less than the cache's life before the request: an edit of the setting under a
\* request, or another request's entry, never puts a station of another series in an answer.
StationOfItsSeries ==
    \A q \in StopRequests : LET r == resolving[q] IN
        \A c \in DOMAIN r.stations :
            /\ r.stations[c].of = r.series /\ r.stations[c].code = c
            /\ r.stations[c].at + StopTtl > r.since

\* The cache (_remember_oebb_stop) stays within its cap, holds a number of a series once, and
\* is in the order of the answers, so that what goes past the cap is what was learnt first
\* (with several requests filling it, and entries renewed).
OldestGoesFirst ==
    /\ Len(stopCache) <= StopCap
    /\ \A i, j \in DOMAIN stopCache : i < j =>
        /\ stopCache[i].expires <= stopCache[j].expires
        /\ <<stopCache[i].series, stopCache[i].code>> # <<stopCache[j].series, stopCache[j].code>>
=============================================================================
