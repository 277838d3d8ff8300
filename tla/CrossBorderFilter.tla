-------------------------- MODULE CrossBorderFilter --------------------------
(***************************************************************************)
(* The filter that makes a corridor feed out of a national one: the routes *)
(* that call in two countries, their trips, and every row those need       *)
(* (app/gtfs_cross_border_filter.py). With a home country, the trips that  *)
(* start there alone: sessions of several countries that filter the same   *)
(* feed are meant to hold each train once.                                 *)
(*                                                                         *)
(* A stop's code is the country its UIC prefix stands for, "internal" (a   *)
(* prefix no country has) or Nil (no code). Tables keep their rows' order  *)
(* where the code depends on it: in stop_times alone, whose rows that are  *)
(* kept keep their places here. Calendars, shapes                          *)
(* and frequencies follow their trips as services do. A stop's land, where *)
(* it really is, is for the properties: the code does not know it.         *)
(***************************************************************************)
EXTENDS Naturals, Sequences, FiniteSets

CONSTANTS
    InputFeeds,    \* national feeds: [stops, routes, trips, calls, transfers]
    Homes,         \* countries with a corridor provider
    Nil

\* A feed names only rows it has; a stop's station is no part of another, and is in its
\* land; a code or a point that stands for a country stands for that land.
IsFeed(feed) ==
    LET named(s) == feed.stops[s] IN
    /\ DOMAIN feed = {"railOnly", "stops", "routes", "trips", "calls", "agencies", "services",
                      "transfers"}
    /\ \A t \in DOMAIN feed.trips : /\ feed.trips[t].route \in DOMAIN feed.routes
                                    /\ feed.trips[t].service \in feed.services
    /\ \A r \in DOMAIN feed.routes : feed.routes[r].agency \in feed.agencies \cup {Nil}
    /\ DOMAIN feed.calls = 1..Len(feed.calls) /\ Len(feed.calls) \in Nat
    /\ \A i \in DOMAIN feed.calls : /\ feed.calls[i].trip \in DOMAIN feed.trips
                                    /\ feed.calls[i].stop \in DOMAIN feed.stops
                                    /\ feed.calls[i].seq \in Nat
    /\ \A s \in DOMAIN feed.stops :
         /\ named(s).parent # Nil => /\ named(s).parent \in DOMAIN feed.stops
                                     /\ named(named(s).parent).parent = Nil
                                     /\ named(named(s).parent).land = named(s).land
         /\ named(s).code \in {"internal", Nil, named(s).land}
         /\ named(s).point \in {Nil, named(s).land}

ASSUME FilterAssumption ==
    /\ Nil \notin Homes \cup {"internal"} /\ InputFeeds # {}
    /\ \A feed \in InputFeeds : IsFeed(feed)

VARIABLES
    national,  \* the feed that is filtered, and whether to its trains alone
    corridor   \* what the filter wrote for each home, and for none

filterVars == <<national, corridor>>

FilterInit == /\ national \in InputFeeds
              /\ corridor = [h \in Homes \cup {Nil} |-> Nil]

-----------------------------------------------------------------------------
(* Countries *)

\* _country_of_stop: a code no country has is not made up for by the coordinates.
CountryOfStop(s) ==
    CASE s.code \notin {"internal", Nil} -> s.code
      [] s.code = "internal" -> Nil
      [] OTHER -> s.point

\* _stop_country_map: the country a stop lacks is its station's.
StopCountry(feed) ==
    [s \in DOMAIN feed.stops |->
        LET own == CountryOfStop(feed.stops[s])
            parent == feed.stops[s].parent
        IN IF own # Nil \/ parent = Nil THEN own ELSE CountryOfStop(feed.stops[parent])]

-----------------------------------------------------------------------------
(* Routes and trips *)

RailRoutes(feed) == {r \in DOMAIN feed.routes : feed.railOnly => feed.routes[r].rail}

\* The rows of stop_times of trips on those routes, by place in the file.
RailCalls(feed) ==
    {i \in DOMAIN feed.calls : feed.trips[feed.calls[i].trip].route \in RailRoutes(feed)}

\* _classify_routes
RouteCountries(feed, r) ==
    {StopCountry(feed)[feed.calls[i].stop] :
        i \in {i \in RailCalls(feed) : feed.trips[feed.calls[i].trip].route = r}} \ {Nil}
CrossBorderRoutes(feed) ==
    {r \in RailRoutes(feed) : Cardinality(RouteCountries(feed, r)) >= 2}

\* The lowest stop_sequence; of equals, the first the file has.
FirstCall(feed, t) ==
    CHOOSE i \in RailCalls(feed) : feed.calls[i].trip = t
        /\ \A j \in RailCalls(feed) : feed.calls[j].trip = t =>
             feed.calls[i].seq < feed.calls[j].seq
                \/ (feed.calls[i].seq = feed.calls[j].seq /\ i <= j)

TripOrigin(feed, t) ==
    IF \E i \in RailCalls(feed) : feed.calls[i].trip = t
    THEN StopCountry(feed)[feed.calls[FirstCall(feed, t)].stop] ELSE Nil

KeptTrips(feed, home) ==
    {t \in DOMAIN feed.trips : /\ feed.trips[t].route \in CrossBorderRoutes(feed)
                               /\ home # Nil => TripOrigin(feed, t) = home}

-----------------------------------------------------------------------------
(* What is written *)

Restricted(f, keys) == [k \in DOMAIN f \cap keys |-> f[k]]

\* _collect_stop_times, with the stations of the stops.
KeptStops(feed, calls) ==
    LET called == {calls[i].stop : i \in DOMAIN calls}
    IN called \cup ({feed.stops[s].parent : s \in called} \ {Nil})

\* _write_agency: all of them when no kept route names one.
KeptAgencies(feed, routes) ==
    LET named == {feed.routes[r].agency : r \in routes} \ {Nil}
    IN IF named = {} THEN feed.agencies ELSE feed.agencies \cap named

\* filter_to_cross_border, _write_filtered_feed
Filtered(feed, home) ==
    LET trips  == KeptTrips(feed, home)
        routes == {feed.trips[t].route : t \in trips}
        calls  == Restricted(feed.calls, {i \in DOMAIN feed.calls : feed.calls[i].trip \in trips})
        stops  == KeptStops(feed, calls)
    IN [railOnly  |-> feed.railOnly,
        routes    |-> Restricted(feed.routes, routes),
        trips     |-> Restricted(feed.trips, trips),
        calls     |-> calls,
        stops     |-> Restricted(feed.stops, stops),
        agencies  |-> KeptAgencies(feed, routes),
        services  |-> feed.services \cap {feed.trips[t].service : t \in trips},
        transfers |-> {x \in feed.transfers : {x.from, x.to} \subseteq stops
                                              /\ x.trip \in trips \cup {Nil}}]

\* A home no UIC prefix is known for is refused before anything is read.
FilterToCrossBorder(home) ==
    /\ corridor[home] = Nil
    /\ corridor' = [corridor EXCEPT ![home] = Filtered(national, home)]
    /\ UNCHANGED national

FilterNext == \E home \in Homes \cup {Nil} : FilterToCrossBorder(home)
FilterSpec == FilterInit /\ [][FilterNext]_filterVars

-----------------------------------------------------------------------------
(* Properties *)

Written == {h \in Homes \cup {Nil} : corridor[h] # Nil}

\* The corridor feed stands on its own: every id a row of it names, of a route, a
\* trip, a stop, a station, an agency or a service, has its row in it, so that a
\* graph builder that reads it alone does not stop at a missing one.
FilteredIsClosed ==
    \A h \in Written : LET f == corridor[h] IN
        /\ \A t \in DOMAIN f.trips : /\ f.trips[t].route \in DOMAIN f.routes
                                     /\ f.trips[t].service \in f.services
        /\ \A i \in DOMAIN f.calls : /\ f.calls[i].trip \in DOMAIN f.trips
                                     /\ f.calls[i].stop \in DOMAIN f.stops
        /\ \A s \in DOMAIN f.stops : f.stops[s].parent \in DOMAIN f.stops \cup {Nil}
        /\ \A r \in DOMAIN f.routes : f.routes[r].agency \in f.agencies \cup {Nil}
        /\ \A x \in f.transfers : /\ {x.from, x.to} \subseteq DOMAIN f.stops
                                  /\ x.trip \in DOMAIN f.trips \cup {Nil}

\* Corridor sessions of several homes hold a train of the same feed once: no two
\* keep it, and one whose first stop's country has a provider is kept by it.
OwnedOnce ==
    /\ \A g, h \in Written \ {Nil} : g # h =>
         DOMAIN corridor[g].trips \cap DOMAIN corridor[h].trips = {}
    /\ Written = Homes \cup {Nil} =>
         \A t \in DOMAIN corridor[Nil].trips : TripOrigin(national, t) \in Homes =>
            \E h \in Homes : t \in DOMAIN corridor[h].trips

\* A route is taken for an international one only when its trains really call in
\* two countries: the codes an operator makes up for its own stops, and the stops
\* of no known place, never make a domestic route cross a border.
NoFalseCrossing ==
    \A h \in Written : \A r \in DOMAIN corridor[h].routes :
        Cardinality({national.stops[national.calls[i].stop].land :
            i \in {i \in DOMAIN national.calls : national.trips[national.calls[i].trip].route = r}}) >= 2

\* The same trains are kept whatever the order of the rows of stop_times, which
\* GTFS leaves open.
RowsInAnyOrder ==
    \A h \in Written :
        LET n == Len(national.calls)
            backwards == [national EXCEPT !.calls = [i \in 1..n |-> national.calls[n + 1 - i]]]
            numbered == \A i, j \in 1..n :
                national.calls[i].trip = national.calls[j].trip =>
                    (national.calls[i].seq = national.calls[j].seq => i = j)
        IN numbered
           => DOMAIN Filtered(backwards, h).trips = DOMAIN corridor[h].trips
=============================================================================
