--------------------------- MODULE FederatedPlanner ---------------------------
(***************************************************************************)
(* The federated fallback of a fan-out: an origin session and a            *)
(* destination session that share a hub, one query for each half, the      *)
(* halves stitched and ranked (app/journey/federated_planner.py). The      *)
(* stations a session serves are read from its files once and kept.        *)
(***************************************************************************)
EXTENDS Integers, FiniteSets, Sequences, FiniteSetsExt, SequencesExt

CONSTANTS
    FedSessions,    \* the sessions of the fan-out
    Stations,       \* UIC codes
    Place,          \* station -> where it is, on a line
    Country,        \* station -> the first two digits of its code
    Staged,         \* the stations a session's files may name: subsets of Stations
    Trains,         \* what the engines know: [session, from, to, dep, arr, changes, legs]
    Origin, Dest, When,
    Mct,            \* DEFAULT_MCT_SECONDS
    MaxHubs, MaxLeg1Options, MaxResults, TransferPenalty,
    Known           \* sets of stations master_stations has a position for

ASSUME FederatedAssumption ==
    /\ Origin # Dest /\ {Origin, Dest} \subseteq Stations
    /\ {Mct, TransferPenalty} \subseteq Nat
    /\ {MaxHubs, MaxLeg1Options, MaxResults} \subseteq Nat \ {0}

VARIABLES
    staged,     \* session -> the stations of its files
    servedUics, \* _SERVED_UICS_CACHE: session -> stations, or {} before the first read
    mastered,   \* the stations with a position, those of the request included
    fedDown,    \* sessions whose engine answers nothing
    planned     \* the try: its outcome and its journeys, or <<>>

fedVars == <<staged, servedUics, mastered, fedDown, planned>>

FedInit ==
    /\ staged \in [FedSessions -> Staged] /\ servedUics = [s \in FedSessions |-> {}]
    /\ mastered \in {k \cup r : k \in Known, r \in SUBSET {Origin, Dest}}
    /\ fedDown = {} /\ planned = <<>>

----------------------------------------------------------------------------
Distance(a, b) == IF Place[a] > Place[b] THEN Place[a] - Place[b] ELSE Place[b] - Place[a]
Detour(h) == Distance(Origin, h) + Distance(h, Dest)

Lower(a, b) == \E k \in DOMAIN a : a[k] < b[k] /\ \A m \in 1..(k - 1) : a[m] = b[m]

\* The order of rank_hubs: hubs of the destination's country, then the detour, then the code.
HubKey(h) == <<IF Country[h] = Country[Dest] THEN 0 ELSE 1, Detour(h), h>>

RankHubs(hubs) ==
    LET placed == SetToSortSeq(hubs \cap mastered, LAMBDA a, b : Lower(HubKey(a), HubKey(b)))
    IN  SubSeq(placed, 1, Min({MaxHubs, Len(placed)}))

\* _fetch_leg: the engine's journeys from then on, the earliest first; none when it fails.
FetchLeg(s, from, to, from_time) ==
    IF s \in fedDown \/ ~({from, to} \subseteq mastered) THEN <<>>
    ELSE SetToSortSeq({t \in Trains : t.session = s /\ t.from = from /\ t.to = to /\ t.dep >= from_time},
                      LAMBDA a, b : Lower(<<a.dep, a.arr, a.changes>>, <<b.dep, b.arr, b.changes>>))

\* earliest_next_departure
EarliestNext(arrival) == arrival + Mct

\* _join_legs_dropping_hub_walks
JoinLegs(a, b) ==
    (IF a # <<>> /\ Last(a) = "walk" THEN Front(a) ELSE a)
    \o (IF b # <<>> /\ Head(b) = "walk" THEN Tail(b) ELSE b)

\* assemble_stitch
Stitch(a, b, hub) ==
    [first |-> a, second |-> b, hub |-> hub, seconds |-> b.arr - a.dep,
     changes |-> a.changes + b.changes + 1, legs |-> JoinLegs(a.legs, b.legs)]

\* _stitch_pair
StitchPair(so, sd, hubs) ==
    LET options(h) == LET leg1 == FetchLeg(so, Origin, h, When) IN
                      SubSeq(leg1, 1, Min({MaxLeg1Options, Len(leg1)}))
        onward(h, t) == FetchLeg(sd, h, Dest, EarliestNext(t.arr))
        at(h) == FoldLeft(LAMBDA out, t : IF onward(h, t) = <<>> THEN out
                                          ELSE Append(out, Stitch(t, onward(h, t)[1], h)),
                          <<>>, options(h))
    IN  FoldLeft(LAMBDA out, h : out \o at(h), <<>>, hubs)

Generalized(x) == x.seconds + TransferPenalty * x.changes
RankKey(x) == <<Generalized(x), x.second.arr>>
Fingerprint(x) == <<x.first.dep, x.first.arr, x.second.dep, x.second.arr, x.second.from>>

\* dedup_and_rank; the sort is stable.
DedupAndRank(found) ==
    LET order == SetToSortSeq(DOMAIN found, LAMBDA i, j :
                    Lower(RankKey(found[i]) \o <<i>>, RankKey(found[j]) \o <<j>>))
    IN  FoldLeft(LAMBDA out, i :
            IF Len(out) = MaxResults \/ \E k \in DOMAIN out : Fingerprint(out[k]) = Fingerprint(found[i])
            THEN out ELSE Append(out, found[i]), <<>>, order)

----------------------------------------------------------------------------
\* A session's files are staged again; nobody drops what was read of them.
Restage(s, uics) ==
    /\ planned = <<>> /\ uics # staged[s]
    /\ staged' = [staged EXCEPT ![s] = uics]
    /\ UNCHANGED <<servedUics, mastered, fedDown, planned>>

GoDown(s) ==
    /\ planned = <<>> /\ fedDown' = fedDown \cup {s} /\ fedDown' # fedDown
    /\ UNCHANGED <<staged, servedUics, mastered, planned>>

\* _session_served_uics, in the thread of an earlier try.
ReadServed(s) ==
    /\ planned = <<>> /\ servedUics[s] = {}
    /\ servedUics' = [servedUics EXCEPT ![s] = staged[s]]
    /\ UNCHANGED <<staged, mastered, fedDown, planned>>

\* The pairs of distinct sessions, one serving each end.
Pairs(served) == {p \in FedSessions \X FedSessions :
                    p[1] # p[2] /\ Origin \in served[p[1]] /\ Dest \in served[p[2]]}

\* plan_federated
PlanFederated ==
    /\ planned = <<>>
    /\ LET served == [s \in FedSessions |-> IF servedUics[s] = {} THEN staged[s] ELSE servedUics[s]]
           serving(u) == {s \in FedSessions : u \in served[s]}
           hubsOf(p) == served[p[1]] \cap served[p[2]]
           hubs == UNION {hubsOf(p) : p \in Pairs(served)}
           order == SetToSortSeq(Pairs(served), LAMBDA a, b : Lower(a, b))
           found == FoldLeft(LAMBDA out, p : out \o StitchPair(p[1], p[2], RankHubs(hubsOf(p))), <<>>, order)
           outcome == CASE serving(Origin) = {} \/ serving(Dest) = {} -> "code_not_served"
                        [] serving(Origin) # {} /\ serving(Dest) # {} /\ hubs = {} -> "no_shared_hub"
                        [] hubs # {} /\ ~({Origin, Dest} \subseteq mastered) -> "position_missing"
                        [] OTHER -> "planned" IN
        /\ servedUics' = served
        /\ planned' = [outcome |-> outcome, served |-> served, found |-> ToSet(found),
                       trips |-> IF outcome = "planned" THEN DedupAndRank(found) ELSE <<>>]
    /\ UNCHANGED <<staged, mastered, fedDown>>

FedNext ==
    \/ PlanFederated
    \/ \E s \in FedSessions : ReadServed(s) \/ GoDown(s) \/ \E u \in Staged : Restage(s, u)

FedSpec == FedInit /\ [][FedNext]_fedVars

----------------------------------------------------------------------------
\* Every journey of the fallback can be ridden: it leaves the origin in its own time, changes
\* once between two sessions at a hub both serve, with the minimum time to change, and
\* reaches the destination; its duration counts the wait.
StitchIsRidable ==
    planned # <<>> => \A x \in ToSet(planned.trips) :
        LET a == x.first  b == x.second IN
        /\ a.from = Origin /\ b.to = Dest /\ a.to = x.hub /\ b.from = x.hub
        /\ a.dep >= When /\ b.dep >= a.arr + Mct /\ x.seconds = (b.arr - b.dep) + (b.dep - a.dep)
        /\ a.session # b.session
        /\ x.hub \in planned.served[a.session] \cap planned.served[b.session]

\* The fallback's answer has no two journeys alike, none is behind a worse one, and a
\* journey it leaves out is not better than those of a full answer.
BestOfStitches ==
    (planned # <<>> /\ planned.outcome = "planned") =>
        /\ \A i, j \in DOMAIN planned.trips : i < j =>
            /\ Fingerprint(planned.trips[i]) # Fingerprint(planned.trips[j])
            /\ Generalized(planned.trips[i]) <= Generalized(planned.trips[j])
        /\ \A x \in planned.found : \E i \in DOMAIN planned.trips :
            \/ Fingerprint(planned.trips[i]) = Fingerprint(x)
               /\ Generalized(planned.trips[i]) <= Generalized(x)
            \/ i = MaxResults /\ Generalized(planned.trips[i]) <= Generalized(x)

\* A stitched journey keeps every ride, the walk from the origin and the walk to the
\* destination: only the two walks at the hub go.
KeepsTheRides ==
    planned # <<>> => \A x \in ToSet(planned.trips) :
        LET rides(legs) == SelectSeq(legs, LAMBDA l : l # "walk") IN
        /\ rides(x.legs) = rides(x.first.legs) \o rides(x.second.legs)
        /\ Head(x.legs) = Head(x.first.legs) /\ Last(x.legs) = Last(x.second.legs)

\* While the destination's country has more hubs of a pair than are tried, no hub outside
\* it is used: the spoke is dense only there.
DestinationFirst ==
    planned # <<>> => \A x \in ToSet(planned.trips) :
        Country[x.hub] # Country[Dest] =>
            Cardinality({h \in planned.served[x.first.session] \cap planned.served[x.second.session] :
                            h \in mastered /\ Country[h] = Country[Dest]}) < MaxHubs
=============================================================================
