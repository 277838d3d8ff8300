---------------------------- MODULE JourneyMatching ---------------------------
(***************************************************************************)
(* compare(left, right, profile): journeys of two planners are paired one  *)
(* to one (app/journey/matching/engine.py), and a coverage cell is scored  *)
(* from the pairs (app/network_coverage/alignment.py). What analyse and    *)
(* assess say of a pair is an input here: the second part computes it.     *)
(***************************************************************************)
EXTENDS Integers, FiniteSets, Sequences, SequencesExt, FiniteSetsExt

CONSTANTS
    LeftIds, RightIds,  \* journey ids, naturals: ties are broken by them
    Outcomes,           \* [verdict, score] pairs of assess, the score in hundredths
    GapValues,          \* departure gaps of a pair
    Boardings,          \* first boarding times
    NoTime,             \* a journey without one
    Tolerance           \* profile.departure_tolerance_s

ASSUME MatchingAssumption ==
    /\ LeftIds \cup RightIds \subseteq Nat /\ IsFiniteSet(LeftIds) /\ IsFiniteSet(RightIds)
    /\ Outcomes \subseteq [verdict : {"same_service", "probably_same", "different"}, score : 0..100]
    /\ GapValues \subseteq Nat /\ Boardings \subseteq Nat /\ NoTime \notin Nat /\ Tolerance \in Nat

VARIABLES
    left, right,    \* the journeys in the order they come
    rideless,       \* the journeys without a timed leg
    assessed,       \* what assess says of each pair of ids, and its departure gap
    boarding,       \* first_boarding of every journey of both sides
    compared        \* the JourneyComparison, or <<>> before the call

matchVars == <<left, right, rideless, assessed, boarding, compared>>

Rank == [same_service |-> 0, probably_same |-> 1, different |-> 2]

\* What the pair of positions c weighs.
Assessed(l, r, c) == assessed[<<l[c[1]], r[c[2]]>>]
Passed(l, r, c) == Assessed(l, r, c).verdict # "different"
Comparable(side, which) == {i \in DOMAIN side : <<which, side[i]>> \notin rideless}
Candidates(l, r) == Comparable(l, "left") \X Comparable(r, "right")

Before(a, b) == \E k \in DOMAIN a : a[k] < b[k] /\ \A m \in 1..(k - 1) : a[m] = b[m]

\* The sort key of the passing candidates.
BestFirst(l, r, c) ==
    LET x == Assessed(l, r, c) IN <<Rank[x.verdict], -x.score, x.gap, l[c[1]], r[c[2]]>>

Passing(l, r) ==
    SetToSortSeq({c \in Candidates(l, r) : Passed(l, r, c)},
                 LAMBDA a, b : Before(BestFirst(l, r, a), BestFirst(l, r, b)))

TakePair(c, taken) == IF \E p \in taken : p[1] = c[1] \/ p[2] = c[2] THEN taken ELSE taken \cup {c}

AcceptedPairs(l, r) == FoldLeft(LAMBDA taken, c : TakePair(c, taken), {}, Passing(l, r))

\* _closest: the smallest departure gap, passed or not; <<>> without a candidate.
Closest(l, r, those) ==
    LET key(c) == <<Assessed(l, r, c).gap, l[c[1]], r[c[2]]>> IN
    IF those = {} THEN <<>> ELSE CHOOSE c \in those : \A d \in those \ {c} : Before(key(c), key(d))

\* _unmatched
Unmatched(l, r, id, those) ==
    LET c == Closest(l, r, those) IN
    IF c = <<>> THEN [id |-> id, closest |-> <<>>, elsewhere |-> FALSE]
    ELSE [id |-> id, closest |-> <<l[c[1]], r[c[2]]>>, elsewhere |-> Passed(l, r, c)]

\* compare, with ids for the journeys.
Comparison(l, r) ==
    LET all == Candidates(l, r)
        acc == AcceptedPairs(l, r)
        freeL == Comparable(l, "left") \ {c[1] : c \in acc}
        freeR == Comparable(r, "right") \ {c[2] : c \in acc} IN
    [pairs |-> {<<l[c[1]], r[c[2]]>> : c \in acc},
     leftOnly |-> {Unmatched(l, r, l[i], {c \in all : c[1] = i}) : i \in freeL},
     rightOnly |-> {Unmatched(l, r, r[j], {c \in all : c[2] = j}) : j \in freeR},
     uncomparableLeft |-> {l[i] : i \in DOMAIN l \ Comparable(l, "left")},
     uncomparableRight |-> {r[j] : j \in DOMAIN r \ Comparable(r, "right")}]

\* reason_counts: the groups of reasons counted, one per pair and one per unmatched
\* journey, a couple that is each other's closest counted once.
Counted(c) ==
    {<<"left", u.id, u.closest>> : u \in c.leftOnly}
    \cup {<<"right", u.id, u.closest>> : u \in {v \in c.rightOnly :
            v.closest = <<>> \/ \A w \in c.leftOnly : w.closest # v.closest}}

----------------------------------------------------------------------------
\* A cell: reference_window, compare, compute_alignment.

InReferenceWindow(id, oebb) ==
    LET times == {boarding[<<"right", o>>] : o \in oebb} \ {NoTime}
        t == boarding[<<"left", id>>] IN
    \/ times = {} \/ t = NoTime
    \/ Min(times) - Tolerance <= t /\ t <= Max(times) + Tolerance

\* _classify_score
Tier(score, v, o) ==
    CASE v = 0 /\ o = 0 -> "no_service"
      [] v = 0 /\ o > 0 -> "one_sided_oebb"
      [] v > 0 /\ o = 0 -> "one_sided_viator"
      [] v > 0 /\ o > 0 /\ score >= 100 -> "agree"
      [] v > 0 /\ o > 0 /\ score \in 70..99 -> "mostly_agree"
      [] v > 0 /\ o > 0 /\ score \in 40..69 -> "partial"
      [] v > 0 /\ o > 0 /\ score \in 1..39 -> "disagree"
      [] OTHER -> "no_overlap"

CapPerSide == 3
Capped(n) == IF n < CapPerSide THEN n ELSE CapPerSide

Denominator(v, o) == Max({Capped(v), Capped(o)})

\* credit / denominator in hundredths, rounded to the nearest.
Score(same, probable, v, o) ==
    Min({100, (2 * (100 * same + 70 * probable) + Denominator(v, o)) \div (2 * Denominator(v, o))})

\* compute_alignment over the VIATOR journeys l and the ÖBB journeys r.
Alignment(l, r) ==
    LET oebb == ToSet(r)
        inside == SelectSeq(l, LAMBDA id : InReferenceWindow(id, oebb))
        v == Len(inside)  o == Len(r)
        pairs == Comparison(inside, r).pairs
        verdict(p) == assessed[p].verdict
        same == Cardinality({p \in pairs : verdict(p) = "same_service"})
        score == IF v = 0 \/ o = 0 THEN 0 ELSE Score(same, Cardinality(pairs) - same, v, o) IN
    [score |-> score, tier |-> Tier(score, v, o), pairs |-> pairs, inside |-> ToSet(inside)]

----------------------------------------------------------------------------
Orders(ids) == SetToSeqs(ids)

MatchInit ==
    /\ \E l \in SUBSET LeftIds, r \in SUBSET RightIds : left \in Orders(l) /\ right \in Orders(r)
    /\ rideless \in SUBSET (({"left"} \X ToSet(left)) \cup ({"right"} \X ToSet(right)))
    /\ assessed \in [ToSet(left) \X ToSet(right) ->
                        {[verdict |-> o.verdict, score |-> o.score, gap |-> g] :
                            o \in Outcomes, g \in GapValues}]
    /\ boarding \in [({"left"} \X ToSet(left)) \cup ({"right"} \X ToSet(right))
                        -> Boardings \cup {NoTime}]
    /\ compared = <<>>

\* One cell of the coverage matrix, or the cards of one journey page.
Compare ==
    /\ compared = <<>>
    /\ compared' = [all |-> Comparison(left, right), cell |-> Alignment(left, right)]
    /\ UNCHANGED <<left, right, rideless, assessed, boarding>>

MatchNext == Compare

MatchSpec == MatchInit /\ [][MatchNext]_matchVars

----------------------------------------------------------------------------
Done == compared # <<>>

\* Every journey ends in exactly one bucket (metadata gives each card one): paired with
\* one other, unmatched, or without a ride.
OneBucket ==
    Done => LET c == compared.all IN
        /\ \A id \in ToSet(left) : Cardinality(
            {p \in c.pairs : p[1] = id} \cup {u \in c.leftOnly : u.id = id}
                \cup {x \in c.uncomparableLeft : x = id}) = 1
        /\ \A id \in ToSet(right) : Cardinality(
            {p \in c.pairs : p[2] = id} \cup {u \in c.rightOnly : u.id = id}
                \cup {x \in c.uncomparableRight : x = id}) = 1

\* The pairing is stable: a couple that passed the gates and is not a pair has a journey
\* whose pair is at least as good; so "paired elsewhere" is true of whom it names.
PairingStable ==
    Done => LET c == compared.all
                key(p) == <<Rank[assessed[p].verdict], -assessed[p].score, assessed[p].gap>> IN
        /\ \A i \in ToSet(left), j \in ToSet(right) :
            (/\ <<"left", i>> \notin rideless /\ <<"right", j>> \notin rideless
             /\ assessed[<<i, j>>].verdict # "different" /\ <<i, j>> \notin c.pairs)
                => \E p \in c.pairs : (p[1] = i \/ p[2] = j) /\ ~Before(key(<<i, j>>), key(p))
        /\ \A u \in c.leftOnly : u.elsewhere => \E p \in c.pairs : p[2] = u.closest[2]
        /\ \A u \in c.rightOnly : u.elsewhere => \E p \in c.pairs : p[1] = u.closest[1]

\* The engine's docstring: "the same journeys give the same pairs whatever the order they
\* come in"; so are the closest journeys that the unmatched ones are shown.
OrderIndifferent ==
    Done => \A l \in Orders(ToSet(left)), r \in Orders(ToSet(right)) :
        Comparison(l, r) = compared.all

\* reason_counts counts a couple once, however many of its two journeys name the other,
\* and leaves out no journey without a pair.
CountedOnce ==
    Done => LET c == compared.all  n == Counted(c) IN
        /\ \A x, y \in n : (x # y /\ x[3] = y[3] /\ x[3] # <<>>) => x[1] = y[1]
        /\ \A u \in c.leftOnly \cup c.rightOnly :
            \E x \in n : x[3] = u.closest /\ (u.closest # <<>> \/ x[2] = u.id)

\* A cell agrees fully only when every journey of the shorter side, up to the cap, has its
\* pair on the other and the sides are as long; it has no overlap exactly when nothing is
\* paired; a VIATOR journey outside ÖBB's span changes nothing.
CellScoreTrue ==
    Done => LET c == compared.cell
                v == Cardinality(c.inside)  o == Len(right) IN
        (v > 0 /\ o > 0) =>
            /\ c.tier = "agree" => Cardinality(c.pairs) >= Max({Capped(v), Capped(o)})
            /\ (c.tier = "no_overlap") = (c.pairs = {})
            /\ c = Alignment(SelectSeq(left, LAMBDA id : id \in c.inside), right)

-----------------------------------------------------------------------------
(***************************************************************************)
(* What the matching engine says of one pair of journeys: their rides      *)
(* after local access is left out, the rides they share, the gates, the    *)
(* score and the verdict (spines, stations, identifiers, features, scoring *)
(* and profiles of app/journey/matching/, the fingerprint of               *)
(* app/journey/canonical/). Times are whole minutes, names are tokens.     *)
(***************************************************************************)

CONSTANTS
    JourneyRides,   \* the journeys: non-empty sequences of rides
    RideProfiles,   \* MatchProfile records
    None            \* a missing value

\* A ride starts before it ends, and the rides of a journey follow one another.
ASSUME RideAssumption ==
    \A j \in JourneyRides :
        /\ j # <<>>
        /\ \A k \in DOMAIN j : j[k].dep < j[k].arr /\ (k > 1 => j[k - 1].arr <= j[k].dep)

VARIABLES ridesL, ridesR, profile, verdict

rideVars == <<ridesL, ridesR, profile, verdict>>

----------------------------------------------------------------------------
\* Stations. A location has sid and parent (of the station module), uic, token, pos, ref.

GeoCell(pos) == pos \div 2

\* station_key
StationKey(loc) ==
    CASE loc.uic # None -> <<"UIC", loc.uic>>
      [] loc.uic = None /\ loc.token # None -> <<"UNRESOLVED", loc.token>>
      [] loc.uic = None /\ loc.token = None /\ loc.pos # None -> <<"GEO", GeoCell(loc.pos)>>
      [] loc.uic = None /\ loc.token = None /\ loc.pos = None /\ loc.ref # None
            -> <<"UNRESOLVED", loc.ref>>
      [] OTHER -> <<"NONE", None>>

Agree(note) == [answer |-> "agree", note |-> note]
Conflict == [answer |-> "conflict", note |-> None]
UnknownAnswer == [answer |-> "unknown", note |-> None]

\* compare_stations
CompareStations(a, b) ==
    LET ka == StationKey(a)  kb == StationKey(b)
        placed(x) == {x.sid, x.parent} \ {None} IN
    IF a.sid # None /\ b.sid # None
    THEN IF a.sid = b.sid THEN Agree(None)
         ELSE IF a.parent \in placed(b) \/ b.parent \in placed(a) THEN Agree("same_complex")
         ELSE Conflict
    ELSE IF ka[1] = "UIC" /\ kb[1] = "UIC" THEN (IF ka = kb THEN Agree(None) ELSE Conflict)
    ELSE IF ka[1] = "GEO" /\ ka = kb THEN Agree("location_only")
    ELSE UnknownAnswer

\* with_position_fallback
WithPosition(found, a, b) ==
    LET metres == IF a.pos > b.pos THEN a.pos - b.pos ELSE b.pos - a.pos IN
    IF /\ found.answer = "unknown" /\ profile.fallback > 0
       /\ a.pos # None /\ b.pos # None /\ metres <= profile.fallback
    THEN Agree("stations_by_position") ELSE found

\* for_endpoint_gate: the same cell of the map is no evidence at an end of the journey.
AtTheGate(found) == IF found.note = "location_only" THEN "unknown" ELSE found.answer

----------------------------------------------------------------------------
\* Services: number, line (a sequence of tokens) and category, as identity_of reads them.

\* _is_the_train_label: a line that only repeats the number is no line.
Identity(svc) ==
    IF svc.number # None /\ svc.line \in {<<svc.number>>, <<svc.category, svc.number>>}
    THEN [svc EXCEPT !.line = None] ELSE svc

\* _line_forms: the line, and the category and the line written together.
LineForms(i) ==
    {i.line} \cup (IF i.category # None /\ Head(i.line) # i.category
                   THEN {<<i.category>> \o i.line} ELSE {})

\* compare_services
CompareServices(s, t) ==
    LET a == Identity(s)  b == Identity(t) IN
    CASE a.number # None /\ b.number # None ->
            [answer |-> IF a.number = b.number THEN "agree" ELSE "conflict", kind |-> "number"]
      [] ~(a.number # None /\ b.number # None) /\ a.line # None /\ b.line # None ->
            [answer |-> IF LineForms(a) \cap LineForms(b) # {} THEN "agree" ELSE "conflict",
             kind |-> "line"]
      [] OTHER -> [answer |-> "unknown", kind |-> None]

----------------------------------------------------------------------------
\* Spines.

Abs(n) == IF n < 0 THEN -n ELSE n

TimesAgree(a, b) == Abs(a.dep - b.dep) <= profile.depTol /\ Abs(a.arr - b.arr) <= profile.arrTol

RouteMatch(a, b) ==
    /\ a.mode = b.mode
    /\ CompareStations(a.from, b.from).answer # "conflict"
    /\ CompareStations(a.to, b.to).answer # "conflict"

RideMatch(a, b) == RouteMatch(a, b) /\ TimesAgree(a, b)

Local(ride) == ride.mode \in {"tram", "bus"}    \* profile.local_access_modes

\* _trim_one_end
TrimOneEnd(rides, other, leading) ==
    LET ride == IF leading THEN Head(rides) ELSE Last(rides)
        edge == IF leading THEN Head(other) ELSE Last(other)
        gap  == IF leading THEN edge.dep - ride.arr ELSE ride.dep - edge.arr IN
    IF \/ Len(rides) < 2 \/ other = <<>> \/ ~Local(ride)
       \/ gap < -profile.depTol \/ RideMatch(ride, edge)
    THEN rides
    ELSE IF leading THEN Tail(rides) ELSE Front(rides)

\* trim_local_access: both ends, each side against what is left of the other.
TrimSide(sides, step) ==
    [sides EXCEPT ![step.side] = TrimOneEnd(sides[step.side], sides[3 - step.side], step.leading)]
Trimmed(l, r) ==
    FoldLeft(TrimSide, <<l, r>>,
             <<[side |-> 1, leading |-> TRUE], [side |-> 2, leading |-> TRUE],
               [side |-> 1, leading |-> FALSE], [side |-> 2, leading |-> FALSE]>>)

\* Mutant: a match is taken as soon as it is met.
AlignedGreedy(l, r, timed) ==
    LET match(a, b) == RouteMatch(a, b) /\ (timed => TimesAgree(a, b))
        walk[i \in 1..(Len(l) + 1), j \in 1..(Len(r) + 1)] ==
            IF i > Len(l) \/ j > Len(r) THEN <<>>
            ELSE IF match(l[i], r[j]) THEN <<<<i, j>>>> \o walk[i + 1, j + 1]
            ELSE walk[i + 1, j]
    IN walk[1, 1]

\* aligned: the pairs of positions of a longest common subsequence, the earliest first.
Aligned(l, r, timed) ==
    LET match(a, b) == RouteMatch(a, b) /\ (timed => TimesAgree(a, b))
        len[i \in 1..(Len(l) + 1), j \in 1..(Len(r) + 1)] ==
            IF i > Len(l) \/ j > Len(r) THEN 0
            ELSE Max({len[i + 1, j], len[i, j + 1]}
                     \cup IF match(l[i], r[j]) THEN {len[i + 1, j + 1] + 1} ELSE {})
        walk[i \in 1..(Len(l) + 1), j \in 1..(Len(r) + 1)] ==
            IF i > Len(l) \/ j > Len(r) THEN <<>>
            ELSE IF match(l[i], r[j]) /\ len[i, j] = len[i + 1, j + 1] + 1
                 THEN <<<<i, j>>>> \o walk[i + 1, j + 1]
            ELSE IF len[i + 1, j] >= len[i, j + 1] THEN walk[i + 1, j] ELSE walk[i, j + 1]
    IN walk[1, 1]

\* fingerprint_of and strict_key: the journey's own legs, untrimmed.
StrictKey(rides) ==
    [k \in DOMAIN rides |-> <<rides[k].mode, StationKey(rides[k].from), StationKey(rides[k].to),
                              rides[k].dep, rides[k].arr>>]

----------------------------------------------------------------------------
\* Features: overlaps in ten-thousandths, None without evidence.

Share(n, of) == (10000 * n) \div of
Overlap(found) ==
    LET known == SelectSeq(found, LAMBDA x : x.answer # "unknown") IN
    IF known = <<>> THEN None
    ELSE Share(Len(SelectSeq(known, LAMBDA x : x.answer = "agree")), Len(known))

EndRidesAgree(a, b) == a.mode = b.mode /\ TimesAgree(a, b)
EndAgreement(a, b, timesOk) ==
    IF timesOk THEN WithPosition(CompareStations(a, b), a, b) ELSE CompareStations(a, b)

FirstStation(l, r) == EndAgreement(l[1].from, r[1].from, EndRidesAgree(l[1], r[1]))
LastStation(l, r) == EndAgreement(Last(l).to, Last(r).to, EndRidesAgree(Last(l), Last(r)))

\* _inner_agreements: the ends of the shared rides, the journeys' own two left out.
InnerAgreements(l, r, shared) ==
    FoldLeft(LAMBDA acc, p :
        acc \o (IF p = <<1, 1>> THEN <<>> ELSE <<EndAgreement(l[p[1]].from, r[p[2]].from, TRUE)>>)
            \o (IF p = <<Len(l), Len(r)>> THEN <<>>
                ELSE <<EndAgreement(l[p[1]].to, r[p[2]].to, TRUE)>>), <<>>, shared)

Services(l, r, shared) ==
    [k \in DOMAIN shared |-> CompareServices(l[shared[k][1]].svc, r[shared[k][2]].svc)]

Operators(rides) == {rides[k].operator : k \in DOMAIN rides} \ {None}

\* _service_overlap: a line conflict is no evidence.
ServiceOverlap(services) ==
    Overlap(SelectSeq(services, LAMBDA s : s.answer = "agree" \/ s.kind = "number"))

----------------------------------------------------------------------------
\* Gates, score, verdict.

TimeGate(l, r) ==
    /\ Abs(l[1].dep - r[1].dep) <= profile.depTol
    /\ Abs(Last(l).arr - Last(r).arr) <= profile.arrTol

StationGate(l, r) ==
    \A found \in {AtTheGate(FirstStation(l, r)), AtTheGate(LastStation(l, r))} :
        found # "conflict" /\ (found = "unknown" => profile.unresolved = "allow")

SameMinutes(a, b) == a.dep = b.dep /\ a.arr = b.arr

\* _number_conflict: whether a train-number conflict of the ride stops the pair.
Vetoes(a, b) ==
    /\ CompareServices(a.svc, b.svc) = [answer |-> "conflict", kind |-> "number"]
    /\ ~(profile.conflict = "veto_unless_same_minutes" /\ SameMinutes(a, b))
    /\ profile.conflict # "penalty"

\* The weights of the components with evidence.
WeightsOf(components) ==
    FoldLeft(LAMBDA sum, c : IF c[2] = None THEN sum ELSE sum + c[1], 0, components)

\* score, in hundredths, penalties of ten each.
ScoreOf(l, r, shared, penalties) ==
    LET delta == Abs(Len(l) - Len(r))
        ops == <<Operators(l), Operators(r)>>
        tol == profile.depTol + profile.arrTol
        off == Abs(l[1].dep - r[1].dep) + Abs(Last(l).arr - Last(r).arr)
        components == <<
            <<30, IF tol > 0 THEN Max({0, 10000 - Share(off, tol)})
                  ELSE IF off = 0 THEN 10000 ELSE 0>>,
            <<25, Overlap(<<FirstStation(l, r), LastStation(l, r)>> \o InnerAgreements(l, r, shared))>>,
            <<15, Share(Len(Aligned(l, r, FALSE)), Max({Len(l), Len(r)}))>>,
            <<15, ServiceOverlap(Services(l, r, shared))>>,
            <<10, CASE delta = 0 -> 10000 [] delta = 1 -> 5000 [] OTHER -> 0>>,
            <<5, IF {} \in {ops[1], ops[2]} THEN None
                 ELSE Share(Cardinality(ops[1] \cap ops[2]), Cardinality(ops[1] \cup ops[2]))>>>>
        weighted == FoldLeft(LAMBDA sum, c : IF c[2] = None THEN sum ELSE sum + c[1] * c[2],
                             0, components)
        mean == weighted \div WeightsOf(components)
    IN  Max({0, Min({10000, mean - 1000 * penalties}) + 50}) \div 100

\* assess, of the spines and what they share.
AssessSpines(left0, right0, l, r, shared) ==
    LET services == Services(l, r, shared)
        conflict(kind) == {k \in DOMAIN shared :
                            services[k] = [answer |-> "conflict", kind |-> kind]}
        penalties == Cardinality(conflict("line"))
            + IF profile.conflict = "penalty" THEN Cardinality(conflict("number")) ELSE 0
        stopped == \/ ~TimeGate(l, r) \/ ~StationGate(l, r)
                   \/ \E k \in DOMAIN shared : Vetoes(l[shared[k][1]], r[shared[k][2]])
        warned == conflict("line") \cup conflict("number") # {}
        exact == StrictKey(left0) = StrictKey(right0)
        score == IF exact THEN 100 ELSE ScoreOf(l, r, shared, penalties)
    IN  [l |-> l, r |-> r, shared |-> shared, exact |-> exact,
         score |-> IF stopped THEN 0 ELSE score,
         verdict |-> CASE stopped -> "different"
                       [] ~stopped /\ exact -> IF warned THEN "probably_same" ELSE "same_service"
                       [] ~stopped /\ ~exact /\ score >= profile.sameMin /\ ~warned -> "same_service"
                       [] ~stopped /\ ~exact /\ (score < profile.sameMin \/ warned)
                            /\ score >= profile.probableMin -> "probably_same"
                       [] OTHER -> "different"]

\* assess: there is one result, that of the trimmed and aligned spines.
Assess(left0, right0) ==
    CHOOSE result \in
        UNION {{AssessSpines(left0, right0, t[1], t[2], shared) :
                    shared \in {Aligned(t[1], t[2], TRUE)}} : t \in {Trimmed(left0, right0)}} : TRUE

RideInit ==
    /\ ridesL \in JourneyRides /\ ridesR \in JourneyRides /\ profile \in RideProfiles
    /\ verdict = None

AssessPair ==
    /\ verdict = None /\ verdict' = Assess(ridesL, ridesR)
    /\ UNCHANGED <<ridesL, ridesR, profile>>

RideSpec == RideInit /\ [][AssessPair]_rideVars

----------------------------------------------------------------------------
Assessed1 == verdict # None

\* The pairings of the rides in order.
Chains(l, r) ==
    {c \in SUBSET ((DOMAIN l) \X (DOMAIN r)) :
        /\ \A p \in c : RideMatch(l[p[1]], r[p[2]])
        /\ \A p, q \in c : p # q => (p[1] < q[1] /\ p[2] < q[2]) \/ (q[1] < p[1] /\ q[2] < p[2])}

\* aligned is a longest common subsequence: no pairing in order shares more rides.
SharedIsLongest ==
    Assessed1 => /\ \A c \in Chains(verdict.l, verdict.r) :
                        Cardinality(c) <= Len(verdict.shared)
                 /\ ToSet(verdict.shared) \in Chains(verdict.l, verdict.r)

\* M10: "a journey keeps at least one ride", and a ride is left out only where the other
\* side rides nothing then: no ride of the other journey overlaps it past the tolerance.
TrimsOnlyAccess ==
    Assessed1 =>
        /\ verdict.l # <<>> /\ verdict.r # <<>>
        /\ \A a \in ToSet(ridesL) \ ToSet(verdict.l), b \in ToSet(ridesR) :
            Local(a) /\ (a.arr <= b.dep + profile.depTol \/ b.arr <= a.dep + profile.depTol)
        /\ \A b \in ToSet(ridesR) \ ToSet(verdict.r), a \in ToSet(ridesL) :
            Local(b) /\ (b.arr <= a.dep + profile.depTol \/ a.arr <= b.dep + profile.depTol)

\* The module docstring of identifiers: "only a CONFLICT between two identifiers of the same
\* kind counts against a pair"; a train number against a line, or a train named again by
\* its own line, stops nothing. Two journeys with equal legs always pass.
NoFalseConflict ==
    Assessed1 =>
        /\ (ridesL = ridesR /\ profile.unresolved = "allow") => verdict.verdict = "same_service"
        /\ \A p \in ToSet(verdict.shared) :
            LET a == verdict.l[p[1]].svc  b == verdict.r[p[2]].svc
                comparable == \/ a.number # None /\ b.number # None
                              \/ a.line # None /\ b.line # None IN
            CompareServices(a, b).answer = "conflict" => comparable

\* Which planner is on the left does not decide: unless M10 left a ride out, the pair has
\* the same verdict and score with the sides exchanged.
SidesAlike ==
    (Assessed1 /\ verdict.l = ridesL /\ verdict.r = ridesR) =>
        \A back \in {Assess(ridesR, ridesL)} :
            back.verdict = verdict.verdict /\ back.score = verdict.score

\* What is not known counts neither for nor against a pair: a pair that agrees in all it
\* can compare has the full score, with or without the names of its operators and trains.
UnknownIsNoEvidence ==
    (Assessed1 /\ verdict.score = 100 /\ ~verdict.exact) =>
        LET unnamed == [number |-> None, line |-> None, category |-> None]
            bare(rides) == [k \in DOMAIN rides |->
                                [rides[k] EXCEPT !.operator = None, !.svc = unnamed]] IN
        \A left0 \in {bare(ridesL)} : Assess(left0, ridesR).score = 100
=============================================================================
