---------------------------- MODULE ReferencePages ----------------------------
(***************************************************************************)
(* The reference planners of a journey search, page by page                *)
(* (app/journey/hafas_client.py, ojp_client.py, trip_normalize.py and      *)
(* their callers in app/api/journey.py). A planner answers the next few    *)
(* trips from an anchor, not a span of time: the client moves the anchor   *)
(* past the last departure until the window is covered, and the OEBB's     *)
(* trips are then clipped to what VIATOR's own search showed.              *)
(*                                                                         *)
(* Time is in minutes. A trip has a departure (of its walk), which may be  *)
(* unreadable, a boarding and a fingerprint (0 for a walk, which has       *)
(* none). The OEBB client makes two calls per page, each of which may take *)
(* the page's timeout, and has a budget for all its pages.                 *)
(***************************************************************************)
EXTENDS Integers, Sequences, SequencesExt, FiniteSetsExt

CONSTANTS
    Timetables,     \* sets of trips [dep, clear, board, fp]
    ViatorResults,  \* sets of VIATOR's journeys [dep, board]
    PageSize,       \* trips a planner answers
    MaxPages,       \* max_pages
    TargetWindow,   \* target_window_seconds
    PageTimeout,    \* timeout_ms
    TotalTimeout,   \* total_timeout_ms
    MinPageBudget,  \* _MIN_PAGE_BUDGET_MS
    Nothing

\* A fingerprint is that of one trip (transit_fingerprint); a walk has none.
IsTimetable(trips) ==
    /\ \A t \in trips : t.dep \in Nat /\ t.clear \in BOOLEAN /\ t.board \in Nat \cup {Nothing}
    /\ \A t, u \in trips : (t.fp = u.fp /\ t.fp # 0) => t = u

ASSUME PagesAssumption ==
    /\ {PageSize, MaxPages, PageTimeout, MinPageBudget} \subseteq Nat \ {0}
    /\ TotalTimeout \in Nat /\ TotalTimeout >= 2 * PageTimeout /\ MinPageBudget <= PageTimeout
    /\ TargetWindow \in Nat /\ Nothing \notin Nat
    /\ \A trips \in Timetables : IsTimetable(trips)
    /\ \A journeys \in ViatorResults :
         IsFiniteSet(journeys) /\ \A j \in journeys : j.board \in Nat

VARIABLES
    timetable,  \* the trips there are
    paging,     \* the client's call: anchor, trips so far, fingerprints seen, ...
    reference   \* what the search answers of the reference

pagesVars == <<timetable, paging, reference>>

PagesInit ==
    /\ timetable \in Timetables
    /\ \E c \in {"hafas", "ojp"} :
         paging = [client |-> c, at |-> "page", anchor |-> 0, trips |-> <<>>, seen |-> {},
                   pages |-> 0, spent |-> 0, first |-> Nothing, partial |-> FALSE, budget |-> FALSE,
                   garbled |-> FALSE]
    /\ reference = Nothing

-----------------------------------------------------------------------------
(* A page *)

\* The planner's answer: the next trips from the anchor, those of one minute in any order;
\* some list the one before it too.
Batches(anchor) ==
    LET later == {t \in timetable : t.dep >= anchor}
        before == {t \in timetable \ later : \A u \in timetable \ later : u.dep <= t.dep}
        next == {s \in UNION {[1..n -> later] : n \in 0..PageSize} :
                   /\ \A i, k \in DOMAIN s : i < k => s[i] # s[k] /\ s[i].dep <= s[k].dep
                   /\ \A t \in later \ Range(s) :
                        Len(s) = PageSize /\ \A i \in DOMAIN s : s[i].dep <= t.dep}
    IN next \cup UNION {{<<t>> \o s : s \in next} : t \in before}

\* _page_timeout_or_none: the first page always runs, a later one within what is left.
PageBudget(p) ==
    LET remaining == TotalTimeout - p.spent
    IN IF p.pages > 0 /\ remaining < MinPageBudget THEN Nothing
       ELSE Max({MinPageBudget, Min({PageTimeout, remaining})})

\* The entries of a list at some places, in their order (a comprehension with a condition).
Picked(list, kept) ==
    LET rank(i) == Cardinality({k \in kept : k <= i})
    IN [n \in 1..Cardinality(kept) |-> list[CHOOSE i \in kept : rank(i) = n]]

\* Mutant: the first trip of a later page is taken for the last of the page before.
FreshAfterFirst(batch, seen) ==
    SelectSeq(IF seen # {} /\ Len(batch) > 1 THEN Tail(batch) ELSE batch,
              LAMBDA t : t.fp = 0 \/ t.fp \notin seen)

\* dedup_batch_and_track_latest_dep: trips seen neither on an earlier page nor before on this
\* one; a walk always is new.
FreshTrips(batch, seen) ==
    Picked(batch, {i \in DOMAIN batch :
                     \/ batch[i].fp = 0
                     \/ /\ batch[i].fp \notin seen
                        /\ \A k \in 1..(i - 1) : batch[k].fp # batch[i].fp})

\* next_anchor_or_none: a minute after the latest departure that can be read, until the
\* window is covered.
NextAnchor(batch) ==
    LET read == {t.dep : t \in {u \in Range(batch) : u.clear}}
    IN IF read = {} THEN Nothing ELSE IF Max(read) >= TargetWindow THEN Nothing ELSE Max(read) + 1

\* fetch_plan_paginated and fetch_reference_paginated: what a page brings.
Paged(p, batch) ==
    LET new == FreshTrips(batch, p.seen)
        q == [p EXCEPT !.first = IF p.pages = 1 THEN "ok" ELSE p.first,
                       !.trips = p.trips \o new,
                       !.seen = p.seen \cup ({t.fp : t \in Range(new)} \ {0})]
    IN IF batch = <<>> THEN [p EXCEPT !.at = "told", !.first = IF p.pages = 1 THEN "no_route" ELSE p.first]
       ELSE IF new = <<>> \/ NextAnchor(batch) = Nothing \/ p.pages = MaxPages THEN [q EXCEPT !.at = "told"]
       ELSE [q EXCEPT !.anchor = NextAnchor(batch)]

\* _page_error_or_none and _fetch_one_page: what there is is kept; the OEBB client says that
\* it is not all.
PageFailed(p) ==
    [p EXCEPT !.at = "told",
              !.first = IF p.pages = 1 THEN "error" ELSE p.first,
              !.partial = p.client = "hafas" /\ p.trips # <<>>]

\* One page, if there is budget for it: it fails, is answered, or is answered by a body the
\* adapter reads no trip from, which is taken for an answer without trips.
FetchPage ==
    /\ paging.at = "page"
    /\ LET timed == paging.client = "hafas"
           budget == IF timed THEN PageBudget(paging) ELSE PageTimeout
       IN \/ /\ budget = Nothing
             /\ paging' = [paging EXCEPT !.at = "told", !.budget = TRUE]
          \/ /\ budget # Nothing
             /\ \E took \in (IF timed THEN 0..(2 * budget) ELSE {0}) :
                  LET p == [paging EXCEPT !.pages = @ + 1, !.spent = @ + took]
                  IN \/ paging' = PageFailed(p)
                     \/ paging' = [Paged(p, <<>>) EXCEPT !.garbled = TRUE]
                     \/ \E batch \in Batches(paging.anchor) : paging' = Paged(p, batch)
    /\ UNCHANGED <<timetable, reference>>

-----------------------------------------------------------------------------
(* What the search answers *)

\* _paginated_raw: trips make it "ok"; without any it is what the first page said.
ReferenceStatus(p) == IF p.trips # <<>> THEN "ok" ELSE p.first

\* renumbered: ids unique in the union of the pages.
Renumbered(trips) == [i \in DOMAIN trips |-> [trip |-> trips[i], id |-> i - 1]]

\* _latest_boarding_ts over the slots' best journeys
LatestBoarding(journeys) == IF journeys = {} THEN Nothing ELSE Max({j.board : j \in journeys})

\* _truncate_hafas_to_viator_window: the OEBB's trips up to VIATOR's last boarding.
Clipped(trips, journeys) ==
    LET latest == LatestBoarding(journeys)
    IN Picked(trips, {i \in DOMAIN trips :
                 latest = Nothing \/ trips[i].trip.board = Nothing \/ trips[i].trip.board <= latest})

\* _query_ojp_reference: OJP's trips as they are.
TellOjp ==
    /\ paging.at = "told" /\ reference = Nothing /\ paging.client = "ojp"
    /\ \E journeys \in ViatorResults :
         reference' = [status |-> ReferenceStatus(paging), viator |-> journeys,
                       trips |-> Renumbered(paging.trips), partial |-> FALSE]
    /\ UNCHANGED <<timetable, paging>>

\* _query_hafas_reference, and the clip once VIATOR's own journeys are there.
TellHafas ==
    /\ paging.at = "told" /\ reference = Nothing /\ paging.client = "hafas"
    /\ \E journeys \in ViatorResults :
         reference' = [status |-> ReferenceStatus(paging), viator |-> journeys,
                       trips |-> Clipped(Renumbered(paging.trips), journeys),
                       partial |-> paging.partial]
    /\ UNCHANGED <<timetable, paging>>

PagesNext == FetchPage \/ TellOjp \/ TellHafas

PagesSpec == PagesInit /\ [][PagesNext]_pagesVars

-----------------------------------------------------------------------------
(* Properties *)

Collected == Range(paging.trips)
Missed == {t \in timetable : t.dep < TargetWindow} \ Collected
MissedAtEnd == {t \in Missed : \A u \in Collected : u.dep < t.dep}

\* The pages leave no hole (next_anchor_or_none): a trip that departs before the last one
\* collected is collected too, whatever pages were repeated, failed or cut short, unless it
\* departs in the very minute of another, where a page may end between the two.
NothingSkipped ==
    \A t \in Missed, u \in Collected :
        t.dep < u.dep => \E v \in Collected : v.dep = t.dep

\* A trip is collected once (fetch_plan_paginated), and the ids of the union, by which the page
\* finds a trip again, are those of one trip each (renumbered).
TripsAppearOnce ==
    /\ \A i, j \in DOMAIN paging.trips :
         (i # j /\ paging.trips[i].fp # 0) => paging.trips[i].fp # paging.trips[j].fp
    /\ reference # Nothing => \A i, j \in DOMAIN reference.trips :
         i # j => reference.trips[i].id # reference.trips[j].id

\* The OEBB client says when its trips are short of the window (_page_error_or_none): trips
\* are missing at the end only if it tells so, or spent its budget or its pages, or an answer
\* or a departure could not be read.
ShortIsTold ==
    (paging.at = "told" /\ paging.client = "hafas" /\ paging.trips # <<>> /\ MissedAtEnd # {}) =>
        \/ paging.partial \/ paging.budget \/ paging.pages = MaxPages \/ paging.garbled
        \/ \E u \in Collected : ~u.clear

\* The budget of all pages (_page_timeout_or_none) holds up to one call's timeout, however
\* slow each page is: the last page makes two calls, and both may take what was left.
SpentIsBounded == paging.spent <= TotalTimeout + PageTimeout

\* The clip is fair (_truncate_hafas_to_viator_window): a train that VIATOR itself shows is
\* never clipped from the OEBB's side, however the two sides' walks to it differ.
SharedTrainShown ==
    (reference # Nothing /\ paging.client = "hafas") =>
        \A i \in DOMAIN paging.trips :
            (\E j \in reference.viator : j.board = paging.trips[i].board) =>
                \E k \in DOMAIN reference.trips : reference.trips[k].trip = paging.trips[i]
=============================================================================
