---------------------------- MODULE CoverageWindow ----------------------------
(***************************************************************************)
(* The day and the window a coverage run searches: its request, the day    *)
(* anchored on its departure when it is created, the window and the slots  *)
(* composed when it is first executed, and the check made when it is shown *)
(* (app/network_coverage/runner.py, the run routes of                      *)
(* app/api/admin/network_coverage.py). A day has Day ticks; a zone changes *)
(* its offset once, at the instant Change.                                 *)
(***************************************************************************)
EXTENDS Integers, FiniteSets

CONSTANTS
    Day, Days,          \* ticks of a day, the days of the model
    Change,             \* the instant a zone changes its offset
    OffsetOf,           \* zone -> <<offset before, offset after>>; "UTC" is one
    Bounds,             \* wall-clock bounds a request or the settings may give
    Defaults,           \* settings: [start, end, zone]
    SlotCounts,         \* COVERAGE_SLOTS values, zero included
    Null                \* a column left empty

\* '24:00'
EndOfDay == Day

ASSUME WindowAssumption ==
    /\ Day \in Nat \ {0} /\ Days \subseteq Nat /\ Change \in Nat /\ Bounds \subseteq 0..(Day - 1)
    /\ SlotCounts \subseteq Nat
    /\ OffsetOf \in [DOMAIN OffsetOf -> Int \X Int]
    /\ "UTC" \in DOMAIN OffsetOf /\ OffsetOf["UTC"] = <<0, 0>>
    /\ Defaults # {}
    /\ \A d \in Defaults : d.start \in Bounds /\ d.end \in Bounds \cup {EndOfDay}
    /\ Null \notin Int

VARIABLES
    settings,   \* the platform's defaults
    covRun,     \* the run row, or Null
    grid,       \* the window it searches, or Null before its first execution
    edited      \* the settings changed since the run was created

windowVars == <<settings, covRun, grid, edited>>

----------------------------------------------------------------------------
\* Wall clocks and instants. An ambiguous wall clock is its first occurrence, and one that
\* is skipped keeps the offset before (datetime's fold = 0).

ToLocal(zone, u) == u + (IF u < Change THEN OffsetOf[zone][1] ELSE OffsetOf[zone][2])

ToUtc(zone, w) ==
    LET before == OffsetOf[zone][1]  after == OffsetOf[zone][2]
        wall == Change + (IF before > after THEN before ELSE after) IN
    IF w < wall THEN w - before ELSE w - after

\* An instant whose wall clock comes twice, the second time.
Repeated(zone, u) == ToUtc(zone, ToLocal(zone, u)) # u

\* A wall clock the zone skips.
Skipped(zone, w) == ToLocal(zone, ToUtc(zone, w)) # w

\* _resolve_timezone: the run's zone, else the default, UTC for a name nobody knows.
ZoneOf(row, cfg) ==
    LET name == IF row.zone = Null THEN cfg.zone ELSE row.zone IN
    IF name \in DOMAIN OffsetOf THEN name ELSE "UTC"

\* _hhmm_to_time: what the API stores of a bound.
Stored(b) == IF b = EndOfDay THEN 0 ELSE b

\* _window_bounds_minutes and _parse_hhmm; `over` when the window ends on the next day,
\* `crosses` when its end is a wall clock of that day.
BoundsMinutes(row, cfg) ==
    LET s == IF row.start = Null THEN cfg.start ELSE row.start
        e == IF row.end = Null THEN cfg.end ELSE row.end
        crosses == e # EndOfDay /\ e <= s IN
    [start |-> s, end |-> IF e = EndOfDay THEN 0 ELSE e,
     over |-> e = EndOfDay \/ crosses, crosses |-> crosses]

\* _anchor_reference_date
Anchor(row, cfg, departAt) ==
    LET b == BoundsMinutes(row, cfg)
        w == ToLocal(ZoneOf(row, cfg), departAt) IN
    IF b.crosses /\ w % Day < b.end THEN (w \div Day) - 1 ELSE w \div Day

\* _resolve_run_window
WindowOn(row, cfg, day) ==
    LET b == BoundsMinutes(row, cfg)  zone == ZoneOf(row, cfg) IN
    [start |-> ToUtc(zone, day * Day + b.start),
     end |-> ToUtc(zone, (IF b.over THEN day + 1 ELSE day) * Day + b.end)]

Inside(u, w) == w.start <= u /\ u < w.end

\* _slot_boundaries, in k-ths of a tick.
SlotBoundaries(w, n) ==
    LET k == IF n < 1 THEN 1 ELSE n IN
    [i \in 1..(k + 1) |-> k * w.start + (i - 1) * (w.end - w.start)]

----------------------------------------------------------------------------
WindowInit == settings \in Defaults /\ covRun = Null /\ grid = Null /\ edited = FALSE

\* POST /runs, the window part: a departure without an offset is a wall clock of the run's
\* zone; a reference date that is not the anchor is a 400.
CreateWindow(start, end, zone, when, naive, given) ==
    LET row == [start |-> Stored(start), end |-> Stored(end), zone |-> zone]
        departAt == IF naive THEN ToUtc(ZoneOf(row, settings), when) ELSE when
        day == Anchor(row, settings, departAt) IN
    /\ given \in {Null, day}
    /\ covRun' = [asked |-> [start |-> start, end |-> end, zone |-> zone], row |-> row,
                  departAt |-> departAt, reference |-> day]
    /\ UNCHANGED <<settings, grid, edited>>

\* An administrator saves other defaults.
EditSettings(cfg) ==
    /\ covRun # Null /\ cfg # settings /\ ~edited
    /\ settings' = cfg /\ edited' = TRUE /\ UNCHANGED <<covRun, grid>>

\* _phase1_snapshot_and_start: the settings of the first execution are frozen.
FreezeWindow(n) ==
    /\ covRun # Null /\ grid = Null
    /\ grid' = [window |-> WindowOn(covRun.row, settings, covRun.reference),
                slots |-> SlotBoundaries(WindowOn(covRun.row, settings, covRun.reference), n),
                cfg |-> settings]
    /\ UNCHANGED <<settings, covRun, edited>>

\* _comparable_depart_at: the departure the run's trips are held against when it is shown.
ComparableDay(row, cfg) == row.reference = Anchor(row.row, cfg, row.departAt)

WindowNext ==
    \/ /\ covRun = Null
       /\ \E start \in Bounds \cup {Null}, end \in Bounds \cup {Null, EndOfDay},
             zone \in (DOMAIN OffsetOf) \cup {Null}, when \in Days \X (0..(Day - 1)),
             naive \in BOOLEAN, given \in Days \cup {Null} :
               CreateWindow(start, end, zone, when[1] * Day + when[2], naive, given)
    \/ \E cfg \in Defaults : EditSettings(cfg)
    \/ \E n \in SlotCounts : FreezeWindow(n)

WindowSpec == WindowInit /\ [][WindowNext]_windowVars

----------------------------------------------------------------------------
\* A bound the row left empty follows the settings; the others are the run's own.
Own(row) == Null \notin {row.start, row.end, row.zone}

\* A bound of the windows around the change is a wall clock the zone skips.
OnSkippedClock(row, cfg) ==
    LET b == BoundsMinutes(row, cfg)  offset == OffsetOf[ZoneOf(row, cfg)] IN
    \E day \in ((Change + offset[1]) \div Day)..((Change + offset[2]) \div Day),
       w \in {b.start, b.end} : Skipped(ZoneOf(row, cfg), day * Day + w)

\* The grid that is searched is the day's that the departure names: it holds the departure
\* whenever some day's window does. (A departure the clock shows twice, the second time,
\* and a bound the clock skips may fall in the next day's; and settings edited between the request and the first
\* execution move the bounds the run left empty.)
GridHoldsDeparture ==
    (grid # Null /\ (Own(covRun.row) \/ ~edited)) =>
        LET zone == ZoneOf(covRun.row, grid.cfg) IN
        (/\ ~Repeated(zone, covRun.departAt) /\ ~OnSkippedClock(covRun.row, grid.cfg)
         /\ \E d \in -1..6 : Inside(covRun.departAt, WindowOn(covRun.row, grid.cfg, d)))
            => Inside(covRun.departAt, grid.window)

\* '24:00' is stored as 00:00: the window searched is the one asked for.
AskedIsSearched ==
    grid # Null => grid.window = WindowOn(covRun.asked, grid.cfg, covRun.reference)

\* The slots cover the window without a gap or an overlap, whatever their number and
\* whatever the clock change makes of its length; no window is empty or turned around,
\* unless a bound of it is a wall clock the zone skips.
SlotsCoverWindow ==
    grid # Null =>
        LET k == Cardinality(DOMAIN grid.slots) - 1  w == grid.window IN
        /\ grid.slots[1] = k * w.start /\ grid.slots[k + 1] = k * w.end
        /\ ~OnSkippedClock(covRun.row, grid.cfg) =>
                \A i \in 1..k : grid.slots[i] < grid.slots[i + 1]

\* A run is never told to be of the wrong day while the settings it was created under hold,
\* nor ever when its bounds and zone are its own: its trips stay comparable.
ComparableStays ==
    (covRun # Null /\ (Own(covRun.row) \/ ~edited)) => ComparableDay(covRun, settings)
=============================================================================
