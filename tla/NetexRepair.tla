---------------------------- MODULE NetexRepair -------------------------------
(***************************************************************************)
(* MOTIS's copy of a NeTEx zip: the pass over its members and the repairs  *)
(* of the forms MOTIS drops a file for (_ZipPass in app/netex_calendar.py, *)
(* app/netex_motis_repair.py). MOTIS resolves a reference in the same      *)
(* file, or in a base file; it pairs a course's passing times with its     *)
(* pattern's points by position.                                           *)
(*                                                                         *)
(* A member is what it defines and names. A pattern's id is a pair: the    *)
(* published id and 0, or the number of the copy derived from it.          *)
(***************************************************************************)
EXTENDS Integers, Sequences, FiniteSets, SequencesExt

CONSTANTS
    Zips,    \* published zips: sequences of members
    Absent

\* A file's published ids are told from derived ones; a pattern names each of its
\* points once.
IsList(s) == s \in Seq(Range(s))
IsCourse(c) == DOMAIN c = {"id", "pattern", "line", "refs"} /\ c.pattern = <<c.pattern[1], 0>> /\ IsList(c.refs)
IsPattern(p) ==
    /\ DOMAIN p = {"points", "line", "route"}
    /\ IsList(p.points) /\ \A i, j \in DOMAIN p.points : p.points[i] = p.points[j] => i = j
MemberFields ==
    {"courses", "patterns", "lines", "operators", "dayTypes", "dayTypeRefs", "links",
     "containers", "large", "parents", "sites", "conditions", "framed", "hasFrame"}
IsMember(m) ==
    /\ DOMAIN m = MemberFields
    /\ IsList(m.courses) /\ \A i \in DOMAIN m.courses : IsCourse(m.courses[i])
    /\ \A p \in DOMAIN m.patterns : p = <<p[1], 0>> /\ IsPattern(m.patterns[p])
    /\ \A l \in DOMAIN m.lines : DOMAIN m.lines[l] = {"operator", "given"}

ASSUME ZipAssumption ==
    \A z \in Zips : DOMAIN z = 1..Len(z) /\ Len(z) \in Nat /\ \A i \in DOMAIN z : IsMember(z[i])

VARIABLES
    zip,       \* the zip as published
    seen,      \* members seen so far
    context,   \* what the pass has gathered: homes, foreign, the shared files' ids
    later,      \* places of the members that wait until every other was seen
    copied     \* members written: [place, base, member]

repairVars == <<zip, seen, context, later, copied>>

NoContext == [homes |-> [l \in {} |-> 0], foreign |-> {}, sharedDayTypes |-> {},
              operators |-> {}, sharedOperators |-> {}, operatorsKnown |-> TRUE]

\* The elements of a finite set in the order `before`, a set of pairs.
Ordered(S, before) ==
    [n \in 1..Cardinality(S) |->
        CHOOSE x \in S : Cardinality({y \in S : y = x \/ <<y, x>> \in before}) = n]

RepairInit ==
    /\ zip \in Zips /\ seen = 0 /\ context = NoContext /\ later = <<>> /\ copied = <<>>

-----------------------------------------------------------------------------
(* What a member says *)

Shared(m) == m.courses = <<>>                              \* not has_courses
LineRefs(m) == ({m.courses[i].line : i \in DOMAIN m.courses}
                \cup {m.patterns[p].line : p \in DOMAIN m.patterns}
                \cup {m.patterns[p].route : p \in DOMAIN m.patterns}) \ {Absent}
MissingLines(m) == LineRefs(m) \ DOMAIN m.lines
ForeignDayTypes(m) == m.dayTypeRefs \ m.dayTypes
NeedsZipOperators(m) ==
    \E l \in DOMAIN m.lines : m.lines[l].given = Absent /\ m.lines[l].operator \notin m.operators

-----------------------------------------------------------------------------
(* The repairs, in the order of repair() *)

DropDanglingParents(m) == [m EXCEPT !.parents = @ \cap m.sites]

\* line_copy: the line of the member that defines it, and whether its operator is
\* defined there too.
LineOf(home, l) == [line |-> home.lines[l],
                    withOperator |-> home.lines[l].operator \in home.operators]

\* _place_dependencies: the operator the line names comes with it, unless the file
\* has it; one with nowhere to come from, or to go, is no longer named.
LineCopy(m, home, l) ==
    LET copy == LineOf(home, l)
        comes == copy.withOperator /\ "organisations" \in m.containers
    IN IF copy.line.operator \in m.operators \/ comes THEN copy.line
       ELSE [copy.line EXCEPT !.operator = Absent]

\* _copy_missing_lines, from the member that first defines each.
CopyMissingLines(m, homes) ==
    LET found == IF "lines" \in m.containers THEN MissingLines(m) \cap DOMAIN homes ELSE {}
        copy(l) == LineCopy(m, zip[homes[l]], l)
    IN [m EXCEPT !.lines = [l \in DOMAIN m.lines \cup found |->
                              IF l \in found THEN copy(l) ELSE m.lines[l]],
                 !.operators = @ \cup ({copy(l).operator : l \in found} \ {Absent})]

\* _pattern_line: its route's, else the one most of its courses name (the first of
\* equals), else the only line the file defined itself.
PatternLine(m, p, own) ==
    LET named == {i \in DOMAIN m.courses : m.courses[i].pattern = p /\ m.courses[i].line # Absent}
        votes(i) == Cardinality({j \in named : m.courses[j].line = m.courses[i].line})
        most == CHOOSE i \in named : /\ \A j \in named : votes(j) <= votes(i)
                                     /\ \A j \in named : votes(j) = votes(i) => i <= j
    IN IF m.patterns[p].route # Absent THEN m.patterns[p].route
       ELSE IF named # {} THEN m.courses[most].line
       ELSE IF Cardinality(own) = 1 THEN CHOOSE l \in own : TRUE ELSE Absent

GivePatternsTheirLine(m, own) ==
    [m EXCEPT !.patterns = [p \in DOMAIN m.patterns |->
        IF m.patterns[p].line # Absent THEN m.patterns[p]
        ELSE [m.patterns[p] EXCEPT !.line = PatternLine(m, p, own)]]]

\* _is_subsequence
IsSubsequence(part, whole) ==
    \E f \in [1..Len(part) -> DOMAIN whole] :
        /\ \A i \in DOMAIN part : whole[f[i]] = part[i]
        /\ \A i \in 1..(Len(part) - 1) : f[i] < f[i + 1]

\* _readable_subset
Readable(refs, points) ==
    /\ Absent \notin Range(refs) /\ Len(refs) >= 2
    /\ Cardinality(Range(refs)) = Len(refs) /\ IsSubsequence(refs, points)

\* _course: left alone, refitted or dropped.
CourseVerdict(m, c) ==
    CASE c.pattern \notin DOMAIN m.patterns -> "alone"
      [] c.pattern \in DOMAIN m.patterns ->
            LET points == m.patterns[c.pattern].points IN
            IF c.refs = points /\ Len(c.refs) >= 2 THEN "alone"
            ELSE IF Readable(c.refs, points) THEN "refit" ELSE "drop"

\* The n-th kind of refitted course of its pattern, in the file's order.
DerivedId(m, i) ==
    LET c == m.courses[i]
        kinds == {m.courses[j].refs : j \in {j \in 1..i : m.courses[j].pattern = c.pattern
                                                /\ CourseVerdict(m, m.courses[j]) = "refit"}}
        first(refs) == CHOOSE j \in 1..i : /\ m.courses[j].pattern = c.pattern
                                           /\ m.courses[j].refs = refs
                                           /\ \A k \in 1..(j - 1) : ~(m.courses[k].pattern = c.pattern
                                                                      /\ m.courses[k].refs = refs)
    IN <<c.pattern[1], Cardinality({r \in kinds : first(r) <= first(c.refs)})>>

\* _drop_links
LinksLeft(m, dropped) == {k \in m.links : k \cap dropped = {}}

\* _derive: a copy of the pattern that keeps the points timed, as they follow.
Derived(whole, refs) ==
    LET timed == {n \in DOMAIN whole.points : whole.points[n] \in Range(refs)}
        at == Ordered(timed, {p \in timed \X timed : p[1] < p[2]})
    IN [whole EXCEPT !.points = [n \in 1..Cardinality(timed) |-> whole.points[at[n]]]]

\* _refit_courses; a course keeps its place.
RefitCourses(m) ==
    LET verdict == [i \in DOMAIN m.courses |-> CourseVerdict(m, m.courses[i])]
        refitted == {i \in DOMAIN m.courses : verdict[i] = "refit"}
        dropped == {i \in DOMAIN m.courses : verdict[i] = "drop"}
        derived == {DerivedId(m, i) : i \in refitted}
        kept == [i \in (DOMAIN m.courses) \ dropped |->
                    IF verdict[i] = "refit" THEN [m.courses[i] EXCEPT !.pattern = DerivedId(m, i)]
                    ELSE m.courses[i]]
        of(d) == CHOOSE i \in refitted : DerivedId(m, i) = d
    IN [m EXCEPT !.courses = kept, !.links = LinksLeft(m, {m.courses[i].id : i \in dropped}),
                 !.patterns = [p \in DOMAIN m.patterns \cup derived |->
                    IF p \in derived
                    THEN Derived(m.patterns[m.courses[of(p)].pattern], m.courses[of(p)].refs)
                    ELSE m.patterns[p]]]

\* _copy_conditions: into the calendar frame, where there is one.
CopyConditions(m) ==
    [m EXCEPT !.framed = IF m.hasFrame THEN @ \cup m.conditions ELSE @]

\* OperatorContext: the file's own, and the base files'.
Reachable(m, shared, asBase) == m.operators \cup (IF asBase THEN shared ELSE {})

\* _give_lines_their_operator; _give_lines_their_mode writes into the same lines.
GiveLinesTheirOperator(m, reachable, only) ==
    [m EXCEPT !.lines = [l \in DOMAIN m.lines |->
        LET wants == IF m.lines[l].operator # Absent THEN m.lines[l].operator ELSE only IN
        IF m.lines[l].given = Absent /\ wants \in reachable
        THEN [m.lines[l] EXCEPT !.given = wants] ELSE m.lines[l]]]

Repaired(m, homes, shared, asBase, only) ==
    LET a == CopyConditions(CopyMissingLines(DropDanglingParents(m), homes))
        b == RefitCourses(GivePatternsTheirLine(a, DOMAIN m.lines))
    IN GiveLinesTheirOperator(b, Reachable(b, shared, asBase), only)

-----------------------------------------------------------------------------
(* The pass over the zip *)

Write(place, base, m) == Append(copied, [place |-> place, base |-> base, member |-> m])

\* _scan_member: what a shared file defines, read as a stream.
ScannedInto(ctx, m) == [ctx EXCEPT !.sharedDayTypes = @ \cup m.dayTypes,
                                   !.operators = @ \cup m.operators,
                                   !.sharedOperators = @ \cup m.operators]

\* _large: its calendar alone is rewritten. A line file is written at once and its
\* operators stay unknown; a shared one waits.
SeeLarge ==
    /\ seen < Len(zip) /\ zip[seen + 1].large
    /\ LET m == zip[seen + 1] IN
       IF Shared(m)
       THEN /\ later' = Append(later, seen + 1) /\ UNCHANGED copied
            /\ context' = ScannedInto(context, m)
       ELSE /\ copied' = Write(seen + 1, FALSE, m) /\ UNCHANGED later
            /\ context' = [context EXCEPT !.operatorsKnown = FALSE]
    /\ seen' = seen + 1 /\ UNCHANGED zip

\* A shared file, or one that needs what another file may define, waits.
Waits(m) == Shared(m) \/ MissingLines(m) # {} \/ NeedsZipOperators(m)

\* _whole
SeeWhole ==
    /\ seen < Len(zip) /\ ~zip[seen + 1].large
    /\ LET m == zip[seen + 1]
           homes == [l \in DOMAIN context.homes \cup DOMAIN m.lines |->
                       IF l \in DOMAIN context.homes THEN context.homes[l] ELSE seen + 1]
       IN /\ context' = [context EXCEPT !.homes = homes, !.operators = @ \cup m.operators,
                !.sharedDayTypes = IF Shared(m) THEN @ \cup m.dayTypes ELSE @,
                !.sharedOperators = IF Shared(m) THEN @ \cup m.operators ELSE @,
                !.foreign = IF Shared(m) THEN @ ELSE @ \cup ForeignDayTypes(m)]
          /\ IF Waits(m) THEN later' = Append(later, seen + 1) /\ UNCHANGED copied
             ELSE /\ copied' = Write(seen + 1, FALSE,
                                     Repaired(m, NoContext.homes, {}, FALSE, Absent))
                  /\ UNCHANGED later
    /\ seen' = seen + 1 /\ UNCHANGED zip

\* The shared files become base files when a line file names a day type of theirs.
AsBase == context.foreign \cap context.sharedDayTypes # {}

OnlyOperator ==
    IF context.operatorsKnown /\ Cardinality(context.operators) = 1
    THEN CHOOSE o \in context.operators : TRUE ELSE Absent

\* finish: the members that waited, one after the other.
FinishHeld ==
    /\ seen = Len(zip) /\ later # <<>>
    /\ LET m == zip[Head(later)] IN
       copied' = Write(Head(later), AsBase /\ Shared(m),
            IF m.large THEN m
            ELSE Repaired(m, context.homes, context.sharedOperators, AsBase, OnlyOperator))
    /\ later' = Tail(later)
    /\ UNCHANGED <<zip, seen, context>>

RepairNext == SeeLarge \/ SeeWhole \/ FinishHeld
RepairSpec == RepairInit /\ [][RepairNext]_repairVars

-----------------------------------------------------------------------------
(* Properties *)

CopyDone == seen = Len(zip) /\ later = <<>>
Bases == {copied[k].member : k \in {k \in DOMAIN copied : copied[k].base}}

\* At every step each member seen is written, or waits, once: none is lost between
\* the pass and its end, none is written twice.
MembersOnce ==
    \A i \in 1..Len(zip) :
        Cardinality({k \in DOMAIN copied : copied[k].place = i})
            + Cardinality({k \in DOMAIN later : later[k] = i}) = (IF i <= seen THEN 1 ELSE 0)

CourseIds(m) == {m.courses[i].id : i \in DOMAIN m.courses}

\* No member that was repaired is dropped by MOTIS for what the repairs are for:
\* its courses pair with their patterns, its links name courses it still has, its
\* stops' parents are its own, the lines it names that a whole file of the zip
\* defines are in it, and the day types it names that a shared file defines are in
\* it or in a base file, in whichever order the zip lists its members.
NothingDropped ==
    CopyDone => \A k \in DOMAIN copied : LET m == copied[k].member IN ~m.large =>
        /\ \A i \in DOMAIN m.courses : m.courses[i].pattern \in DOMAIN m.patterns =>
             m.patterns[m.courses[i].pattern].points = m.courses[i].refs
        /\ \A x \in m.links : x \cap CourseIds(zip[copied[k].place]) \subseteq CourseIds(m)
        /\ m.parents \subseteq m.sites
        /\ "lines" \in m.containers =>
             \A l \in MissingLines(m) : \A i \in DOMAIN zip : l \in DOMAIN zip[i].lines => zip[i].large
        /\ ~Shared(zip[copied[k].place]) => \A d \in ForeignDayTypes(m) :
             (\E i \in DOMAIN zip : Shared(zip[i]) /\ d \in zip[i].dayTypes)
                => \E b \in Bases : d \in b.dayTypes

\* A course is dropped only when no pattern can be derived for it; one that stays
\* calls where it was published to call.
CoursesKept ==
    \A k \in DOMAIN copied :
        LET was == zip[copied[k].place]
            now == copied[k].member
        IN \A i \in DOMAIN was.courses : LET c == was.courses[i] IN
            (c.pattern \notin DOMAIN was.patterns
               \/ (c.refs = was.patterns[c.pattern].points /\ Len(c.refs) >= 2)
               \/ Readable(c.refs, was.patterns[c.pattern].points)) =>
              \E j \in DOMAIN now.courses : now.courses[j].id = c.id /\ now.courses[j].refs = c.refs

\* A line is given only an operator MOTIS finds: of its own file, or of a file
\* that was made a base file.
OperatorIsFound ==
    CopyDone => \A k \in DOMAIN copied : \A l \in DOMAIN copied[k].member.lines :
        LET m == copied[k].member
            given == m.lines[l].given
            was == IF l \in DOMAIN zip[copied[k].place].lines
                   THEN zip[copied[k].place].lines[l].given ELSE Absent
        IN (given # Absent /\ given # was /\ ~(\E i \in DOMAIN zip : l \in DOMAIN zip[i].lines
                                               /\ zip[i].lines[l].given = given)) =>
              given \in m.operators \cup UNION {b.operators : b \in Bases}

-----------------------------------------------------------------------------
(***************************************************************************)
(* The rewriting of a NeTEx calendar into the one model MOTIS reads        *)
(* (app/netex_calendar.py): one ServiceCalendarFrame, parsed whole or, when *)
(* it is too large, read as a stream; the days of each day type gathered   *)
(* in a growing array of bytes and written back as one period with bits.   *)
(*                                                                         *)
(* Days are numbers; a weekday is a day modulo Week. The definitions of a  *)
(* frame come before its assignments, the schema's order.                  *)
(***************************************************************************)

CONSTANTS
    Assignments, \* [dt, by, ref, on, order]: the day type, what names its days, and as what
    Frames,     \* published frames: [opDays, periods, weekdays, assigns, large]
    Week,       \* 7
    Epoch,      \* the day an empty period is given
    NoDay       \* no date, no weekday restriction, an unknown reference

\* Dates are days; a definition of a frame may lack one.
IsFrame(f) ==
    /\ f.assigns \in Seq(Assignments)
    /\ \A id \in DOMAIN f.opDays : f.opDays[id] \in Nat
    /\ \A id \in DOMAIN f.periods : /\ f.periods[id].start \in Nat \cup {NoDay}
                                   /\ f.periods[id].end \in Nat \cup {NoDay}

ASSUME CalendarAssumption ==
    /\ Week \in Nat \ {0} /\ Epoch \in Nat /\ NoDay \notin Nat
    /\ \A a \in Assignments : /\ a.by \in {"period", "opDay", "date"} /\ a.order \in Int
                              /\ a.by = "date" => a.ref \in Nat
    /\ Frames # {} /\ \A f \in Frames : IsFrame(f)

VARIABLES
    frame,      \* the frame as published
    calPc,      \* "read", "apply", "done"
    queue,      \* assignments still to read, or to apply
    daysOf,     \* day type -> _DayBits, [base, days]
    tally,      \* what note and the stream's scan count
    written     \* what was written: [as: "nothing" yet, "published", "malformed" or
                \* "converted", periods: day type -> period]

calendarVars == <<frame, calPc, queue, daysOf, tally, written>>

-----------------------------------------------------------------------------
(* _DayBits: one byte per day, from day base *)

Zeros(n) == [i \in 1..n |-> 0]

\* _DayBits.set
SetDay(b, day, on) ==
    LET i == day - b.base IN
    IF b.days = <<>> THEN IF on THEN [base |-> day, days |-> <<1>>] ELSE b
    ELSE IF i \in 0..(Len(b.days) - 1)
         THEN [b EXCEPT !.days[i + 1] = IF on THEN 1 ELSE 0]
    ELSE IF ~on THEN b
    ELSE IF i < 0 THEN [base |-> day, days |-> <<1>> \o Zeros(-i - 1) \o b.days]
    ELSE [b EXCEPT !.days = @ \o Zeros(i - Len(@)) \o <<1>>]

\* apply: one day after the other.
SetDays(b, days, on) ==
    LET listed == Ordered(days, {p \in days \X days : p[1] < p[2]})
        upTo[n \in 0..Cardinality(days)] ==
            IF n = 0 THEN b ELSE SetDay(upTo[n - 1], listed[n], on)
    IN upTo[Cardinality(days)]

DaysIn(b) == {b.base + i - 1 : i \in {i \in DOMAIN b.days : b.days[i] = 1}}

\* span: the first day it runs and the bits from it to the last; a day type that
\* never runs gets one day without service.
Span(b) ==
    IF DaysIn(b) = {} THEN [first |-> Epoch, bits |-> <<0>>]
    ELSE LET f == CHOOSE d \in DaysIn(b) : \A e \in DaysIn(b) : d <= e
             l == CHOOSE d \in DaysIn(b) : \A e \in DaysIn(b) : d >= e
         IN [first |-> f, bits |-> SubSeq(b.days, f - b.base + 1, l - b.base + 1)]

-----------------------------------------------------------------------------
(* What an assignment names *)

KnownIn(f, id) == IF id \in DOMAIN f THEN f[id] ELSE NoDay

\* _period_days: NoDay when a bound is unknown or they are the wrong way round.
PeriodDays(id) ==
    LET p == KnownIn(frame.periods, id)
        start == IF p.start # NoDay THEN p.start ELSE KnownIn(frame.opDays, p.fromDay)
        end   == IF p.end # NoDay THEN p.end ELSE KnownIn(frame.opDays, p.toDay)
    IN IF p = NoDay THEN NoDay
       ELSE IF start = NoDay \/ end = NoDay THEN NoDay
       ELSE IF end < start THEN NoDay
       ELSE {d \in start..end : p.bits # <<>> =>
                d - start + 1 \in DOMAIN p.bits /\ p.bits[d - start + 1] # 0}

\* _assignment_days: a period narrowed by the day type's weekdays, or one day.
AssignmentDays(a) ==
    CASE a.by = "period" ->
            LET days == PeriodDays(a.ref)
                allowed == KnownIn(frame.weekdays, a.dt)
            IN IF days = NoDay \/ allowed = NoDay THEN days
               ELSE {d \in days : d % Week \in allowed}
      [] a.by = "opDay" ->
            IF KnownIn(frame.opDays, a.ref) = NoDay THEN NoDay ELSE {frame.opDays[a.ref]}
      [] a.by = "date" -> {a.ref}

\* apply: the days of an assignment, in their order; an unknown reference is counted.
ApplyTo(days, a) ==
    LET named == AssignmentDays(a)
        old == IF a.dt \in DOMAIN days THEN days[a.dt] ELSE [base |-> 0, days |-> <<>>]
    IN IF named = NoDay THEN days
       ELSE [dt \in DOMAIN days \cup {a.dt} |->
               IF dt = a.dt THEN SetDays(old, named, a.on) ELSE days[dt]]
Unresolved(a) == IF AssignmentDays(a) = NoDay THEN 1 ELSE 0

-----------------------------------------------------------------------------
(* The frame *)

CalendarNew ==
    /\ calPc = "read" /\ queue = frame.assigns
    /\ daysOf = [dt \in {} |-> NoDay]
    /\ written = [as |-> "nothing", periods |-> [dt \in {} |-> NoDay]]
    /\ tally = [byOpDay |-> FALSE, periodRefs |-> {}, dated |-> {}, unresolved |-> 0,
                outOfOrder |-> 0, lastOrder |-> [dt \in {} |-> 0]]
CalendarInit == frame \in Frames /\ CalendarNew

\* Mutant: the order of a streamed frame is not looked at.
DisorderNever(a) == 0

\* _scan: listed before one of a lower order of the same day type.
Disorder(a) ==
    IF a.dt \in DOMAIN tally.lastOrder /\ a.order < tally.lastOrder[a.dt] THEN 1 ELSE 0

\* note, and in a stream what _scan counts and apply.
Noted(a) ==
    [byOpDay    |-> tally.byOpDay \/ a.by = "opDay",
     periodRefs |-> tally.periodRefs \cup (IF a.by = "period" THEN {<<a.dt, a.ref>>} ELSE {}),
     dated      |-> tally.dated \cup (IF a.by = "date" THEN {a.dt} ELSE {}),
     unresolved |-> tally.unresolved + (IF frame.large THEN Unresolved(a) ELSE 0),
     outOfOrder |-> tally.outOfOrder + (IF frame.large THEN Disorder(a) ELSE 0),
     lastOrder  |-> IF frame.large THEN [dt \in DOMAIN tally.lastOrder \cup {a.dt} |->
                        IF dt = a.dt THEN a.order ELSE tally.lastOrder[dt]]
                    ELSE tally.lastOrder]

ReadAssignment ==
    /\ calPc = "read" /\ queue # <<>>
    /\ tally' = Noted(Head(queue)) /\ queue' = Tail(queue)
    /\ daysOf' = IF frame.large THEN ApplyTo(daysOf, Head(queue)) ELSE daysOf
    /\ UNCHANGED <<frame, calPc, written>>

\* needs_conversion
NeedsConversion ==
    \/ tally.byOpDay
    \/ \E r \in tally.periodRefs : r[2] \in DOMAIN frame.periods /\ ~frame.periods[r[2]].uic
    \/ /\ \A r \in tally.periodRefs : r[2] \in DOMAIN frame.periods
       /\ \E r \in tally.periodRefs : r[1] \in tally.dated

\* By order; of equals as listed.
Sorted(as) ==
    LET before == {p \in (DOMAIN as) \X (DOMAIN as) :
                     \/ as[p[1]].order < as[p[2]].order
                     \/ as[p[1]].order = as[p[2]].order /\ p[1] < p[2]}
        places == Ordered(DOMAIN as, before)
    IN [k \in 1..Len(as) |-> as[places[k]]]

WrittenAs(how) == [as |-> how, periods |-> [dt \in {} |-> NoDay]]

\* render: one period, and one assignment, for each day type defined or assigned.
Rendered(days) ==
    [dt \in DOMAIN frame.weekdays \cup DOMAIN days |->
        Span(IF dt \in DOMAIN days THEN days[dt] ELSE [base |-> 0, days |-> <<>>])]

\* convert_frame, _convert_spooled, once the frame is read: it is left as
\* published, or, read whole, its assignments are sorted and applied.
Decide ==
    /\ calPc = "read" /\ queue = <<>>
    /\ IF ~NeedsConversion
       THEN calPc' = "done" /\ written' = WrittenAs("published") /\ UNCHANGED queue
       ELSE IF frame.large
       THEN calPc' = "done" /\ written' = [as |-> "converted", periods |-> Rendered(daysOf)] /\ UNCHANGED queue
       ELSE calPc' = "apply" /\ queue' = Sorted(frame.assigns) /\ UNCHANGED written
    /\ UNCHANGED <<frame, daysOf, tally>>

Apply ==
    /\ calPc = "apply" /\ queue # <<>>
    /\ daysOf' = ApplyTo(daysOf, Head(queue)) /\ queue' = Tail(queue)
    /\ tally' = [tally EXCEPT !.unresolved = @ + Unresolved(Head(queue))]
    /\ UNCHANGED <<frame, calPc, written>>

\* _write_converted
WriteConverted ==
    /\ calPc = "apply" /\ queue = <<>>
    /\ calPc' = "done" /\ written' = [as |-> "converted", periods |-> Rendered(daysOf)]
    /\ UNCHANGED <<frame, queue, daysOf, tally>>

\* A frame that is not well formed, a truncated one, or one whose block does not
\* end, is left as published.
LeaveMalformed ==
    /\ calPc = "read" /\ queue = <<>>
    /\ calPc' = "done" /\ written' = WrittenAs("malformed")
    /\ UNCHANGED <<frame, queue, daysOf, tally>>

CalendarNext == ReadAssignment \/ Decide \/ Apply \/ WriteConverted \/ LeaveMalformed
CalendarSpec == CalendarInit /\ [][CalendarNext]_calendarVars

-----------------------------------------------------------------------------
(* Properties *)

\* What a run of assignments says: a day runs when the last to name it gives it.
Meaning(as, dt) ==
    LET names(i, d) == as[i].dt = dt /\ AssignmentDays(as[i]) # NoDay
                         /\ d \in AssignmentDays(as[i])
        all == UNION {AssignmentDays(as[i]) :
                  i \in {i \in DOMAIN as : as[i].dt = dt /\ AssignmentDays(as[i]) # NoDay}}
    IN {d \in all : \E i \in DOMAIN as : /\ names(i, d) /\ as[i].on
                                         /\ \A j \in DOMAIN as : j > i => ~names(j, d)}

Applied ==
    IF frame.large THEN SubSeq(frame.assigns, 1, Len(frame.assigns) - Len(queue))
    ELSE IF calPc = "apply"
    THEN SubSeq(Sorted(frame.assigns), 1, Len(frame.assigns) - Len(queue)) ELSE <<>>

\* However the array of a day type has grown, to either side and by assignments
\* that give days and take them, it holds the days the assignments applied so far
\* say, and no other.
DaysExact ==
    calPc # "done" => \A dt \in DOMAIN daysOf : DaysIn(daysOf[dt]) = Meaning(Applied, dt)

ReadBack(p) == {p.first + i - 1 : i \in {i \in DOMAIN p.bits : p.bits[i] = 1}}

\* What MOTIS reads in a rewritten frame, one period's bits for each day type, is
\* the days the published calendar says in its order, unless the scan of a large
\* frame counted an assignment out of order.
RewriteIsExact ==
    (written.as = "converted" /\ tally.outOfOrder = 0) =>
        \A dt \in DOMAIN written.periods :
            ReadBack(written.periods[dt]) = Meaning(Sorted(frame.assigns), dt)

\* MOTIS's reading of a published frame: the first assignment of a day type, by a
\* period with bits; anything else it misreads.
FirstOf(dt) == CHOOSE i \in DOMAIN frame.assigns : frame.assigns[i].dt = dt
                 /\ \A j \in 1..(i - 1) : frame.assigns[j].dt # dt
MotisReads(dt) ==
    LET a == frame.assigns[FirstOf(dt)] IN
    IF a.by = "period" /\ KnownIn(frame.periods, a.ref) # NoDay
    THEN IF frame.periods[a.ref].uic THEN PeriodDays(a.ref) ELSE NoDay
    ELSE NoDay

\* A frame is left as published only where MOTIS reads it right: a day type given
\* one period of this frame, and perhaps single dates, has the days MOTIS reads,
\* when no period is named that another file defines.
LeftAloneIsRead ==
    (calPc = "done" /\ written.as = "published"
       /\ \A i \in DOMAIN frame.assigns : frame.assigns[i].by = "period" =>
            frame.assigns[i].ref \in DOMAIN frame.periods) =>
        \A dt \in {frame.assigns[i].dt : i \in DOMAIN frame.assigns} :
            LET mine == {i \in DOMAIN frame.assigns : frame.assigns[i].dt = dt} IN
            (/\ Cardinality({i \in mine : frame.assigns[i].by = "period"}) = 1
             /\ \A i \in mine : frame.assigns[i].on
             /\ KnownIn(frame.weekdays, dt) = NoDay) =>
               MotisReads(dt) = Meaning(Sorted(frame.assigns), dt)
=============================================================================
