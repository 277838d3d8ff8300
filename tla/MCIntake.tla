------------------------------- MODULE MCIntake -------------------------------
(***************************************************************************)
(* Model-checking instance of what handles a session's files: a download,  *)
(* the slots, the graphs, the OSM file; and, over every input of a bounded *)
(* set each, the cross-border filter, the NeTEx calendar and repair, and   *)
(* the feed resolvers. They share no variable: a behaviour runs one of     *)
(* them, `part`, and leaves the others at rest.                            *)
(***************************************************************************)
EXTENDS FeedDownload, FeedIntake, GraphStore, OsmRefresh, CrossBorderFilter,
        NetexRepair, TLC

CONSTANTS f1, u1

VARIABLE part

fileVars == <<downloadVars, intakeVars, storeVars, osmVars>>
feedVars == <<filterVars, calendarVars, repairVars, resolverVars>>
allVars == <<part, fileVars, feedVars>>

MCLength == <<2, 3>>

-----------------------------------------------------------------------------
(* Feeds of four stops with codes, points and parents, and three trips *)

StopRow(land, code, point, parent) ==
    [land |-> land, code |-> code, point |-> point, parent |-> parent]
MCStops ==
    {("f" :> f) @@ ("q" :> q) @@ ("c" :> c) @@ ("e" :> e) :
        f \in {StopRow("FR", "FR", Nil, Nil), StopRow("FR", Nil, "FR", Nil)},
        q \in {StopRow("FR", Nil, Nil, "f"), StopRow("FR", "internal", Nil, "f")},
        c \in {StopRow("CH", "CH", "CH", Nil), StopRow("CH", "internal", "CH", Nil)},
        e \in {StopRow("FR", "internal", "FR", Nil), StopRow("FR", Nil, "FR", Nil)}}
CallsOf(t, stops, seqs) ==
    [i \in 1..Len(stops) |-> [trip |-> t, stop |-> stops[i], seq |-> seqs[i]]]
MCPaths == {<<"q", "c">>, <<"c", "f">>, <<"q", "e">>, <<"f", "e", "c">>}
MCFeeds ==
    {[railOnly |-> o, stops |-> s,
      routes |-> ("r" :> [rail |-> TRUE, agency |-> "a"]) @@ ("b" :> [rail |-> b, agency |-> Nil]),
      trips |-> ("t" :> [route |-> "r", service |-> "w"]) @@ ("u" :> [route |-> "r", service |-> "x"])
                  @@ ("v" :> [route |-> "b", service |-> "w"]),
      calls |-> CallsOf("t", p, <<1, 2, 3>>) \o CallsOf("u", p2, <<3, 2, 1>>)
                  \o CallsOf("v", p3, <<1, 2, 2>>),
      agencies |-> {"a", "z"}, services |-> {"w", "x"},
      transfers |-> {[from |-> "f", to |-> "c", trip |-> Nil],
                     [from |-> "q", to |-> "f", trip |-> "u"]}] :
        o \in BOOLEAN, s \in MCStops, b \in BOOLEAN, p, p2, p3 \in MCPaths}

(* Frames: a period (1), a UIC period (2) and a reversed one (3), an operating day (7); up *)
(* to three assignments, some to ids that are not there (0, 4)                             *)

Assign(dt, by, ref, on, order) == [dt |-> dt, by |-> by, ref |-> ref, on |-> on, order |-> order]
PeriodOf(start, end, toDay, bits, uic) ==
    [start |-> start, end |-> end, fromDay |-> 0, toDay |-> toDay, bits |-> bits, uic |-> uic]
MCPeriods ==
    (1 :> PeriodOf(3, NoDay, 7, <<>>, FALSE)) @@ (2 :> PeriodOf(2, 4, 0, <<1, 0, 1, 1>>, TRUE))
    @@ (3 :> PeriodOf(4, 2, 0, <<>>, TRUE))
MCAssigns ==
    {Assign("a", x[1], x[2], on, o) :
        x \in {<<"period", 1>>, <<"period", 2>>, <<"opDay", 7>>, <<"date", 1>>},
        on \in BOOLEAN, o \in {1, 2}}
    \cup {Assign("b", "period", 4, TRUE, 1), Assign("b", "opDay", 7, TRUE, 2),
          Assign("b", "period", 3, FALSE, 2)}
FrameOf(w, s, l) ==
    [opDays |-> (7 :> 5), periods |-> MCPeriods, weekdays |-> ("a" :> w), assigns |-> s, large |-> l]
MCFrames ==
    {FrameOf(w, s, l) : w \in {NoDay, {0}}, l \in BOOLEAN,
                        s \in UNION {[1..n -> MCAssigns] : n \in 1..3}}

(* Zips of three members: two with courses and one shared, in three orders *)

CourseOf(id, line, refs) == [id |-> id, pattern |-> <<"P", 0>>, line |-> line, refs |-> refs]
MemberOf(courses, patterns, lines, operators, dayTypes, dayTypeRefs, links, containers, large) ==
    [courses |-> courses, patterns |-> patterns, lines |-> lines, operators |-> operators,
     dayTypes |-> dayTypes, dayTypeRefs |-> dayTypeRefs, links |-> links,
     containers |-> containers, large |-> large, parents |-> {"s", "z"}, sites |-> {"s"},
     conditions |-> {"v"}, framed |-> {}, hasFrame |-> large]
PatternOf(l, r) == (<<"P", 0>> :> [points |-> <<1, 2, 3>>, line |-> l, route |-> r])
Empty == [x \in {} |-> Absent]
\* The points the two courses name: a refit, none, or a course that cannot be fitted.
MCRefs ==
    {<<<<1, 2, 3>>, <<1, 3>>>>, <<<<1, 3>>, <<1, 3>>>>, <<<<3, 1>>, <<2, 3>>>>,
     <<<<2, 3>>, <<1, 2>>>>, <<<<1>>, <<1, 3>>>>, <<<<1, Absent>>, <<1, 1, 3>>>>}
MCLineFiles ==
    {MemberOf(<<CourseOf("c1", "K", r[1]), CourseOf("c2", l, r[2])>>, PatternOf(pl, Absent),
              ("L" :> [operator |-> o, given |-> Absent]), {}, {}, {"w"},
              {{"c1", "c2"}, {"c2"}}, c, FALSE) :
        r \in MCRefs, l \in {"L", "K"}, pl \in {Absent, "L"}, o \in {Absent, "o"},
        c \in {{"lines"}, {"lines", "organisations"}}}
MCOtherFiles ==
    {MemberOf(<<CourseOf("d", Absent, <<1, 2, 3>>)>>, PatternOf(Absent, x),
              ("K" :> [operator |-> "o", given |-> Absent]), ops, {"w2"}, {"w2"}, {}, {"lines"}, large) :
        ops \in {{"o"}, {}}, x \in {"L", Absent}, large \in BOOLEAN}
MCSharedFiles ==
    {MemberOf(<<>>, Empty, Empty, ops, dts, {}, {}, {}, large) :
        ops \in {{"o"}, {}, {"q", "o"}}, dts \in {{"w"}, {}}, large \in BOOLEAN}
MCZips ==
    {CASE k = 1 -> <<a, b, s>> [] k = 2 -> <<s, a, b>> [] k = 3 -> <<b, s, a>> :
        a \in MCLineFiles, b \in MCOtherFiles, s \in MCSharedFiles, k \in 1..3}

(* Catalogues of up to three entries *)

EntryOf(i, m, c, d) ==
    [id |-> i, match |-> m, created |-> c, modified |-> d, available |-> m, sameHost |-> d # 2]
MCEntries ==
    {EntryOf(i, m, c, d) : i \in {1, 2}, m \in BOOLEAN, c \in {NoFile, 1, 2}, d \in {NoFile, 2}}
MCLists ==
    UNION {[1..n -> MCEntries] : n \in 0..2}
    \cup {<<a, b, c>> : a, b, c \in {e \in MCEntries : e.id = 1 /\ e.match}}

-----------------------------------------------------------------------------
\* At rest: the inputs none of them reads.
RestFeed == CHOOSE f \in InputFeeds : TRUE
RestFrame == CHOOSE f \in Frames : TRUE
FilterAtRest == national = RestFeed /\ corridor = [h \in Homes \cup {Nil} |-> Nil]
CalendarAtRest == frame = RestFrame /\ CalendarNew
RepairAtRest == zip = <<>> /\ seen = 0 /\ context = NoContext /\ later = <<>> /\ copied = <<>>
ResolverAtRest ==
    /\ lookup = [type |-> "dated", list |-> <<>>, sorted |-> FALSE]
    /\ site = [d \in DatedDays |-> "missing"]
    /\ back = 0 /\ probed = <<>> /\ file = NoFile /\ publications = 0

\* At rest: no download under way, the first session of the enumeration.
Init ==
    /\ part \in {"download", "intake", "store", "osm", "filter", "calendar", "repair", "resolvers"}
    /\ IntakeInit /\ StoreInit /\ OsmInit
    /\ \/ part = "download" /\ DownloadInit
       \/ /\ part # "download" /\ dpc = "failed" /\ held = NoVersion
          /\ server = [ranges |-> TRUE, strong |-> TRUE, framing |-> "length",
                       accepts |-> {"identity"}]
          /\ published = 1 /\ coded = FALSE /\ dest = <<>> /\ total = 0
          /\ validator = NoVersion /\ ranges = FALSE /\ resuming = FALSE
          /\ before = 0 /\ body = NoVersion /\ limit = 0 /\ tried = NoneTried
          /\ requests = 0
    /\ part # "intake" => \A f \in Feeds : config[f].format = "gtfs"
    /\ part # "store" => engine = "otp"
    /\ IF part = "filter" THEN FilterInit ELSE FilterAtRest
    /\ IF part = "calendar" THEN CalendarInit ELSE CalendarAtRest
    /\ IF part = "repair" THEN RepairInit ELSE RepairAtRest
    /\ IF part = "resolvers" THEN ResolverInit ELSE ResolverAtRest

DownloadRest == UNCHANGED <<part, intakeVars, storeVars, osmVars, feedVars>>

Next ==
    \/ part = "download" /\ DownloadNext /\ DownloadRest
    \/ /\ part = "intake" /\ IntakeNext
       /\ UNCHANGED <<part, downloadVars, storeVars, osmVars, feedVars>>
    \/ /\ part = "store" /\ StoreNext
       /\ UNCHANGED <<part, downloadVars, intakeVars, osmVars, feedVars>>
    \/ /\ part = "osm" /\ OsmNext
       /\ UNCHANGED <<part, downloadVars, intakeVars, storeVars, feedVars>>
    \/ /\ part = "filter" /\ FilterNext
       /\ UNCHANGED <<part, fileVars, calendarVars, repairVars, resolverVars>>
    \/ /\ part = "calendar" /\ CalendarNext
       /\ UNCHANGED <<part, fileVars, filterVars, repairVars, resolverVars>>
    \/ /\ part = "repair" /\ RepairNext
       /\ UNCHANGED <<part, fileVars, filterVars, calendarVars, resolverVars>>
    \/ /\ part = "resolvers" /\ ResolverNext
       /\ UNCHANGED <<part, fileVars, filterVars, calendarVars, repairVars>>

Spec ==
    /\ Init /\ [][Next]_allVars
    /\ WF_allVars(part = "download" /\ DownloadStep /\ DownloadRest)

-----------------------------------------------------------------------------

\* A feed that arrives is one whole version of the newest file its resolver offers, and the
\* state kept of it is that of the file placed.
ArrivedIsWhole ==
    /\ DownloadTypeOK /\ OneWholeVersion /\ RequestsBounded
    /\ IntakeTypeOK /\ UnchangedButDerived /\ OnlyExpectedFiles /\ SavesSurvive
    /\ DatedIsNewest /\ NewestIsTaken /\ NeverGuessed /\ YearChangesOnSunday

\* A rewritten feed says what the original said: no reference dangles, no day, member or
\* course is lost, no train is owned twice.
RewrittenIsSound ==
    /\ FilteredIsClosed /\ OwnedOnce /\ NoFalseCrossing /\ RowsInAnyOrder
    /\ DaysExact /\ RewriteIsExact /\ LeftAloneIsRead
    /\ MembersOnce /\ NothingDropped /\ CoursesKept /\ OperatorIsFound

\* The graph that is served is there, copied fresh and recorded as the one served; of the
\* generations of a map the newest comes first.
StoredIsServed ==
    StoreTypeOK /\ ServedGraphExists /\ CopyIsFresh /\ SnapshotIsServed /\ NewestFirst

\* No step loses a file somebody still needs: a slot's file, the graph being built, the map.
FilesAreKept == NoFileDropped /\ CleanupSparesBuild /\ OsmFileKept
=============================================================================
