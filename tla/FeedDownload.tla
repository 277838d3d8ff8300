---------------------------- MODULE FeedDownload ------------------------------
(***************************************************************************)
(* One download of a feed file (app/feed_fetch.py): conditional GET,       *)
(* retries, a cut body resumed by a range request under If-Range, the      *)
(* change of coding after a 406, and the verdict on what was received.     *)
(*                                                                         *)
(* A file is a sequence of chunks, each named by the version it belongs    *)
(* to; the publisher may replace the file between any two requests. A      *)
(* strong validator names one version; a publisher that offers ranges      *)
(* honours If-Range. Waits between attempts are left out: only their       *)
(* number matters. A body announced without a length, but whose end is     *)
(* marked (chunked, or a gzip stream's trailer), is framed "chunked".      *)
(***************************************************************************)
EXTENDS Integers, Sequences, SequencesExt, FiniteSetsExt

CONSTANTS
    Versions,      \* the versions published, 1 being the oldest
    Length,        \* chunks in each version
    RetryDelays, ResumeDelays, BusyDelays,   \* how many waits of each kind
    MaxStalledResumes,
    NoVersion

ASSUME DownloadAssumption ==
    /\ Length \in Seq(Nat \ {0}) /\ Length # <<>> /\ Versions = 1..Len(Length)
    /\ RetryDelays \in Nat /\ ResumeDelays \in Nat /\ BusyDelays \in Nat
    /\ MaxStalledResumes \in Nat \ {0}
    /\ NoVersion \notin Versions

VARIABLES
    server,     \* how the publisher answers, fixed for the download
    published,  \* the version it has now
    held,       \* the version in the slot, as the fetch state remembers it
    dpc,
    dest,       \* the chunks written so far
    total, validator, ranges, coded,   \* of the transfer under way
    resuming, before,   \* the loop's locals: a range was asked; size at its start
    body,       \* the version the response under way carries
    limit,      \* the size it may not pass, 0 without one
    tried,      \* what the retries have used
    requests    \* how many were sent

downloadVars == <<server, published, held, dpc, dest, total, validator, ranges,
                  coded, resuming, before, body, limit, tried, requests>>

Servers == [ranges : BOOLEAN, strong : BOOLEAN,
            framing : {"length", "chunked", "close"},
            accepts : {{"identity", "gzip"}, {"identity"}, {"gzip"}, {}}]

NoneTried == [restarts |-> 0, resumes |-> 0, stalled |-> 0, busy |-> 0,
              switched |-> FALSE]

\* A new _Transfer: nothing received, nothing known.
Fresh(asGzip) ==
    /\ dest' = <<>> /\ total' = 0 /\ validator' = NoVersion /\ ranges' = FALSE
    /\ coded' = asGzip /\ limit' = 0 /\ body' = NoVersion

DownloadInit ==
    /\ server \in Servers /\ published = 1
    /\ held \in {NoVersion, 1}
    /\ coded \in BOOLEAN    \* _remembered_gzip
    /\ dpc = "ask" /\ dest = <<>> /\ total = 0 /\ validator = NoVersion
    /\ ranges = FALSE /\ resuming = FALSE /\ before = 0
    /\ body = NoVersion /\ limit = 0 /\ tried = NoneTried /\ requests = 0

Size == Len(dest)
Accepts(asGzip) == (IF asGzip THEN "gzip" ELSE "identity") \in server.accepts

\* _Transfer.resumable
Resumable ==
    ~coded /\ ranges /\ validator # NoVersion /\ total # 0
    /\ 0 < Size /\ Size < total

\* The publisher replaces the file.
Publish ==
    /\ dpc \in {"ask", "sent", "body"} /\ published + 1 \in Versions
    /\ published' = published + 1
    /\ UNCHANGED <<server, held, dpc, dest, total, validator, ranges, coded,
                   resuming, before, body, limit, tried, requests>>

\* The head of the loop of _download_into: what to ask for.
Send ==
    /\ dpc = "ask" /\ dpc' = "sent"
    /\ before' = Size /\ resuming' = Resumable /\ requests' = requests + 1
    /\ UNCHANGED <<server, published, held, dest, total, validator, ranges,
                   coded, body, limit, tried>>

Settle(outcome) ==
    /\ dpc' = outcome
    /\ UNCHANGED <<server, published, held, dest, total, validator, ranges,
                   coded, resuming, before, body, limit, tried, requests>>

-----------------------------------------------------------------------------
(* What follows a failed request *)

\* _next_restart: from byte 0, as often as there are delays.
NextRestart(asGzip) ==
    IF tried.restarts >= RetryDelays THEN Settle("failed")
    ELSE /\ tried' = [tried EXCEPT !.restarts = @ + 1, !.stalled = 0]
         /\ Fresh(asGzip) /\ dpc' = "ask"
         /\ UNCHANGED <<server, published, held, resuming, before, requests>>

\* _next_resume: continue at the first missing byte, unless the last resumes
\* brought nothing or none is left.
NextResume ==
    LET stalled == IF Size = before THEN tried.stalled + 1 ELSE 0 IN
    IF stalled >= MaxStalledResumes \/ tried.resumes >= ResumeDelays
    THEN Settle("failed")
    ELSE /\ tried' = [tried EXCEPT !.stalled = stalled, !.resumes = @ + 1]
         /\ dpc' = "ask"
         /\ UNCHANGED <<server, published, held, dest, total, validator,
                        ranges, coded, resuming, before, body, limit, requests>>

\* _wait_busy: the same range again; a budget of its own.
WaitBusy ==
    IF tried.busy >= BusyDelays THEN Settle("failed")
    ELSE /\ tried' = [tried EXCEPT !.busy = @ + 1] /\ dpc' = "ask"
         /\ UNCHANGED <<server, published, held, dest, total, validator,
                        ranges, coded, resuming, before, body, limit, requests>>

\* _ride_out, of a retryable error: a busy status or a broken connection.
RideOut(busyStatus) ==
    IF resuming /\ busyStatus THEN WaitBusy
    ELSE IF resuming \/ Resumable THEN NextResume
    ELSE NextRestart(coded)

-----------------------------------------------------------------------------
(* The answers to a request from byte 0: _get_full, _Transfer.start *)

Full == dpc = "sent" /\ ~resuming

NotModified ==
    /\ Full /\ held = published /\ Settle("unchanged")

FullAnswer ==
    /\ Full /\ Accepts(coded)
    /\ total' = IF ~coded /\ server.framing = "length" THEN Length[published] ELSE 0
    /\ limit' = total'
    /\ validator' = IF server.strong THEN published ELSE NoVersion
    /\ ranges' = server.ranges
    /\ body' = published /\ dest' = <<>> /\ dpc' = "body"
    /\ UNCHANGED <<server, published, held, coded, resuming, before, tried, requests>>

\* _coding_refused: the first 406 makes the download ask in the other coding,
\* from byte 0; a second one is final.
NotAcceptable ==
    /\ Full /\ ~Accepts(coded)
    /\ IF tried.switched THEN Settle("failed")
       ELSE /\ tried' = [tried EXCEPT !.switched = TRUE] /\ dpc' = "ask"
            /\ Fresh(~coded)
            /\ UNCHANGED <<server, published, held, resuming, before, requests>>

\* Any answer that no retry mends, to either kind of request: 4xx, too many
\* redirects, a content coding that is not a single gzip.
FatalAnswer == dpc = "sent" /\ Settle("failed")

BusyAnswer == dpc = "sent" /\ RideOut(TRUE)
NoAnswer == dpc = "sent" /\ RideOut(FALSE)

-----------------------------------------------------------------------------
(* The answers to a range request: _get_rest, _Transfer.accept_range *)

Rest == dpc = "sent" /\ resuming

\* Mutant: If-Range is not sent, whatever version is there answers.
RangeAnswerUnconditional ==
    /\ Rest
    /\ \E end \in Size+1..total :
         limit' = end /\ body' = published /\ dpc' = "body"
    /\ UNCHANGED <<server, published, held, dest, total, validator, ranges,
                   coded, resuming, before, tried, requests>>

\* 206, the version still being the one the validator names: the range starts
\* at the first missing byte and may stop short of the end.
RangeAnswer ==
    /\ Rest /\ published = validator
    /\ \E end \in Size+1..total :
         limit' = end /\ body' = published /\ dpc' = "body"
    /\ UNCHANGED <<server, published, held, dest, total, validator, ranges,
                   coded, resuming, before, tried, requests>>

\* 200 (the file changed), 406, 416, or a 206 that is not the continuation:
\* _Restart, in identity.
RangeRefused == Rest /\ NextRestart(FALSE)

-----------------------------------------------------------------------------
(* The body: _Transfer.append *)

Chunk ==
    /\ dpc = "body" /\ Size < Length[body] /\ (limit = 0 \/ Size < limit)
    /\ dest' = Append(dest, body)
    /\ UNCHANGED <<server, published, held, dpc, total, validator, ranges,
                   coded, resuming, before, body, limit, tried, requests>>

\* _check_room: the server sends more than it announced.
TooMuch == dpc = "body" /\ limit # 0 /\ Size >= limit /\ Settle("failed")

\* The connection breaks in the body, or the response ends before the announced
\* size (always seen but for a plain body framed by the connection's end).
Cut == dpc = "body" /\ RideOut(FALSE)

\* The response ends: short of the total it is a cut.
BodyEnds ==
    /\ dpc = "body"
    /\ \/ Size = Length[body]
       \/ limit # 0 /\ Size = limit
       \/ ~coded /\ server.framing = "close"
    /\ IF total # 0 /\ Size < total THEN RideOut(FALSE) ELSE Settle("received")

-----------------------------------------------------------------------------
(* fetch_validated, once the file is there *)

\* The sha256 of the file the slot holds: unchanged. Else the format check
\* (_validate) lets it through or discards what was staged.
SameContent == held # NoVersion /\ dest = [i \in 1..Length[held] |-> held]

\* Mutant: identical content falls through.
VerdictMissing ==
    dpc = "received" /\ ~SameContent /\ (Settle("fetched") \/ Settle("failed"))

Verdict ==
    /\ dpc = "received"
    /\ IF SameContent THEN Settle("unchanged")
       ELSE Settle("fetched") \/ Settle("failed")

\* The answer of the publisher, or the lack of one.
Respond ==
    \/ NotModified \/ FullAnswer \/ NotAcceptable \/ FatalAnswer \/ BusyAnswer
    \/ NoAnswer \/ RangeAnswer \/ RangeRefused

Receive == Chunk \/ TooMuch \/ Cut \/ BodyEnds

DownloadStep == Send \/ Respond \/ Receive \/ Verdict
DownloadNext == Publish \/ DownloadStep

\* A request is answered or fails (the client has a timeout), and the
\* coroutine goes on.
DownloadSpec ==
    DownloadInit /\ [][DownloadNext]_downloadVars /\ WF_downloadVars(DownloadStep)

-----------------------------------------------------------------------------
(* Properties *)

Over == dpc \in {"fetched", "unchanged", "failed"}

Budgets ==
    [restarts : 0..RetryDelays, resumes : 0..ResumeDelays, stalled : 0..MaxStalledResumes,
     busy : 0..BusyDelays, switched : BOOLEAN]

\* The locals of the loop, the transfer and the budgets stay in range.
DownloadTypeOK ==
    /\ server \in Servers /\ published \in Versions
    /\ held \in Versions \cup {NoVersion}
    /\ dpc \in {"ask", "sent", "body", "received", "fetched", "unchanged", "failed"}
    /\ dest \in Seq(Versions) /\ total \in Nat /\ limit \in Nat
    /\ validator \in Versions \cup {NoVersion}
    /\ ranges \in BOOLEAN /\ coded \in BOOLEAN /\ resuming \in BOOLEAN
    /\ before \in Nat /\ body \in Versions \cup {NoVersion}
    /\ tried \in Budgets
    /\ requests \in Nat

\* Bytes of two versions are never mixed, however often the download was cut
\* and resumed while the publisher replaced the file; and a file whose length
\* was announced, or whose end the framing marks, is received whole.
OneWholeVersion ==
    dpc \in {"received", "fetched"} =>
        \E v \in Versions :
            /\ \A i \in 1..Size : dest[i] = v
            /\ (total # 0 \/ coded \/ server.framing = "chunked") => Size = Length[v]

\* The retries are bounded together, not only each by its own budget: cuts,
\* busy answers, refused ranges and the change of coding cannot feed each other.
RequestsBounded ==
    requests <= 2 + RetryDelays + ResumeDelays + BusyDelays

\* Every download ends, whatever the publisher does.
DownloadEnds == <>Over

-----------------------------------------------------------------------------
(***************************************************************************)
(* What a national access point publishes, to the one file to download     *)
(* (app/feed_resolvers.py, resolve): a resource of a dataset by its id     *)
(* (tdg) or the newest of a family (udata), an entry of a JSON catalogue   *)
(* (json_api), a page per timetable year (permalink), or a file named for  *)
(* its day, looked for day by day (dated) while the publisher publishes.   *)
(*                                                                         *)
(* An entry of a catalogue is a record: `id`, whether its fields match     *)
(* (`match`), what it sorts by (`created`, `modified`; NoFile: absent),    *)
(* whether it is available and whether its file is on the catalogue's own  *)
(* host.                                                                   *)
(***************************************************************************)

CONSTANTS
    CatalogueLists,  \* sequences of entries
    WantedId,        \* the tdg resolver's resource
    Today,           \* the day of the refresh, counted from MaxDaysBack
    MaxDaysBack,     \* max_days_back
    MaxPublished,    \* bound of the files published during the walk
    FirstWeekdays,   \* weekdays (Monday is 0) the first of December may fall on
    NoFile

Dates == 0..999   \* the dates of a catalogue, in their order

Error == [error |-> TRUE]
File(e) == [error |-> FALSE, entry |-> e]

ASSUME ResolverAssumption ==
    /\ MaxDaysBack \in Nat /\ Today \in Nat /\ Today >= MaxDaysBack
    /\ FirstWeekdays \subseteq 0..6 /\ NoFile \notin Dates /\ NoFile # Error
    /\ \A day \in 0..Today : NoFile # File([day |-> day])
    /\ \A list \in CatalogueLists :
         /\ DOMAIN list \subseteq Nat
         /\ \A i \in DOMAIN list :
              list[i].created \in Dates \cup {NoFile} /\ list[i].modified \in Dates \cup {NoFile}

VARIABLES
    lookup,   \* the resolver and what the catalogue holds
    site,     \* dated: what the server answers for each day
    back,     \* dated: how many days back the walk is
    probed,   \* dated: what each probe found
    file,     \* what was resolved: NoFile, [error], or the file
    publications

resolverVars == <<lookup, site, back, probed, file, publications>>

DatedDays == (Today - MaxDaysBack)..Today
Answers == {"zip", "missing", "not a zip", "busy"}

ResolverInit ==
    /\ \/ /\ lookup \in [type : {"tdg", "udata"}, list : CatalogueLists, sorted : {FALSE}]
                          \cup [type : {"json_api"}, list : CatalogueLists, sorted : BOOLEAN]
          /\ site = [d \in DatedDays |-> "missing"]
       \/ /\ lookup = [type |-> "dated", list |-> <<>>, sorted |-> FALSE]
          /\ site \in [DatedDays -> Answers]
       \/ /\ lookup \in [type : {"permalink"}, list : {<<>>}, sorted : {FALSE},
                         weekday : FirstWeekdays, day : 1..31]
          /\ site = [d \in DatedDays |-> "missing"]
    /\ back = 0 /\ probed = <<>> /\ file = NoFile /\ publications = 0

-----------------------------------------------------------------------------
(* Catalogues *)

Matching(list) == {i \in DOMAIN list : list[i].match}

\* Of the entries that match, the first that nothing ranks above.
FirstMax(list, Rank(_)) ==
    list[Min({i \in Matching(list) : \A j \in Matching(list) : Rank(list[j]) <= Rank(list[i])})]

\* _resolve_tdg: the resource itself, if it is there and available; never a replacement.
ResolvedTdg(list) ==
    LET at == {i \in DOMAIN list : list[i].id = WantedId}
    IN IF at = {} THEN Error
       ELSE IF ~list[Min(at)].available THEN Error ELSE File(list[Min(at)])

\* str(created_at or last_modified): an entry without a date is "None", above every digit.
AgeText(e) == IF e.created # NoFile THEN e.created ELSE IF e.modified # NoFile THEN e.modified ELSE 1000

\* _resolve_udata: the newest of the resources that match.
ResolvedUdata(list) ==
    IF Matching(list) = {} THEN Error ELSE File(FirstMax(list, AgeText))

\* _sort_key: an entry without the field is below every other.
SortRank(e) == IF e.created = NoFile THEN 0 ELSE e.created

\* _pick_json_api_entry: the highest, or the only one; several without an order are refused.
Picked(list, sorted) ==
    IF Matching(list) = {} THEN NoFile
    ELSE IF sorted THEN FirstMax(list, SortRank)
    ELSE IF \E i, j \in Matching(list) : i # j THEN NoFile
    ELSE list[Min(Matching(list))]

\* _json_api_file_url: a file elsewhere than on the catalogue's host is refused.
ResolvedJsonApi(list, sorted) ==
    LET entry == Picked(list, sorted)
    IN IF entry = NoFile THEN Error ELSE IF ~entry.sameHost THEN Error ELSE File(entry)

\* A catalogue is looked up once; the lookup may fail.
LookUp ==
    /\ lookup.type \in {"tdg", "udata", "json_api"} /\ file = NoFile
    /\ file' \in {Error,
          IF lookup.type = "tdg" THEN ResolvedTdg(lookup.list)
          ELSE IF lookup.type = "udata" THEN ResolvedUdata(lookup.list)
          ELSE ResolvedJsonApi(lookup.list, lookup.sorted)}
    /\ UNCHANGED <<lookup, site, back, probed, publications>>

-----------------------------------------------------------------------------
(* The timetable year *)

\* timetable_year: eight days after the first Saturday of December.
ChangeDay(weekday) == 1 + ((5 - weekday) % 7) + 8

ResolveYear ==
    /\ lookup.type = "permalink" /\ file = NoFile
    /\ file' = File([next |-> lookup.day >= ChangeDay(lookup.weekday)])
    /\ UNCHANGED <<lookup, site, back, probed, publications>>

-----------------------------------------------------------------------------
(* A file named for its day *)

\* _probe_dated: 404, 410 and a body that is not a zip are misses; anything else says nothing
\* of the day, and ends the walk.
Probe(answer) == IF answer = "zip" THEN "hit"
                 ELSE IF answer \in {"missing", "not a zip"} THEN "miss" ELSE "error"

\* _resolve_dated: one day, from today backwards.
ProbeDay ==
    /\ lookup.type = "dated" /\ file = NoFile
    /\ LET day == Today - back
           found == Probe(site[day])
       IN /\ probed' = Append(probed, site[day])
          /\ back' = IF found = "miss" THEN back + 1 ELSE back
          /\ file' = IF found = "hit" THEN File([day |-> day])
                     ELSE IF found = "error" \/ back = MaxDaysBack THEN Error ELSE NoFile
    /\ UNCHANGED <<lookup, site, publications>>

\* The publisher puts up the file of a day while the walk is under way.
PublishDay ==
    /\ lookup.type = "dated" /\ file = NoFile /\ publications < MaxPublished
    /\ \E d \in DatedDays : site[d] = "missing" /\ site' = [site EXCEPT ![d] = "zip"]
    /\ publications' = publications + 1
    /\ UNCHANGED <<lookup, back, probed, file>>

ResolverNext == LookUp \/ ResolveYear \/ ProbeDay \/ PublishDay

ResolverSpec == ResolverInit /\ [][ResolverNext]_resolverVars

-----------------------------------------------------------------------------
(* Properties *)

Resolved == file # NoFile /\ ~file.error

\* The walk of a dated resolver takes the newest file there is: each later day was asked and
\* had none when it was (_DATED_MISS_STATUSES: "stepping past it would report a misleading
\* 'no file found'"). A server that was busy is never stepped past, and files published
\* meanwhile do not make it skip a day.
DatedIsNewest ==
    /\ (lookup.type = "dated" /\ Resolved) =>
          \A i \in DOMAIN probed : i < Len(probed) => probed[i] \in {"missing", "not a zip"}
    /\ lookup.type = "dated" /\ Resolved =>
          site[file.entry.day] = "zip" /\ Len(probed) = Today - file.entry.day + 1
    /\ Len(probed) <= MaxDaysBack + 1

\* docs/nap-feed-resolvers.md, udata: "Newest resource whose title matches". When every
\* resource that matches has a date (_resolve_udata), no other one is newer, wherever in the
\* catalogue it is.
NewestIsTaken ==
    (lookup.type = "udata" /\ Resolved) =>
        LET dated == {e \in Range(lookup.list) : e.match}
            Date(e) == IF e.created # NoFile THEN e.created ELSE e.modified
        IN /\ file.entry.match
           /\ (\A e \in dated : Date(e) # NoFile) => \A e \in dated : Date(e) <= Date(file.entry)

\* A file is never guessed: a tdg resource that is gone is not replaced, and a JSON catalogue
\* in which several entries match, with nothing to order them, resolves to none of them
\* (_resolve_tdg, _pick_json_api_entry).
NeverGuessed ==
    /\ (lookup.type = "tdg" /\ Resolved) => file.entry.id = WantedId /\ file.entry.available
    /\ (lookup.type = "json_api" /\ Resolved) =>
          /\ file.entry.match /\ file.entry.sameHost
          /\ \A e \in Range(lookup.list) :
               (e.match /\ e # file.entry) => lookup.sorted /\ SortRank(e) <= SortRank(file.entry)

\* The next year's timetable is in force from the Sunday after the second Saturday of December
\* (timetable_year), whatever weekday the month begins on.
YearChangesOnSunday ==
    (lookup.type = "permalink" /\ Resolved) =>
        LET saturdays == {d \in 1..31 : (lookup.weekday + d - 1) % 7 = 5}
            second == Min(saturdays \ {Min(saturdays)})
        IN file.entry.next <=> lookup.day > second
=============================================================================
