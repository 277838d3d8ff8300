# Verification of VIATOR

VIATOR serves journey planners (OpenTripPlanner and MOTIS) per *session*: a set
of timetable feeds and an OSM map that are downloaded, built into a graph in a
container, served, searched, and measured by *coverage runs* against reference
planners. This directory models in TLA+ what can go wrong in it without a test
noticing: two processes (web and worker) and many requests and threads that
share database rows, files, caches and containers, and survive restarts; and the
algorithms whose order of work matters (paging, pairing, stitching, rewriting a
feed in one pass). TLC checks the models; TLAPS proves the
invariants and action properties of the components whose interleavings matter most
for every value of their constants.

All paths below are relative to the repository root; `PROJECT.json` maps each
definition to the lines it stands for.

## 1. Inventory

### Processes and shared state

| | web process | worker process |
|---|---|---|
| runs | FastAPI handlers (on one event loop, or on threads of its pool), helper threads, the station-module sender and warm threads, the daily retention pass | the rebuild loop (`app/worker.py`), the coverage executor (`app/network_coverage/executor.py`) |
| memory lost in a restart | queue of follow-up passes, pending progress writes, config cache, gates, cached stations and tokens | the tick's job, the in-process Stop event, loaded rows, config cache |
| shared | PostgreSQL rows, `.max-mem-stopped`, the reload trigger, compose and nginx fragments, inbox, slots, extract cache and graph folders, docker containers | the same |

Neither process is told of the other: they meet in rows read in one
transaction and written in another (READ COMMITTED, ORM writes of the changed
columns by primary key), in conditional UPDATEs, leases and heartbeats.

### Components

| component | state | operations | what makes it correct | modules |
|---|---|---|---|---|
| coverage executor and run row | run row (status, holder, heartbeat, Stop, counters, resumes), result rows, executor memory | claim, resume, beat, release, phase 1, pairs, Stop, completion, settle, delete | a completed run is whole; counters tell the truth; Stop wins over a resume; only the holder ends it; every run ends | `CoverageRun`, `CoverageRunLifecycle` |
| one pair of a run | slots, retries, kept trips, row | ask, fail, back off, accumulate, write | one failing slot loses nothing; Stop ends retries; the pair ends, with its row unless its write or merge failed for good | `PairSearch` |
| window of a run | bounds, zone, grid | store, anchor, cut into slots | what was asked for is searched | `CoverageWindow` |
| verification sweep, OeBB engine | cells, progress, fence; tokens and stops | ask, save, flush, flip; resolve, search, cache | each cell checked once; silence is not "no service" | `VerifySweep`, `OebbVerdict`, `OebbStops` |
| source refresh records | one row per scope, writer-thread queue | claim, refuse, beat, write, end, expire, hand off | overlapping refreshes exclude each other; a record shows only its own refresh; none blocks for ever | `RefreshProgress` |
| station-module follow-up | in-memory queue, sender thread, `extract` part of the record | queue or coalesce, run, report, resume after restart | a queued pass is queued, and reported once, to its own record | `ExtractFollowUp` |
| station extracts | cache of extracts, failures, what the module holds | extract, wait, verify, prune, PUT, retry | an extract is of the file its label says; nothing is extracted twice for nothing | `StationExtracts` |
| station module client, build wait | pause, cached editions; deadline, build id | call, pause, expire; POST, poll, sleep, cancel | the pause holds; the wait follows the build it asked for and ends in its limit | `StationModule` |
| placing of stops | keys asked, stations found | batch calls, time limit | both sides of a search are placed alike | `StationPlacing` |
| rebuild queue and build worker | `rebuild_jobs`, folders, `current`, containers, marker | place, queue, coalesce, upgrade, cancel, claim, build, link, prune, recover | no file is forgotten; one build at a time; `current` is whole; stopped services are up, named by the marker or reported as down | `RebuildWorker` |
| graphs volume | build folders, snapshot rows, MOTIS copy | build, link, prune, clean up, delete | no folder in use is deleted; the snapshot is of the graph served, or of an older one if it could not be recorded | `GraphStore` |
| sessions and their serving | rows, fragments, trigger, containers | create, PATCH, promote, archive, delete, reload | a serving session's service is started | `SessionServing` |
| a session's sources | providers, gate, stale marks | save, switch, import a catalogue, refresh | valid lists only; what a change makes stale is told | `SessionSources` |
| feed download and resolvers | partial file, validator, budgets; catalogue, candidate | fetch, resume, retry; probe, pick | one whole version; the newest file, never a guess; it ends | `FeedDownload` |
| slots and inbox | slot files, fetch state, locks | place, upload, sweep, save | no file is lost; "unchanged" is true of the file placed | `FeedIntake` |
| OSM generations | `osm.pbf`, `.old.N` | rotate, fetch | a failed fetch keeps the map | `OsmRefresh` |
| repair of feeds | feed, calendar, archive | filter, rewrite, repair | nothing dangles, no day or course is lost | `CrossBorderFilter`, `NetexRepair` |
| journey search, gates | gate, sessions asked, record | admit, ask, answer, record, release | the gate drains; the record is whole | `JourneyService` |
| reference columns | pages, budget | page, clip | nothing is skipped, a short answer is told | `ReferencePages` |
| federated planner | cached stations | split, stitch, rank | a stitched journey can be ridden and is the best | `FederatedPlanner` |
| matching and scoring | pure | pair, align, trim, weigh | the same from both sides and in any order | `JourneyMatching` |
| recorded searches | searches, replays | record, replay, prune | nothing goes early, all goes in the end | `SearchLedger` |
| hubs | hub rows | create, edit, import, resolve, delete | code and id name one station | `HubCatalogue` |
| configuration | rows, cache per process | PATCH, read, expire | a mask is never stored; a read is recent | `PlatformConfig` |
| credentials, accounts | rows, tokens, links, tickets | edit, log in, register, reset | a token is of this login; no account is replaced | `ProviderCredentials`, `Accounts` |
| everything else | | parsers, adapters, pages, metrics, migrations | | not modelled, section 6 |

### How they interact

- A refresh (web) claims its record (`RefreshProgress`), resolves and downloads
  (`FeedDownload`), repairs, places files in slots (`FeedIntake`),
  which queues a rebuild job (`RebuildWorker`); it ends its record and queues the
  follow-up pass. `ExtractFollowUp` composes with `RefreshProgress` action by
  action; `RebuildWorker` sees a refresh only as "one runs", which holds its
  session's job back.
- The worker claims jobs, waits for the station build, builds, links, prunes and
  writes the session's state; promotion then renders fragments and touches the
  trigger the worker consumes (`SessionServing`).
- Coverage runs are queued and stopped by web and executed by the worker, which
  asks the planners pair by pair and the reference engines cell by cell.
- Configuration reaches the gates and both processes through a cache of 30 s.

### What is hard here

Two holders of one row after a missed lease; a commit that follows a read made
before somebody else's commit; writes that land from another thread, later than
the event they report; requests cancelled while a thread works for them;
crashes between two files, between a file and its row, or between stopping
services and restarting them; queues that live in memory while rows say
"queued"; answers that arrive after the thing they are about was edited or
deleted; budgets that several kinds of retries share. The `hazards` of
`PROJECT.json` name those that matter most, line by line, with the properties
that cover them.

## 2. Modules

Modules of a component hold its state, one action per operation or step, its
properties, and the mutated operators with which the properties are tested.
`*Proofs` hold theorems; `MC*` hold the constants and sums of the TLC instances.

### CoverageRun

A step is one database transaction, or one statement of a transaction whose
reads the row lock does not protect. `_done_pairs_and_recount`,
`_persist_cancelled_run` and `_finalise_completed_run` therefore appear as load,
read of the result rows, commit. The ORM writes only columns that differ from
what it loaded; `RecountedBy` keeps that, and with it the case in which a stale
recount writes nothing. The heartbeat's age is the Boolean `fresh`; `Expire`
clears it at any time, for a dead holder and for a live one that is cut off from
the database. A pair is one step here, its slots and retries are in
`PairSearch`; the choice among several runs is left out.

`Lifecycle` instantiates `CoverageRunLifecycle`, what a run promises to a reader of
its row, with the row's own status and result rows.

`rows` is a set of pairs because of the unique constraint; `Accepted` is that
constraint and the foreign key. `stray` are the pair coroutines that a failed
`gather` leaves running.

### RefreshProgress

A request is named by the `run_id` of its claim. The claim is one step: it runs
under the session's advisory lock. Its progress writes go through `queue`,
emptied by one writer thread; every write, beat and end is fenced by `run_id` and
`running`, as `_fenced` does. `_claim_off_loop` is three places (`claiming`,
`handoff`, `handed`), because a cancellation may arrive in each of them and must
leave somebody who ends the record. `Lapse` is the lease running out and `Read` a
page or a claim that expires what it finds stale. `Stalls` says whether a live
refresh may miss its lease, `WriteFails` whether best-effort writes may be lost.

### ExtractFollowUp

`waiting` and `queuedRun` are `_waiting` and `_queued`, updated together under
their lock; `passScope`, `passRun`, `passOn` are the sender thread's pass. A
crash loses all of them, `Resume` queues again what the records call queued or
running. `Prompt` states that nothing is awaited between the end of a refresh
and its `after_refresh`. `silent` is a history variable: the records whose last
pass write failed, or whose request was cancelled while its end was written, until
they are claimed again; `QueuedIsServed` and `PassIsReported` except them.

### RebuildWorker

A job is named by the request that inserted it. A web request reads in one step
(`ReadPending`, `CancelRead`) and commits in another (`Insert`, `Upgrade`,
`CancelCommit`), writing the columns it changed whatever the row says by then;
the worker's `Claim` is the conditional UPDATE of `tick`. The build is its order
of effects: folder, marker, stop of the services, containers in turn (two for
MOTIS), unlink, link, prune, `finally`, record. `Crash` may come between any two
of them, leaves containers alive, and is followed by the startup's
`MarkOrphans`, `KillOrphans`, `Recover`. An exception may come wherever the code
handles one: before the build's `try` or in the last write (`TickRaises`: the row
stays `running`), in it (`BuildRaises`), in the stop of the services and in their
restart. Exceptions count with crashes: `MaxCrashes` bounds both together.

`StartServices` is `_start_services`: every service is up, or those that are not are
logged with the command to run (`leftDown`), and either way the caller unlinks the
marker. What the code promises of stopped services is therefore no more than
`StoppedAreRemembered`: they are up, named by the marker, or were reported as down.
With `Faults`, `docker ps` may fail (at startup, when orphans are looked for, and
after a restart, when the services still down are: neither is told then) and so may
the write of the marker; the code logs both and goes on, so one build at a time and
remembered services hold without such faults only, and the runs and theorems of these
two say `Faults = FALSE`. `leftDown`, `unbuilt` and `withdrawn` are history variables.

### SessionServing

Promote and delete write files inside a transaction that commits last: select, one
fragment, the other, the files, the trigger, commit; each is a step, and a crash of
web rolls the row back and no file. Delete flushes first and holds its row from then
on. Promote does not (the sessions are opened with `autoflush=False`): its UPDATE goes
out at the commit, so until then other requests edit, archive or delete the row it
read, and the fragments name its session only because the SELECT returns the object
it changed. A promotion whose row was deleted meanwhile fails at its commit, with its
files written. The worker sees committed rows only. `unrendered` and `mixed` are
history variables that name what the code does not promise: sessions that became
serving without the fragments naming them (by a PATCH, or created again with the id
of a session whose promotion was under way), and renderings that overlap.

### The files of a session: FeedDownload, FeedIntake, OsmRefresh, GraphStore

`FeedDownload` is one download: each request, cut, busy answer, refused range or
coding is a step, the publisher may replace the file between any two, and `dest`
is the sequence of versions the received bytes come from. Its second part is the
resolvers: they walk dated files, read udata, transport.data.gouv.fr and catalogue
entries.
`FeedIntake` renames in and out of slots under the slot's lock, with the fetch
state beside them, uploads, saves, the sweep and a crash at each step. `OsmRefresh`
is the rotation rename by rename, each of which may fail alone. `GraphStore` has
builds, links, prunes, snapshots, the MOTIS copy with its marker, the operator's
clean-up, and at each step an exception that ends the tick or a death of the worker.
`SnapshotFails` is the exception `tick` swallows when the inputs or the snapshot of a
build that is already linked fail: the job is done and the row shown as current is of
an older build. `unrecorded` is the history variable that says so; `stuck` is a job
left `running`, until the next restart marks it.

### Rewritten feeds: CrossBorderFilter, NetexRepair

Feeds are small records of trips, calls, days and references. Each pass is
modelled in the order the code streams the file, because what a pass decides
before it has seen a later element is what can be wrong. The results are compared
with definitions that see the whole feed.

### The station module: StationExtracts, StationModule, StationPlacing, OebbStops

`StationExtracts` has the warm thread, the passes and the build's pass as actors
with a program counter, on slots replaced under them. A pass may end as an error: it
cannot read its feeds (`StartPass`), or an exception ends it between two feeds or
calls (`PassRaises`); a restart may fail to queue the pass again; an outcome and a
fetch state are saved on a best effort. The history variable `untold` names the feeds
that the sender's last pass left without an outcome for one of these reasons, and
`QuietIsTold` excepts them. `StationModule` is the
client's pause and caches under calls that overlap, and the worker's wait for a
station build, which counts time in units of the poll interval; a call takes time
too. `StationPlacing` and
`OebbStops` ask for keys in batches, under a time limit, with a cache at its cap.

### Searches: JourneyService, PairSearch, VerifySweep, SearchLedger, FederatedPlanner

`JourneyService` is a search from admission to its record, alone or fanned out,
with the gate's limit, the serving sessions and the snapshots changing under it.
`PairSearch` is one pair of a coverage run in its slots, retries and backoff, and the
write of its row: `WriteFails` retries a transient error and gives up after the last
retry or on any other, `MergeRaises` is the fan-out's merge. Such a pair ends without a
row; that a run is not completed without it is `RunRowIsTrue` of `CoverageRun`.
`VerifySweep` has two executors of one run, the writer's buffer and the fence.
`SearchLedger` counts days; the retention pass is one transaction in the order
of its tiers, refused as a whole when the foreign key refuses. `FederatedPlanner`
is evaluated over all bounded sets of trains.

### What is computed: CoverageWindow, JourneyMatching, ReferencePages, OebbVerdict

Algorithms, written as the code writes them (the greedy pairing, the alignment,
the trimming of both ends, the pages from the last departure) and compared with
declarative definitions: the longest common subsequence, a stable pairing, the
set of trains of the window. Wall clocks have offsets that change, so that hours
are skipped and repeated. A planner may answer the trips of one minute in any order,
and some list the trip before the anchor too.

### Administration: HubCatalogue, PlatformConfig, SessionSources, ProviderCredentials, Accounts

Each handler reads in one step and commits in another, two at a time. The ORM
writes the columns that differ from what was read, so that two PATCHes can tear a
row; the modules keep that, and the properties name the torn rows they except.
A token's answer may take any time: the client of a refresh waits up to 600 s
(`sessions.py:2205`) and the margin is 30 s, while the life in the cache is counted
from the reading of the answer (`credentials.py:479`). `ReusedTokenLives` states what
follows: a token of the cache is alive, or its answer was later than the margin and it
has been dead for less than that lateness.

### Sums

`MCIntake`, `MCStation`, `MCJourneys` and `MCAdministration` put several
of these modules in one run. The modules of a sum share no variable. The variable
`part` is chosen at the start and says which of them moves; the others stay in
one resting state. A behaviour of the sum is therefore a behaviour of one module,
and the run checks all of them at the cost of their sum and not of their product.
The fairness conditions of the parts are conjoined with `part`.

## 3. Runs

All runs use `tlc -workers 2 -config <cfg> <module>`. `CHECK_DEADLOCK FALSE` is
set everywhere because each of these systems may rest: a run that has ended and
is not deleted, no request outstanding, an empty job queue, an input computed.

| run | shows | distinct states |
|---|---|---|
| `coverage_two_workers` | two executors at once, crashes, takeover of a live holder, lost writes, Stop, Delete, status changes by SQL | 458 k |
| `coverage_one_worker` | one worker at a time, as deployed: counters exact, a held run is cancelled by its holder, refinement of `CoverageRunLifecycle`, every run ends | 37 k |
| `refresh_stalls` | two refreshes of one record and their passes, with stalls, cancellations, lost writes, a crash: records fenced and in order, queue and record agree, every running record ends | 67 k |
| `refresh_punctual` | a provider twice and the whole session, no stalls: overlapping work excluded, no orphaned claim, every queued pass is queued and reported, across a restart | 118 k |
| `rebuild_worker` | an upload and a max-memory request of a session, cancels, a refresh, two crashes or exceptions of the worker | 743 k |
| `session_serving` | two admin requests at a time, the worker, one fault or crash: fragments follow rows, a pass is applied, a deleted session stays deleted, a trigger is consumed | 783 k |
| `intake_and_store` | downloads, slots, graphs volume, OSM generations, resolvers and the three rewriting passes | 1.11 M |
| `station_extracts_and_wait` | extracts and passes, the build wait, the client, the placing of stops | 1.64 M |
| `journeys` | searches behind a gate, pairs, the sweep, the ledger, stitching; and what is computed from answers (windows, matching, pages, OeBB verdicts and tokens), over bounded inputs | 493 k |
| `administration` | hubs, settings, sources, credentials and accounts, two edits at a time | 1.29 M |
| `promotion_lost` | *violation*: see findings | |
| `raw_kept_by_replay` | *violation*: see findings | |

### Properties

A property of a run is a claim about a component, or the conjunction of the named
parts of one claim; each part has its own comment in its module, and TLC names
the part that fails. In `journeys`, for example, `ComparisonIsFair` is
ten parts of `JourneyMatching`, among them that the rides two
journeys share are the longest common alignment, that a pairing is stable, and
that exchanging the sides changes nothing. Each type invariant is a part of the
invariant of its component. Each property has a mutant in `PROJECT.json`: a
plausible slip in the code (a dropped fence, an unconditional range request, a
greedy alignment) that TLC finds.

### Bounds

- Executors: two. A takeover needs a holder and a successor; a third executor
  only repeats the successor's part. Two or three pairs: one answered before a
  crash, one in flight, one not started. `MaxResumes` 1 or 2 reaches the limit
  and one resume before it. `MaxReleases` 1 bounds releases, which cost no
  resume and would otherwise repeat.
- Refreshes: two of the same record for takeover, three of two scopes for
  exclusion and for a pass that runs, one that waits and one that coalesces with
  it; one or two tasks; one crash. The OSM scope and the derived providers are
  in the model and in the proofs; the instances do not use them.
- Rebuild: two requests (a file and a manual request with the max-memory box) of
  a MOTIS session, so that coalescing, upgrading and the two containers happen;
  `KeepGraphs` 1 so that two builds already prune; two crashes or exceptions, so that
  the recovery itself may fail; one refresh.
- Serving: two sessions (one MOTIS, one OTP, whose orphans are treated
  differently), two requests at a time, three operations, one fault.
- Files: two versions of a publisher's file; one feed with two saves, two
  refreshes, an upload and a crash (`Overlap` FALSE: a slot's two refreshes are
  kept apart by their record, which `RefreshProgress` shows); two builds with one
  kept; three OSM generations and six refreshes, so that the last good file can
  reach the end of the row; feeds of a few trips in two home countries, frames and
  archives of up to three elements.
- Station module: two feeds, two versions, one fault or one outcome that is lost
  (`MaxLostOutcomes`), one restart; a wait of four
  polls; a pause and a cache life of one unit in three; two calls, two keys per
  batch, a cap of two stops.
- Searches: two requests and engines, limits 1 and 2; two sessions and two slots,
  one retry of a call and one of a write; two cells flushed by two (`LedgersAgree` is proved for any number);
  four searches aged over tiers of 1, 2 and 3 days, replays of two; thirteen trains
  over five stations.
- Administration: two admins or threads, two hubs, two codes, two ids of one
  station; settings with a cache life of one; two sources; two secrets and two
  keys; two addresses, one link, one ticket.
- Computations: up to four journeys against two, single rides and rides with
  access and egress, days of eight hours with a change of two, timetables of up
  to seven trains in pages of two, ids of up to five digits. Times are whole minutes.
  `ComparisonIsFair` has no theorem: that the sides are alike and that an unknown is no
  evidence is shown for these rides and minutes only, not for short rides that cross.

Symmetry is used in `coverage_two_workers` (executors and pairs) and in
`administration` (the clicks), which have no liveness property.

### Fairness

- `CoverageRun`: weak fairness of a live executor's own steps (its event loop),
  strong fairness of its claim, because a worker may crash between polls any
  number of times but is up again and again (docker restarts it: weak fairness of
  `Start`), and weak fairness of a heartbeat nobody refreshes getting old.
  Nothing is assumed of beats, Stop, crashes or faults.
- `RefreshProgress`: claims answer, threads resume, downloads end (each has a
  timeout), the writer thread writes, the clock passes, an open page polls the
  record. Nothing is assumed of beats, restarts, cancellations.
- `ExtractFollowUp`: the refresh reaches its `after_refresh`, the sender thread
  goes on, the process is restarted.
- `RebuildWorker`: the worker's loop and startup go on (`restart:
  unless-stopped`), time passes, a refresh ends (by its lease:
  `RefreshEnds` of `RefreshProgress`). Nothing is assumed of requests, cancels,
  crashes.
- `SessionServing`: a request runs to its end unless the process dies, the worker's
  loop goes on, web is restarted. Nothing is assumed of requests or faults.
- `FeedDownload`: a request is answered, cut or times out (every call has a
  timeout) and the loop goes on; nothing is assumed of the publisher.
- The wait for a station build: time passes and calls time out.
- `JourneyService`, `PairSearch`: an engine answers or times out, and the search's
  own steps go on. `SearchLedger`: days pass, the daily pass runs and a replay goes
  on.

## 4. Findings

Each is a property a doc of the code states and a run refutes.

1. `promotion_lost`: `promote_session` touches the reload trigger before it
   commits, and `handle_reload_trigger` deletes whatever trigger there is after
   its compose and nginx calls (`app/worker.py:1078`). A promotion that commits
   after the worker read the serving rows stays without container and without
   trigger, against `app/api/admin/sessions.py:3916` ("eventually consistent").
2. `raw_kept_by_replay`: one search past its age that a younger replay refers to
   makes the DELETE of `prune_once` fail and rolls the whole pass back, night after
   night; meanwhile no raw answer is shed (`app/retention.py:3`, `:8`).

### Other divergences met while modelling

The models do what the code does in these cases; the properties are stated so
that they except them, and no run is spent on them.

Coverage:
- `_persist_cancelled_run` is not fenced (`runner.py:1544`): an executor that lost
  its claim writes `cancelled` on the run another one holds, against
  `network_coverage.py:3087` and `runner.py:383`. It needs two live workers, or
  one cut off past its lease.
- an exception in the completion settles the run as failed (`executor.py:527`);
  the comment at `runner.py:1723` says it is left for a resume.
- `runner.py:653`: "only the timezone fallback can move the answer" is not so: a
  run without bounds takes the settings of the moment it runs.
- a bound in a skipped hour may make the window empty or reversed; the second
  occurrence of a repeated hour may be anchored a day early.
- `duration or 1<<30` takes a duration of 0 for unknown; two "NONE" keys are equal.
- a trip of the same minute as the last of a page is skipped when it does not
  appear on the next; a garbled page is taken for an empty one; OJP does not
  tell that its answer is partial; the HAFAS budget, a "real ceiling", is exceeded
  by up to one call, as a page is two.
- `best_transfers` is read beside durations that did not all parse;
  `fetch_oebb_two_step` "never raises" except on JSON that is not an object; an
  all-digit opaque id beyond the payload's length loses its form.

Refreshes and sources:
- `after_refresh` keeps the `run_id` of the last call, not of the newest refresh
  (`station_extract_upload.py:1441`, against 1373-1376): after a stall past the
  lease the newer record stays queued without a pass. A request cancelled while
  its end is written leaves its record queued until the next restart.
- a feed switched to the cross-border filter and back is called unchanged while
  the filtered file lies in its slot (`sessions.py:1881`, against 2457).
- `sessions.py:1505` says a refresh without a file "no-ops": the rotation moves
  what there is, and after as many failures as generations the last good map is
  gone.
- a NAP import writes back the list it read before fetching the catalogue: a save
  made meanwhile is lost. Two datasets of one URL are both imported.
- a udata resource without a date sorts above the dated ones.
- transfers and files passed through by the cross-border filter may name rows
  that were removed; `netex_calendar.py:290` says more of `OperatingDayRef` than
  the code does, and a day type with two UIC periods is left alone.

Builds and sessions:
- the marker of stopped services is unlinked though docker did not start them again
  (`worker.py:283`, `1463`, `1849`); only the log names them then, and after a `docker
  ps` that fails not even the log.
- an archive, or any edit, committed while a promotion renders is overwritten by the
  promotion's commit.
- after a snapshot that could not be recorded (`worker.py:570`) the build list shows an
  older build as the current one.
- a cancel that read the job pending and commits after the claim leaves a
  `cancelled` row whose build goes on (`sessions.py:3768`, against 3760).
- the claim writes back the max-memory flag the tick read and undoes an upgrade
  committed in between (`worker.py:481`, against `sessions.py:3636`).
- `graph_built` overwrites an archived state (`worker.py:532`); the comment at
  `sessions.py:670` that a failure rolls back is not true of files; an orphan
  whose removal failed is not retried by "next tick" (`worker.py:1031`), whose
  trigger is gone.

Searches and administration:
- a search all of whose sessions answered `no_route` is recorded as an error; the
  snapshot is read after the answer, so it need not be the "exact graph
  snapshot used"; a failed search that is rolled back is not recorded;
  `begin_search` says 'pending' and writes "ok".
- `invalidate_served_uics_cache` has no caller. The hubs of a stitched journey are
  not kept apart from its ends.
- a failed flush in a replay breaks the session for its remaining items
  (`replay.py:137`).
- the gates follow a PATCH that is flushed and then rolled back.
- two PATCHes of one hub or one credential can tear its row: the code of one, the
  id or the secret of the other. `network_coverage.py:911` says "writes nothing"
  of a step that writes ids.
- a ticket keeps the role it was issued with until it expires; two admins can
  demote each other.
- a stop may be placed by its own key when the call for its parent failed.

## 5. Proofs

The theorems hold for any sets and bounds that satisfy the named assumptions of
the modules; TLC evaluates these assumptions in the runs.

**`CoverageRunProofs`.** `IInv` adds to `TypeOK`, `CompletedHasEveryPair` and
`CounterNeverAhead`: what an executor read of the result rows is still there
(`SeenIsPast`: rows are only added until the run is deleted); an executor past
the missing-pair check saw all pairs (`SweptRunIsWhole`); a deleted run is
unheld (so the commit of a completing executor cannot revive it); a stopped run
is not queued. The counter's bound needs the first: a recount writes the size of
an earlier, smaller set. Cardinality facts are the lemmas `PairsCounted` and
`OneMorePair`. Theorems: `TypeCorrect`, `CompletedWhole`, `NeverAhead`,
`HolderCompletes`, `StoppedIsNeverClaimed`, and together `RowIsTrue` and
`ClaimsHold`, the two properties of the run.

With one worker at a time (`SingleWorker`), as deployed, more holds: `CountIsExact`,
`HolderCancels` and `LifecycleHolds`, the refinement of `CoverageRunLifecycle`. Their
invariant `Single` says that whoever executes a running run holds it and nobody writes
between its read and its commit. With two workers a stale recount or an unfenced cancel
breaks all three; SQL typed by an operator breaks the last two, so these assume
`~OperatorSql`.

**`RefreshProofs`.** `IInv` has three groups. `Record`: the row of a scope
was claimed by a request of that scope, once; a request that learnt it lost the
row does not own it; a request that ends with finished did all its tasks or
lost the row. `QueueInOrder`: the counts waiting for the writer thread grow,
lie between what the row shows and what the request reached; without it neither
the fence nor the order of the writes is inductive. `Holding`: without stalls a
request in its body owns its row (`PunctualOwns`), from which mutual exclusion of
the work follows by exclusion of the rows. Theorems: `TypeCorrect`,
`RowsExclude`, `WorkExcludes`, `RecordFenced`, `FinishedIsWhole`,
`ClaimsAreEnded`, `CountNeverGoesBack`, and together `RecordHolds` and
`RefreshesAlone`.

**`RebuildWorkerProofs`.** `IInv` has one conjunct per concern, each with a step
lemma of its own. `Rows`: a request that has not inserted has no row, and a
cancel only ever read a row that exists. `Started`: a folder or a container
belongs to a job that was claimed. `Held`: the job at hand is neither pending nor
withdrawn. With these a cancel that found its job pending is final.
`Building`: the folder at hand is the newest of its session (so the prune keeps
it), whole before the link, and linked when the prune runs; `CurrentIsWhole` needs
all three. `Alone`: outside a build and a restart no container is alive.
`Marked`: services are stopped under a marker, or were reported as left down. The last two hold when
`Faults` is FALSE. Theorems: `TypeCorrect`, `FilesAreRemembered`,
`CancelledIsNotStarted`, `LinkedIsWhole`, and, assuming `~Faults`,
`BuildsOneByOne`, `StoppedAreNotForgotten` and `BuildsSafe`.

Of the queue of station passes, `FInv` extends the invariant of `RefreshProgress`,
which survives the composition because the sender thread writes one column of a record
(`RefreshesBesideSender`, `CountBesideSender`). A pass under way is of a finished record
(`ExtractIsFollowUp`), so only a claim, which resets it, takes the record away; and a
request about to queue its pass still owns its record (`EndedOwns`) unless the event
loop stalls. Theorems: `QueueAndRecordsAgree`, and assuming `~Stalls`,
`QueuedPassExists`: a stalled refresh displaces the pass of a newer one.

**`SessionServingProofs`.** Between the two fragments, and between them and the
commit, nothing agrees; `ServingInv` says what does: unless two renderings
overlapped only one request renders, what it wrote is what it selected, and that
is all it sees to be serving but what is `unrendered`; a session is in that set from
the PATCH or creation that leaves it out of the fragments to the next SELECT. A row
deleted by a flush is locked (`LockedRows`), and of other requests only a promotion
writes one, at its commit.
Theorems: `ServingFollows`, `DeletedIsGone`.

**`AdministrationProofs`.** `HubInv` says what a click remembers (the row it read,
answers for the station it asked for); `CacheIsYoung` how long the cached
configuration may differ from the table; `TokenInv` that a held token is of the login
that got it, and that what is cached expires a margin before the end of its life, counted
from when its answer was read. `SourcesInv` says that the lists a row, a form, an import and a refresh hold
are valid, that the countries an import read have stations, and that no form or import
holds a later mark than the row's, but for a save that put older marks back (`MarksKnown`).
What an import makes of any number of datasets is an induction over data: `ListsAreMade`
and `MadeJoin` take the least number of datasets for which a claim fails and refute it
from the number before (`SmallestOf`). Theorems: `CatalogueStaysTrue`, `TokensAreKept`,
`EditsStayBounded` for any number of concurrent edits, and `SecretsFitToo`, which assumes
one edit of a credential at a time: two edits may store the scheme of one with the secret
of the other.

**`StationProofs`.** `ClientInv`: a call under way began after the last pause, what is
cached was read before it was replaced. `WaitInv`: the outcome of the wait is of the
newest look, within its deadline. `ExtractsInv`: the owner of the machine lock is the
one that extracts, a sent mark is of a file the module holds, and for every queued file
either the page tells of it, a pass has it before it, or it is named as overwritten or
untold (`PageInv`). `PlacingInv`: the
answers of a search and of the shared cache are what the module says; unless a call
failed, each key of the group at hand is answered or in a call (`Looks`) and the groups
before it have their stops placed (`PlacedBefore`). It rests on `Slices`, that a list cut
at multiples of the limit has each key in one slice. `StopsInv`: the cached OeBB stops
are of their series and number, each once, the oldest first. Theorems: `ModuleHeard`,
`ExtractsAreOfTheirFiles`, `StopsStayPlaced`.

**`JourneysProofs`.** `JourneyInv`: a search asks the sessions chosen at its start and
no other, and the gate counts the searches that ask. `PairInv`: how each failure of a
query is reached, and that a pair has a row exactly when one was written. `PairKept`: what a query that is over keeps of what its slots found; the
merge is proved by two inductions, over the trips of an answer (`AccumulateKeeps`) and over
the slots (`MergedKeeps`). `SweepInv`: the holder of a run knows every answer saved, so it asks
for none twice. `LedgerInv`: the row of an open replay is free and its original still
there. `VerdictInv`: past the first call both ends are stations found without an error,
and a verdict is the second answer's or a failure's; `SummaryIsTrue` and `ZeroBefore` are
the facts about what is computed of an answer and of an id. `WindowInv`: the row of a run
is what was asked as the code stores it, and as long as the settings it follows are those
of its start, its window is on the day of the departure (`AnchoredOnItsDay`: local clocks
are in the order of the days whatever the offsets). `PagesInv`: no minute with
a trip is passed over before the last trip collected, none is collected twice, and the
calls made exceed the budget by one page's timeout at most; a page keeps it because the next anchor is the
latest departure answered and a page that does not move it ends the paging
(`BatchesTell`, `AnchorMoves`, `PageKeeps`). Theorems: `LedgersHold`, `NoStepUndoes`,
`PairsFailWhole`, `PairsKeepTheBest`, `SearchesAreRecorded`, `OebbUnderstood` and `SearchedAsAsked`.

**`IntakeProofs`.** One invariant per part of `MCIntake`, combined over its steps.

- `StoreInv` of `GraphStore`: builds are numbered as their folders are made
  (`BuildNumbers`); until the marker is written it is older than the file being copied
  (`CopyTold`); a clean-up under way names neither the folder being built nor, once it
  has listed the disk, the graph being served (`CleaningSpares`); the recorded snapshot
  is the graph linked, but between the link and the record and after a record that failed,
  when it is an older one (`SnapshotFollows`). The last
  needs that a session is deleted at most once: with two deletions a clean-up that read
  the row as gone can remove what the session created since has built (a storage report
  names the whole folder, and the deletion of the report's choice is not checked again).
  Hence `GraphsAreStored` assumes `MaxDeletions <= 1`; `StoreHolds` states the parts that
  hold without it.
- `OsmInv` of `OsmRefresh`: a file is as many refreshes old as its place says, during a
  rotation one more where the shift has passed, and the place about to be filled is
  empty; a failed rename or a kill breaks the ages, not the order.
- `IntakeInv` of `FeedIntake`: a task works in the slot its own copy of the configuration
  gives (`JobFits`), a file is put where the slot was emptied (`PlacesApart`), and without
  an upload in between or a crash the state kept of a slot is of what is in it
  (`StateKnown`). `SavesAreKept` holds for any interleaving.
- `DownloadInv` of `FeedDownload`: what was received is of the version the validator
  names, and in a body of the body's (`Uniform`), which makes `If-Range` and the restart
  on a refusal enough; and every request was paid for by one of the budgets (`Spent`).
  Theorem `DownloadsAreWhole`.
- `ResolverInv`: the walk of a dated resolver asked one day after the other and had a miss
  for each but the last (`WalkHolds`); of the entries that match, the first that none
  outranks exists (`FirstIsHighest`, from the least-number principle). Theorem
  `ResolversNeverGuess`, for every catalogue.
- `FilterInv` of `CrossBorderFilter`: what was written for a home is the filter of the
  national feed. The rest is about that definition, for every feed: what it keeps names
  only what it keeps, a trip has one origin, and both steps that follow the order of
  `stop_times` (a trip's countries, its first call) are the same for every order.
- `CalendarInv` of `NetexRepair`: the array of a day type holds what the assignments read
  so far say (`ReadSoFar`, `AppliedSoFar`), for a streamed frame with what its scan knows
  of their order. It rests on four inductions: a finite set listed in an order has each
  element at one place (`Ordered`), a byte array set day by day (`SetDay`, `SetDays`),
  the assignments sorted (`SortedIs`), and, of a stream in which nothing was counted out of
  order, the days said as listed are those said when sorted (`SortedSame`). Beside it
  `NotesTold`: the notes `needs_conversion` decides on hold every assignment read and no
  period that none of them names, so a frame is left as published only where MOTIS reads it
  right, provided no assignment that gives days names a period that ends before it begins
  (`PeriodsRun`, the hypothesis of `RewritesAreSound`).
- `RepairInv` of the pass over a zip: a member seen is written or waits, once; and
  `MembersFit`: what the pass gathered so far is that of the members seen (`Gathered`), a
  member written when it was seen needed nothing else (`AtFirst`), one that waited was
  written with what every member defines (`AtEnd`). What each repair leaves a member is a
  lemma of its own, joined in `IsRepairOf`. The longest is about derived patterns: two
  refitted courses share an id only when they call at the same stops of the same pattern
  (`DerivedSame`), no id is one the file had (`DerivedIsNew`), and the points a derived
  pattern keeps are the stops of its courses in their order (`DerivedIs`).

Theorems `RewritesKeepTheirRows`, `CalendarsAreExact` and `MembersStayWhole` state the parts
of `RewrittenIsSound` that hold for every feed; `RewritesAreSound` states all of it under
`PeriodsRun`. `FeedsArriveWhole` is `ArrivedIsWhole`, of slots, downloads and resolvers
together; it assumes `~Overlap`, for an upload in the middle of a refresh may replace the file
the refresh reports as unchanged. `NothingIsLost` is the action property `FilesAreKept`.

The proofs rest on the assumptions the modules name. They say that sets counted are
finite, that bounds are numbers (and positive where the code divides or retries by
them), that the value for "none" is none of the data, and what an external answer can
be (`PayloadAssumption`, `HubAssumption`, `JourneyAssumption`, `VerdictAssumption`).
`WindowAssumption` says that a zone has two numeric offsets, UTC none, and that there are
settings; `FilterAssumption` says that a feed names only rows it has and that a code or a point
stands for the land the stop is in; `CalendarAssumption` that a date is a day;
`ZipAssumption` that a published pattern names a point once and has no derived id;
`PeriodsRun` that a period that gives days has both its bounds, in their order, and that "no
days" is not a set of days.
`PagesAssumption` that the whole budget holds two page timeouts, as the
search gives it (`HAFAS_TIMEOUT_MS * 2`), and that a fingerprint names one trip of a timetable.

**Only model-checked.**

- Liveness, which is out of the prover's reach: `RunEnds`, `RefreshEnds`,
  `PassIsReported`, `PendingIsTaken`, `TriggerIsConsumed`, `DownloadEnds`, `WaitIsOver`,
  `SearchesEnd`.
- What is computed from data by recursion over several lists at a time: stitching, the
  alignment and pairing of journeys (`ComparisonIsFair`). The induction theorems of the
  library take an operator and cannot be instantiated; where an induction is proved (the
  lists of an import, the days of a calendar, the members of a list) it is by the least
  failing number, once for each recursive definition. `SearchesAreTrue` is therefore proved in part (`PairsFailWhole`, `PairsKeepTheBest`,
  `SearchesAreRecorded`).
- What a second deletion of a session may do to its graphs (`SnapshotIsServed` beyond
  `MaxDeletions <= 1`), and the feeds of a refresh with an upload in its middle.

## 6. Not modelled

`PROJECT.json` gives a reason for each component. In short:

- conversions without shared state: reading ZIP, XML, GTFS text and time zones,
  extraction of stops and geometry, the adapters of the planners' formats, the
  text of reasons, names, transliteration and distances;
- I/O whose content nothing here depends on: TLS, mail, the bodies of lookups,
  metrics, logs, pages and reports (reads of what the modelled parts write);
- figures: heap and memory, progress in bytes;
- tables edited in single transactions: station master data, catalogues, the
  audit tier;
- the choice among several queued coverage runs, the summary's statistics.

Inside the modelled components, time is a Boolean per lease or debounce or a small
count of units, and payloads and labels are dropped.

## 7. Plan

What is left: one induction for each recursive definition of matching and stitching.
