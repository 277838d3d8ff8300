---------------------------- MODULE StationExtracts ----------------------------
(***************************************************************************)
(* The stop extracts of one session's feeds (app/station_extract.py) and   *)
(* the passes that send them (app/station_extract_upload.py). The warm     *)
(* thread, the web's sender pass, the pass before a graph build and the    *)
(* extraction a pass gave up waiting for work on the same cache folder,    *)
(* the same slots and the same module while refreshes replace the files.   *)
(***************************************************************************)
EXTENDS Naturals, FiniteSets

CONSTANTS
    Stops,          \* the feeds of the session
    Cached,         \* those whose extract is in the cache at the start
    Nobody,         \* the machine lock is free
    MaxFiles,       \* files a feed's slot receives
    MaxPlacements,  \* refreshes, each of one feed
    Tries,          \* TRIES: the failures of a counted reason that are remembered
    CallRetries,    \* Patience.transient_retries
    MaxBuildPasses, MaxExtractFaults, MaxLostOutcomes, MaxRestarts

ASSUME ExtractsAssumption ==
    /\ IsFiniteSet(Stops) /\ Cached \subseteq Stops
    /\ {MaxFiles, MaxPlacements, Tries, CallRetries} \subseteq Nat
    /\ {MaxBuildPasses, MaxExtractFaults, MaxLostOutcomes, MaxRestarts} \subseteq Nat
    /\ Nobody \notin Stops \cup {"pass", "build", "warm", "stray"} /\ Tries > 0 /\ MaxFiles > 0

Files == 0..MaxFiles        \* 0: none; a file stands for its sha256
Passes == {"pass", "build"}
Actors == Passes \cup {"warm", "stray"}

VARIABLES
    slot,       \* the file in each feed's slot
    fetched,    \* the file its fetch state names
    cache,      \* cache[f][v]: the file the extract labelled v was read from, 0: no extract
    failed,     \* the failure recorded beside the cache
    holds,      \* what the module holds, as cache
    told,       \* the outcome kept for the Sessions page, and the file it is about
    lock,       \* owner of the machine lock
    job,        \* what each actor does
    refresh,    \* the feed a refresh is placing
    warmWaits, passWaits,   \* a job in the warm queue, a pass in the sender's queue
    due,        \* the newest file of each feed a pass was queued for
    late,       \* feeds whose outcome was overwritten by that of an older file
    untold,     \* history: feeds the sender's last pass took and left without an outcome
    extractFaults, lostOutcomes, restarts, placements, buildPasses

extractVars == <<slot, fetched, cache, failed, holds, told, lock, job, refresh, warmWaits,
                 passWaits, due, late, untold, extractFaults, lostOutcomes, restarts, placements,
                 buildPasses>>
page == <<told, late, untold, lostOutcomes>>
bounds == <<due, restarts, placements, buildPasses>>

Resting == [pc |-> "idle", left |-> {}, feed |-> Nobody, sha |-> [f \in Stops |-> 0],
            fd |-> 0, down |-> FALSE, window |-> FALSE, retries |-> 0]
NoFailure == [file |-> 0, reason |-> "none", tries |-> 0]
Fault == extractFaults < MaxExtractFaults /\ extractFaults' = extractFaults + 1

\* The first files were just fetched: their jobs are queued. A feed may have no file yet.
ExtractInit ==
    /\ slot \in [Stops -> {0, 1}] /\ fetched = slot
    /\ cache = [f \in Stops |-> [v \in Files |-> IF f \in Cached /\ v = slot[f] THEN v ELSE 0]]
    /\ holds = [f \in Stops |-> [v \in Files |-> 0]]
    /\ failed = [f \in Stops |-> NoFailure]
    /\ told = [f \in Stops |-> [state |-> "none", file |-> 0]]
    /\ lock = Nobody /\ job = [a \in Actors |-> Resting] /\ refresh = Nobody
    /\ warmWaits = TRUE /\ passWaits = TRUE /\ due = slot /\ late = {} /\ untold = {}
    /\ placements = 0
    /\ extractFaults \in 0..MaxExtractFaults /\ lostOutcomes \in 0..MaxLostOutcomes
    /\ restarts \in 0..MaxRestarts /\ buildPasses \in 0..MaxBuildPasses   \* spent beforehand

----------------------------------------------------------------------------
(* A refresh: the file is placed, then its fetch state saved, then the warm *)
(* job and the pass queued.                                                 *)

PlaceFile(f) ==
    /\ refresh = Nobody /\ placements < MaxPlacements /\ slot[f] \in 1 .. MaxFiles - 1
    /\ slot' = [slot EXCEPT ![f] = @ + 1] /\ refresh' = f /\ placements' = placements + 1
    /\ UNCHANGED <<fetched, cache, failed, holds, page, lock, job, warmWaits, passWaits, due,
                   extractFaults, restarts, buildPasses>>

SaveFetchState ==
    /\ refresh # Nobody /\ fetched[refresh] # slot[refresh]
    /\ fetched' = [fetched EXCEPT ![refresh] = slot[refresh]]
    /\ UNCHANGED <<slot, cache, failed, holds, page, lock, job, refresh, warmWaits, passWaits,
                   extractFaults, bounds>>

\* save_state: the fetch state is saved, or lost, which is no error.
QueueExtracts ==
    /\ refresh # Nobody
    /\ IF fetched[refresh] = slot[refresh] THEN UNCHANGED extractFaults ELSE Fault
    /\ warmWaits' = TRUE /\ passWaits' = TRUE /\ refresh' = Nobody
    /\ due' = [due EXCEPT ![refresh] = fetched[refresh]]
    /\ UNCHANGED <<slot, fetched, cache, failed, holds, page, lock, job, restarts, placements,
                   buildPasses>>

----------------------------------------------------------------------------
(* What is known of an extract.                                             *)

CountedReasons == {"wall_clock_limit", "crashed"}
RememberedReasons == {"bad_archive"}        \* one of REMEMBERED_REASONS
OtherReasons == {"stopped"}                 \* any other: never remembered

Remembered(f, v) ==
    /\ failed[f].file = v
    /\ failed[f].reason \in CountedReasons => failed[f].tries >= Tries

\* _cached: an extract that reads back whole.
HasFile(f, v) == cache[f][v] # 0

Known(f, v) == HasFile(f, v) \/ Remembered(f, v)

\* _prune: of a feed's extracts, only the one of v is kept, if any.
Pruned(f, v, file) == [cache EXCEPT ![f] = [w \in Files |-> IF w = v THEN file ELSE 0]]

\* _remember: the record of the failure of v, or of no failure; a record it writes prunes
\* every extract of the feed and every other record.
Remember(f, v, reason) ==
    LET same == failed[f].file = v /\ failed[f].reason = reason
        counted == failed[f].file = v /\ failed[f].tries > 0
    IN IF reason \in OtherReasons
       THEN /\ failed' = [failed EXCEPT ![f] = IF counted THEN NoFailure ELSE @]
            /\ UNCHANGED cache
       ELSE /\ failed' = [failed EXCEPT ![f] =
                    [file |-> v, reason |-> reason,
                     tries |-> IF reason \notin CountedReasons THEN 0
                               ELSE IF same THEN failed[f].tries + 1 ELSE 1]]
            /\ cache' = Pruned(f, 0, 0)

\* record_outcome: whichever pass records last is what the page shows; an outcome that
\* cannot be saved is lost, which is no error.
Record(a, f, state) ==
    \/ /\ told' = [told EXCEPT ![f] = [state |-> state, file |-> job[a].sha[f]]]
       /\ late' = IF job[a].sha[f] < told[f].file THEN late \cup {f} ELSE late \ {f}
       /\ UNCHANGED <<untold, lostOutcomes>>
    \/ /\ lostOutcomes < MaxLostOutcomes /\ lostOutcomes' = lostOutcomes + 1
       /\ untold' = IF a = "pass" THEN untold \cup {f} ELSE untold
       /\ UNCHANGED <<told, late>>

Done(a) ==
    IF a = "stray" THEN Resting
    ELSE [job[a] EXCEPT !.pc = "next", !.feed = Nobody, !.fd = 0, !.retries = 0,
                        !.sha = IF a = "warm" THEN Resting.sha ELSE @]

\* The feed is done, with an outcome when the actor is a pass.
FeedEnds(a, state) ==
    /\ job' = [job EXCEPT ![a] = Done(a)]
    /\ IF a \in Passes THEN Record(a, job[a].feed, state) ELSE UNCHANGED page

Goto(a, pc) == job' = [job EXCEPT ![a].pc = pc]

----------------------------------------------------------------------------
(* The warm thread and the passes, feed by feed.                            *)

StartWarm ==
    /\ job["warm"].pc = "idle" /\ warmWaits /\ warmWaits' = FALSE
    /\ job' = [job EXCEPT !["warm"] = [Resting EXCEPT !.pc = "next", !.left = Stops]]
    /\ UNCHANGED <<slot, fetched, cache, failed, holds, page, lock, refresh, passWaits,
                   extractFaults, bounds>>

\* _cached_for, before any snapshot.
WarmFeed(f) ==
    /\ job["warm"].pc = "next" /\ f \in job["warm"].left
    /\ job' = IF fetched[f] = 0 \/ Known(f, fetched[f]) THEN [job EXCEPT !["warm"].left = @ \ {f}]
              ELSE [job EXCEPT !["warm"].left = @ \ {f}, !["warm"].feed = f, !["warm"].pc = "open"]
    /\ UNCHANGED <<slot, fetched, cache, failed, holds, page, lock, refresh, warmWaits,
                   passWaits, extractFaults, bounds>>

\* session_feeds: the file of each feed, as its fetch state names it.
SessionFeeds == fetched

\* What was queued and not told when the sender's pass ends, or does not come.
Untold(a, feeds) == untold' = IF a = "pass" THEN feeds ELSE untold

\* send_session reads the feeds once, at the start; without them the pass ends as an error.
StartPass(a) ==
    /\ job[a].pc = "idle"
    /\ IF a = "pass" THEN passWaits /\ passWaits' = FALSE /\ UNCHANGED buildPasses
       ELSE buildPasses < MaxBuildPasses /\ buildPasses' = buildPasses + 1 /\ UNCHANGED passWaits
    /\ \/ /\ job' = [job EXCEPT
                        ![a] = [Resting EXCEPT !.pc = "next", !.left = Stops, !.sha = SessionFeeds]]
          /\ Untold(a, {}) /\ UNCHANGED extractFaults
       \/ Fault /\ Untold(a, Stops) /\ UNCHANGED job
    /\ UNCHANGED <<slot, fetched, cache, failed, holds, told, lock, refresh, warmWaits, late,
                   lostOutcomes, due, restarts, placements>>

\* _Pass.feed up to its HEAD: a feed without an archive is skipped, and nothing more is
\* sent once the module is down.
PassFeed(a, f) ==
    /\ job[a].pc = "next" /\ f \in job[a].left
    /\ IF job[a].down \/ job[a].sha[f] = 0
       THEN /\ job' = [job EXCEPT ![a].left = @ \ {f}]
            /\ Record(a, f, IF job[a].sha[f] = 0 THEN "skipped" ELSE "unavailable")
       ELSE /\ job' = [job EXCEPT ![a].left = @ \ {f}, ![a].feed = f,
                                  ![a].retries = CallRetries, ![a].pc = "head"]
            /\ UNCHANGED page
    /\ UNCHANGED <<slot, fetched, cache, failed, holds, lock, refresh, warmWaits, passWaits,
                   extractFaults, bounds>>

\* The warm thread and the passes end with their last feed; a build's pass also when its job
\* is cancelled.
ActorEnds(a) ==
    /\ \/ job[a].pc = "next" /\ job[a].left = {}
       \/ job[a].pc # "idle" /\ a = "build"
    /\ job' = [job EXCEPT ![a] = Resting]
    /\ UNCHANGED <<slot, fetched, cache, failed, holds, page, lock, refresh, warmWaits,
                   passWaits, extractFaults, bounds>>

\* HEAD: the module has the version, or lacks it.
AskHeld(a) ==
    LET f == job[a].feed IN
    /\ job[a].pc = "head"
    /\ IF holds[f][job[a].sha[f]] # 0 THEN FeedEnds(a, "held")
       ELSE /\ job' = [job EXCEPT ![a].pc = "extract", ![a].retries = 0]
            /\ UNCHANGED page
    /\ UNCHANGED <<slot, fetched, cache, failed, holds, lock, refresh, warmWaits, passWaits,
                   extractFaults, bounds>>

\* A call that fails for the moment is tried again while retries are left; ...
RetryCall(a) ==
    /\ job[a].retries > 0 /\ job' = [job EXCEPT ![a].retries = @ - 1]
    /\ UNCHANGED page

\* ... after the last, an unreachable module is down for the rest of the pass.
ModuleDown(a) ==
    /\ job' = [job EXCEPT ![a] = [Done(a) EXCEPT !.down = TRUE]]
    /\ Record(a, job[a].feed, "unavailable")

\* _refused: another answer ends this feed only.
FeedRefused(a) == FeedEnds(a, "refused")

CallFails(a) ==
    /\ job[a].pc \in {"head", "put"} /\ Fault
    /\ RetryCall(a) \/ ModuleDown(a) \/ FeedRefused(a)
    /\ UNCHANGED <<slot, fetched, cache, failed, holds, lock, refresh, warmWaits, passWaits,
                   bounds>>

\* _send: nothing is extracted once the module's window is full, or the budget is spent;
\* a build's pass looks in the cache only.
BeginExtract(a) ==
    /\ job[a].pc = "extract"
    /\ \/ /\ job[a].window /\ FeedEnds(a, "unavailable") /\ UNCHANGED extractFaults
       \/ /\ ~job[a].window /\ Fault /\ FeedEnds(a, "skipped")
       \/ /\ ~job[a].window /\ Goto(a, IF a = "build" THEN "known" ELSE "open")
          /\ UNCHANGED <<page, extractFaults>>
    /\ UNCHANGED <<slot, fetched, cache, failed, holds, lock, refresh, warmWaits, passWaits,
                   bounds>>

----------------------------------------------------------------------------
(* _snapshot: the slot is opened, the fetch state read, the slot linked, and  *)
(* the link kept only when it is the file opened and has the state's digest. *)

OpenSlot(a) ==
    /\ job[a].pc = "open" /\ job' = [job EXCEPT ![a].fd = slot[job[a].feed], ![a].pc = "link"]
    /\ UNCHANGED <<slot, fetched, cache, failed, holds, page, lock, refresh, warmWaits,
                   passWaits, extractFaults, bounds>>

\* _link_snapshot: a link to the slot is the file opened before.
SameFile(a) == slot[job[a].feed] = job[a].fd

\* Mutant: the digest of the snapshot is not compared.
VerifiedNever(a) == TRUE

\* _verify: that file has the digest the fetch state names.
Verified(a) == fetched[job[a].feed] = job[a].fd

\* _extract: a pass wants the very file it asked the module about.
AskedFor(a) == a \in Passes => fetched[job[a].feed] = job[a].sha[job[a].feed]

\* The state is read between the opening and the link; a change after that only makes
\* the link fail.
LinkSnapshot(a) ==
    LET f == job[a].feed IN
    /\ job[a].pc = "link"
    /\ IF SameFile(a) /\ Verified(a) /\ AskedFor(a)
       THEN /\ job' = [job EXCEPT ![a].pc = "known", ![a].sha[f] = fetched[f]]
            /\ UNCHANGED page
       ELSE FeedEnds(a, "skipped")
    /\ UNCHANGED <<slot, fetched, cache, failed, holds, lock, refresh, warmWaits, passWaits,
                   extractFaults, bounds>>

----------------------------------------------------------------------------
(* ensure_extract                                                           *)

\* The retries of the PUT are its own.
HasExtract(a) ==
    IF a \in Passes
    THEN /\ job' = [job EXCEPT ![a].pc = "put", ![a].retries = CallRetries]
         /\ UNCHANGED page
    ELSE FeedEnds(a, "ready")

FirstLook(a) ==
    LET f == job[a].feed  v == job[a].sha[f] IN
    /\ job[a].pc = "known"
    /\ IF HasFile(f, v) THEN HasExtract(a)
       ELSE IF Known(f, v) \/ a = "build" THEN FeedEnds(a, "skipped")
       ELSE Goto(a, "lock") /\ UNCHANGED page
    /\ UNCHANGED <<slot, fetched, cache, failed, holds, lock, refresh, warmWaits, passWaits,
                   extractFaults, bounds>>

\* One extraction at a time on the machine; a caller that waited too long is `busy`.
TakeLock(a) ==
    /\ job[a].pc = "lock"
    /\ \/ lock = Nobody /\ lock' = a /\ Goto(a, "again") /\ UNCHANGED <<page, extractFaults>>
       \/ lock # Nobody /\ Fault /\ FeedEnds(a, "skipped") /\ UNCHANGED lock
    /\ UNCHANGED <<slot, fetched, cache, failed, holds, refresh, warmWaits, passWaits, bounds>>

\* Made, or refused, while this one waited.
SecondLook(a) ==
    LET f == job[a].feed  v == job[a].sha[f] IN
    /\ job[a].pc = "again"
    /\ IF HasFile(f, v) THEN HasExtract(a) /\ lock' = Nobody
       ELSE IF Known(f, v) THEN FeedEnds(a, "skipped") /\ lock' = Nobody
       ELSE Goto(a, "child") /\ UNCHANGED <<page, lock>>
    /\ UNCHANGED <<slot, fetched, cache, failed, holds, refresh, warmWaits, passWaits,
                   extractFaults, bounds>>

\* _make: the extract takes its name and every other file of the feed is pruned.
ChildExtracts(a) ==
    LET f == job[a].feed  v == job[a].sha[f] IN
    /\ job[a].pc = "child"
    /\ cache' = Pruned(f, v, job[a].fd)
    /\ failed' = [failed EXCEPT ![f] = NoFailure]
    /\ HasExtract(a) /\ lock' = Nobody
    /\ UNCHANGED <<slot, fetched, holds, refresh, warmWaits, passWaits, extractFaults, bounds>>

ChildFails(a) ==
    /\ job[a].pc = "child" /\ Fault
    /\ \E reason \in CountedReasons \cup RememberedReasons \cup OtherReasons :
            Remember(job[a].feed, job[a].sha[job[a].feed], reason)
    /\ FeedEnds(a, "skipped") /\ lock' = Nobody
    /\ UNCHANGED <<slot, fetched, holds, refresh, warmWaits, passWaits, bounds>>

\* _extract_within: a pass whose budget is over leaves its extraction behind.
GiveUp ==
    /\ job["pass"].pc \in {"lock", "again", "child"} /\ job["stray"].pc = "idle" /\ Fault
    /\ job' = [job EXCEPT !["stray"] = [job["pass"] EXCEPT !.left = {}, !.retries = 0],
                          !["pass"] = Done("pass")]
    /\ Record("pass", job["pass"].feed, "skipped")
    /\ lock' = IF lock = "pass" THEN "stray" ELSE lock
    /\ UNCHANGED <<slot, fetched, cache, failed, holds, refresh, warmWaits, passWaits, bounds>>

----------------------------------------------------------------------------
(* PUT                                                                      *)

\* _put_answer: recorded, or unchanged.
PutAnswer(f, v) == IF holds[f][v] = 0 THEN "sent" ELSE "held"

\* The extract is read as it is sent: one pruned since is gone.
Put(a) ==
    LET f == job[a].feed  v == job[a].sha[f] IN
    /\ job[a].pc = "put"
    /\ IF ~HasFile(f, v) THEN FeedEnds(a, "skipped") /\ UNCHANGED holds
       ELSE /\ holds' = [holds EXCEPT ![f][v] = cache[f][v]]
            /\ FeedEnds(a, PutAnswer(f, v))
    /\ UNCHANGED <<slot, fetched, cache, failed, lock, refresh, warmWaits, passWaits,
                   extractFaults, bounds>>

\* A PUT that is cut short: the module took the file, or not.
MaybeTaken(f, v) == holds' \in {holds, [holds EXCEPT ![f][v] = cache[f][v]]}

\* Its answer is lost.
PutAnswerLost(a) ==
    LET f == job[a].feed  v == job[a].sha[f] IN
    /\ job[a].pc = "put" /\ cache[f][v] # 0 /\ Fault
    /\ MaybeTaken(f, v) /\ ModuleDown(a)
    /\ UNCHANGED <<slot, fetched, cache, failed, lock, refresh, warmWaits, passWaits, bounds>>

\* 429: the half-hour window is full, for the rest of the pass.
PutRefusedFull(a) ==
    /\ job[a].pc = "put" /\ Fault
    /\ job' = [job EXCEPT ![a] = [Done(a) EXCEPT !.window = TRUE]]
    /\ Record(a, job[a].feed, "unavailable")
    /\ UNCHANGED <<slot, fetched, cache, failed, holds, lock, refresh, warmWaits, passWaits,
                   bounds>>

----------------------------------------------------------------------------

\* The feeds a pass has yet to tell of.
TodoOf(j) ==
    IF j.pc = "idle" THEN {} ELSE IF j.pc = "next" THEN j.left ELSE j.left \cup {j.feed}

\* An exception no feed expects ends the pass as an error, with what it has left untold; an
\* extraction's own is one of its reasons, and a feed's outcome.
PassRaises(a) ==
    LET f == job[a].feed  v == job[a].sha[f] IN
    /\ job[a].pc \in {"next", "head", "extract", "put"} /\ Fault
    /\ job' = [job EXCEPT ![a] = Resting] /\ Untold(a, untold \cup TodoOf(job[a]))
    /\ IF job[a].pc = "put" /\ HasFile(f, v) THEN MaybeTaken(f, v) ELSE UNCHANGED holds
    /\ UNCHANGED <<slot, fetched, cache, failed, told, lock, refresh, warmWaits, passWaits, late,
                   lostOutcomes, bounds>>

\* The web process dies: its threads, its queues and its extraction with it. At the next
\* start resume_after_restart queues the passes whose refresh record says they were to come,
\* or none when it cannot read the records.
WebRestarts ==
    LET toCome == passWaits \/ job["pass"].pc # "idle" IN
    /\ restarts < MaxRestarts /\ restarts' = restarts + 1
    /\ \/ passWaits' = toCome /\ UNCHANGED <<untold, extractFaults>>
       \/ passWaits' = FALSE /\ Fault /\ untold' = IF toCome THEN Stops ELSE untold
    /\ job' = [a \in Actors |-> IF a = "build" THEN job[a] ELSE Resting]
    /\ lock' = Nobody /\ refresh' = Nobody /\ warmWaits' = FALSE
    /\ UNCHANGED <<slot, fetched, cache, failed, holds, told, late, lostOutcomes, due, placements,
                   buildPasses>>

ActorStep(a) ==
    \/ \E f \in Stops : a = "warm" /\ WarmFeed(f)
    \/ \E f \in Stops : a \in Passes /\ PassFeed(a, f)
    \/ ActorEnds(a) \/ AskHeld(a) \/ BeginExtract(a) \/ OpenSlot(a)
    \/ LinkSnapshot(a) \/ FirstLook(a) \/ TakeLock(a) \/ SecondLook(a) \/ ChildExtracts(a)
    \/ Put(a)

ExtractNext ==
    \/ \E f \in Stops : PlaceFile(f)
    \/ SaveFetchState \/ QueueExtracts
    \/ StartWarm \/ \E a \in Passes : StartPass(a)
    \/ \E a \in Actors : ActorStep(a)
    \/ \E a \in Passes : CallFails(a) \/ PutAnswerLost(a) \/ PutRefusedFull(a) \/ PassRaises(a)
    \/ \E a \in Actors : ChildFails(a)
    \/ GiveUp \/ WebRestarts

ExtractSpec == ExtractInit /\ [][ExtractNext]_extractVars

----------------------------------------------------------------------------
\* Every variable stays in its type; the extraction lock is held by the one actor that
\* extracts, and pruning leaves at most one extract of a feed in the cache.
ExtractTypeOK ==
    /\ slot \in [Stops -> Files] /\ fetched \in [Stops -> Files]
    /\ cache \in [Stops -> [Files -> Files]] /\ holds \in [Stops -> [Files -> Files]]
    /\ \A f \in Stops : failed[f].file \in Files /\ failed[f].tries \in 0..Tries
    /\ lock \in Actors \cup {Nobody} /\ refresh \in Stops \cup {Nobody}
    /\ \A f \in Stops : Cardinality({v \in Files : cache[f][v] # 0}) <= 1
    /\ (lock # Nobody) = (\E a \in Actors : job[a].pc \in {"again", "child"})
    /\ Cardinality({a \in Actors : job[a].pc \in {"again", "child"}}) <= 1

\* An extract, in the cache or at the module, was read from the file its name says:
\* however a refresh, a crash between the file and its state, and four readers interleave.
LabelIsContent ==
    \A f \in Stops, v \in Files : cache[f][v] \in {0, v} /\ holds[f][v] \in {0, v}

\* An extraction runs only for a file whose extract is not there and whose failure is
\* not remembered, though two may have been asked for it at once.
NoWastedExtraction ==
    \A a \in Actors : job[a].pc = "child" => ~Known(job[a].feed, job[a].sha[job[a].feed])

\* The page says a file was sent, or was held, only when the module holds that file.
SentIsHeld ==
    \A f \in Stops : told[f].state \in {"sent", "held"} => holds[f][told[f].file] # 0

\* Once nothing is queued and no pass runs, the page tells what became of the newest file
\* a pass was queued for, a restart of the web process in between included, unless a
\* pass with an older file in hand wrote over it, or the sender's last pass ended as an
\* error before it, could not be queued again or could not save it.
QuietIsTold ==
    (~passWaits /\ \A a \in Passes : job[a].pc = "idle")
        => \A f \in Stops : told[f].file >= due[f] \/ f \in late \/ f \in untold

\* What the cache, the sent marks and the failures say of an extract is so, whatever passes
\* run at once or are cut off.
ExtractsAreTrue ==
    ExtractTypeOK /\ LabelIsContent /\ NoWastedExtraction /\ SentIsHeld /\ QuietIsTold
=============================================================================
