------------------------------ MODULE FeedIntake ------------------------------
(***************************************************************************)
(* The timetable slots of one session and what is remembered of them:      *)
(* provider refreshes, uploads, derived (cross-border) feeds and config    *)
(* saves (app/api/admin/sessions.py), the placement of a file              *)
(* (app/ingestion.py), and the quarantine of files the configuration no    *)
(* longer expects (app/inbox_sweep.py).                                    *)
(*                                                                         *)
(* A provider has one slot per timetable format, gtfs/<id>.zip and         *)
(* netex/<id>.zip. The fetch state of a slot's download label remembers    *)
(* the URL and the content last fetched. A download is one step here       *)
(* (FeedDownload has its retries); its answer and the use of the answer    *)
(* are two. Rebuild queueing is RebuildWorker's, progress records          *)
(* RefreshProgress's. Every file is named by where it came from.           *)
(***************************************************************************)
EXTENDS Naturals, FiniteSets

CONSTANTS
    Feeds,        \* provider ids
    Urls,         \* timetable URLs an operator configures
    MaxVersion,   \* bound on the versions a publisher brings out
    Sources,      \* the sources an operator chooses among
    Overlap,      \* an upload may run while a refresh does
    MaxSaves, MaxUploads, MaxRefreshes, MaxCrashes,
    Nothing

Formats == {"gtfs", "netex"}
SwitchableSources == {"url", "upload", "cross_border_filter"}

ASSUME IntakeAssumption ==
    /\ Sources \subseteq SwitchableSources /\ "url" \in Sources
    /\ Overlap \in BOOLEAN /\ MaxVersion \in Nat \ {0}
    /\ MaxSaves \in Nat /\ MaxUploads \in Nat /\ MaxRefreshes \in Nat
    /\ MaxCrashes \in Nat

VARIABLES
    config,     \* sessions.config.sources.providers, by feed
    saved,      \* the configuration the last save committed
    plan,       \* the slots a save has still to quarantine, after its commit
    version,    \* what each URL serves
    slot,       \* the live file of each slot
    old,        \* its .old
    fetchState, \* _fetch_state/<label>.json
    job,        \* the refresh under way, or Nothing
    upload,     \* the upload under way, or Nothing
    ups, refreshes, saves, crashes

intakeVars == <<config, saved, plan, version, slot, old, fetchState, job, upload,
                ups, refreshes, saves, crashes>>

Slots == Feeds \X Formats
Providers == [source : Sources, format : Formats, url : Urls]

\* provider_timetable_format, provider_slot: a derived feed's file is GTFS
\* whatever format its card declares.
TimetableFormat(p) == IF p.source = "cross_border_filter" THEN "gtfs" ELSE p.format
ProviderSlot(c, f) == <<f, TimetableFormat(c[f])>>
ExpectedSlots(c) == {ProviderSlot(c, f) : f \in Feeds}

Net(u) == <<"net", u, version[u]>>

IntakeInit ==
    /\ config \in [Feeds -> {p \in Providers : p.source = "url"}]
    /\ saved = config /\ plan = {}
    /\ version = [u \in Urls |-> 1]
    /\ slot = [s \in Slots |-> Nothing] /\ old = [s \in Slots |-> Nothing]
    /\ fetchState = [s \in Slots |-> Nothing]
    /\ job = Nothing /\ upload = Nothing
    /\ ups = 0 /\ refreshes = 0 /\ saves = 0 /\ crashes = 0

PublishFeed(u) ==
    /\ version[u] < MaxVersion /\ version' = [version EXCEPT ![u] = @ + 1]
    /\ UNCHANGED <<config, saved, plan, slot, old, fetchState, job, upload, ups,
                   refreshes, saves, crashes>>

-----------------------------------------------------------------------------
(* A config save: patch_session *)

\* plan_save_quarantine: the other-format slots of the providers it declares.
PlanSaveQuarantine(c) == {<<f, fmt>> : f \in Feeds, fmt \in Formats} \ ExpectedSlots(c)

\* The row is locked from its read to the commit; a refresh that has re-read it
\* holds it too.
RowFree == IF job = Nothing THEN TRUE ELSE job.pc \notin {"sweep", "commit"}

\* A provider in GTFS is refused another format when it becomes derived
\* (_refuse_new_derived_formats).
SaveConfig(f, p) ==
    /\ plan = {} /\ saves < MaxSaves /\ saves' = saves + 1 /\ RowFree
    /\ p # config[f]
    /\ p.source = "cross_border_filter" =>
         (p.format = "gtfs" \/ config[f] = [p EXCEPT !.url = config[f].url])
    /\ config' = [config EXCEPT ![f] = p] /\ saved' = config'
    /\ plan' = PlanSaveQuarantine(config')
    /\ UNCHANGED <<version, slot, old, fetchState, job, upload, ups, refreshes, crashes>>

Quarantine(which) == slot' = [s \in Slots |-> IF s \in which THEN Nothing ELSE slot[s]]

\* _quarantine_after_save, apply_save_quarantine: after the commit.
ApplySaveQuarantine ==
    /\ plan # {} /\ Quarantine(plan) /\ plan' = {}
    /\ UNCHANGED <<config, saved, version, old, fetchState, job, upload, ups,
                   refreshes, saves, crashes>>

-----------------------------------------------------------------------------
(* ingestion.place: copied beside the slot, then two renames *)

\* The current file becomes .old; the slot is empty until the next rename.
Rotate(s) ==
    /\ old' = IF slot[s] = Nothing THEN old ELSE [old EXCEPT ![s] = slot[s]]
    /\ slot' = [slot EXCEPT ![s] = Nothing]

Replace(s, file) == slot' = [slot EXCEPT ![s] = file]

\* _slot_lock: one placement at a time in a format's directory.
Placing(fmt) ==
    \E w \in {job, upload} \ {Nothing} : w.pc = "replace" /\ w.slot[2] = fmt

-----------------------------------------------------------------------------
(* Refreshes *)

\* _build_refresh_tasks: the feeds with a URL, from the configuration as the
\* request read it; then the derived ones.
Work(c, only) == {f \in only : c[f].source \in {"url", "cross_border_filter"}}

RefreshSet(whole, only) ==
    /\ job = Nothing /\ (Overlap \/ upload = Nothing)
    /\ refreshes < MaxRefreshes /\ refreshes' = refreshes + 1
    /\ job' = [pc |-> "next", whole |-> whole, todo |-> Work(config, only),
               config |-> config, feed |-> Nothing, slot |-> Nothing,
               previous |-> Nothing, have |-> FALSE, got |-> Nothing,
               status |-> "none"]
    /\ UNCHANGED <<config, saved, plan, version, slot, old, fetchState, upload,
                   ups, saves, crashes>>

RefreshSources == RefreshSet(TRUE, Feeds)
RefreshProvider(f) == Work(config, {f}) # {} /\ RefreshSet(FALSE, {f})

JobStep(new) ==
    /\ job' = new
    /\ UNCHANGED <<config, saved, plan, version, upload, ups, refreshes, saves, crashes>>

Label(f) == <<f, job.config[f].format>>

\* _download_task: what the label's state and slot say, before the request.
\* The URLs are worked through before the derived feeds.
StartTask(f) ==
    /\ job # Nothing /\ job.pc = "next" /\ f \in job.todo
    /\ job.config[f].source = "cross_border_filter" =>
         \A g \in job.todo : job.config[g].source = "cross_border_filter"
    /\ JobStep([job EXCEPT
         !.feed = f, !.todo = @ \ {f},
         !.pc = IF job.config[f].source = "url" THEN "ask" ELSE "derive",
         !.slot = ProviderSlot(job.config, f),
         !.previous = fetchState[Label(f)], !.have = slot[Label(f)] # Nothing])
    /\ UNCHANGED <<slot, old, fetchState>>

\* fetch_validated: unchanged when the publisher still has what the label's
\* state remembers and the slot holds a file (304, or the same sha256); else a
\* new file, or a failure that leaves the slot alone.
Answer ==
    /\ job # Nothing /\ job.pc = "ask"
    /\ LET got == Net(job.config[job.feed].url)
           same == job.have /\ job.previous # Nothing /\ job.previous.content = got
       IN \/ JobStep([job EXCEPT !.got = got,
                        !.pc = IF same THEN "unchanged" ELSE "place"])
          \/ JobStep([job EXCEPT !.pc = "next", !.status = "skipped"])
    /\ UNCHANGED <<slot, old, fetchState>>

\* save_state of an unchanged file: what was read before, checked again.
SaveUnchanged ==
    /\ job # Nothing /\ job.pc = "unchanged"
    /\ fetchState' = [fetchState EXCEPT ![Label(job.feed)] =
                        [url |-> job.config[job.feed].url, content |-> job.got]]
    /\ JobStep([job EXCEPT !.pc = "report", !.status = "unchanged"])
    /\ UNCHANGED <<slot, old>>

\* _filter_derived_provider: the filter's output goes the same way, with no
\* bookkeeping after it; a missing or malformed source skips the feed.
Derive ==
    /\ job # Nothing /\ job.pc = "derive"
    /\ \/ JobStep([job EXCEPT !.pc = "place", !.got = <<"derived", job.feed>>])
       \/ JobStep([job EXCEPT !.pc = "next", !.status = "skipped"])
    /\ UNCHANGED <<slot, old, fetchState>>

\* _dispatch_off_loop: the first rename ...
PlaceRotate ==
    /\ job # Nothing /\ job.pc = "place" /\ ~Placing(job.slot[2])
    /\ Rotate(job.slot)
    /\ JobStep([job EXCEPT !.pc = "replace"]) /\ UNCHANGED fetchState

\* ... the second, the copy being beside the slot already ...
PlaceReplace ==
    /\ job # Nothing /\ job.pc = "replace" /\ Replace(job.slot, job.got)
    /\ JobStep([job EXCEPT !.pc = IF job.got[1] = "net" THEN "state" ELSE "report",
                           !.status = "fetched"])
    /\ UNCHANGED <<old, fetchState>>

\* ... and, in the same thread, the state of what was fetched.
SaveState ==
    /\ job # Nothing /\ job.pc = "state"
    /\ fetchState' = [fetchState EXCEPT ![Label(job.feed)] =
                        [url |-> job.config[job.feed].url, content |-> job.got]]
    /\ JobStep([job EXCEPT !.pc = "report"]) /\ UNCHANGED <<slot, old>>

NextTask ==
    /\ job # Nothing /\ job.pc = "report"
    /\ JobStep([job EXCEPT !.pc = "next", !.status = "none"])
    /\ UNCHANGED <<slot, old, fetchState>>

\* _relock_session: the row is read again, under its lock, and stays locked.
Relock ==
    /\ job # Nothing /\ job.pc = "next" /\ job.todo = {}
    /\ JobStep([job EXCEPT !.pc = IF job.whole THEN "sweep" ELSE "commit",
                           !.config = config])
    /\ UNCHANGED <<slot, old, fetchState>>

\* _sweep_orphans, of a whole refresh only: every file in a slot the
\* configuration does not expect.
SweepOrphans ==
    /\ job # Nothing /\ job.pc = "sweep"
    /\ Quarantine(Slots \ ExpectedSlots(job.config))
    /\ JobStep([job EXCEPT !.pc = "commit"]) /\ UNCHANGED <<old, fetchState>>

\* The config column is written back with its refresh mark, and committed.
WriteBack ==
    /\ job' = Nothing /\ config' = job.config
    /\ UNCHANGED <<saved, plan, version, slot, old, fetchState, upload, ups,
                   refreshes, saves, crashes>>

FinishSourcesRefresh ==
    job # Nothing /\ job.pc = "commit" /\ job.whole /\ WriteBack
FinaliseProviderRefresh ==
    job # Nothing /\ job.pc = "commit" /\ ~job.whole /\ WriteBack

-----------------------------------------------------------------------------
(* Uploads: upload_to_session *)

\* Detected, and checked against the provider's format as it is now.
UploadToSession(f) ==
    /\ upload = Nothing /\ (Overlap \/ job = Nothing)
    /\ ups < MaxUploads /\ ups' = ups + 1
    /\ upload' = [pc |-> "place", slot |-> <<f, config[f].format>>,
                  file |-> <<"upload", ups>>]
    /\ UNCHANGED <<config, saved, plan, version, slot, old, fetchState, job,
                   refreshes, saves, crashes>>

UploadStep(new) ==
    /\ upload' = new
    /\ UNCHANGED <<config, saved, plan, version, job, ups, refreshes, saves, crashes>>

UploadRotate ==
    /\ upload # Nothing /\ upload.pc = "place" /\ ~Placing(upload.slot[2])
    /\ Rotate(upload.slot) /\ UploadStep([upload EXCEPT !.pc = "replace"])
    /\ UNCHANGED fetchState

UploadReplace ==
    /\ upload # Nothing /\ upload.pc = "replace"
    /\ Replace(upload.slot, upload.file)
    /\ UploadStep([upload EXCEPT !.pc = "forget"]) /\ UNCHANGED <<old, fetchState>>

\* _forget_fetch_state_for_slot: of every label that writes the slot.
ForgetFetchState ==
    /\ upload # Nothing /\ upload.pc = "forget"
    /\ fetchState' = [fetchState EXCEPT ![upload.slot] = Nothing]
    /\ UploadStep(Nothing) /\ UNCHANGED <<slot, old>>

\* The web process dies: nothing of a request survives but its files.
Crash ==
    /\ crashes < MaxCrashes /\ crashes' = crashes + 1
    /\ job # Nothing \/ upload # Nothing \/ plan # {}
    /\ job' = Nothing /\ upload' = Nothing /\ plan' = {}
    /\ UNCHANGED <<config, saved, version, slot, old, fetchState, ups,
                   refreshes, saves>>

IntakeNext ==
    \/ \E u \in Urls : PublishFeed(u)
    \/ \E f \in Feeds, p \in Providers : SaveConfig(f, p)
    \/ ApplySaveQuarantine
    \/ RefreshSources \/ (\E f \in Feeds : RefreshProvider(f) \/ StartTask(f))
    \/ Answer \/ SaveUnchanged \/ Derive \/ PlaceRotate \/ PlaceReplace
    \/ SaveState \/ NextTask \/ Relock \/ SweepOrphans
    \/ FinishSourcesRefresh \/ FinaliseProviderRefresh
    \/ \E f \in Feeds : UploadToSession(f)
    \/ UploadRotate \/ UploadReplace \/ ForgetFetchState
    \/ Crash

IntakeSpec == IntakeInit /\ [][IntakeNext]_intakeVars

-----------------------------------------------------------------------------
(* Properties *)

Files == {<<"net", u, v>> : u \in Urls, v \in 1..MaxVersion}
         \cup {<<"upload", n>> : n \in 0..MaxUploads}
         \cup {<<"derived", f>> : f \in Feeds}

Records == [url : Urls, content : Files]
Running == {"ask", "unchanged", "derive", "place", "replace", "state", "report"}
Jobs ==
    [pc : {"next", "sweep", "commit"} \cup Running, whole : BOOLEAN, todo : SUBSET Feeds,
     config : [Feeds -> Providers], feed : Feeds \cup {Nothing}, slot : Slots \cup {Nothing},
     previous : Records \cup {Nothing}, have : BOOLEAN, got : Files \cup {Nothing},
     status : {"none", "skipped", "unchanged", "fetched"}]
Uploads == [pc : {"place", "replace", "forget"}, slot : Slots, file : Files]

ASSUME NothingAssumption == Nothing \notin Jobs /\ Nothing \notin Uploads

\* Configuration, slots, fetch states and requests hold what the code puts there.
IntakeTypeOK ==
    /\ config \in [Feeds -> Providers] /\ saved \in [Feeds -> Providers]
    /\ plan \subseteq Slots /\ version \in [Urls -> 1..MaxVersion]
    /\ slot \in [Slots -> Files \cup {Nothing}]
    /\ old \in [Slots -> Files \cup {Nothing}]
    /\ fetchState \in [Slots -> Records \cup {Nothing}]
    /\ job \in Jobs \cup {Nothing} /\ upload \in Uploads \cup {Nothing}

\* What UnchangedIsTrue says of every file but a derived one.
UnchangedButDerived ==
    (job # Nothing /\ crashes = 0 /\ job.pc = "report" /\ job.status = "unchanged") =>
        LET file == slot[Label(job.feed)] IN
        file \in {job.got, Nothing} \cup {<<"derived", f>> : f \in Feeds}

\* Once a whole refresh has swept, and until it commits, each file that a build
\* would read is in a slot the saved configuration expects, also when the
\* configuration was saved while the refresh downloaded.
OnlyExpectedFiles ==
    (job # Nothing /\ job.whole /\ job.pc = "commit" /\ upload = Nothing) =>
        {s \in Slots : slot[s] # Nothing} \subseteq ExpectedSlots(saved)

\* A configuration saved while a refresh runs is not overwritten by the copy the
\* refresh began with.
SavesSurvive == config = saved

\* A file that was live is kept: it stays in its slot, or becomes the slot's
\* .old, or is quarantined by a save or a sweep.
NoFileDropped ==
    [][\A s \in Slots :
        (slot[s] # Nothing /\ slot'[s] # slot[s]) =>
            (old'[s] = slot[s] \/ ApplySaveQuarantine \/ SweepOrphans)]_intakeVars
=============================================================================
