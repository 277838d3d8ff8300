---------------------------- MODULE StationModule -----------------------------
(***************************************************************************)
(* The client of the station module (app/station_module.py): the pause     *)
(* after a failure, the cached attribution and the cached countries, kept  *)
(* under one lock and shared by the calls of every request in flight. The  *)
(* module's data is its edition: a count the module raises when it builds. *)
(***************************************************************************)
EXTENDS Naturals

CONSTANTS
    ModuleCalls,    \* calls in flight at once
    PauseUnits,     \* PAUSE_SECONDS, in the calls' deadline
    TtlUnits,       \* ATTRIBUTION_TTL_SECONDS, COUNTRIES_TTL_SECONDS
    Editions,       \* 1..n: the module's data over time
    Never,          \* no cached answer; an edition not yet replaced
    MaxTime, MaxModuleCalls

ASSUME ModuleAssumption ==
    /\ {PauseUnits, TtlUnits, MaxTime, MaxModuleCalls} \subseteq Nat /\ PauseUnits > 0
    /\ Editions \subseteq Nat /\ 1 \in Editions /\ Never \notin Nat

\* search pauses after a failure; the admin calls (lookup, near, resolve, stop stations,
\* admin search) never do; attribution and countries are cached; `fresh` is the countries
\* call of a graph build, which forgets the cache first.
Kinds == {"search", "admin", "attribution", "countries", "fresh"}
Cache(kind) == IF kind = "fresh" THEN "countries" ELSE kind
CachedKinds == {"attribution", "countries"}

VARIABLES
    tick, pausedUntil,
    cached,     \* cached[kind]: [at, edition] or Never
    call,       \* the calls: [kind, pc, began, edition]
    edition, replacedAt,        \* external: the module's data, and when each was replaced
    served,     \* the last cacheable answer a caller got, from the cache or not
    failedAt,   \* when a failure last started the pause
    moduleCalls

moduleVars == <<tick, pausedUntil, cached, call, edition, replacedAt, served, failedAt, moduleCalls>>

NoCall == [kind |-> "none", pc |-> "idle", began |-> 0, edition |-> 0, known |-> FALSE]      \* known: no pause began since it was sent
NoneServed == [kind |-> "none", at |-> 0, edition |-> 1, began |-> 0]

ModuleInit ==
    /\ tick = 0 /\ pausedUntil = 0 /\ cached = [k \in CachedKinds |-> Never]
    /\ call = [c \in ModuleCalls |-> NoCall] /\ edition = 1
    /\ replacedAt = [e \in Editions |-> Never] /\ served = NoneServed /\ failedAt = Never
    /\ moduleCalls = 0

\* Time passes; no call outlives its deadline of one unit.
ModuleTick ==
    /\ tick < MaxTime /\ tick' = tick + 1
    /\ \A c \in ModuleCalls : call[c].pc # "idle" => call[c].began = tick
    /\ UNCHANGED <<pausedUntil, cached, call, edition, replacedAt, served, failedAt, moduleCalls>>

NewEdition ==
    /\ edition + 1 \in Editions /\ edition' = edition + 1
    /\ replacedAt' = [replacedAt EXCEPT ![edition] = tick]
    /\ UNCHANGED <<tick, pausedUntil, cached, call, served, failedAt, moduleCalls>>

Paused == tick < pausedUntil

\* _cached_attribution, _cached_countries
Valid(kind) == cached[kind] # Never /\ tick - cached[kind].at < TtlUnits

Serve(kind, e, began) == served' = [kind |-> kind, at |-> tick, edition |-> e, began |-> began]

\* countries_blocking(fresh=True) forgets the cached countries before it asks.
ForgetFirst(kind) ==
    IF kind = "fresh" THEN [cached EXCEPT !["countries"] = Never] ELSE cached

\* A call: none while the pause runs (a cached answer is forgotten then), else the
\* cached answer, else the request is sent.
Begin(c, kind) ==
    /\ call[c].pc = "idle" /\ moduleCalls < MaxModuleCalls /\ moduleCalls' = moduleCalls + 1
    /\ LET k == Cache(kind) IN
       IF Paused
       THEN /\ cached' = IF k \in CachedKinds THEN [cached EXCEPT ![k] = Never] ELSE cached
            /\ UNCHANGED <<call, served>>
       ELSE IF k \in CachedKinds /\ ForgetFirst(kind)[k] # Never /\ Valid(k)
       THEN Serve(kind, cached[k].edition, tick) /\ cached' = cached /\ UNCHANGED call
       ELSE /\ cached' = ForgetFirst(kind)
            /\ call' = [call EXCEPT ![c] = [kind |-> kind, pc |-> "sent", began |-> tick,
                                            edition |-> 0, known |-> TRUE]]
            /\ UNCHANGED served
    /\ UNCHANGED <<tick, pausedUntil, edition, replacedAt, failedAt>>

ModuleReads(c) ==
    /\ call[c].pc = "sent"
    /\ call' = [call EXCEPT ![c].pc = "read", ![c].edition = edition]
    /\ UNCHANGED <<tick, pausedUntil, cached, edition, replacedAt, served, failedAt, moduleCalls>>

\* 200, of the right shape: an answer to keep is cached, with the time it came.
Answer(c) ==
    LET k == Cache(call[c].kind) IN
    /\ call[c].pc = "read" /\ call' = [call EXCEPT ![c] = NoCall]
    /\ IF k \in CachedKinds
       THEN /\ cached' = [cached EXCEPT ![k] = [at |-> tick, edition |-> call[c].edition]]
            /\ Serve(call[c].kind, call[c].edition, call[c].began)
       ELSE UNCHANGED <<cached, served>>
    /\ UNCHANGED <<tick, pausedUntil, edition, replacedAt, failedAt, moduleCalls>>

\* A pause begins: no new call, and the attribution is forgotten.
Pause ==
    /\ pausedUntil' = tick + PauseUnits /\ failedAt' = tick
    /\ cached' = [cached EXCEPT !["attribution"] = Never]

\* A failure that pauses: a timeout, a lost connection, a wrong shape, a status of
\* _PAUSING_STATUSES or a 503 of the module itself.
FailPausing(c) ==
    /\ call[c].pc # "idle" /\ call[c].kind \in {"search", "attribution"}
    /\ call' = [d \in ModuleCalls |->
                    IF d = c THEN NoCall ELSE [call[d] EXCEPT !.known = FALSE]]
    /\ Pause
    /\ UNCHANGED <<tick, edition, replacedAt, served, moduleCalls>>

\* A failure without a pause: busy, a limit reached, a refused text; for the admin calls
\* and the countries, any failure. The kind's own cached answer is forgotten.
FailOnly(c) ==
    LET k == Cache(call[c].kind) IN
    /\ call[c].pc # "idle" /\ call' = [call EXCEPT ![c] = NoCall]
    /\ cached' = IF k \in CachedKinds THEN [cached EXCEPT ![k] = Never] ELSE cached
    /\ UNCHANGED <<tick, pausedUntil, edition, replacedAt, served, failedAt, moduleCalls>>

ModuleNext ==
    \/ ModuleTick \/ NewEdition
    \/ \E c \in ModuleCalls :
        \/ \E k \in Kinds : Begin(c, k)
        \/ ModuleReads(c) \/ Answer(c) \/ FailPausing(c) \/ FailOnly(c)

ModuleSpec == ModuleInit /\ [][ModuleNext]_moduleVars

----------------------------------------------------------------------------
\* Every variable stays in its type; no cached answer is of a later time or edition than
\* there has been.
ModuleTypeOK ==
    /\ tick \in 0..MaxTime /\ pausedUntil \in 0..(MaxTime + PauseUnits) /\ edition \in Editions
    /\ \A k \in CachedKinds : cached[k] # Never => cached[k].at <= tick
    /\ \A c \in ModuleCalls : call[c].kind \in Kinds \cup {"none"} /\ call[c].edition <= edition

\* An attribution or a list of countries a caller gets was the module's at most the time
\* to live and one call ago; for a graph build, not before it asked.
ServedIsRecent ==
    LET gone == replacedAt[served.edition] IN
    gone # Never =>
        IF served.kind = "fresh" THEN gone >= served.began
        ELSE gone + TtlUnits + 1 >= served.at

\* While a pause runs the module only gets the calls that were on their way when it
\* began: no success of one of them lets new calls through.
PauseHolds ==
    \A c \in ModuleCalls :
        (call[c].pc # "idle" /\ call[c].known /\ failedAt # Never)
            => call[c].began >= failedAt + PauseUnits

\* An attribution kept from before a failure is never shown again after it.
NothingAcrossPause ==
    (cached["attribution"] # Never /\ failedAt # Never) => cached["attribution"].at >= failedAt

-----------------------------------------------------------------------------
(***************************************************************************)
(* What the worker does with the station module before it builds a graph   *)
(* (app/worker.py, _run_engine_build; app/station_builds.py): it sends the *)
(* stop extracts, asks the module for a station build, polls it until it   *)
(* ends or the wait is over, and notes the countries nothing serves. Only  *)
(* the operator's cancellation keeps the graph from being built.           *)
(*                                                                         *)
(* Time is counted in calls' deadlines: CALL_SECONDS is 1, the poll and    *)
(* retry intervals are PollUnits.                                          *)
(***************************************************************************)

CONSTANTS
    PollUnits,      \* POLL_SECONDS and POST_RETRY_SECONDS, in CALL_SECONDS
    WaitUnits,      \* WAIT_LIMIT_SECONDS, in CALL_SECONDS
    BuildIds,       \* station builds of the module
    NoId,
    MaxLookFaults   \* failing reads of the job's row

ASSUME WaitAssumption ==
    /\ PollUnits \in Nat \ {0} /\ WaitUnits \in Nat /\ WaitUnits > 2 * PollUnits
    /\ BuildIds \subseteq Nat \ {0} /\ NoId \notin Nat /\ MaxLookFaults \in Nat

Least(a, b) == IF a < b THEN a ELSE b

VARIABLES
    wpc,        \* "send", "post", "rest", "post2", "sleep", "get", "warn", "graph", "stopped"
    now,        \* time since the wait began
    until,      \* when the sleep, or the call under way, ends at the latest
    asked,      \* the build waited for
    waitEnd,    \* the outcome of the wait
    builds,     \* external: the state of each of the module's builds
    cancelAt,   \* when the operator cancelled the job, or NoId
    lookFaults  \* reads of the cancellation that failed, taken for "no"

waitVars == <<wpc, now, until, asked, waitEnd, builds, cancelAt, lookFaults>>

WaitInit ==
    /\ wpc = "send" /\ now = 0 /\ until = 0 /\ asked = NoId /\ waitEnd = "none"
    /\ builds \in [BuildIds -> {"none", "done"}]
    /\ cancelAt = NoId /\ lookFaults = 0

----------------------------------------------------------------------------
(* The world: time, the operator, the module.                               *)

Passes1 ==
    /\ wpc \in {"post", "rest", "post2", "sleep", "get"} /\ now < until /\ now' = now + 1
    /\ UNCHANGED <<wpc, until, asked, waitEnd, builds, cancelAt, lookFaults>>

RequestCancel ==
    /\ cancelAt = NoId /\ wpc \notin {"graph", "stopped"} /\ cancelAt' = now
    /\ UNCHANGED <<wpc, now, until, asked, waitEnd, builds, lookFaults>>

ModuleBuilds(b) ==
    /\ \/ builds[b] = "queued" /\ builds' = [builds EXCEPT ![b] = "running"]
       \/ builds[b] = "running" /\ \E end \in {"done", "failed"} :
            builds' = [builds EXCEPT ![b] = end]
    /\ UNCHANGED <<wpc, now, until, asked, waitEnd, cancelAt, lookFaults>>

----------------------------------------------------------------------------
\* should_stop: the job's row, or "no" when it cannot be read.
Heeds(stop, go) ==
    \/ cancelAt # NoId /\ stop /\ UNCHANGED lookFaults
    \/ cancelAt = NoId /\ go /\ UNCHANGED lookFaults
    \/ /\ cancelAt # NoId /\ lookFaults < MaxLookFaults /\ lookFaults' = lookFaults + 1
       /\ go

WaitEnds(outcome) ==
    /\ waitEnd' = outcome
    /\ wpc' = IF outcome = "cancelled" THEN "stopped" ELSE "warn"
    /\ UNCHANGED until

Call(pc) == wpc' = pc /\ until' = now + Least(1, WaitUnits - now)

\* _sending_cancelled: the pass may see the cancellation, or have ended before it. Then
\* the wait begins for MOTIS; the OTP engine, and a module that is off, skip it.
SendExtracts ==
    /\ wpc = "send" /\ UNCHANGED <<now, asked, builds, cancelAt>>
    /\ \/ Heeds(wpc' = "stopped" /\ UNCHANGED <<until, waitEnd>>,
                Call("post") /\ UNCHANGED waitEnd)
       \/ wpc' = "warn" /\ waitEnd' = "off" /\ UNCHANGED <<until, lookFaults>>

\* Mutant: the deadline is not looked at.
OverdueNever == FALSE

\* The two looks of _poll at its deadline.
Overdue == now >= WaitUnits

\* A sleep of the poll, never past the deadline.
Sleep == wpc' = "sleep" /\ until' = now + Least(PollUnits, WaitUnits - now)

PollAgain == IF Overdue THEN WaitEnds("unavailable") ELSE Sleep /\ UNCHANGED waitEnd

\* What an answer about a build makes of the wait: _ready.
Answered(b, state) ==
    IF state \in {"done", "up_to_date"} THEN WaitEnds(state)
    ELSE IF state = "failed" THEN WaitEnds("unavailable") ELSE PollAgain

\* POST: the module starts a build, names one it has, or says it is up to date.
PostAnswered ==
    /\ wpc \in {"post", "post2"}
    /\ \E b \in BuildIds :
        /\ asked' = b       \* in the log from then on, when it is waited for
        /\ \/ /\ builds[b] = "none" /\ builds' = [builds EXCEPT ![b] = "queued"]
              /\ Answered(b, "queued")
           \/ builds[b] \notin {"none", "done"} /\ Answered(b, builds[b]) /\ UNCHANGED builds
           \/ builds[b] = "done" /\ Answered(b, "up_to_date") /\ UNCHANGED builds
    /\ UNCHANGED <<now, cancelAt, lookFaults>>

\* A refusal (409, 429, 403, another status) or an answer of a wrong shape.
PostRefused ==
    /\ wpc \in {"post", "post2"} /\ WaitEnds("unavailable")
    /\ UNCHANGED <<now, asked, builds, cancelAt, lookFaults>>

\* 503, the deadline or the connection: once more after a pause, then the wait is over.
\* The module may have queued the build all the same.
PostUnanswered ==
    /\ wpc \in {"post", "post2"}
    /\ builds' \in {builds} \cup {[builds EXCEPT ![b] = "queued"] :
                                    b \in {c \in BuildIds : builds[c] = "none"}}
    /\ IF wpc = "post" THEN /\ wpc' = "rest" /\ until' = now + PollUnits
                            /\ UNCHANGED waitEnd
       ELSE WaitEnds("unavailable")
    /\ UNCHANGED <<now, asked, cancelAt, lookFaults>>

RestEnds ==
    /\ wpc = "rest" /\ now = until
    /\ Heeds(WaitEnds("cancelled"), Call("post2") /\ UNCHANGED waitEnd)
    /\ UNCHANGED <<now, asked, builds, cancelAt>>

\* One turn of _poll after its sleep: the cancellation, the deadline, then the GET.
SleepEnds ==
    /\ wpc = "sleep" /\ now = until
    /\ Heeds(WaitEnds("cancelled"),
             IF Overdue THEN WaitEnds("unavailable")
             ELSE Call("get") /\ UNCHANGED waitEnd)
    /\ UNCHANGED <<now, asked, builds, cancelAt>>

\* Mutant: the answer is taken whatever build it names.
GetAnsweredAny ==
    /\ wpc = "get" /\ \E b \in BuildIds : builds[b] # "none" /\ Answered(b, builds[b])
    /\ UNCHANGED <<now, asked, builds, cancelAt, lookFaults>>

\* GET: an answer about the build asked for, ...
GetAnswered ==
    /\ wpc = "get" /\ Answered(asked, builds[asked])
    /\ UNCHANGED <<now, asked, builds, cancelAt, lookFaults>>

\* ... none, one of a wrong shape or about another build (polled again), or a refusal.
GetFails ==
    /\ wpc = "get"
    /\ \/ PollAgain
       \/ WaitEnds("unavailable")
    /\ UNCHANGED <<now, asked, builds, cancelAt, lookFaults>>

\* The countries nothing serves are noted in the log, then the engine builds.
NoteCountryWarning ==
    /\ wpc = "warn" /\ wpc' = "graph"
    /\ UNCHANGED <<now, until, asked, waitEnd, builds, cancelAt, lookFaults>>

WaitStep ==
    \/ Passes1 \/ SendExtracts \/ PostAnswered \/ PostRefused \/ PostUnanswered \/ RestEnds
    \/ SleepEnds \/ GetAnswered \/ GetFails \/ NoteCountryWarning

WaitNext == WaitStep \/ RequestCancel \/ \E b \in BuildIds : ModuleBuilds(b)

\* Every call and every sleep has a deadline, kept by the client whatever the module does.
WaitSpec == WaitInit /\ [][WaitNext]_waitVars /\ WF_waitVars(WaitStep)

----------------------------------------------------------------------------
\* The wait never lasts beyond its limit, however its calls and sleeps add up.
WaitTypeOK ==
    /\ now \in 0..WaitUnits /\ until \in 0..WaitUnits
    /\ asked \in BuildIds \cup {NoId} /\ cancelAt \in 0..WaitUnits \cup {NoId}
    /\ wpc \in {"sleep", "get"} => asked # NoId

\* The graph is built on the station build that was asked for when the log says so:
\* that very build has ended well, though the module runs others meanwhile.
DoneIsTheAsked ==
    waitEnd \in {"done", "up_to_date"} => asked # NoId /\ builds[asked] = "done"

\* A job cancelled during the wait goes on to its graph only when the cancellation came
\* during the last call of the wait, or its row could not be read.
CancelHeeded ==
    (wpc = "graph" /\ cancelAt # NoId /\ waitEnd # "off")
        => now - cancelAt <= 1 \/ lookFaults > 0

\* Whatever the module does, the job leaves the wait: a graph build, or a cancellation.
WaitIsOver == <>(wpc \in {"graph", "stopped"})
=============================================================================
