----------------------------- MODULE HubCatalogue -----------------------------
(***************************************************************************)
(* The catalogue of coverage hubs and its station codes (the hub routes of *)
(* app/api/admin/network_coverage.py). A click of an administrator reads   *)
(* the hubs, awaits the station module, and writes afterwards: a confirm   *)
(* and a check through _guarded_write, a PATCH as the columns its ORM      *)
(* object changed. Codes and ids of the module name stations.              *)
(***************************************************************************)
EXTENDS Naturals, FiniteSets, FiniteSetsExt

CONSTANTS
    Hubs, Codes, StationIds,
    StationOf,      \* the station a code or an id names, merges included
    Admins,         \* clicks in flight at once
    Blank,            \* a null column
    WorstCalls,     \* _hub_worst_calls of each hub
    ResolveBatch, CallBudget,       \* RESOLVE_BATCH, RESOLVE_CALL_BUDGET
    CheckBatch,                     \* CHECK_BATCH
    MaxClicks

\* The columns of coverage_hubs a click reads or writes.
HubRows ==
    [active : BOOLEAN, uic : Codes \cup {Blank}, origin : {"manual", "msmm", Blank},
     id : StationIds \cup {Blank}]

\* RESOLVE_HUB_MAX_CALLS fits in the budget: one hub can always be looked at.
\* A null column, or no row, is no value of its column and no row.
ASSUME HubAssumption ==
    /\ {ResolveBatch, CallBudget, CheckBatch, MaxClicks} \subseteq Nat \ {0}
    /\ \A h \in Hubs : WorstCalls[h] \in 1..CallBudget
    /\ Codes \cap StationIds = {} /\ Blank \notin Codes \cup StationIds \cup {"manual", "msmm"}
    /\ Blank \notin HubRows

VARIABLES
    hub,        \* the table: [active, uic, origin, id] per hub id, or Blank
    click,      \* the clicks in flight
    torn,       \* hubs a PATCH wrote over a row changed since it was read
    clicks

hubVars == <<hub, click, torn, clicks>>

NoClick == [kind |-> "none", pc |-> "idle"]
Exists(h) == hub[h] # Blank
HasStation(row) == row.uic # Blank \/ row.id # Blank

\* A hub as an earlier confirm left it: the catalogue starts with at most one.
Confirmed ==
    {row \in [active : {TRUE}, uic : Codes, origin : {"msmm"}, id : StationIds] :
        StationOf[row.uic] = StationOf[row.id]}

HubInit ==
    /\ hub \in [Hubs -> Confirmed \cup {Blank}] /\ Cardinality({h \in Hubs : hub[h] # Blank}) <= 1
    /\ click = [a \in Admins |-> NoClick] /\ torn = {} /\ clicks = 0

Start(a, record) ==
    /\ click[a].pc = "idle" /\ clicks < MaxClicks /\ clicks' = clicks + 1
    /\ click' = [click EXCEPT ![a] = record]
Ends(a) == click' = [click EXCEPT ![a] = NoClick]

\* POST /hubs: a slug that exists, soft-deleted or not, is a 409.
CreateHub(h, code) ==
    /\ ~Exists(h)
    /\ hub' = [hub EXCEPT ![h] = [active |-> TRUE, uic |-> code, id |-> Blank,
                                  origin |-> IF code = Blank THEN Blank ELSE "manual"]]
    /\ UNCHANGED <<click, torn, clicks>>

DeleteHub(h) ==
    /\ Exists(h) /\ hub[h].active /\ hub' = [hub EXCEPT ![h].active = FALSE]
    /\ UNCHANGED <<click, torn, clicks>>

\* _set_typed_code
Typed(row, code) ==
    IF code = row.uic /\ code # Blank THEN row
    ELSE [row EXCEPT !.uic = code, !.id = Blank, !.origin = IF code = Blank THEN Blank ELSE "manual"]

PatchBodies ==
    [what : {"type"}, code : Codes \cup {Blank}] \cup [what : {"forget", "on", "off"}, code : {Blank}]

Patched(row, body) ==
    IF body.what = "type" THEN Typed(row, body.code)
    ELSE IF body.what = "forget" THEN [row EXCEPT !.id = Blank]
    ELSE [row EXCEPT !.active = (body.what = "on")]

PatchLoad(a, h, body) ==
    /\ Exists(h)
    /\ Start(a, [kind |-> "patch", pc |-> "loaded", h |-> h, body |-> body, before |-> hub[h]])
    /\ UNCHANGED <<hub, torn>>

\* The commit: the UPDATE holds the columns whose value differs from the loaded one.
PatchCommit(a) ==
    /\ click[a].kind = "patch" /\ Ends(a)
    /\ LET c == click[a]  now == hub[c.h]  new == Patched(c.before, c.body) IN
       /\ hub' = [hub EXCEPT ![c.h] =
                    [f \in DOMAIN now |-> IF new[f] = c.before[f] THEN now[f] ELSE new[f]]]
       /\ torn' = IF now = c.before THEN torn ELSE torn \cup {c.h}
    /\ UNCHANGED clicks

\* Mutant: the write lands whatever the row holds now.
GuardNone(h, before) == Exists(h) /\ hub[h].active

\* The WHERE of _guarded_write.
Guarded(h, before) ==
    /\ Exists(h) /\ hub[h].active
    /\ hub[h].uic = before.uic /\ hub[h].id = before.id

----------------------------------------------------------------------------
\* What the module answers for a code or an id (external): an id of its station, a row
\* without an id (a module from before the ids), or nothing: it does not serve it.
Absent == "absent"
RowsOf(key) ==
    {i \in StationIds : StationOf[i] = StationOf[key]} \cup {Absent}
        \cup (IF key \in Codes THEN {Blank} ELSE {})

\* The pairs an administrator accepts: a candidate's code, id or both.
Pairs ==
    {p \in [uic : Codes \cup {Blank}, id : StationIds \cup {Blank}] :
        /\ HasStation(p)
        /\ (p.uic # Blank /\ p.id # Blank) => StationOf[p.uic] = StationOf[p.id]}

\* confirm_hub_codes: the active hubs of the pairs are read, then the module is asked.
ConfirmRead(a, h, pair) ==
    /\ Exists(h) /\ hub[h].active
    /\ Start(a, [kind |-> "confirm", pc |-> "asked", h |-> h, pair |-> pair, before |-> hub[h]])
    /\ UNCHANGED <<hub, torn>>

\* _confirmed_row: the id to store, or Absent when the module does not serve the pair.
ConfirmedId(pair, byCode, byId) ==
    IF pair.uic = Blank THEN byId
    ELSE IF byCode = Absent THEN Absent
    ELSE IF byId \notin {Blank, Absent} THEN byId ELSE byCode

ConfirmStore(a) ==
    /\ click[a].kind = "confirm" /\ Ends(a)
    /\ LET c == click[a]  p == c.pair IN
       \E byCode \in IF p.uic = Blank THEN {Absent} ELSE RowsOf(p.uic),
          byId \in IF p.id = Blank THEN {Absent} ELSE RowsOf(p.id) :
          LET id == ConfirmedId(p, byCode, byId) IN
          hub' = IF id # Absent /\ Guarded(c.h, c.before)
                 THEN [hub EXCEPT ![c.h].uic = p.uic, ![c.h].id = id,
                                  ![c.h].origin = IF p.uic = Blank THEN Blank ELSE "msmm"]
                 ELSE hub
    /\ UNCHANGED <<torn, clicks>>

\* A 429, an outage or a refusal: the click answers what it has and writes nothing.
ModuleFails(a) ==
    /\ click[a].kind \in {"confirm", "check", "resolve"} /\ Ends(a)
    /\ UNCHANGED <<hub, torn, clicks>>

----------------------------------------------------------------------------
\* _hubs_to_look_at
ToLookAt(resolved) == {h \in Hubs : Exists(h) /\ hub[h].active /\ HasStation(hub[h]) = resolved}

\* check_hub_codes reads a batch.
CheckRead(a, batch) ==
    /\ batch \subseteq ToLookAt(TRUE) /\ batch # {} /\ Cardinality(batch) <= CheckBatch
    /\ Start(a, [kind |-> "check", pc |-> "first", found |-> [h \in batch |-> Absent],
                 via |-> [h \in batch |-> "id"], before |-> [h \in batch |-> hub[h]]])
    /\ UNCHANGED <<hub, torn>>

\* _check_key
CheckKey(row, useIds) == IF useIds /\ row.id # Blank THEN row.id ELSE row.uic

Answers(rows, useIds) ==
    {f \in [DOMAIN rows -> StationIds \cup {Blank, Absent}] :
        \A h \in DOMAIN rows :
            LET key == CheckKey(rows[h], useIds) IN
            f[h] \in IF key = Blank THEN {Absent} ELSE RowsOf(key)}

\* The first lookup; the hubs whose id the module does not know are asked by their code.
CheckAnswered(a) ==
    LET c == click[a]  rows == c.before IN
    /\ c.kind = "check" /\ c.pc = "first"
    /\ \E f \in Answers(rows, TRUE) :
        LET lost == {h \in DOMAIN rows : f[h] = Absent /\ rows[h].id # Blank /\ rows[h].uic # Blank}
        IN  click' = [click EXCEPT ![a].found = f,
                ![a].pc = IF lost = {} THEN "write" ELSE "second",
                ![a].via = [h \in DOMAIN rows |->
                    IF h \in lost THEN "code_after_id"
                    ELSE IF rows[h].id # Blank THEN "id" ELSE "uic"]]
    /\ UNCHANGED <<hub, torn, clicks>>

\* A module from before the ids refuses the first lookup: the codes alone are asked.
CheckIdsRefused(a) ==
    LET c == click[a]  rows == c.before IN
    /\ c.kind = "check" /\ c.pc = "first" /\ \E h \in DOMAIN rows : rows[h].id # Blank
    /\ \E f \in Answers(rows, FALSE) :
        click' = [click EXCEPT ![a].found = f, ![a].pc = "write",
                               ![a].via = [h \in DOMAIN rows |-> "uic"]]
    /\ UNCHANGED <<hub, torn, clicks>>

\* The second lookup, answered or failed: what the first found is written all the same.
CheckSecond(a) ==
    LET c == click[a]
        lost == {h \in DOMAIN c.before : c.via[h] = "code_after_id"} IN
    /\ c.kind = "check" /\ c.pc = "second"
    /\ \E f \in Answers([h \in lost |-> c.before[h]], FALSE) :
        click' = [click EXCEPT ![a].pc = "write",
            ![a].found = [h \in DOMAIN c.before |-> IF h \in lost THEN f[h] ELSE c.found[h]]]
    /\ UNCHANGED <<hub, torn, clicks>>

\* Mutant: the code's answer replaces an id the module did not know.
NewIdAnyWay(row, found, via) == IF found \in {Blank, Absent, row.id} THEN Blank ELSE found

\* _new_id: the id a check gives the hub, or Blank to leave it.
NewId(row, found, via) ==
    IF found \in {Blank, Absent, row.id} THEN Blank
    ELSE IF via = "id" \/ (via = "uic" /\ row.id = Blank) THEN found ELSE Blank

CheckWrite(a) ==
    /\ click[a].kind = "check" /\ click[a].pc = "write" /\ Ends(a)
    /\ LET c == click[a]
           new(h) == NewId(c.before[h], c.found[h], c.via[h]) IN
       hub' = [h \in Hubs |->
                IF h \in DOMAIN c.before /\ new(h) # Blank /\ Guarded(h, c.before[h])
                THEN [hub[h] EXCEPT !.id = new(h)] ELSE hub[h]]
    /\ UNCHANGED <<torn, clicks>>

----------------------------------------------------------------------------
\* resolve_hub_codes: the hubs without a station the dialog has not shown yet.
ResolveRead(a, shown) ==
    /\ ToLookAt(FALSE) \ shown # {}
    /\ Start(a, [kind |-> "resolve", pc |-> "looking", left |-> ToLookAt(FALSE) \ shown,
                 looked |-> 0, calls |-> 0])
    /\ UNCHANGED <<hub, torn>>

Fits(calls, h) == calls + WorstCalls[h] <= CallBudget

\* _look_at: the near call, then the name and its shortened forms until one finds.
LookAt(a, h) ==
    LET c == click[a] IN
    /\ c.kind = "resolve" /\ c.pc = "looking" /\ h \in c.left
    /\ c.looked < ResolveBatch /\ Fits(c.calls, h)
    /\ \E made \in 1..WorstCalls[h] :
        click' = [click EXCEPT ![a].left = @ \ {h}, ![a].looked = @ + 1, ![a].calls = @ + made]
    /\ UNCHANGED <<hub, torn, clicks>>

\* The batch is done, no hub is left, or the next hub does not fit the budget.
ResolveAnswers(a) ==
    LET c == click[a] IN
    /\ c.kind = "resolve" /\ c.pc = "looking"
    /\ c.left = {} \/ c.looked = ResolveBatch \/ \E h \in c.left : ~Fits(c.calls, h)
    /\ click' = [click EXCEPT ![a].pc = "answered"]
    /\ UNCHANGED <<hub, torn, clicks>>

ClickOver(a) == click[a].pc = "answered" /\ Ends(a) /\ UNCHANGED <<hub, torn, clicks>>

HubNext ==
    \/ \E h \in Hubs : (\E c \in Codes \cup {Blank} : CreateHub(h, c)) \/ DeleteHub(h)
    \/ \E a \in Admins :
        \/ \E h \in Hubs :
            \/ \E b \in PatchBodies : PatchLoad(a, h, b)
            \/ \E p \in Pairs : ConfirmRead(a, h, p)
            \/ LookAt(a, h)
        \/ PatchCommit(a) \/ ConfirmStore(a) \/ ModuleFails(a)
        \/ \E b \in SUBSET Hubs : CheckRead(a, b) \/ ResolveRead(a, b)
        \/ CheckAnswered(a) \/ CheckIdsRefused(a) \/ CheckSecond(a) \/ CheckWrite(a)
        \/ ResolveAnswers(a) \/ ClickOver(a)

HubSpec == HubInit /\ [][HubNext]_hubVars

----------------------------------------------------------------------------
\* Every column stays in its type, and a code has an origin exactly when it is there
\* (a row torn by two overlapping PATCHes aside).
HubTypeOK ==
    /\ torn \subseteq Hubs
    /\ \A h \in Hubs : Exists(h) =>
        /\ hub[h].uic \in Codes \cup {Blank} /\ hub[h].id \in StationIds \cup {Blank}
        /\ h \notin torn => (hub[h].origin = Blank) = (hub[h].uic = Blank)

\* The code and the id of a hub name one station: no answer of the module that comes
\* after an edit joins its id to another station's code. A PATCH that overlaps another
\* write can still tear the row (its UPDATE leaves out the columns it found as it wants
\* them), so those hubs are set apart.
OneStation ==
    \A h \in Hubs \ torn :
        (Exists(h) /\ hub[h].uic # Blank /\ hub[h].id # Blank)
            => StationOf[hub[h].uic] = StationOf[hub[h].id]

\* A soft-deleted hub takes no station from a click that read it before its deletion.
DeletedTakesNothing ==
    [][\A h \in Hubs : (Exists(h) /\ ~hub[h].active /\ hub'[h] # hub[h])
            => \E a \in Admins : click[a].kind = "patch" /\ click'[a].pc = "idle"]_hubVars

\* A check moves a hub from one id to another only when the module, asked for that very
\* id, named the other: an id the module does not answer stays, whatever the code's row.
UnansweredIdStays ==
    [][\A a \in Admins : (click[a].kind = "check" /\ click'[a].pc = "idle") =>
        \A h \in Hubs : (hub'[h] # hub[h] /\ Exists(h) /\ hub[h].id # Blank) =>
            /\ click[a].via[h] = "id" /\ hub'[h].id = click[a].found[h]
            /\ click[a].before[h].id = hub[h].id]_hubVars

\* One click makes at most RESOLVE_CALL_BUDGET calls, and an answered click has looked at
\* a hub: the dialog that asks again, skipping those shown, ends.
ResolveBudget ==
    \A a \in Admins : click[a].kind = "resolve" =>
        /\ click[a].calls <= CallBudget
        /\ click[a].pc = "answered" => click[a].looked > 0
=============================================================================
