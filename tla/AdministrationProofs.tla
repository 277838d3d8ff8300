-------------------------- MODULE AdministrationProofs --------------------------
(***************************************************************************)
(* Theorems about what administrators edit, for any hubs, clicks, payloads *)
(* credentials, requests, accounts and handlers.                           *)
(*                                                                         *)
(* Every component has its own inductive invariant; the instance runs one  *)
(* of them beside the others at rest, so its steps are steps of each.      *)
(* The catalogue's rests on what a click remembers: the row it read, and   *)
(* an answer that names the station it asked for (ClicksKnow). The         *)
(* configuration's bounds how long the cache can differ from the table     *)
(* (CacheIsYoung). The sources' bounds the marks a form and an import      *)
(* still hold by the row's (MarksKnown), and follows the list an import    *)
(* makes dataset by dataset (Joins).                                       *)
(***************************************************************************)
EXTENDS MCAdministration, TLAPS, FiniteSetTheorems

-----------------------------------------------------------------------------
(* The hub catalogue *)

\* A code and an id name one station, and a code has an origin.
Whole(row) ==
    /\ row.uic # Blank /\ row.id # Blank => StationOf[row.uic] = StationOf[row.id]
    /\ row.origin = Blank <=> row.uic = Blank

\* What was found under a key is of the key's station.
FoundFor(found, asked) ==
    found \in {Blank, Absent}
    \/ (asked # Blank /\ found \in StationIds /\ StationOf[found] = StationOf[asked])

\* A click of each kind: the rows it read are still there, what it found is of their stations,
\* and one that looks at hubs has made no call before its first look.
PatchKnows(c) ==
    /\ c.h \in Hubs /\ c.body \in PatchBodies /\ c.before \in HubRows /\ hub[c.h] \in HubRows
    /\ c.pc = "loaded"
ConfirmKnows(c) == c.h \in Hubs /\ c.pair \in Pairs /\ c.pc = "asked"
CheckKnows(c) ==
    /\ DOMAIN c = {"kind", "pc", "found", "via", "before"} /\ c.pc \in {"first", "second", "write"}
    /\ \A h \in DOMAIN c.before :
        /\ h \in Hubs /\ c.before[h] \in HubRows
        /\ c.via[h] = "id" => FoundFor(c.found[h], c.before[h].id)
        /\ c.via[h] = "uic" => FoundFor(c.found[h], c.before[h].uic)
ResolveKnows(c) ==
    /\ DOMAIN c = {"kind", "pc", "left", "looked", "calls"}
    /\ c.calls \in 0..CallBudget /\ c.looked \in Nat /\ c.left \subseteq Hubs
    /\ c.looked = 0 => c.calls = 0 /\ c.left # {} /\ c.pc = "looking"

ClickKnows(c) ==
    /\ c.kind \in {"none", "patch", "confirm", "check", "resolve"}
    /\ c.kind = "patch" => PatchKnows(c)
    /\ c.kind = "confirm" => ConfirmKnows(c)
    /\ c.kind = "check" => CheckKnows(c)
    /\ c.kind = "resolve" => ResolveKnows(c)

HubInv ==
    /\ hub \in [Hubs -> HubRows \cup {Blank}] /\ torn \subseteq Hubs
    /\ DOMAIN click = Admins /\ \A a \in Admins : ClickKnows(click[a])
    /\ \A h \in Hubs \ torn : Exists(h) => Whole(hub[h])

\* The catalogue starts with whole rows and no click.
LEMMA HubStart == HubInit => HubInv
  <1> SUFFICES ASSUME HubInit PROVE HubInv
    OBVIOUS
  <1>1. hub \in [Hubs -> Confirmed \cup {Blank}] /\ torn = {} /\ click = [a \in Admins |-> NoClick]
    BY DEF HubInit
  <1>2. ASSUME NEW row \in Confirmed PROVE row \in HubRows /\ Whole(row)
    <2>1. /\ row \in [active : {TRUE}, uic : Codes, origin : {"msmm"}, id : StationIds]
          /\ StationOf[row.uic] = StationOf[row.id]
      BY DEF Confirmed
    <2>2. row \in HubRows
      BY <2>1 DEF HubRows
    <2>3. row.uic # Blank /\ row.origin # Blank
      BY <2>1, HubAssumption
    <2> QED BY <2>1, <2>2, <2>3 DEF Whole
  <1>3. hub \in [Hubs -> HubRows \cup {Blank}] /\ \A h \in Hubs : Exists(h) => Whole(hub[h])
    BY <1>1, <1>2 DEF Exists
  <1>4. \A a \in Admins : ClickKnows(click[a])
    BY <1>1 DEF ClickKnows, NoClick
  <1> QED BY <1>1, <1>3, <1>4 DEF HubInv

\* A click's own record is all that an action on it must account for, when no row goes.
LEMMA OthersKnow ==
    ASSUME HubInv, DOMAIN click' = Admins, NEW a \in Admins, ClickKnows(click[a])',
           \A b \in Admins \ {a} : click'[b] = click[b],
           \A h \in Hubs : hub[h] \in HubRows => hub'[h] \in HubRows
    PROVE  \A b \in Admins : ClickKnows(click[b])'
  <1> SUFFICES ASSUME NEW b \in Admins \ {a} PROVE ClickKnows(click[b])'
    OBVIOUS
  <1>1. ClickKnows(click[b]) /\ click'[b] = click[b]
    BY DEF HubInv
  <1>2. click[b].kind = "patch" => PatchKnows(click[b])'
    BY <1>1 DEF ClickKnows, PatchKnows
  <1>3. click[b].kind = "confirm" => ConfirmKnows(click[b])'
    BY <1>1 DEF ClickKnows, ConfirmKnows
  <1>4. click[b].kind = "check" => CheckKnows(click[b])'
    BY <1>1 DEF ClickKnows, CheckKnows
  <1>5. click[b].kind = "resolve" => ResolveKnows(click[b])'
    BY <1>1 DEF ClickKnows, ResolveKnows
  <1> QED BY <1>1, <1>2, <1>3, <1>4, <1>5 DEF ClickKnows

\* A click that has ended holds nothing.
LEMMA NoClickKnows == ClickKnows(NoClick)
  BY DEF ClickKnows, NoClick

\* The edit of a PATCH keeps a row whole.
LEMMA PatchedRow ==
    ASSUME NEW row \in HubRows, NEW body \in PatchBodies
    PROVE  Patched(row, body) \in HubRows /\ (Whole(row) => Whole(Patched(row, body)))
  <1>1. CASE body.what = "type"
    <2>1. body.code \in Codes \cup {Blank}
      BY DEF PatchBodies
    <2>2. Typed(row, body.code) \in HubRows
      BY <2>1 DEF Typed, HubRows
    <2>3. Whole(row) => Whole(Typed(row, body.code))
      BY <2>1, HubAssumption DEF Typed, HubRows, Whole
    <2> QED BY <1>1, <2>2, <2>3 DEF Patched
  <1>2. CASE body.what = "forget"
    BY <1>2 DEF Patched, HubRows, Whole
  <1>3. CASE body.what \notin {"type", "forget"}
    BY <1>3 DEF Patched, HubRows, Whole
  <1> QED BY <1>1, <1>2, <1>3

\* The columns that differ from the row read, over a row that is it or another.
LEMMA WrittenColumns ==
    ASSUME NEW now \in HubRows, NEW before \in HubRows, NEW new \in HubRows
    PROVE  LET row == [f \in DOMAIN now |-> IF new[f] = before[f] THEN now[f] ELSE new[f]]
           IN  row \in HubRows /\ (now = before => row = new)
  <1> DEFINE row == [f \in DOMAIN now |-> IF new[f] = before[f] THEN now[f] ELSE new[f]]
  <1>1. DOMAIN now = {"active", "uic", "origin", "id"} /\ DOMAIN new = DOMAIN now
    BY DEF HubRows
  <1>2. /\ row.active \in BOOLEAN /\ row.uic \in Codes \cup {Blank}
        /\ row.origin \in {"manual", "msmm", Blank} /\ row.id \in StationIds \cup {Blank}
    BY <1>1 DEF HubRows
  <1>3. row = [active |-> row.active, uic |-> row.uic, origin |-> row.origin, id |-> row.id]
    BY <1>1
  <1>4. row \in HubRows
    BY <1>2, <1>3 DEF HubRows
  <1>5. now = before => row = new
    BY <1>1 DEF HubRows
  <1> QED BY <1>4, <1>5

\* What the module answers under a key is of the key's station.
LEMMA AnswersFound ==
    ASSUME NEW rows, NEW useIds \in BOOLEAN, NEW f \in Answers(rows, useIds), NEW h \in DOMAIN rows
    PROVE  FoundFor(f[h], CheckKey(rows[h], useIds))
  BY HubAssumption DEF Answers, RowsOf, FoundFor, Absent

\* A step that leaves the hubs alone, and whose click knows what it must.
LEMMA ClickStep ==
    ASSUME HubInv, NEW a \in Admins, click' = [click EXCEPT ![a] = click'[a]],
           UNCHANGED <<hub, torn>>, ClickKnows(click[a])'
    PROVE  HubInv'
  <1>1. DOMAIN click' = Admins /\ \A b \in Admins \ {a} : click'[b] = click[b]
    BY DEF HubInv
  <1>2. \A b \in Admins : ClickKnows(click[b])'
    BY <1>1, OthersKnow
  <1> QED BY <1>1, <1>2 DEF HubInv, Exists

\* A step that ends a click, or leaves the clicks, and writes rows over rows.
LEMMA RowStep ==
    ASSUME HubInv, NEW a \in Admins, click' = click \/ click' = [click EXCEPT ![a] = NoClick],
           hub' \in [Hubs -> HubRows \cup {Blank}], torn' \subseteq Hubs,
           \A h \in Hubs : hub[h] \in HubRows => hub'[h] \in HubRows,
           \A h \in Hubs \ torn' : Exists(h)' => Whole(hub[h])'
    PROVE  HubInv'
  <1>1. DOMAIN click' = Admins /\ \A b \in Admins \ {a} : click'[b] = click[b]
    BY DEF HubInv
  <1>2. ClickKnows(click[a])'
    <2>1. CASE click' = click
      <3>1. ClickKnows(click[a]) /\ click'[a] = click[a]
        BY <2>1 DEF HubInv
      <3> QED BY <3>1 DEF ClickKnows, PatchKnows, ConfirmKnows, CheckKnows, ResolveKnows, FoundFor
    <2>2. CASE click' = [click EXCEPT ![a] = NoClick]
      BY <2>2 DEF HubInv, ClickKnows, NoClick
    <2> QED BY <2>1, <2>2
  <1>3. \A b \in Admins : ClickKnows(click[b])'
    BY <1>1, <1>2, OthersKnow
  <1> QED BY <1>1, <1>3 DEF HubInv

\* A confirm stores a pair that is one station, over a row it found as it read it.
LEMMA ConfirmStores ==
    ASSUME HubInv, NEW a \in Admins, ConfirmStore(a)
    PROVE  HubInv'
  <1> DEFINE c == click[a]  p == c.pair
  <1>1. c.h \in Hubs /\ p \in Pairs /\ Ends(a) /\ UNCHANGED torn
    BY SMTT(30) DEF ConfirmStore, HubInv, ClickKnows, ConfirmKnows
  <1>2. PICK byCode \in IF p.uic = Blank THEN {Absent} ELSE RowsOf(p.uic),
             byId \in IF p.id = Blank THEN {Absent} ELSE RowsOf(p.id) :
               hub' = IF ConfirmedId(p, byCode, byId) # Absent /\ Guarded(c.h, c.before)
                      THEN [hub EXCEPT ![c.h].uic = p.uic,
                                       ![c.h].id = ConfirmedId(p, byCode, byId),
                                       ![c.h].origin = IF p.uic = Blank THEN Blank ELSE "msmm"]
                      ELSE hub
    BY DEF ConfirmStore
  <1> DEFINE id == ConfirmedId(p, byCode, byId)
  <1>3. /\ p.uic \in Codes \cup {Blank} /\ p.id \in StationIds \cup {Blank}
        /\ p.uic # Blank \/ p.id # Blank
        /\ (p.uic # Blank /\ p.id # Blank) => StationOf[p.uic] = StationOf[p.id]
    BY <1>1 DEF Pairs, HasStation
  <1>4. /\ byCode \in {Absent, Blank} \/ (byCode \in StationIds /\ StationOf[byCode] = StationOf[p.uic])
        /\ \/ byId \in {Absent, Blank}
           \/ byId \in StationIds /\ p.id # Blank /\ StationOf[byId] = StationOf[p.id]
    BY <1>2, <1>3 DEF RowsOf
  <1>5. id # Absent => /\ id \in StationIds \cup {Blank}
                       /\ (p.uic # Blank /\ id # Blank) => StationOf[p.uic] = StationOf[id]
    BY <1>2, <1>3, <1>4 DEF ConfirmedId, RowsOf
  <1>6. CASE id # Absent /\ Guarded(c.h, c.before)
    <2>1. hub[c.h] \in HubRows
      BY <1>1, <1>6 DEF HubInv, Guarded, Exists
    <2> DEFINE row == [hub[c.h] EXCEPT !.uic = p.uic, !.id = id,
                                       !.origin = IF p.uic = Blank THEN Blank ELSE "msmm"]
    <2>2. row \in HubRows
      BY <2>1, <1>3, <1>5, <1>6 DEF HubRows
    <2>3. Whole(row)
      <3>1. row.uic = p.uic /\ row.id = id
            /\ row.origin = IF p.uic = Blank THEN Blank ELSE "msmm"
        BY <2>1 DEF HubRows
      <3> QED BY <3>1, <1>5, <1>6, HubAssumption DEF Whole
    <2>4. hub' = [hub EXCEPT ![c.h] = row]
      BY <1>2, <1>6, <2>1 DEF HubInv, HubRows
    <2>5. /\ hub' \in [Hubs -> HubRows \cup {Blank}]
          /\ \A h \in Hubs : hub'[h] = IF h = c.h THEN row ELSE hub[h]
      BY <2>2, <2>4, <1>1 DEF HubInv
    <2>6. \A h \in Hubs \ torn' : Exists(h)' => Whole(hub[h])'
      BY <2>5, <2>3, <1>1 DEF HubInv, Exists
    <2> QED BY <2>2, <2>5, <2>6, <1>1, RowStep DEF Ends, HubInv
  <1>7. CASE ~(id # Absent /\ Guarded(c.h, c.before))
    <2>1. hub' = hub
      BY <1>2, <1>7
    <2> QED BY <2>1, <1>1, RowStep DEF Ends, HubInv, Exists
  <1> QED BY <1>6, <1>7

\* A check writes ids of the stations it asked for, over rows it found as it read them.
LEMMA CheckWrites ==
    ASSUME HubInv, NEW a \in Admins, CheckWrite(a)
    PROVE  HubInv'
  <1> DEFINE c == click[a]
             new(h) == NewId(c.before[h], c.found[h], c.via[h])
             writes(h) == h \in DOMAIN c.before /\ new(h) # Blank /\ Guarded(h, c.before[h])
  <1>1. /\ Ends(a) /\ UNCHANGED torn /\ CheckKnows(c)
        /\ hub' = [h \in Hubs |-> IF writes(h) THEN [hub[h] EXCEPT !.id = new(h)] ELSE hub[h]]
    BY DEF CheckWrite, HubInv, ClickKnows
  <1>2. ASSUME NEW h \in Hubs, writes(h)
        PROVE  /\ hub[h] \in HubRows /\ [hub[h] EXCEPT !.id = new(h)] \in HubRows
               /\ Whole(hub[h]) => Whole([hub[h] EXCEPT !.id = new(h)])
    <2>1. hub[h] \in HubRows /\ hub[h].uic = c.before[h].uic /\ hub[h].id = c.before[h].id
      BY <1>2 DEF HubInv, Guarded, Exists
    <2>2. /\ c.found[h] \notin {Blank, Absent} /\ new(h) = c.found[h]
          /\ c.via[h] = "id" \/ (c.via[h] = "uic" /\ hub[h].id = Blank)
      BY <1>2, <2>1 DEF NewId
    <2>3. /\ new(h) \in StationIds
          /\ \/ hub[h].id # Blank /\ StationOf[new(h)] = StationOf[hub[h].id]
             \/ hub[h].uic # Blank /\ StationOf[new(h)] = StationOf[hub[h].uic]
      BY <1>1, <1>2, <2>1, <2>2 DEF CheckKnows, FoundFor
    <2> DEFINE row == [hub[h] EXCEPT !.id = new(h)]
    <2>4. row.uic = hub[h].uic /\ row.origin = hub[h].origin /\ row.id = new(h)
      BY <2>1 DEF HubRows
    <2>5. row \in HubRows
      BY <2>1, <2>3 DEF HubRows
    <2>6. Whole(hub[h]) => Whole(row)
      BY <2>3, <2>4 DEF Whole
    <2> QED BY <2>1, <2>5, <2>6
  <1>3. ASSUME NEW h \in Hubs
        PROVE  /\ hub'[h] \in HubRows \cup {Blank} /\ (hub[h] \in HubRows => hub'[h] \in HubRows)
               /\ h \notin torn /\ Exists(h)' => Whole(hub'[h])
    <2>1. CASE writes(h)
      <3>1. hub'[h] = [hub[h] EXCEPT !.id = new(h)]
        BY <1>1, <2>1
      <3>2. h \notin torn => Whole(hub[h])
        BY <2>1 DEF HubInv, Guarded
      <3> QED BY <1>2, <2>1, <3>1, <3>2
    <2>2. CASE ~writes(h)
      <3>1. hub'[h] = hub[h]
        BY <1>1, <2>2
      <3> QED BY <3>1 DEF HubInv, Exists
    <2> QED BY <2>1, <2>2
  <1>4. hub' \in [Hubs -> HubRows \cup {Blank}]
    BY <1>1, <1>3
  <1> QED BY <1>1, <1>3, <1>4, RowStep DEF Ends, HubInv, Whole

\* Every action of the catalogue keeps the invariant.
LEMMA HubStep == HubInv /\ [HubNext]_hubVars => HubInv'
  <1> SUFFICES ASSUME HubInv, HubNext \/ UNCHANGED hubVars PROVE HubInv'
    OBVIOUS
  <1> USE HubAssumption
  <1>1. ASSUME NEW h \in Hubs, NEW code \in Codes \cup {Blank}, CreateHub(h, code) PROVE HubInv'
    <2> DEFINE row == [active |-> TRUE, uic |-> code, id |-> Blank,
                       origin |-> IF code = Blank THEN Blank ELSE "manual"]
    <2>1. row \in HubRows /\ Whole(row)
      BY <1>1 DEF HubRows, Whole
    <2>2. /\ hub' = [hub EXCEPT ![h] = row] /\ UNCHANGED <<click, torn>>
      BY <1>1 DEF CreateHub
    <2>3. /\ hub' \in [Hubs -> HubRows \cup {Blank}]
          /\ \A g \in Hubs : hub'[g] = IF g = h THEN row ELSE hub[g]
      BY <2>1, <2>2, <1>1 DEF HubInv
    <2>4. \A b \in Admins : ClickKnows(click[b])'
      <3> SUFFICES ASSUME NEW b \in Admins PROVE ClickKnows(click[b])'
        OBVIOUS
      <3>1. ClickKnows(click[b]) /\ click'[b] = click[b]
        BY <2>2 DEF HubInv
      <3> QED BY <3>1, <2>1, <2>3, ZenonT(60)
            DEF ClickKnows, PatchKnows, ConfirmKnows, CheckKnows, ResolveKnows, FoundFor
    <2> QED BY <2>1, <2>2, <2>3, <2>4 DEF HubInv, Exists
  <1>2. ASSUME NEW h \in Hubs, DeleteHub(h) PROVE HubInv'
    <2> DEFINE row == [hub[h] EXCEPT !.active = FALSE]
    <2>1. hub[h] \in HubRows
      BY <1>2 DEF DeleteHub, Exists, HubInv
    <2>2. row \in HubRows /\ (Whole(hub[h]) => Whole(row))
      BY <2>1 DEF HubRows, Whole
    <2>3. hub' = [hub EXCEPT ![h] = row] /\ UNCHANGED <<click, torn>>
      BY <1>2, <2>1 DEF DeleteHub, HubRows, HubInv
    <2>4. /\ hub' \in [Hubs -> HubRows \cup {Blank}]
          /\ \A g \in Hubs : hub'[g] = IF g = h THEN row ELSE hub[g]
      BY <2>2, <2>3 DEF HubInv
    <2>5. \A b \in Admins : ClickKnows(click[b])'
      <3> SUFFICES ASSUME NEW b \in Admins PROVE ClickKnows(click[b])'
        OBVIOUS
      <3>1. ClickKnows(click[b]) /\ click'[b] = click[b]
        BY <2>3 DEF HubInv
      <3> QED BY <3>1, <2>2, <2>4, ZenonT(60)
            DEF ClickKnows, PatchKnows, ConfirmKnows, CheckKnows, ResolveKnows, FoundFor
    <2> QED BY <1>2, <2>2, <2>3, <2>4, <2>5 DEF HubInv, Exists, DeleteHub
  <1>3. ASSUME NEW a \in Admins, NEW h \in Hubs, NEW body \in PatchBodies, PatchLoad(a, h, body)
        PROVE HubInv'
    <2> DEFINE c == [kind |-> "patch", pc |-> "loaded", h |-> h, body |-> body, before |-> hub[h]]
    <2>1. click' = [click EXCEPT ![a] = c] /\ click'[a] = c /\ UNCHANGED <<hub, torn>> /\ hub[h] \in HubRows
      BY <1>3 DEF PatchLoad, Start, Exists, HubInv
    <2>2. ClickKnows(click[a])'
      BY <2>1 DEF ClickKnows, PatchKnows
    <2> QED BY <2>1, <2>2, ClickStep
  <1>4. ASSUME NEW a \in Admins, PatchCommit(a) PROVE HubInv'
    <2> DEFINE c == click[a]  now == hub[c.h]  new == Patched(c.before, c.body)
               row == [f \in DOMAIN now |-> IF new[f] = c.before[f] THEN now[f] ELSE new[f]]
    <2>1. c.h \in Hubs /\ c.body \in PatchBodies /\ c.before \in HubRows /\ now \in HubRows
      BY <1>4 DEF PatchCommit, HubInv, ClickKnows, PatchKnows
    <2>2. /\ hub' = [hub EXCEPT ![c.h] = row] /\ click' = [click EXCEPT ![a] = NoClick]
          /\ torn' = IF now = c.before THEN torn ELSE torn \cup {c.h}
      BY <1>4 DEF PatchCommit, Ends
    <2>3. new \in HubRows /\ (Whole(c.before) => Whole(new))
      BY <2>1, PatchedRow
    <2>4. row \in HubRows /\ (now = c.before => row = new)
      BY <2>1, <2>3, WrittenColumns
    <2>5. /\ hub' \in [Hubs -> HubRows \cup {Blank}]
          /\ \A g \in Hubs : hub'[g] = IF g = c.h THEN row ELSE hub[g]
      BY <2>1, <2>2, <2>4 DEF HubInv
    <2>6. torn' \subseteq Hubs
      BY <2>1, <2>2 DEF HubInv
    <2>7. ASSUME NEW g \in Hubs \ torn', Exists(g)' PROVE Whole(hub'[g])
      <3>1. CASE g = c.h /\ Exists(g)
        <4>1. now = c.before /\ g \notin torn
          BY <2>2, <2>7, <3>1
        <4>2. Whole(now)
          BY <4>1, <3>1 DEF HubInv
        <4> QED BY <4>1, <4>2, <2>3, <2>4, <2>5, <3>1
      <3>2. CASE g = c.h /\ ~Exists(g)
        BY <3>2, <2>1, HubAssumption DEF Exists
      <3>3. CASE g # c.h
        BY <3>3, <2>2, <2>5, <2>7 DEF HubInv, Exists
      <3> QED BY <3>1, <3>2, <3>3
    <2> QED BY <2>2, <2>4, <2>5, <2>6, <2>7, RowStep, Zenon DEF Whole
  <1>5. ASSUME NEW a \in Admins, NEW h \in Hubs, NEW p \in Pairs, ConfirmRead(a, h, p) PROVE HubInv'
    <2> DEFINE c == [kind |-> "confirm", pc |-> "asked", h |-> h, pair |-> p, before |-> hub[h]]
    <2>1. click' = [click EXCEPT ![a] = c] /\ click'[a] = c /\ UNCHANGED <<hub, torn>>
      BY <1>5 DEF ConfirmRead, Start, HubInv
    <2>2. ClickKnows(click[a])'
      BY <2>1 DEF ClickKnows, ConfirmKnows
    <2> QED BY <2>1, <2>2, ClickStep
  <1>6. ASSUME NEW a \in Admins, ConfirmStore(a) PROVE HubInv'
    BY <1>6, ConfirmStores
  <1>7. ASSUME NEW a \in Admins, ModuleFails(a) \/ ClickOver(a) PROVE HubInv'
    <2>1. click' = [click EXCEPT ![a] = NoClick] /\ click'[a] = NoClick /\ UNCHANGED <<hub, torn>>
      BY <1>7 DEF ModuleFails, ClickOver, Ends, HubInv
    <2>2. ClickKnows(click[a])'
      BY <2>1 DEF ClickKnows, NoClick
    <2> QED BY <2>1, <2>2, ClickStep
  <1>8. ASSUME NEW a \in Admins, NEW batch \in SUBSET Hubs, CheckRead(a, batch) PROVE HubInv'
    <2> DEFINE c == [kind |-> "check", pc |-> "first", found |-> [h \in batch |-> Absent],
                     via |-> [h \in batch |-> "id"], before |-> [h \in batch |-> hub[h]]]
    <2>1. click' = [click EXCEPT ![a] = c] /\ click'[a] = c /\ UNCHANGED <<hub, torn>>
      BY <1>8 DEF CheckRead, Start, HubInv
    <2>2. \A h \in batch : hub[h] \in HubRows
      BY <1>8 DEF CheckRead, ToLookAt, Exists, HubInv
    <2>3. CheckKnows(click[a])'
      BY <2>1, <2>2 DEF CheckKnows, FoundFor
    <2>4. ClickKnows(click[a])'
      BY <2>1, <2>3 DEF ClickKnows
    <2> QED BY <2>1, <2>4, ClickStep
  <1>9. ASSUME NEW a \in Admins, CheckAnswered(a) PROVE HubInv'
    <2> DEFINE rows == click[a].before
    <2>1. PICK f \in Answers(rows, TRUE) :
            LET lost == {h \in DOMAIN rows : f[h] = Absent /\ rows[h].id # Blank /\ rows[h].uic # Blank}
            IN  click' = [click EXCEPT ![a].found = f,
                    ![a].pc = IF lost = {} THEN "write" ELSE "second",
                    ![a].via = [h \in DOMAIN rows |->
                        IF h \in lost THEN "code_after_id"
                        ELSE IF rows[h].id # Blank THEN "id" ELSE "uic"]]
      BY <1>9 DEF CheckAnswered
    <2> DEFINE lost == {h \in DOMAIN rows : f[h] = Absent /\ rows[h].id # Blank /\ rows[h].uic # Blank}
               via == [h \in DOMAIN rows |-> IF h \in lost THEN "code_after_id"
                                             ELSE IF rows[h].id # Blank THEN "id" ELSE "uic"]
               c == [click[a] EXCEPT !.found = f, !.pc = IF lost = {} THEN "write" ELSE "second",
                                     !.via = via]
    <2>2. click' = [click EXCEPT ![a] = c] /\ click'[a] = c /\ UNCHANGED <<hub, torn>>
      BY <1>9, <2>1, ZenonT(60) DEF CheckAnswered, HubInv
    <2>3. CheckKnows(click[a]) /\ click[a].kind = "check"
      BY <1>9 DEF CheckAnswered, HubInv, ClickKnows
    <2>4. \A h \in DOMAIN rows : FoundFor(f[h], CheckKey(rows[h], TRUE))
      BY AnswersFound
    <2>5. /\ DOMAIN c = {"kind", "pc", "found", "via", "before"} /\ c.kind = "check"
          /\ c.before = rows /\ c.found = f /\ c.via = via /\ c.pc \in {"write", "second"}
      BY <2>3 DEF CheckKnows
    <2>6. ASSUME NEW h \in DOMAIN rows
          PROVE  /\ via[h] = "id" => FoundFor(f[h], rows[h].id)
                 /\ via[h] = "uic" => FoundFor(f[h], rows[h].uic)
      BY <2>4, <2>6 DEF CheckKey
    <2> HIDE DEF c, via
    <2>7. CheckKnows(click[a])'
      BY <2>2, <2>3, <2>5, <2>6 DEF CheckKnows, FoundFor
    <2>8. ClickKnows(click[a])'
      BY <2>2, <2>5, <2>7 DEF ClickKnows
    <2> QED BY <2>2, <2>8, ClickStep
  <1>10. ASSUME NEW a \in Admins, CheckIdsRefused(a) PROVE HubInv'
    <2> DEFINE rows == click[a].before
               via == [h \in DOMAIN rows |-> "uic"]
    <2>1. PICK f \in Answers(rows, FALSE) :
            click' = [click EXCEPT ![a].found = f, ![a].pc = "write", ![a].via = via]
      BY <1>10 DEF CheckIdsRefused
    <2> DEFINE c == [click[a] EXCEPT !.found = f, !.pc = "write", !.via = via]
    <2>2. click' = [click EXCEPT ![a] = c] /\ click'[a] = c /\ UNCHANGED <<hub, torn>>
      BY <1>10, <2>1 DEF CheckIdsRefused, HubInv
    <2>3. CheckKnows(click[a]) /\ click[a].kind = "check"
      BY <1>10 DEF CheckIdsRefused, HubInv, ClickKnows
    <2>4. \A h \in DOMAIN rows : FoundFor(f[h], CheckKey(rows[h], FALSE))
      BY AnswersFound
    <2>5. /\ DOMAIN c = {"kind", "pc", "found", "via", "before"} /\ c.kind = "check"
          /\ c.before = rows /\ c.found = f /\ c.via = via /\ c.pc = "write"
      BY <2>3 DEF CheckKnows
    <2>6. CheckKnows(click[a])'
      <3>1. \A h \in DOMAIN rows : via[h] = "uic" /\ FoundFor(f[h], rows[h].uic)
        BY <2>4 DEF CheckKey
      <3>2. \A h \in DOMAIN rows : h \in Hubs /\ rows[h] \in HubRows
        BY <2>3 DEF CheckKnows
      <3> HIDE DEF rows, via, c
      <3>3. CheckKnows(c)
        BY <2>5, <3>1, <3>2 DEF CheckKnows
      <3> QED BY <2>2, <3>3 DEF CheckKnows, FoundFor
    <2>7. ClickKnows(click[a])'
      BY <2>2, <2>5, <2>6 DEF ClickKnows
    <2> QED BY <2>2, <2>7, ClickStep
  <1>11. ASSUME NEW a \in Admins, CheckSecond(a) PROVE HubInv'
    <2> DEFINE b == click[a].before
               lost == {h \in DOMAIN b : click[a].via[h] = "code_after_id"}
    <2>1. PICK f \in Answers([h \in lost |-> b[h]], FALSE) :
            click' = [click EXCEPT ![a].pc = "write",
                ![a].found = [h \in DOMAIN b |-> IF h \in lost THEN f[h] ELSE click[a].found[h]]]
      BY <1>11 DEF CheckSecond
    <2> DEFINE found == [h \in DOMAIN b |-> IF h \in lost THEN f[h] ELSE click[a].found[h]]
               c == [click[a] EXCEPT !.pc = "write", !.found = found]
    <2>2. click' = [click EXCEPT ![a] = c] /\ click'[a] = c /\ UNCHANGED <<hub, torn>>
      BY <1>11, <2>1 DEF CheckSecond, HubInv
    <2>3. CheckKnows(click[a]) /\ click[a].kind = "check"
      BY <1>11 DEF CheckSecond, HubInv, ClickKnows
    <2>4. /\ DOMAIN c = {"kind", "pc", "found", "via", "before"} /\ c.kind = "check"
          /\ c.before = b /\ c.found = found /\ c.via = click[a].via /\ c.pc = "write"
      BY <2>3 DEF CheckKnows
    <2>5. CheckKnows(click[a])'
      <3>1. \A h \in DOMAIN b : h \in Hubs /\ b[h] \in HubRows
        BY <2>3 DEF CheckKnows
      <3>2. \A h \in DOMAIN b : click[a].via[h] \in {"id", "uic"} => h \notin lost
        OBVIOUS
      <3>3. \A h \in DOMAIN b : click[a].via[h] \in {"id", "uic"} => found[h] = click[a].found[h]
        BY <3>2
      <3>4. \A h \in DOMAIN b : /\ click[a].via[h] = "id" => FoundFor(click[a].found[h], b[h].id)
                                /\ click[a].via[h] = "uic" => FoundFor(click[a].found[h], b[h].uic)
        BY <2>3 DEF CheckKnows
      <3> HIDE DEF b, found, lost, c
      <3>5. CheckKnows(c)
        BY <2>4, <3>1, <3>3, <3>4 DEF CheckKnows
      <3> QED BY <2>2, <3>5 DEF CheckKnows, FoundFor
    <2>6. ClickKnows(click[a])'
      BY <2>2, <2>4, <2>5 DEF ClickKnows
    <2> QED BY <2>2, <2>6, ClickStep
  <1>12. ASSUME NEW a \in Admins, CheckWrite(a) PROVE HubInv'
    BY <1>12, CheckWrites
  <1>13. ASSUME NEW a \in Admins, NEW shown \in SUBSET Hubs, ResolveRead(a, shown) PROVE HubInv'
    <2> DEFINE c == [kind |-> "resolve", pc |-> "looking", left |-> ToLookAt(FALSE) \ shown,
                     looked |-> 0, calls |-> 0]
    <2>1. click' = [click EXCEPT ![a] = c] /\ click'[a] = c /\ UNCHANGED <<hub, torn>> /\ c.left # {}
      BY <1>13 DEF ResolveRead, Start, HubInv
    <2>2. ToLookAt(FALSE) \subseteq Hubs
      BY DEF ToLookAt
    <2>3. ResolveKnows(click[a])'
      <3>1. CallBudget \in Nat
        BY ONLY HubAssumption
      <3>2. 0 \in 0..CallBudget
        BY ONLY <3>1
      <3>3. /\ DOMAIN c = {"kind", "pc", "left", "looked", "calls"} /\ c.pc = "looking"
            /\ c.left \subseteq Hubs /\ c.looked = 0 /\ c.calls = 0
        BY <2>2
      <3> HIDE DEF c
      <3> QED BY <2>1, <3>2, <3>3 DEF ResolveKnows
    <2>4. ClickKnows(click[a])'
      BY <2>1, <2>3 DEF ClickKnows
    <2> QED BY <2>1, <2>4, ClickStep
  <1>14. ASSUME NEW a \in Admins, NEW h \in Hubs, LookAt(a, h) PROVE HubInv'
    <2>1. PICK made \in 1..WorstCalls[h] :
            click' = [click EXCEPT ![a].left = @ \ {h}, ![a].looked = @ + 1, ![a].calls = @ + made]
      BY <1>14 DEF LookAt
    <2> DEFINE c == [click[a] EXCEPT !.left = @ \ {h}, !.looked = @ + 1, !.calls = @ + made]
    <2>2. click' = [click EXCEPT ![a] = c] /\ click'[a] = c /\ UNCHANGED <<hub, torn>>
      BY <1>14, <2>1 DEF LookAt, HubInv
    <2>3. /\ ResolveKnows(click[a]) /\ click[a].kind = "resolve"
          /\ click[a].calls + WorstCalls[h] <= CallBudget
      BY <1>14 DEF LookAt, HubInv, ClickKnows, Fits
    <2>4. /\ c.kind = "resolve" /\ c.left = click[a].left \ {h}
          /\ c.looked = click[a].looked + 1 /\ c.calls = click[a].calls + made
      BY <2>3 DEF ResolveKnows
    <2>5. c.calls \in 0..CallBudget /\ c.looked \in Nat /\ c.looked # 0
      BY <2>3, <2>4 DEF ResolveKnows
    <2>6. ResolveKnows(click[a])'
      BY <2>2, <2>3, <2>4, <2>5 DEF ResolveKnows
    <2>7. ClickKnows(click[a])'
      BY <2>2, <2>4, <2>6 DEF ClickKnows
    <2> QED BY <2>2, <2>7, ClickStep
  <1>15. ASSUME NEW a \in Admins, ResolveAnswers(a) PROVE HubInv'
    <2> DEFINE c == [click[a] EXCEPT !.pc = "answered"]
    <2>1. click' = [click EXCEPT ![a] = c] /\ click'[a] = c /\ UNCHANGED <<hub, torn>>
      BY <1>15 DEF ResolveAnswers, HubInv
    <2>2. /\ ResolveKnows(click[a]) /\ click[a].kind = "resolve"
          /\ click[a].left = {} \/ click[a].looked = ResolveBatch
             \/ \E h \in click[a].left : ~(click[a].calls + WorstCalls[h] <= CallBudget)
      BY <1>15 DEF ResolveAnswers, HubInv, ClickKnows, Fits
    <2>3. click[a].looked # 0
      BY <2>2 DEF ResolveKnows
    <2>4. /\ c.kind = "resolve" /\ c.left = click[a].left
          /\ c.looked = click[a].looked /\ c.calls = click[a].calls
      BY <2>2 DEF ResolveKnows
    <2>5. ResolveKnows(click[a])'
      BY <2>1, <2>2, <2>3, <2>4 DEF ResolveKnows
    <2>6. ClickKnows(click[a])'
      BY <2>1, <2>4, <2>5 DEF ClickKnows
    <2> QED BY <2>1, <2>6, ClickStep
  <1>16. CASE UNCHANGED hubVars
    BY <1>16 DEF hubVars, HubInv, ClickKnows, PatchKnows, ConfirmKnows, CheckKnows, ResolveKnows,
                 FoundFor, Exists, Whole
  <1> QED BY <1>1, <1>2, <1>3, <1>4, <1>5, <1>6, <1>7, <1>8, <1>9, <1>10, <1>11, <1>12,
             <1>13, <1>14, <1>15, <1>16 DEF HubNext

\* The catalogue's invariant holds in every state.
LEMMA HubsAlways == HubSpec => []HubInv
  BY HubStart, HubStep, PTL DEF HubSpec

\* What the invariant says of the hubs, their stations and the calls of a resolve.
LEMMA HubsAreTrue == HubInv => HubTypeOK /\ OneStation /\ ResolveBudget
  <1> SUFFICES ASSUME HubInv PROVE HubTypeOK /\ OneStation /\ ResolveBudget
    OBVIOUS
  <1>1. HubTypeOK
    BY DEF HubInv, HubTypeOK, HubRows, Exists, Whole
  <1>2. OneStation
    BY DEF HubInv, OneStation, Exists, Whole
  <1>3. ResolveBudget
    <2> SUFFICES ASSUME NEW a \in Admins, click[a].kind = "resolve"
                 PROVE  /\ click[a].calls <= CallBudget
                        /\ click[a].pc = "answered" => click[a].looked > 0
      BY DEF ResolveBudget
    <2>1. ResolveKnows(click[a]) /\ CallBudget \in Nat
      BY HubAssumption DEF HubInv, ClickKnows
    <2> QED BY <2>1 DEF ResolveKnows
  <1> QED BY <1>1, <1>2, <1>3

\* A deleted hub changes by a PATCH alone: the other writers find it inactive.
LEMMA OnlyPatchTouches ==
    ASSUME HubInv, [HubNext]_hubVars, NEW h \in Hubs, Exists(h), ~hub[h].active, hub'[h] # hub[h]
    PROVE  \E a \in Admins : click[a].kind = "patch" /\ click'[a].pc = "idle"
  <1>1. CASE \E g \in Hubs : (\E code \in Codes \cup {Blank} : CreateHub(g, code)) \/ DeleteHub(g)
    <2>1. PICK g \in Hubs : (\E code \in Codes \cup {Blank} : CreateHub(g, code)) \/ DeleteHub(g)
      BY <1>1
    <2>2. h = g
      BY <2>1 DEF CreateHub, DeleteHub, HubInv
    <2> QED BY <2>1, <2>2 DEF CreateHub, DeleteHub
  <1>2. ASSUME NEW a \in Admins, PatchCommit(a)
        PROVE  click[a].kind = "patch" /\ click'[a].pc = "idle"
    BY <1>2 DEF PatchCommit, Ends, HubInv, NoClick
  <1>3. ASSUME NEW a \in Admins, ConfirmStore(a) PROVE FALSE
    <2>1. h = click[a].h /\ Guarded(h, click[a].before)
      BY <1>3 DEF ConfirmStore, HubInv
    <2> QED BY <2>1 DEF Guarded
  <1>4. ASSUME NEW a \in Admins, CheckWrite(a) PROVE FALSE
    BY <1>4 DEF CheckWrite, Guarded
  <1>5. \/ hub' = hub \/ \E a \in Admins : PatchCommit(a) \/ ConfirmStore(a) \/ CheckWrite(a)
        \/ \E g \in Hubs : (\E code \in Codes \cup {Blank} : CreateHub(g, code)) \/ DeleteHub(g)
    BY ZenonT(60) DEF HubNext, hubVars, PatchLoad, ConfirmRead, LookAt, ModuleFails, CheckRead, ResolveRead,
           CheckAnswered, CheckIdsRefused, CheckSecond, ResolveAnswers, ClickOver
  <1> QED BY <1>1, <1>2, <1>3, <1>4, <1>5

\* A click of a check ends by its write, or without one.
LEMMA OnlyAnsweredMoves ==
    ASSUME HubInv, [HubNext]_hubVars, NEW a \in Admins,
           click[a].kind = "check", click'[a].pc = "idle",
           NEW h \in Hubs, hub'[h] # hub[h], Exists(h), hub[h].id # Blank
    PROVE  /\ click[a].via[h] = "id" /\ hub'[h].id = click[a].found[h]
           /\ click[a].before[h].id = hub[h].id
  <1> DEFINE c == click[a]
  <1>1. c.pc \in {"first", "second", "write"} /\ click'[a] # click[a] /\ hub[h] \in HubRows
    BY DEF HubInv, ClickKnows, CheckKnows, Exists
  <1>2. CheckWrite(a)
    <2>1. ASSUME NEW b \in Admins, b # a,
                 \/ \E g \in Hubs : \/ \E body \in PatchBodies : PatchLoad(b, g, body)
                                    \/ \E p \in Pairs : ConfirmRead(b, g, p)
                                    \/ LookAt(b, g)
                 \/ PatchCommit(b) \/ ConfirmStore(b) \/ ModuleFails(b)
                 \/ \E shown \in SUBSET Hubs : CheckRead(b, shown) \/ ResolveRead(b, shown)
                 \/ CheckAnswered(b) \/ CheckIdsRefused(b) \/ CheckSecond(b) \/ CheckWrite(b)
                 \/ ResolveAnswers(b) \/ ClickOver(b)
          PROVE  click'[a] = click[a]
      BY <2>1, Zenon DEF PatchLoad, ConfirmRead, LookAt, PatchCommit, ConfirmStore, ModuleFails, CheckRead,
           ResolveRead, CheckAnswered, CheckIdsRefused, CheckSecond, CheckWrite, ResolveAnswers,
           ClickOver, Start, Ends, HubInv
    <2>2. ASSUME NEW g \in Hubs PROVE ~DeleteHub(g) /\ \A code \in Codes \cup {Blank} : ~CreateHub(g, code)
      BY <1>1 DEF DeleteHub, CreateHub
    <2>3. \/ \E g \in Hubs : \/ \E body \in PatchBodies : PatchLoad(a, g, body)
                             \/ \E p \in Pairs : ConfirmRead(a, g, p)
                             \/ LookAt(a, g)
          \/ PatchCommit(a) \/ ConfirmStore(a) \/ ModuleFails(a)
          \/ \E shown \in SUBSET Hubs : CheckRead(a, shown) \/ ResolveRead(a, shown)
          \/ CheckAnswered(a) \/ CheckIdsRefused(a) \/ CheckSecond(a) \/ CheckWrite(a)
          \/ ResolveAnswers(a) \/ ClickOver(a)
      BY <1>1, <2>1, <2>2 DEF HubNext, hubVars
    <2> QED BY <2>3, <1>1, Zenon DEF PatchLoad, ConfirmRead, LookAt, PatchCommit, ConfirmStore, ModuleFails,
             CheckRead, ResolveRead, CheckAnswered, CheckIdsRefused, CheckSecond, ResolveAnswers,
             ClickOver, Start
  <1> DEFINE new == NewId(c.before[h], c.found[h], c.via[h])
  <1>3. /\ h \in DOMAIN c.before /\ new # Blank /\ Guarded(h, c.before[h])
        /\ hub'[h] = [hub[h] EXCEPT !.id = new]
    BY <1>2 DEF CheckWrite
  <1>4. hub'[h].id = new /\ c.before[h].id = hub[h].id
    BY <1>1, <1>3 DEF HubRows, Guarded
  <1>5. c.via[h] = "id" /\ new = c.found[h]
    BY <1>3, <1>4 DEF NewId
  <1> QED BY <1>4, <1>5

\* The catalogue's action properties.
LEMMA HubEditsBounded == HubSpec => DeletedTakesNothing /\ UnansweredIdStays
  <1>1. HubInv /\ [HubNext]_hubVars =>
          [\A h \in Hubs : (Exists(h) /\ ~hub[h].active /\ hub'[h] # hub[h])
            => \E a \in Admins : click[a].kind = "patch" /\ click'[a].pc = "idle"]_hubVars
    BY OnlyPatchTouches
  <1>2. HubInv /\ [HubNext]_hubVars =>
          [\A a \in Admins : (click[a].kind = "check" /\ click'[a].pc = "idle") =>
            \A h \in Hubs : (hub'[h] # hub[h] /\ Exists(h) /\ hub[h].id # Blank) =>
              /\ click[a].via[h] = "id" /\ hub'[h].id = click[a].found[h]
              /\ click[a].before[h].id = hub[h].id]_hubVars
    BY OnlyAnsweredMoves
  <1> QED BY <1>1, <1>2, HubsAlways, PTL DEF HubSpec, DeletedTakesNothing, UnansweredIdStays

-----------------------------------------------------------------------------
(* The configuration *)

Settings == [limit : Limits, secret : Secrets]

\* What an open PATCH will write: values coerce let through, and no mask.
WritesKnown(w) ==
    /\ DOMAIN w \subseteq {"limit", "secret"}
    /\ "limit" \in DOMAIN w => w["limit"] \in Limits
    /\ "secret" \in DOMAIN w => w["secret"] \in Secrets

CfgTypes ==
    /\ stored \in Settings /\ cached \in Settings /\ gateLimit \in Limits
    /\ cacheAge \in Nat /\ sinceEdit \in Nat /\ DOMAIN readCfg = Readers
    /\ DOMAIN patching = Patchers
    /\ \A p \in Patchers : DOMAIN patching[p] = {"pc", "writes"} /\ WritesKnown(patching[p].writes)

\* A cache that is not the table was loaded while an edit was open.
CacheIsYoung == cached = stored \/ EditOpen \/ sinceEdit <= cacheAge

CfgInv == CfgTypes /\ CacheIsYoung

\* The process starts with the cache it has just loaded.
LEMMA CfgStart == ConfigInit => CfgInv
  <1> SUFFICES ASSUME ConfigInit PROVE CfgInv
    OBVIOUS
  <1>1. stored \in Settings /\ cached = stored /\ gateLimit \in Limits
    BY DEF ConfigInit, Settings
  <1>2. cacheAge \in Nat /\ sinceEdit \in Nat
    BY ConfigAssumption DEF ConfigInit
  <1>3. DOMAIN NoPatch = {"pc", "writes"} /\ WritesKnown(NoPatch.writes)
    BY DEF NoPatch, WritesKnown
  <1> QED BY <1>1, <1>2, <1>3 DEF CfgInv, CfgTypes, CacheIsYoung, ConfigInit

\* The table as an open PATCH sees it, and as its commit leaves it.
LEMMA SeenIsSettings == ASSUME CfgTypes, NEW p \in Patchers PROVE Seen(p) \in Settings
  <1> DEFINE w == patching[p].writes
  <1>1. DOMAIN stored = {"limit", "secret"} /\ stored["limit"] \in Limits /\ stored["secret"] \in Secrets
    BY DEF CfgTypes, Settings
  <1>2. WritesKnown(w)
    BY DEF CfgTypes
  <1>3. DOMAIN Seen(p) = {"limit", "secret"}
    BY <1>1 DEF Seen
  <1>4. Seen(p)["limit"] \in Limits /\ Seen(p)["secret"] \in Secrets
    BY <1>1, <1>2 DEF Seen, WritesKnown
  <1>5. Seen(p) = [limit |-> Seen(p)["limit"], secret |-> Seen(p)["secret"]]
    BY <1>1 DEF Seen
  <1> QED BY <1>4, <1>5 DEF Settings

\* Whoever reads finds the table, or a cache no older than the last edit.
LEMMA GetAllKeeps ==
    ASSUME CfgInv, NEW cfg \in {stored, cached}, GetAll(cfg)
    PROVE  /\ cfg \in Settings /\ cached' = cfg /\ cacheAge' \in Nat
           /\ cfg = stored \/ (cfg = cached /\ cacheAge' = cacheAge /\ cacheAge <= RefreshAfter)
  BY ConfigAssumption DEF CfgInv, CfgTypes, GetAll, Stale

\* Every action of the configuration keeps the invariant.
LEMMA CfgStep == CfgInv /\ [ConfigNext]_cfgVars => CfgInv'
  <1> SUFFICES ASSUME CfgInv, ConfigNext \/ UNCHANGED cfgVars PROVE CfgInv'
    OBVIOUS
  <1> USE ConfigAssumption
  <1>1. CASE ConfigTick
    <2>1. CfgTypes'
      BY <1>1 DEF ConfigTick, CfgInv, CfgTypes
    <2>2. (cached = stored \/ EditOpen) => CacheIsYoung'
      BY <1>1 DEF ConfigTick, CacheIsYoung, EditOpen
    <2>3. (~EditOpen /\ sinceEdit <= cacheAge) => sinceEdit' <= cacheAge'
      BY <1>1 DEF ConfigTick, CfgInv, CfgTypes
    <2> QED BY <2>1, <2>2, <2>3 DEF CfgInv, CacheIsYoung
  <1>2. ASSUME NEW p \in Patchers, NEW body \in Payloads, Flush(p, body) PROVE CfgInv'
    <2>1. PICK cfg \in {stored, cached} :
            /\ GetAll(cfg)
            /\ LET keys == {k \in DOMAIN body : Writes(k, body[k]) /\ body[k] # cfg[k]} IN
               patching' = [patching EXCEPT ![p] =
                    [pc |-> "flushed", writes |-> [k \in keys |-> body[k]]]]
      BY <1>2 DEF Flush
    <2> DEFINE keys == {k \in DOMAIN body : Writes(k, body[k]) /\ body[k] # cfg[k]}
               w == [k \in keys |-> body[k]]
    <2>2. /\ DOMAIN w \subseteq {"limit", "secret"} /\ DOMAIN w = keys
          /\ "limit" \in keys => body["limit"] \in Limits
          /\ "secret" \in keys => body["secret"] \in Secrets
      BY <1>2, PayloadAssumption DEF Flush, Invalid, Writes
    <2>3. WritesKnown(w)
      BY <2>2 DEF WritesKnown
    <2>4. /\ DOMAIN patching' = Patchers /\ patching'[p] = [pc |-> "flushed", writes |-> w]
          /\ \A q \in Patchers \ {p} : patching'[q] = patching[q]
      BY <2>1 DEF CfgInv, CfgTypes
    <2>5. EditOpen'
      BY <2>4 DEF EditOpen
    <2>6. UNCHANGED <<stored, gateLimit, readCfg>> /\ sinceEdit' = 0
      BY <1>2 DEF Flush
    <2> HIDE DEF w
    <2>7. \A q \in Patchers : DOMAIN patching'[q] = {"pc", "writes"} /\ WritesKnown(patching'[q].writes)
      BY <2>3, <2>4 DEF CfgInv, CfgTypes
    <2>8. CfgTypes'
      BY <2>1, <2>4, <2>6, <2>7, GetAllKeeps DEF CfgInv, CfgTypes, WritesKnown
    <2> QED BY <2>5, <2>8 DEF CfgInv, CacheIsYoung
  <1>3. ASSUME NEW p \in Patchers, Reload(p) PROVE CfgInv'
    <2>1. Seen(p) \in Settings
      BY SeenIsSettings DEF CfgInv
    <2>2. /\ DOMAIN patching' = Patchers /\ patching'[p].pc = "reloaded"
          /\ DOMAIN patching'[p] = {"pc", "writes"} /\ patching'[p].writes = patching[p].writes
          /\ \A q \in Patchers \ {p} : patching'[q] = patching[q]
      BY <1>3 DEF Reload, CfgInv, CfgTypes
    <2>3. \A q \in Patchers : DOMAIN patching'[q] = {"pc", "writes"} /\ WritesKnown(patching'[q].writes)
      BY <2>2 DEF CfgInv, CfgTypes
    <2>4. Seen(p).limit \in Limits
      BY <2>1 DEF Settings
    <2>5. CfgTypes'
      BY <1>3, <2>1, <2>2, <2>3, <2>4 DEF Reload, CfgInv, CfgTypes, WritesKnown
    <2>6. EditOpen'
      BY <2>2 DEF EditOpen
    <2> QED BY <2>5, <2>6 DEF CfgInv, CacheIsYoung
  <1>4. ASSUME NEW p \in Patchers, NEW committed \in BOOLEAN, EndPatch(p, committed) PROVE CfgInv'
    <2>1. stored' \in Settings
      BY <1>4, SeenIsSettings DEF EndPatch, CfgInv, CfgTypes
    <2>2. /\ DOMAIN patching' = Patchers
          /\ DOMAIN patching'[p] = {"pc", "writes"} /\ patching'[p].writes = <<>>
          /\ \A q \in Patchers \ {p} : patching'[q] = patching[q]
      BY <1>4 DEF EndPatch, NoPatch, CfgInv, CfgTypes
    <2>3. WritesKnown(<<>>)
      BY DEF WritesKnown
    <2>4. \A q \in Patchers : DOMAIN patching'[q] = {"pc", "writes"} /\ WritesKnown(patching'[q].writes)
      BY <2>2, <2>3 DEF CfgInv, CfgTypes
    <2>5. CfgTypes'
      BY <1>4, <2>1, <2>2, <2>4 DEF EndPatch, CfgInv, CfgTypes, WritesKnown
    <2>6. sinceEdit' <= cacheAge'
      BY <1>4 DEF EndPatch, CfgInv, CfgTypes
    <2> QED BY <2>5, <2>6 DEF CfgInv, CacheIsYoung
  <1>5. ASSUME NEW r \in Readers, ReadConfig(r) PROVE CfgInv'
    <2>1. PICK cfg \in {stored, cached} : GetAll(cfg) /\ readCfg' = [readCfg EXCEPT ![r] = cfg]
      BY <1>5 DEF ReadConfig
    <2>2. UNCHANGED <<stored, sinceEdit, patching, gateLimit>>
      BY <1>5 DEF ReadConfig
    <2>3. CfgTypes'
      BY <2>1, <2>2, GetAllKeeps DEF CfgInv, CfgTypes, WritesKnown
    <2>4. CacheIsYoung'
      BY <2>1, <2>2, GetAllKeeps DEF CfgInv, CacheIsYoung, EditOpen
    <2> QED BY <2>3, <2>4 DEF CfgInv
  <1>6. CASE UNCHANGED cfgVars
    BY <1>6 DEF cfgVars, CfgInv, CfgTypes, CacheIsYoung, EditOpen, WritesKnown
  <1> QED BY <1>1, <1>2, <1>3, <1>4, <1>5, <1>6 DEF ConfigNext

\* The configuration's invariant holds in every state.
LEMMA CfgAlways == ConfigSpec => []CfgInv
  BY CfgStart, CfgStep, PTL DEF ConfigSpec

\* What is stored and cached is in the schema, and no secret is the mask.
LEMMA CfgIsTrue == CfgInv => ConfigTypeOK /\ MaskNeverStored
  BY ConfigAssumption DEF CfgInv, CfgTypes, Settings, ConfigTypeOK, MaskNeverStored

\* A handler's read is of the table, or of a cache the last edit made young.
LEMMA RecentRead ==
    ASSUME CfgInv, NEW r \in Readers, ReadConfig(r)
    PROVE  readCfg'[r] = stored \/ EditOpen \/ sinceEdit <= RefreshAfter
  <1>1. PICK cfg \in {stored, cached} : GetAll(cfg) /\ readCfg' = [readCfg EXCEPT ![r] = cfg]
    BY DEF ReadConfig
  <1>2. readCfg'[r] = cfg
    BY <1>1 DEF CfgInv, CfgTypes
  <1> QED BY <1>1, <1>2, GetAllKeeps, ConfigAssumption DEF CfgInv, CfgTypes, CacheIsYoung

\* The configuration's action property.
LEMMA CfgReadsBounded == ConfigSpec => ReadIsRecent
  <1>1. CfgInv /\ [ConfigNext]_cfgVars =>
          [\A r \in Readers : ReadConfig(r) =>
            (readCfg'[r] = stored \/ EditOpen \/ sinceEdit <= RefreshAfter)]_cfgVars
    BY RecentRead
  <1> QED BY <1>1, CfgAlways, PTL DEF ConfigSpec, ReadIsRecent

-----------------------------------------------------------------------------
(* The portals' credentials *)

Nonces == 1..MaxNonce

\* A kept token is of the login of its key, and expires here the margin before its
\* life, counted from its answer, is over.
HeldToken(n, t) ==
    /\ t.from = n /\ t.born \in Nat /\ t.life \in Nat /\ t.read \in Nat /\ t.expiry \in Nat
    /\ t.expiry + Margin <= t.read + t.life \/ t.expiry <= time

\* What a request holds at each of its stages.
RequestKnows(r) ==
    /\ r.pc \in {"login", "minted"} => r.row.secret.nonce \in Nonces
    /\ r.pc = "minted" =>
        /\ r.token.from = r.row.secret.nonce /\ r.token.born \in Nat /\ r.token.life \in Nat
    /\ r.pc = "sent" =>
        /\ r.token # NoneYet => r.token.from = r.row.secret.nonce
        /\ r.reused => r.at < r.token.born + r.token.life + Late(r.token)

TokenInv ==
    /\ nonces \in 0..MaxNonce /\ time \in Nat
    /\ DOMAIN tokens = Nonces /\ DOMAIN fetch = Fetchers /\ DOMAIN edit = CredentialPatchers
    /\ cred # NoneYet => cred.secret.nonce \in Nonces
    /\ \A p \in CredentialPatchers :
        edit[p].pc = "commit" =>
            edit[p].secret.nonce \in Nonces /\ edit[p].row.secret.nonce \in Nonces
    /\ \A n \in Nonces : tokens[n] # NoneYet => HeldToken(n, tokens[n])
    /\ \A f \in Fetchers : RequestKnows(fetch[f])

\* There are no credential, no token and no request at first.
LEMMA TokenStart == CredInit => TokenInv
  BY CredentialAssumption DEF CredInit, TokenInv, Nonces, RequestKnows, Free

\* A step of one request, or of none, that leaves the row, the edits and the time.
LEMMA RequestStep ==
    ASSUME TokenInv, NEW f \in Fetchers, fetch' = [fetch EXCEPT ![f] = fetch'[f]],
           UNCHANGED <<cred, nonces, edit, time>>, RequestKnows(fetch[f])',
           DOMAIN tokens' = Nonces,
           \A n \in Nonces : tokens'[n] # NoneYet => HeldToken(n, tokens'[n])
    PROVE  TokenInv'
  <1>1. DOMAIN fetch' = Fetchers /\ \A g \in Fetchers \ {f} : fetch'[g] = fetch[g]
    BY DEF TokenInv
  <1>2. \A g \in Fetchers : RequestKnows(fetch[g])'
    BY <1>1 DEF TokenInv, RequestKnows
  <1> QED BY <1>1, <1>2 DEF TokenInv, HeldToken

\* Every action of the credential keeps the invariant of its tokens.
LEMMA TokenStep == TokenInv /\ [CredNext]_credVars => TokenInv'
  <1> SUFFICES ASSUME TokenInv, CredNext \/ UNCHANGED credVars PROVE TokenInv'
    OBVIOUS
  <1> USE CredentialAssumption
  <1>1. CASE CredTick
    <2>1. UNCHANGED <<cred, nonces, key, tokens, edit, fetch>> /\ time' = time + 1
      BY <1>1 DEF CredTick
    <2>2. \A n \in Nonces : tokens'[n] # NoneYet => HeldToken(n, tokens[n])'
      BY <2>1 DEF TokenInv, HeldToken
    <2>3. ASSUME NEW f \in Fetchers PROVE RequestKnows(fetch[f])'
      <3>1. RequestKnows(fetch[f]) /\ fetch'[f] = fetch[f]
        BY <2>1 DEF TokenInv
      <3> QED BY <3>1, <2>1 DEF RequestKnows
    <2> QED BY <2>1, <2>2, <2>3 DEF TokenInv
  <1>2. CASE DeleteCredential
    BY <1>2 DEF DeleteCredential, TokenInv, HeldToken, RequestKnows
  <1>3. CASE RotateKey
    BY <1>3 DEF RotateKey, TokenInv, Nonces, Free, RequestKnows
  <1>4. ASSUME NEW s \in Schemes, NEW n \in {"none", "k"}, NEW t \in {"static", "login"},
               CreateCredential(s, n, t)
        PROVE  TokenInv'
    <2>1. /\ cred'.secret.nonce = nonces + 1 /\ nonces' = nonces + 1 /\ nonces < MaxNonce
          /\ UNCHANGED <<tokens, edit, fetch, time>>
      BY <1>4 DEF CreateCredential, Encrypted
    <2>2. nonces + 1 \in Nonces /\ nonces' \in 0..MaxNonce
      <3>1. nonces \in Nat /\ MaxNonce \in Nat
        BY DEF TokenInv
      <3> QED BY <3>1, <2>1 DEF Nonces
    <2>3. cred'.secret.nonce \in Nonces
      BY <2>1, <2>2
    <2>4. \A f \in Fetchers : RequestKnows(fetch[f])'
      BY <2>1 DEF TokenInv, RequestKnows
    <2>5. \A m \in Nonces : tokens'[m] # NoneYet => HeldToken(m, tokens[m])'
      BY <2>1 DEF TokenInv, HeldToken
    <2> QED BY <2>1, <2>2, <2>3, <2>4, <2>5 DEF TokenInv
  <1>5. ASSUME NEW p \in CredentialPatchers, NEW s, NEW n, NEW t, PatchRead(p, s, n, t)
        PROVE  TokenInv'
    <2>1. /\ UNCHANGED <<cred, tokens, fetch, time>> /\ cred # NoneYet
          /\ nonces' = nonces \/ (nonces' = nonces + 1 /\ nonces < MaxNonce)
      BY <1>5 DEF PatchRead
    <2>2. /\ DOMAIN edit' = CredentialPatchers /\ edit'[p].row = cred
          /\ \A q \in CredentialPatchers \ {p} : edit'[q] = edit[q]
      BY <1>5 DEF PatchRead, TokenInv
    <2>3. edit'[p].secret = cred.secret
          \/ (nonces < MaxNonce /\ edit'[p].secret.nonce = nonces + 1)
      BY <1>5 DEF PatchRead, TokenInv, Encrypted
    <2>4. edit'[p].secret.nonce \in Nonces
      BY <2>1, <2>3 DEF TokenInv, Nonces
    <2>5. nonces' \in 0..MaxNonce
      BY <2>1 DEF TokenInv
    <2> QED BY <2>1, <2>2, <2>4, <2>5 DEF TokenInv, HeldToken, RequestKnows
  <1>6. ASSUME NEW p \in CredentialPatchers, CredentialCommit(p) PROVE TokenInv'
    <2>1. /\ UNCHANGED <<nonces, tokens, fetch, time>>
          /\ edit' = [edit EXCEPT ![p] = Free] /\ edit[p].pc = "commit"
      BY <1>6 DEF CredentialCommit
    <2>2. cred' = cred \/ cred'.secret \in {cred.secret, edit[p].secret}
      BY <1>6 DEF CredentialCommit
    <2>3. cred' # NoneYet => cred # NoneYet
      BY <1>6 DEF CredentialCommit
    <2>4. cred' # NoneYet => cred'.secret.nonce \in Nonces
      BY <2>1, <2>2, <2>3 DEF TokenInv
    <2> QED BY <2>1, <2>4 DEF TokenInv, HeldToken, RequestKnows, Free
  <1>7. ASSUME NEW f \in Fetchers, Authorize(f) PROVE TokenInv'
    <2>1. UNCHANGED <<cred, nonces, key, tokens, edit, time>>
      BY <1>7 DEF Authorize
    <2>2. \/ Refuse(f)
          \/ /\ cred # NoneYet
             /\ \/ fetch' = [fetch EXCEPT ![f] = Sent(cred, NoneYet, FALSE)]
                \/ fetch' = [fetch EXCEPT ![f] = [pc |-> "login", row |-> cred]]
                \/ LET held == tokens[TokenKey(cred)] IN
                   /\ held # NoneYet /\ held.expiry > time
                   /\ fetch' = [fetch EXCEPT ![f] = Sent(cred, held, TRUE)]
      BY <1>7 DEF Authorize
    <2>3. fetch' = [fetch EXCEPT ![f] = fetch'[f]] /\ RequestKnows(fetch[f])'
      <3>1. CASE Refuse(f)
        BY <3>1 DEF Refuse, RequestKnows, TokenInv
      <3>2. CASE cred # NoneYet /\ fetch' = [fetch EXCEPT ![f] = Sent(cred, NoneYet, FALSE)]
        BY <3>2 DEF Sent, RequestKnows, TokenInv
      <3>3. CASE cred # NoneYet /\ fetch' = [fetch EXCEPT ![f] = [pc |-> "login", row |-> cred]]
        BY <3>3, <2>1 DEF RequestKnows, TokenInv
      <3>4. CASE LET held == tokens[TokenKey(cred)] IN
                   /\ cred # NoneYet /\ held # NoneYet /\ held.expiry > time
                   /\ fetch' = [fetch EXCEPT ![f] = Sent(cred, held, TRUE)]
        <4> DEFINE held == tokens[TokenKey(cred)]
        <4>1. TokenKey(cred) \in Nonces /\ HeldToken(TokenKey(cred), held)
          BY <3>4 DEF TokenInv, TokenKey
        <4>2. held.from = cred.secret.nonce /\ time < held.born + held.life + Late(held)
          BY <4>1, <3>4 DEF HeldToken, TokenKey, TokenInv, Late
        <4>3. fetch' = [fetch EXCEPT ![f] = fetch'[f]] /\ fetch'[f] = Sent(cred, held, TRUE)
          BY <3>4 DEF TokenInv
        <4> QED BY <4>2, <4>3, <2>1 DEF Sent, RequestKnows
      <3> QED BY <2>2, <3>1, <3>2, <3>3, <3>4
    <2>4. DOMAIN tokens' = Nonces /\ \A n \in Nonces : tokens'[n] # NoneYet => HeldToken(n, tokens'[n])
      BY <2>1 DEF TokenInv
    <2> QED BY <2>1, <2>3, <2>4, RequestStep
  <1>8. ASSUME NEW f \in Fetchers, NEW life \in Lives, PortalMints(f, life) PROVE TokenInv'
    <2>1. /\ UNCHANGED <<cred, nonces, key, tokens, edit, time>>
          /\ fetch[f].pc = "login" /\ fetch[f].row.secret.nonce \in Nonces
      BY <1>8 DEF PortalMints, TokenInv, RequestKnows
    <2>2. fetch'[f] = [pc |-> "minted", row |-> fetch[f].row,
             token |-> [from |-> fetch[f].row.secret.nonce, born |-> time, life |-> life]]
          /\ fetch' = [fetch EXCEPT ![f] = fetch'[f]]
      BY <1>8 DEF PortalMints, TokenInv
    <2>3. life \in Nat /\ time \in Nat
      BY DEF TokenInv
    <2>4. RequestKnows(fetch[f])'
      BY <2>1, <2>2, <2>3 DEF RequestKnows
    <2>5. DOMAIN tokens' = Nonces /\ \A n \in Nonces : tokens'[n] # NoneYet => HeldToken(n, tokens'[n])
      BY <2>1 DEF TokenInv
    <2> QED BY <2>1, <2>2, <2>4, <2>5, RequestStep
  <1>9. ASSUME NEW f \in Fetchers, LoginAnswered(f) PROVE TokenInv'
    <2> DEFINE t == fetch[f].token  n == fetch[f].row.secret.nonce
               held == [from |-> t.from, born |-> t.born, life |-> t.life, read |-> time,
                        expiry |-> Expiry(t.life)]
    <2>1. /\ UNCHANGED <<cred, nonces, key, edit, time>>
          /\ tokens' = [tokens EXCEPT ![n] = held]
          /\ fetch' = [fetch EXCEPT ![f] = fetch'[f]]
          /\ fetch'[f] = Sent(fetch[f].row, held, FALSE)
      BY <1>9 DEF LoginAnswered, TokenKey, TokenInv
    <2>2. /\ n \in Nonces /\ t.from = n /\ t.born \in Nat /\ t.life \in Nat
          /\ time \in Nat
      BY <1>9 DEF LoginAnswered, TokenInv, RequestKnows
    <2>3. /\ Expiry(t.life) \in Nat
          /\ Expiry(t.life) + Margin <= time + t.life \/ Expiry(t.life) <= time
      BY <2>2 DEF Expiry
    <2>4. HeldToken(n, held)
      BY <2>2, <2>3 DEF HeldToken
    <2>5. /\ DOMAIN tokens' = Nonces
          /\ \A m \in Nonces : tokens'[m] # NoneYet => HeldToken(m, tokens'[m])
      BY <2>1, <2>2, <2>4 DEF TokenInv
    <2>6. RequestKnows(fetch[f])'
      BY <2>1, <2>2 DEF RequestKnows, Sent
    <2> QED BY <2>1, <2>5, <2>6, RequestStep
  <1>10. ASSUME NEW f \in Fetchers, LoginFails(f) \/ EndFetch(f) PROVE TokenInv'
    <2>1. /\ UNCHANGED <<cred, nonces, key, tokens, edit, time>>
          /\ fetch' = [fetch EXCEPT ![f] = fetch'[f]] /\ fetch'[f].pc \in {"refused", "idle"}
      BY <1>10 DEF LoginFails, EndFetch, Refuse, Free, TokenInv
    <2>2. RequestKnows(fetch[f])'
      BY <2>1 DEF RequestKnows
    <2>3. DOMAIN tokens' = Nonces /\ \A n \in Nonces : tokens'[n] # NoneYet => HeldToken(n, tokens'[n])
      BY <2>1 DEF TokenInv
    <2> QED BY <2>1, <2>2, <2>3, RequestStep
  <1>11. CASE UNCHANGED credVars
    BY <1>11 DEF credVars, TokenInv, HeldToken, RequestKnows
  <1> QED BY <1>1, <1>2, <1>3, <1>4, <1>5, <1>6, <1>7, <1>8, <1>9, <1>10, <1>11 DEF CredNext

\* The tokens' invariant holds in every state.
LEMMA TokensAlways == CredSpec => []TokenInv
  BY TokenStart, TokenStep, PTL DEF CredSpec

\* What the invariant says of a request that was sent.
LEMMA TokensAreTrue == TokenInv => TokenOfThisLogin /\ ReusedTokenLives
  BY DEF TokenInv, RequestKnows, TokenOfThisLogin, ReusedTokenLives

\* One edit at a time: two of them may write a scheme and a secret that do not fit.
OneEditor == \A p, q \in CredentialPatchers : p = q

\* A row's secret was entered for its scheme, and so was what an edit will write; the row
\* an edit read is still the one stored, when the stored one has its id.
FittingRow(row) ==
    row.secret.for = Kind(row.scheme) /\ ParamOk(row.scheme, row.param) /\ row.id \in 1..nonces

EditKnows(e) ==
    e.pc = "commit" =>
        /\ e.secret.for = Kind(e.scheme) /\ ParamOk(e.scheme, e.param) /\ e.row.id \in 1..nonces
        /\ (cred # NoneYet /\ cred.id = e.row.id) => cred = e.row

SecretInv ==
    /\ nonces \in Nat /\ DOMAIN edit = CredentialPatchers
    /\ cred # NoneYet => FittingRow(cred)
    /\ \A p \in CredentialPatchers : EditKnows(edit[p])

\* There is no edit at first.
LEMMA SecretStart == CredInit => SecretInv
  BY DEF CredInit, SecretInv, EditKnows, Free

\* With one edit at a time, every action keeps the secret of its scheme.
LEMMA SecretStep ==
    ASSUME OneEditor PROVE SecretInv /\ [CredNext]_credVars => SecretInv'
  <1> SUFFICES ASSUME SecretInv, CredNext \/ UNCHANGED credVars PROVE SecretInv'
    OBVIOUS
  <1>1. CASE \/ CredTick \/ \E f \in Fetchers : \/ Authorize(f) \/ LoginAnswered(f) \/ LoginFails(f)
                \/ EndFetch(f) \/ \E life \in Lives : PortalMints(f, life)
             \/ UNCHANGED credVars
    <2>1. UNCHANGED <<cred, nonces, edit>>
      BY <1>1 DEF CredTick, Authorize, LoginAnswered, LoginFails, EndFetch, PortalMints, credVars
    <2> QED BY <2>1 DEF SecretInv, FittingRow, EditKnows
  <1>2. CASE DeleteCredential
    BY <1>2 DEF DeleteCredential, SecretInv, EditKnows
  <1>3. CASE RotateKey
    BY <1>3 DEF RotateKey, SecretInv, FittingRow, EditKnows, Free
  <1>4. ASSUME NEW s \in Schemes, NEW n \in {"none", "k"}, NEW t \in {"static", "login"},
               CreateCredential(s, n, t)
        PROVE  SecretInv'
    <2>1. /\ cred' = [id |-> nonces + 1, scheme |-> s, param |-> n, secret |-> Encrypted(s)]
          /\ nonces' = nonces + 1 /\ UNCHANGED edit /\ ParamOk(s, n) /\ nonces \in Nat
      BY <1>4 DEF CreateCredential, SecretInv
    <2>2. FittingRow(cred)'
      <3>1. nonces + 1 \in 1..nonces'
        BY <2>1
      <3> QED BY <3>1, <2>1 DEF FittingRow, Encrypted, ParamOk, Kind
    <2>3. ASSUME NEW p \in CredentialPatchers PROVE EditKnows(edit[p])'
      <3>1. EditKnows(edit[p])
        BY DEF SecretInv
      <3>2. cred'.id = nonces + 1
        BY <2>1
      <3> QED BY <3>1, <3>2, <2>1 DEF EditKnows, ParamOk, Kind
    <2> QED BY <2>1, <2>2, <2>3 DEF SecretInv
  <1>5. ASSUME NEW p \in CredentialPatchers, NEW s \in Schemes \cup {"keep"},
               NEW n \in {"none", "k", "keep"}, NEW t \in {"static", "login", "keep"},
               PatchRead(p, s, n, t)
        PROVE  SecretInv'
    <2> DEFINE new == Edited(cred, s, n, t)
    <2>1. /\ new.ok /\ cred # NoneYet /\ UNCHANGED cred
          /\ nonces' = IF t = "keep" THEN nonces ELSE nonces + 1
          /\ edit' = [edit EXCEPT ![p] = [pc |-> "commit", row |-> cred, scheme |-> new.scheme,
                         param |-> new.param,
                         secret |-> IF t = "keep" THEN cred.secret ELSE Encrypted(new.scheme)]]
      BY <1>5 DEF PatchRead
    <2>2. /\ ParamOk(new.scheme, new.param)
          /\ Kind(cred.scheme) = Kind(new.scheme) \/ t # "keep"
      BY <2>1 DEF Edited, MayKeepSecret
    <2>3. FittingRow(cred) /\ nonces \in Nat
      BY <2>1 DEF SecretInv
    <2>4. nonces' \in Nat /\ \A i \in 1..nonces : i \in 1..nonces'
      <3>1. nonces' \in Nat /\ nonces <= nonces'
        BY <2>1, <2>3
      <3> QED BY <3>1, <2>3
    <2>5. /\ DOMAIN edit' = CredentialPatchers /\ edit'[p].row = cred
          /\ edit'[p].scheme = new.scheme /\ edit'[p].param = new.param
          /\ edit'[p].secret = IF t = "keep" THEN cred.secret ELSE Encrypted(new.scheme)
          /\ \A q \in CredentialPatchers \ {p} : edit'[q] = edit[q]
      BY <2>1 DEF SecretInv
    <2> HIDE DEF new
    <2>6. edit'[p].secret.for = Kind(edit'[p].scheme)
      BY <2>2, <2>3, <2>5 DEF FittingRow, Encrypted, Kind
    <2>7. EditKnows(edit[p])'
      BY <2>1, <2>2, <2>3, <2>4, <2>5, <2>6 DEF EditKnows, FittingRow, ParamOk, Kind
    <2>8. \A q \in CredentialPatchers : EditKnows(edit[q])'
      BY <2>7 DEF OneEditor
    <2>9. FittingRow(cred)'
      BY <2>1, <2>3, <2>4 DEF FittingRow, ParamOk, Kind
    <2> QED BY <2>4, <2>5, <2>8, <2>9 DEF SecretInv
  <1>6. ASSUME NEW p \in CredentialPatchers, CredentialCommit(p) PROVE SecretInv'
    <2> DEFINE e == edit[p]
    <2>1. /\ e.pc = "commit" /\ edit' = [edit EXCEPT ![p] = Free] /\ UNCHANGED nonces
      BY <1>6 DEF CredentialCommit
    <2>2. EditKnows(e)
      BY DEF SecretInv
    <2>3. cred' # NoneYet => FittingRow(cred)'
      <3>1. CASE cred' = cred
        BY <3>1, <2>1 DEF SecretInv, FittingRow
      <3>2. CASE cred' # cred
        <4>1. /\ cred # NoneYet /\ cred.id = e.row.id
              /\ cred' = [id |-> cred.id,
                        scheme |-> IF e.scheme = e.row.scheme THEN cred.scheme ELSE e.scheme,
                        param |-> IF e.param = e.row.param THEN cred.param ELSE e.param,
                        secret |-> IF e.secret = e.row.secret THEN cred.secret ELSE e.secret]
          BY <1>6, <3>2 DEF CredentialCommit
        <4>2. cred = e.row
          BY <4>1, <2>1, <2>2 DEF EditKnows
        <4>3. cred'.id = cred.id /\ cred'.scheme = e.scheme /\ cred'.param = e.param
              /\ cred'.secret = e.secret
          BY <4>1, <4>2
        <4> QED BY <4>1, <4>3, <2>1, <2>2 DEF EditKnows, FittingRow, SecretInv
      <3> QED BY <3>1, <3>2
    <2>4. \A q \in CredentialPatchers : EditKnows(edit[q])'
      BY <2>1 DEF OneEditor, EditKnows, SecretInv, Free
    <2> QED BY <2>1, <2>3, <2>4 DEF SecretInv
  <1> QED BY <1>1, <1>2, <1>3, <1>4, <1>5, <1>6 DEF CredNext

\* With one edit at a time, the stored secret always fits its scheme.
LEMMA SecretsFit == ASSUME OneEditor PROVE CredSpec => []SecretFitsScheme
  <1>1. SecretInv => SecretFitsScheme
    BY DEF SecretInv, SecretFitsScheme, FittingRow
  <1> QED BY <1>1, SecretStart, SecretStep, PTL DEF CredSpec

-----------------------------------------------------------------------------
(* The accounts *)

AccountRows == [role : Roles, active : BOOLEAN, password : Nat]

\* A link has a number, and one to reset a password has an account.
LinkKnows(l) ==
    l.n \in Nat /\ (l.kind = "reset" => l.email \in Emails /\ account[l.email] \in AccountRows)

HandlerKnows(h) ==
    /\ h.pc \in {"confirm", "reset"} => LinkKnows(h.link)
    /\ h.pc = "reset" => h.link.kind = "reset"
    /\ h.pc = "create" => h.role \in Roles
    /\ h.pc = "patch" => /\ h.email \in Emails /\ account[h.email] \in AccountRows
                         /\ h.role \in Roles /\ h.active \in BOOLEAN

AccountInv ==
    /\ account \in [Emails -> AccountRows \cup {NoAccount}] /\ mailed \in Nat
    /\ DOMAIN handler = Threads /\ \A t \in Threads : HandlerKnows(handler[t])
    /\ \A l \in links : LinkKnows(l)

\* The only account at first is the administrator's.
LEMMA AccountStart == AccountInit => AccountInv
  <1> SUFFICES ASSUME AccountInit PROVE AccountInv
    OBVIOUS
  <1>1. [role |-> "platform_admin", active |-> TRUE, password |-> 0] \in AccountRows
    BY DEF AccountRows, Roles
  <1> QED BY <1>1 DEF AccountInit, AccountInv, HandlerKnows, Idling

\* When rows are written over rows, what others read of the accounts still holds.
LEMMA AccountStep ==
    ASSUME AccountInv, account' \in [Emails -> AccountRows \cup {NoAccount}], mailed' \in Nat,
           \A e \in Emails : account[e] \in AccountRows => account'[e] \in AccountRows,
           \A l \in links' : l \in links \/ LinkKnows(l)',
           DOMAIN handler' = Threads,
           \A t \in Threads : handler'[t] = handler[t] \/ HandlerKnows(handler[t])'
    PROVE  AccountInv'
  <1>1. \A l \in links' : LinkKnows(l)'
    BY DEF AccountInv, LinkKnows
  <1>2. ASSUME NEW t \in Threads PROVE HandlerKnows(handler[t])'
    <2>1. CASE handler'[t] = handler[t]
      BY <2>1 DEF AccountInv, HandlerKnows, LinkKnows
    <2> QED BY <2>1
  <1> QED BY <1>1, <1>2 DEF AccountInv

\* A handler that has read: what it holds is enough.
LEMMA ReadStep ==
    ASSUME AccountInv, NEW t \in Threads, NEW h, Reads(t, h), HandlerKnows(h)
    PROVE  AccountInv'
  <1>1. /\ UNCHANGED <<account, links, mailed>> /\ DOMAIN handler' = Threads /\ handler'[t] = h
        /\ \A u \in Threads \ {t} : handler'[u] = handler[u]
    BY DEF Reads, AccountInv
  <1>2. HandlerKnows(handler[t])'
    BY <1>1 DEF HandlerKnows, LinkKnows
  <1> QED BY <1>1, <1>2, AccountStep DEF AccountInv

\* A commit that writes one row, over a row or for none.
LEMMA CommitStep ==
    ASSUME AccountInv, NEW t \in Threads, NEW e, NEW row, Done(t), UNCHANGED mailed,
           account' = [account EXCEPT ![e] = row], links' \subseteq links,
           e \in Emails => row \in AccountRows \/ (row = NoAccount /\ account[e] = NoAccount)
    PROVE  AccountInv'
  <1>1. account' \in [Emails -> AccountRows \cup {NoAccount}]
    BY DEF AccountInv
  <1>2. ASSUME NEW f \in Emails, account[f] \in AccountRows PROVE account'[f] \in AccountRows
    BY <1>2 DEF AccountInv
  <1>3. DOMAIN handler' = Threads
        /\ \A u \in Threads : handler'[u] = handler[u] \/ HandlerKnows(handler[u])'
    BY DEF Done, Idling, HandlerKnows, AccountInv
  <1> QED BY <1>1, <1>2, <1>3, AccountStep DEF AccountInv

\* An edit of the role and the activity leaves the password.
LEMMA EditedAccount ==
    ASSUME NEW row \in AccountRows, NEW h, h.role \in Roles, h.active \in BOOLEAN
    PROVE  EditedRow(row, h) \in AccountRows /\ EditedRow(row, h).password = row.password
  <1> DEFINE role == IF h.role # h.was.role THEN h.role ELSE row.role
             active == IF h.active # h.was.active THEN h.active ELSE row.active
  <1>1. role \in Roles /\ active \in BOOLEAN
    BY DEF AccountRows
  <1>2. EditedRow(row, h) = [row EXCEPT !.role = role, !.active = active]
    BY DEF EditedRow, AccountRows
  <1> HIDE DEF role, active
  <1> QED BY <1>1, <1>2 DEF AccountRows

\* Every action of the accounts keeps the invariant.
LEMMA AccountSteps == AccountInv /\ [AccountNext]_accountVars => AccountInv'
  <1> SUFFICES ASSUME AccountInv, AccountNext \/ UNCHANGED accountVars PROVE AccountInv'
    OBVIOUS
  <1>1. CASE HourPasses \/ UNCHANGED accountVars \/ \E k \in tickets : Logout(k)
    <2>1. UNCHANGED <<account, links, mailed, handler>>
      BY <1>1 DEF HourPasses, accountVars, Logout
    <2> QED BY <2>1, AccountStep DEF AccountInv
  <1>2. ASSUME NEW e \in Emails, RegisterRequest(e) PROVE AccountInv'
    <2> DEFINE new == [kind |-> "register", email |-> e, n |-> mailed, born |-> hour]
    <2>1. /\ UNCHANGED <<account, handler>> /\ mailed' \in Nat
          /\ \A l \in links' : l \in links \/ l = new
      BY <1>2 DEF RegisterRequest, AccountInv
    <2>2. ASSUME NEW l \in links', l \notin links PROVE LinkKnows(l)'
      BY <2>1, <2>2 DEF LinkKnows, AccountInv
    <2> QED BY <2>1, <2>2, AccountStep DEF AccountInv
  <1>3. ASSUME NEW e \in Emails, PasswordResetRequest(e) PROVE AccountInv'
    <2> DEFINE new == [kind |-> "reset", email |-> e, n |-> mailed, born |-> hour]
    <2>1. /\ UNCHANGED <<account, handler>> /\ mailed' \in Nat /\ account[e] \in AccountRows
          /\ \A l \in links' : l \in links \/ l = new
      BY <1>3 DEF PasswordResetRequest, AccountInv
    <2>2. ASSUME NEW l \in links', l \notin links PROVE LinkKnows(l)'
      BY <2>1, <2>2 DEF LinkKnows, AccountInv
    <2> QED BY <2>1, <2>2, AccountStep DEF AccountInv
  <1>4. ASSUME NEW t \in Threads, NEW l \in links, ConfirmReads(t, l) \/ ResetReads(t, l)
        PROVE  AccountInv'
    <2>1. LinkKnows(l)
      BY DEF AccountInv
    <2>2. CASE ConfirmReads(t, l)
      <3>1. HandlerKnows([pc |-> "confirm", link |-> l])
        BY <2>1 DEF HandlerKnows
      <3> QED BY <2>2, <3>1, ReadStep DEF ConfirmReads
    <2>3. CASE ResetReads(t, l)
      <3>1. HandlerKnows([pc |-> "reset", link |-> l])
        BY <2>1, <2>3 DEF HandlerKnows, ResetReads
      <3> QED BY <2>3, <3>1, ReadStep DEF ResetReads
    <2> QED BY <1>4, <2>2, <2>3
  <1>5. ASSUME NEW t \in Threads, NEW e \in Emails, LoginReads(t, e) \/ BootstrapReads(t, e)
        PROVE  AccountInv'
    <2>1. HandlerKnows([pc |-> "login", email |-> e, role |-> account[e].role])
      BY DEF HandlerKnows
    <2>2. HandlerKnows([pc |-> "create", email |-> e, role |-> "platform_admin"])
      BY DEF HandlerKnows, Roles
    <2> QED BY <1>5, <2>1, <2>2, ReadStep DEF LoginReads, BootstrapReads
  <1>6. ASSUME NEW t \in Threads, NEW k \in tickets, NEW e \in Emails, NEW r \in Roles,
               CreateReads(t, k, e, r)
        PROVE  AccountInv'
    <2>1. HandlerKnows([pc |-> "create", email |-> e, role |-> r])
      BY DEF HandlerKnows
    <2> QED BY <1>6, <2>1, ReadStep DEF CreateReads
  <1>7. ASSUME NEW t \in Threads, NEW k \in tickets, NEW e \in Emails, NEW r \in Roles,
               NEW a \in BOOLEAN, PatchReads(t, k, e, r, a)
        PROVE  AccountInv'
    <2>1. account[e] \in AccountRows
      BY <1>7 DEF PatchReads, AccountInv
    <2>2. HandlerKnows([pc |-> "patch", email |-> e, was |-> account[e], role |-> r, active |-> a])
      BY <2>1 DEF HandlerKnows
    <2> QED BY <1>7, <2>2, ReadStep DEF PatchReads
  <1>8. ASSUME NEW t \in Threads, ConfirmCommits(t) PROVE AccountInv'
    <2> DEFINE l == handler[t].link  row == Added(l.email, NewAccount("end_user", l.n + 1))
    <2>1. l.n \in Nat
      BY <1>8 DEF ConfirmCommits, AccountInv, HandlerKnows, LinkKnows
    <2>2. NewAccount("end_user", l.n + 1) \in AccountRows
      BY <2>1 DEF NewAccount, AccountRows, Roles
    <2>3. l.email \in Emails => row \in AccountRows
      BY <2>2 DEF Added, AccountInv
    <2>4. /\ account' = [account EXCEPT ![l.email] = row] /\ links' \subseteq links
          /\ Done(t) /\ UNCHANGED mailed
      BY <1>8 DEF ConfirmCommits
    <2> QED BY <2>3, <2>4, CommitStep
  <1>9. ASSUME NEW t \in Threads, ResetCommits(t) PROVE AccountInv'
    <2> DEFINE l == handler[t].link  row == ResetRow(account[l.email], l.n + 1)
    <2>1. l.n \in Nat /\ account[l.email] \in AccountRows
      BY <1>9 DEF ResetCommits, AccountInv, HandlerKnows, LinkKnows
    <2>2. row \in AccountRows
      BY <2>1 DEF ResetRow, AccountRows
    <2>3. /\ account' = [account EXCEPT ![l.email] = row] /\ links' \subseteq links
          /\ Done(t) /\ UNCHANGED mailed
      BY <1>9 DEF ResetCommits
    <2> QED BY <2>2, <2>3, CommitStep
  <1>10. ASSUME NEW t \in Threads, LoginCommits(t) PROVE AccountInv'
    <2>1. UNCHANGED <<account, links, mailed>> /\ handler' = [handler EXCEPT ![t] = Idling]
      BY <1>10 DEF LoginCommits, Done
    <2> QED BY <2>1, AccountStep DEF AccountInv, HandlerKnows, Idling
  <1>11. ASSUME NEW t \in Threads, CreateCommits(t) PROVE AccountInv'
    <2> DEFINE h == handler[t]  row == Added(h.email, NewAccount(h.role, 0))
    <2>1. NewAccount(h.role, 0) \in AccountRows
      BY <1>11 DEF CreateCommits, AccountInv, HandlerKnows, NewAccount, AccountRows
    <2>2. h.email \in Emails => row \in AccountRows
      BY <2>1 DEF Added, AccountInv
    <2>3. /\ account' = [account EXCEPT ![h.email] = row] /\ links' \subseteq links
          /\ Done(t) /\ UNCHANGED mailed
      BY <1>11 DEF CreateCommits
    <2> QED BY <2>2, <2>3, CommitStep
  <1>12. ASSUME NEW t \in Threads, PatchCommits(t) PROVE AccountInv'
    <2> DEFINE h == handler[t]  old == account[h.email]
    <2>1. old \in AccountRows /\ h.role \in Roles /\ h.active \in BOOLEAN /\ h.email \in Emails
      BY <1>12 DEF PatchCommits, AccountInv, HandlerKnows
    <2>2. account'[h.email] \in AccountRows
      <3>1. account'[h.email] = EditedRow(old, h)
        BY <1>12, <2>1 DEF PatchCommits, AccountInv
      <3> QED BY <2>1, <3>1, EditedAccount
    <2>3. /\ account' = [account EXCEPT ![h.email] = account'[h.email]] /\ links' \subseteq links
          /\ Done(t) /\ UNCHANGED mailed
      BY <1>12 DEF PatchCommits, AccountInv
    <2> QED BY <2>2, <2>3, CommitStep
  <1> QED BY <1>1, <1>2, <1>3, <1>4, <1>5, <1>6, <1>7, <1>8, <1>9, <1>10, <1>11, <1>12 DEF AccountNext

\* The accounts' invariant holds in every state.
LEMMA AccountsAlways == AccountSpec => []AccountInv
  BY AccountStart, AccountSteps, PTL DEF AccountSpec

\* What one step may do to an account that exists: only the two handlers that meant it.
LEMMA OnlyOwnersChange ==
    ASSUME AccountInv, [AccountNext]_accountVars, NEW e \in Emails, account[e] # NoAccount,
           account'[e] # account[e]
    PROVE  \/ /\ account'[e] = [account[e] EXCEPT !.password = account'[e].password]
              /\ \E t \in Threads : handler[t].pc = "reset" /\ handler[t].link.email = e
           \/ \E t \in Threads : handler[t].pc = "patch" /\ handler[t].email = e
                /\ account'[e].password = account[e].password
  <1>1. account[e] \in AccountRows
    BY DEF AccountInv
  <1>2. ASSUME NEW t \in Threads, ResetCommits(t)
        PROVE  /\ account'[e] = [account[e] EXCEPT !.password = account'[e].password]
               /\ handler[t].pc = "reset" /\ handler[t].link.email = e
    <2>1. handler[t].pc = "reset" /\ handler[t].link.email = e
      BY <1>2 DEF ResetCommits, AccountInv
    <2>2. account'[e] = [account[e] EXCEPT !.password = handler[t].link.n + 1]
      BY <1>2, <2>1 DEF ResetCommits, ResetRow, AccountInv
    <2>3. account'[e].password = handler[t].link.n + 1
      BY <1>1, <2>2 DEF AccountRows
    <2> QED BY <2>1, <2>2, <2>3
  <1>3. ASSUME NEW t \in Threads, PatchCommits(t)
        PROVE  /\ handler[t].pc = "patch" /\ handler[t].email = e
               /\ account'[e].password = account[e].password
    <2>1. /\ handler[t].pc = "patch" /\ handler[t].email = e
          /\ account'[e] = EditedRow(account[e], handler[t])
      BY <1>3 DEF PatchCommits, AccountInv
    <2>2. handler[t].role \in Roles /\ handler[t].active \in BOOLEAN
      BY <2>1 DEF AccountInv, HandlerKnows
    <2> QED BY <1>1, <2>1, <2>2, EditedAccount
  <1>4. ASSUME NEW t \in Threads, ConfirmCommits(t) \/ CreateCommits(t) PROVE FALSE
    BY <1>4 DEF ConfirmCommits, CreateCommits, Added, AccountInv
  <1>5. \/ account' = account
        \/ \E t \in Threads : ResetCommits(t) \/ PatchCommits(t) \/ ConfirmCommits(t) \/ CreateCommits(t)
    BY DEF AccountNext, accountVars, HourPasses, RegisterRequest, PasswordResetRequest, Logout,
           ConfirmReads, ResetReads, LoginReads, BootstrapReads, CreateReads, PatchReads, Reads,
           LoginCommits
  <1> QED BY <1>2, <1>3, <1>4, <1>5

\* A disabled account opens by an edit alone, and gives no ticket.
LEMMA OnlyPatchesOpen ==
    ASSUME AccountInv, [AccountNext]_accountVars, NEW e \in Emails, account[e] # NoAccount,
           ~account[e].active
    PROVE  /\ account'[e].active => \E t \in Threads : handler[t].pc = "patch"
           /\ \A t \in Threads : (handler[t].pc = "idle" /\ handler'[t].pc = "login")
                                   => handler'[t].email # e
  <1>1. account'[e].active => \E t \in Threads : handler[t].pc = "patch"
    <2> SUFFICES ASSUME account'[e].active, \A t \in Threads : handler[t].pc # "patch" PROVE FALSE
      OBVIOUS
    <2>1. account'[e] = [account[e] EXCEPT !.password = account'[e].password]
      BY OnlyOwnersChange
    <2> QED BY <2>1 DEF AccountInv, AccountRows
  <1>2. ASSUME NEW t \in Threads, handler[t].pc = "idle", handler'[t].pc = "login"
        PROVE  handler'[t].email # e
    <2>1. ASSUME NEW u \in Threads, NEW f \in Emails, LoginReads(u, f) PROVE f # e
      BY <2>1 DEF LoginReads, MayLogIn
    <2>2. ASSUME NEW u \in Threads, NEW h, Reads(u, h) PROVE u = t /\ h.pc = "login" /\ handler'[t] = h
      BY <1>2, <2>2 DEF Reads, AccountInv
    <2>3. ASSUME NEW u \in Threads, Done(u) PROVE FALSE
      BY <1>2, <2>3 DEF Done, Idling, AccountInv
    <2>4. handler' # handler
      BY <1>2
    <2>5. \E u \in Threads :
             \/ \E l \in links : ConfirmReads(u, l) \/ ResetReads(u, l)
             \/ \E f \in Emails : LoginReads(u, f) \/ BootstrapReads(u, f)
             \/ \E k \in tickets, f \in Emails, r \in Roles :
                  \/ CreateReads(u, k, f, r)
                  \/ \E a \in BOOLEAN : PatchReads(u, k, f, r, a)
      BY <2>3, <2>4 DEF AccountNext, accountVars, HourPasses, RegisterRequest, PasswordResetRequest,
           Logout, ResetCommits, PatchCommits, ConfirmCommits, CreateCommits, LoginCommits
    <2>6. \A u \in Threads :
            /\ \A l \in links : ~ConfirmReads(u, l) /\ ~ResetReads(u, l)
            /\ \A d \in Emails : ~BootstrapReads(u, d)
            /\ \A k \in tickets, d \in Emails, r \in Roles :
                /\ ~CreateReads(u, k, d, r)
                /\ \A a \in BOOLEAN : ~PatchReads(u, k, d, r, a)
      BY <2>2 DEF ConfirmReads, ResetReads, BootstrapReads, CreateReads, PatchReads
    <2>7. PICK u \in Threads, g \in Emails : LoginReads(u, g)
      BY <2>5, <2>6
    <2>8. handler'[t] = [pc |-> "login", email |-> g, role |-> account[g].role]
      BY <2>2, <2>7 DEF LoginReads
    <2> QED BY <2>1, <2>7, <2>8
  <1> QED BY <1>1, <1>2

\* The accounts' action properties.
LEMMA AccountEditsBounded == AccountSpec => NotReplaced /\ DisabledStaysOut
  <1>1. AccountInv /\ [AccountNext]_accountVars =>
    [\A e \in Emails : (account[e] # NoAccount /\ account'[e] # account[e]) =>
        \/ account'[e] = [account[e] EXCEPT !.password = account'[e].password]
           /\ \E t \in Threads : handler[t].pc = "reset" /\ handler[t].link.email = e
        \/ \E t \in Threads : handler[t].pc = "patch" /\ handler[t].email = e
             /\ account'[e].password = account[e].password]_accountVars
    BY OnlyOwnersChange
  <1>2. AccountInv /\ [AccountNext]_accountVars =>
    [\A e \in Emails : (account[e] # NoAccount /\ ~account[e].active) =>
        /\ account'[e].active => \E t \in Threads : handler[t].pc = "patch"
        /\ \A t \in Threads : (handler[t].pc = "idle" /\ handler'[t].pc = "login")
                                => handler'[t].email # e]_accountVars
    BY OnlyPatchesOpen
  <1> QED BY <1>1, <1>2, AccountsAlways, PTL DEF AccountSpec, NotReplaced, DisabledStaysOut

-----------------------------------------------------------------------------
(* The sources: the lists that are stored *)

\* A provider a build reads, and the lists of them whose ids are apart.
Sound == {p \in Providers : p.format \in {"gtfs", "netex"}}
Apart(ps) == \A i, j \in DOMAIN ps : ps[i].id = ps[j].id => i = j
Lists == {ps \in Seq(Sound) : Apart(ps)}

\* The ids of a list are as many as its places just when they are apart (_validate_provider).
LEMMA AsManyIds ==
    ASSUME NEW ps \in Seq(Providers)
    PROVE  Cardinality(IdsOf(ps)) = Len(ps) <=> Apart(ps)
  <1> DEFINE places == 1..Len(ps)
             idAt == [i \in places |-> ps[i].id]
  <1>1. IsFiniteSet(places) /\ Cardinality(places) = Len(ps) /\ DOMAIN ps = places
    <2>1. Len(ps) \in Nat /\ DOMAIN ps = 1..Len(ps)
      OBVIOUS
    <2>2. \A n \in Nat : IsFiniteSet(1..n) /\ Cardinality(1..n) = n
      BY FS_Interval
    <2> QED BY <2>1, <2>2
  <1>2. IdsOf(ps) = {ps[i].id : i \in places}
    BY <1>1 DEF IdsOf, Elems
  <1>3. idAt \in Surjection(places, IdsOf(ps))
    BY <1>2 DEF Surjection
  <1>4. Cardinality(IdsOf(ps)) = Cardinality(places) <=> idAt \in Injection(places, IdsOf(ps))
    <2> HIDE DEF idAt, places
    <2> QED BY <1>1, <1>3, FS_Surjection
  <1>5. idAt \in Injection(places, IdsOf(ps)) <=> Apart(ps)
    <2>1. idAt \in [places -> IdsOf(ps)]
      BY <1>2
    <2>2. Apart(ps) <=> \A i, j \in places : idAt[i] = idAt[j] => i = j
      BY <1>1 DEF Apart
    <2> HIDE DEF idAt, places
    <2> QED BY <2>1, <2>2 DEF Injection, IsInjective
  <1> QED BY <1>1, <1>4, <1>5

\* What validation lets through is sound, and what is sound goes through.
LEMMA ValidLists ==
    ASSUME NEW ps \in Seq(Providers)
    PROVE  Valid(ps) <=> ps \in Lists
  <1>1. (\A p \in Elems(ps) : p.format \in {"gtfs", "netex"}) <=> ps \in Seq(Sound)
    <2>1. \A p \in Elems(ps) : p \in Providers
      BY DEF Elems
    <2>2. ps \in Seq(Sound) <=> \A i \in DOMAIN ps : ps[i] \in Sound
      OBVIOUS
    <2> QED BY <2>1, <2>2 DEF Elems, Sound
  <1> QED BY <1>1, AsManyIds DEF Valid, Lists

\* A sound provider under an id that is free can be added.
LEMMA OneMore ==
    ASSUME NEW ps \in Lists, NEW p \in Sound, p.id \notin IdsOf(ps)
    PROVE  Append(ps, p) \in Lists
  <1>1. ps \in Seq(Sound) /\ Apart(ps)
    BY DEF Lists
  <1>2. Append(ps, p) \in Seq(Sound)
    BY <1>1
  <1>3. Apart(Append(ps, p))
    <2>1. \A i \in DOMAIN ps : ps[i].id # p.id
      BY DEF IdsOf, Elems
    <2>2. /\ DOMAIN Append(ps, p) = 1..(Len(ps) + 1) /\ DOMAIN ps = 1..Len(ps) /\ Len(ps) \in Nat
          /\ Append(ps, p)[Len(ps) + 1] = p /\ \A i \in 1..Len(ps) : Append(ps, p)[i] = ps[i]
      BY <1>1
    <2> HIDE DEF Apart
    <2>3. ASSUME NEW i \in 1..(Len(ps) + 1), NEW j \in 1..(Len(ps) + 1),
                 Append(ps, p)[i].id = Append(ps, p)[j].id
          PROVE  i = j
      <3>1. CASE i \in 1..Len(ps) /\ j \in 1..Len(ps)
        BY <1>1, <2>2, <2>3, <3>1 DEF Apart
      <3>2. CASE i = Len(ps) + 1 /\ j \in 1..Len(ps)
        BY <2>1, <2>2, <2>3, <3>2
      <3>3. CASE i \in 1..Len(ps) /\ j = Len(ps) + 1
        BY <2>1, <2>2, <2>3, <3>3
      <3> QED BY <2>2, <3>1, <3>2, <3>3
    <2> QED BY <2>2, <2>3 DEF Apart
  <1> QED BY <1>2, <1>3 DEF Lists

-----------------------------------------------------------------------------
(* Least and highest *)

\* The least element of a set of naturals is one (Min).
LEMMA SmallestOf ==
    ASSUME NEW S \in SUBSET Nat, S # {}
    PROVE  Min(S) \in S /\ \A y \in S : Min(S) <= y
  <1>1. PICK x \in S : \A y \in S : ~(<<y, x>> \in OpToRel(<, Nat))
    BY NatLessThanWellFounded, WFMin
  <1>2. \A y \in S : ~(y < x)
    BY <1>1, Zenon DEF OpToRel
  <1>3. \A y \in S : x <= y
    BY <1>2
  <1> QED BY <1>3 DEF Min

\* A natural number up to a bound has a complement to it.
LEMMA Complements == \A top \in Nat : \A r \in 0..top : \E n \in Nat : r + n = top
  <1> TAKE top \in Nat
  <1> TAKE r \in 0..top
  <1> WITNESS top - r \in Nat
  <1> QED OBVIOUS

\* Of finitely many ranks one is the highest.
LEMMA FirstIsHighest ==
    ASSUME NEW at \in SUBSET Nat, at # {}, NEW top \in Nat, NEW rank, \A i \in at : rank[i] \in 0..top
    PROVE  LET m == Min({i \in at : \A j \in at : rank[j] <= rank[i]})
           IN m \in at /\ \A j \in at : rank[j] <= rank[m]
  <1> DEFINE S == {n \in Nat : \E i \in at : rank[i] + n = top}
             T == {i \in at : \A j \in at : rank[j] <= rank[i]}
  <1>2. \A i \in at : \E n \in Nat : rank[i] + n = top
    BY Complements
  <1>3. S \in SUBSET Nat /\ S # {}
    <2>1. PICK i \in at : TRUE
      OBVIOUS
    <2>2. PICK n \in Nat : rank[i] + n = top
      BY <1>2
    <2>3. n \in S
      BY <2>2
    <2> QED BY <2>3
  <1>4. Min(S) \in S /\ \A y \in S : Min(S) <= y
    <2> HIDE DEF S
    <2> QED BY <1>3, SmallestOf
  <1>5. PICK k \in at : Min(S) \in Nat /\ rank[k] + Min(S) = top
    BY <1>4
  <1>6. k \in T
    <2>1. ASSUME NEW j \in at PROVE rank[j] <= rank[k]
      <3>1. PICK n \in Nat : rank[j] + n = top
        BY <1>2
      <3>2. Min(S) <= n
        BY <1>4, <3>1
      <3>3. rank[j] \in Int /\ rank[k] \in Int
        OBVIOUS
      <3> HIDE DEF S
      <3> QED BY <1>5, <3>1, <3>2, <3>3
    <2> QED BY <2>1
  <1>7. T \in SUBSET Nat /\ T # {}
    BY <1>6
  <1>8. Min(T) \in T
    <2> HIDE DEF T
    <2> QED BY <1>7, SmallestOf
  <1> QED BY <1>8

-----------------------------------------------------------------------------
(* The providers an import makes *)

\* An id is given that is one and not taken, or none (_dedupe).
LEMMA FreeId ==
    ASSUME NEW base \in Bases, NEW taken
    PROVE  Dedupe(base, taken) # Nil => Dedupe(base, taken) \in Ids \ taken
  <1> DEFINE free == {n \in 1..MaxSuffix : <<base, n>> \notin taken}
  <1>1. CASE free = {}
    BY <1>1 DEF Dedupe
  <1>2. CASE free # {}
    <2>1. free \in SUBSET Nat
      OBVIOUS
    <2>2. Min(free) \in free
      <3> HIDE DEF free
      <3> QED BY <1>2, <2>1, SmallestOf
    <2>3. Dedupe(base, taken) = <<base, Min(free)>>
      BY <1>2 DEF Dedupe
    <2> QED BY <2>2, <2>3 DEF Ids
  <1> QED BY <1>1, <1>2

\* The resource a dataset is read from, if it has one, is in a format a build reads
\* (select_resource).
LEMMA ReadableResource ==
    ASSUME NEW d \in Datasets, SelectResource(d) # Nil
    PROVE  /\ SelectResource(d).format \in {"gtfs", "netex"}
           /\ SelectResource(d).url \in FeedUrls
  <1> DEFINE rs == d.resources
             R == [format : Formats, url : FeedUrls, updated : Marks]
  <1>1. rs \in Seq(R)
    BY DEF Datasets
  <1>2. /\ DOMAIN rs \subseteq Nat
        /\ \A i \in DOMAIN rs : rs[i].url \in FeedUrls /\ rs[i].updated \in Marks
    <2>1. \A x \in R : x.url \in FeedUrls /\ x.updated \in Marks
      OBVIOUS
    <2> HIDE DEF rs, R
    <2> QED BY <1>1, <2>1
  <1>3. ASSUME NEW i \in Resources(d, "gtfs") \cup Resources(d, "netex"), SelectResource(d) = rs[i]
        PROVE  /\ SelectResource(d).format \in {"gtfs", "netex"}
               /\ SelectResource(d).url \in FeedUrls
    <2>1. i \in DOMAIN rs /\ rs[i].format \in {"gtfs", "netex"}
      BY <1>3 DEF Resources
    <2> QED BY <1>2, <1>3, <2>1
  <1>4. CASE Resources(d, "gtfs") # {}
    <2> DEFINE of == Resources(d, "gtfs")
               rank == [i \in of |-> rs[i].updated]
               m == Min({i \in of : \A j \in of : rank[j] <= rank[i]})
    <2>1. of \in SUBSET Nat /\ of # {} /\ of \subseteq DOMAIN rs
      BY <1>2, <1>4 DEF Resources
    <2>2. MaxMarks \in Nat /\ \A i \in of : rank[i] \in 0..MaxMarks
      BY <1>2, <2>1, SourcesAssumption DEF Marks
    <2>3. m \in of
      <3> HIDE DEF rank, of
      <3> QED BY <2>1, <2>2, FirstIsHighest
    <2>4. {i \in of : \A j \in of : rank[j] <= rank[i]}
            = {i \in of : \A j \in of : rs[j].updated <= rs[i].updated}
      OBVIOUS
    <2>5. SelectResource(d) = rs[m]
      BY <1>4, <2>4 DEF SelectResource, Newest
    <2> HIDE DEF m
    <2> QED BY <1>3, <2>3, <2>5
  <1>5. CASE Resources(d, "gtfs") = {} /\ Resources(d, "netex") # {}
    <2>1. Resources(d, "netex") \in SUBSET Nat
      BY <1>2 DEF Resources
    <2>2. Min(Resources(d, "netex")) \in Resources(d, "netex")
      BY <1>5, <2>1, SmallestOf
    <2>3. SelectResource(d) = rs[Min(Resources(d, "netex"))]
      BY <1>5 DEF SelectResource
    <2> QED BY <1>3, <2>2, <2>3
  <1>6. CASE Resources(d, "gtfs") = {} /\ Resources(d, "netex") = {}
    BY <1>6 DEF SelectResource
  <1> QED BY <1>4, <1>5, <1>6

\* A provider made of a dataset is sound and under an id that is free
\* (make_provider_from_dataset).
LEMMA MadeSound ==
    ASSUME NEW d \in Datasets, NEW default \in Lands, NEW taken,
           MakeProvider(d, default, taken) # Nil
    PROVE  /\ MakeProvider(d, default, taken) \in Sound
           /\ MakeProvider(d, default, taken).id \notin taken
  <1> DEFINE r == SelectResource(d)
             byName == IF d.publisher = Nil THEN Nil ELSE Dedupe(d.publisher, taken)
             id == IF byName # Nil THEN byName ELSE Dedupe(d.title, taken)
             land == IF d.country = Nil THEN default ELSE d.country
             p == [id |-> id, format |-> r.format, source |-> "url", url |-> r.url,
                   country |-> land]
  <1>1. r # Nil /\ id # Nil /\ MakeProvider(d, default, taken) = p
    BY DEF MakeProvider
  <1>2. /\ d.publisher # Nil => d.publisher \in Bases
        /\ d.title \in Bases /\ d.country \in Lands
    BY DEF Datasets
  <1>3. id \in Ids \ taken
    <2>1. CASE byName # Nil
      <3>1. d.publisher # Nil /\ byName = Dedupe(d.publisher, taken)
        BY <2>1
      <3> QED BY <1>2, <2>1, <3>1, FreeId
    <2>2. CASE byName = Nil
      BY <1>1, <1>2, <2>2, FreeId
    <2> QED BY <2>1, <2>2
  <1>4. r.format \in {"gtfs", "netex"} /\ r.url \in FeedUrls
    BY <1>1, ReadableResource
  <1>5. land \in Lands
    BY <1>2
  <1>6. p \in Sound
    <2> HIDE DEF r, id, land
    <2>1. p \in Providers
      BY <1>3, <1>4, <1>5 DEF Providers, Formats
    <2> QED BY <1>4, <2>1 DEF Sound
  <1> QED BY <1>1, <1>3, <1>6

\* What an import has made so far can be added to the session's list.
Joins(base, new) == new \in Seq(Sound) /\ base \o new \in Lists

\* One dataset more, and what is made can still be added (import_from_nap).
LEMMA DatasetJoins ==
    ASSUME NEW base \in Lists, NEW new, Joins(base, new), NEW d \in Datasets, NEW want,
           want.country \in Lands
    PROVE  Joins(base, WithDataset(base, new, d, want))
  <1> DEFINE p == MakeProvider(d, want.country, Taken(IdsOf(base), new))
  <1>1. CASE WithDataset(base, new, d, want) = new
    BY <1>1
  <1>2. CASE p # Nil /\ WithDataset(base, new, d, want) = Append(new, p)
    <2>1. p \in Sound /\ p.id \notin Taken(IdsOf(base), new)
      BY <1>2, MadeSound
    <2> HIDE DEF p
    <2>2. base \in Seq(Sound) /\ new \in Seq(Sound) /\ base \o new \in Lists
      BY DEF Lists, Joins
    <2>3. p.id \notin IdsOf(base \o new)
      <3>1. Elems(base \o new) \subseteq Elems(base) \cup Elems(new)
        BY <2>2 DEF Elems
      <3> QED BY <2>1, <3>1 DEF Taken, IdsOf
    <2>4. Append(base \o new, p) \in Lists
      BY <2>1, <2>2, <2>3, OneMore
    <2>5. Append(base \o new, p) = base \o Append(new, p)
      BY <2>1, <2>2
    <2>6. Append(new, p) \in Seq(Sound)
      BY <2>1, <2>2
    <2> QED BY <1>2, <2>4, <2>5, <2>6 DEF Joins
  <1> QED BY <1>1, <1>2 DEF WithDataset

\* The lists an import makes, one for each number of datasets it has read.
Makes(f, N, base, datasets, want) ==
    f = [n \in 0..N |->
           IF n = 0 THEN <<>> ELSE WithDataset(base, f[n - 1], datasets[n], want)]

\* Whatever the datasets, the import has made some list of each.
LEMMA ListsAreMade ==
    ASSUME NEW N \in Nat, NEW base, NEW datasets, NEW want
    PROVE  \E f : Makes(f, N, base, datasets, want)
  <1> DEFINE S == {n \in Nat : ~\E f : Makes(f, n, base, datasets, want)}
  <1> SUFFICES ASSUME S # {} PROVE FALSE
    OBVIOUS
  <1>1. Min(S) \in S /\ \A n \in S : Min(S) <= n
    <2>1. S \in SUBSET Nat
      OBVIOUS
    <2> HIDE DEF S
    <2> QED BY <2>1, SmallestOf
  <1>2. PICK top \in S : \A n \in S : top <= n
    BY <1>1
  <1>3. top \in Nat /\ ~\E f : Makes(f, top, base, datasets, want)
    OBVIOUS
  <1>4. CASE top = 0
    <2>1. Makes([n \in 0..0 |-> <<>>], 0, base, datasets, want)
      BY DEF Makes
    <2> QED BY <1>3, <1>4, <2>1
  <1>5. CASE top # 0
    <2>1. top - 1 \in Nat /\ top - 1 \notin S
      BY <1>2, <1>3, <1>5
    <2>2. PICK f : Makes(f, top - 1, base, datasets, want)
      BY <2>1
    <2> DEFINE last == WithDataset(base, f[top - 1], datasets[top], want)
               g == [n \in 0..top |-> IF n = top THEN last ELSE f[n]]
    <2> HIDE DEF S
    <2>3. ASSUME NEW n \in 0..top
          PROVE  g[n] = IF n = 0 THEN <<>> ELSE WithDataset(base, g[n - 1], datasets[n], want)
      <3>1. CASE n = top
        <4>1. g[n - 1] = f[top - 1] /\ n # 0
          BY <1>3, <1>5, <3>1
        <4> QED BY <3>1, <4>1
      <3>2. CASE n # top
        <4>1. n \in 0..(top - 1)
          BY <1>3, <3>2
        <4>2. f[n] = IF n = 0 THEN <<>> ELSE WithDataset(base, f[n - 1], datasets[n], want)
          BY <2>2, <4>1 DEF Makes
        <4>3. g[n] = f[n] /\ (n # 0 => g[n - 1] = f[n - 1])
          BY <1>3, <3>2, <4>1
        <4> QED BY <4>2, <4>3
      <3> QED BY <3>1, <3>2
    <2>4. g = [n \in 0..top |-> g[n]]
      OBVIOUS
    <2> HIDE DEF g
    <2>5. Makes(g, top, base, datasets, want)
      BY <2>3, <2>4 DEF Makes
    <2> QED BY <1>3, <2>5
  <1> QED BY <1>4, <1>5

\* Every list made on the way can be added to the session's.
LEMMA MadeJoin ==
    ASSUME NEW base \in Lists, NEW datasets \in Seq(Datasets), NEW want, want.country \in Lands,
           NEW f, Makes(f, Len(datasets), base, datasets, want)
    PROVE  \A n \in 0..Len(datasets) : Joins(base, f[n])
  <1> DEFINE S == {n \in 0..Len(datasets) : ~Joins(base, f[n])}
  <1>0. Len(datasets) \in Nat
    OBVIOUS
  <1> SUFFICES ASSUME S # {} PROVE FALSE
    OBVIOUS
  <1>1. Min(S) \in S /\ \A n \in S : Min(S) <= n
    <2>1. S \in SUBSET Nat
      BY <1>0
    <2> HIDE DEF S
    <2> QED BY <2>1, SmallestOf
  <1>2. PICK top \in S : \A n \in S : top <= n
    BY <1>1
  <1>3. top \in 0..Len(datasets) /\ ~Joins(base, f[top])
    OBVIOUS
  <1>4. CASE top = 0
    <2>1. f[0] = <<>>
      BY <1>0 DEF Makes
    <2>2. base \o <<>> = base /\ base \in Seq(Sound)
      BY DEF Lists
    <2>3. Joins(base, <<>>)
      BY <2>2 DEF Joins
    <2> QED BY <1>3, <1>4, <2>1, <2>3
  <1>5. CASE top # 0
    <2>1. top - 1 \in 0..Len(datasets) /\ top - 1 \notin S /\ top \in 1..Len(datasets)
      BY <1>0, <1>2, <1>3, <1>5
    <2>2. Joins(base, f[top - 1])
      BY <2>1
    <2>3. datasets[top] \in Datasets
      BY <2>1
    <2>4. f[top] = WithDataset(base, f[top - 1], datasets[top], want)
      <3> HIDE DEF S
      <3> QED BY <1>0, <1>5, <2>1 DEF Makes
    <2> HIDE DEF S
    <2>5. Joins(base, f[top])
      BY <2>2, <2>3, <2>4, DatasetJoins
    <2> QED BY <1>3, <2>5
  <1> QED BY <1>4, <1>5

\* What an import makes can be added to the session's list (import_from_nap).
LEMMA ImportJoins ==
    ASSUME NEW base \in Lists, NEW datasets \in Seq(Datasets), NEW want, want.country \in Lands
    PROVE  Joins(base, Imported(base, datasets, want))
  <1> DEFINE f == CHOOSE g : Makes(g, Len(datasets), base, datasets, want)
  <1>1. Len(datasets) \in Nat
    OBVIOUS
  <1>2. Makes(f, Len(datasets), base, datasets, want)
    BY <1>1, ListsAreMade
  <1>3. Imported(base, datasets, want) = f[Len(datasets)]
    BY DEF Imported, Makes
  <1> HIDE DEF f
  <1>4. Len(datasets) \in 0..Len(datasets)
    BY <1>1
  <1> QED BY <1>2, <1>3, <1>4, MadeJoin

-----------------------------------------------------------------------------
(* The sources: what is stored, what a form and an import hold *)

Configs == [providers : Lists, changed : Marks, refreshed : Marks]

\* What an import or a switch works on.
WorkKnown ==
    importing # Nil =>
        /\ importing.base \in Configs
        /\ importing.kind = "import" =>
             importing.datasets \in Seq(Datasets) /\ importing.want.country \in Lands

\* Every declared country has stations, of the row and of what an import read.
GateKnown ==
    ModuleUsed \/ /\ Countries(sources.providers) \subseteq stationed
                  /\ importing # Nil => Countries(importing.base.providers) \subseteq stationed

\* Unless an older form's marks were put back, no form and no import holds a later mark than
\* the row's.
MarksKnown ==
    ~excused => /\ form.refreshed <= Now
                /\ importing # Nil => importing.base.refreshed <= Now

SourcesInv ==
    /\ sources \in Configs /\ form \in Configs /\ excused \in BOOLEAN
    /\ refreshing # Nil => refreshing \in Configs
    /\ WorkKnown /\ GateKnown /\ MarksKnown
    /\ StaleIsTold /\ ImportIsValid

\* A configuration's fields.
LEMMA ConfigFields ==
    ASSUME NEW c \in Configs
    PROVE  /\ c.providers \in Lists /\ c.changed \in Marks /\ c.refreshed \in Marks
           /\ c.changed \in Nat /\ c.refreshed \in Nat
           /\ \A ps \in Lists : [c EXCEPT !.providers = ps] \in Configs
           /\ \A m \in Marks : [c EXCEPT !.changed = m] \in Configs
           /\ \A m \in Marks : [c EXCEPT !.refreshed = m] \in Configs
  <1>1. Marks \subseteq Nat
    BY SourcesAssumption DEF Marks
  <1> QED BY <1>1 DEF Configs

\* The next mark is one, later than those of the row.
LEMMA NextMark ==
    ASSUME sources \in Configs, MayMark
    PROVE  /\ Now \in Nat /\ Now + 1 \in Marks
           /\ sources.changed <= Now /\ sources.refreshed <= Now
  <1>1. sources.changed \in Nat /\ sources.refreshed \in Nat
    BY ConfigFields
  <1> QED BY <1>1, SourcesAssumption DEF Now, MayMark, Marks

\* A session starts with no sources.
LEMMA SourcesStart == SourcesInit => SourcesInv
  <1> SUFFICES ASSUME SourcesInit PROVE SourcesInv
    OBVIOUS
  <1>1. <<>> \in Lists
    BY DEF Lists, Apart
  <1>2. 0 \in Marks
    BY SourcesAssumption DEF Marks
  <1>3. sources \in Configs /\ form \in Configs
    BY <1>1, <1>2 DEF SourcesInit, Configs
  <1>4. Elems(sources.providers) = {}
    BY DEF SourcesInit, Elems
  <1>5. WorkKnown /\ refreshing = Nil /\ excused \in BOOLEAN /\ ImportIsValid
    BY DEF SourcesInit, WorkKnown, ImportIsValid
  <1>6. GateKnown
    BY <1>4 DEF SourcesInit, GateKnown, Countries
  <1>7. MarksKnown
    BY <1>2 DEF SourcesInit, MarksKnown, Now
  <1>8. StaleIsTold
    BY <1>4 DEF StaleIsTold, OutOfDate
  <1> QED BY <1>3, <1>5, <1>6, <1>7, <1>8 DEF SourcesInv

\* A write marked as a change of the sources: it is told of, and holds the latest mark.
LEMMA MarkedWrite ==
    ASSUME SourcesInv, MayMark, NEW c \in Configs, sources' = MarkChanged(c),
           ~excused => c.refreshed <= Now
    PROVE  /\ sources' \in Configs /\ sources'.providers = c.providers
           /\ ~excused => (Told' /\ Now < Now')
  <1>1. /\ Now \in Nat /\ Now + 1 \in Marks
        /\ sources' = [c EXCEPT !.changed = Now + 1]
    BY NextMark DEF SourcesInv, MarkChanged
  <1>2. sources' \in Configs /\ c.refreshed \in Nat
    BY <1>1, ConfigFields
  <1>3. /\ sources'.providers = c.providers /\ sources'.changed = Now + 1
        /\ sources'.refreshed = c.refreshed
    BY <1>1 DEF Configs
  <1>4. ASSUME ~excused PROVE Told' /\ Now < Now'
    <2>1. Now' = IF sources'.changed > sources'.refreshed THEN sources'.changed
                 ELSE sources'.refreshed
      BY DEF Now
    <2> QED BY <1>1, <1>2, <1>3, <1>4, <2>1 DEF Told
  <1> QED BY <1>2, <1>3, <1>4

\* What depends on the row alone stays when the row does.
LEMMA RowKept ==
    ASSUME SourcesInv, UNCHANGED <<sources, onDisk, excused, stationed>>
    PROVE  /\ sources' \in Configs /\ excused' \in BOOLEAN /\ StaleIsTold' /\ Now' = Now
           /\ Now \in Nat /\ sources.refreshed <= Now
  <1>1. sources.changed \in Nat /\ sources.refreshed \in Nat
    BY ConfigFields DEF SourcesInv
  <1>2. Now \in Nat /\ sources.refreshed <= Now /\ Now' = Now
    BY <1>1 DEF Now
  <1>3. StaleIsTold'
    BY DEF SourcesInv, StaleIsTold, OutOfDate, Told, Elems
  <1> QED BY <1>2, <1>3 DEF SourcesInv

\* A form is loaded (SessionResponse).
LEMMA FormLoaded == SourcesInv /\ LoadForm => SourcesInv'
  <1> SUFFICES ASSUME SourcesInv, LoadForm PROVE SourcesInv'
    OBVIOUS
  <1>1. UNCHANGED <<sources, importing, refreshing, stationed, onDisk, excused, imported>>
          /\ form' = sources
    BY DEF LoadForm
  <1>2. MarksKnown'
    BY <1>1, RowKept DEF SourcesInv, MarksKnown
  <1>3. WorkKnown' /\ GateKnown' /\ ImportIsValid'
    BY <1>1 DEF SourcesInv, WorkKnown, GateKnown, ImportIsValid
  <1> QED BY <1>1, <1>2, <1>3, RowKept DEF SourcesInv

\* An operator's form is saved (patch_session).
LEMMA FormSaved == ASSUME SourcesInv, NEW ps \in Bodies, SaveSources(ps) PROVE SourcesInv'
  <1> DEFINE new == [form EXCEPT !.providers = ps]
  <1>1. /\ UNCHANGED <<importing, refreshing, stationed, onDisk, imported>>
        /\ MayMark /\ new # sources /\ form' = sources'
        /\ excused' = (excused \/ (sources.providers = ps /\ form # sources))
        /\ sources' = SaveMarked(ps)
    BY DEF SaveSources
  <1>2. ps \in Lists
    BY SourcesAssumption, ValidLists DEF SaveSources
  <1>3. form \in Configs /\ new \in Configs /\ new.providers = ps /\ new.refreshed = form.refreshed
    <2>1. form \in Configs
      BY DEF SourcesInv
    <2> QED BY <1>2, <2>1, ConfigFields DEF Configs
  <1>4. ModuleUsed \/ Countries(ps) \subseteq stationed
    BY DEF SaveSources, SourcesInv, GateKnown, GatePasses, Missing
  <1> HIDE DEF new
  <1>5. sources' \in Configs /\ sources'.providers = ps
          /\ (~excused' => ~excused /\ Told' /\ Now < Now')
    <2>1. CASE sources.providers # ps
      <3>1. sources' = MarkChanged(new)
        BY <1>1, <2>1 DEF SaveMarked, new
      <3>2. ~excused => new.refreshed <= Now
        BY <1>3 DEF SourcesInv, MarksKnown
      <3> QED BY <1>1, <1>3, <3>1, <3>2, MarkedWrite
    <2>2. CASE sources.providers = ps
      <3>1. form # sources
        <4> SUFFICES ASSUME form = sources PROVE FALSE
          OBVIOUS
        <4>1. new = sources
          BY <1>3, <2>2 DEF new, Configs
        <4> QED BY <1>1, <4>1
      <3>2. excused' = TRUE
        BY <1>1, <2>2, <3>1
      <3>3. sources' = new
        BY <1>1, <2>2 DEF SaveMarked, new
      <3> QED BY <1>3, <3>2, <3>3
    <2> QED BY <2>1, <2>2
  <1>6. MarksKnown'
    <2>1. SUFFICES ASSUME ~excused'
                   PROVE  /\ form'.refreshed <= Now'
                          /\ importing' # Nil => importing'.base.refreshed <= Now'
      BY DEF MarksKnown
    <2>2. sources'.changed \in Nat /\ sources'.refreshed \in Nat
      BY <1>5, ConfigFields
    <2>3. Now' = IF sources'.changed > sources'.refreshed THEN sources'.changed
                 ELSE sources'.refreshed
      BY DEF Now
    <2>4. form'.refreshed <= Now'
      BY <1>1, <2>2, <2>3
    <2>5. importing' # Nil => importing'.base.refreshed <= Now'
      <3>1. ASSUME importing # Nil PROVE importing.base.refreshed <= Now'
        <4>1. importing.base.refreshed <= Now /\ importing.base.refreshed \in Nat
          BY <1>5, <2>1, <3>1, ConfigFields DEF SourcesInv, WorkKnown, MarksKnown
        <4> QED BY <1>1, <1>5, <2>1, <2>2, <2>3, <4>1, NextMark DEF SourcesInv
      <3> QED BY <1>1, <3>1
    <2> QED BY <2>4, <2>5
  <1>7. GateKnown'
    BY <1>1, <1>4, <1>5 DEF SourcesInv, GateKnown
  <1>8. WorkKnown' /\ ImportIsValid' /\ StaleIsTold'
    BY <1>1, <1>5 DEF SourcesInv, WorkKnown, ImportIsValid, StaleIsTold
  <1>9. excused' \in BOOLEAN
    BY <1>1
  <1> QED BY <1>1, <1>5, <1>6, <1>7, <1>8, <1>9 DEF SourcesInv

\* An import or a switch reads the row (import_providers_from_nap, apply_nap_sources).
LEMMA WorkBegins ==
    ASSUME SourcesInv, importing'.base = sources,
           UNCHANGED <<sources, form, refreshing, stationed, onDisk, excused, imported>>,
           importing'.kind = "import" =>
             importing'.datasets \in Seq(Datasets) /\ importing'.want.country \in Lands
    PROVE  SourcesInv'
  <1>1. MarksKnown'
    BY RowKept DEF SourcesInv, MarksKnown
  <1>2. WorkKnown' /\ GateKnown' /\ ImportIsValid'
    BY DEF SourcesInv, WorkKnown, GateKnown, ImportIsValid
  <1> QED BY <1>1, <1>2, RowKept DEF SourcesInv

\* An import or a switch ends and leaves the row (EndImport, a refusal).
LEMMA WorkEnds ==
    ASSUME SourcesInv, importing' = Nil, imported' # "invalid",
           UNCHANGED <<sources, form, refreshing, stationed, onDisk, excused>>
    PROVE  SourcesInv'
  <1>1. MarksKnown'
    BY RowKept DEF SourcesInv, MarksKnown
  <1>2. WorkKnown' /\ GateKnown' /\ ImportIsValid'
    BY DEF SourcesInv, WorkKnown, GateKnown, ImportIsValid
  <1> QED BY <1>1, <1>2, RowKept DEF SourcesInv

\* An import or a switch writes the configuration it read with other providers
\* (_save_imported, _save_nap_switch).
LEMMA WorkSaved ==
    ASSUME SourcesInv, importing # Nil, MayMark, importing' = Nil, imported' # "invalid",
           UNCHANGED <<form, refreshing, stationed, onDisk, excused>>,
           NEW all \in Lists,
           sources' = MarkChanged([importing.base EXCEPT !.providers = all]),
           ModuleUsed \/ Countries(all) \subseteq stationed
    PROVE  SourcesInv'
  <1> DEFINE new == [importing.base EXCEPT !.providers = all]
  <1>1. new \in Configs /\ new.providers = all /\ new.refreshed = importing.base.refreshed
    <2>1. importing.base \in Configs
      BY DEF SourcesInv, WorkKnown
    <2> QED BY <2>1, ConfigFields DEF Configs
  <1>2. ~excused => new.refreshed <= Now
    BY <1>1 DEF SourcesInv, MarksKnown
  <1>3. sources' = MarkChanged(new)
    OBVIOUS
  <1> HIDE DEF new
  <1>4. sources' \in Configs /\ sources'.providers = all /\ (~excused => Told' /\ Now < Now')
    BY <1>1, <1>2, <1>3, MarkedWrite
  <1>5. MarksKnown'
    <2>1. SUFFICES ASSUME ~excused PROVE form.refreshed <= Now'
      BY DEF MarksKnown
    <2>2. form.refreshed <= Now /\ form.refreshed \in Nat /\ Now \in Nat
      BY <2>1, ConfigFields, NextMark DEF SourcesInv, MarksKnown
    <2>3. sources'.changed \in Nat /\ sources'.refreshed \in Nat
      BY <1>4, ConfigFields
    <2>4. Now' = IF sources'.changed > sources'.refreshed THEN sources'.changed
                 ELSE sources'.refreshed
      BY DEF Now
    <2> QED BY <1>4, <2>1, <2>2, <2>3, <2>4
  <1>6. GateKnown'
    BY <1>4 DEF GateKnown
  <1>7. WorkKnown' /\ ImportIsValid' /\ StaleIsTold'
    BY <1>4 DEF WorkKnown, ImportIsValid, StaleIsTold
  <1> QED BY <1>4, <1>5, <1>6, <1>7 DEF SourcesInv

\* An import ends: with nothing, refused by the gate, or saved; never refused for its ids.
LEMMA ImportFinished == SourcesInv /\ FinishImport => SourcesInv'
  <1> SUFFICES ASSUME SourcesInv, FinishImport PROVE SourcesInv'
    OBVIOUS
  <1> DEFINE base == importing.base
             new == Imported(base.providers, importing.datasets, importing.want)
             all == base.providers \o new
  <1>1. /\ importing # Nil /\ importing.kind = "import" /\ MayMark /\ importing' = Nil
        /\ UNCHANGED <<form, refreshing, stationed, onDisk, excused>>
    BY DEF FinishImport
  <1>2. /\ base \in Configs /\ base.providers \in Lists
        /\ importing.datasets \in Seq(Datasets) /\ importing.want.country \in Lands
    <2>1. /\ base \in Configs
          /\ importing.datasets \in Seq(Datasets) /\ importing.want.country \in Lands
      BY <1>1 DEF SourcesInv, WorkKnown
    <2> QED BY <2>1, ConfigFields
  <1>3. all \in Lists
    BY <1>2, ImportJoins DEF Joins
  <1>4. Valid(all)
    <2>1. all \in Seq(Providers)
      <3>1. all \in Seq(Sound) /\ Sound \subseteq Providers
        BY <1>3 DEF Lists, Sound
      <3> HIDE DEF all
      <3> QED BY <3>1
    <2> HIDE DEF all
    <2> QED BY <1>3, <2>1, ValidLists
  <1>5. \/ imported' \in {"empty", "gate"} /\ UNCHANGED sources
        \/ /\ imported' = "saved" /\ GatePasses(all, base.providers)
           /\ sources' = MarkChanged([base EXCEPT !.providers = all])
    BY <1>4 DEF FinishImport
  <1>6. CASE imported' \in {"empty", "gate"} /\ UNCHANGED sources
    BY <1>1, <1>6, WorkEnds
  <1>7. CASE /\ imported' = "saved" /\ GatePasses(all, base.providers)
             /\ sources' = MarkChanged([base EXCEPT !.providers = all])
    <2>1. ModuleUsed \/ Countries(base.providers) \subseteq stationed
      BY <1>1 DEF SourcesInv, GateKnown
    <2>2. ModuleUsed \/ Countries(all) \subseteq stationed
      BY <1>7, <2>1 DEF GatePasses, Missing
    <2> HIDE DEF all
    <2> QED BY <1>1, <1>3, <1>7, <2>2, WorkSaved
  <1> QED BY <1>5, <1>6, <1>7

\* A switch keeps a provider's id, format and country, so the list it makes is stored
\* (apply).
LEMMA SwitchFinished == SourcesInv /\ FinishSwitch => SourcesInv'
  <1> SUFFICES ASSUME SourcesInv, FinishSwitch PROVE SourcesInv'
    OBVIOUS
  <1> DEFINE base == importing.base
             of(x) == IF x.id \in importing.ids \cap DOMAIN SourceMap THEN Switched(x) ELSE x
             all == [i \in DOMAIN base.providers |-> of(base.providers[i])]
  <1>1. /\ importing # Nil /\ MayMark /\ importing' = Nil
        /\ UNCHANGED <<form, refreshing, stationed, onDisk, excused, imported>>
        /\ sources' = IF all = base.providers THEN sources
                      ELSE MarkChanged([base EXCEPT !.providers = all])
    BY DEF FinishSwitch
  <1>2. base.providers \in Lists /\ imported # "invalid"
    <2>1. base \in Configs
      BY <1>1 DEF SourcesInv, WorkKnown
    <2> QED BY <2>1, ConfigFields DEF SourcesInv, ImportIsValid
  <1>3. ASSUME NEW p \in Sound
        PROVE  of(p) \in Sound /\ of(p).id = p.id /\ of(p).country = p.country
    <2>1. CASE of(p) = p
      BY <2>1
    <2>2. CASE /\ p.id \in DOMAIN SourceMap
               /\ of(p) = [id |-> p.id, format |-> p.format, source |-> "nap",
                           url |-> SourceMap[p.id].url, country |-> p.country]
      <3>1. SourceMap[p.id].url \in FeedUrls
        BY <2>2, SourcesAssumption
      <3> HIDE DEF of
      <3> QED BY <2>2, <3>1 DEF Sound, Providers
    <2> QED BY <2>1, <2>2 DEF Switched
  <1>4. base.providers \in Seq(Sound) /\ Apart(base.providers)
    BY <1>2 DEF Lists
  <1>5. /\ DOMAIN all = DOMAIN base.providers
        /\ \A i \in DOMAIN all : /\ all[i] \in Sound /\ all[i].id = base.providers[i].id
                                 /\ all[i].country = base.providers[i].country
    <2>1. \A i \in DOMAIN base.providers : base.providers[i] \in Sound
      BY <1>4
    <2> HIDE DEF of
    <2> QED BY <1>3, <2>1
  <1> HIDE DEF all
  <1>6. all \in Lists
    <2>1. DOMAIN base.providers = 1..Len(base.providers) /\ Len(base.providers) \in Nat
      BY <1>4
    <2>2. all \in [1..Len(base.providers) -> Sound]
      BY <1>5, <2>1 DEF all
    <2>3. all \in Seq(Sound)
      BY <2>1, <2>2
    <2>4. Apart(all)
      BY <1>4, <1>5 DEF Apart
    <2> QED BY <2>3, <2>4 DEF Lists
  <1>7. Countries(all) = Countries(base.providers)
    BY <1>5 DEF Countries, Elems
  <1>8. CASE all = base.providers
    BY <1>1, <1>2, <1>8, WorkEnds
  <1>9. CASE all # base.providers
    <2>1. ModuleUsed \/ Countries(all) \subseteq stationed
      BY <1>1, <1>7 DEF SourcesInv, GateKnown
    <2> QED BY <1>1, <1>2, <1>6, <1>9, <2>1, WorkSaved
  <1> QED BY <1>8, <1>9

\* A refresh that came for every provider the row has leaves nothing out of date; one that
\* came for none marks nothing (mark_refresh_completed).
LEMMA RefreshEnded == ASSUME SourcesInv, NEW done, EndRefresh(done) PROVE SourcesInv'
  <1>1. /\ UNCHANGED <<form, importing, stationed, imported>> /\ refreshing' = Nil
        /\ done \subseteq IdsOf(refreshing.providers) /\ (done # {} => MayMark)
        /\ refreshing \in Configs
        /\ sources' = IF done = {} THEN sources ELSE [sources EXCEPT !.refreshed = Now + 1]
        /\ excused' = (excused \/ (done # {} /\ (done # IdsOf(sources.providers)
                                          \/ refreshing.providers # sources.providers)))
    BY DEF EndRefresh, SourcesInv
  <1>2. \A i \in Ids : onDisk'[i] = IF i \in done
                          THEN (CHOOSE p \in Elems(refreshing.providers) : p.id = i).url
                          ELSE onDisk[i]
    BY DEF EndRefresh
  <1>3. sources \in Configs /\ sources.providers \in Seq(Sound) /\ Apart(sources.providers)
    BY ConfigFields DEF SourcesInv, Lists
  <1>4. \A p \in Elems(sources.providers) : p.id \in Ids
    <2>1. \A p \in Elems(sources.providers) : p \in Sound
      BY <1>3 DEF Elems
    <2> QED BY <2>1 DEF Sound, Providers
  <1>5. CASE done = {}
    <2>1. UNCHANGED <<sources, excused, form, importing, stationed, imported>>
      <3>1. excused \in BOOLEAN
        BY DEF SourcesInv
      <3>2. excused' = excused
        BY <1>1, <1>5, <3>1
      <3> QED BY <1>1, <1>5, <3>2
    <2>2. \A i \in Ids : onDisk'[i] = onDisk[i]
      BY <1>2, <1>5
    <2>3. StaleIsTold'
      BY <1>4, <2>1, <2>2 DEF SourcesInv, StaleIsTold, OutOfDate, Told
    <2>4. MarksKnown'
      BY <2>1 DEF SourcesInv, MarksKnown, Now
    <2>5. WorkKnown' /\ GateKnown' /\ ImportIsValid'
      BY <2>1 DEF SourcesInv, WorkKnown, GateKnown, ImportIsValid
    <2> QED BY <1>1, <2>1, <2>3, <2>4, <2>5 DEF SourcesInv
  <1>6. CASE done # {}
    <2>1. /\ Now \in Nat /\ Now + 1 \in Marks
          /\ sources' = [sources EXCEPT !.refreshed = Now + 1]
      BY <1>1, <1>6, NextMark DEF SourcesInv
    <2>2. sources' \in Configs
      BY <1>3, <2>1, ConfigFields
    <2>3. /\ sources'.providers = sources.providers /\ sources'.refreshed = Now + 1
          /\ sources'.changed = sources.changed /\ sources.changed \in Nat
      BY <1>3, <2>1, ConfigFields DEF Configs
    <2>4. ~excused' => /\ ~excused /\ done = IdsOf(sources.providers)
                       /\ refreshing.providers = sources.providers
      BY <1>1, <1>6
    <2>5. StaleIsTold'
      <3> SUFFICES ASSUME ~excused', OutOfDate' PROVE FALSE
        BY DEF StaleIsTold
      <3>1. PICK p \in Elems(sources.providers) : onDisk'[p.id] # p.url
        BY <2>3 DEF OutOfDate
      <3>2. p.id \in done /\ p.id \in Ids
        BY <1>4, <2>4 DEF IdsOf
      <3>3. \A q \in Elems(sources.providers) : q.id = p.id => q = p
        BY <1>3 DEF Apart, Elems
      <3>4. (CHOOSE q \in Elems(refreshing.providers) : q.id = p.id) = p
        BY <2>4, <3>3
      <3> QED BY <1>2, <3>1, <3>2, <3>4
    <2>6. MarksKnown'
      <3>1. SUFFICES ASSUME ~excused'
                     PROVE  /\ form.refreshed <= Now'
                            /\ importing # Nil => importing.base.refreshed <= Now'
        BY <1>1 DEF MarksKnown
      <3>2. Now' = Now + 1
        <4>1. Now' = IF sources'.changed > sources'.refreshed THEN sources'.changed
                     ELSE sources'.refreshed
          BY DEF Now
        <4>2. sources.changed <= Now
          BY <1>1, <1>6, NextMark DEF SourcesInv
        <4> QED BY <2>1, <2>3, <4>1, <4>2
      <3>3. form.refreshed \in Nat /\ (importing # Nil => importing.base.refreshed \in Nat)
        BY ConfigFields DEF SourcesInv, WorkKnown
      <3> QED BY <2>1, <2>4, <3>1, <3>2, <3>3 DEF SourcesInv, MarksKnown
    <2>7. WorkKnown' /\ GateKnown' /\ ImportIsValid'
      BY <1>1, <2>3 DEF SourcesInv, WorkKnown, GateKnown, ImportIsValid
    <2>8. excused' \in BOOLEAN
      BY <1>1
    <2> QED BY <1>1, <2>2, <2>5, <2>6, <2>7, <2>8 DEF SourcesInv
  <1> QED BY <1>5, <1>6

\* Stations are imported, a refresh begins, or nothing happens.
LEMMA RowLeft ==
    ASSUME SourcesInv, UNCHANGED <<sources, form, importing, onDisk, excused, imported>>,
           stationed \subseteq stationed', refreshing' # Nil => refreshing' \in Configs
    PROVE  SourcesInv'
  <1>1. sources' \in Configs /\ excused' \in BOOLEAN /\ StaleIsTold'
    BY DEF SourcesInv, StaleIsTold, OutOfDate, Told, Elems
  <1>2. MarksKnown'
    BY DEF SourcesInv, MarksKnown, Now
  <1>3. WorkKnown' /\ GateKnown' /\ ImportIsValid'
    BY DEF SourcesInv, WorkKnown, GateKnown, ImportIsValid
  <1> QED BY <1>1, <1>2, <1>3 DEF SourcesInv

\* Every writer of the sources keeps the invariant.
LEMMA SourcesStep == SourcesInv /\ [SourcesNext]_sourceVars => SourcesInv'
  <1> SUFFICES ASSUME SourcesInv, SourcesNext \/ UNCHANGED sourceVars PROVE SourcesInv'
    OBVIOUS
  <1>1. CASE LoadForm
    BY <1>1, FormLoaded
  <1>2. ASSUME NEW ps \in Bodies, SaveSources(ps) PROVE SourcesInv'
    BY <1>2, FormSaved
  <1>3. ASSUME NEW cat \in Catalogues, NEW c \in {Nil} \cup Stationed0 \cup NewStationed,
               BeginImport(cat, [country |-> c])
        PROVE  SourcesInv'
    <2>1. cat \in Seq(Datasets) /\ c \in Lands
      BY SourcesAssumption DEF Lands
    <2> QED BY <1>3, <2>1, WorkBegins DEF BeginImport
  <1>4. CASE FinishImport
    BY <1>4, ImportFinished
  <1>5. CASE EndImport
    BY <1>5, WorkEnds DEF EndImport, SourcesInv, ImportIsValid
  <1>6. ASSUME NEW ids \in SUBSET DOMAIN SourceMap, BeginSwitch(ids) PROVE SourcesInv'
    BY <1>6, WorkBegins DEF BeginSwitch
  <1>7. CASE FinishSwitch
    BY <1>7, SwitchFinished
  <1>8. CASE BeginRefresh
    BY <1>8, RowLeft DEF BeginRefresh, SourcesInv
  <1>9. ASSUME NEW c \in NewStationed, ImportStations(c) PROVE SourcesInv'
    BY <1>9, RowLeft DEF ImportStations, SourcesInv
  <1>10. CASE UNCHANGED sourceVars
    BY <1>10, RowLeft DEF sourceVars, SourcesInv
  <1>11. ASSUME NEW done, EndRefresh(done) PROVE SourcesInv'
    BY <1>11, RefreshEnded
  <1> QED BY <1>1, <1>2, <1>3, <1>4, <1>5, <1>6, <1>7, <1>8, <1>9, <1>10, <1>11 DEF SourcesNext

\* The invariant in each state of a session's sources.
LEMMA SourcesAlways == SourcesSpec => []SourcesInv
  BY SourcesStart, SourcesStep, PTL DEF SourcesSpec

\* What it says of them: they are valid, stale ones are told of, the gate holds.
LEMMA SourcesAreTrue ==
    SourcesInv => SourcesTypeOK /\ StaleIsTold /\ GateHolds /\ ImportIsValid
  <1> SUFFICES ASSUME SourcesInv PROVE SourcesTypeOK /\ GateHolds
    BY DEF SourcesInv
  <1>1. /\ sources.changed \in Marks /\ sources.refreshed \in Marks
        /\ sources.providers \in Seq(Sound) /\ Apart(sources.providers)
    BY ConfigFields DEF SourcesInv, Lists
  <1>2. \A p \in Elems(sources.providers) : p \in Sound
    BY <1>1 DEF Elems
  <1>3. SourcesTypeOK
    BY <1>1, <1>2 DEF SourcesTypeOK, Apart, Sound, Providers
  <1>4. GateHolds
    BY DEF SourcesInv, GateKnown, GateHolds
  <1> QED BY <1>3, <1>4

\* A switch rewrites each provider in its place.
LEMMA SwitchedInPlace ==
    ASSUME SourcesInv, FinishSwitch, sources' # sources, NEW p \in Elems(importing.base.providers)
    PROVE  \E q \in Elems(sources'.providers) : q.id = p.id /\ q.format = p.format
  <1> DEFINE base == importing.base
             of(x) == IF x.id \in importing.ids \cap DOMAIN SourceMap THEN Switched(x) ELSE x
             all == [i \in DOMAIN base.providers |-> of(base.providers[i])]
  <1>1. sources' = MarkChanged([base EXCEPT !.providers = all]) /\ base \in Configs
    BY DEF FinishSwitch, SourcesInv, WorkKnown
  <1>2. sources'.providers = all
    BY <1>1 DEF MarkChanged, Configs
  <1>3. PICK i \in DOMAIN base.providers : p = base.providers[i]
    BY DEF Elems
  <1>4. of(p) \in Elems(sources'.providers)
    BY <1>2, <1>3 DEF Elems
  <1>5. of(p).id = p.id /\ of(p).format = p.format
    BY DEF Switched
  <1> QED BY <1>4, <1>5

\* The sources' action property.
LEMMA SwitchesBounded == SourcesSpec => SwitchKeepsSlot
  <1>1. SourcesInv /\ [SourcesNext]_sourceVars =>
          [(FinishSwitch /\ sources' # sources) =>
            \A p \in Elems(importing.base.providers) :
              \E q \in Elems(sources'.providers) : q.id = p.id /\ q.format = p.format]_sourceVars
    BY SwitchedInPlace
  <1> QED BY <1>1, SourcesStart, SourcesStep, PTL DEF SourcesSpec, SwitchKeepsSlot

-----------------------------------------------------------------------------
(* The instance runs one part beside the others *)

\* A behaviour of the instance is one of each component.
LEMMA PartsRun ==
    Spec => HubSpec /\ ConfigSpec /\ SourcesSpec /\ CredSpec /\ AccountSpec
  <1>1. Init => HubInit /\ ConfigInit /\ SourcesInit /\ CredInit /\ AccountInit
    BY DEF Init
  <1>2. [Next]_administrationVars => [HubNext]_hubVars
    BY DEF Next, administrationVars
  <1>3. [Next]_administrationVars => [ConfigNext]_cfgVars
    BY DEF Next, administrationVars
  <1>4. [Next]_administrationVars => [SourcesNext]_sourceVars
    BY DEF Next, administrationVars
  <1>5. [Next]_administrationVars => [CredNext]_credVars
    BY DEF Next, administrationVars
  <1>6. [Next]_administrationVars => [AccountNext]_accountVars
    BY DEF Next, administrationVars
  <1> QED BY <1>1, <1>2, <1>3, <1>4, <1>5, <1>6, PTL
        DEF Spec, HubSpec, ConfigSpec, SourcesSpec, CredSpec, AccountSpec

\* For any hubs, codes and clicks: a hub's code and id name one station, whatever the module
\* answered late, and a resolve keeps its budget and looks at a hub (confirm_hub_codes,
\* check_hub_codes, resolve_hub_codes). For any forms, catalogues, source maps and stations:
\* the sources stored are valid, pass the country gate and are told of when stale, and no
\* import fails on the ids it made (patch_session, import_from_nap, apply_nap_sources).
THEOREM CatalogueStaysTrue == Spec => []CatalogueIsTrue
  <1>1. HubInv /\ SourcesInv => CatalogueIsTrue
    BY HubsAreTrue, SourcesAreTrue DEF CatalogueIsTrue
  <1> QED BY <1>1, PartsRun, HubsAlways, SourcesAlways, PTL

\* For any payloads, requests and concurrent edits: no mask is stored, what is in force is in
\* its bounds, and a token sent is of the login that got it, and alive unless its answer was
\* later than the margin (apply_patch, _authorize).
THEOREM TokensAreKept ==
    Spec => [](ConfigTypeOK /\ MaskNeverStored /\ TokenOfThisLogin /\ ReusedTokenLives)
  BY PartsRun, CfgAlways, CfgIsTrue, TokensAlways, TokensAreTrue, PTL

\* With one edit of a credential at a time, its secret fits its scheme as well
\* (patch_credential).
THEOREM SecretsFitToo == OneEditor => (Spec => []SecretsAreKept)
  <1> SUFFICES ASSUME OneEditor PROVE Spec => []SecretsAreKept
    OBVIOUS
  <1>1. ConfigTypeOK /\ MaskNeverStored /\ TokenOfThisLogin /\ ReusedTokenLives
          /\ SecretFitsScheme => SecretsAreKept
    BY DEF SecretsAreKept
  <1>2. CredSpec => []SecretFitsScheme
    BY SecretsFit
  <1> QED BY <1>1, <1>2, TokensAreKept, PartsRun, PTL

\* For any administrators, readers, switches, edits and handlers: no step writes to a deleted
\* hub, moves an id the module did not name, serves a setting that is old, empties a slot,
\* replaces an account or lets a disabled one in.
THEOREM EditsStayBounded == Spec => EditsAreBounded
  <1>1. DeletedTakesNothing /\ UnansweredIdStays /\ ReadIsRecent /\ SwitchKeepsSlot
          /\ NotReplaced /\ DisabledStaysOut => EditsAreBounded
    BY DEF EditsAreBounded
  <1> QED BY <1>1, PartsRun, HubEditsBounded, CfgReadsBounded, SwitchesBounded,
             AccountEditsBounded, PTL
=============================================================================
