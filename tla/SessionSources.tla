---------------------------- MODULE SessionSources ----------------------------
(***************************************************************************)
(* The providers a session declares and who writes them: the Configure     *)
(* form's save, the import from a national catalogue and the switch to     *)
(* automated sources (app/api/admin/sessions.py, app/master/               *)
(* nap_importer.py, app/nap_source_map.py), each validated and gated       *)
(* (app/ingestion.py, app/country_gate.py), and the staleness marks that   *)
(* say whether what is on disk is what is configured (app/staleness.py).   *)
(*                                                                         *)
(* A save holds the row's lock; an import reads the row, waits for the     *)
(* catalogue and writes the whole config column; a refresh reads the row   *)
(* again under its lock before it marks it. A provider id is a base and    *)
(* the number that keeps it apart. Instants are counted in marks.          *)
(***************************************************************************)
EXTENDS Naturals, Sequences, FiniteSets, FiniteSetsExt

CONSTANTS
    Bases,        \* ids a publisher's or a title's name gives
    MaxSuffix,    \* ids a base can give (99 in the code)
    FeedUrls,
    Bodies,       \* provider lists an operator's form can hold
    Catalogues,   \* what a catalogue can answer: sequences of datasets
    SourceMap,    \* the automated source of some ids
    Stationed0,   \* countries with stations at first
    NewStationed, \* countries whose stations may be imported later
    ModuleUsed,   \* the station module is enabled
    MaxMarks,     \* bound on the marks made
    Nil

Ids == Bases \X (1..MaxSuffix)
Marks == 0..MaxMarks          \* 0: no mark yet
Lands == {Nil} \cup Stationed0 \cup NewStationed

\* The formats a build reads, the one it does not, and any other.
Formats == {"gtfs", "netex", "netex_fr", "other"}

\* A provider, and a dataset of a catalogue: its resources and what names it.
Providers ==
    [id : Ids, format : Formats, source : {"url", "nap"}, url : FeedUrls, country : Lands]
Datasets ==
    [publisher : Bases \cup {Nil}, title : Bases, country : Lands,
     resources : Seq([format : Formats, url : FeedUrls, updated : Marks])]

ASSUME SourcesAssumption ==
    /\ MaxSuffix \in Nat \ {0} /\ MaxMarks \in Nat /\ ModuleUsed \in BOOLEAN
    /\ Nil \notin FeedUrls /\ Nil \notin Ids
    /\ Bodies \subseteq Seq(Providers) /\ Catalogues \subseteq Seq(Datasets)
    /\ \A i \in DOMAIN SourceMap : SourceMap[i].url \in FeedUrls

VARIABLES
    sources,    \* sessions.config: the providers and _meta's two marks
    form,       \* the configuration an operator's form was loaded with
    importing,  \* the import or switch under way, or Nil
    refreshing, \* the configuration a refresh began with, or Nil
    stationed,  \* countries of master_stations
    onDisk,     \* the URL each id's file was downloaded from
    excused,    \* a refresh marked more than it downloaded, or a mark was
                \* overwritten by an older one
    imported    \* how the last import ended

sourceVars == <<sources, form, importing, refreshing, stationed, onDisk, excused,
                imported>>

Now == IF sources.changed > sources.refreshed THEN sources.changed ELSE sources.refreshed

Elems(ps) == {ps[i] : i \in DOMAIN ps}
IdsOf(ps) == {p.id : p \in Elems(ps)}
Countries(ps) == {p.country : p \in Elems(ps)} \ {Nil}

SourcesInit ==
    /\ sources = [providers |-> <<>>, changed |-> 0, refreshed |-> 0]
    /\ form = sources /\ importing = Nil /\ refreshing = Nil
    /\ stationed = Stationed0 /\ onDisk = [i \in Ids |-> Nil]
    /\ excused = FALSE /\ imported = "none"

-----------------------------------------------------------------------------
(* Validation and the country gate *)

\* normalize_providers, _validate_provider: the formats a build reads, ids apart.
Valid(ps) ==
    /\ \A p \in Elems(ps) : p.format \in {"gtfs", "netex"}
    /\ Cardinality(IdsOf(ps)) = Len(ps)

\* countries_without_stations: of the countries a write adds, those without stations.
Missing(added) == added \ stationed

\* _new_countries, _gate_blocking: refused without the module; with it a warning.
GatePasses(ps, before) == ModuleUsed \/ Missing(Countries(ps) \ Countries(before)) = {}

\* mark_sources_changed: now, later than any mark of the row.
MarkChanged(c) == [c EXCEPT !.changed = Now + 1]
MayMark == Now < MaxMarks

-----------------------------------------------------------------------------
(* The form *)

LoadForm ==
    /\ form # sources /\ form' = sources
    /\ UNCHANGED <<sources, importing, refreshing, stationed, onDisk, excused, imported>>

\* sources_subtree_equal: the body's marks are the form's; changed is bumped when
\* the stored sources differ from the body's.
SaveMarked(ps) ==
    LET new == [form EXCEPT !.providers = ps] IN
    IF sources.providers # ps THEN MarkChanged(new) ELSE new

\* patch_session, under the row's lock.
SaveSources(ps) ==
    /\ MayMark /\ [form EXCEPT !.providers = ps] # sources
    /\ Valid(ps) /\ GatePasses(ps, sources.providers)
    /\ sources' = SaveMarked(ps)
    /\ excused' = (excused \/ (sources.providers = ps /\ form # sources))
    /\ form' = sources'
    /\ UNCHANGED <<importing, refreshing, stationed, onDisk, imported>>

-----------------------------------------------------------------------------
(* The national catalogue *)

\* _normalise_format, select_resource: GTFS before NeTEx, the newest of it; a
\* Nordic or EPIP NeTEx before one OTP does not read. The first of equals.
Resources(d, format) == {i \in DOMAIN d.resources : d.resources[i].format = format}
Newest(d, of) ==
    LET updated(i) == d.resources[i].updated
    IN d.resources[Min({i \in of : \A j \in of : updated(j) <= updated(i)})]
SelectResource(d) ==
    IF Resources(d, "gtfs") # {} THEN Newest(d, Resources(d, "gtfs"))
    ELSE IF Resources(d, "netex") # {} THEN d.resources[Min(Resources(d, "netex"))]
    ELSE Nil

\* The ids a new provider must not take: those of the session and those just given.
Taken(existing, new) == existing \cup IdsOf(new)

\* _dedupe: the first number that is free, or none.
Dedupe(base, taken) ==
    LET free == {n \in 1..MaxSuffix : <<base, n>> \notin taken} IN
    IF free = {} THEN Nil ELSE <<base, Min(free)>>

\* make_provider_from_dataset, from the publisher's name, else the title's.
MakeProvider(d, default, taken) ==
    LET r == SelectResource(d)
        byName == IF d.publisher = Nil THEN Nil ELSE Dedupe(d.publisher, taken)
        id == IF byName # Nil THEN byName ELSE Dedupe(d.title, taken)
    IN IF r = Nil \/ id = Nil THEN Nil
       ELSE [id |-> id, format |-> r.format, source |-> "url", url |-> r.url,
             country |-> IF d.country = Nil THEN default ELSE d.country]

\* The filters of the request: an unknown country passes the country's.
Wanted(d, want) == want.country = Nil \/ d.country \in {Nil, want.country}

\* A dataset's provider is kept apart from the session's and those made before;
\* one whose URL the session has is skipped.
WithDataset(base, new, d, want) ==
    LET p == MakeProvider(d, want.country, Taken(IdsOf(base), new)) IN
    IF ~Wanted(d, want) THEN new
    ELSE IF p = Nil THEN new
    ELSE IF p.url \in {q.url : q \in Elems(base)} THEN new ELSE Append(new, p)

\* nap_importer.import_from_nap: the datasets in their order.
Imported(base, datasets, want) ==
    LET made[n \in 0..Len(datasets)] ==
            IF n = 0 THEN <<>> ELSE WithDataset(base, made[n - 1], datasets[n], want)
    IN made[Len(datasets)]

\* import_providers_from_nap: the row is read, then the catalogue awaited (or its
\* answer of the last five minutes taken).
BeginImport(datasets, want) ==
    /\ importing = Nil /\ MayMark
    /\ importing' = [kind |-> "import", base |-> sources, datasets |-> datasets,
                     want |-> want, ids |-> {}]
    /\ UNCHANGED <<sources, form, refreshing, stationed, onDisk, excused, imported>>

\* _save_imported: the configuration read at first, with the new providers.
FinishImport ==
    /\ importing # Nil /\ importing.kind = "import" /\ MayMark
    /\ LET base == importing.base
           new == Imported(base.providers, importing.datasets, importing.want)
           all == base.providers \o new
       IN IF new = <<>>
          THEN imported' = "empty" /\ UNCHANGED sources
          ELSE IF ~Valid(all) THEN imported' = "invalid" /\ UNCHANGED sources
          ELSE IF ~GatePasses(all, base.providers)
               THEN imported' = "gate" /\ UNCHANGED sources
          ELSE /\ imported' = "saved"
               /\ sources' = MarkChanged([base EXCEPT !.providers = all])
    /\ importing' = Nil
    /\ UNCHANGED <<form, refreshing, stationed, onDisk, excused>>

\* The catalogue cannot be had, or the import was a preview.
EndImport ==
    /\ importing # Nil /\ importing.kind = "import" /\ importing' = Nil
    /\ UNCHANGED <<sources, form, refreshing, stationed, onDisk, excused, imported>>

-----------------------------------------------------------------------------
(* The switch to automated sources: nap_source_map *)

\* _status, apply: a provider of another format than the map's is left alone.
Switched(p) ==
    IF p.format # SourceMap[p.id].format THEN p
    ELSE [id |-> p.id, format |-> p.format, source |-> "nap", url |-> SourceMap[p.id].url,
          country |-> p.country]

BeginSwitch(ids) ==
    /\ importing = Nil /\ MayMark
    /\ importing' = [kind |-> "switch", base |-> sources, datasets |-> <<>>,
                     want |-> Nil, ids |-> ids]
    /\ UNCHANGED <<sources, form, refreshing, stationed, onDisk, excused, imported>>

\* apply_nap_sources, _save_nap_switch
FinishSwitch ==
    /\ importing # Nil /\ importing.kind = "switch" /\ MayMark
    /\ LET base == importing.base
           all == [i \in DOMAIN base.providers |->
                     LET p == base.providers[i] IN
                     IF p.id \in importing.ids \cap DOMAIN SourceMap THEN Switched(p) ELSE p]
       IN sources' = IF all = base.providers THEN sources
                     ELSE MarkChanged([base EXCEPT !.providers = all])
    /\ importing' = Nil
    /\ UNCHANGED <<form, refreshing, stationed, onDisk, excused, imported>>

-----------------------------------------------------------------------------
(* Refreshes and stations *)

BeginRefresh ==
    /\ refreshing = Nil /\ sources.providers # <<>> /\ refreshing' = sources
    /\ UNCHANGED <<sources, form, importing, stationed, onDisk, excused, imported>>

\* mark_refresh_completed, on the row read again, when at least one file came or
\* was unchanged: done are the ids it came for.
EndRefresh(done) ==
    /\ refreshing # Nil /\ done \subseteq IdsOf(refreshing.providers)
    /\ done # {} => MayMark
    /\ onDisk' = [i \in Ids |-> IF i \in done
                    THEN (CHOOSE p \in Elems(refreshing.providers) : p.id = i).url
                    ELSE onDisk[i]]
    /\ sources' = IF done = {} THEN sources ELSE [sources EXCEPT !.refreshed = Now + 1]
    /\ excused' = (excused \/ (done # {} /\ (done # IdsOf(sources.providers)
                                          \/ refreshing.providers # sources.providers)))
    /\ refreshing' = Nil
    /\ UNCHANGED <<form, importing, stationed, imported>>

ImportStations(c) ==
    /\ c \in NewStationed \ stationed /\ stationed' = stationed \cup {c}
    /\ UNCHANGED <<sources, form, importing, refreshing, onDisk, excused, imported>>

SourcesNext ==
    \/ LoadForm
    \/ \E ps \in Bodies : SaveSources(ps)
    \/ \E cat \in Catalogues, c \in {Nil} \cup Stationed0 \cup NewStationed :
         BeginImport(cat, [country |-> c])
    \/ FinishImport \/ EndImport
    \/ \E ids \in SUBSET DOMAIN SourceMap : BeginSwitch(ids)
    \/ FinishSwitch
    \/ BeginRefresh
    \/ refreshing # Nil /\ \E done \in SUBSET IdsOf(refreshing.providers) : EndRefresh(done)
    \/ \E c \in NewStationed : ImportStations(c)

SourcesSpec == SourcesInit /\ [][SourcesNext]_sourceVars

-----------------------------------------------------------------------------
(* Properties *)

\* What is stored is what validation lets through, whoever wrote it: providers
\* in formats a build reads, whose ids, and so whose slots, are apart.
SourcesTypeOK ==
    /\ sources.changed \in Marks /\ sources.refreshed \in Marks
    /\ \A i, j \in DOMAIN sources.providers :
         sources.providers[i].id = sources.providers[j].id => i = j
    /\ \A p \in Elems(sources.providers) :
         p.id \in Ids /\ p.format \in {"gtfs", "netex"}

\* staleness_warning
Told == sources.changed > sources.refreshed

OutOfDate == \E p \in Elems(sources.providers) : onDisk[p.id] # p.url

\* A provider whose configured URL is not the one its file came from is told of,
\* unless a refresh marked more than it downloaded (one that failed for some
\* providers, or that a save overtook) or a save put an older form's marks back.
StaleIsTold == (OutOfDate /\ ~excused) => Told

\* Without the station module, a country no station is known of is not declared
\* by a stored provider, whichever way the provider came.
GateHolds == ModuleUsed \/ Countries(sources.providers) \subseteq stationed

\* An import never fails on its own ids: those it makes are apart from the
\* session's and from one another, however many datasets one publisher has.
ImportIsValid == imported # "invalid"

\* A switch to an automated source leaves each provider in the slot its file is
\* in: the format, and the id, stay.
SwitchKeepsSlot ==
    [][(FinishSwitch /\ sources' # sources) =>
        \A p \in Elems(importing.base.providers) :
            \E q \in Elems(sources'.providers) : q.id = p.id /\ q.format = p.format]_sourceVars
=============================================================================
