--------------------------- MODULE MCAdministration ---------------------------
(***************************************************************************)
(* Model-checking instance of what administrators edit: the hubs of the    *)
(* coverage runs, the platform's configuration, the sources of a session,  *)
(* the portals' credentials and the accounts. They share no variable: a    *)
(* behaviour runs one of them, `part`, and leaves the others at rest.      *)
(***************************************************************************)
EXTENDS HubCatalogue, PlatformConfig, SessionSources, ProviderCredentials, Accounts, TLC

CONSTANTS a1, a2

VARIABLE part

\* Clicks are alike.
Symmetry == Permutations(Admins)

administrationVars == <<part, hubVars, cfgVars, sourceVars, credVars, accountVars>>

-----------------------------------------------------------------------------
\* Two ids name the station of code A: of a catalogue row, and of the row that replaced it.
MCStationOf ==
    [k \in Codes \cup StationIds |-> IF k \in {"A", "iA", "jA"} THEN 1 ELSE 2]
MCWorstCalls == [h \in Hubs |-> IF h = "h1" THEN 2 ELSE 3]

\* A limit, a limit with the mask sent back, a new secret, a limit the schema refuses.
MCPayloads == {[limit |-> 1], [limit |-> 2, secret |-> Mask], [secret |-> "s1"], [limit |-> 0]}

\* Bodies of a save: another file, another format and a second source, one id twice.
Provider(b, n, f, u, c) ==
    [id |-> <<b, n>>, format |-> f, source |-> "url", url |-> u, country |-> c]
MCBodies ==
    {<<Provider("x", 1, "gtfs", "u1", "FR")>>,
     <<Provider("x", 1, "gtfs", "u2", "FR")>>,
     <<Provider("x", 1, "netex", "u1", "FR"), Provider("x", 2, "gtfs", "u2", "SI")>>,
     <<Provider("x", 1, "gtfs", "u1", "FR"), Provider("x", 1, "gtfs", "u2", "FR")>>}
\* Catalogues: three datasets of one publisher, or two without one.
Dataset(pub, t, rs, c) == [publisher |-> pub, title |-> t, resources |-> rs, country |-> c]
Resource(f, u, n) == [format |-> f, url |-> u, updated |-> n]
MCCatalogues ==
    {<<Dataset("x", "y", <<Resource("netex", "u1", 2), Resource("gtfs", "u2", 1),
                           Resource("gtfs", "u3", 2)>>, "FR"),
       Dataset("x", "y", <<Resource("gtfs", "u2", 1)>>, Nil),
       Dataset("x", "y", <<Resource("netex", "u1", 1)>>, "SI")>>,
     <<Dataset(Nil, "y", <<Resource("netex_fr", "u1", 1)>>, "FR"),
       Dataset(Nil, "y", <<Resource("netex", "u2", 1)>>, "FR")>>}
MCSourceMap == [i \in {<<"x", 1>>, <<"y", 1>>} |-> [format |-> "gtfs", url |-> "u3"]]

-----------------------------------------------------------------------------
Init ==
    /\ part \in {"hubs", "config", "sources", "credentials", "accounts"}
    /\ HubInit /\ (part = "hubs" \/ \A h \in Hubs : ~Exists(h))
    /\ ConfigInit /\ (part = "config" \/ stored = [limit |-> 1, secret |-> "s0"])
    /\ SourcesInit /\ CredInit /\ AccountInit

Next ==
    \/ /\ part = "hubs" /\ HubNext
       /\ UNCHANGED <<part, cfgVars, sourceVars, credVars, accountVars>>
    \/ /\ part = "config" /\ ConfigNext
       /\ UNCHANGED <<part, hubVars, sourceVars, credVars, accountVars>>
    \/ /\ part = "sources" /\ SourcesNext
       /\ UNCHANGED <<part, hubVars, cfgVars, credVars, accountVars>>
    \/ /\ part = "credentials" /\ CredNext
       /\ UNCHANGED <<part, hubVars, cfgVars, sourceVars, accountVars>>
    \/ /\ part = "accounts" /\ AccountNext
       /\ UNCHANGED <<part, hubVars, cfgVars, sourceVars, credVars>>

Spec == Init /\ [][Next]_administrationVars

-----------------------------------------------------------------------------

\* A hub names one station and is resolved within its budget; the sources saved and imported
\* are valid, and a change of them marks what it makes stale.
CatalogueIsTrue ==
    /\ HubTypeOK /\ OneStation /\ ResolveBudget
    /\ SourcesTypeOK /\ StaleIsTold /\ GateHolds /\ ImportIsValid

\* The mask of a secret is never stored as one, and a token used is of this login and alive,
\* but for what its answer was later than the margin.
SecretsAreKept ==
    /\ ConfigTypeOK /\ MaskNeverStored
    /\ SecretFitsScheme /\ TokenOfThisLogin /\ ReusedTokenLives

\* What no edit does, whatever others do meanwhile: write to a deleted hub, take an id away
\* unanswered, serve an old setting, empty a slot, replace an account or let a disabled one in.
EditsAreBounded ==
    /\ DeletedTakesNothing /\ UnansweredIdStays /\ ReadIsRecent /\ SwitchKeepsSlot
    /\ NotReplaced /\ DisabledStaysOut
=============================================================================
