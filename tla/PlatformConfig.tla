---------------------------- MODULE PlatformConfig ----------------------------
(***************************************************************************)
(* The platform configuration of the web process: its rows, the cache of   *)
(* the process and its age, the PATCH that writes them and swaps the limit *)
(* of the journey gate (app/config_service.py, app/config_schema.py,       *)
(* app/api/admin/config.py, app/concurrency.py).                           *)
(***************************************************************************)
EXTENDS Naturals, FiniteSets

CONSTANTS
    Patchers,       \* administrators who PATCH the configuration
    Readers,        \* handlers that read it
    Payloads,       \* what is sent: records with limit and/or secret
    Limits,         \* MAX_CONCURRENT_JOURNEYS: the values coerce lets through
    Secrets,        \* values of a sensitive key
    Mask,           \* MASK_SENTINEL
    RefreshAfter    \* _refresh_after_seconds

ASSUME ConfigAssumption ==
    Limits \subseteq Nat \ {0} /\ Mask \notin Secrets /\ RefreshAfter \in Nat
\* The schema has these keys; a sensitive one is a string, the mask GET showed or another.
ASSUME PayloadAssumption ==
    \A body \in Payloads :
        /\ DOMAIN body \subseteq {"limit", "secret"}
        /\ "secret" \in DOMAIN body => body.secret \in Secrets \cup {Mask}

VARIABLES
    stored,     \* platform_config, committed
    cached,     \* _cache
    cacheAge,   \* time since _cache_loaded_at
    sinceEdit,  \* history: time since an edit was last open
    gateLimit,  \* the limit of the journey gate
    patching,   \* administrator -> the open transaction of the PATCH
    readCfg     \* reader -> what get_all returned, or <<>>

cfgVars == <<stored, cached, cacheAge, sinceEdit, gateLimit, patching, readCfg>>

NoPatch == [pc |-> "idle", writes |-> <<>>]

ConfigInit ==
    /\ stored \in [limit : Limits, secret : Secrets]
    /\ cached = stored /\ cacheAge = 0 /\ sinceEdit = RefreshAfter + 1
    /\ gateLimit = stored.limit
    /\ patching = [p \in Patchers |-> NoPatch]
    /\ readCfg = [r \in Readers |-> <<>>]

EditOpen == \E p \in Patchers : patching[p].pc \in {"flushed", "reloaded"}

Stale == cacheAge > RefreshAfter

ConfigTick ==
    /\ cacheAge <= RefreshAfter \/ sinceEdit <= RefreshAfter
    /\ cacheAge' = IF cacheAge > RefreshAfter THEN cacheAge ELSE cacheAge + 1
    /\ sinceEdit' = IF EditOpen \/ sinceEdit > RefreshAfter THEN sinceEdit ELSE sinceEdit + 1
    /\ UNCHANGED <<stored, cached, patching, gateLimit, readCfg>>

\* get_all: what the caller reads, and the cache it leaves.
GetAll(cfg) ==
    /\ cfg = IF Stale THEN stored ELSE cached
    /\ cached' = cfg /\ cacheAge' = IF Stale THEN 0 ELSE cacheAge

\* The sentinel on a sensitive key is skipped.
Writes(key, value) == key = "secret" => value # Mask

\* coerce: one value out of its bounds refuses the whole PATCH.
Invalid(body) == "limit" \in DOMAIN body /\ body.limit \notin Limits

\* apply_patch up to its flush: the rows it writes stay locked until the end. It compares
\* with the configuration it reads through the cache.
Flush(p, body) ==
    /\ patching[p].pc = "idle" /\ ~Invalid(body)
    /\ \E cfg \in {stored, cached} :
        /\ GetAll(cfg)
        /\ LET keys == {k \in DOMAIN body : Writes(k, body[k]) /\ body[k] # cfg[k]} IN
            /\ \A q \in Patchers : DOMAIN patching[q].writes \cap keys = {}
            /\ patching' = [patching EXCEPT ![p] =
                    [pc |-> "flushed", writes |-> [k \in keys |-> body[k]]]]
    /\ sinceEdit' = 0
    /\ UNCHANGED <<stored, gateLimit, readCfg>>

Seen(p) == [k \in DOMAIN stored |->
                IF k \in DOMAIN patching[p].writes THEN patching[p].writes[k] ELSE stored[k]]

\* invalidate_cache, get_all(force_refresh) in the open transaction, reload_from_config.
Reload(p) ==
    /\ patching[p].pc = "flushed"
    /\ cached' = Seen(p) /\ cacheAge' = 0
    /\ gateLimit' = Seen(p).limit
    /\ patching' = [patching EXCEPT ![p].pc = "reloaded"]
    /\ UNCHANGED <<stored, sinceEdit, readCfg>>

\* patch_config commits, or the commit fails and the transaction is rolled back.
EndPatch(p, committed) ==
    /\ patching[p].pc = "reloaded"
    /\ stored' = IF committed THEN Seen(p) ELSE stored
    /\ patching' = [patching EXCEPT ![p] = [NoPatch EXCEPT !.pc = "over"]]
    /\ sinceEdit' = 0
    /\ UNCHANGED <<cached, cacheAge, gateLimit, readCfg>>

ReadConfig(r) ==
    /\ \E cfg \in {stored, cached} : GetAll(cfg) /\ readCfg' = [readCfg EXCEPT ![r] = cfg]
    /\ UNCHANGED <<stored, sinceEdit, patching, gateLimit>>

ConfigNext ==
    \/ ConfigTick
    \/ \E p \in Patchers : \/ \E b \in Payloads : Flush(p, b)
                           \/ Reload(p) \/ EndPatch(p, TRUE) \/ EndPatch(p, FALSE)
    \/ \E r \in Readers : ReadConfig(r)

ConfigSpec == ConfigInit /\ [][ConfigNext]_cfgVars

----------------------------------------------------------------------------
\* What is stored, cached and in force is within the bounds of the schema.
ConfigTypeOK ==
    {stored, cached} \subseteq [limit : Limits, secret : Secrets \cup {Mask}] /\ gateLimit \in Limits

\* A handler works with the stored configuration, or one read while an edit was open not
\* longer ago than the cache lives: an edit that was rolled back, or hidden by the reload
\* of another, does not outlive _refresh_after_seconds.
ReadIsRecent ==
    [][\A r \in Readers : ReadConfig(r) =>
        (readCfg'[r] = stored \/ EditOpen \/ sinceEdit <= RefreshAfter)]_cfgVars

\* PATCHing what GET returned never writes the mask over a secret.
MaskNeverStored == stored.secret # Mask /\ cached.secret # Mask
=============================================================================
