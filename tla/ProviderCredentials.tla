------------------------- MODULE ProviderCredentials -------------------------
(***************************************************************************)
(* One stored API credential: created, edited and deleted by its owner     *)
(* (app/api/credentials.py), and applied to a provider's request, with a   *)
(* login exchanged for a token that is kept until shortly before it dies   *)
(* (app/credentials.py, _authorize in app/api/admin/sessions.py).          *)
(*                                                                         *)
(* A secret is known by the nonce of its encryption, fresh at every write, *)
(* by the kind of scheme it was entered for and by the key it was          *)
(* encrypted with. The key changes with a restart, which empties the token *)
(* cache. Time is counted in units of the expiry margin's order.           *)
(***************************************************************************)
EXTENDS Naturals, FiniteSets

CONSTANTS
    CredentialPatchers,    \* edits under way at once
    Fetchers,    \* requests under way at once
    Lives,       \* lifetimes a portal names for a token (60 s are taken when it names none)
    Margin,      \* _TOKEN_EXPIRY_MARGIN_S
    MaxClock, MaxNonce, MaxKeys,
    NoneYet

ASSUME CredentialAssumption ==
    Lives \subseteq Nat /\ Margin \in Nat /\ MaxClock \in Nat
        /\ MaxNonce \in Nat /\ MaxKeys \in Nat

VARIABLES
    cred,      \* the user_credentials row, or NoneYet
    nonces,    \* nonces used so far
    key,       \* JWT_SECRET, by version
    tokens,    \* _token_cache, by (id, nonce): a nonce is of one row only
    edit,      \* each PATCH: idle, or the row it read and what it will write
    fetch,     \* each request: idle, or what it holds and where it is
    time

credVars == <<cred, nonces, key, tokens, edit, fetch, time>>

Schemes == {"bearer", "query", "oauth2_password"}
NeedingLogin == {"oauth2_password"}
NeedingParam == {"query"}
Kind(scheme) == IF scheme \in NeedingLogin THEN "login" ELSE "static"

Free == [pc |-> "idle"]

CredInit ==
    /\ cred = NoneYet /\ nonces = 0 /\ key = 1
    /\ tokens = [n \in 1..MaxNonce |-> NoneYet]
    /\ edit = [p \in CredentialPatchers |-> Free] /\ fetch = [f \in Fetchers |-> Free]
    /\ time = 0

\* Time passes, also while a portal's answer is under way: the client waits for
\* longer than the margin.
CredTick ==
    /\ time < MaxClock /\ time' = time + 1
    /\ UNCHANGED <<cred, nonces, key, tokens, edit, fetch>>

-----------------------------------------------------------------------------
(* The owner's operations *)

\* validate_secret: a login scheme takes a login, another whatever is typed.
SecretOk(scheme, typed) == scheme \in NeedingLogin => typed = "login"

\* validate_param_name, and the table's CHECK; "none" is no name.
ParamOk(scheme, param) == (scheme \in NeedingParam) = (param # "none")

\* encrypt: a fresh nonce, under the key of this process.
Encrypted(scheme) == [nonce |-> nonces + 1, for |-> Kind(scheme), key |-> key]

CreateCredential(scheme, param, typed) ==
    /\ cred = NoneYet /\ nonces < MaxNonce
    /\ ParamOk(scheme, param) /\ SecretOk(scheme, typed)
    /\ cred' = [id |-> nonces + 1, scheme |-> scheme, param |-> param,
                secret |-> Encrypted(scheme)]
    /\ nonces' = nonces + 1
    /\ UNCHANGED <<key, tokens, edit, fetch, time>>

\* Switching to or from a login scheme needs the secret again.
MayKeepSecret(old, new) == Kind(old) = Kind(new)

\* patch_credential: omitted fields keep their value; "" clears the name.
Edited(row, scheme, param, typed) ==
    LET s == IF scheme = "keep" THEN row.scheme ELSE scheme
        p == IF param = "keep" THEN row.param ELSE param
    IN [ok |-> /\ MayKeepSecret(row.scheme, s) \/ typed # "keep"
               /\ ParamOk(s, p)
               /\ typed # "keep" => SecretOk(s, typed),
        scheme |-> s, param |-> p]

PatchRead(p, scheme, param, typed) ==
    /\ edit[p].pc = "idle" /\ cred # NoneYet /\ (typed # "keep" => nonces < MaxNonce)
    /\ LET new == Edited(cred, scheme, param, typed) IN
       /\ new.ok
       /\ edit' = [edit EXCEPT ![p] = [pc |-> "commit", row |-> cred, scheme |-> new.scheme,
                     param |-> new.param,
                     secret |-> IF typed = "keep" THEN cred.secret ELSE Encrypted(new.scheme)]]
       /\ nonces' = IF typed = "keep" THEN nonces ELSE nonces + 1
    /\ UNCHANGED <<cred, key, tokens, fetch, time>>

\* The UPDATE writes the columns that differ from the row read; the table refuses
\* a name that does not go with the scheme, and a deleted row takes nothing (one
\* created since is another row).
CredentialCommit(p) ==
    /\ edit[p].pc = "commit"
    /\ LET e == edit[p]
           col(read, new, now) == IF new = read THEN now ELSE new
           row == IF cred = NoneYet THEN NoneYet
                  ELSE IF cred.id # e.row.id THEN NoneYet
                  ELSE [id |-> cred.id,
                        scheme |-> col(e.row.scheme, e.scheme, cred.scheme),
                        param |-> col(e.row.param, e.param, cred.param),
                        secret |-> col(e.row.secret, e.secret, cred.secret)]
       IN cred' = IF row = NoneYet THEN cred
                  ELSE IF ParamOk(row.scheme, row.param) THEN row ELSE cred
    /\ edit' = [edit EXCEPT ![p] = Free]
    /\ UNCHANGED <<nonces, key, tokens, fetch, time>>

DeleteCredential ==
    /\ cred # NoneYet /\ cred' = NoneYet
    /\ UNCHANGED <<nonces, key, tokens, edit, fetch, time>>

\* The operator changes JWT_SECRET: every process starts again.
RotateKey ==
    /\ key < MaxKeys /\ key' = key + 1
    /\ tokens' = [n \in 1..MaxNonce |-> NoneYet]
    /\ edit' = [p \in CredentialPatchers |-> Free] /\ fetch' = [f \in Fetchers |-> Free]
    /\ UNCHANGED <<cred, nonces, time>>

-----------------------------------------------------------------------------
(* A request to the provider *)

\* Mutant: the token is kept for the credential, whatever its secret.
TokenKeyOfId(row) == 1

\* The cache's key: the nonce changes with the secret.
TokenKey(row) == row.secret.nonce

Sent(row, token, reused) ==
    [pc |-> "sent", row |-> row, token |-> token, reused |-> reused, at |-> time]

\* A request of a provider that names the credential, however it ends, is done.
Refuse(f) == fetch' = [fetch EXCEPT ![f] = [pc |-> "refused"]]

\* _authorize, authorize: the row is read and decrypted; a static secret is sent
\* as it is, a login needs a token that is still good.
Authorize(f) ==
    /\ fetch[f].pc = "idle"
    /\ IF cred = NoneYet THEN Refuse(f)                      \* not found
       ELSE IF cred.secret.key # key THEN Refuse(f)          \* cannot be decrypted
       ELSE IF cred.scheme \notin NeedingLogin
            THEN fetch' = [fetch EXCEPT ![f] = Sent(cred, NoneYet, FALSE)]
       ELSE IF cred.secret.for # "login" THEN Refuse(f)      \* the login is unusable
       ELSE LET held == tokens[TokenKey(cred)] IN
            IF held # NoneYet /\ held.expiry > time
            THEN fetch' = [fetch EXCEPT ![f] = Sent(cred, held, TRUE)]
            ELSE fetch' = [fetch EXCEPT ![f] = [pc |-> "login", row |-> cred]]
    /\ UNCHANGED <<cred, nonces, key, tokens, edit, time>>

\* The portal gives a token ...
PortalMints(f, life) ==
    /\ fetch[f].pc = "login"
    /\ fetch' = [fetch EXCEPT ![f] = [pc |-> "minted", row |-> @.row,
                   token |-> [from |-> @.row.secret.nonce, born |-> time, life |-> life]]]
    /\ UNCHANGED <<cred, nonces, key, tokens, edit, time>>

\* max(ttl - margin, 0), counted from when the answer is read.
Expiry(life) == time + (IF life > Margin THEN life - Margin ELSE 0)

\* ... whose answer is kept and used.
LoginAnswered(f) ==
    /\ fetch[f].pc = "minted"
    /\ LET t == fetch[f].token
           held == [from |-> t.from, born |-> t.born, life |-> t.life, read |-> time,
                    expiry |-> Expiry(t.life)]
       IN /\ tokens' = [tokens EXCEPT ![TokenKey(fetch[f].row)] = held]
          /\ fetch' = [fetch EXCEPT ![f] = Sent(@.row, held, FALSE)]
    /\ UNCHANGED <<cred, nonces, key, edit, time>>

\* Refused, unreachable, or an answer without a token.
LoginFails(f) ==
    /\ fetch[f].pc \in {"login", "minted"} /\ Refuse(f)
    /\ UNCHANGED <<cred, nonces, key, tokens, edit, time>>

EndFetch(f) ==
    /\ fetch[f].pc \in {"sent", "refused"} /\ fetch' = [fetch EXCEPT ![f] = Free]
    /\ UNCHANGED <<cred, nonces, key, tokens, edit, time>>

CredNext ==
    \/ CredTick \/ DeleteCredential \/ RotateKey
    \/ \E s \in Schemes, n \in {"none", "k"}, t \in {"static", "login"} :
         CreateCredential(s, n, t)
    \/ \E p \in CredentialPatchers, s \in Schemes \cup {"keep"}, n \in {"none", "k", "keep"},
          t \in {"static", "login", "keep"} : PatchRead(p, s, n, t)
    \/ \E p \in CredentialPatchers : CredentialCommit(p)
    \/ \E f \in Fetchers : \/ Authorize(f) \/ LoginAnswered(f) \/ LoginFails(f) \/ EndFetch(f)
                           \/ \E life \in Lives : PortalMints(f, life)

CredSpec == CredInit /\ [][CredNext]_credVars

-----------------------------------------------------------------------------
(* Properties *)

\* The secret of the row was entered for the kind of scheme the row now has, and
\* the row's parameter goes with its scheme, after any run of edits made one after
\* the other: a login is never sent as a key, nor a key taken for a login.
SecretFitsScheme ==
    cred # NoneYet => cred.secret.for = Kind(cred.scheme) /\ ParamOk(cred.scheme, cred.param)

\* A token is sent only for the very login it was obtained with: none outlives a
\* change of the secret, also when the exchange was under way while it changed.
TokenOfThisLogin ==
    \A f \in Fetchers : (fetch[f].pc = "sent" /\ fetch[f].token # NoneYet) =>
        fetch[f].token.from = fetch[f].row.secret.nonce

\* By how much a token's answer was later than the margin allows for.
Late(token) ==
    IF token.read > token.born + Margin THEN token.read - token.born - Margin ELSE 0

\* A token taken from the cache is still alive at the portal, though its age is
\* counted from when the answer was read and not from when the portal made it; only
\* one whose answer took longer than the margin may be dead, for less time than it
\* was late.
ReusedTokenLives ==
    \A f \in Fetchers : (fetch[f].pc = "sent" /\ fetch[f].reused) =>
        fetch[f].at < fetch[f].token.born + fetch[f].token.life + Late(fetch[f].token)
=============================================================================
