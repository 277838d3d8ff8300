------------------------------- MODULE Accounts -------------------------------
(***************************************************************************)
(* User accounts: registration by mailed link, administrator's creation    *)
(* and edits, login, password reset and the first administrator            *)
(* (app/api/auth/routes.py, app/api/admin/users.py), and the signed        *)
(* tickets a request is let in with (app/auth/tokens.py, app/security.py). *)
(*                                                                         *)
(* A handler reads the database, hashes a password or checks one, and      *)
(* commits: two steps, and the handlers run on several threads. Passwords  *)
(* are told apart by who set them; mailed links by their number. Hours are *)
(* counted in the lives of links and tickets.                              *)
(***************************************************************************)
EXTENDS Naturals, FiniteSets

CONSTANTS
    Emails,
    Threads,       \* handlers under way at once
    LinkLife,      \* hours a mailed link is good for
    TicketLife,    \* JWT_TTL_SECONDS
    Administrator, \* the email of the account there is at first
    MaxLinks, MaxHours,
    MaxTickets,    \* tickets in browsers at once
    NoAccount

ASSUME AccountAssumption ==
    LinkLife \in Nat /\ TicketLife \in Nat /\ MaxLinks \in Nat /\ MaxHours \in Nat
        /\ MaxTickets \in Nat
        /\ Administrator \in Emails

VARIABLES
    account,   \* users, by email
    links,     \* verification_tokens and password_reset_tokens
    mailed,    \* links made so far
    tickets,   \* signed tickets in browsers
    handler,   \* each thread: idle, or what its handler has read
    hour

accountVars == <<account, links, mailed, tickets, handler, hour>>

Roles == {"platform_admin", "end_user"}
Idling == [pc |-> "idle"]

AccountInit ==
    /\ account = [e \in Emails |-> IF e = Administrator
                    THEN [role |-> "platform_admin", active |-> TRUE, password |-> 0]
                    ELSE NoAccount]
    /\ links = {} /\ mailed = 0 /\ tickets = {}
    /\ handler = [t \in Threads |-> Idling] /\ hour = 0

\* An hour passes; a ticket past its life is refused by decode_jwt.
HourPasses ==
    /\ hour < MaxHours /\ hour' = hour + 1
    /\ tickets' = {k \in tickets : k.born + TicketLife > hour + 1}
    /\ UNCHANGED <<account, links, mailed, handler>>

LinkExpired(l) == l.born + LinkLife <= hour

\* issue_jwt: signed with the account's role at that moment.
Ticket(e, role) == [email |-> e, role |-> role, born |-> hour]

-----------------------------------------------------------------------------
(* Links *)

\* _register_token: a new link replaces the address's earlier ones; none for an
\* address that has an account.
RegisterRequest(e) ==
    /\ mailed < MaxLinks /\ account[e] = NoAccount /\ mailed' = mailed + 1
    /\ links' = {l \in links : l.kind # "register" \/ l.email # e}
                 \cup {[kind |-> "register", email |-> e, n |-> mailed, born |-> hour]}
    /\ UNCHANGED <<account, tickets, handler, hour>>

\* _reset_token: for an active account only.
PasswordResetRequest(e) ==
    /\ mailed < MaxLinks /\ mailed' = mailed + 1
    /\ account[e] # NoAccount /\ account[e].active
    /\ links' = {l \in links : l.kind # "reset" \/ l.email # e}
                 \cup {[kind |-> "reset", email |-> e, n |-> mailed, born |-> hour]}
    /\ UNCHANGED <<account, tickets, handler, hour>>

-----------------------------------------------------------------------------
(* Handlers: what is read, then what is committed *)

Reads(t, h) ==
    /\ handler[t].pc = "idle" /\ handler' = [handler EXCEPT ![t] = h]
    /\ UNCHANGED <<account, links, mailed, tickets, hour>>

\* register_confirm: the link is looked up; then the password is hashed.
ConfirmReads(t, l) ==
    l \in links /\ l.kind = "register" /\ ~LinkExpired(l) /\ Reads(t, [pc |-> "confirm", link |-> l])

\* password_reset_confirm: the link and its account.
ResetReads(t, l) ==
    /\ l \in links /\ l.kind = "reset" /\ ~LinkExpired(l)
    /\ account[l.email].active
    /\ Reads(t, [pc |-> "reset", link |-> l])

MayLogIn(e) == account[e] # NoAccount /\ account[e].active

\* login: the account, its password and that it is active.
LoginReads(t, e) == account[e] # NoAccount /\ MayLogIn(e)
                    /\ Reads(t, [pc |-> "login", email |-> e, role |-> account[e].role])

\* create_user, by the holder of an administrator's ticket; the email is looked up.
CreateReads(t, k, e, role) ==
    /\ k \in tickets /\ k.role = "platform_admin" /\ account[e] = NoAccount
    /\ Reads(t, [pc |-> "create", email |-> e, role |-> role])

\* patch_user: another's role and activity, as read; never the own account's to
\* less than an administrator's.
PatchReads(t, k, e, role, active) ==
    /\ k \in tickets /\ k.role = "platform_admin" /\ account[e] # NoAccount
    /\ k.email = e => role = "platform_admin" /\ active
    /\ Reads(t, [pc |-> "patch", email |-> e, was |-> account[e], role |-> role,
                 active |-> active])

MayHold == Cardinality(tickets) < MaxTickets
Done(t) == handler' = [handler EXCEPT ![t] = Idling]

\* db.add: the address is unique, a second row is refused.
Added(e, new) == IF account[e] = NoAccount THEN new ELSE account[e]

NewAccount(role, n) == [role |-> role, active |-> TRUE, password |-> n]

ConfirmCommits(t) ==
    /\ handler[t].pc = "confirm" /\ MayHold
    /\ LET l == handler[t].link
           fresh == account[l.email] = NoAccount
       IN /\ account' = [account EXCEPT ![l.email] =
                           Added(l.email, NewAccount("end_user", l.n + 1))]
          /\ links' = IF fresh THEN links \ {l} ELSE links
          /\ tickets' = IF fresh THEN tickets \cup {Ticket(l.email, "end_user")} ELSE tickets
    /\ Done(t) /\ UNCHANGED <<mailed, hour>>

\* Only the password's column is written.
ResetRow(row, n) == [row EXCEPT !.password = n]

ResetCommits(t) ==
    /\ handler[t].pc = "reset"
    /\ LET l == handler[t].link IN
       /\ account' = [account EXCEPT ![l.email] = ResetRow(@, l.n + 1)]
       /\ links' = links \ {l}
    /\ Done(t) /\ UNCHANGED <<mailed, tickets, hour>>

LoginCommits(t) ==
    /\ handler[t].pc = "login" /\ MayHold
    /\ tickets' = tickets \cup {Ticket(handler[t].email, handler[t].role)}
    /\ Done(t) /\ UNCHANGED <<account, links, mailed, hour>>

CreateCommits(t) ==
    /\ handler[t].pc = "create"
    /\ account' = [account EXCEPT ![handler[t].email] =
                     Added(handler[t].email, NewAccount(handler[t].role, 0))]
    /\ Done(t) /\ UNCHANGED <<links, mailed, tickets, hour>>

\* The columns that differ from the row read are written.
EditedRow(row, h) ==
    [row EXCEPT !.role = IF h.role # h.was.role THEN h.role ELSE @,
                !.active = IF h.active # h.was.active THEN h.active ELSE @]

PatchCommits(t) ==
    /\ handler[t].pc = "patch"
    /\ account' = [account EXCEPT ![handler[t].email] = EditedRow(@, handler[t])]
    /\ Done(t) /\ UNCHANGED <<links, mailed, tickets, hour>>

\* bootstrap_platform_user: while no account is an administrator's.
BootstrapReads(t, e) ==
    /\ \A f \in Emails : account[f] = NoAccount \/ account[f].role # "platform_admin"
    /\ Reads(t, [pc |-> "create", email |-> e, role |-> "platform_admin"])

\* logout: the browser forgets its ticket.
Logout(k) ==
    /\ k \in tickets /\ tickets' = tickets \ {k}
    /\ UNCHANGED <<account, links, mailed, handler, hour>>

AccountNext ==
    \/ HourPasses
    \/ \E e \in Emails : RegisterRequest(e) \/ PasswordResetRequest(e)
    \/ \E k \in tickets : Logout(k)
    \/ \E t \in Threads :
         \/ \E l \in links : ConfirmReads(t, l) \/ ResetReads(t, l)
         \/ \E e \in Emails : LoginReads(t, e) \/ BootstrapReads(t, e)
         \/ \E k \in tickets, e \in Emails, r \in Roles :
              \/ CreateReads(t, k, e, r)
              \/ \E a \in BOOLEAN : PatchReads(t, k, e, r, a)
         \/ ConfirmCommits(t) \/ ResetCommits(t) \/ LoginCommits(t)
         \/ CreateCommits(t) \/ PatchCommits(t)

AccountSpec == AccountInit /\ [][AccountNext]_accountVars

-----------------------------------------------------------------------------
(* Properties *)

\* An account that exists is changed by an administrator's edit or by its own
\* password reset alone: a registration or a creation that looked the address up
\* before the account came never replaces it.
NotReplaced ==
    [][\A e \in Emails : (account[e] # NoAccount /\ account'[e] # account[e]) =>
        \/ account'[e] = [account[e] EXCEPT !.password = account'[e].password]
           /\ \E t \in Threads : handler[t].pc = "reset" /\ handler[t].link.email = e
        \/ \E t \in Threads : handler[t].pc = "patch" /\ handler[t].email = e
             /\ account'[e].password = account[e].password]_accountVars

\* A disabled account opens again by an administrator's edit alone, and no login
\* that finds it disabled gives a ticket.
DisabledStaysOut ==
    [][\A e \in Emails : (account[e] # NoAccount /\ ~account[e].active) =>
        /\ account'[e].active => \E t \in Threads : handler[t].pc = "patch"
        /\ \A t \in Threads : (handler[t].pc = "idle" /\ handler'[t].pc = "login")
                                => handler'[t].email # e]_accountVars
=============================================================================
