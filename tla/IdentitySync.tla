----------------------------- MODULE IdentitySync -----------------------------
(***************************************************************************)
(* Who a request acts for: the users and organisations that are made and   *)
(* refreshed from the tokens of User Master (sync_identity), registration, *)
(* and the tenant that the transactions of the request are stamped with.   *)
(*                                                                         *)
(* Requests run concurrently, each in one transaction, which a conflict    *)
(* rolls back and starts anew.  An INSERT waits for a transaction that has *)
(* inserted the same key, an UPDATE for one that has changed the row.      *)
(***************************************************************************)
EXTENDS Naturals, FiniteSets

CONSTANTS
  Requests,
  Tokens,       \* see TokensOK
  Slugs, Ids, Emails,
  Populations,  \* the organisations and users there may be at the beginning
  Nobody,       \* no company, no tenant
  Platform      \* the slug "__platform__"

\* What a request brings: a token of User Master ("platform"), one of its own
\* ("native"), an address and a password, or nothing, in development; either
\* token may also come with the handshake of a socket.
TokensOK ==
  Tokens \subseteq [via : {"platform", "native", "register", "login", "dev", "socket", "native_socket"},
                    sub : Ids, company : Slugs \cup {Nobody}, email : Emails,
                    role : {"platform_admin", "company_admin", "user"}]

Rows == [id : Ids, email : Emails, org : Slugs, role : {"admin", "member"}, active : BOOLEAN]

\* Identities and addresses are unique, and a user has an organisation.
Unique(rows) == \A u, v \in rows : u.id = v.id \/ u.email = v.email => u = v
PopulationsOK ==
  \A p \in Populations :
    /\ p.orgs \subseteq Slugs /\ p.users \subseteq Rows
    /\ Unique(p.users)
    /\ \A u \in p.users : u.org \in p.orgs

ASSUME IdentityAssumption ==
  /\ TokensOK /\ PopulationsOK
  /\ Nobody \notin Slugs /\ Platform \in Slugs
  /\ \A t \in Tokens : t.via \in {"register", "dev"} => t.company \in Slugs

VARIABLES
  orgs, users,  \* committed
  token,        \* of each request
  at,           \* where it is
  mine,         \* the rows its transaction has written
  read,         \* the row of its user, as read
  who,          \* the user it acts for
  how,          \* "synced", "found" (not synced) or "made"
  tenant,       \* the context variable _current_org
  stamp         \* app.current_org of its transaction

\* One line for what a request is besides the rows it has written.
self == <<read, who, how>>
vars == <<orgs, users, token, at, mine, read, who, how, tenant, stamp>>

-----------------------------------------------------------------------------
Nothing == [orgs |-> {}, users |-> {}]
NoUser == {}

Slug(t) == IF t.company = Nobody THEN Platform ELSE t.company
Role(t) == IF t.role = "user" THEN "member" ELSE "admin"
Row(t, org, role) == [id |-> t.sub, email |-> t.email, org |-> org, role |-> role, active |-> TRUE]

ById(id) == { u \in users : u.id = id }
ByEmail(email) == { u \in users : u.email = email }

\* Another transaction holds the key, or the row.
OrgIsHeld(r, slug) == \E q \in Requests \ {r} : slug \in mine[q].orgs
RowIsHeld(r, id, emails) == \E q \in Requests \ {r} : \E u \in mine[q].users : u.id = id \/ u.email \in emails

Init ==
  /\ \E p \in Populations : orgs = p.orgs /\ users = p.users
  /\ token \in [Requests -> Tokens]
  /\ at = [r \in Requests |-> "arrive"]
  /\ mine = [r \in Requests |-> Nothing]
  /\ read = [r \in Requests |-> NoUser] /\ who = [r \in Requests |-> NoUser]
  /\ how = [r \in Requests |-> "found"]
  /\ tenant = [r \in Requests |-> Nobody] /\ stamp = [r \in Requests |-> Nobody]

Goto(r, to) == at' = [at EXCEPT ![r] = to]
Stays == UNCHANGED <<orgs, users, token>>

\* The first statement of a transaction stamps it.
Begins(r) == stamp' = [stamp EXCEPT ![r] = tenant[r]] /\ UNCHANGED tenant

\* IntegrityError: everything flushed goes, the organisation too.
RolledBackLate(r) == UNCHANGED mine /\ Begins(r)
RolledBack(r) == mine' = [mine EXCEPT ![r] = Nothing] /\ Begins(r)

\* get_current_user sets the tenant when the transaction is under way; the
\* handshake of a socket and the developer never do.
Admit(r, rows, manner) ==
  /\ Goto(r, "in")
  /\ who' = [who EXCEPT ![r] = rows]
  /\ how' = [how EXCEPT ![r] = manner]
  /\ tenant' = IF token[r].via \in {"platform", "native"}
               THEN [tenant EXCEPT ![r] = (CHOOSE u \in rows : TRUE).org] ELSE tenant
  /\ UNCHANGED read

-----------------------------------------------------------------------------
(* sync_identity, for a token of User Master.                              *)

Provisions(r) == token[r].via \in {"platform", "socket"}

\* A user without a company is only admitted as an administrator of the platform.
FindOrg(r) ==
  /\ at[r] = "arrive" /\ Provisions(r)
  /\ \/ /\ token[r].company = Nobody /\ token[r].role # "platform_admin"
        /\ Goto(r, "denied") /\ UNCHANGED <<tenant, stamp>>
     \/ /\ token[r].company # Nobody \/ token[r].role = "platform_admin"
        /\ Goto(r, IF Slug(token[r]) \in orgs THEN "user" ELSE "make_org")
        /\ Begins(r)
  /\ Stays /\ UNCHANGED <<mine, self>>

\* The row of a rival is fetched after a conflict.
MakeOrg(r) ==
  LET slug == Slug(token[r])
  IN /\ at[r] = "make_org" /\ ~OrgIsHeld(r, slug)
     /\ \/ slug \in orgs /\ RolledBack(r)
        \/ slug \notin orgs /\ mine' = [mine EXCEPT ![r].orgs = {slug}] /\ UNCHANGED <<tenant, stamp>>
     /\ Goto(r, "user")
     /\ Stays /\ UNCHANGED self

FindUser(r) ==
  LET rows == ById(token[r].sub)
  IN /\ at[r] = "user"
     /\ read' = [read EXCEPT ![r] = rows]
     /\ Goto(r, IF rows = NoUser THEN "make_user" ELSE "sync")
     /\ Stays /\ UNCHANGED <<mine, who, how, tenant, stamp>>

MakeUser(r) ==
  LET t == token[r]
  IN /\ at[r] = "make_user" /\ ~RowIsHeld(r, t.sub, {t.email})
     /\ Stays
     /\ \/ /\ ById(t.sub) \cup ByEmail(t.email) # NoUser
           /\ RolledBack(r) /\ Goto(r, "by_id") /\ UNCHANGED self
        \/ /\ ById(t.sub) \cup ByEmail(t.email) = NoUser
           /\ mine' = [mine EXCEPT ![r].users = {Row(t, Slug(t), Role(t))}]
           /\ Admit(r, {Row(t, Slug(t), Role(t))}, "synced") /\ UNCHANGED stamp

\* The columns that differ from the token in the row that was read are written.
Synced(r, u) ==
  LET t == token[r] old == CHOOSE v \in read[r] : TRUE
  IN [u EXCEPT !.role = IF old.role # Role(t) THEN Role(t) ELSE @,
               !.org = IF old.org # Slug(t) THEN Slug(t) ELSE @,
               !.active = IF old.active THEN @ ELSE TRUE]

UpToDateIfActive(r) == \A u \in read[r] : u.active
UpToDate(r) == \A u \in read[r] : u.role = Role(token[r]) /\ u.org = Slug(token[r]) /\ u.active

Sync(r) ==
  /\ at[r] = "sync"
  /\ Stays /\ UNCHANGED stamp
  /\ \/ /\ UpToDate(r)
        /\ Admit(r, read[r], "synced") /\ UNCHANGED mine
     \/ /\ ~UpToDate(r) /\ ~RowIsHeld(r, token[r].sub, {})
        /\ mine' = [mine EXCEPT ![r].users = { Synced(r, u) : u \in ById(token[r].sub) }]
        /\ Admit(r, { Synced(r, u) : u \in read[r] }, "synced")

\* After a conflict: the row of a rival, or the person under another identity,
\* as they are.
FetchById(r) ==
  LET rows == ById(token[r].sub)
  IN /\ at[r] = "by_id"
     /\ Stays /\ UNCHANGED <<mine, stamp>>
     /\ \/ rows # NoUser /\ Admit(r, rows, "found")
        \/ rows = NoUser /\ Goto(r, "by_email") /\ UNCHANGED <<self, tenant>>

FetchByEmail(r) ==
  LET rows == ByEmail(token[r].email)
  IN /\ at[r] = "by_email"
     /\ Stays /\ UNCHANGED <<mine, stamp>>
     /\ \/ rows # NoUser /\ Admit(r, rows, "found")
        \/ rows = NoUser /\ Goto(r, "unprovisioned") /\ UNCHANGED <<self, tenant>>

-----------------------------------------------------------------------------
(* The other ways in.                                                      *)

\* A native token or a login needs an active user; the organisation that is
\* named in the token is not looked at.
FindActive(r) ==
  LET t == token[r]
      rows == { u \in (IF t.via = "login" THEN ByEmail(t.email) ELSE ById(t.sub)) : u.active }
  IN /\ at[r] = "arrive" /\ t.via \in {"native", "native_socket", "login"}
     /\ Stays /\ UNCHANGED mine
     /\ stamp' = [stamp EXCEPT ![r] = tenant[r]]
     /\ \/ rows # NoUser /\ Admit(r, rows, "found")
        \/ /\ rows = NoUser \/ t.via = "login"  \* the wrong password
           /\ Goto(r, "denied") /\ UNCHANGED <<self, tenant>>

\* Registration makes an organisation and its first user, or neither.
RegisterOrg(r) ==
  LET t == token[r]
  IN /\ \/ at[r] = "arrive" /\ t.via = "register"
        \/ at[r] = "arrive" /\ t.via = "dev" /\ ByEmail(t.email) = NoUser
     /\ ~OrgIsHeld(r, t.company)
     /\ Stays /\ UNCHANGED self
     /\ \/ t.company \in orgs /\ RolledBack(r) /\ Goto(r, IF t.via = "dev" THEN "refetch" ELSE "denied")
        \/ /\ t.company \notin orgs
           /\ mine' = [mine EXCEPT ![r].orgs = {t.company}] /\ Begins(r) /\ Goto(r, "register_user")

RegisterUser(r) ==
  LET t == token[r]
  IN /\ at[r] = "register_user" /\ ~RowIsHeld(r, t.sub, {t.email})
     /\ Stays
     /\ \/ /\ ById(t.sub) \cup ByEmail(t.email) # NoUser
           /\ RolledBack(r) /\ Goto(r, IF t.via = "dev" THEN "refetch" ELSE "denied") /\ UNCHANGED self
        \/ /\ ById(t.sub) \cup ByEmail(t.email) = NoUser
           /\ mine' = [mine EXCEPT ![r].users = {Row(t, t.company, "admin")}]
           /\ UNCHANGED stamp
           /\ \/ t.via = "register" /\ Admit(r, {Row(t, t.company, "admin")}, "made")
              \/ t.via = "dev" /\ Goto(r, "commit_developer") /\ UNCHANGED <<self, tenant>>

\* _dev_bypass_user: the seeded developer, or the one a rival has just made.
FindDeveloper(r) ==
  LET rows == ByEmail(token[r].email)
  IN /\ token[r].via = "dev"
     /\ \/ at[r] = "arrive" /\ rows # NoUser
        \/ at[r] = "refetch"
     /\ Stays /\ UNCHANGED mine
     /\ stamp' = [stamp EXCEPT ![r] = tenant[r]]
     /\ \/ rows # NoUser /\ Admit(r, rows, "found")
        \/ rows = NoUser /\ Goto(r, "unprovisioned") /\ UNCHANGED <<self, tenant>>

-----------------------------------------------------------------------------
(* The handler, and the end of the transaction.                            *)

\* No transaction is left open, and nothing written is left uncommitted.
Ended == {"done", "denied", "failed", "unprovisioned"}

Writes(r) ==
  /\ orgs' = orgs \cup mine[r].orgs
  /\ users' = { u \in users : \A w \in mine[r].users : w.id # u.id } \cup mine[r].users
  /\ mine' = [mine EXCEPT ![r] = Nothing]
  /\ stamp' = [stamp EXCEPT ![r] = Nobody]
  /\ UNCHANGED <<token, tenant, self>>

Discards(r) ==
  /\ mine' = [mine EXCEPT ![r] = Nothing]
  /\ stamp' = [stamp EXCEPT ![r] = Nobody]
  /\ UNCHANGED <<token, tenant, self, orgs, users>>

\* Some handlers commit on their way, and go on with the next statement, in a
\* transaction that begins when the tenant is known.
Authenticated(r) == token[r].via \in {"platform", "native", "dev"}
CommitMidway(r) == at[r] = "in" /\ Authenticated(r) /\ Writes(r) /\ Goto(r, "between")
BeginAgain(r) ==
  /\ at[r] = "between" /\ Begins(r) /\ Goto(r, "again")
  /\ Stays /\ UNCHANGED <<mine, self>>

Commit(r) == at[r] \in {"in", "again"} /\ Writes(r) /\ Goto(r, "done")

\* The developer is committed before the request is handled.
CommitDeveloper(r) == at[r] = "commit_developer" /\ Writes(r) /\ Goto(r, "refetch")

\* The handler raises, or the connection is lost.
Fail(r) == at[r] \notin Ended /\ Discards(r) /\ Goto(r, "failed")

Identify(r) ==
  \/ FindOrg(r) \/ MakeOrg(r) \/ FindUser(r) \/ MakeUser(r) \/ Sync(r)
  \/ FetchById(r) \/ FetchByEmail(r)
  \/ FindActive(r) \/ RegisterOrg(r) \/ RegisterUser(r) \/ FindDeveloper(r) \/ CommitDeveloper(r)

Next == \E r \in Requests : Identify(r) \/ CommitMidway(r) \/ BeginAgain(r) \/ Commit(r) \/ Fail(r)

Spec == Init /\ [][Next]_vars

-----------------------------------------------------------------------------
Places == {"arrive", "make_org", "user", "make_user", "sync", "by_id", "by_email",
           "register_user", "refetch", "commit_developer", "in", "between", "again"} \cup Ended

\* The rows of users and organisations, and what each request knows, have the
\* values the code gives them; identities and addresses are unique.
IdentityTypeOK ==
  /\ orgs \subseteq Slugs /\ users \subseteq Rows
  /\ Unique(users)
  /\ token \in [Requests -> Tokens]
  /\ at \in [Requests -> Places]
  /\ mine \in [Requests -> [orgs : SUBSET Slugs, users : SUBSET Rows]]
  /\ read \in [Requests -> SUBSET Rows] /\ who \in [Requests -> SUBSET Rows]
  /\ how \in [Requests -> {"synced", "found", "made"}]
  /\ tenant \in [Requests -> Slugs \cup {Nobody}] /\ stamp \in [Requests -> Slugs \cup {Nobody}]

\* It was let in, and its handler is at work.
In(r) == at[r] \in {"in", "between", "again"}

\* Nobody acts for an organisation that a rollback has taken away: the user of
\* every request belongs to one that is committed or that its own transaction
\* has made (the rollbacks of _get_or_create_org and _get_or_create_user).
UsersHaveOrganisations ==
  /\ \A u \in users : u.org \in orgs
  /\ \A r \in Requests : In(r) => \A u \in who[r] : u.org \in orgs \cup mine[r].orgs

\* sync_identity always finds the row it was in conflict with: its
\* RuntimeError is never raised.
NeverUnprovisioned == \A r \in Requests : Provisions(r) => at[r] # "unprovisioned"

AsTheTokenSays(u, t) == u.id = t.sub /\ u.org = Slug(t) /\ u.role = Role(t) /\ u.active

\* A request with a token of User Master that synced acts as the user of the
\* token, for its company and in its role, however often the transaction was
\* begun anew.  One that was in conflict acts as a row it found, of the identity
\* or the address of its token, and for whatever company and in whatever role
\* the row has (get_current_user, sync_identity).
ActsAsItsToken ==
  \A r \in Requests : In(r) /\ Provisions(r) =>
    \E u \in who[r] : /\ u.id = token[r].sub \/ u.email = token[r].email
                      /\ how[r] = "synced" => AsTheTokenSays(u, token[r])

\* The tenant of a transaction is nobody, as in the first one of a request, or
\* the organisation of the user the request acts for, as in one that begins
\* after its handler has committed: not that of a rival, nor the one that the
\* user has been moved to since (shared/db.py, set_current_org).
StampIsOwn ==
  \A r \in Requests : stamp[r] # Nobody => \E u \in who[r] : u.org = stamp[r]

\* What the transactions of concurrent requests never break: who a request
\* acts for, and where, as the five conditions above say it.
IdentityInvariant ==
  /\ IdentityTypeOK
  /\ UsersHaveOrganisations
  /\ NeverUnprovisioned
  /\ ActsAsItsToken
  /\ StampIsOwn
=============================================================================
