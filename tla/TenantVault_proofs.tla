------------------------- MODULE TenantVault_proofs --------------------------
(***************************************************************************)
(* Proofs about IdentitySync and TenantVault, for any tokens, any users    *)
(* and credentials, and any number of concurrent requests and callbacks.   *)
(*                                                                         *)
(* The identities come first, in the invariant IdentityIInv: a step of the *)
(* credentials is a step of the identities or none (VaultStepIsStep).      *)
(* A step of a request changes what the request has, and the committed     *)
(* rows only when its transaction commits.  So the invariant is one        *)
(* predicate of each request beside the committed rows (Sound), and one of *)
(* two requests (Apart): the rows that two open transactions have written  *)
(* share no identity and no address.                                       *)
(***************************************************************************)
EXTENDS TenantVault, FiniteSetTheorems, TLAPS

LocalTypeOK(r) ==
  /\ at[r] \in Places
  /\ mine[r] \in [orgs : SUBSET Slugs, users : SUBSET Rows]
  /\ read[r] \in SUBSET Rows /\ who[r] \in SUBSET Rows
  /\ how[r] \in {"synced", "found", "made"}
  /\ tenant[r] \in Slugs \cup {Nobody}
  /\ stamp[r] # Nobody => stamp[r] = tenant[r] /\ at[r] = "again"

\* What a transaction has written is one row, of an organisation that is
\* there, and either new or a row that keeps its identity and its address.
WritesSoundly(r) ==
  /\ \A v, w \in mine[r].users : v = w
  /\ \A w \in mine[r].users : w.org \in orgs \cup mine[r].orgs
  /\ \A w \in mine[r].users, u \in users : u.id = w.id <=> u.email = w.email

\* What the place of a request says of what it has found.
PlaceOK(r) ==
  LET t == token[r]
  IN /\ at[r] \in {"make_org", "user", "make_user", "sync", "by_id", "by_email"} => Provisions(r)
     /\ at[r] \in {"user", "make_user", "sync"} => Slug(t) \in orgs \cup mine[r].orgs
     /\ at[r] = "register_user" => t.company \in mine[r].orgs
     /\ at[r] \in {"register_user", "refetch", "commit_developer"} => ~Provisions(r)
     /\ at[r] = "sync" => /\ read[r] # {}
                          /\ \A u, v \in read[r] : u = v
                          /\ \A u \in read[r] : u.id = t.sub
     /\ at[r] = "by_id" => \E u \in users : u.id = t.sub \/ u.email = t.email
     /\ at[r] = "by_email" => \E u \in users : u.email = t.email
     /\ at[r] \notin {"in", "commit_developer"} => mine[r].users = {}
     /\ tenant[r] # Nobody => In(r) \/ at[r] \in Ended

IsAdmitted(r) ==
  /\ \A u \in read[r] : u.org \in orgs
  /\ In(r) => /\ who[r] # {} /\ \A u, v \in who[r] : u = v
              /\ \A u \in who[r] : u.org \in orgs \cup mine[r].orgs
  /\ In(r) /\ Provisions(r) =>
       \E u \in who[r] : /\ u.id = token[r].sub \/ u.email = token[r].email
                         /\ how[r] = "synced" => AsTheTokenSays(u, token[r])
  /\ tenant[r] # Nobody => \E u \in who[r] : u.org = tenant[r]
  /\ Provisions(r) => at[r] # "unprovisioned"

Sound(r) == LocalTypeOK(r) /\ WritesSoundly(r) /\ PlaceOK(r) /\ IsAdmitted(r)

Apart(r, q) == \A v \in mine[r].users, w \in mine[q].users : v.id # w.id /\ v.email # w.email

Committed ==
  /\ orgs \subseteq Slugs /\ users \subseteq Rows
  /\ Unique(users)
  /\ \A u \in users : u.org \in orgs

Functions ==
  /\ token \in [Requests -> Tokens]
  /\ at = [r \in Requests |-> at[r]] /\ mine = [r \in Requests |-> mine[r]]
  /\ read = [r \in Requests |-> read[r]] /\ who = [r \in Requests |-> who[r]]
  /\ how = [r \in Requests |-> how[r]]
  /\ tenant = [r \in Requests |-> tenant[r]] /\ stamp = [r \in Requests |-> stamp[r]]

IdentityIInv ==
  /\ Committed
  /\ Functions
  /\ \A r \in Requests : Sound(r)
  /\ \A r, q \in Requests : r # q => Apart(r, q)

-----------------------------------------------------------------------------
\* What a step of r does not touch.
OthersKeep(r) ==
  \A q \in Requests \ {r} :
    /\ at'[q] = at[q] /\ mine'[q] = mine[q] /\ read'[q] = read[q] /\ who'[q] = who[q]
    /\ how'[q] = how[q] /\ tenant'[q] = tenant[q] /\ stamp'[q] = stamp[q]

LEMMA TokenTypes ==
  ASSUME NEW t \in Tokens
  PROVE  /\ t.sub \in Ids /\ t.email \in Emails /\ t.company \in Slugs \cup {Nobody}
         /\ Slug(t) \in Slugs
         /\ Role(t) \in {"admin", "member"}
         /\ Row(t, Slug(t), Role(t)) \in Rows
         /\ t.via \in {"register", "dev"} => t.company \in Slugs /\ Row(t, t.company, "admin") \in Rows
  BY IdentityAssumption DEF TokensOK, Slug, Role, Row, Rows

\* A step within the transaction of r keeps the invariant if r stays sound and
\* what r has written stays apart from what the others have.
LEMMA LocalStep ==
  ASSUME IdentityIInv, NEW r \in Requests,
         UNCHANGED <<orgs, users, token>>, Functions', OthersKeep(r),
         Sound(r)', \A q \in Requests \ {r} : Apart(r, q)'
  PROVE  IdentityIInv'
<1>1. Committed'  BY DEF IdentityIInv, Committed, Unique
<1>2. ASSUME NEW q \in Requests PROVE Sound(q)'
  <2>1. CASE q = r  BY <2>1
  <2>2. CASE q # r
    <3>1. Sound(q)  BY DEF IdentityIInv
    <3>2. LocalTypeOK(q)'  BY <2>2, <3>1 DEF Sound, LocalTypeOK, OthersKeep
    <3>3. WritesSoundly(q)'  BY <2>2, <3>1 DEF Sound, WritesSoundly, OthersKeep
    <3>4. PlaceOK(q)'  BY <2>2, <3>1 DEF Sound, PlaceOK, OthersKeep, Provisions, Slug, In
    <3>5. IsAdmitted(q)'  BY <2>2, <3>1 DEF Sound, IsAdmitted, OthersKeep, Provisions, In
    <3> QED  BY <3>2, <3>3, <3>4, <3>5 DEF Sound
  <2> QED  BY <2>1, <2>2
<1>3. ASSUME NEW p \in Requests, NEW q \in Requests, p # q PROVE Apart(p, q)'
  <2>1. CASE p = r  BY <2>1, <1>3
  <2>2. CASE q = r  BY <2>2, <1>3 DEF Apart
  <2>3. CASE p # r /\ q # r  BY <2>3, <1>3 DEF Apart, IdentityIInv, OthersKeep
  <2> QED  BY <2>1, <2>2, <2>3
<1> QED  BY <1>1, <1>2, <1>3 DEF IdentityIInv
-----------------------------------------------------------------------------
LEMMA FindOrgStep ==
  ASSUME IdentityIInv, NEW r \in Requests, FindOrg(r)
  PROVE  IdentityIInv'
<1> USE DEF FindOrg, Goto, Begins, Stays, self
<1>1. token[r] \in Tokens /\ Sound(r)  BY DEF IdentityIInv, Functions
<1>2. Functions' /\ OthersKeep(r)  BY DEF IdentityIInv, Functions, OthersKeep
<1>3. \A q \in Requests \ {r} : Apart(r, q)'  BY DEF IdentityIInv, Functions, Apart
<1>4. /\ at'[r] \in {"denied", "user", "make_org"} /\ mine'[r] = mine[r] /\ read'[r] = read[r]
      /\ who'[r] = who[r] /\ how'[r] = how[r] /\ tenant'[r] = tenant[r] /\ stamp'[r] = Nobody
      /\ at'[r] = "user" => Slug(token[r]) \in orgs
      /\ Provisions(r) /\ at[r] = "arrive"
      /\ UNCHANGED <<orgs, users, token>>
  BY <1>1 DEF IdentityIInv, Functions, Sound, LocalTypeOK, PlaceOK, In, Ended
<1> HIDE DEF FindOrg, Goto, Begins, Stays, self
<1>5. Sound(r)'
  <2>1. LocalTypeOK(r)'  BY <1>1, <1>4 DEF Sound, LocalTypeOK, Places, Ended
  <2>2. WritesSoundly(r)'  BY <1>1, <1>4 DEF Sound, WritesSoundly
  <2>3. PlaceOK(r)'  BY <1>1, <1>4 DEF Sound, PlaceOK, Provisions, Slug, In, Ended
  <2>4. IsAdmitted(r)'  BY <1>1, <1>4 DEF Sound, IsAdmitted, Provisions, In
  <2> QED  BY <2>1, <2>2, <2>3, <2>4 DEF Sound
<1> QED  BY <1>2, <1>3, <1>4, <1>5, LocalStep
LEMMA MakeOrgStep ==
  ASSUME IdentityIInv, NEW r \in Requests, MakeOrg(r)
  PROVE  IdentityIInv'
<1> USE DEF MakeOrg, RolledBack, Goto, Begins, Stays, self, Nothing
<1>1. token[r] \in Tokens /\ Slug(token[r]) \in Slugs /\ Sound(r)
  BY TokenTypes DEF IdentityIInv, Functions
<1>2. Functions' /\ OthersKeep(r)  BY DEF IdentityIInv, Functions, OthersKeep
<1>3. /\ mine[r].users = {} /\ mine'[r].users = {} /\ mine'[r] \in [orgs : SUBSET Slugs, users : SUBSET Rows]
      /\ Slug(token[r]) \in orgs \cup mine'[r].orgs
  BY <1>1 DEF IdentityIInv, Functions, Sound, LocalTypeOK, PlaceOK
<1>4. /\ at[r] = "make_org" /\ at'[r] = "user" /\ read'[r] = read[r]
      /\ who'[r] = who[r] /\ how'[r] = how[r] /\ tenant'[r] = tenant[r] /\ stamp'[r] = Nobody
      /\ UNCHANGED <<orgs, users, token>>
  BY <1>1 DEF IdentityIInv, Functions, Sound, LocalTypeOK, PlaceOK, In, Ended
<1>5. \A q \in Requests \ {r} : Apart(r, q)'  BY <1>3 DEF Apart
<1> HIDE DEF MakeOrg, RolledBack, Goto, Begins, Stays, self, Nothing
<1>6. Sound(r)'
  <2>1. LocalTypeOK(r)'  BY <1>1, <1>3, <1>4 DEF Sound, LocalTypeOK, Places, Ended
  <2>2. WritesSoundly(r)'  BY <1>3 DEF WritesSoundly
  <2>3. PlaceOK(r)'  BY <1>1, <1>3, <1>4 DEF Sound, PlaceOK, Provisions, Slug, In, Ended
  <2>4. IsAdmitted(r)'  BY <1>1, <1>4 DEF Sound, IsAdmitted, Provisions, In
  <2> QED  BY <2>1, <2>2, <2>3, <2>4 DEF Sound
<1> QED  BY <1>2, <1>4, <1>5, <1>6, LocalStep

LEMMA FindUserStep ==
  ASSUME IdentityIInv, NEW r \in Requests, FindUser(r)
  PROVE  IdentityIInv'
<1> USE DEF FindUser, Goto, Stays, NoUser
<1>1. token[r] \in Tokens /\ Sound(r)  BY DEF IdentityIInv, Functions
<1>2. Functions' /\ OthersKeep(r)  BY DEF IdentityIInv, Functions, OthersKeep
<1>3. \A q \in Requests \ {r} : Apart(r, q)'  BY DEF IdentityIInv, Functions, Apart
<1>4. /\ at[r] = "user" /\ mine'[r] = mine[r] /\ read'[r] = ById(token[r].sub)
      /\ at'[r] \in {"make_user", "sync"} /\ (at'[r] = "sync" => ById(token[r].sub) # {})
      /\ who'[r] = who[r] /\ how'[r] = how[r] /\ tenant'[r] = tenant[r] /\ stamp'[r] = stamp[r]
      /\ UNCHANGED <<orgs, users, token>>
  BY DEF IdentityIInv, Functions
<1>5. /\ ById(token[r].sub) \in SUBSET Rows
      /\ \A u, v \in ById(token[r].sub) : u = v
      /\ \A u \in ById(token[r].sub) : u.id = token[r].sub /\ u.org \in orgs
  BY DEF IdentityIInv, Committed, Unique, ById
<1> HIDE DEF FindUser, Goto, Stays, NoUser
<1>6. Sound(r)'
  <2>1. LocalTypeOK(r)'  BY <1>1, <1>4, <1>5 DEF Sound, LocalTypeOK, Places, Ended
  <2>2. WritesSoundly(r)'  BY <1>1, <1>4 DEF Sound, WritesSoundly
  <2>3. PlaceOK(r)'  BY <1>1, <1>4, <1>5 DEF Sound, PlaceOK, Provisions, Slug, In, Ended
  <2>4. IsAdmitted(r)'  BY <1>1, <1>4, <1>5 DEF Sound, IsAdmitted, Provisions, In
  <2> QED  BY <2>1, <2>2, <2>3, <2>4 DEF Sound
<1> QED  BY <1>2, <1>3, <1>4, <1>6, LocalStep

-----------------------------------------------------------------------------
\* A request that is admitted acts for the rows it was admitted with; its
\* organisation becomes the tenant of the transactions that follow.
LEMMA Admits ==
  ASSUME IdentityIInv, NEW r \in Requests, NEW rows \in SUBSET Rows, rows # {},
         NEW manner \in {"synced", "found", "made"}, Admit(r, rows, manner), tenant[r] = Nobody
  PROVE  /\ at'[r] = "in" /\ who'[r] = rows /\ how'[r] = manner /\ read'[r] = read[r]
         /\ tenant'[r] \in Slugs \cup {Nobody}
         /\ tenant'[r] # Nobody => \E u \in rows : u.org = tenant'[r]
         /\ at' = [q \in Requests |-> at'[q]] /\ who' = [q \in Requests |-> who'[q]]
         /\ how' = [q \in Requests |-> how'[q]] /\ tenant' = [q \in Requests |-> tenant'[q]]
         /\ read' = [q \in Requests |-> read'[q]]
         /\ \A q \in Requests \ {r} : /\ at'[q] = at[q] /\ who'[q] = who[q] /\ how'[q] = how[q]
                                      /\ tenant'[q] = tenant[q] /\ read'[q] = read[q]
<1>1. Functions /\ Sound(r)  BY DEF IdentityIInv
<1>2. (CHOOSE u \in rows : TRUE) \in rows  OBVIOUS
<1>3. (CHOOSE u \in rows : TRUE).org \in Slugs  BY <1>2 DEF Rows
<1>4. tenant[r] \in Slugs \cup {Nobody}  BY <1>1 DEF Sound, LocalTypeOK
<1> QED  BY <1>1, <1>3, <1>4 DEF Functions, Admit, Goto

\* The admission of a request keeps the invariant when the rows it acts for are
\* rows of organisations that are there, and the right ones for its token.
LEMMA AdmitStep ==
  ASSUME IdentityIInv, NEW r \in Requests, NEW rows \in SUBSET Rows, rows # {},
         NEW manner \in {"synced", "found", "made"}, Admit(r, rows, manner), tenant[r] = Nobody,
         UNCHANGED <<orgs, users, token>>,
         mine' = [q \in Requests |-> mine'[q]], \A q \in Requests \ {r} : mine'[q] = mine[q],
         stamp' = [q \in Requests |-> stamp'[q]], \A q \in Requests \ {r} : stamp'[q] = stamp[q],
         stamp'[r] = Nobody,
         mine'[r] \in [orgs : SUBSET Slugs, users : SUBSET Rows],
         WritesSoundly(r)', \A q \in Requests \ {r} : Apart(r, q)',
         \A u, v \in rows : u = v,
         \A u \in rows : u.org \in orgs \cup mine'[r].orgs,
         Provisions(r) => \E u \in rows :
           /\ u.id = token[r].sub \/ u.email = token[r].email
           /\ manner = "synced" => AsTheTokenSays(u, token[r])
  PROVE  IdentityIInv'
<1>1. Functions /\ Sound(r)  BY DEF IdentityIInv
<1>2. /\ at'[r] = "in" /\ who'[r] = rows /\ how'[r] = manner /\ read'[r] = read[r]
      /\ tenant'[r] \in Slugs \cup {Nobody}
      /\ tenant'[r] # Nobody => \E u \in rows : u.org = tenant'[r]
  BY Admits
<1>3. Functions' /\ OthersKeep(r)  BY <1>1, Admits DEF Functions, OthersKeep
<1>4. Sound(r)'
  <2>1. LocalTypeOK(r)'  BY <1>1, <1>2 DEF Sound, LocalTypeOK, Places
  <2>2. PlaceOK(r)'  BY <1>1, <1>2 DEF PlaceOK, In, Ended
  <2>3. IsAdmitted(r)'  BY <1>1, <1>2 DEF Sound, IsAdmitted, Provisions, In
  <2> QED  BY <2>1, <2>2, <2>3 DEF Sound
<1> QED  BY <1>3, <1>4, LocalStep
\* A request that goes on without writing, and is not admitted, keeps the
\* invariant when what its new place says of it is so.
LEMMA MoveStep ==
  ASSUME IdentityIInv, NEW r \in Requests,
         NEW to \in Places \ {"in", "between", "again"}, at' = [at EXCEPT ![r] = to],
         UNCHANGED <<orgs, users, token, read, who, how, tenant>>,
         mine' = [q \in Requests |-> mine'[q]], \A q \in Requests \ {r} : mine'[q] = mine[q],
         stamp' = [q \in Requests |-> stamp'[q]], \A q \in Requests \ {r} : stamp'[q] = stamp[q],
         stamp'[r] = Nobody,
         \/ mine'[r] = mine[r]
         \/ mine'[r].users = {} /\ mine'[r] \in [orgs : SUBSET Slugs, users : SUBSET Rows],
         to # "unprovisioned" \/ ~Provisions(r),
         PlaceOK(r)'
  PROVE  IdentityIInv'
<1>1. Functions /\ Sound(r)  BY DEF IdentityIInv
<1>2. Functions' /\ OthersKeep(r)  BY <1>1 DEF Functions, OthersKeep
<1>3. /\ at'[r] = to /\ read'[r] = read[r] /\ who'[r] = who[r] /\ how'[r] = how[r]
      /\ tenant'[r] = tenant[r]
  BY <1>1 DEF Functions
<1>4. \A q \in Requests \ {r} : Apart(r, q)'  BY DEF IdentityIInv, Apart
<1>5. Sound(r)'
  <2>1. LocalTypeOK(r)'  BY <1>1, <1>3 DEF Sound, LocalTypeOK, Places
  <2>2. WritesSoundly(r)'  BY <1>1, <1>3 DEF Sound, WritesSoundly
  <2>3. IsAdmitted(r)'  BY <1>1, <1>3 DEF Sound, IsAdmitted, Provisions, In
  <2> QED  BY <2>1, <2>2, <2>3 DEF Sound
<1> QED  BY <1>2, <1>4, <1>5, LocalStep

\* The rows that are committed, by identity and by address.
LEMMA FoundRows ==
  ASSUME IdentityIInv, NEW id, NEW email
  PROVE  /\ ById(id) \in SUBSET Rows /\ ByEmail(email) \in SUBSET Rows
         /\ \A u \in ById(id) \cup ByEmail(email) : u.org \in orgs /\ u \in users
         /\ \A u \in ById(id) : u.id = id
         /\ \A u \in ByEmail(email) : u.email = email
         /\ \A u, v \in ById(id) : u = v
         /\ \A u, v \in ByEmail(email) : u = v
  BY DEF IdentityIInv, Committed, Unique, ById, ByEmail

LEMMA MakeUserStep ==
  ASSUME IdentityIInv, NEW r \in Requests, MakeUser(r)
  PROVE  IdentityIInv'
<1> DEFINE t == token[r]
           found == ById(t.sub) \cup ByEmail(t.email)
           row == Row(t, Slug(t), Role(t))
<1>1. /\ t \in Tokens /\ Sound(r) /\ Functions
      /\ row \in Rows /\ row.org = Slug(t) /\ row.id = t.sub /\ row.email = t.email
      /\ AsTheTokenSays(row, t)
      /\ Slug(t) \in Slugs
  BY TokenTypes DEF IdentityIInv, Functions, Row, AsTheTokenSays
<1>2. /\ UNCHANGED <<orgs, users, token>>
      /\ at[r] = "make_user" /\ Provisions(r) /\ tenant[r] = Nobody /\ stamp[r] = Nobody
      /\ mine[r].users = {} /\ Slug(t) \in orgs \cup mine[r].orgs
      /\ mine[r] \in [orgs : SUBSET Slugs, users : SUBSET Rows]
      /\ ~RowIsHeld(r, t.sub, {t.email})
  BY <1>1 DEF MakeUser, Stays, Sound, LocalTypeOK, PlaceOK, In, Ended
<1>3. CASE found # {} /\ RolledBack(r) /\ Goto(r, "by_id") /\ UNCHANGED self
  <2>1. mine'[r] = Nothing /\ stamp'[r] = Nobody
    BY <1>1, <1>2, <1>3 DEF RolledBack, Begins, Functions
  <2>2. mine'[r].users = {} /\ mine'[r] \in [orgs : SUBSET Slugs, users : SUBSET Rows]
    BY <2>1 DEF Nothing
  <2>3. at'[r] = "by_id" /\ tenant'[r] = Nobody
    BY <1>1, <1>2, <1>3 DEF Goto, Functions, RolledBack, Begins
  <2>4. \E u \in users : u.id = t.sub \/ u.email = t.email
    BY <1>3 DEF ById, ByEmail
  <2>5. PlaceOK(r)'  BY <1>2, <2>2, <2>3, <2>4 DEF PlaceOK, Provisions
  <2>6. "by_id" \in Places \ {"in", "between", "again"}  BY DEF Places
  <2> QED
    BY <1>1, <1>2, <1>3, <2>1, <2>2, <2>5, <2>6, MoveStep DEF RolledBack, Begins, Goto, Functions, self
<1>4. CASE /\ found = {} /\ mine' = [mine EXCEPT ![r].users = {row}]
           /\ Admit(r, {row}, "synced") /\ UNCHANGED stamp
  <2>1. /\ mine'[r].users = {row} /\ mine'[r].orgs = mine[r].orgs
        /\ mine'[r] \in [orgs : SUBSET Slugs, users : SUBSET Rows]
        /\ mine' = [q \in Requests |-> mine'[q]] /\ \A q \in Requests \ {r} : mine'[q] = mine[q]
    BY <1>1, <1>2, <1>4 DEF Functions
  <2>2. \A u \in users : u.id # t.sub /\ u.email # t.email
    BY <1>4 DEF ById, ByEmail
  <2>3. WritesSoundly(r)'  BY <1>1, <1>2, <2>1, <2>2 DEF WritesSoundly
  <2>4. \A q \in Requests \ {r} : Apart(r, q)'
    BY <1>1, <1>2, <2>1 DEF Apart, RowIsHeld
  <2> DEFINE rows == {row}
  <2>5. /\ rows \in SUBSET Rows /\ rows # {} /\ \A u, v \in rows : u = v
        /\ \A u \in rows : u.org \in orgs \cup mine'[r].orgs
        /\ \E u \in rows : u.id = t.sub /\ AsTheTokenSays(u, t)
    BY <1>1, <1>2, <2>1
  <2>6. Admit(r, rows, "synced") /\ UNCHANGED stamp  BY <1>4
  <2> HIDE DEF rows
  <2> QED
    BY <1>1, <1>2, <2>1, <2>3, <2>4, <2>5, <2>6, AdmitStep DEF Functions
<1> QED  BY <1>3, <1>4 DEF MakeUser, NoUser

LEMMA SyncStep ==
  ASSUME IdentityIInv, NEW r \in Requests, Sync(r)
  PROVE  IdentityIInv'
<1> DEFINE t == token[r]
<1>1. /\ t \in Tokens /\ Sound(r) /\ Functions /\ Slug(t) \in Slugs /\ Role(t) \in {"admin", "member"}
  BY TokenTypes DEF IdentityIInv, Functions
<1>2. /\ UNCHANGED <<orgs, users, token, stamp>>
      /\ at[r] = "sync" /\ Provisions(r) /\ stamp[r] = Nobody /\ tenant[r] = Nobody
      /\ mine[r].users = {} /\ Slug(t) \in orgs \cup mine[r].orgs
      /\ mine[r] \in [orgs : SUBSET Slugs, users : SUBSET Rows]
      /\ read[r] \in SUBSET Rows /\ read[r] # {}
      /\ \A u, v \in read[r] : u = v
      /\ \A u \in read[r] : u.id = t.sub /\ u.org \in orgs
  BY <1>1 DEF Sync, Stays, Sound, LocalTypeOK, PlaceOK, IsAdmitted, In, Ended
<1>5. /\ ById(t.sub) \in SUBSET Rows /\ \A u, v \in ById(t.sub) : u = v
      /\ \A u \in ById(t.sub) : u.id = t.sub /\ u.org \in orgs /\ u \in users
  BY FoundRows
<1>3. CASE UpToDate(r) /\ Admit(r, read[r], "synced") /\ UNCHANGED mine
  <2>1. \A u \in read[r] : AsTheTokenSays(u, t)  BY <1>2, <1>3 DEF UpToDate, AsTheTokenSays
  <2>2. WritesSoundly(r)' /\ \A q \in Requests \ {r} : Apart(r, q)'
    BY <1>1, <1>2, <1>3 DEF Sound, WritesSoundly, Apart
  <2> QED  BY <1>1, <1>2, <1>3, <2>1, <2>2, AdmitStep DEF Functions
<1>4. CASE /\ ~UpToDate(r) /\ ~RowIsHeld(r, t.sub, {})
           /\ mine' = [mine EXCEPT ![r].users = { Synced(r, u) : u \in ById(t.sub) }]
           /\ Admit(r, { Synced(r, u) : u \in read[r] }, "synced")
  <2> DEFINE old == CHOOSE v \in read[r] : TRUE
             rows == { Synced(r, u) : u \in read[r] }
  <2> HIDE DEF old, rows
  <2>1. old \in read[r] /\ \A u \in read[r] : u = old
    BY <1>2 DEF old
  <2>2. ASSUME NEW u \in Rows
        PROVE  /\ Synced(r, u) \in Rows
               /\ Synced(r, u).id = u.id /\ Synced(r, u).email = u.email
               /\ Synced(r, u).org = IF old.org # Slug(t) THEN Slug(t) ELSE u.org
               /\ u = old => Synced(r, u).role = Role(t) /\ Synced(r, u).active
    <3>1. Synced(r, u) = [u EXCEPT !.role = IF old.role # Role(t) THEN Role(t) ELSE u.role,
                                   !.org = IF old.org # Slug(t) THEN Slug(t) ELSE u.org,
                                   !.active = IF old.active THEN u.active ELSE TRUE]
      BY DEF Synced, old
    <3>2. CASE old.active  BY <1>1, <3>1, <3>2 DEF Rows
    <3>3. CASE ~old.active  BY <1>1, <3>1, <3>3 DEF Rows
    <3> QED  BY <3>2, <3>3
  <2>3. /\ rows \in SUBSET Rows /\ rows # {} /\ \A v, w \in rows : v = w
        /\ \A w \in rows : w.id = t.sub /\ w.org = Slug(t) /\ AsTheTokenSays(w, t)
    <3>1. ASSUME NEW u \in read[r]
          PROVE  /\ Synced(r, u) \in Rows
                 /\ Synced(r, u).id = t.sub /\ Synced(r, u).org = Slug(t) /\ AsTheTokenSays(Synced(r, u), t)
      <4>1. u \in Rows /\ u = old /\ u.id = t.sub  BY <1>2, <2>1
      <4> QED  BY <4>1, <2>2 DEF AsTheTokenSays
    <3>2. \A v, w \in rows : v = w  BY <2>1 DEF rows
    <3> QED  BY <1>2, <3>1, <3>2 DEF rows
  <2>4. /\ mine'[r].users = { Synced(r, u) : u \in ById(t.sub) } /\ mine'[r].orgs = mine[r].orgs
        /\ mine'[r] \in [orgs : SUBSET Slugs, users : SUBSET Rows]
        /\ mine' = [q \in Requests |-> mine'[q]] /\ \A q \in Requests \ {r} : mine'[q] = mine[q]
    <3>1. { Synced(r, u) : u \in ById(t.sub) } \subseteq Rows  BY <2>2, <1>5
    <3> QED  BY <1>1, <1>2, <1>4, <3>1 DEF Functions
  <2>5. \A w \in mine'[r].users : \E u \in ById(t.sub) :
          w.id = u.id /\ w.email = u.email /\ w.org \in {Slug(t), u.org}
    BY <2>2, <2>4, <1>5
  <2>6. WritesSoundly(r)'
    <3>1. \A v, w \in mine'[r].users : v = w  BY <2>4, <1>5
    <3>2. \A w \in mine'[r].users : w.org \in orgs \cup mine'[r].orgs
      BY <1>2, <2>4, <2>5, <1>5
    <3>3. \A w \in mine'[r].users, u \in users : u.id = w.id <=> u.email = w.email
      BY <2>5, <1>5 DEF IdentityIInv, Committed, Unique
    <3> QED  BY <1>2, <3>1, <3>2, <3>3 DEF WritesSoundly
  <2>7. ASSUME NEW q \in Requests \ {r} PROVE Apart(r, q)'
    <3>1. WritesSoundly(q) /\ mine'[q] = mine[q]  BY <2>4 DEF IdentityIInv, Sound
    <3>2. \A w \in mine[q].users : w.id # t.sub  BY <1>4 DEF RowIsHeld
    <3> QED  BY <2>5, <3>1, <3>2, <1>5 DEF Apart, WritesSoundly
  <2>8. Admit(r, rows, "synced")  BY <1>4 DEF rows
  <2>9. \E u \in rows : u.id = t.sub /\ AsTheTokenSays(u, t)  BY <2>3
  <2>10. \A u \in rows : u.org \in orgs \cup mine'[r].orgs  BY <1>2, <2>3, <2>4
  <2> HIDE DEF t
  <2> QED
    BY <1>1, <1>2, <2>3, <2>4, <2>6, <2>7, <2>8, <2>9, <2>10, AdmitStep DEF Functions, t
<1> QED  BY <1>3, <1>4 DEF Sync
-----------------------------------------------------------------------------
\* A request is admitted as a committed row: nothing is written, and nothing
\* is held for it.
LEMMA AdmitCommitted ==
  ASSUME IdentityIInv, NEW r \in Requests, NEW rows, rows # {},
         \A u \in rows : u \in users, \A u, v \in rows : u = v,
         Admit(r, rows, "found"), tenant[r] = Nobody,
         UNCHANGED <<orgs, users, token, mine>>,
         stamp' = [q \in Requests |-> stamp'[q]], \A q \in Requests \ {r} : stamp'[q] = stamp[q],
         stamp'[r] = Nobody,
         Provisions(r) => \E u \in rows : u.id = token[r].sub \/ u.email = token[r].email
  PROVE  IdentityIInv'
<1>1. /\ Functions /\ Sound(r) /\ rows \in SUBSET Rows
      /\ \A u \in rows : u.org \in orgs
  BY DEF IdentityIInv, Committed
<1>2. mine'[r] = mine[r] /\ mine[r] \in [orgs : SUBSET Slugs, users : SUBSET Rows]
  BY <1>1 DEF Sound, LocalTypeOK
<1>3. WritesSoundly(r)' /\ \A q \in Requests \ {r} : Apart(r, q)'
  BY <1>1 DEF IdentityIInv, Sound, WritesSoundly, Apart
<1>4. mine' = [q \in Requests |-> mine'[q]] /\ \A q \in Requests \ {r} : mine'[q] = mine[q]
  BY <1>1 DEF Functions
<1> QED  BY <1>1, <1>2, <1>3, <1>4, AdmitStep

LEMMA FetchByIdStep ==
  ASSUME IdentityIInv, NEW r \in Requests, FetchById(r)
  PROVE  IdentityIInv'
<1> DEFINE rows == ById(token[r].sub)
<1>1. /\ Functions /\ Sound(r) /\ at[r] = "by_id" /\ tenant[r] = Nobody /\ UNCHANGED <<orgs, users, token, mine, stamp>>
      /\ stamp'[r] = Nobody /\ stamp' = [q \in Requests |-> stamp'[q]]
      /\ mine' = [q \in Requests |-> mine'[q]]
  BY DEF IdentityIInv, FetchById, Stays, Sound, LocalTypeOK, PlaceOK, In, Ended, Functions
<1>2. /\ \A u \in rows : u \in users /\ u.id = token[r].sub
      /\ \A u, v \in rows : u = v
  BY FoundRows
<1>3. CASE rows # {} /\ Admit(r, rows, "found")
  BY <1>1, <1>2, <1>3, AdmitCommitted
<1>4. CASE rows = {} /\ Goto(r, "by_email") /\ UNCHANGED <<self, tenant>>
  <2>1. at'[r] = "by_email" /\ "by_email" \in Places \ {"in", "between", "again"}
    BY <1>1, <1>4 DEF Goto, Functions, Places
  <2>2. \E u \in users : u.email = token[r].email
    BY <1>1, <1>4 DEF Sound, PlaceOK, ById
  <2>3. PlaceOK(r)'  BY <1>1, <1>4, <2>1, <2>2 DEF Sound, PlaceOK, Provisions, In, Ended
  <2> QED  BY <1>1, <1>4, <2>1, <2>3, MoveStep DEF Goto, self
<1> QED  BY <1>3, <1>4 DEF FetchById, NoUser

\* The conflict of the request was with a row of its address, which is there.
LEMMA FetchByEmailStep ==
  ASSUME IdentityIInv, NEW r \in Requests, FetchByEmail(r)
  PROVE  IdentityIInv'
<1> DEFINE rows == ByEmail(token[r].email)
<1>1. /\ Functions /\ Sound(r) /\ at[r] = "by_email" /\ tenant[r] = Nobody /\ UNCHANGED <<orgs, users, token, mine, stamp>>
      /\ stamp'[r] = Nobody /\ stamp' = [q \in Requests |-> stamp'[q]]
  BY DEF IdentityIInv, FetchByEmail, Stays, Sound, LocalTypeOK, PlaceOK, In, Ended, Functions
<1>2. /\ \A u \in rows : u \in users /\ u.email = token[r].email
      /\ \A u, v \in rows : u = v
  BY FoundRows
<1>3. rows # {}
  BY <1>1 DEF Sound, PlaceOK, ByEmail
<1>4. Admit(r, rows, "found")
  BY <1>3 DEF FetchByEmail, NoUser
<1> QED  BY <1>1, <1>2, <1>3, <1>4, AdmitCommitted

LEMMA FindActiveStep ==
  ASSUME IdentityIInv, NEW r \in Requests, FindActive(r)
  PROVE  IdentityIInv'
<1> DEFINE t == token[r]
           rows == { u \in (IF t.via = "login" THEN ByEmail(t.email) ELSE ById(t.sub)) : u.active }
<1>1. /\ Functions /\ Sound(r) /\ at[r] = "arrive" /\ UNCHANGED <<orgs, users, token, mine>>
      /\ t.via \in {"native", "native_socket", "login"} /\ ~Provisions(r) /\ tenant[r] = Nobody
      /\ stamp' = [stamp EXCEPT ![r] = tenant[r]]
  BY DEF IdentityIInv, FindActive, Stays, Sound, PlaceOK, Provisions, In, Ended
<1>2. /\ stamp'[r] = Nobody /\ stamp' = [q \in Requests |-> stamp'[q]]
      /\ \A q \in Requests \ {r} : stamp'[q] = stamp[q]
      /\ mine' = [q \in Requests |-> mine'[q]]
  BY <1>1 DEF Functions
<1>3. CASE rows # {} /\ Admit(r, rows, "found")
  <2>1. (\A u \in rows : u \in users) /\ \A u, v \in rows : u = v  BY FoundRows
  <2> HIDE DEF rows
  <2> QED  BY <1>1, <1>2, <1>3, <2>1, AdmitCommitted
<1>4. CASE Goto(r, "denied") /\ UNCHANGED <<self, tenant>>
  <2>1. at'[r] = "denied" /\ "denied" \in Places \ {"in", "between", "again"}
    BY <1>1, <1>4 DEF Goto, Functions, Places, Ended
  <2>2. PlaceOK(r)'  BY <1>1, <1>4, <2>1 DEF Sound, PlaceOK, Provisions, In, Ended
  <2> QED  BY <1>1, <1>2, <1>4, <2>1, <2>2, MoveStep DEF Goto, self
<1> QED  BY <1>3, <1>4 DEF FindActive, NoUser

LEMMA FindDeveloperStep ==
  ASSUME IdentityIInv, NEW r \in Requests, FindDeveloper(r)
  PROVE  IdentityIInv'
<1> DEFINE rows == ByEmail(token[r].email)
<1>1. /\ Functions /\ Sound(r) /\ at[r] \in {"arrive", "refetch"} /\ UNCHANGED <<orgs, users, token, mine>>
      /\ ~Provisions(r) /\ tenant[r] = Nobody
      /\ stamp' = [stamp EXCEPT ![r] = tenant[r]]
  BY DEF IdentityIInv, FindDeveloper, Stays, Sound, PlaceOK, Provisions, In, Ended
<1>2. /\ stamp'[r] = Nobody /\ stamp' = [q \in Requests |-> stamp'[q]]
      /\ \A q \in Requests \ {r} : stamp'[q] = stamp[q]
      /\ mine' = [q \in Requests |-> mine'[q]]
  BY <1>1 DEF Functions
<1>3. CASE rows # {} /\ Admit(r, rows, "found")
  <2>1. (\A u \in rows : u \in users) /\ \A u, v \in rows : u = v  BY FoundRows
  <2> HIDE DEF rows
  <2> QED  BY <1>1, <1>2, <1>3, <2>1, AdmitCommitted
<1>4. CASE Goto(r, "unprovisioned") /\ UNCHANGED <<self, tenant>>
  <2>1. at'[r] = "unprovisioned" /\ "unprovisioned" \in Places \ {"in", "between", "again"}
    BY <1>1, <1>4 DEF Goto, Functions, Places, Ended
  <2>2. PlaceOK(r)'  BY <1>1, <1>4, <2>1 DEF Sound, PlaceOK, Provisions, In, Ended
  <2> QED  BY <1>1, <1>2, <1>4, <2>1, <2>2, MoveStep DEF Goto, self
<1> QED  BY <1>3, <1>4 DEF FindDeveloper, NoUser

LEMMA RegisterOrgStep ==
  ASSUME IdentityIInv, NEW r \in Requests, RegisterOrg(r)
  PROVE  IdentityIInv'
<1> DEFINE t == token[r]
<1>1. /\ Functions /\ Sound(r) /\ at[r] = "arrive" /\ UNCHANGED <<orgs, users, token, self>>
      /\ ~Provisions(r) /\ tenant[r] = Nobody /\ t \in Tokens /\ t.company \in Slugs
      /\ mine[r] \in [orgs : SUBSET Slugs, users : SUBSET Rows] /\ mine[r].users = {}
  BY TokenTypes
     DEF IdentityIInv, RegisterOrg, Stays, Sound, LocalTypeOK, PlaceOK, Provisions, In, Ended, Functions
<1>2. \E to \in {"refetch", "denied", "register_user"} :
         /\ Goto(r, to) /\ Begins(r)
         /\ \/ to # "register_user" /\ mine' = [mine EXCEPT ![r] = Nothing]
            \/ to = "register_user" /\ mine' = [mine EXCEPT ![r].orgs = {t.company}]
  <2>1. CASE RolledBack(r) /\ Goto(r, IF t.via = "dev" THEN "refetch" ELSE "denied")
    <3>1. (IF t.via = "dev" THEN "refetch" ELSE "denied") \in {"refetch", "denied"}  OBVIOUS
    <3> QED  BY <2>1, <3>1 DEF RolledBack
  <2>2. CASE mine' = [mine EXCEPT ![r].orgs = {t.company}] /\ Begins(r) /\ Goto(r, "register_user")
    BY <2>2
  <2> QED  BY <2>1, <2>2 DEF RegisterOrg
<1>3. PICK to \in {"refetch", "denied", "register_user"} :
         /\ Goto(r, to) /\ Begins(r)
         /\ \/ to # "register_user" /\ mine' = [mine EXCEPT ![r] = Nothing]
            \/ to = "register_user" /\ mine' = [mine EXCEPT ![r].orgs = {t.company}]
  BY <1>2
<1>4. /\ to \in Places \ {"in", "between", "again"} /\ at'[r] = to /\ at' = [at EXCEPT ![r] = to]
      /\ stamp'[r] = Nobody /\ stamp' = [q \in Requests |-> stamp'[q]]
      /\ \A q \in Requests \ {r} : stamp'[q] = stamp[q] /\ mine'[q] = mine[q]
      /\ mine' = [q \in Requests |-> mine'[q]] /\ tenant' = tenant
  BY <1>1, <1>3 DEF Functions, Goto, Begins, Places, Ended
<1>5. /\ mine'[r].users = {} /\ mine'[r] \in [orgs : SUBSET Slugs, users : SUBSET Rows]
      /\ to = "register_user" => t.company \in mine'[r].orgs
  BY <1>1, <1>3 DEF Functions, Nothing
<1>6. PlaceOK(r)'  BY <1>1, <1>3, <1>4, <1>5 DEF PlaceOK, Provisions
<1> QED  BY <1>1, <1>3, <1>4, <1>5, <1>6, MoveStep DEF self

LEMMA RegisterUserStep ==
  ASSUME IdentityIInv, NEW r \in Requests, RegisterUser(r)
  PROVE  IdentityIInv'
<1> DEFINE t == token[r]
           found == ById(t.sub) \cup ByEmail(t.email)
           row == Row(t, t.company, "admin")
           rows == {row}
<1>1. /\ Functions /\ Sound(r) /\ at[r] = "register_user" /\ UNCHANGED <<orgs, users, token>>
      /\ ~Provisions(r) /\ tenant[r] = Nobody /\ stamp[r] = Nobody
      /\ t \in Tokens /\ t.company \in mine[r].orgs
      /\ mine[r] \in [orgs : SUBSET Slugs, users : SUBSET Rows] /\ mine[r].users = {}
      /\ ~RowIsHeld(r, t.sub, {t.email})
  BY DEF IdentityIInv, RegisterUser, Stays, Sound, LocalTypeOK, PlaceOK, Provisions, In, Ended, Functions
<1>2. /\ row \in Rows /\ row.org = t.company /\ row.id = t.sub /\ row.email = t.email
  <2>1. t.company \in Slugs  BY <1>1
  <2> QED  BY <1>1, <2>1, TokenTypes DEF Row, Rows
<1>3. ASSUME NEW to \in {"refetch", "denied"}, RolledBack(r), Goto(r, to), UNCHANGED self
      PROVE  IdentityIInv'
  <2>1. mine'[r] = Nothing /\ stamp'[r] = Nobody /\ tenant' = tenant /\ at'[r] = to
    BY <1>1, <1>3 DEF RolledBack, Begins, Functions, Goto
  <2>2. mine'[r].users = {} /\ mine'[r] \in [orgs : SUBSET Slugs, users : SUBSET Rows]
    BY <2>1 DEF Nothing
  <2>3. PlaceOK(r)'  BY <1>1, <2>1, <2>2 DEF PlaceOK, Provisions
  <2>4. to \in Places \ {"in", "between", "again"}  BY DEF Places, Ended
  <2> QED
    BY <1>1, <1>3, <2>1, <2>2, <2>3, <2>4, MoveStep DEF RolledBack, Begins, Goto, Functions, self
<1>4. ASSUME found = {}, mine' = [mine EXCEPT ![r].users = rows], UNCHANGED stamp
      PROVE  /\ mine'[r].users = rows /\ mine'[r].orgs = mine[r].orgs
             /\ mine'[r] \in [orgs : SUBSET Slugs, users : SUBSET Rows]
             /\ mine' = [q \in Requests |-> mine'[q]] /\ \A q \in Requests \ {r} : mine'[q] = mine[q]
             /\ WritesSoundly(r)' /\ \A q \in Requests \ {r} : Apart(r, q)'
  <2>1. /\ mine'[r].users = rows /\ mine'[r].orgs = mine[r].orgs
        /\ mine'[r] \in [orgs : SUBSET Slugs, users : SUBSET Rows]
        /\ mine' = [q \in Requests |-> mine'[q]] /\ \A q \in Requests \ {r} : mine'[q] = mine[q]
    BY <1>1, <1>2, <1>4 DEF Functions
  <2>2. \A u \in users : u.id # t.sub /\ u.email # t.email
    BY <1>4 DEF ById, ByEmail
  <2>3. WritesSoundly(r)'  BY <1>1, <1>2, <2>1, <2>2 DEF WritesSoundly
  <2>4. \A q \in Requests \ {r} : Apart(r, q)'
    BY <1>1, <1>2, <2>1 DEF Apart, RowIsHeld
  <2> QED  BY <2>1, <2>3, <2>4
<1>5. CASE /\ found = {} /\ mine' = [mine EXCEPT ![r].users = rows] /\ UNCHANGED stamp
           /\ Admit(r, rows, "made")
  <2>1. /\ rows \in SUBSET Rows /\ rows # {} /\ \A u, v \in rows : u = v
        /\ \A u \in rows : u.org \in orgs \cup mine'[r].orgs
    BY <1>1, <1>2, <1>4, <1>5
  <2>2. /\ mine'[r] \in [orgs : SUBSET Slugs, users : SUBSET Rows]
        /\ mine' = [q \in Requests |-> mine'[q]] /\ \A q \in Requests \ {r} : mine'[q] = mine[q]
        /\ WritesSoundly(r)' /\ \A q \in Requests \ {r} : Apart(r, q)'
    BY <1>4, <1>5
  <2>3. /\ stamp'[r] = Nobody /\ stamp' = [q \in Requests |-> stamp'[q]]
        /\ \A q \in Requests \ {r} : stamp'[q] = stamp[q]
    BY <1>1, <1>5 DEF Functions
  <2>4. Admit(r, rows, "made")  BY <1>5
  <2> HIDE DEF rows
  <2> QED  BY <1>1, <2>1, <2>2, <2>3, <2>4, AdmitStep
<1>6. CASE /\ found = {} /\ mine' = [mine EXCEPT ![r].users = rows] /\ UNCHANGED stamp
           /\ Goto(r, "commit_developer") /\ UNCHANGED <<self, tenant>>
  <2>1. Functions' /\ OthersKeep(r)  BY <1>1, <1>6 DEF Functions, OthersKeep, Goto, self
  <2>2. /\ at'[r] = "commit_developer" /\ read'[r] = read[r] /\ who'[r] = who[r]
        /\ how'[r] = how[r] /\ tenant'[r] = Nobody /\ stamp'[r] = Nobody
    BY <1>1, <1>6 DEF Functions, Goto, self
  <2>3. LocalTypeOK(r)'  BY <1>1, <1>4, <1>6, <2>2 DEF Sound, LocalTypeOK, Places
  <2>4. PlaceOK(r)'  BY <1>1, <2>2 DEF PlaceOK, Provisions
  <2>5. IsAdmitted(r)'  BY <1>1, <2>2 DEF Sound, IsAdmitted, Provisions, In
  <2> QED  BY <1>1, <1>4, <1>6, <2>1, <2>3, <2>4, <2>5, LocalStep DEF Sound
<1> QED  BY <1>3, <1>5, <1>6 DEF RegisterUser, NoUser
-----------------------------------------------------------------------------
\* The commit of a transaction keeps what holds of the committed rows, and what
\* holds of the other requests beside them.
LEMMA WritesStep ==
  ASSUME IdentityIInv, NEW r \in Requests, Writes(r),
         NEW to \in {"done", "refetch", "between"}, Goto(r, to), to = "refetch" => ~Provisions(r),
         to = "refetch" => tenant[r] = Nobody, to = "between" => at[r] = "in"
  PROVE  IdentityIInv'
<1> DEFINE new == mine[r].users
           kept == { u \in users : \A w \in new : w.id # u.id }
<1>1. /\ Functions /\ Sound(r) /\ Committed
      /\ mine[r] \in [orgs : SUBSET Slugs, users : SUBSET Rows]
      /\ orgs' = orgs \cup mine[r].orgs /\ users' = kept \cup new /\ token' = token
  BY DEF IdentityIInv, Writes, Sound, LocalTypeOK
<1>2. /\ \A v, w \in new : v = w
      /\ \A w \in new : w.org \in orgs'
      /\ \A w \in new, u \in users : u.id = w.id <=> u.email = w.email
  BY <1>1 DEF Sound, WritesSoundly
<1>3. /\ mine'[r] = Nothing /\ at'[r] = to /\ stamp'[r] = Nobody
      /\ read'[r] = read[r] /\ who'[r] = who[r] /\ how'[r] = how[r] /\ tenant'[r] = tenant[r]
      /\ Functions' /\ OthersKeep(r)
  BY <1>1 DEF Functions, OthersKeep, Writes, Goto, self
<1>4. Committed'
  <2>1. Unique(users')
    BY <1>1, <1>2 DEF Unique, Committed
  <2>2. users' \subseteq Rows /\ orgs' \subseteq Slugs
    BY <1>1 DEF Committed
  <2>3. \A u \in users' : u.org \in orgs'
    BY <1>1, <1>2 DEF Committed
  <2> QED  BY <2>1, <2>2, <2>3 DEF Committed
\* What identifies a row outlives the commit.
<1>5. /\ orgs \subseteq orgs'
      /\ \A u \in users : \E w \in users' : w.id = u.id /\ w.email = u.email
  BY <1>1, <1>2
<1>6. ASSUME NEW q \in Requests PROVE Sound(q)'
  <2>1. CASE q = r
    <3>1. mine'[r].orgs = {} /\ mine'[r].users = {} /\ mine'[r] \in [orgs : SUBSET Slugs, users : SUBSET Rows]
      BY <1>3 DEF Nothing
    <3>2. LocalTypeOK(r)'  BY <1>1, <1>3, <3>1 DEF Sound, LocalTypeOK, Places, Ended
    <3>3. WritesSoundly(r)'  BY <3>1 DEF WritesSoundly
    <3>4. PlaceOK(r)'  BY <1>1, <1>3, <3>1 DEF PlaceOK, Provisions, In, Ended
    <3>5. IsAdmitted(r)'  BY <1>1, <1>3, <1>5 DEF Sound, IsAdmitted, In, Provisions
    <3> QED  BY <2>1, <3>2, <3>3, <3>4, <3>5 DEF Sound
  <2>2. CASE q # r
    <3>1. Sound(q) /\ Apart(r, q)  BY <2>2 DEF IdentityIInv
    <3>2. /\ at'[q] = at[q] /\ mine'[q] = mine[q] /\ read'[q] = read[q] /\ who'[q] = who[q]
          /\ how'[q] = how[q] /\ tenant'[q] = tenant[q] /\ stamp'[q] = stamp[q]
      BY <1>3, <2>2 DEF OthersKeep
    <3>3. LocalTypeOK(q)'  BY <3>1, <3>2 DEF Sound, LocalTypeOK
    <3>4. WritesSoundly(q)'
      <4>1. ASSUME NEW w \in mine[q].users, NEW u \in users' PROVE u.id = w.id <=> u.email = w.email
        BY <1>1, <3>1 DEF Sound, WritesSoundly, Apart
      <4> QED  BY <1>5, <3>1, <3>2, <4>1 DEF Sound, WritesSoundly
    <3>5. PlaceOK(q)'
      BY <1>1, <1>5, <3>1, <3>2 DEF Sound, PlaceOK, Provisions, Slug, In
    <3>6. IsAdmitted(q)'
      BY <1>1, <1>5, <3>1, <3>2 DEF Sound, IsAdmitted, Provisions, In
    <3> QED  BY <3>3, <3>4, <3>5, <3>6 DEF Sound
  <2> QED  BY <2>1, <2>2
<1>7. ASSUME NEW p \in Requests, NEW q \in Requests, p # q PROVE Apart(p, q)'
  <2>1. mine'[r].users = {}  BY <1>3 DEF Nothing
  <2>2. CASE p = r \/ q = r  BY <2>1, <2>2 DEF Apart
  <2>3. CASE p # r /\ q # r  BY <1>3, <1>7, <2>3 DEF IdentityIInv, Apart, OthersKeep
  <2> QED  BY <2>2, <2>3
<1> QED  BY <1>3, <1>4, <1>6, <1>7 DEF IdentityIInv

LEMMA CommitStep ==
  ASSUME IdentityIInv, NEW r \in Requests, Commit(r)
  PROVE  IdentityIInv'
  BY WritesStep DEF Commit

LEMMA CommitMidwayStep ==
  ASSUME IdentityIInv, NEW r \in Requests, CommitMidway(r)
  PROVE  IdentityIInv'
  BY WritesStep DEF CommitMidway

\* The next transaction of a handler is stamped with the organisation of the
\* user it acts for.
LEMMA BeginAgainStep ==
  ASSUME IdentityIInv, NEW r \in Requests, BeginAgain(r)
  PROVE  IdentityIInv'
<1> USE DEF BeginAgain, Goto, Begins, Stays, self
<1>1. Functions /\ Sound(r)  BY DEF IdentityIInv
<1>2. Functions' /\ OthersKeep(r)  BY <1>1 DEF Functions, OthersKeep
<1>3. \A q \in Requests \ {r} : Apart(r, q)'  BY DEF IdentityIInv, Apart
<1>4. /\ at[r] = "between" /\ at'[r] = "again" /\ mine'[r] = mine[r] /\ read'[r] = read[r]
      /\ who'[r] = who[r] /\ how'[r] = how[r] /\ tenant'[r] = tenant[r] /\ stamp'[r] = tenant[r]
      /\ UNCHANGED <<orgs, users, token>>
  BY <1>1 DEF Functions
<1> HIDE DEF BeginAgain, Goto, Begins, Stays, self
<1>5. Sound(r)'
  <2>1. LocalTypeOK(r)'  BY <1>1, <1>4 DEF Sound, LocalTypeOK, Places
  <2>2. WritesSoundly(r)'  BY <1>1, <1>4 DEF Sound, WritesSoundly
  <2>3. PlaceOK(r)'  BY <1>1, <1>4 DEF Sound, PlaceOK, In
  <2>4. IsAdmitted(r)'  BY <1>1, <1>4 DEF Sound, IsAdmitted, Provisions, In
  <2> QED  BY <2>1, <2>2, <2>3, <2>4 DEF Sound
<1> QED  BY <1>2, <1>3, <1>4, <1>5, LocalStep

LEMMA CommitDeveloperStep ==
  ASSUME IdentityIInv, NEW r \in Requests, CommitDeveloper(r)
  PROVE  IdentityIInv'
<1>1. ~Provisions(r) /\ tenant[r] = Nobody
  BY DEF CommitDeveloper, IdentityIInv, Sound, PlaceOK, In, Ended
<1> QED  BY <1>1, WritesStep DEF CommitDeveloper

\* What a transaction has written goes with it.
LEMMA FailStep ==
  ASSUME IdentityIInv, NEW r \in Requests, Fail(r)
  PROVE  IdentityIInv'
<1>1. /\ Functions /\ Sound(r) /\ UNCHANGED <<orgs, users, token, read, who, how, tenant>>
      /\ mine' = [mine EXCEPT ![r] = Nothing] /\ stamp' = [stamp EXCEPT ![r] = Nobody]
      /\ at' = [at EXCEPT ![r] = "failed"]
  BY DEF IdentityIInv, Fail, Discards, Goto, self
<1>2. /\ mine'[r] = Nothing /\ at'[r] = "failed"
      /\ stamp'[r] = Nobody /\ stamp' = [q \in Requests |-> stamp'[q]]
      /\ \A q \in Requests \ {r} : stamp'[q] = stamp[q] /\ mine'[q] = mine[q]
      /\ mine' = [q \in Requests |-> mine'[q]]
  BY <1>1 DEF Functions
<1>3. mine'[r].users = {} /\ mine'[r] \in [orgs : SUBSET Slugs, users : SUBSET Rows]
  BY <1>2 DEF Nothing
<1>4. PlaceOK(r)'  BY <1>1, <1>2, <1>3 DEF Sound, PlaceOK, In, Ended
<1>5. "failed" \in Places \ {"in", "between", "again"}  BY DEF Places, Ended
<1> QED  BY <1>1, <1>2, <1>3, <1>4, <1>5, MoveStep

-----------------------------------------------------------------------------
LEMMA IdentityStarts ==
  ASSUME Init
  PROVE  IdentityIInv
<1>1. Committed
  BY IdentityAssumption DEF Init, PopulationsOK, Committed
<1>2. Functions  BY DEF Init, Functions
<1>3. ASSUME NEW r \in Requests PROVE Sound(r)
  <2>1. /\ at[r] = "arrive" /\ mine[r] = Nothing /\ read[r] = {} /\ who[r] = {} /\ how[r] = "found"
        /\ tenant[r] = Nobody /\ stamp[r] = Nobody
    BY DEF Init, NoUser
  <2>2. mine[r].orgs = {} /\ mine[r].users = {} /\ mine[r] \in [orgs : SUBSET Slugs, users : SUBSET Rows]
    BY <2>1 DEF Nothing
  <2> QED
    BY <2>1, <2>2 DEF Sound, LocalTypeOK, WritesSoundly, PlaceOK, IsAdmitted, In, Places, Ended
<1>4. ASSUME NEW r \in Requests, NEW q \in Requests PROVE Apart(r, q)
  BY DEF Init, Nothing, Apart
<1> QED  BY <1>1, <1>2, <1>3, <1>4 DEF IdentityIInv

LEMMA IdentityStep ==
  ASSUME IdentityIInv, [Next]_vars
  PROVE  IdentityIInv'
<1>1. ASSUME NEW r \in Requests, Identify(r) \/ CommitMidway(r) \/ BeginAgain(r) \/ Commit(r) \/ Fail(r)
      PROVE  IdentityIInv'
  BY <1>1, FindOrgStep, MakeOrgStep, FindUserStep, MakeUserStep, SyncStep, FetchByIdStep,
     FetchByEmailStep, FindActiveStep, RegisterOrgStep, RegisterUserStep, FindDeveloperStep,
     CommitDeveloperStep, CommitMidwayStep, BeginAgainStep, CommitStep, FailStep DEF Identify
<1>2. CASE UNCHANGED vars
  BY <1>2 DEF vars, self, IdentityIInv, Committed, Unique, Functions, Sound, LocalTypeOK, WritesSoundly,
     PlaceOK, IsAdmitted, Apart, Provisions, In
<1> QED  BY <1>1, <1>2 DEF Next

LEMMA IdentityImplies ==
  ASSUME IdentityIInv
  PROVE  IdentityInvariant
<1>1. Committed /\ Functions /\ \A r \in Requests : Sound(r)  BY DEF IdentityIInv
<1>2. IdentityTypeOK
  BY <1>1 DEF IdentityTypeOK, Committed, Functions, Sound, LocalTypeOK
<1>3. UsersHaveOrganisations /\ NeverUnprovisioned /\ ActsAsItsToken
  BY <1>1 DEF UsersHaveOrganisations, NeverUnprovisioned, ActsAsItsToken, Committed, Sound, IsAdmitted
<1>4. StampIsOwn  BY <1>1 DEF StampIsOwn, Sound, LocalTypeOK, IsAdmitted
<1> QED  BY <1>2, <1>3, <1>4 DEF IdentityInvariant

\* However many requests with whatever tokens make and refresh users and
\* organisations at once, and however often their transactions are rolled back
\* and begun anew: identities and addresses stay unique, every user has an
\* organisation, and nobody is left without a user after a conflict.  A request
\* that synced acts as the user, for the company and in the role of its token;
\* one that was in conflict acts as a row with the identity or the address of
\* its token, whose company and role may be others.  A transaction that begins
\* after a handler has committed is stamped with the company of the user the
\* request acts for (identity_sync.py, deps.py, shared/db.py).
THEOREM IdentityIsSound == Spec => []IdentityInvariant
<1>1. Init => IdentityIInv  BY IdentityStarts
<1>2. IdentityIInv /\ [Next]_vars => IdentityIInv'  BY IdentityStep
<1>3. IdentityIInv => IdentityInvariant  BY IdentityImplies
<1> QED  BY <1>1, <1>2, <1>3, PTL DEF Spec

-----------------------------------------------------------------------------
(***************************************************************************)
(* The credentials.  Beside what the requests are to the identities, the   *)
(* invariant says of each request what it has written, of each callback    *)
(* and of every two of them what has become of their consent, and of the   *)
(* rotation which rows it has still to write.                              *)
(***************************************************************************)
Ops == {"none", "received", "list", "create", "delete", "consent"}

\* What a request inserts has its name, and the key it arrived with; until its
\* transaction has ended nothing of it is committed.
RequestRows(r) ==
  /\ op[r] \in Ops /\ key[r] \in {"old", "new"}
  /\ \A c, d \in vault[r].new : c = d
  /\ \A c \in vault[r].new : c.id = r /\ c.key = key[r] /\ at[r] = "in" /\ op[r] = "create"
  /\ \A c \in creds : c.id = r => op[r] = "create" /\ at[r] \in Ended

\* A callback that has found its state acts for the organisation of the
\* consent; a state is gone once a callback has dropped it.
CallbackRows(c) ==
  /\ callback[c].at \in {"got", "dropped", "exchanged"} => callback[c].org \in Slugs
  /\ callback[c].at \notin {"arrive", "got"} => \A x \in consents : x.state # StateOf(c)
  /\ \A d \in creds : d.id = c => callback[c].at = "stored"

Took == {"got", "dropped", "exchanged", "stored", "failed"}
Rivals(c, d) ==
  c # d /\ StateOf(c) = StateOf(d) /\ callback[c].at \in Took /\ callback[d].at \in Took => StateOf(c) \in overlapped

\* A rotation that began when nobody worked with the old key, and that sees
\* every row, has still to write each row that is not under the new one.
Exempt == bypass \/ ~plan.enforced
RotationRows ==
  /\ settled \in BOOLEAN
  /\ settled => Drained
  /\ rotation.at = "complete" => settled
  /\ settled /\ Exempt /\ rotation.at = "rewrapping" =>
       \A c \in creds : c.key = "new" \/ c \in rotation.left \/ Rotated(c.id)
  /\ Exempt /\ rotation.at = "complete" => \A c \in creds : c.key = "new"

VaultOK ==
  /\ VaultTypeOK /\ op = [r \in Requests |-> op[r]]
  /\ SeenRowsAreOwn
  /\ \A r \in Requests : RequestRows(r)
  /\ \A c \in Callbacks : CallbackRows(c)
  /\ \A c, d \in Callbacks : Rivals(c, d)
  /\ RotationRows

VaultIInv == IdentityIInv /\ VaultOK

-----------------------------------------------------------------------------
\* A request is somewhere on its way when a step identifies it, and the others
\* stay where they are.
LEMMA IdentifyMoves ==
  ASSUME IdentityIInv, NEW r \in Requests, Identify(r)
  PROVE  /\ at[r] \notin Ended \cup {"in", "between", "again"}
         /\ \A q \in Requests \ {r} : at'[q] = at[q]
<1>1. Functions  BY DEF IdentityIInv
<1>2. PICK to : Goto(r, to)
  <2>1. ASSUME NEW rows, NEW manner, Admit(r, rows, manner) PROVE \E to : Goto(r, to)
    BY <2>1 DEF Admit
  <2> QED
    BY <2>1 DEF Identify, FindOrg, MakeOrg, FindUser, MakeUser, Sync, FetchById, FetchByEmail, FindActive,
       RegisterOrg, RegisterUser, FindDeveloper, CommitDeveloper
<1>3. at[r] \notin Ended \cup {"in", "between", "again"}
  BY DEF Ended, Identify, FindOrg, MakeOrg, FindUser, MakeUser, Sync, FetchById, FetchByEmail, FindActive,
     RegisterOrg, RegisterUser, FindDeveloper, CommitDeveloper
<1> QED  BY <1>1, <1>2, <1>3 DEF Goto, Functions

\* What a step of the credentials is to the identities: a step of the request,
\* or nothing.
LEMMA VaultStepIsStep ==
  ASSUME [VaultNext]_allVars
  PROVE  [Next]_vars
<1>1. ASSUME NEW r \in Requests, Rolled(r), at[r] = "in" PROVE Fail(r)
  BY <1>1 DEF Rolled, Fail, Ended
<1>2. ASSUME NEW r \in Requests, Request(r) PROVE Next \/ UNCHANGED vars
  <2>1. CASE Arrives(r)  BY <2>1 DEF Arrives, identities, vars
  <2>2. CASE Identifies(r)  BY <2>2 DEF Identifies, Next
  <2>9. CASE CommitsMidway(r) \/ GoesOn(r)  BY <2>9 DEF CommitsMidway, GoesOn, Next
  <2>3. CASE List(r)  BY <2>3 DEF List, Handles, identities, vars
  <2>4. CASE Create(r)
    <3>1. CASE Handles(r, "create")  BY <3>1 DEF Handles, identities, vars
    <3>2. CASE at[r] = "in" /\ Rolled(r)  BY <3>2, <1>1 DEF Next
    <3> QED  BY <2>4, <3>1, <3>2 DEF Create
  <2>5. ASSUME NEW s \in Seeds, Delete(r, s) PROVE Next \/ UNCHANGED vars
    <3>1. CASE Handles(r, "delete")  BY <3>1 DEF Handles, identities, vars
    <3>2. CASE at[r] = "in" /\ Rolled(r)  BY <3>2, <1>1 DEF Next
    <3> QED  BY <2>5, <3>1, <3>2 DEF Delete
  <2>6. ASSUME NEW s \in Consents, StartConsent(r, s) PROVE UNCHANGED vars
    BY <2>6 DEF StartConsent, Handles, identities, vars
  <2>7. CASE Commits(r)  BY <2>7 DEF Commits, Next
  <2>8. CASE Fails(r)  BY <2>8 DEF Fails, Next
  <2> QED  BY <1>2, <2>1, <2>2, <2>3, <2>4, <2>5, <2>6, <2>7, <2>8, <2>9 DEF Request
<1>3. ASSUME NEW c \in Callbacks, Returns(c) PROVE UNCHANGED vars
  BY <1>3 DEF Returns, GetState, DropState, Exchange, Store, Callback, identities, vars
<1>4. ASSUME NEW s \in Consents, ConsentExpires(s) PROVE UNCHANGED vars
  BY <1>4 DEF ConsentExpires, identities, vars
<1>5. ASSUME NEW s, NEW org, Use(s, org) PROVE UNCHANGED vars
  BY <1>5 DEF Use, identities, vars
<1>6. CASE Deploy  BY <1>6 DEF Deploy, identities, vars
<1>7. CASE Rotates
  BY <1>7 DEF Rotates, ReadAll, Rewrap, CommitRotation, Rotation, identities, vars
<1>8. CASE UNCHANGED allVars  BY <1>8 DEF allVars, identities, vars
<1> QED  BY <1>2, <1>3, <1>4, <1>5, <1>6, <1>7, <1>8 DEF VaultNext

\* A request that is in acts for one user, and for one organisation.
LEMMA Actor ==
  ASSUME IdentityIInv, NEW r \in Requests, at[r] = "in"
  PROVE  /\ OrgOf(r) \in Slugs
         /\ \A c : Owns(r, c) => c.org = OrgOf(r)
<1>1. who[r] # {} /\ who[r] \in SUBSET Rows /\ \A u, v \in who[r] : u = v
  BY DEF IdentityIInv, Sound, IsAdmitted, LocalTypeOK, In
<1>2. PICK u \in who[r] : u = CHOOSE v \in who[r] : TRUE  BY <1>1
<1>3. OrgOf(r) = u.org /\ u.org \in Slugs  BY <1>1, <1>2 DEF OrgOf, Rows
<1> QED  BY <1>1, <1>2, <1>3 DEF Owns

-----------------------------------------------------------------------------
\* What a step of r does not touch.
OthersKeepRows(r) ==
  \A q \in Requests \ {r} : /\ op'[q] = op[q] /\ key'[q] = key[q] /\ vault'[q] = vault[q]
                            /\ at'[q] = at[q]

\* A step of a request that commits nothing.
LEMMA RequestStep ==
  ASSUME VaultOK, NEW r \in Requests,
         UNCHANGED <<plan, bypass, creds, callback, overlapped, keys>>,
         consents' \subseteq [state : Consents, org : Slugs],
         \A c \in Callbacks : CallbackRows(c)',
         op' = [q \in Requests |-> op'[q]], OthersKeepRows(r),
         vault' \in [Requests -> [new : SUBSET Credentials, gone : SUBSET Seeds]],
         key' \in [Requests -> Keys],
         RequestRows(r)', SeenRowsAreOwn',
         deployed = "new" /\ (op[r] # "none" /\ key[r] = "old" => at[r] \in Ended)
           => (op'[r] # "none" /\ key'[r] = "old" => at'[r] \in Ended)
  PROVE  VaultOK'
<1>1. VaultTypeOK'  BY DEF VaultOK, VaultTypeOK, keys
<1>2. ASSUME NEW q \in Requests PROVE RequestRows(q)'
  <2>1. CASE q = r  BY <2>1
  <2>2. CASE q # r  BY <2>2 DEF VaultOK, RequestRows, OthersKeepRows
  <2> QED  BY <2>1, <2>2
<1>3. \A c, d \in Callbacks : Rivals(c, d)'  BY DEF VaultOK, Rivals
<1>4. Drained => Drained'
  BY DEF Drained, OthersKeepRows, keys
<1>5. RotationRows'
  BY <1>4 DEF VaultOK, RotationRows, Exempt, Rotated, keys
<1> QED  BY <1>1, <1>2, <1>3, <1>5 DEF VaultOK

LEMMA ArrivesStep ==
  ASSUME IdentityIInv, VaultOK, NEW r \in Requests, Arrives(r)
  PROVE  VaultOK'
<1>1. /\ RequestRows(r) /\ VaultTypeOK /\ op = [q \in Requests |-> op[q]] /\ key \in [Requests -> Keys]
      /\ deployed \in {"old", "new"} /\ SeenRowsAreOwn
  BY DEF VaultOK, VaultTypeOK
<1>2. /\ UNCHANGED <<plan, bypass, creds, vault, callback, overlapped, keys, consents, seen, at>>
      /\ op' = [op EXCEPT ![r] = "received"] /\ key' = [key EXCEPT ![r] = deployed] /\ op[r] = "none"
  BY DEF Arrives, consenting, identities
<1>3. /\ op' = [q \in Requests |-> op'[q]] /\ OthersKeepRows(r) /\ key' \in [Requests -> Keys]
      /\ op'[r] = "received" /\ key'[r] = deployed
  BY <1>1, <1>2 DEF OthersKeepRows, Keys
<1>4. RequestRows(r)'  BY <1>1, <1>2, <1>3 DEF RequestRows, Ops
<1>5. \A c \in Callbacks : CallbackRows(c)'  BY <1>2 DEF VaultOK, CallbackRows
<1>6. SeenRowsAreOwn'  BY <1>1, <1>2 DEF SeenRowsAreOwn
<1> QED  BY <1>1, <1>2, <1>3, <1>4, <1>5, <1>6, RequestStep DEF VaultTypeOK

\* A handler that commits on its way and goes on has done nothing to the
\* credentials.
LEMMA MidwayStep ==
  ASSUME IdentityIInv, VaultOK, NEW r \in Requests, CommitsMidway(r) \/ GoesOn(r)
  PROVE  VaultOK'
<1>1. /\ RequestRows(r) /\ VaultTypeOK /\ op = [q \in Requests |-> op[q]] /\ SeenRowsAreOwn /\ Functions
  BY DEF VaultOK, IdentityIInv
<1>2. /\ UNCHANGED <<plan, bypass, creds, vault, op, key, callback, overlapped, keys, consents, seen>>
      /\ op[r] = "received" /\ at[r] \in {"in", "between"}
      /\ \A q \in Requests \ {r} : at'[q] = at[q]
  BY <1>1 DEF CommitsMidway, GoesOn, Elsewhere, CommitMidway, BeginAgain, Goto, Functions, consenting, secrets
<1>3. OthersKeepRows(r)  BY <1>2 DEF OthersKeepRows
<1>4. RequestRows(r)'  BY <1>1, <1>2 DEF RequestRows, Ended
<1>5. \A c \in Callbacks : CallbackRows(c)'  BY <1>2 DEF VaultOK, CallbackRows
<1>6. SeenRowsAreOwn'  BY <1>1, <1>2 DEF SeenRowsAreOwn
<1> QED  BY <1>1, <1>2, <1>3, <1>4, <1>5, <1>6, RequestStep DEF VaultTypeOK, Ended

LEMMA IdentifiesStep ==
  ASSUME IdentityIInv, VaultOK, NEW r \in Requests, Identifies(r)
  PROVE  VaultOK'
<1>1. /\ RequestRows(r) /\ VaultTypeOK /\ op = [q \in Requests |-> op[q]] /\ SeenRowsAreOwn
  BY DEF VaultOK
<1>2. /\ UNCHANGED <<plan, bypass, creds, vault, op, key, callback, overlapped, keys, consents, seen>>
      /\ op[r] = "received" /\ at[r] \notin Ended \cup {"in", "between", "again"}
      /\ \A q \in Requests \ {r} : at'[q] = at[q]
  BY IdentifyMoves DEF Identifies, consenting, secrets
<1>3. OthersKeepRows(r)  BY <1>2 DEF OthersKeepRows
<1>4. RequestRows(r)'  BY <1>1, <1>2 DEF RequestRows
<1>5. \A c \in Callbacks : CallbackRows(c)'  BY <1>2 DEF VaultOK, CallbackRows
<1>6. SeenRowsAreOwn'  BY <1>1, <1>2 DEF SeenRowsAreOwn
<1> QED  BY <1>1, <1>2, <1>3, <1>4, <1>5, <1>6, RequestStep DEF VaultTypeOK

\* What a handler begins with.
LEMMA HandlesWhat ==
  ASSUME IdentityIInv, VaultOK, NEW r \in Requests, NEW what \in Ops \ {"none", "received"}, Handles(r, what)
  PROVE  /\ at[r] = "in" /\ op[r] = "received" /\ op'[r] = what
         /\ UNCHANGED <<plan, bypass, key, keys, at>>
         /\ op' = [q \in Requests |-> op'[q]]
         /\ \A q \in Requests \ {r} : op'[q] = op[q] /\ key'[q] = key[q] /\ at'[q] = at[q]
         /\ vault[r].new = {}
<1>1. op = [q \in Requests |-> op[q]] /\ RequestRows(r)  BY DEF VaultOK
<1>2. vault[r].new = {}  BY <1>1 DEF RequestRows, Handles
<1> QED  BY <1>1, <1>2 DEF Handles, identities, Ops

LEMMA ListStep ==
  ASSUME IdentityIInv, VaultOK, NEW r \in Requests, List(r)
  PROVE  VaultOK'
<1>1. /\ RequestRows(r) /\ VaultTypeOK
  BY DEF VaultOK
<1>2. /\ UNCHANGED <<creds, vault, consents, codes, callback, overlapped>>
      /\ Handles(r, "list")
      /\ seen' = { <<OrgOf(r), c>> : c \in { x \in Visible(creds, stamp[r]) : Owns(r, x) } }
  BY DEF List, consenting
<1>3. /\ at[r] = "in" /\ op[r] = "received" /\ op'[r] = "list"
      /\ UNCHANGED <<plan, bypass, key, keys, at>>
      /\ op' = [q \in Requests |-> op'[q]] /\ OthersKeepRows(r) /\ vault[r].new = {}
  BY <1>2, HandlesWhat DEF OthersKeepRows, Ops
<1>4. SeenRowsAreOwn'
  BY <1>2, <1>3, Actor DEF SeenRowsAreOwn
<1>5. RequestRows(r)'  BY <1>1, <1>2, <1>3 DEF RequestRows, Ops, Ended
<1>6. \A c \in Callbacks : CallbackRows(c)'  BY <1>2 DEF VaultOK, CallbackRows
<1> QED  BY <1>1, <1>2, <1>3, <1>4, <1>5, <1>6, RequestStep DEF VaultTypeOK

\* A request that is rolled back leaves nothing of what it wrote.
LEMMA RollsBack ==
  ASSUME IdentityIInv, VaultOK, NEW r \in Requests,
         Discards(r), Goto(r, "failed"), at[r] \notin Ended,
         vault' = [vault EXCEPT ![r] = [new |-> {}, gone |-> {}]],
         UNCHANGED <<plan, bypass, creds, op, key, consenting, keys, seen>>
  PROVE  VaultOK'
<1>1. /\ RequestRows(r) /\ VaultTypeOK /\ op = [q \in Requests |-> op[q]] /\ Functions /\ SeenRowsAreOwn
  BY DEF VaultOK, IdentityIInv
<1>2. /\ vault'[r] = [new |-> {}, gone |-> {}] /\ at'[r] = "failed" /\ OthersKeepRows(r)
      /\ vault' \in [Requests -> [new : SUBSET Credentials, gone : SUBSET Seeds]]
  BY <1>1 DEF VaultTypeOK, Functions, Goto, OthersKeepRows
<1>3. RequestRows(r)'  BY <1>1, <1>2 DEF RequestRows, Ended
<1>4. \A c \in Callbacks : CallbackRows(c)'  BY DEF VaultOK, CallbackRows, consenting
<1>5. SeenRowsAreOwn'  BY <1>1 DEF SeenRowsAreOwn
<1> QED  BY <1>1, <1>2, <1>3, <1>4, <1>5, RequestStep DEF VaultTypeOK, consenting, Ended

LEMMA CreateStep ==
  ASSUME IdentityIInv, VaultOK, NEW r \in Requests, Create(r)
  PROVE  VaultOK'
<1> DEFINE row == [id |-> r, org |-> OrgOf(r), key |-> key[r]]
<1>1. /\ RequestRows(r) /\ VaultTypeOK /\ SeenRowsAreOwn
  BY DEF VaultOK
<1>2. CASE /\ Handles(r, "create") /\ vault' = [vault EXCEPT ![r].new = {row}]
           /\ UNCHANGED <<creds, consenting, seen>>
  <2>1. /\ at[r] = "in" /\ op[r] = "received" /\ op'[r] = "create"
        /\ UNCHANGED <<plan, bypass, key, keys, at>>
        /\ op' = [q \in Requests |-> op'[q]]
        /\ \A q \in Requests \ {r} : op'[q] = op[q] /\ key'[q] = key[q] /\ at'[q] = at[q]
    BY <1>2, HandlesWhat DEF Ops
  <2>2. row \in Credentials  BY <1>1, <2>1, Actor DEF Credentials, VaultTypeOK
  <2>3. /\ vault'[r].new = {row} /\ OthersKeepRows(r)
        /\ vault' \in [Requests -> [new : SUBSET Credentials, gone : SUBSET Seeds]]
    BY <1>1, <1>2, <2>1, <2>2 DEF VaultTypeOK, OthersKeepRows
  <2>4. RequestRows(r)'
    <3>1. /\ row.id = r /\ row.key = key'[r] /\ key'[r] = key[r] /\ at'[r] = "in" /\ creds' = creds
      BY <1>2, <2>1
    <3> HIDE DEF row
    <3> QED  BY <1>1, <2>1, <2>3, <3>1 DEF RequestRows, Ops, Ended
  <2>5. \A c \in Callbacks : CallbackRows(c)'  BY <1>2 DEF VaultOK, CallbackRows, consenting
  <2>6. SeenRowsAreOwn'  BY <1>1, <1>2 DEF SeenRowsAreOwn
  <2> QED
    BY <1>1, <1>2, <2>1, <2>3, <2>4, <2>5, <2>6, RequestStep DEF VaultTypeOK, consenting
<1>3. CASE /\ at[r] = "in" /\ Rolled(r)
           /\ UNCHANGED <<plan, bypass, creds, op, key, consenting, keys, seen>>
  BY <1>3, RollsBack DEF Rolled, Ended
<1> QED  BY <1>2, <1>3 DEF Create

LEMMA DeleteStep ==
  ASSUME IdentityIInv, VaultOK, NEW r \in Requests, NEW s \in Seeds, Delete(r, s)
  PROVE  VaultOK'
<1> DEFINE rows == { c \in Visible(creds, stamp[r]) : c.id = s /\ Owns(r, c) }
<1>1. /\ RequestRows(r) /\ VaultTypeOK
  BY DEF VaultOK
<1>2. CASE /\ Handles(r, "delete") /\ vault' = [vault EXCEPT ![r].gone = {s}]
           /\ seen' = { <<OrgOf(r), c>> : c \in rows }
           /\ UNCHANGED <<creds, consenting>>
  <2>1. /\ at[r] = "in" /\ op[r] = "received" /\ op'[r] = "delete"
        /\ UNCHANGED <<plan, bypass, key, keys, at>>
        /\ op' = [q \in Requests |-> op'[q]] /\ vault[r].new = {}
        /\ \A q \in Requests \ {r} : op'[q] = op[q] /\ key'[q] = key[q] /\ at'[q] = at[q]
    BY <1>2, HandlesWhat DEF Ops
  <2>2. /\ vault'[r].new = {} /\ OthersKeepRows(r)
        /\ vault' \in [Requests -> [new : SUBSET Credentials, gone : SUBSET Seeds]]
    BY <1>1, <1>2, <2>1 DEF VaultTypeOK, OthersKeepRows
  <2>3. RequestRows(r)'  BY <1>1, <1>2, <2>1, <2>2 DEF RequestRows, Ops, Ended
  <2>4. SeenRowsAreOwn'  BY <1>2, <2>1, Actor DEF SeenRowsAreOwn
  <2>5. \A c \in Callbacks : CallbackRows(c)'  BY <1>2 DEF VaultOK, CallbackRows, consenting
  <2> QED
    BY <1>1, <1>2, <2>1, <2>2, <2>3, <2>4, <2>5, RequestStep DEF VaultTypeOK, consenting
<1>3. CASE /\ at[r] = "in" /\ Rolled(r)
           /\ UNCHANGED <<plan, bypass, creds, op, key, consenting, keys, seen>>
  BY <1>3, RollsBack DEF Rolled, Ended
<1> QED  BY <1>2, <1>3 DEF Delete

\* A consent begins anew only when no callback has come back with its state.
LEMMA StartConsentStep ==
  ASSUME IdentityIInv, VaultOK, NEW r \in Requests, NEW state \in Consents, StartConsent(r, state)
  PROVE  VaultOK'
<1>1. /\ RequestRows(r) /\ VaultTypeOK /\ SeenRowsAreOwn
  BY DEF VaultOK
<1>2. /\ Handles(r, "consent")
      /\ \A c \in Callbacks : StateOf(c) = state => callback[c].at = "arrive"
      /\ consents' = consents \cup { [state |-> state, org |-> OrgOf(r)] }
      /\ UNCHANGED <<creds, vault, codes, callback, overlapped, seen>>
  BY DEF StartConsent
<1>3. /\ at[r] = "in" /\ op[r] = "received" /\ op'[r] = "consent"
      /\ UNCHANGED <<plan, bypass, key, keys, at>>
      /\ op' = [q \in Requests |-> op'[q]] /\ OthersKeepRows(r) /\ vault[r].new = {}
  BY <1>2, HandlesWhat DEF OthersKeepRows, Ops
<1>4. consents' \subseteq [state : Consents, org : Slugs]
  BY <1>1, <1>2, <1>3, Actor DEF VaultTypeOK
<1>5. ASSUME NEW c \in Callbacks PROVE CallbackRows(c)'
  BY <1>2 DEF VaultOK, CallbackRows
<1>6. RequestRows(r)'  BY <1>1, <1>2, <1>3 DEF RequestRows, Ops, Ended
<1>7. SeenRowsAreOwn'  BY <1>1, <1>2 DEF SeenRowsAreOwn
<1> QED  BY <1>1, <1>2, <1>3, <1>4, <1>5, <1>6, <1>7, RequestStep DEF VaultTypeOK

\* The commit of a request: what it deletes goes, and what it inserts is the
\* first row of its name, under a key that the rotation counts on.
LEMMA CommitsStep ==
  ASSUME IdentityIInv, VaultOK, NEW r \in Requests, Commits(r)
  PROVE  VaultOK'
<1> DEFINE kept == { c \in creds : c.id \notin vault[r].gone }
           new == vault[r].new
<1>1. /\ RequestRows(r) /\ VaultTypeOK /\ op = [q \in Requests |-> op[q]] /\ Functions /\ SeenRowsAreOwn
      /\ RotationRows
  BY DEF VaultOK, IdentityIInv
<1>2. /\ at[r] \in {"in", "again"} /\ at' = [at EXCEPT ![r] = "done"]
      /\ creds' = kept \cup new
      /\ vault' = [vault EXCEPT ![r] = [new |-> {}, gone |-> {}]]
      /\ UNCHANGED <<plan, bypass, op, key, consents, codes, callback, overlapped, keys, seen>>
  BY DEF Commits, Commit, Goto, consenting
<1>3. /\ at'[r] = "done" /\ vault'[r].new = {} /\ OthersKeepRows(r)
      /\ vault' \in [Requests -> [new : SUBSET Credentials, gone : SUBSET Seeds]]
  BY <1>1, <1>2 DEF VaultTypeOK, Functions, OthersKeepRows
<1>4. /\ \A c, d \in new : c = d
      /\ \A c \in new : c.id = r /\ c.key = key[r] /\ op[r] = "create"
      /\ \A c \in creds : c.id # r
      /\ new \subseteq Credentials
  BY <1>1, <1>2 DEF RequestRows, VaultTypeOK, Ended
<1>5. VaultTypeOK'
  <2>1. creds' \subseteq Credentials /\ \A c, d \in creds' : c.id = d.id => c = d
    BY <1>1, <1>2, <1>4 DEF VaultTypeOK
  <2> QED  BY <1>1, <1>2, <1>3, <2>1 DEF VaultTypeOK, keys
<1>6. ASSUME NEW q \in Requests PROVE RequestRows(q)'
  <2>1. CASE q = r
    BY <1>1, <1>2, <1>3, <1>4, <2>1 DEF RequestRows, Ended
  <2>2. CASE q # r
    BY <1>2, <1>3, <1>4, <2>2 DEF VaultOK, RequestRows, OthersKeepRows
  <2> QED  BY <2>1, <2>2
<1>7. ASSUME NEW c \in Callbacks PROVE CallbackRows(c)'
  BY <1>2, <1>4, VaultAssumption DEF VaultOK, CallbackRows
<1>8. \A c, d \in Callbacks : Rivals(c, d)'  BY <1>2 DEF VaultOK, Rivals
<1>9. Drained => Drained' /\ \A c \in new : c.key = "new"
  <2>1. key[r] \in {"old", "new"} /\ (new # {} => op[r] # "none")  BY <1>1, <1>4 DEF RequestRows
  <2>2. Drained => \A c \in new : c.key = "new"
    BY <1>2, <1>4, <2>1 DEF Drained, Ended
  <2>3. Drained => Drained'
    BY <1>2, <1>3 DEF Drained, OthersKeepRows, keys, Ended
  <2> QED  BY <2>2, <2>3
<1>10. RotationRows'
  <2>1. /\ settled' = settled /\ rotation' = rotation /\ Exempt' = Exempt
        /\ \A c : Rotated(c.id)' <=> Rotated(c.id)
    BY <1>2 DEF keys, Exempt, Rotated
  <2> QED  BY <1>1, <1>2, <1>9, <2>1 DEF RotationRows
<1>11. SeenRowsAreOwn'  BY <1>1, <1>2 DEF SeenRowsAreOwn
<1> QED  BY <1>1, <1>2, <1>5, <1>6, <1>7, <1>8, <1>10, <1>11 DEF VaultOK

LEMMA FailsStep ==
  ASSUME IdentityIInv, VaultOK, NEW r \in Requests, Fails(r)
  PROVE  VaultOK'
  BY RollsBack DEF Fails, Fail

-----------------------------------------------------------------------------
\* A step that changes neither the requests nor the rows of creds, for the
\* callbacks and the consents.
LEMMA ConsentStep ==
  ASSUME VaultOK,
         UNCHANGED <<at, plan, bypass, creds, vault, op, key, keys>>, SeenRowsAreOwn',
         consents' \subseteq [state : Consents, org : Slugs],
         callback' \in [Callbacks -> CallbackStates],
         \A c \in Callbacks :
           \/ callback'[c] = callback[c] \/ callback'[c].key = deployed
           \/ (callback[c].at \in {"got", "dropped", "exchanged"} /\ callback'[c].key = callback[c].key),
         \A c \in Callbacks : CallbackRows(c)',
         \A c, d \in Callbacks : Rivals(c, d)'
  PROVE  VaultOK'
<1>1. VaultTypeOK'  BY DEF VaultOK, VaultTypeOK, keys
<1>2. ASSUME NEW q \in Requests PROVE RequestRows(q)'
  BY DEF VaultOK, RequestRows
<1>3. Drained => Drained'  BY DEF Drained, keys
<1>4. RotationRows'
  BY <1>3 DEF VaultOK, RotationRows, Exempt, Rotated, keys
<1> QED  BY <1>1, <1>2, <1>4 DEF VaultOK

\* A callback that finds the state of another that has found it overlaps it;
\* one that comes after the state was dropped finds none.
LEMMA GetStateStep ==
  ASSUME VaultOK, NEW c \in Callbacks, GetState(c)
  PROVE  VaultOK'
<1> DEFINE kept == { x \in consents : x.state = StateOf(c) }
           was == [at |-> IF kept = {} THEN "refused" ELSE "got", key |-> deployed,
                   org |-> IF kept = {} THEN NoState ELSE (CHOOSE x \in kept : TRUE).org]
           together == { x \in Callbacks \ {c} : kept # {} /\ callback[x].at = "got" /\ StateOf(x) = StateOf(c) }
<1>1. /\ VaultTypeOK /\ SeenRowsAreOwn /\ deployed \in Keys
      /\ consents \subseteq [state : Consents, org : Slugs]
  BY DEF VaultOK, VaultTypeOK, Keys
<1>2. /\ callback[c].at = "arrive" /\ callback' = [callback EXCEPT ![c] = was]
      /\ overlapped' = overlapped \cup { StateOf(c) : d \in together }
      /\ UNCHANGED <<consents, creds>>
      /\ UNCHANGED <<at, plan, bypass, vault, op, key, keys, seen>>
  BY DEF GetState, Callback, identities
<1>3. was.org \in Slugs \cup {NoState} /\ (kept # {} => was.org \in Slugs)
  <2>1. kept # {} => (CHOOSE x \in kept : TRUE) \in kept  OBVIOUS
  <2> QED  BY <1>1, <2>1
<1>4. /\ was.at \in {"refused", "got"} /\ was.key = deployed
      /\ was.at = "got" <=> kept # {}
  OBVIOUS
<1>5. was \in CallbackStates
  BY <1>1, <1>3 DEF CallbackStates
<1> HIDE DEF was
<1>6. /\ callback'[c] = was /\ \A d \in Callbacks \ {c} : callback'[d] = callback[d]
      /\ callback' \in [Callbacks -> CallbackStates]
  BY <1>1, <1>2, <1>5 DEF VaultTypeOK
<1>7. ASSUME NEW d \in Callbacks PROVE CallbackRows(d)'
  <2>1. CASE d = c  BY <1>2, <1>3, <1>4, <1>6, <2>1 DEF VaultOK, CallbackRows
  <2>2. CASE d # c  BY <1>2, <1>6, <2>2 DEF VaultOK, CallbackRows
  <2> QED  BY <2>1, <2>2
<1>8. ASSUME NEW d \in Callbacks, d # c, StateOf(d) = StateOf(c), callback[d].at \in Took, was.at \in Took
      PROVE  StateOf(c) \in overlapped'
  <2>1. kept # {}  BY <1>4, <1>8 DEF Took
  <2>2. callback[d].at = "got"
    BY <1>8, <2>1 DEF VaultOK, CallbackRows, Took
  <2>3. d \in together  BY <1>8, <2>1, <2>2
  <2> HIDE DEF together
  <2> QED  BY <1>2, <2>3
<1>9. ASSUME NEW d \in Callbacks, NEW e \in Callbacks PROVE Rivals(d, e)'
  BY <1>2, <1>6, <1>8 DEF VaultOK, Rivals
<1>10. SeenRowsAreOwn'  BY <1>1, <1>2 DEF SeenRowsAreOwn
<1>11. \A d \in Callbacks : callback'[d] = callback[d] \/ callback'[d].key = deployed
  BY <1>4, <1>6
<1>12. consents' \subseteq [state : Consents, org : Slugs]
  BY <1>1, <1>2
<1>13. UNCHANGED <<at, plan, bypass, creds, vault, op, key, keys>>  BY <1>2
<1> HIDE DEF kept, together
<1> QED  BY <1>6, <1>7, <1>9, <1>10, <1>11, <1>12, <1>13, ConsentStep

\* A callback goes on with what it has read.
LEMMA CallbackMoves ==
  ASSUME VaultOK, NEW c \in Callbacks,
         NEW to \in {"refused", "dropped", "exchanged"},
         CallbackGoes(c, to), callback[c].at \in {"got", "dropped"},
         to = "exchanged" => callback[c].at = "dropped",
         UNCHANGED <<creds, overlapped>>, Callback(c),
         consents' \subseteq consents, \A x \in consents' : x.state # StateOf(c)
  PROVE  VaultOK'
<1>1. /\ VaultTypeOK /\ SeenRowsAreOwn
      /\ consents \subseteq [state : Consents, org : Slugs]
      /\ callback[c] \in CallbackStates
  BY DEF VaultOK, VaultTypeOK
<1>2. UNCHANGED <<at, plan, bypass, vault, op, key, keys, seen>>
  BY DEF Callback, identities
<1>3. /\ callback'[c].at = to /\ callback'[c].key = callback[c].key /\ callback'[c].org = callback[c].org
      /\ \A d \in Callbacks \ {c} : callback'[d] = callback[d]
      /\ callback' \in [Callbacks -> CallbackStates]
  BY <1>1 DEF VaultTypeOK, CallbackGoes, CallbackStates
<1>4. ASSUME NEW d \in Callbacks PROVE CallbackRows(d)'
  <2>1. CASE d = c  BY <1>3, <2>1 DEF VaultOK, CallbackRows
  <2>2. CASE d # c  BY <1>3, <2>2 DEF VaultOK, CallbackRows
  <2> QED  BY <2>1, <2>2
<1>5. ASSUME NEW d \in Callbacks, NEW e \in Callbacks PROVE Rivals(d, e)'
  BY <1>3 DEF VaultOK, Rivals, Took
<1>6. SeenRowsAreOwn'  BY <1>1, <1>2 DEF SeenRowsAreOwn
<1> QED  BY <1>1, <1>2, <1>3, <1>4, <1>5, <1>6, ConsentStep

LEMMA DropStateStep ==
  ASSUME VaultOK, NEW c \in Callbacks, DropState(c)
  PROVE  VaultOK'
  BY CallbackMoves DEF DropState

LEMMA ExchangeStep ==
  ASSUME VaultOK, NEW c \in Callbacks, Exchange(c)
  PROVE  VaultOK'
<1>1. \A x \in consents : x.state # StateOf(c)
  BY DEF VaultOK, CallbackRows, Exchange
<1> QED  BY <1>1, CallbackMoves DEF Exchange

\* The credential of a callback is the first of its name.
LEMMA StoreStep ==
  ASSUME VaultOK, NEW c \in Callbacks, Store(c)
  PROVE  VaultOK'
<1> DEFINE row == [id |-> c, org |-> callback[c].org, key |-> callback[c].key]
<1>1. /\ VaultTypeOK /\ SeenRowsAreOwn /\ RotationRows /\ CallbackRows(c)
      /\ callback[c] \in CallbackStates
  BY DEF VaultOK, VaultTypeOK
<1>2. /\ UNCHANGED <<at, plan, bypass, vault, op, key, keys, seen, consents, overlapped>>
      /\ callback[c].at = "exchanged"
  BY DEF Store, Callback, identities
<1>3. PICK to \in {"stored", "failed"} :
        /\ CallbackGoes(c, to)
        /\ \/ to = "stored" /\ creds' = creds \cup {row}
           \/ to = "failed" /\ creds' = creds
  BY DEF Store
<1>4. row \in Credentials /\ row.id = c /\ row.key = callback[c].key
  BY <1>1, <1>2 DEF CallbackRows, Credentials, CallbackStates
<1> HIDE DEF row
<1>5. /\ callback'[c].at = to /\ callback'[c].key = callback[c].key
      /\ \A d \in Callbacks \ {c} : callback'[d] = callback[d]
      /\ callback' \in [Callbacks -> CallbackStates]
  BY <1>1, <1>3 DEF VaultTypeOK, CallbackGoes, CallbackStates
<1>6. \A d \in creds : d.id # c  BY <1>1, <1>2 DEF CallbackRows
<1>7. VaultTypeOK'
  <2>1. creds' \subseteq Credentials /\ \A d, e \in creds' : d.id = e.id => d = e
    BY <1>1, <1>3, <1>4, <1>6 DEF VaultTypeOK
  <2> QED  BY <1>1, <1>2, <1>5, <2>1 DEF VaultTypeOK, keys
<1>8. ASSUME NEW q \in Requests PROVE RequestRows(q)'
  <2>1. \A d \in creds' : d.id = q => d \in creds
    BY <1>3, <1>4, VaultAssumption
  <2> QED  BY <1>2, <2>1 DEF VaultOK, RequestRows
<1>9. ASSUME NEW d \in Callbacks PROVE CallbackRows(d)'
  <2>1. CASE d = c  BY <1>1, <1>2, <1>3, <1>4, <1>5, <1>6, <2>1 DEF CallbackRows
  <2>2. CASE d # c  BY <1>2, <1>3, <1>4, <1>5, <2>2 DEF VaultOK, CallbackRows
  <2> QED  BY <2>1, <2>2
<1>10. ASSUME NEW d \in Callbacks, NEW e \in Callbacks PROVE Rivals(d, e)'
  BY <1>2, <1>3, <1>5 DEF VaultOK, Rivals, Took
<1>11. RotationRows'
  <2>1. Drained => Drained' /\ row.key = "new"
    BY <1>2, <1>4, <1>5 DEF Drained, keys
  <2>2. /\ settled' = settled /\ rotation' = rotation /\ Exempt' = Exempt
        /\ \A d : Rotated(d.id)' <=> Rotated(d.id)
    BY <1>2 DEF keys, Exempt, Rotated
  <2> QED  BY <1>1, <1>3, <2>1, <2>2 DEF RotationRows
<1>12. SeenRowsAreOwn'  BY <1>1, <1>2 DEF SeenRowsAreOwn
<1> QED  BY <1>2, <1>7, <1>8, <1>9, <1>10, <1>11, <1>12 DEF VaultOK

LEMMA ConsentExpiresStep ==
  ASSUME VaultOK, NEW s \in Consents, ConsentExpires(s)
  PROVE  VaultOK'
<1>1. /\ UNCHANGED <<at, plan, bypass, creds, vault, op, key, keys, seen, callback, overlapped>>
      /\ consents' \subseteq consents
  BY DEF ConsentExpires, identities, secrets
<1>2. ASSUME NEW c \in Callbacks PROVE CallbackRows(c)'
  BY <1>1 DEF VaultOK, CallbackRows
<1>3. \A c, d \in Callbacks : Rivals(c, d)'  BY <1>1 DEF VaultOK, Rivals
<1>4. SeenRowsAreOwn'  BY <1>1 DEF VaultOK, SeenRowsAreOwn
<1>5. /\ consents' \subseteq [state : Consents, org : Slugs]
      /\ callback' \in [Callbacks -> CallbackStates]
  BY <1>1 DEF VaultOK, VaultTypeOK
<1> QED  BY <1>1, <1>2, <1>3, <1>4, <1>5, ConsentStep

LEMMA UseStep ==
  ASSUME VaultOK, NEW s, NEW org, Use(s, org)
  PROVE  VaultOK'
<1>1. /\ UNCHANGED <<at, plan, bypass, creds, vault, op, key, keys, consents, callback, overlapped>>
      /\ seen' = { <<org, c>> : c \in { d \in Visible(creds, org) : d.id = s /\ d.org = org } }
  BY DEF Use, identities, secrets, consenting
<1>2. ASSUME NEW c \in Callbacks PROVE CallbackRows(c)'
  BY <1>1 DEF VaultOK, CallbackRows
<1>3. \A c, d \in Callbacks : Rivals(c, d)'  BY <1>1 DEF VaultOK, Rivals
<1>4. SeenRowsAreOwn'  BY <1>1 DEF SeenRowsAreOwn
<1>5. /\ consents' \subseteq [state : Consents, org : Slugs]
      /\ callback' \in [Callbacks -> CallbackStates]
  BY <1>1 DEF VaultOK, VaultTypeOK
<1> QED  BY <1>1, <1>2, <1>3, <1>4, <1>5, ConsentStep

-----------------------------------------------------------------------------
\* A step of the rotation, or of the deployment, that leaves the rows alone.
LEMMA RotationStep ==
  ASSUME VaultOK, UNCHANGED <<at, plan, bypass, creds, vault, op, key, consenting, seen>>,
         deployed' \in {"old", "new"},
         rotation' \in RotationStates,
         RotationRows'
  PROVE  VaultOK'
<1>1. VaultTypeOK'  BY DEF VaultOK, VaultTypeOK, consenting
<1>2. ASSUME NEW q \in Requests PROVE RequestRows(q)'
  BY DEF VaultOK, RequestRows
<1>3. ASSUME NEW c \in Callbacks PROVE CallbackRows(c)'
  BY DEF VaultOK, CallbackRows, consenting
<1>4. \A c, d \in Callbacks : Rivals(c, d)'  BY DEF VaultOK, Rivals, consenting
<1>5. SeenRowsAreOwn'  BY DEF VaultOK, SeenRowsAreOwn
<1> QED  BY <1>1, <1>2, <1>3, <1>4, <1>5 DEF VaultOK

LEMMA DeployStep ==
  ASSUME VaultOK, Deploy
  PROVE  VaultOK'
<1>1. /\ UNCHANGED <<at, plan, bypass, creds, vault, op, key, consenting, seen, rotation, settled>>
      /\ deployed' = "new" /\ deployed = "old"
  BY DEF Deploy, identities, secrets
<1>2. /\ RotationRows /\ rotation \in RotationStates
  BY DEF VaultOK, VaultTypeOK
<1>3. ~settled  BY <1>1, <1>2 DEF RotationRows, Drained
<1>4. RotationRows'  BY <1>1, <1>2, <1>3 DEF RotationRows
<1> QED  BY <1>1, <1>2, <1>4, RotationStep

\* What a rotation finds, when it sees every row, is all there is to write.
LEMMA ReadAllStep ==
  ASSUME VaultOK, ReadAll
  PROVE  VaultOK'
<1> DEFINE found == IF bypass THEN creds ELSE Visible(creds, Nobody)
<1>1. /\ rotation' = [at |-> "rewrapping", left |-> found, done |-> {}]
      /\ settled' = Drained
      /\ UNCHANGED <<at, plan, bypass, creds, vault, op, key, consenting, deployed, seen>>
  BY DEF ReadAll, Rotation, identities
<1>2. creds \subseteq Credentials /\ deployed \in {"old", "new"}
  BY DEF VaultOK, VaultTypeOK
<1>3. found \subseteq creds /\ (Exempt => found = creds)
  BY DEF Visible, Exempt
<1> HIDE DEF found
<1>4. rotation'.at = "rewrapping" /\ rotation'.left = found  BY <1>1
<1>5. Drained' <=> Drained  BY <1>1 DEF Drained, consenting
<1>6. Exempt' <=> Exempt  BY <1>1 DEF Exempt
<1>7. settled' \in BOOLEAN  BY <1>1 DEF Drained
<1>8. RotationRows'
  BY <1>1, <1>3, <1>4, <1>5, <1>6, <1>7 DEF RotationRows
<1>9. rotation' \in RotationStates
  BY <1>1, <1>2, <1>3 DEF RotationStates
<1> QED  BY <1>1, <1>2, <1>8, <1>9, RotationStep

\* A row leaves those to be written when it is under the new key, or has been
\* written.
LEMMA RewrapStep ==
  ASSUME VaultOK, NEW c, Rewrap(c)
  PROVE  VaultOK'
<1>1. /\ RotationRows /\ deployed \in {"old", "new"}
      /\ rotation \in RotationStates
  BY DEF VaultOK, VaultTypeOK
<1>2. /\ rotation.at = "rewrapping" /\ c \in rotation.left
      /\ UNCHANGED <<at, plan, bypass, creds, vault, op, key, consenting, deployed, seen, settled>>
  BY DEF Rewrap, Rotation, identities
<1>3. (Drained' <=> Drained) /\ (Exempt' <=> Exempt)
  BY <1>2 DEF Drained, consenting, Exempt
<1>4. CASE c.key = "old" /\ rotation' = [rotation EXCEPT !.left = @ \ {c}, !.done = @ \cup {c}]
  <2>1. /\ rotation'.at = "rewrapping" /\ rotation'.left = rotation.left \ {c}
        /\ rotation'.done = rotation.done \cup {c}
        /\ rotation' \in RotationStates
    BY <1>1, <1>2, <1>4 DEF RotationStates
  <2>2. \A d : d.id = c.id \/ Rotated(d.id) => Rotated(d.id)'
    BY <2>1 DEF Rotated
  <2>3. RotationRows'
    BY <1>1, <1>2, <1>3, <2>1, <2>2 DEF RotationRows
  <2> QED  BY <1>1, <1>2, <2>1, <2>3, RotationStep
<1>5. CASE c.key = "new" /\ rotation' = [rotation EXCEPT !.left = @ \ {c}]
  <2>1. /\ rotation'.at = "rewrapping" /\ rotation'.left = rotation.left \ {c}
        /\ rotation'.done = rotation.done
        /\ rotation' \in RotationStates
    BY <1>1, <1>2, <1>5 DEF RotationStates
  <2>2. \A d : Rotated(d.id) => Rotated(d.id)'  BY <2>1 DEF Rotated
  <2>3. RotationRows'
    BY <1>1, <1>2, <1>3, <1>5, <2>1, <2>2 DEF RotationRows
  <2> QED  BY <1>1, <1>2, <2>1, <2>3, RotationStep
<1>6. CASE rotation' = [at |-> "idle", left |-> {}, done |-> {}]
  <2>1. RotationRows'  BY <1>1, <1>2, <1>3, <1>6 DEF RotationRows
  <2> QED  BY <1>1, <1>2, <1>6, <2>1, RotationStep DEF RotationStates
<1> QED  BY <1>4, <1>5, <1>6 DEF Rewrap

\* The rows keep their ids and their organisations; those that were written
\* are under the new key.
LEMMA CommitRotationStep ==
  ASSUME VaultOK, CommitRotation
  PROVE  VaultOK'
<1> DEFINE written(c) == IF Rotated(c.id) THEN [c EXCEPT !.key = "new"] ELSE c
           to == IF settled THEN "complete" ELSE "idle"
<1>1. /\ RotationRows /\ VaultTypeOK /\ SeenRowsAreOwn
  BY DEF VaultOK
<1>2. /\ rotation.at = "rewrapping" /\ rotation.left = {}
      /\ creds' = { written(c) : c \in creds }
      /\ rotation' = [at |-> to, left |-> {}, done |-> {}]
      /\ UNCHANGED <<at, plan, bypass, vault, op, key, consenting, deployed, seen, settled>>
  BY DEF CommitRotation, Rotation, Rewrapped, identities
<1>3. ASSUME NEW c \in creds
      PROVE  /\ written(c) \in Credentials /\ written(c).id = c.id
             /\ c.key = "new" \/ Rotated(c.id) => written(c).key = "new"
  <2>1. c \in Credentials  BY <1>1 DEF VaultTypeOK
  <2>2. c.key \in Keys /\ c = [id |-> c.id, org |-> c.org, key |-> c.key]
    BY <2>1 DEF Credentials
  <2> QED  BY <2>1, <2>2 DEF Credentials, Keys
<1> HIDE DEF written
<1>4. \A d \in creds' : \E c \in creds : d = written(c) /\ d.id = c.id
  BY <1>2, <1>3
<1>5. VaultTypeOK'
  <2>1. creds' \subseteq Credentials  BY <1>3, <1>4
  <2>2. \A d, e \in creds' : d.id = e.id => d = e  BY <1>1, <1>4 DEF VaultTypeOK
  <2>3. rotation' \in RotationStates
    BY <1>2 DEF RotationStates
  <2> QED  BY <1>1, <1>2, <2>1, <2>2, <2>3 DEF VaultTypeOK, consenting
<1>6. ASSUME NEW q \in Requests PROVE RequestRows(q)'
  BY <1>2, <1>4 DEF VaultOK, RequestRows
<1>7. ASSUME NEW c \in Callbacks PROVE CallbackRows(c)'
  BY <1>2, <1>4 DEF VaultOK, CallbackRows, consenting
<1>8. \A c, d \in Callbacks : Rivals(c, d)'  BY <1>2 DEF VaultOK, Rivals, consenting
<1>9. SeenRowsAreOwn'  BY <1>1, <1>2 DEF SeenRowsAreOwn
<1>10. RotationRows'
  <2>1. (Drained' <=> Drained) /\ (Exempt' <=> Exempt) /\ rotation'.at = to
    BY <1>2 DEF Drained, consenting, Exempt
  <2>2. settled /\ Exempt => \A d \in creds' : d.key = "new"
    BY <1>1, <1>2, <1>3, <1>4 DEF RotationRows
  <2> QED  BY <1>1, <1>2, <2>1, <2>2 DEF RotationRows
<1> QED  BY <1>2, <1>5, <1>6, <1>7, <1>8, <1>9, <1>10 DEF VaultOK

-----------------------------------------------------------------------------
LEMMA VaultStarts ==
  ASSUME VaultInit
  PROVE  VaultIInv
<1>1. Init  BY DEF VaultInit
<1>2. /\ vault = [r \in Requests |-> [new |-> {}, gone |-> {}]]
      /\ op = [r \in Requests |-> "none"] /\ key = [r \in Requests |-> "old"]
      /\ deployed = "old" /\ consents = {} /\ overlapped = {}
      /\ callback = [c \in Callbacks |-> [at |-> "arrive", key |-> "old", org |-> NoState]]
      /\ rotation = [at |-> "idle", left |-> {}, done |-> {}]
      /\ seen = {} /\ settled = FALSE
      /\ orgs \subseteq Slugs
  BY IdentityAssumption DEF VaultInit, Init, PopulationsOK
<1>3. PICK of \in [Seeds -> orgs], sealed \in [Seeds -> Keys] :
        creds = { [id |-> s, org |-> of[s], key |-> sealed[s]] : s \in Seeds }
  BY DEF VaultInit
<1>4. VaultTypeOK
  <2>1. creds \subseteq Credentials /\ \A c, d \in creds : c.id = d.id => c = d
    BY <1>2, <1>3 DEF Credentials
  <2>2. vault \in [Requests -> [new : SUBSET Credentials, gone : SUBSET Seeds]]
    BY <1>2
  <2>3. callback \in [Callbacks -> CallbackStates]
    BY <1>2 DEF Keys, CallbackStates
  <2> QED  BY <1>2, <2>1, <2>2, <2>3 DEF VaultTypeOK, Keys, RotationStates
<1>5. \A c \in creds : c.id \in Seeds  BY <1>3
<1>6. ASSUME NEW r \in Requests PROVE RequestRows(r)
  BY <1>2, <1>5, VaultAssumption DEF RequestRows, Ops
<1>7. ASSUME NEW c \in Callbacks PROVE CallbackRows(c)
  BY <1>2, <1>5, VaultAssumption DEF CallbackRows
<1>8. \A c, d \in Callbacks : Rivals(c, d)  BY <1>2 DEF Rivals, Took
<1>9. RotationRows  BY <1>2 DEF RotationRows
<1>10. SeenRowsAreOwn  BY <1>2 DEF SeenRowsAreOwn
<1> QED  BY <1>1, <1>2, <1>4, <1>6, <1>7, <1>8, <1>9, <1>10, IdentityStarts DEF VaultIInv, VaultOK

LEMMA VaultStep ==
  ASSUME VaultIInv, [VaultNext]_allVars
  PROVE  VaultIInv'
<1>1. IdentityIInv /\ VaultOK  BY DEF VaultIInv
<1>2. IdentityIInv'  BY <1>1, VaultStepIsStep, IdentityStep
<1>3. ASSUME NEW r \in Requests, Request(r) PROVE VaultOK'
  BY <1>1, <1>3, ArrivesStep, IdentifiesStep, MidwayStep, ListStep, CreateStep, DeleteStep, StartConsentStep,
     CommitsStep, FailsStep DEF Request
<1>4. ASSUME NEW c \in Callbacks, Returns(c) PROVE VaultOK'
  BY <1>1, <1>4, GetStateStep, DropStateStep, ExchangeStep, StoreStep DEF Returns
<1>5. ASSUME Rotates PROVE VaultOK'
  <2>1. CASE ReadAll  BY <1>1, <2>1, ReadAllStep
  <2>2. ASSUME NEW c, Rewrap(c) PROVE VaultOK'  BY <1>1, <2>2, RewrapStep
  <2>3. CASE CommitRotation  BY <1>1, <2>3, CommitRotationStep
  <2> QED  BY <1>5, <2>1, <2>2, <2>3 DEF Rotates
<1>6. ASSUME UNCHANGED allVars PROVE VaultOK'
  <2>1. /\ UNCHANGED <<at, plan, bypass, creds, vault, op, key, consenting, seen, deployed, rotation, settled>>
    BY <1>6 DEF allVars, identities, secrets, keys
  <2>2. RotationRows'
    BY <1>1, <2>1 DEF VaultOK, RotationRows, Drained, Exempt, Rotated, consenting
  <2>3. deployed \in {"old", "new"} /\ rotation \in RotationStates
    BY <1>1 DEF VaultOK, VaultTypeOK
  <2>4. deployed' \in {"old", "new"} /\ rotation' \in RotationStates
    BY <2>1, <2>3
  <2> QED  BY <1>1, <2>1, <2>2, <2>4, RotationStep
<1>7. ASSUME NEW s \in Consents, ConsentExpires(s) PROVE VaultOK'
  BY <1>1, <1>7, ConsentExpiresStep
<1>8. ASSUME NEW s, NEW org, Use(s, org) PROVE VaultOK'  BY <1>1, <1>8, UseStep
<1>9. ASSUME Deploy PROVE VaultOK'  BY <1>1, <1>9, DeployStep
<1>10. VaultOK'
  BY <1>3, <1>4, <1>5, <1>6, <1>7, <1>8, <1>9 DEF VaultNext
<1> QED  BY <1>2, <1>10 DEF VaultIInv

\* Two credentials of one consent would be those of two callbacks that both
\* took its state.
LEMMA VaultImplies ==
  ASSUME VaultIInv
  PROVE  IdentityInvariant /\ VaultInvariant
<1>1. IdentityIInv /\ VaultOK /\ VaultTypeOK /\ SeenRowsAreOwn /\ RotationRows
  BY DEF VaultIInv, VaultOK
<1>2. ASSUME NEW s \in Consents \ overlapped
      PROVE  Cardinality({ c \in creds : c.id \in Callbacks /\ StateOf(c.id) = s }) <= 1
  <2> DEFINE made == { c \in creds : c.id \in Callbacks /\ StateOf(c.id) = s }
  <2>1. ASSUME NEW c \in made, NEW d \in made PROVE c = d
    <3>1. callback[c.id].at \in Took /\ callback[d.id].at \in Took
      BY <1>1 DEF VaultOK, CallbackRows, Took
    <3>2. Rivals(c.id, d.id)  BY <1>1 DEF VaultOK
    <3>3. c.id = d.id  BY <3>1, <3>2 DEF Rivals
    <3> QED  BY <1>1, <3>3 DEF VaultTypeOK
  <2> HIDE DEF made
  <2>2. CASE made = {}  BY <2>2, FS_EmptySet DEF made
  <2>3. ASSUME NEW c \in made PROVE Cardinality(made) <= 1
    <3>1. made = {c}  BY <2>1
    <3> QED  BY <3>1, FS_Singleton
  <2> QED  BY <2>2, <2>3 DEF made
<1>3. ConsentMakesOneCredential  BY <1>2 DEF ConsentMakesOneCredential
<1>4. RotationIsComplete  BY <1>1 DEF RotationIsComplete, RotationRows, Exempt
<1> QED  BY <1>1, <1>3, <1>4, IdentityImplies DEF VaultInvariant

-----------------------------------------------------------------------------
\* Requests that list, make and delete credentials, callbacks and a rotation
\* do nothing to the identities that the requests alone would not do.
THEOREM VaultKeepsIdentities == VaultSpec => Spec
<1>1. VaultInit => Init  BY DEF VaultInit
<1>2. [VaultNext]_allVars => [Next]_vars  BY VaultStepIsStep
<1> QED  BY <1>1, <1>2, PTL DEF VaultSpec, Spec

\* Whatever the tokens, the requests, the callbacks of the provider and the
\* moments at which keys are deployed and rotations run: nobody reads a
\* credential of another organisation, one consent makes one credential unless
\* two callbacks read its state at once, and a rotation that was begun when
\* nobody worked with the old key leaves no row under it
\* (routers/credentials.py, rewrap_all_credentials).
THEOREM VaultIsKept == VaultSpec => [](IdentityInvariant /\ VaultInvariant)
<1>1. VaultInit => VaultIInv  BY VaultStarts
<1>2. VaultIInv /\ [VaultNext]_allVars => VaultIInv'  BY VaultStep
<1>3. VaultIInv => IdentityInvariant /\ VaultInvariant  BY VaultImplies
<1> QED  BY <1>1, <1>2, <1>3, PTL DEF VaultSpec

\* A row that is gone is not written again, neither by a request, whose rows
\* have new names, nor by a rotation, which writes the rows that are there.
LEMMA GoneStaysGone ==
  ASSUME VaultIInv, [VaultNext]_allVars, NEW s \in Seeds, \A c \in creds : c.id # s
  PROVE  \A c \in creds' : c.id # s
<1>1. VaultOK  BY DEF VaultIInv
<1>2. ASSUME NEW r \in Requests, Request(r) PROVE \A c \in creds' : c.id # s
  <2>1. CASE Commits(r)
    BY <1>1, <2>1, VaultAssumption DEF Commits, VaultOK, RequestRows
  <2>2. CASE ~Commits(r)
    <3>1. creds' = creds
      BY <1>2, <2>2 DEF Request, Arrives, Identifies, CommitsMidway, GoesOn, Elsewhere, List, Create, Delete, StartConsent, Fails, secrets
    <3> QED  BY <3>1
  <2> QED  BY <2>1, <2>2
<1>3. ASSUME NEW c \in Callbacks, Returns(c) PROVE \A d \in creds' : d.id # s
  <2>1. CASE Store(c)  BY <2>1, VaultAssumption DEF Store
  <2>2. CASE ~Store(c)
    <3>1. creds' = creds  BY <1>3, <2>2 DEF Returns, GetState, DropState, Exchange
    <3> QED  BY <3>1
  <2> QED  BY <2>1, <2>2
<1>4. CASE Rotates
  <2>1. CASE CommitRotation
    <3>1. ASSUME NEW d \in creds' PROVE \E c \in creds : d.id = c.id
      <4>1. PICK c \in creds : d = IF Rotated(c.id) THEN [c EXCEPT !.key = "new"] ELSE c
        BY <2>1 DEF CommitRotation, Rewrapped
      <4>2. c \in Credentials  BY <1>1 DEF VaultOK, VaultTypeOK
      <4>3. [c EXCEPT !.key = "new"].id = c.id  BY <4>2 DEF Credentials
      <4> QED  BY <4>1, <4>3
    <3> QED  BY <3>1
  <2>2. CASE ~CommitRotation
    <3>1. creds' = creds  BY <1>4, <2>2 DEF Rotates, ReadAll, Rewrap
    <3> QED  BY <3>1
  <2> QED  BY <2>1, <2>2
<1>5. ASSUME UNCHANGED creds PROVE \A c \in creds' : c.id # s
  BY <1>5
<1>6. ASSUME NEW x \in Consents, ConsentExpires(x) PROVE UNCHANGED creds
  BY <1>6 DEF ConsentExpires, secrets
<1>7. ASSUME NEW x, NEW org, Use(x, org) PROVE UNCHANGED creds
  BY <1>7 DEF Use, secrets
<1>8. CASE Deploy  BY <1>5, <1>8 DEF Deploy, secrets
<1>9. CASE UNCHANGED allVars  BY <1>5, <1>9 DEF allVars, secrets
<1> QED  BY <1>2, <1>3, <1>4, <1>5, <1>6, <1>7, <1>8, <1>9 DEF VaultNext

\* A credential that was deleted never comes back, also when a rotation had
\* read it before it was deleted (rewrap_all_credentials).
THEOREM DeletedIsGone == VaultSpec => DeletedStaysDeleted
<1>1. VaultInit => VaultIInv  BY VaultStarts
<1>2. VaultIInv /\ [VaultNext]_allVars => VaultIInv'  BY VaultStep
<1>3. VaultIInv /\ [VaultNext]_allVars =>
        [\A s \in Seeds : (\A c \in creds : c.id # s) => \A c \in creds' : c.id # s]_allVars
  BY GoneStaysGone
<1> QED  BY <1>1, <1>2, <1>3, PTL DEF VaultSpec, DeletedStaysDeleted
=============================================================================
