------------------------------ MODULE TenantVault ------------------------------
(***************************************************************************)
(* The credentials of the organisations: the requests that list, make and  *)
(* delete them, the consent of OAuth2 that makes one, the activities that  *)
(* use them, and the rotation of the key they are encrypted under.         *)
(*                                                                         *)
(* With row-level security enforced (migration 0016) a transaction reads   *)
(* and writes only the rows of the organisation it is stamped with.        *)
(***************************************************************************)
EXTENDS IdentitySync

CONSTANTS
  Seeds,                 \* credentials there are at the beginning; what a request makes has its name
  Consents,              \* states of oauth2/start
  Callbacks,             \* requests of the provider's redirection
  StateOf(_), CodeOf(_), \* what each brings
  Plans                  \* who takes part: [tokens, callbacks, rotating, enforced]

\* The ids of credentials are uuids: none is given twice.
ASSUME VaultAssumption ==
  Seeds \cap Requests = {} /\ Seeds \cap Callbacks = {} /\ Requests \cap Callbacks = {}

VARIABLES
  plan,       \* one of Plans, without its tokens
  bypass,     \* whether the role of the rotation is exempt from the policies
  creds,      \* the committed rows of credentials
  vault,      \* rows a request has inserted and deleted, in its transaction
  op,         \* what each request does, once it is in
  deployed,   \* the key that new processes have
  key,        \* the key of the process of each request
  consents,   \* states in Redis, and whose they are
  codes,      \* codes that were exchanged
  callback,   \* where each callback is, and what it read
  rotation,   \* the rotation: where it is, its rows, and what it has written
  seen,       \* the rows last read, as <<organisation acted for, row>> (history)
  settled,    \* whether the last rotation began with every process on the new key (history)
  overlapped  \* states that two callbacks read before it was deleted (history)

secrets == <<creds, vault, op, key>>
consenting == <<consents, codes, callback, overlapped>>
keys == <<deployed, rotation, settled>>
identities == <<orgs, users, token, at, mine, read, who, how, tenant, stamp>>
allVars == <<identities, plan, bypass, secrets, consenting, keys, seen>>

-----------------------------------------------------------------------------
Keys == {"old", "new", "corrupt"}
NoState == "none"
Credentials == [id : Seeds \cup Requests \cup Callbacks, org : Slugs, key : Keys]
CallbackStates == [at : {"arrive", "refused", "got", "dropped", "exchanged", "stored", "failed"},
                   key : Keys, org : Slugs \cup {NoState}]
RotationStates == [at : {"idle", "rewrapping", "complete"}, left : SUBSET Credentials, done : SUBSET Credentials]

\* What a transaction with this stamp reads and may write.
Visible(rows, s) == { c \in rows : plan.enforced => c.org = s }
Admitted(row, s) == plan.enforced => row.org = s

OrgOf(r) == (CHOOSE u \in who[r] : TRUE).org
Owns(r, c) == \E u \in who[r] : c.org = u.org

VaultInit ==
  /\ Init
  /\ \E p \in Plans : token \in p.tokens /\ plan = [callbacks |-> p.callbacks, rotating |-> p.rotating, enforced |-> p.enforced]
  /\ bypass \in (IF plan.rotating THEN BOOLEAN ELSE {FALSE})
  /\ \E of \in [Seeds -> orgs], sealed \in [Seeds -> Keys] :
       /\ ~plan.rotating => \A s \in Seeds : sealed[s] = "old"
       /\ creds = { [id |-> s, org |-> of[s], key |-> sealed[s]] : s \in Seeds }
  /\ vault = [r \in Requests |-> [new |-> {}, gone |-> {}]]
  /\ op = [r \in Requests |-> "none"]
  /\ deployed = "old" /\ key = [r \in Requests |-> "old"]
  /\ consents = {} /\ codes = {} /\ overlapped = {}
  /\ callback = [c \in Callbacks |-> [at |-> "arrive", key |-> "old", org |-> NoState]]
  /\ rotation = [at |-> "idle", left |-> {}, done |-> {}]
  /\ seen = {} /\ settled = FALSE

-----------------------------------------------------------------------------
(* Requests.                                                               *)

\* A request works with the key of the process that received it.
Arrives(r) ==
  /\ at[r] = "arrive" /\ op[r] = "none"
  /\ op' = [op EXCEPT ![r] = "received"]
  /\ key' = [key EXCEPT ![r] = deployed]
  /\ UNCHANGED <<identities, plan, bypass, creds, vault, consenting, keys, seen>>

Identifies(r) ==
  /\ op[r] = "received" /\ Identify(r)
  /\ UNCHANGED <<plan, bypass, secrets, consenting, keys, seen>>

\* A handler of the other routers commits on its way, and goes on.
Elsewhere == UNCHANGED <<plan, bypass, secrets, consenting, keys, seen>>
CommitsMidway(r) == op[r] = "received" /\ CommitMidway(r) /\ Elsewhere
GoesOn(r) == op[r] = "received" /\ BeginAgain(r) /\ Elsewhere

Handles(r, what) ==
  /\ at[r] = "in" /\ op[r] = "received" /\ Authenticated(r)
  /\ op' = [op EXCEPT ![r] = what]
  /\ UNCHANGED <<identities, plan, bypass, key, keys>>

\* list_credentials.
List(r) ==
  /\ Handles(r, "list")
  /\ seen' = { <<OrgOf(r), c>> : c \in { x \in Visible(creds, stamp[r]) : Owns(r, x) } }
  /\ UNCHANGED <<creds, vault, consenting>>

Rolled(r) ==
  /\ Discards(r) /\ Goto(r, "failed")
  /\ vault' = [vault EXCEPT ![r] = [new |-> {}, gone |-> {}]]

\* create_credential: a row of another tenant is refused by its policy.
Create(r) ==
  LET row == [id |-> r, org |-> OrgOf(r), key |-> key[r]]
  IN \/ /\ Handles(r, "create")
        /\ Admitted(row, stamp[r])
        /\ vault' = [vault EXCEPT ![r].new = {row}]
        /\ UNCHANGED <<creds, consenting, seen>>
     \/ /\ at[r] = "in" /\ op[r] = "received" /\ Authenticated(r)
        /\ ~Admitted(row, stamp[r])
        /\ Rolled(r)
        /\ UNCHANGED <<plan, bypass, creds, op, key, consenting, keys, seen>>

\* delete_credential: 404 unless it is among one's own.
Delete(r, s) ==
  LET rows == { c \in Visible(creds, stamp[r]) : c.id = s /\ Owns(r, c) }
  IN \/ /\ rows # {}
        /\ Handles(r, "delete")
        /\ vault' = [vault EXCEPT ![r].gone = {s}]
        /\ seen' = { <<OrgOf(r), c>> : c \in rows }
        /\ UNCHANGED <<creds, consenting>>
     \/ /\ at[r] = "in" /\ op[r] = "received" /\ Authenticated(r)
        /\ rows = {}
        /\ Rolled(r)
        /\ UNCHANGED <<plan, bypass, creds, op, key, consenting, keys, seen>>

\* oauth2_start: a fresh state, kept for ten minutes.
StartConsent(r, state) ==
  /\ \A x \in consents : x.state # state
  /\ \A c \in Callbacks : StateOf(c) = state => callback[c].at = "arrive"
  /\ Handles(r, "consent")
  /\ consents' = consents \cup { [state |-> state, org |-> OrgOf(r)] }
  /\ UNCHANGED <<creds, vault, codes, callback, overlapped, seen>>

ConsentExpires(state) ==
  /\ consents' = { x \in consents : x.state # state } /\ consents' # consents
  /\ UNCHANGED <<identities, plan, bypass, secrets, codes, callback, overlapped, keys, seen>>

\* A row that the rotation has written is deleted when the rotation has ended.
Rotated(id) == \E d \in rotation.done : d.id = id
Held(ids) == \E id \in ids : Rotated(id)

Commits(r) ==
  /\ ~Held(vault[r].gone) /\ Commit(r)
  /\ creds' = { c \in creds : c.id \notin vault[r].gone } \cup vault[r].new
  /\ vault' = [vault EXCEPT ![r] = [new |-> {}, gone |-> {}]]
  /\ UNCHANGED <<plan, bypass, op, key, consenting, keys, seen>>

Fails(r) ==
  /\ op[r] # "none" /\ Fail(r)
  /\ vault' = [vault EXCEPT ![r] = [new |-> {}, gone |-> {}]]
  /\ UNCHANGED <<plan, bypass, creds, op, key, consenting, keys, seen>>

-----------------------------------------------------------------------------
(* oauth2_callback, which has no user: its transaction is stamped with      *)
(* nobody.                                                                 *)

CallbackGoes(c, to) == callback' = [callback EXCEPT ![c].at = to]

\* The page that failed is answered without an error.
Callback(c) == UNCHANGED <<identities, plan, bypass, vault, op, key, keys, seen>>

GetState(c) ==
  LET kept == { x \in consents : x.state = StateOf(c) }
  IN /\ callback[c].at = "arrive" /\ c \in plan.callbacks
     /\ callback' = [callback EXCEPT ![c] =
          [at |-> IF kept = {} THEN "refused" ELSE "got", key |-> deployed,
           org |-> IF kept = {} THEN NoState ELSE (CHOOSE x \in kept : TRUE).org]]
     /\ overlapped' = overlapped \cup
          { StateOf(c) : d \in { x \in Callbacks \ {c} : kept # {} /\ callback[x].at = "got" /\ StateOf(x) = StateOf(c) } }
     /\ UNCHANGED <<consents, codes, creds>> /\ Callback(c)

DropStateNever(c) ==
  /\ callback[c].at = "got"
  /\ CallbackGoes(c, "dropped")
  /\ UNCHANGED <<consents, codes, creds, overlapped>> /\ Callback(c)
DropState(c) ==
  /\ callback[c].at = "got"
  /\ consents' = { x \in consents : x.state # StateOf(c) }
  /\ CallbackGoes(c, "dropped")
  /\ UNCHANGED <<codes, creds, overlapped>> /\ Callback(c)

\* The provider takes a code once; it may also refuse it.
Exchange(c) ==
  /\ callback[c].at = "dropped"
  /\ \/ CodeOf(c) \notin codes /\ codes' = codes \cup {CodeOf(c)} /\ CallbackGoes(c, "exchanged")
     \/ CallbackGoes(c, "refused") /\ UNCHANGED codes
  /\ UNCHANGED <<consents, creds, overlapped>> /\ Callback(c)

\* The credential, committed by get_db; with the policies enforced it is refused.
Store(c) ==
  LET row == [id |-> c, org |-> callback[c].org, key |-> callback[c].key]
  IN /\ callback[c].at = "exchanged"
     /\ \/ Admitted(row, Nobody) /\ creds' = creds \cup {row} /\ CallbackGoes(c, "stored")
        \/ CallbackGoes(c, "failed") /\ UNCHANGED creds
     /\ UNCHANGED <<consents, codes, overlapped>> /\ Callback(c)

-----------------------------------------------------------------------------
(* An activity names a credential and the organisation of its run, stamps   *)
(* its session, and decrypts the row.                                      *)
Use(s, org) ==
  LET rows == { c \in Visible(creds, org) : c.id = s /\ c.org = org }
  IN /\ rows # {} /\ \A c \in rows : c.key = deployed
     /\ seen' = { <<org, c>> : c \in rows }
     /\ UNCHANGED <<identities, plan, bypass, secrets, consenting, keys>>

-----------------------------------------------------------------------------
(* rewrap_all_credentials.                                                 *)

Deploy ==
  /\ plan.rotating /\ deployed = "old" /\ deployed' = "new"
  /\ UNCHANGED <<identities, plan, bypass, secrets, consenting, rotation, settled, seen>>

\* Nobody is at work with the old key any more: what the operator waits for
\* before the rotation that is to be the last one.
Drained ==
  /\ deployed = "new"
  /\ \A r \in Requests : op[r] # "none" /\ key[r] = "old" => at[r] \in Ended
  /\ \A c \in Callbacks : callback[c].at \in {"got", "dropped", "exchanged"} => callback[c].key = "new"

Rotation == UNCHANGED <<identities, plan, bypass, vault, op, key, consenting, deployed, seen>>

\* Its transaction is stamped with nobody.
ReadAll ==
  /\ plan.rotating /\ rotation.at = "idle"
  /\ rotation' = [at |-> "rewrapping", left |-> IF bypass THEN creds ELSE Visible(creds, Nobody), done |-> {}]
  /\ settled' = Drained
  /\ UNCHANGED creds /\ Rotation

\* A row under the new key has been rotated; one under neither stops the
\* rotation, and rolls it back.
Rewrap(c) ==
  /\ rotation.at = "rewrapping" /\ c \in rotation.left
  /\ \/ c.key = "old" /\ rotation' = [rotation EXCEPT !.left = @ \ {c}, !.done = @ \cup {c}]
     \/ c.key = "new" /\ rotation' = [rotation EXCEPT !.left = @ \ {c}]
     \/ c.key = "corrupt" /\ rotation' = [at |-> "idle", left |-> {}, done |-> {}]
  /\ UNCHANGED <<creds, settled>> /\ Rotation

\* The rows are updated by their ids: one that was deleted stays deleted.
UpsertRewrapped == { c \in creds : ~Rotated(c.id) } \cup { [c EXCEPT !.key = "new"] : c \in rotation.done }
Rewrapped == { IF Rotated(c.id) THEN [c EXCEPT !.key = "new"] ELSE c : c \in creds }

CommitRotation ==
  /\ rotation.at = "rewrapping" /\ rotation.left = {}
  /\ creds' = Rewrapped
  /\ rotation' = [at |-> IF settled THEN "complete" ELSE "idle", left |-> {}, done |-> {}]
  /\ UNCHANGED settled /\ Rotation

-----------------------------------------------------------------------------
Request(r) ==
  \/ Arrives(r) \/ Identifies(r) \/ CommitsMidway(r) \/ GoesOn(r)
  \/ List(r) \/ Create(r) \/ (\E s \in Seeds : Delete(r, s)) \/ (\E s \in Consents : StartConsent(r, s))
  \/ Commits(r) \/ Fails(r)

Returns(c) == GetState(c) \/ DropState(c) \/ Exchange(c) \/ Store(c)
Rotates == ReadAll \/ (\E c \in rotation.left : Rewrap(c)) \/ CommitRotation

VaultNext ==
  \/ \E r \in Requests : Request(r)
  \/ \E c \in Callbacks : Returns(c)
  \/ \E s \in Consents : ConsentExpires(s)
  \/ \E s \in Seeds \cup Requests \cup Callbacks, org \in Slugs : Use(s, org)
  \/ Deploy
  \/ Rotates

\* A request that was received is worked on until its transaction has ended,
\* and so is a rotation; Postgres grants its locks in the order of asking.
VaultSpec ==
  /\ VaultInit /\ [][VaultNext]_allVars
  /\ \A r \in Requests : WF_allVars(Identifies(r)) /\ WF_allVars(GoesOn(r)) /\ SF_allVars(Commits(r))
  /\ WF_allVars((\E c \in rotation.left : Rewrap(c)) \/ CommitRotation)

-----------------------------------------------------------------------------
\* The credentials, what the transactions have written of them, the callbacks
\* and the rotation have the values the code gives them; ids are unique.
VaultTypeOK ==
  /\ creds \subseteq Credentials
  /\ \A c, d \in creds : c.id = d.id => c = d
  /\ vault \in [Requests -> [new : SUBSET Credentials, gone : SUBSET Seeds]]
  /\ key \in [Requests -> Keys] /\ deployed \in {"old", "new"}
  /\ consents \subseteq [state : Consents, org : Slugs]
  /\ callback \in [Callbacks -> CallbackStates]
  /\ rotation \in RotationStates

\* Whoever reads a credential, a request or an activity that was given any id,
\* acts for the organisation it belongs to, with the policies or without them
\* (routers/credentials.py and the queries of the activities).
SeenRowsAreOwn == \A p \in seen : p[2].org = p[1]

\* One consent makes one credential, unless two callbacks read its state
\* before one of them deleted it (oauth2_callback).
ConsentMakesOneCredential ==
  \A s \in Consents \ overlapped : Cardinality({ c \in creds : c.id \in Callbacks /\ StateOf(c.id) = s }) <= 1

\* After a rotation that was begun when every process had the new key, no
\* credential is under the old one, whatever was created or deleted while it
\* ran; the role it ran as has to be exempt from the policies
\* (rewrap_all_credentials).
RotationIsComplete ==
  rotation.at = "complete" /\ (bypass \/ ~plan.enforced) => \A c \in creds : c.key = "new"

\* A credential that was deleted does not come back, also when a rotation had
\* read it before (rewrap_all_credentials updates rows by their id).
DeletedStaysDeleted ==
  [][\A s \in Seeds : (\A c \in creds : c.id # s) => \A c \in creds' : c.id # s]_allVars

\* Every request that was received comes to an end: no two of them wait for
\* each other, nor for one that has ended (the locks of sync_identity,
\* register and the rotation).
RequestsEnd == \A r \in Requests : op[r] # "none" ~> at[r] \in Ended

\* What holds of the credentials in every state: nobody sees or keeps a row of
\* another organisation, consents and rotations do what they say.
VaultInvariant ==
  /\ VaultTypeOK
  /\ SeenRowsAreOwn
  /\ ConsentMakesOneCredential
  /\ RotationIsComplete
=============================================================================
