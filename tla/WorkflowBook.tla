----------------------------- MODULE WorkflowBook -----------------------------
(***************************************************************************)
(* A workflow, its versions and its shares under concurrent requests       *)
(* (api/routers/workflows.py).  A request reads the row, changes its own   *)
(* copy, and writes the columns that differ from what it read; the rows it *)
(* wrote stay locked until its transaction ends.                           *)
(*                                                                         *)
(* The calls to the IMAP poller that some requests make on the way are in  *)
(* MailPoller.                                                             *)
(***************************************************************************)
EXTENDS Integers, FiniteSets, Sequences

CONSTANTS
  Requests,
  Contents,          \* definitions of a workflow
  Mailboxes,         \* what trigger_config.credential_id may name
  Companies,         \* the owner's and others
  Owner,
  None,
  EventOf(_),        \* the event of the entry pack_trigger of a definition, or None
  ConditionsOf(_),   \* its conditions, or None
  Privileged(_),     \* whether it has a node for administrators only
  Earlier,           \* ids of the versions there may be at the beginning
  Books              \* what there is at the beginning: [row, versions]

ASSUME BookAssumption == Owner \in Companies /\ Earlier \cap Requests = {}

VARIABLES
  row,         \* the committed row of the workflow: a set of one, or none
  versions,    \* its committed versions
  made,        \* workflows that were created, in the order of their commits
  grants,      \* companies with a viewer grant in the authorisation service
  op,          \* what each request is to do
  at,          \* its place in its handler
  tx,          \* what its session has read and written
  runs,        \* runs that were started: what was checked, and what they loaded
  overlapped,  \* pairs of requests that were at work together (history)
  withdrawn,   \* companies whose share was withdrawn, and not given again (history)
  unsaid       \* companies of which the authorisation service missed a call (history)

bookVars == <<row, versions, made, grants, op, at, tx, runs, overlapped, withdrawn, unsaid>>

-----------------------------------------------------------------------------
Ended == {"done", "refused", "failed", "conflict"}
AtWork(r) == at[r] \notin Ended \cup {"idle"}
Ids == Requests \cup Earlier

\* An id is none of the marks that stand beside ids.
ASSUME IdsAssumption == Ids \cap {None, "row", "key", "all"} = {}

Config == [conditions : { ConditionsOf(c) : c \in Contents } \cup {None}, mailbox : Mailboxes \cup {None}]
Triggers == {"manual", "webhook", "imap_trigger"} \cup { EventOf(c) : c \in Contents }
Rows == [definition : Contents, trigger : Triggers, config : Config, active : BOOLEAN,
         pointer : Ids \cup {None}, shared : SUBSET Companies]
Versions == [id : Ids, num : Nat, status : {"active", "archived"},
             definition : Contents, trigger : Triggers, config : Config]

\* What may be in the tables at the beginning: a workflow that was published a
\* number of times, or never, and is not being changed.
IsBook(b) ==
  /\ b.row \in Rows /\ b.versions \subseteq Versions /\ IsFiniteSet(b.versions)
  /\ \A v \in b.versions : v.id \in Earlier /\ v.num \in 1 .. Cardinality(b.versions)
  /\ \A u, v \in b.versions : u.id = v.id \/ u.num = v.num => u = v
  /\ { v.id : v \in { x \in b.versions : x.status = "active" } } = {b.row.pointer} \ {None}

ASSUME BooksAssumption == \A b \in Books : IsBook(b)

\* What may be asked for: an update of columns it may name (WorkflowUpdate), a
\* share with a company, a new workflow.
Editable == [definition |-> Contents, trigger |-> Triggers, config |-> Config, active |-> BOOLEAN]
Scopes == {"system", "company", "personal"}
IsOp(o) ==
  /\ o.do = "update" => DOMAIN o.set \subseteq DOMAIN Editable /\ \A c \in DOMAIN o.set : o.set[c] \in Editable[c]
  /\ o.do \in {"share", "unshare"} => o.company \in Companies
  /\ o.do \in {"create", "import"} =>
       o.definition \in Contents /\ o.trigger \in Triggers /\ o.scope \in Scopes /\ o.mandated \in BOOLEAN /\ o.federated \in BOOLEAN

Row == CHOOSE w \in row : TRUE
Version(id) == CHOOSE v \in versions : v.id = id
Reads(r) == op[r].do \in {"update", "share", "unshare", "publish", "rollback", "delete"}
May(r, content) == op[r].admin \/ ~Privileged(content)   \* _check_privileged_nodes
Own(r) == op[r].org = Owner

\* The conditions of the entry trigger are lifted into trigger_config.
Lifted(content, config) == [config EXCEPT !.conditions = ConditionsOf(content)]

\* The columns in which the session's copy differs from what it read.
Written(r) == { c \in DOMAIN tx[r].mine : tx[r].mine[c] # tx[r].read[c] }
Merged(r, w) == [c \in DOMAIN w |-> IF c \in Written(r) THEN tx[r].mine[c] ELSE w[c]]

NoTx == [read |-> <<>>, mine |-> <<>>, num |-> 0, archived |-> {}, new |-> {}, gone |-> FALSE, locks |-> {}]

BookInit ==
  /\ \E b \in Books : row = {b.row} /\ versions = b.versions /\ grants = b.row.shared
  /\ made = <<>> /\ runs = {} /\ overlapped = {} /\ withdrawn = {} /\ unsaid = {}
  /\ at = [r \in Requests |-> "idle"]
  /\ tx = [r \in Requests |-> NoTx]

-----------------------------------------------------------------------------
(* Locks of rows: of the workflow to write it ("row"), to keep its key      *)
(* ("key": an insert that refers to it), and of a version, by its id.       *)

Clashes(lock) ==
  CASE lock = "row" -> {"row", "all"}
    [] lock = "key" -> {"all"}
    [] lock = "all" -> {"row", "key", "all"}
    [] OTHER -> {lock}

\* What a request has to lock for its next step.
Needs(r) ==
  CASE at[r] = "flush" -> IF Written(r) = {} THEN {} ELSE {"row"}
    [] at[r] = "archive" /\ tx[r].read.pointer # None ->
         IF Version(tx[r].read.pointer).status = "active" THEN {tx[r].read.pointer} ELSE {}
    [] at[r] = "insert" -> {"key"}
    [] at[r] = "point" -> {"row"}
    [] at[r] = "erase" -> {"all"}
    [] at[r] = "detach" -> { v.id : v \in versions }
    [] OTHER -> {}

WaitsFor(r, s) == s # r /\ \E l \in Needs(r) : Clashes(l) \cap tx[s].locks # {}
Free(r) == \A s \in Requests : ~WaitsFor(r, s)
InDeadlock(r) == \E s \in Requests : WaitsFor(r, s) /\ WaitsFor(s, r)

-----------------------------------------------------------------------------
Goes(r, to) == at' = [at EXCEPT ![r] = to]

\* The request begins with its first query.
Begins(r) ==
  /\ at[r] = "idle"
  /\ overlapped' = overlapped \cup { {r, s} : s \in { x \in Requests \ {r} : AtWork(x) } }
  /\ UNCHANGED <<row, versions, made, op, withdrawn, unsaid>>

Refuse(r) == Goes(r, "refused") /\ UNCHANGED <<tx, runs, grants>>

\* It has read the row and goes on with its own copy of it.
Takes(r, mine, to) ==
  /\ tx' = [tx EXCEPT ![r] = [NoTx EXCEPT !.read = Row, !.mine = mine]]
  /\ Goes(r, to) /\ UNCHANGED <<runs, grants>>

\* update_workflow: the conditions follow a new definition, the trigger does not.
Edited(r) ==
  LET given == [c \in DOMAIN Row |-> IF c \in DOMAIN op[r].set THEN op[r].set[c] ELSE Row[c]]
  IN IF "definition" \in DOMAIN op[r].set
     THEN [given EXCEPT !.config = Lifted(given.definition, given.config)] ELSE given
Update(r) ==
  /\ op[r].do = "update" /\ Begins(r)
  /\ IF row # {} /\ Own(r) /\ ("definition" \in DOMAIN op[r].set => May(r, op[r].set.definition))
     THEN Takes(r, Edited(r), "flush") ELSE Refuse(r)

\* share_workflow and unshare_workflow.
Share(r) ==
  /\ op[r].do \in {"share", "unshare"} /\ Begins(r)
  /\ IF row # {} /\ Own(r)
     THEN Takes(r, [Row EXCEPT !.shared = IF op[r].do = "share" THEN @ \cup {op[r].company} ELSE @ \ {op[r].company}], "flush")
     ELSE Refuse(r)

\* publish_workflow.
Publish(r) ==
  /\ op[r].do = "publish" /\ Begins(r)
  /\ IF row # {} /\ Own(r) /\ May(r, Row.definition) THEN Takes(r, Row, "number") ELSE Refuse(r)

\* rollback_version: the version back into the draft.
RestoredLive(v) == [Row EXCEPT !.definition = v.definition, !.trigger = v.trigger, !.config = v.config, !.active = TRUE]
Restored(v) == [Row EXCEPT !.definition = v.definition, !.trigger = v.trigger, !.config = v.config]
Rollback(r) ==
  /\ op[r].do = "rollback" /\ Begins(r)
  /\ LET of == { v \in versions : v.id = op[r].version }
     IN IF row # {} /\ Own(r) /\ of # {} /\ \A v \in of : May(r, v.definition)
        THEN \E v \in of : Takes(r, Restored(v), "flush") ELSE Refuse(r)

\* delete_workflow: the poller of a mail trigger is stopped before.
Delete(r) ==
  /\ op[r].do = "delete" /\ Begins(r)
  /\ IF row # {} /\ Own(r) THEN Takes(r, Row, IF Row.trigger = "imap_trigger" THEN "sync" ELSE "erase") ELSE Refuse(r)

\* What runs: the version that is current, or the draft.
Runs(r, to) ==
  /\ runs' = runs \cup { [id |-> r, version |-> Row.pointer, loaded |-> None,
                          checked |-> IF Row.pointer = None THEN Row.definition ELSE Version(Row.pointer).definition] }
  /\ Goes(r, to) /\ UNCHANGED <<tx, grants>>

\* execute_workflow: the list of the row or the authorisation service lets
\* another company in; the service may not answer.
Reaches(r) == row # {} /\ Row.active /\ (Own(r) \/ op[r].org \in Row.shared)
Runnable == IF Row.pointer = None THEN Row.definition ELSE Version(Row.pointer).definition
Execute(r) ==
  /\ op[r].do = "execute" /\ Begins(r)
  /\ IF Reaches(r) /\ May(r, Runnable)
     THEN Runs(r, "commit")
     ELSE \/ Refuse(r)
          \/ row # {} /\ Row.active /\ op[r].org \in grants /\ May(r, Runnable) /\ Runs(r, "commit")

\* receive_webhook: nobody's role is asked for.
Webhook(r) ==
  /\ op[r].do = "webhook" /\ Begins(r)
  /\ IF row # {} /\ Row.active /\ Row.trigger = "webhook" THEN Runs(r, "commit") ELSE Refuse(r)

\* No mandated workflow of a wider scope may have the trigger.
Wider(scope) == CASE scope = "system" -> {} [] scope = "company" -> {"system"} [] OTHER -> {"system", "company"}
Claimed(r, w) == \E i \in DOMAIN made : made[i].mandated /\ made[i].trigger = w.trigger /\ made[i].scope \in Wider(w.scope)

\* A role may make workflows of its scope, and only administrators mandate them.
Permits(r) == (op[r].scope = "personal" /\ ~op[r].mandated) \/ op[r].admin

NewRow(r, trigger) == [id |-> r, scope |-> op[r].scope, mandated |-> op[r].mandated, trigger |-> trigger]
Adds(r, w, to) ==
  IF May(r, op[r].definition) /\ ~Claimed(r, w)
  THEN tx' = [tx EXCEPT ![r] = [NoTx EXCEPT !.new = {w}]] /\ Goes(r, to) /\ UNCHANGED <<runs, grants>>
  ELSE Refuse(r)

\* create_workflow: the event of the entry trigger becomes the trigger; one that
\* has participants or rules for them commits; and then the poller is started
\* if the request named a mailbox's.
Derived(r) == IF EventOf(op[r].definition) # None THEN EventOf(op[r].definition) ELSE op[r].trigger
AfterCreate(r) == IF op[r].trigger = "imap_trigger" THEN "sync" ELSE "commit"
Create(r) ==
  /\ op[r].do = "create" /\ Begins(r)
  /\ IF Permits(r) THEN Adds(r, NewRow(r, Derived(r)), IF op[r].federated THEN "keep" ELSE AfterCreate(r)) ELSE Refuse(r)

\* import_workflow: the trigger is taken as it was exported.
Import(r) == op[r].do = "import" /\ Begins(r) /\ Adds(r, NewRow(r, op[r].trigger), "commit")

Start(r) ==
  \/ Update(r) \/ Share(r) \/ Publish(r) \/ Rollback(r)
  \/ Delete(r) \/ Execute(r) \/ Webhook(r) \/ Create(r) \/ Import(r)

-----------------------------------------------------------------------------
(* Statements of a transaction.                                            *)

Locks(r) == UNCHANGED <<row, versions, made, op, runs, overlapped>>
Untold == UNCHANGED <<grants, unsaid, withdrawn>>
Holds(r) == tx[r].locks \cup Needs(r)

\* The poller is told when the trigger is a mailbox's, and when the trigger or
\* the switch was among the columns given.
Syncs(r) ==
  /\ op[r].do = "update"
  /\ tx[r].mine.trigger = "imap_trigger" \/ {"trigger", "active"} \cap DOMAIN op[r].set # {}

AfterFlush(r) ==
  CASE op[r].do = "rollback" -> "number"
    [] op[r].do \in {"share", "unshare"} -> "grant"
    [] OTHER -> IF Syncs(r) THEN "sync" ELSE "commit"

\* An update of a row that is gone fails.
Flush(r) ==
  /\ at[r] = "flush" /\ Free(r)
  /\ IF row = {} /\ Written(r) # {}
     THEN Goes(r, "failed") /\ tx' = [tx EXCEPT ![r] = NoTx]
     ELSE Goes(r, AfterFlush(r)) /\ tx' = [tx EXCEPT ![r].locks = Holds(r)]
  /\ Untold /\ Locks(r)

\* write_workflow_share and delete_workflow_share: best effort.
Grant(r) ==
  /\ at[r] = "grant" /\ Goes(r, "commit")
  /\ \/ /\ grants' = IF op[r].do = "share" THEN grants \cup {op[r].company} ELSE grants \ {op[r].company}
        /\ unsaid' = unsaid
     \/ unsaid' = unsaid \cup {op[r].company} /\ UNCHANGED grants
  /\ withdrawn' = IF op[r].do = "share" THEN withdrawn \ {op[r].company} ELSE withdrawn
  /\ UNCHANGED tx /\ Locks(r)

Highest == IF versions = {} THEN 0 ELSE CHOOSE n \in { v.num : v \in versions } : \A v \in versions : v.num <= n
Number(r) ==
  /\ at[r] = "number" /\ Goes(r, "archive")
  /\ tx' = [tx EXCEPT ![r].num = Highest + 1]
  /\ Untold /\ Locks(r)

ArchiveNothing(r) ==
  /\ at[r] = "archive" /\ Goes(r, "insert")
  /\ UNCHANGED tx /\ Untold /\ Locks(r)
Archive(r) ==
  /\ at[r] = "archive" /\ Free(r) /\ Goes(r, "insert")
  /\ tx' = [tx EXCEPT ![r].archived = {tx[r].read.pointer} \ {None}, ![r].locks = Holds(r)]
  /\ Untold /\ Locks(r)

\* The draft as this request has it; an insert for a row that is gone fails.
Insert(r) ==
  /\ at[r] = "insert" /\ Free(r)
  /\ IF row = {}
     THEN Goes(r, "failed") /\ tx' = [tx EXCEPT ![r] = NoTx]
     ELSE /\ Goes(r, "point")
          /\ tx' = [tx EXCEPT ![r].locks = Holds(r), ![r].new =
               { [id |-> r, num |-> tx[r].num, status |-> "active", definition |-> tx[r].mine.definition,
                  trigger |-> tx[r].mine.trigger, config |-> tx[r].mine.config] }]
  /\ Untold /\ Locks(r)

Point(r) ==
  /\ at[r] = "point" /\ Free(r) /\ Goes(r, "commit")
  /\ tx' = [tx EXCEPT ![r].mine.pointer = r, ![r].locks = Holds(r)]
  /\ Untold /\ Locks(r)

\* A deletion locks the row, and then its versions, which lose their workflow.
Erase(r) ==
  /\ at[r] = "erase" /\ Free(r) /\ Goes(r, "detach")
  /\ tx' = [tx EXCEPT ![r].gone = TRUE, ![r].locks = Holds(r)]
  /\ Untold /\ Locks(r)

Detach(r) ==
  /\ at[r] = "detach" /\ Free(r) /\ Goes(r, "commit")
  /\ tx' = [tx EXCEPT ![r].locks = Holds(r)]
  /\ Untold /\ Locks(r)

\* The commit in the middle of create_workflow.
Keep(r) ==
  /\ at[r] = "keep" /\ Goes(r, AfterCreate(r))
  /\ \E w \in tx[r].new : made' = Append(made, w)
  /\ tx' = [tx EXCEPT ![r] = NoTx]
  /\ Untold /\ UNCHANGED <<row, versions, op, runs, overlapped>>

\* get_db commits after the handler.
Commit(r) ==
  /\ at[r] = "commit" /\ Goes(r, "done")
  /\ tx' = [tx EXCEPT ![r] = NoTx]
  /\ IF op[r].do \in {"create", "import"}
     THEN /\ IF tx[r].new = {} THEN UNCHANGED made ELSE \E w \in tx[r].new : made' = Append(made, w)
          /\ UNCHANGED <<row, versions>>
     ELSE /\ row' = IF tx[r].gone THEN {} ELSE IF Reads(r) THEN { Merged(r, w) : w \in row } ELSE row
          /\ versions' = { IF v.id \in tx[r].archived THEN [v EXCEPT !.status = "archived"] ELSE v : v \in versions } \cup tx[r].new
          /\ UNCHANGED made
  /\ withdrawn' = IF op[r].do = "unshare" THEN withdrawn \cup {op[r].company} ELSE withdrawn
  /\ UNCHANGED <<grants, op, runs, overlapped, unsaid>>

\* A connection, a process or the database gives up.
Fail(r) ==
  /\ AtWork(r) /\ Goes(r, "failed") /\ tx' = [tx EXCEPT ![r] = NoTx]
  /\ Untold /\ Locks(r)

\* The database ends one of the transactions that wait for each other.
Victim(r) ==
  /\ InDeadlock(r) /\ Goes(r, "failed") /\ tx' = [tx EXCEPT ![r] = NoTx]
  /\ Untold /\ Locks(r)

Statement(r) ==
  \/ Flush(r) \/ Grant(r) \/ Number(r) \/ Archive(r) \/ Insert(r) \/ Point(r)
  \/ Erase(r) \/ Detach(r) \/ Keep(r) \/ Commit(r)

\* load_workflow_definition, when a run begins: the version it was started
\* with, or the draft as it is then.
Load(x) ==
  /\ x \in runs /\ x.loaded = None /\ row # {}
  /\ runs' = (runs \ {x}) \cup
       { [x EXCEPT !.loaded = IF x.version = None THEN Row.definition ELSE Version(x.version).definition] }
  /\ UNCHANGED <<row, versions, made, grants, op, at, tx, overlapped, withdrawn, unsaid>>

-----------------------------------------------------------------------------
\* The tables have the values of their columns, and ids are unique.
BookTypeOK ==
  /\ row \subseteq Rows /\ Cardinality(row) <= 1
  /\ versions \subseteq Versions
  /\ \A u, v \in versions : u.id = v.id => u = v
  /\ row # {} /\ Row.pointer # None => \E v \in versions : v.id = Row.pointer
  /\ grants \subseteq Companies

Publishes(r) == op[r].do \in {"publish", "rollback"}

\* Versions have their own numbers, and the one that is current is the one
\* that is active, however publications, edits, deletions and failures are
\* interleaved, unless two publications were at work together
\* (publish_workflow and rollback_version read the highest number, and lock
\* the version they archive, not the workflow).
VersionsAreInOrder ==
  /\ \A u, v \in versions : u # v /\ u.num = v.num => {u.id, v.id} \in overlapped
  /\ row # {} /\ (\A p \in overlapped : \E r \in p : ~Publishes(r)) =>
       { v.id : v \in { x \in versions : x.status = "active" } } = {Row.pointer} \ {None}

\* A run that was started with a version loads what was checked for whoever
\* started it, whatever became of the workflow in the meantime
\* (execute_workflow and load_workflow_definition).
RunsWhatWasChecked ==
  \A x \in runs : x.version # None /\ x.loaded # None => x.loaded = x.checked

\* A company whose share was withdrawn is in neither of the two lists that let
\* it in, unless the authorisation service missed a call, or another change of
\* the shares was at work together with this one (unshare_workflow).
WithdrawnIsOut ==
  \A c \in withdrawn \ unsaid :
    (\A p \in overlapped : \E r \in p : op[r].do \notin {"share", "unshare"}) =>
      c \notin grants /\ \A w \in row : c \notin w.shared

\* Nobody creates a workflow on a trigger that a wider mandate has claimed,
\* unless the two were created together (_check_trigger_conflict).
MandatesAreHonoured ==
  \A i, j \in DOMAIN made :
    i < j /\ made[i].mandated /\ made[i].trigger = made[j].trigger /\ made[i].scope \in Wider(made[j].scope)
      => {made[i].id, made[j].id} \in overlapped

\* Two transactions wait for each other only if one of them rolls back to a
\* version or deletes: these lock the workflow first, a publication the
\* version (publish_workflow, rollback_version, delete_workflow).
DeadlocksNeedTheOtherOrder ==
  \A r \in Requests : InDeadlock(r) =>
    \E s \in Requests : InDeadlock(s) /\ op[s].do \in {"rollback", "delete"}

\* What requests that overlap on a workflow, its versions and its shares never
\* break, however they are interleaved, fail or are torn out of a deadlock.
BookInvariant ==
  /\ BookTypeOK
  /\ VersionsAreInOrder
  /\ RunsWhatWasChecked
  /\ WithdrawnIsOut
  /\ MandatesAreHonoured
  /\ DeadlocksNeedTheOtherOrder

\* What an operation may change.
Touches(r) ==
  CASE op[r].do = "update" -> DOMAIN op[r].set \cup (IF "definition" \in DOMAIN op[r].set THEN {"config"} ELSE {})
    [] op[r].do \in {"share", "unshare"} -> {"shared"}
    [] op[r].do = "publish" -> {"pointer"}
    [] op[r].do = "rollback" -> {"definition", "trigger", "config", "pointer"}
    [] OTHER -> {}

\* A commit changes no column its request was not about, also when others
\* have changed the row since it was read (the session writes what differs
\* from what it read).
OthersAreLeftAlone ==
  [][\A v \in row, w \in row' : \A c \in DOMAIN v :
       v[c] # w[c] => \E r \in Requests : at[r] = "commit" /\ at'[r] = "done" /\ c \in Touches(r)]_bookVars
=============================================================================
