# The workflow engine in TLA+

Formal models of the Python backend (`src/backend`) of the workflow engine:
what it does is written as TLA+ modules, small instances are model-checked with
TLC, and the most important properties are proved with TLAPS for every value of
the constants. `PROJECT.json` lists the components, the runs, the properties
with a mutant of the code model that breaks each, the source lines of every
definition, the hazards of this code, and the theorems. Paths below are
relative to `src/backend` unless they say otherwise.

## 1. The system

The API (FastAPI, PostgreSQL, Redis) stores workflow definitions, starts their
executions as Temporal workflows, answers approvals and evaluates rules. A
Temporal worker runs the workflows; their activities write the database and do
all other input and output. A React admin and a Flutter builder are clients.

### Inventory

| component | state | operations | talks to | hard behaviour | what makes it correct |
|---|---|---|---|---|---|
| **Graph and routing** (`temporal/workflows/workflow_executor.py`) | a definition: nodes, labelled edges, node config | `_topological_sort`, `_is_edge_live`, `_should_execute_node`, `_has_error_edges` | the run | cycles, dangling and repeated edges; labels combined over several levels | every node after its parents, once; a node runs exactly when a live edge reaches it |
| **Workflow run** (same file, `run`) | `node_status`, outputs, `_approval_status`; rows `workflow_executions`, `node_executions` | load, mark, loop over the nodes, complete, fail, notify | state activities, node activities, agent and approval waits | a failure in the middle, an activity that wrote before it failed, waits | completed means complete; rows agree with what happened; every run ends |
| **Node calls** (same file, `_execute_node`, `_run_for_each_body`) | attempts of an activity, the position in a for_each, the row of the node | dispatch by type, retry, body, record | node activities, state activities | retries of what was done, records that overlap | work done as often as the retry policy says; the row says how the node ended |
| **Approval gates** (`temporal/activities/approval_activity.py`, `api/routers/executions.py`) | approval columns of the row, the decision in the run | register, wait, e-mail link, UI endpoint, signal, commit | the run by signals | answers that race each other, the timer, lost signals and commits | a gate opens only by an approval; whoever is told "approved" has approved |
| **Execution triggering** (`api/services/workflow_service.py`, `api/routers/workflows.py`, `api/routers/internal.py`) | the row of the execution, the transaction of the request | `trigger_workflow` from execute, webhook, `dispatch_event`; delete | Temporal, the run | the run starts before its row is committed | every run has a row that ends as the run did; no effect without a commit |
| **State activities** (`temporal/activities/state_activity.py`) | the rows | `update_execution_status`, `update_node_execution`, `create_execution_record`, `load_workflow_definition`, `emit_log_event` | the run, Redis | retries without a bound, late attempts | as above |
| **Autonomous agents** (`temporal/workflows/agent_run_workflow.py` and its two activities) | messages, one decision slot, the ledger of integration-hub | turns, tool dispatches, `approve`, status reports | integration-hub, `approve_agent_run` | late and repeated answers, retried dispatches, lost reports | no gated tool runs without consent to that call |
| **Sub-workflows** (`temporal/activities/call_workflow_activity.py`) | the row of the child | create the row, start, wait | the parent run | a worker that dies between any two, parent and child ending apart | a success stands for a child that ended, with its row |
| **Rules: cache, versions, approvals** (`api/routers/rules.py`, `api/services/rule_cache.py`) | `rules`, `rule_versions`, `rule_approvals`, one Redis key per organisation | update, publish, unpublish, restore, delete, request and decide approvals; cached reads | the rule engine | overlapping transactions; invalidation before the commit | rules are evaluated as committed; everybody required approved; history is complete |
| **Rule engine and rule flows** (`api/services/rule_engine.py`, `api/routers/rule_flows.py`, `temporal/activities/rule_engine_activity.py`) | the event, the audit rows | conditions, decision tables, scripts, actions, `process_event`, `execute_flow`, batches, test | cache, triggering | actions that change what later rules read, stops, dry runs, partial failure | what was done is audited, and nothing behind a stop is done |
| **Workflow definitions, versions, shares** (`api/routers/workflows.py`) | `workflows`, `workflow_versions`, grants in the authorisation service | create, import, update, publish, rollback, share, delete, execute | triggering, poller, authorisation | overlapping transactions, deadlocks, a second store | numbers are unique, nobody's columns are overwritten, grants follow shares |
| **IMAP polling** (`api/services/imap_poller_service.py`, `temporal/workflows/imap_polling_workflow.py`, `temporal/activities/imap_activity.py`) | the cron workflow, the cursor in Redis | start, stop, sync; tick, fetch, record, run | Temporal, mail server | a crash between cursor and delivery, late attempts, a cap, mail read elsewhere, replacement | each mail runs once, and none is silently forgotten |
| **Scraper sessions** (`temporal/activities/scraper_activity.py`, `api/routers/scraper.py`) | the session row, a Redis lock | create, refresh, delete; log in, scrape | browser | jobs that overlap, codes that are refused, markers that prove nothing, a worker that dies | cookies are explained by logins and actions; the latest login stays |
| **Identities** (`api/deps.py`, `api/services/identity_sync.py`, `api/routers/auth.py`) | `organizations`, `users`, the tenant of a transaction | `sync_identity`, `get_current_user` and its variants, register, login | every router | first requests that conflict, rollbacks that take more than they should | a request acts for the person and company of its token |
| **Credentials, key rotation, consent** (`api/routers/credentials.py`, `shared/key_rotation.py`, `shared/db.py`, `api/routers/oauth2.py`) | encrypted rows, key versions, states in Redis, row-level security | list, create, delete, use; re-wrap; start, callback | activities, the provider | a write between read and commit, a callback delivered twice | rows are seen by their owners only, stay readable, and stay deleted |
| **Scheduled calls, rate limiter, HTTP client** (`api/routers/internal.py`, `shared/_platform/rate_limit.py`, `http.py`) | cron workflows, counters, breaker | register, cancel; decide; retry | Temporal, Redis, other services | windows, eviction, retries | the limit holds |
| **The rest**: other CRUD routers, the work of the node activities, expression evaluation, middleware, configuration, migrations, user interfaces | | | | none of their own | see section 7 |

## 2. The modules

| module | models | proofs |
|---|---|---|
| `WorkflowGraph` | definitions, adjacency, edge liveness, what a node may become | |
| `TopologicalSort` (extends it) | `_topological_sort`, one step per popped node | in `WorkflowExecutor_proofs` |
| `WorkflowExecutor` (extends it) | the whole of `run`, one action per stretch between two awaits, and the rows | `WorkflowExecutor_proofs` |
| `RunContract` (abstract) | what a run promises: a dataflow evaluation of the graph | refined by `WorkflowExecutor` |
| `ApprovalGate` | the gates of one run against concurrent answers | `ApprovalGate_proofs` |
| `ExecutionLifecycle` | the request that triggers runs, its transaction, and the runs that race it | `Lifecycles_proofs` |
| `AgentRun` | `AgentRunWorkflow` and `approve_agent_run` | in `Lifecycles_proofs` |
| `ScraperSession` | a browser session: its requests, logins, scrapes | in `NodeCalls_proofs` |
| `NodeCalls` (extends it and `WorkflowGraph`) | one node from its first record to its last: dispatch, retries, for_each, call_workflow, web_scraper | `NodeCalls_proofs` |
| `RuleBook` | one rule with versions, approvals and cache | `RuleBook_proofs` |
| `RuleConditions` | fields, conditions, templates, decision tables: operators | in `RuleEngine_proofs` |
| `RuleGroups` (extends it) | groups of conditions, nested to any depth: recursive, hence for TLC only | |
| `RuleEngine` (extends `RuleConditions`) | `process_event` and its three callers | `RuleEngine_proofs` |
| `WorkflowBook` | one workflow, its versions and shares under concurrent requests | in `MailPoller_proofs` |
| `MailPoller` (extends it) | the poller of that workflow, its ticks and the attempts of its activity | `MailPoller_proofs` |
| `IdentitySync` | who a request acts for, and the tenant of its transaction | in `TenantVault_proofs` |
| `TenantVault` (extends it) | what such a request does with credentials; consent and key rotation beside it | `TenantVault_proofs` |
| `MC_*` | instances for TLC | |

Four of them compose: `MailPoller` has the requests that
change a workflow call the poller on their way, before they commit;
`TenantVault` lets the requests of `IdentitySync` go on to the credentials, in
the same transaction; `NodeCalls` runs a scrape on the session that logins
change meanwhile; `WorkflowExecutor` sorts with `TopologicalSort`.

### How state and actions correspond to the code

* **`WorkflowExecutor`**: `pc` names the await that `run` is at; `pos` is the
  index of the loop over `order`. `node_status`, `final_output` and
  `approval_status` are the variables of the run of these names;
  `exec_row`, `node_row`, `approval_row` are columns of the database. Temporal
  replays a run whose worker died, so a crash is not a step of its own: what
  it can change is the outcome of the activity that was running. Every
  activity with a bounded number of attempts may fail, before or after its
  commit; `update_node_execution` has no bound on its attempts, so it succeeds.
  What a node computes is abstracted to its outcome (a status), and
  `final_output` to the node that it came from.
* **`RunContract`**: `status` and `outcome` are `node_status` and `result` of
  the executor. Any node whose parents are decided may be decided next; its
  verdict follows from the final statuses of its parents alone; nothing is
  decided after a fatal error. The sort, the loop, the rows and the approvals
  are implementation.
* **`NodeCalls`** takes one node of the executor apart. `stage` is where
  `_execute_node` or the inline handler is, `tries` counts attempts, and
  `effects[s]` how often the activity at call site `s` did its work: an attempt
  may fail before or after it. `item` and `at` are the two loops of
  `_run_for_each_body`, whose liveness test is that of `WorkflowGraph`.
  `child` and `sub_row` are the run and the row of `call_sub_workflow`: the
  child goes through the updates of its status one by one, `child_late` has the
  attempts at them that were given up and may still write, and the row may be
  deleted with the workflow. `mine` is the scrape of a `web_scraper`. `writing` is the attempt of
  `update_node_execution` that is awaited: it has read whether there is a row,
  and writes later; `late` are the attempts that Temporal gave up and that
  nothing stops.
* **`ScraperSession`**: `job[j]` is where the login or scrape `j` is, and
  `held[j]` the cookies it read or captured. Cookies are kept as how far they
  are logged in, what kind of job captured them, the login they descend from,
  and whether a scrape on the way filled or clicked. `latest` and `crossed` are
  history variables. The Redis key that a scrape writes as its lock is read by
  nobody and keeps nobody out; all it can do is fail, so it is not a variable.
* **`ApprovalGate`**: `_action_approval` and `approval_action_link` are three
  steps, `Read`, `Signal` and `Commit`, between which everything else moves.
  `outcome[g]` is what became of gate `g`; `row.token = g` stands for the
  token registered for it. A row that belongs to a sub-workflow has no
  `temporal_workflow_id` (`linked`).
* **`ExecutionLifecycle`**: `draft` is what the open transaction sees, `row`
  what is committed. The run is reduced to the order of its writes; an attempt
  that Temporal gave up may write later (`late`).
* **`AgentRun`**: a call of a tool is the pair of its turn and place. `pending`
  and `decision` are the fields of the workflow object. `asked` remembers, for
  the properties only, what a person was looking at when they answered.
* **`RuleBook`**: `tx[r]` is what the session of request `r` has read and is
  going to write. Opening reads; `Flush` locks rows and waits for those that
  others have flushed; `Commit` applies the assigned columns to the rows as
  they are by then, which is how PostgreSQL's READ COMMITTED and SQLAlchemy's
  per-column updates lose updates. `Publish` is separate because the `SELECT`
  of the rule in `decide_approval` flushes the approval first.
  `said`, `known`, `overlapped`, `contested` and the `raced` flags are history
  variables.
* **`RuleEngine`**: `at` is where `process_event` or its caller is, `call` the
  step of the flow or the record of the batch, `pos` the rule. `event` is
  `event_data`, a function from leaf paths to values, changed in place by
  actions; an audit row refers to the same object until a statement flushes it,
  and then keeps what it shows. `Holds` is what a group of conditions means:
  `EvalGroup` of `RuleGroups` in the run, any predicate in the proofs. A script
  is given by the group that stands for its outcome. `SetAll` states the result
  of setting several fields one after the other without the loop: the last item
  that sets a field, or something above it, decides. `mutations` and `skipped`
  are history variables. An action that triggers a workflow may start its run
  and fail afterwards: its result is an error then, and the effect stays.
* **`WorkflowBook`**: as in `RuleBook`, `tx[r]` is a session: what it read,
  its own copy, its locks. `at[r]` names the statement of the handler that is
  next; a statement that needs a row another transaction has written waits,
  and PostgreSQL ends one of two that wait for each other (`Victim`).
  `grants` is the other store, the authorisation service. `overlapped`,
  `withdrawn` and `unsaid` are history variables.
* **`MailPoller`**: `poller` is the cron workflow (`stop`: its cancellation was
  requested), `attempt` the attempt of `fetch_new_emails` that it waits for,
  `late` what attempts that were given up will still store, or that they have
  still to search. Uids are numbers from 1. `seen` is the flag of the mailbox:
  fetching a mail sets it, and so does somebody who reads it elsewhere; without
  a cursor the search is for unread mail. A fetch may return nothing, and the
  mail is passed over if a later one is found. `excused` is a history variable:
  what a fault, a stop, the cap or the first search made the poller pass over.
* **`IdentitySync`**: `mine[r]` are the rows the open transaction has written,
  `read`, `who`, `how` what the request knows, `tenant` the context variable
  and `stamp` the setting of its transaction, which is taken from `tenant` when
  the transaction begins and not later. An insert waits for a transaction that
  has inserted the same key; if that commits, the insert fails, the session is
  rolled back and its transaction begins anew. A handler may commit on its way
  (`CommitMidway`, as in `forms.py`); its next statement begins a transaction
  that is stamped with the tenant (`BeginAgain`).
* **`TenantVault`**: `vault[r]` is what the transaction of `r` has inserted and
  deleted. `key[r]` is the key of the process that serves `r`: deploying a new
  key (`Deploy`) changes it for processes that start later. `rotation` has the
  rows that `rewrap_all_credentials` read and those it has re-wrapped.
  `Visible` and `Admitted` are the policies of migration 0016. `seen`,
  `settled` and `overlapped` are history variables.

## 3. What the runs check

Runs that pass:

| run | instance | what it shows |
|---|---|---|
| `executor` | 1717 definitions: every graph on two nodes and one that does not exist, every graph on three nodes without self-loops, every labelling of a triangle with continuing and denied nodes, labelled diamonds with notifications, a cycle, a dangling edge, a gate | the sort lists exactly the nodes that no cycle holds back, parents first; statuses follow the graph and are final; denied nodes never act; completed runs are complete and their rows say so; no node row stays running; the run ends; it implements `RunContract` |
| `calls` | one node of each kind: with and without retries, for_each over bodies that branch, chain, route, dangle or are empty, a child run, a scrape beside another scrape or two logins | activities do their work as often as their policy allows, and items of a for_each in order; a row says how its node ended unless a record was given up; a success stands for a scrape that succeeded or a child that ended, whose row says how unless it was deleted or written late; cookies are explained by the session's template, a login or an action; the latest login stays unless a scrape was under way; nodes end unless two rows were inserted |
| `approval` | three gates, two answers by link or UI, one gate with timeout zero, linked and unlinked rows | gates are decided by answers only; a settled row that contradicts its gate is explained by one of five named races; unlinked gates time out; the run goes on |
| `lifecycle` | two executions in one request, one of which has a trigger only; every failure, a deletion, late writes | rows show the outcome of their runs; runs of uncommitted requests have no effect; a batch is accounted for; committed runs end |
| `agent` | two turns of up to two calls under every policy, two answers | tools run with consent to that very call unless somebody answered twice or out of turn; the ledger shows how a run ended; the run ends |
| `rules` | two overlapping requests of any kind, two evaluators, two approval requests, two required approvers | cached rules are as committed except in the recorded race; approved means approved by everybody; history is complete unless versions overlap; decisions and votes stand unless two that settle the same approval overlap |
| `engine` | any two different rules of nine, some of three; activity, batch and flow requests, real and dry; four events | what was evaluated and done is in the audits, in order and up to the first halt, what was done by an action that failed as well; what the audits show is the event as it was unless something changed it; dry runs do nothing; operators and their negations are exact; the test endpoint predicts the engine; requests end |
| `book` | every pair of 21 requests on three workflows without mail, and one request with three mails and one fault, or one mail and two faults | numbers and the active version stay in order, grants follow shares, columns that a request does not touch are left alone; each mail runs once and is forgotten only for a fault, a stop, the cap or the first search; requests end, deadlocks included |
| `vault` | every pair of tokens over four populations, one of which has no users yet, with handlers that commit midway; pairs of callbacks; a rotation beside a request and a callback; with and without the policies | requests act as their tokens say, or after a conflict as the row that was there; stamps are their own; nobody sees foreign rows; one consent makes one credential unless its reads overlapped; a rotation begun after the deployment leaves no old row; what was deleted stays so; requests end |

Runs that find a violation, each of a sentence of the documentation or of a
comment (the quotations are in the findings of `PROJECT.json`):

| run | what happens |
|---|---|
| `agent_slot` | a late second approval of one tool call is taken for the next call |
| `poller_replace` | replacing a poller fails because the old one was only asked to stop |
| `vault_rows` | under the policies a request lists none of its own credentials: its transaction was stamped before its tenant was known |

### Bounds

* Three nodes hold every shape that the sort distinguishes: self-loop, cycle,
  chain, fork, join, a node behind a cycle; self-loops and edges from nowhere
  are checked on two nodes. That the result does not depend on the size is
  proved. The executor adds four-node diamonds: a join of two branches of which
  one fails or waits is the smallest graph in which routing and failure meet.
* `AtOnce = 2`: two attempts to record a node are at work together, which is
  what it takes to insert two rows; `hiccups` bounds what is lost or fails,
  and `jobs` who uses the session beside a `web_scraper`. Where no scraper
  takes part, the session stands still: no other node touches it.
* Three gates are needed to tell "this gate", "an earlier gate" and "the next
  one" apart; two answers to contradict each other. The proofs cover any number.
* One request with two executions shows a batch that fails in the middle.
* `MaxCalls = 2` and `MaxSteps = 2` let an answer be late within a turn and
  across turns; the number of attempts of a dispatch (3) is the code's.
* Two requests suffice for every pair of overlapping handlers (`rules`, `book`,
  `vault`). The initial states of `rules` include an approval request that
  lacks any part of its votes, so that the last vote, its rival and a rejection
  can overlap.
* The rules of `engine` read and write the same two fields, one of them an
  object, so that each may change what the next decides; with two of them every
  pair of kinds meets, with three a rule before, at and behind a stop. A list
  has no rule twice, since ids are unique; one of the flows has no steps.
* `MaxEmails = 2` with three mails: the cap passes over one. `MaxAttempts = 2`
  with one fault: an attempt is late while its successor works; with two the
  attempts are used up.
* One seed, one consent and two callbacks: the races of the vault are about one
  row, or one state. `book` pairs requests without mails, and mails with one
  request, since the poller's loop reads nothing of the workflow but whether
  it is there.
* Deadlock is not checked, since runs end and requests are used up; that runs,
  nodes and requests end is a property of its own.

### Fairness

* `WorkflowExecutor`, `AgentRun`, the run of `ApprovalGate`, and each started
  run of `ExecutionLifecycle`: weak fairness of the run's own steps. Temporal
  drives a started workflow, fires its timers, and retries its activities until
  their policy is used up. Nothing is assumed of people.
* `NodeCalls`: weak fairness of the node's steps, of the record's beginning and
  writing, and of the child's (a child ends, or is stopped by its timeout).
  Failures are not fair, and bounded. A job goes on unless its worker dies.
* `Signal` and `Commit` of a call in `ApprovalGate`: a request that has begun
  ends, in one of its ways, failures included. API requests in
  `ExecutionLifecycle` and `RuleBook` have no fairness: they may stop anywhere.
* `RuleEngine`: weak fairness of the request: nothing it does waits for anybody
  but the database and receivers of webhooks, which have a timeout.
* `MailPoller`: each request goes on or is ended as the victim of a deadlock;
  the schedule ticks and its activities are carried on.
* `TenantVault`: a request that was received is worked on, and so is a
  rotation; strong fairness of commits, because PostgreSQL grants a lock in the
  order in which it was asked for.

## 4. What is proved

TLAPS checks every theorem to the last leaf. The assumptions are those named in
the modules: bounds are natural numbers, definitions are well formed
(`WorkflowGraph`, finite node sets), special values are not nodes, contents or
ids, tokens and rows have the shape that User Master and the unique keys of the
database guarantee. `PlansAssumption` says that the body of a `for_each` is
listed parents first and without repeats, as `_topological_sort` lists it;
`VaultAssumption` that credentials made by requests, by consents and before
have different ids (they are UUIDs). `BooksAssumption` says that a workflow
begins with versions numbered as publications number them, of which the current
one is active, and `OpsAssumption` that requests name columns and values that
`WorkflowCreate` and `WorkflowUpdate` let through. In `RuleEngine`,
`RequestsAssumption` says that records are trees (JSON objects) and that a
batch has one at least, `BooksAssumption` that the rules of a list have
different ids (the primary key), integers for priorities and lists for the
outputs of scripts, and
`TodayAssumption` that the day is a number.

| theorem | states |
|---|---|
| `SortCorrect` | for every finite graph: each node at most once, after all its parents, and exactly the nodes that no cycle holds back |
| `RunIsSound` | for every set of definitions, cyclic ones included: the types; no node is decided before all of its parents; a denied node never acts; however a run ends, no node row is left running (`RunInvariant`, of which `RunTypes`, `RunDecidesParentsFirst`, `RunKeepsDenials` and `RunLeavesNoNodeRunning` are the parts) |
| `RunCompletes` | a completed run left out no reachable node and hid no fatal error, and its rows say so |
| `RunRespectsRouting` | a node was started only along an edge that its parents' statuses and the label take; a node that such an edge reaches was skipped only if it was denied (`RoutingRespected`) |
| `RunOrdersTheAcyclicPart` | the sort inside a run lists exactly the nodes that no cycle holds back |
| `RunStatusesFinal` | no step changes a status that was given; one node runs at a time |
| `RunImplementsContract` | `WorkflowExecutor` implements `RunContract` |
| `CallsAreBounded` | for every plan, body and number of attempts: work is done no more often than it is tried, the nodes of a body once per item, in their order and entirely if the node succeeds; a success stands for a scrape that succeeded or a child that ended, whose row says how unless it was deleted or an attempt given up wrote late (`CallInvariant`) |
| `SessionsAreSound` | for any number of logins and scrapes, with or without actions that log in: where the configuration proves the inside a login stores only that, half a login only where it does not, and cookies are logged in only by a login or an action (`SessionInvariant`) |
| `LoginsStay` | the session descends from the login that was saved last, unless a scrape had loaded older cookies before that and was still to save (`LoginsAreKept`) |
| `RowsShowTheEnd` | for every plan and number of attempts, the row of a node that is done says how it ended, but for the recorded races |
| `GatesAreDecidedByAnswers` | for any number of gates and answers, decisions come from answers |
| `GateInvariantHolds` | the types, and gates of unlinked runs only time out |
| `RowsAreExplained` | once calls and run have settled, the row of a gate says what became of it, or one of the named races explains why not (`RowExplained`) |
| `RowsFollowTheirRuns` | for any number of executions, rows show the outcomes of runs that have nodes and no late write |
| `LifecycleInvariantHolds` | the types, and runs of uncommitted requests execute no node |
| `BatchesAreAccounted` | what `dispatch_event` reports as triggered has a run and a row, and what it dropped after the insert has a row (`BatchIsAccounted`) |
| `ToolsRunWithConsent` | for any number of turns, calls and answers: a gated tool runs with consent to that call, unless somebody answered twice or out of turn |
| `AgentInvariantHolds` | the types, and no tool runs against the policy or without any approval |
| `LedgersShowTheEnd` | the ledger shows how a run ended, unless a report was lost |
| `RulesAreEvaluatedFresh` | for any number of requests and evaluators, the cache is fresh but for the recorded race |
| `ApprovalsNeedEverybody` | however decisions overlap, approved means approved by everybody required |
| `HistoryIsKept` | the types of `RuleBook`; whatever a rule said is among its versions, and versions have numbers of their own, unless two requests that make versions overlapped (`BookkeepingInvariant`) |
| `DecisionsAreKept` | for any number of requests, a decided request for approval stays as it was decided and votes are never lost, until the rule is deleted, unless two requests that settle it were open together (`DecisionsStand`) |
| `IdentityIsSound` | for any number of requests, tokens and organisations: types and unique keys, every user has its organisation; `sync_identity` never ends without a row; a request that synced acts as its token says, in person, company and role, and one that was in conflict as a row of the identity or address of its token, whatever its company is; a stamp is the organisation of the user that the request acts for (`IdentityInvariant`) |
| `VaultKeepsIdentities` | `TenantVault` implements `IdentitySync`: what requests do with credentials, and callbacks and rotations beside them, is nothing to the identities |
| `VaultIsKept` | no transaction reads a credential of another organisation; a consent makes one credential unless its state was read twice; a rotation begun after the deployment leaves no old row (`VaultInvariant`) |
| `DeletedIsGone` | no step brings a deleted credential back (`DeletedStaysDeleted`) |
| `MailIsKept` | for any number of mails, attempts, faults and requests: a mail is run once and after its row was written, and no mail behind the cursor is forgotten, but for a fault, a stop, the cap, or the first search, which is for unread mail only (`MailInvariant`) |
| `BookIsKept` | for any requests that overlap on a workflow: types; versions have their own numbers and the current one is the active one, unless two publications overlapped; a run loads the version that was checked; a withdrawn share is in neither list, unless the service missed a call or changes of shares overlapped; wider mandates are honoured, unless the two were created together; deadlocks need a rollback or a deletion (`BookInvariant`) |
| `OthersKeepTheirColumns` | no commit changes a column that its request is not about, whatever was written since it read the row (`OthersAreLeftAlone`) |
| `RulesAreSorted` | a call evaluates each rule of the list once, by ascending priority, equal ones in the order of the list |
| `AuditIsKept` | for any rules, events, flows and batches: what was evaluated up to the first halt is audited, in order, and nothing behind it; each effect outside stands in one audit row, once, that of an action which failed afterwards as an error; a row shows the event as its rule left it, unless the event changed later (`AuditInvariant`) |
| `EngineIsKept` | events stay trees, flows keep their order, dry runs have no effects, operators that negate each other never agree (`EngineInvariant`) |
| `TestsPredict` | as long as nothing has changed the event, the engine decides as the test endpoint does (`TestPredicts`) |

The arguments:

* **Sort** (`SortInv`): in-degrees count the parents that are not yet listed;
  the queue holds exactly the unlisted nodes whose in-degree is zero; order and
  queue together have no repeats. Parents-first alone is not inductive: it
  needs the count.
* **Run** (`RunInv`): the nodes before `pos` in the order are decided and those
  behind it are not, except for the node at work; the row of a decided node
  follows its status; a fatal error is possible only where the loop stops.
  Routing (`RouteInv`) adds that a node with a row was let in by
  `_should_execute_node` and a skipped one was not, by the statuses as they are
  now: they are final, and the parents were decided before. The
  refinement has one case per action: the three actions that record a status
  are `Decide`, the marks are `Complete` or `Fail`, all else stutters.
* **Node** (`CallIInv`): for each stage, which attempt is at work and what it
  may have done; in a body, the items before this one are complete and the
  nodes of this one done up to where the loop is, each let in by its parents;
  the row of a child is what its run came to so far, or what an attempt that
  was given up has written since, or it was deleted. The cookies a job holds
  are none, or were captured by a login that the template lets get so far, or
  were read from a row of which the same holds, and lost levels or, by actions,
  gained them; a job saves only what it holds. A scrape that loaded after the
  latest login was saved holds what descends from it, and any other is in
  `crossed` or over. For the row: as long as no attempt was
  given up, the attempts at work are the one that is awaited, so the list of
  rows is empty, or the one row that the last record left.
* **Gates** (`GateInv`): the token in the row is never ahead of the gate, a
  call in progress asks for a gate already registered, and the decision in the
  run was delivered by a call that asked for this gate or an earlier one.
  For the row (`RowInvariant`), its token is that of the gate the run waits at,
  or of one that is over; what the row was decided to be a committed call has
  decided, and each call that committed for the gate in the row has decided it.
* **Lifecycle** (`LifeInv`): before the commit no row is visible to anybody; a
  run starts once, and has no outcome before it ends; only `slow` runs have
  writes that may come late. The run of a request that did not commit therefore
  never gets past the record of its first node, and an outcome is written by
  the step that returns it. A batch (`BatchInv`) is accounted for because a row
  is drafted before its run is started, and marked after.
* **Agent** (`SafeInv`): nobody has answered a call that has not come yet; a
  call that is over and was answered has had an answer delivered, so that a
  further one of it is a second; hence whatever is in the slot while a call
  waits is an answer to that call, unless one was repeated or out of turn, and a
  call being dispatched was allowed or approved. As long as no report is lost,
  the ledger is a function of where the run is (`LedgerInv`).
* **Rules**: `CacheInv` says that once an open request has invalidated, every
  value that an evaluator holds, and the entry of the cache, is marked as raced,
  and that a request that writes the rule invalidates before it commits; `VotesInv` says that every vote in
  a row or on its way back to one was cast, or is cast by committing;
  `HistoryInv` that, while makers of versions do not overlap, at most one open
  request holds a version to be, its number is beyond those there are, and what
  it read is still what the rule says. For the decisions (`StandInv`), what an
  open request has read of a request for approval that it settles is still so,
  unless another is to settle it too, or the rule is gone: whoever deletes the
  rule waits until nobody has locked anything, and then nobody can lock, so
  that nothing is written to a rule that is gone.
* **Identities**: an invariant `Sound` of each request says what it knows at
  each place of its code, and `Apart` of each pair of requests that no two hold
  the same key, which is what makes the rows unique when they commit. The
  stamp of the first transaction is nobody's, as it begins before the tenant is
  known, which is also why `vault_rows` finds its violation: no handler of the
  tables under the policies commits on its way. Where one does, the next
  transaction is stamped with `tenant`, which `Admit` has set to the
  organisation of the row the request acts for, and nothing sets it again.
* **Vault** (`VaultIInv`): until its
  transaction ends nothing a request has inserted is committed, under the key
  it arrived with; a state is gone once a callback has dropped it, so that of
  two callbacks with one state both get further only if both read it before;
  and a rotation that began when nobody worked with the old key has each row
  that is not yet under the new one among those it still has to write. That
  rows are seen by their owners alone follows from the filter by organisation
  in the queries, with or without the policies. The requests of the vault are
  requests of `IdentitySync` (step simulation).
* **Mail** (`MailIInv`): what an attempt found, and what a late one will store,
  reaches up to a mail below which all is accounted for: run, about to be run,
  or excused; the mails that a search leaves out because they were read are
  excused by it. So wherever the cursor is set, be it forward or back, nothing
  below it is forgotten. A mail is run only after the row of its unique id was
  written by this run of the poller, and never when there was a row.
* **Workflow** (`BookIInv`): of two requests that are at work
  together the pair is in `overlapped`, so whoever commits has overlapped with
  whoever is at work. What a session relies on is stated up to those pairs:
  the number it drew is beyond those of all versions but of publications it
  overlapped with; the pointer it read is the row's, and the shares it read
  are, unless a rival of its kind overlapped. Its copy differs from what it
  read only in its own columns, which is why a commit leaves the others alone.
  For the deadlocks (`HoldsBefore`): updates and changes of shares wait holding
  nothing, a publication holding only a version and the key of the workflow,
  which no other publication has to wait for.
* **Engine** (`EngineIInv`): each rule
  before the one at work, of this call and of earlier ones, is accounted for:
  left out by its filter, audited, or behind an audited rule that halted its
  call. The rows are in order of calls and rules, and only the last row of a
  call may have halted. An effect is that of an action in a row or of one that
  the rule at work has executed, at its place, and no place has two. What the
  rule at work set last holds in the event; what the rule of a row set last
  holds in the event that the row shows, unless `mutations` has grown since. While `mutations` is
  empty the event is the one that was sent. Events stay trees since `SetAll`
  removes what is below a field that it sets, and `Settable` refuses one that
  has a value above it.

Model-checked only: all liveness properties (`RunEnds`, `NodeEnds`,
`RequestEnds` and the like), which the prover does not reach; and what
recursion and filters over data compute, that is nested groups (`EvalGroup`)
and the rows of a decision table (`RowsHit`, `EvalTable`): the theorems hold
whatever they return, and `engine` evaluates them. Every safety invariant and
every action property of a passing run is stated by a theorem.

## 5. Assumptions of the models

* Temporal executes a workflow deterministically and once; signals that it
  accepted reach the run. Termination by an operator is not modelled, and
  cancellation only of pollers, where the code requests it.
* Late attempts of activities are modelled in `ExecutionLifecycle`, `NodeCalls`
  and `MailPoller`; the detailed run lets an activity's failure and its write
  coincide instead.
* A session whose flush failed is lost. PostgreSQL runs at READ COMMITTED.
* Parallel edges between two nodes collapse; the label of the last one wins,
  as in `edge_branches`.
* The ledger of agent runs belongs to another service: reports may be lost or
  reach it after the run gave them up, but not overtake each other.
* In `RuleBook` an inactive rule counts as a draft, the required approvers do
  not change, and the contents leave out the priority, which
  `update_priority` changes without adding a version.
* In `RuleEngine` scripts and the comparison of texts are external; a date is
  its day.
* In `ScraperSession` a template says whether its markers prove the inside of
  the site (`proves`): a URL or a selector of success does where the
  configuration is right, a URL of failure or an assertion amid the steps does
  not, and both kinds of templates take part.
* No two nodes of a definition have one id. The builder makes them so, and
  nothing checks it: a root that is listed twice would be sorted and run twice.
* In `RuleEngine` a statement that fails, or a commit, ends as a request that
  raised. In `MailPoller` a fetch that returns nothing counts as a fault.
* Calls to the authorisation service arrive or are lost; it does not reorder
  them.

## 6. Divergences noticed and not given a run

Of runs and nodes:

* Branches run one node at a time, in the order of the sort, also while one of
  them waits for an approval: the loop (workflow_executor.py:260) awaits each
  node, where the guide (docs/user-guide-workflows-rules-forms.md:962) says
  "Both branches execute concurrently." `StatusesAreFinal` states what the code
  does.
* An edge labelled `switch_a` is never followed: `_is_edge_live` compares the
  status of the parent with `switch_` and the label (workflow_executor.py:1413),
  where the guide says to label edges `switch_{case_label}`
  (docs/user-guide-workflows-rules-forms.md:652), as the docstring of the
  function does: both branches of such a switch are skipped.
* The second gate of a run opens by the decision given to the first:
  `_approval_status` (workflow_executor.py:541) is never reset, where the guide
  (709) says "Suspend workflow until a human approves or rejects."
  `DecidedByAnAnswer` names this case.
* A signal that fails is logged and the request marked as answered
  (executions.py:267), though "Clicking either resumes the workflow" (guide,
  719). `RowExplained` names this case.
* The run starts before its row is committed (workflow_service.py:129), so a
  transaction that fails leaves a run without a row, where the requirements
  (docs/REQUIREMENTS.md:7) say the engine "durably, records every run".
* A failed condition, switch, gate or merge does not fail the run, and the node
  behind a failed one with `continue_on_error` is skipped, not given an empty
  input (guide, 997-1001).
* `timeout_hours = 0` rejects at once; the guide (716) promises to wait for ever.
* Two concurrent answers to one gate are both accepted, where a second one
  should be answered 409.
* "Upsert node execution record" (state_activity.py:92), but there is no unique
  key: two attempts that overlap insert two rows, every later one finds two,
  fails, and is retried for ever, and the run with it. `NodeEnds` names this
  case. A start record that is late sets a finished row back to running.
* A child that failed is the output of a node that succeeded
  (call_workflow_activity.py:96-98; its docstring, 37, says otherwise). The row
  of a child that could not be started stays pending; the id of a child is made
  of eight characters of its parent's, so two may collide; when the worker dies
  the node fails and the child runs on.
* In the body of a for_each an edge to a node outside is a `KeyError`, routing
  types are unknown, edges labelled `error` are never live, and an item that
  fails fails the node after the effects of the items before it.
* `AgentRunResult.status` documents `denied` and `failed`, which no run
  returns; a run that raises leaves the ledger at `running`; the parent node
  takes a timed-out agent run for a success.
* The row of a child may say `running` after the child has ended, when an
  attempt to mark it was given up and went on (workflow_executor.py:221); the
  same holds of the row of any run. `CallInvariant` and
  `FinishedRowsShowOutcome` name these cases.

Of rules:

* The last approval overwrites a concurrent rejection and publishes the rule:
  `decide_approval` (rules.py:974) reads without a lock, where
  models/rule_approval.py:27 says "Any rejection -> status = rejected, rule stays
  draft". `DecisionsStand` names this overlap.
* A workflow that an action has triggered may run although the result of the
  action is an error, with no type (rule_engine.py:438): its start is followed
  by statements that may fail (workflow_service.py:141-149).
* A filter on the `data` of an event whose `data` is no object raises
  (rule_engine.py:558), and fails the request.
* `publish_rule` ignores `approval_required` (guide 386); rules are evaluated
  by ascending priority where the guide says descending.
* Each step of a flow runs all rules of the organisation that match, not its own
  (docstring, rule_flows.py:191-200), and `pass_output` applies `set_field`
  again. The node `evaluate_rules` returns its input and not the event that the
  rules have changed (docstring, 28).
* A script that fails still merges its `error` into the event
  (js_engine.py:133-137). `send_email` is only recorded as queued.
  `stop_on_match` halts after the actions, `stop_processing` at once. The
  guide's hit policy `collect` is unknown to the code, which has `collect_all`.
  The test endpoint takes every script for a match. `GET /approvals` is
  shadowed by the route of one rule.

Of identities and credentials:

* After a conflict the row of an address may belong to another company than the
  token's (identity_sync.py:156-158).
* A rotation under the policies, by a role that is not exempt, reads no rows and
  reports success; rows created under the old key after it has read stay old;
  `scraper_sessions.session_data` is not rotated.
* The redirection of OAuth2 carries no token, so its insert is refused under the
  policies, after the code was used.

Of workflows and pollers:

* `update` does not derive `trigger_type` anew; a config alone replaces the
  conditions that were lifted into it; it starts a poller whatever the trigger
  is, and publish and rollback start or stop none; import does neither. The
  check for conflicting triggers is made on creation only.
* The webhook address in `trigger-info` has the id and `webhook_trigger` where
  the receiver wants the slug and `webhook`. Workflows mandated for all are
  listed for all, and are not found by GET and execute.
* A withdrawal that fails leaves the access (workflows.py:457). Versions of a
  deleted workflow are kept without it.
* Mails are lost that nothing brings back: those read elsewhere before the
  first poll, since without a cursor the search is for unread mail
  (imap_activity.py:114), and those an attempt had fetched, which marks them as
  read, when it died before it stored the first cursor; those whose fetch
  returned nothing when a later one was found (131-132); those above the cap
  (121); those of a batch whose result or whose rows were lost, since the cursor
  is stored first (146). `MailInvariant` and `MailIsNoticed` name these reasons.
* An error of the call that stops a poller is swallowed
  (imap_poller_service.py:90-91): the poller of a deleted workflow goes on.

Of scrapers:

* The lock is there "so two concurrent scrapes don't race on the same persisted
  cookies" (comment, scraper_activity.py:190-191), but it is set without asking
  whether it is there, nobody reads it, and whoever ends first deletes the
  other's. A slow scrape writes its cookies over those of a fresh login, and
  one that was logged out saves that. `LoginsAreKept` names these scrapes.
* Without a marker, or with one of failure alone, a login whose codes were
  refused is saved half authenticated (docstring, 411-413).

## 7. Not modelled, and why

* Scheduled calls: one Temporal call each to register and to cancel, with
  `TERMINATE_IF_RUNNING`, and nothing is kept here.
* Rate limiter: the decision is one script in Redis or one synchronous function.
  That a full table clears every counter (rate_limit.py:168) is the one hazard
  without a property.
* HTTP client: breaker and retries come from a package that is not part of this
  repository, and no call here sets the idempotency key.
* What node activities, domain conditions and scripts compute and send: pure
  input and output, or the evaluation of one expression.
* Forms, integrations, node types and the other CRUD routers: single-row
  writes of one transaction. Office scopes of workflows, `update_priority`,
  validation and generation of rules by a model, and flows as records.
* Hardening middleware: stateless filters.
* Configuration, start-up, migrations, user interfaces, software development
  kits generated by `rules.py`: wiring or presentation.
* What becomes of the runs a poller started when it is cancelled: that is
  Temporal's parent close policy.

## 8. Plan

Done: all the modules of section 2, with the proofs of section 4. Left, most
important first:

1. The composition of `ApprovalGate` with the row of `ExecutionLifecycle`, and
   of `NodeCalls` with `WorkflowExecutor` by a refinement of one node's step.
2. The rate limiter: fixed windows and eviction against a reference counter.
