------------------------------ MODULE RuleEngine ------------------------------
(***************************************************************************)
(* process_event and its three callers: the steps of a rule flow, the      *)
(* records of a batch, and the node evaluate_rules of a workflow.          *)
(*                                                                         *)
(* A call of process_event goes through the rules of the organisation in   *)
(* the order of their priorities and runs the actions of each.  Actions    *)
(* change the event in place; the audit rows refer to it until the session *)
(* flushes them.  Everything is in one transaction; the runs that were     *)
(* started and the webhooks that were sent are not.                        *)
(***************************************************************************)
EXTENDS RuleConditions, FiniteSets

CONSTANTS
  Holds(_, _), \* whether a group of conditions holds of an event: see RuleGroups
  Requests,   \* [caller, dry_run, steps, records]: see Calls
  Books,      \* the published rules that listen to the event, as cached
  Workflows   \* the active workflows of the organisation

IsSequence(s) == s \in Seq(Range(s))

\* A batch has at least one record: another one does nothing.
ASSUME RequestsAssumption ==
  \A r \in Requests :
    /\ r.caller \in {"activity", "batch", "flow"}
    /\ r.dry_run \in BOOLEAN
    /\ r.records # <<>> /\ IsSequence(r.records) /\ \A d \in Range(r.records) : IsTree(d)
    /\ IsSequence(r.steps) /\ \A s \in Range(r.steps) : s.step_order \in Int

ASSUME BooksAssumption ==
  \A b \in Books :
    /\ IsSequence(b)
    /\ \A i, j \in DOMAIN b : b[i].id = b[j].id => i = j
    /\ \A r \in Range(b) : r.priority \in Int /\ (r.type = "javascript" => IsSequence(r.conditions.output))

NoRule == "none"
Missed == "gone"  \* a step whose rule was deleted

VARIABLES
  request, book,
  steps,     \* the steps of the flow, as loaded
  at,        \* "call", "rule", "act", "return", "committed" or "raised"
  call,      \* index of the step, or of the record
  rules,     \* those of the call, by priority
  pos,       \* index of the rule
  event,     \* event_data
  current,   \* the rule under evaluation: [matched, todo, executed, halted]
  matched,   \* the list that process_event returns
  audits,    \* the RuleAuditLog rows of the session
  effects,   \* runs started and webhooks sent
  mutations, \* what changed the event (history)
  skipped    \* rules left out by their filters, as <<call, rule>> (history)

place == <<at, call, pos>>
outside == <<audits, effects, mutations, skipped>>
vars == <<request, book, steps, rules, place, event, current, matched, outside>>

-----------------------------------------------------------------------------
(* Rules in the order in which they are evaluated.                         *)

\* list.sort is stable: the place of a rule is how many come before it.
Sorted == LET before(i, j) == book[i].priority < book[j].priority \/ (book[i].priority = book[j].priority /\ i < j)
              place_of(i) == Cardinality({ j \in DOMAIN book : before(j, i) }) + 1
          IN [n \in DOMAIN book |-> book[CHOOSE i \in DOMAIN book : place_of(i) = n]]

Rule == rules[pos]

Calls == IF request.caller = "flow" THEN Len(steps) ELSE Len(request.records)

\* What the keys of "data" hold hides what the event has at the top.
Flat(key) == LET inner == GetField(event, <<"data", key>>)
             IN IF inner # Missing THEN inner ELSE GetField(event, <<key>>)

\* A "data" that is neither empty nor an object cannot be laid over the event.
Unfilterable(rule) == rule.filter # <<>> /\ GetField(event, <<"data">>) \notin {Missing, Object, ""}

PassesFilter(rule) == ~Unfilterable(rule) /\ \A key \in DOMAIN rule.filter : Flat(key) = rule.filter[key]

\* A script that fails is no match, and still has an output: its error.
RunScript(script) ==
  LET holds == Holds(event, script.holds)
  IN IF script.fails THEN [matched |-> FALSE, output |-> << [field |-> <<"error">>, value |-> "error"] >>]
     ELSE [matched |-> holds, output |-> IF holds THEN script.output ELSE <<>>]

Branch(rule, holds) == IF holds THEN rule.actions ELSE rule.else_actions

TableDecidesByActions(t) == [matched |-> t.actions # <<>>, todo |-> t.actions, output |-> <<>>]
TableDecides(t) == [matched |-> t.matched, todo |-> t.actions, output |-> <<>>]

\* A table decides its actions alone, also when no row matches; a script that
\* matches may bring its own.
Decide(rule) ==
  CASE rule.type = "decision_table" -> TableDecides(EvalTable(event, rule.conditions))
    [] rule.type = "javascript" ->
         LET s == RunScript(rule.conditions)
         IN [matched |-> s.matched, output |-> s.output,
             todo |-> IF s.matched /\ rule.conditions.actions # <<>> THEN rule.conditions.actions
                      ELSE Branch(rule, s.matched)]
    [] OTHER ->
         LET holds == Holds(event, rule.conditions)
         IN [matched |-> holds, todo |-> Branch(rule, holds), output |-> <<>>]

\* _set_nested for each item in turn, as far as none is obstructed: an item
\* stands unless a later one sets its field or something above it.
Stands(items, i) == \A j \in DOMAIN items : j > i => ~IsPrefix(items[j].field, items[i].field)
SetAll(items) ==
  LET standing == { i \in DOMAIN items : Stands(items, i) }
      set  == { items[i].field : i \in standing }
      kept == { q \in DOMAIN event : \A i \in DOMAIN items : ~IsPrefix(items[i].field, q) }
      setter(q) == CHOOSE i \in standing : items[i].field = q
  IN [q \in kept \cup set |-> IF q \in set THEN items[setter(q)].value ELSE event[q]]
Settable(items) == \A i \in DOMAIN items :
  ~Obstructed(SetAll(Restrict(items, { j \in DOMAIN items : j < i })), items[i].field)

-----------------------------------------------------------------------------
\* A step saved without an order, or with 0, takes its index.
StepOrder(given, i) == IF given[i].step_order # 0 THEN given[i].step_order ELSE i - 1

\* The orders in which the database may return the steps of a flow.
Loaded(given) ==
  { [n \in DOMAIN given |-> given[f[n]]] :
      f \in { p \in Bijection(DOMAIN given, DOMAIN given) :
                \A m, n \in DOMAIN given : m < n => StepOrder(given, p[m]) <= StepOrder(given, p[n]) } }

Nothing == [matched |-> FALSE, todo |-> <<>>, executed |-> <<>>, halted |-> FALSE]

Init ==
  /\ request \in Requests
  /\ book \in Books
  /\ steps \in Loaded(request.steps)
  /\ at = (IF Calls = 0 THEN "committed" ELSE "call") /\ call = 1 /\ pos = 1
  /\ rules = <<>>
  /\ event = request.records[1]
  /\ current = Nothing
  /\ matched = <<>> /\ audits = <<>> /\ effects = <<>> /\ mutations = <<>> /\ skipped = {}

Goto(to) == at' = to /\ UNCHANGED <<call, pos>>

\* An exception leaves the handler: the transaction is rolled back.
Raise == Goto("raised") /\ UNCHANGED <<event, current, matched, effects, mutations, skipped>> /\ audits' = <<>>

\* A statement of the session writes the rows it has first.
Flushed(rows) == [i \in DOMAIN rows |-> [rows[i] EXCEPT !.flushed = TRUE]]

\* The event is changed in place: rows that are not flushed show it.
ChangeEvent(to, by) ==
  /\ event' = to
  /\ audits' = [i \in DOMAIN audits |->
                  IF to = event \/ audits[i].flushed \/ (request.caller = "batch" /\ audits[i].call # call) THEN audits[i]
                  ELSE [audits[i] EXCEPT !.event = to]]
  /\ mutations' = IF to = event THEN mutations ELSE Append(mutations, [call |-> call, pos |-> pos, by |-> by])

\* execute_flow looks up the rule of its step, and then evaluates every rule.
SkipsStep == request.caller = "flow" /\ steps[call].rule \in {NoRule, Missed}

NextCallUnlessSkipped ==
  at' = (IF call = Calls THEN "committed" ELSE "call") /\ call' = (IF SkipsStep THEN call ELSE call + 1) /\ pos' = 1
NextCall == at' = (IF call = Calls THEN "committed" ELSE "call") /\ call' = call + 1 /\ pos' = 1

CallBegins ==
  /\ at = "call"
  /\ ~SkipsStep
  /\ at' = "rule" /\ pos' = 1 /\ UNCHANGED call
  /\ event' = IF request.caller = "batch" THEN request.records[call] ELSE event
  /\ rules' = Sorted
  /\ matched' = <<>>
  /\ audits' = IF request.caller = "flow" THEN Flushed(audits) ELSE audits
  /\ UNCHANGED <<current, effects, mutations, skipped>>

StepSkipped ==
  /\ at = "call"
  /\ SkipsStep
  /\ NextCall
  /\ audits' = IF steps[call].rule = Missed THEN Flushed(audits) ELSE audits
  /\ UNCHANGED <<event, current, matched, effects, mutations, skipped>>

\* One rule: filter, condition, and the output of a script, which is merged
\* into the event in dry runs as well.
Filter ==
  /\ at = "rule" /\ pos <= Len(rules)
  /\ ~PassesFilter(Rule)
  /\ \/ /\ ~Unfilterable(Rule)
        /\ pos' = pos + 1 /\ UNCHANGED <<at, call>>
        /\ skipped' = skipped \cup {<<call, pos>>}
        /\ UNCHANGED <<event, current, matched, audits, effects, mutations>>
     \/ Unfilterable(Rule) /\ Raise

Evaluate ==
  /\ at = "rule" /\ pos <= Len(rules)
  /\ PassesFilter(Rule)
  /\ LET d == Decide(Rule)
     IN \/ /\ Settable(d.output)
           /\ current' = [Nothing EXCEPT !.matched = d.matched, !.todo = d.todo]
           /\ ChangeEvent(SetAll(d.output), "script")
           /\ Goto("act")
           /\ UNCHANGED <<matched, effects, skipped>>
        \/ ~Settable(d.output) /\ Raise

-----------------------------------------------------------------------------
(* Actions.                                                                *)

Halts(result) == result.type = "stop_processing" \/ (current.matched /\ Rule.stop_on_match)

Result(type, status) == [type |-> type, status |-> status]

\* The result of a run that could not be triggered, and of an action that is
\* not known, does not say of which type the action was.
Untyped == Result("untyped", "error")

\* The loop stops after the first action of a rule that stops on a match.
Executed(result) ==
  /\ current' = [current EXCEPT !.executed = Append(@, result), !.todo = Tail(@), !.halted = ~request.dry_run /\ Halts(result)]
  /\ Goto("act")
  /\ UNCHANGED <<matched, skipped>>

Acting(type) ==
  /\ at = "act" /\ current.todo # <<>> /\ ~current.halted
  /\ ~request.dry_run
  /\ Head(current.todo).type = type

Action == Head(current.todo)

Preview ==
  /\ at = "act" /\ current.todo # <<>>
  /\ request.dry_run
  /\ Executed(Result(Action.type, "preview"))
  /\ UNCHANGED <<event, audits, effects, mutations>>

Effect(type) == [call |-> call, pos |-> pos, nth |-> Len(current.executed) + 1, type |-> type]

\* The lookup flushes, unless the id is none; the run starts within the
\* transaction, and what fails then, also after it started (the status in
\* Redis, the answer of the server), is a result like any other.
TriggerWorkflow ==
  /\ Acting("trigger_workflow")
  /\ \/ /\ Action.workflow \in Workflows
        /\ Executed(Result("trigger_workflow", "ok")) \/ Executed(Untyped)
        /\ effects' = Append(effects, Effect("trigger_workflow"))
        /\ audits' = Flushed(audits)
     \/ /\ Executed(Untyped)
        /\ audits' \in {audits, Flushed(audits)}
        /\ UNCHANGED effects
  /\ UNCHANGED <<event, mutations>>

\* Sent, with whatever answer; or not, or without an answer.
SendWebhook ==
  /\ Acting("send_webhook")
  /\ \E answered \in BOOLEAN : \E sent \in {TRUE, answered} :
       /\ Executed(Result("send_webhook", IF answered THEN "ok" ELSE "error"))
       /\ effects' = IF sent THEN Append(effects, Effect("send_webhook")) ELSE effects
  /\ UNCHANGED <<event, audits, mutations>>

\* Nothing takes a queued mail up.
SendEmail ==
  /\ Acting("send_email")
  /\ Executed(Result("send_email", "queued"))
  /\ UNCHANGED <<event, audits, effects, mutations>>

SetFieldAction ==
  /\ Acting("set_field")
  /\ LET value == Interp(event, Action.value)
     IN \/ /\ ~Obstructed(event, Action.field)
           /\ Executed([type |-> "set_field", status |-> "ok", field |-> Action.field, value |-> value])
           /\ ChangeEvent(SetNested(event, Action.field, value), "action")
           /\ UNCHANGED effects
        \/ Obstructed(event, Action.field) /\ Raise

\* The list of tags is an object with one key per tag.
AddTag ==
  /\ Acting("add_tag")
  /\ LET tag == <<"_tags", Action.tag>>
     IN \/ /\ ~Obstructed(event, tag)
           /\ Executed(Result("add_tag", "ok"))
           /\ ChangeEvent(SetNested(event, tag, Action.tag), "action")
           /\ UNCHANGED effects
        \/ Obstructed(event, tag) /\ Raise

StopProcessing ==
  /\ Acting("stop_processing")
  /\ Executed(Result("stop_processing", "ok"))
  /\ UNCHANGED <<event, audits, effects, mutations>>

\* The marker of a table whose rows conflict is such an action.
UnknownAction ==
  /\ Acting("error")
  /\ Executed(Untyped)
  /\ UNCHANGED <<event, audits, effects, mutations>>

AuditOf(data) ==
  [call |-> call, pos |-> pos, matched |-> current.matched, executed |-> current.executed,
   event |-> data, flushed |-> FALSE, mutations |-> Len(mutations)]

AuditedAsSent == IF request.dry_run THEN audits ELSE Append(audits, AuditOf(request.records[1]))
Audited == IF request.dry_run THEN audits ELSE Append(audits, AuditOf(event))

\* The audit row of the rule, and its place in what process_event returns.
RuleEnds ==
  /\ at = "act"
  /\ current.todo = <<>> \/ current.halted
  /\ audits' = Audited
  /\ matched' = IF current.matched \/ current.todo # <<>> \/ current.executed # <<>>
                THEN Append(matched, [pos |-> pos, matched |-> current.matched, executed |-> current.executed])
                ELSE matched
  /\ at' = (IF current.halted THEN "return" ELSE "rule") /\ pos' = pos + 1 /\ UNCHANGED call
  /\ current' = Nothing
  /\ UNCHANGED <<event, effects, mutations, skipped>>

RulesEnd ==
  /\ at = "rule" /\ pos > Len(rules)
  /\ Goto("return")
  /\ UNCHANGED <<event, current, matched, outside>>

\* A step of a flow that passes its output sets the fields of its rule again,
\* over what later rules made of them.
OwnResults == { m \in Range(matched) : m.matched /\ rules[m.pos].id = steps[call].rule }
PassedOn ==
  IF request.caller = "flow" /\ steps[call].pass_output /\ OwnResults # {}
  THEN LET x == (CHOOSE m \in OwnResults : TRUE).executed
       IN Restrict(x, { i \in DOMAIN x : x[i].type = "set_field" /\ x[i].status = "ok" })
  ELSE <<>>

CallReturns ==
  /\ at = "return"
  /\ \/ Settable(PassedOn) /\ ChangeEvent(SetAll(PassedOn), "flow") /\ NextCall /\ UNCHANGED <<current, matched, effects, skipped>>
     \/ ~Settable(PassedOn) /\ Raise

AsSent == UNCHANGED <<request, book, steps>>
AsLoaded == AsSent /\ UNCHANGED rules

Next ==
  \/ CallBegins /\ AsSent
  \/ StepSkipped /\ AsLoaded
  \/ Filter /\ AsLoaded
  \/ Evaluate /\ AsLoaded
  \/ Preview /\ AsLoaded
  \/ TriggerWorkflow /\ AsLoaded
  \/ SendWebhook /\ AsLoaded
  \/ SendEmail /\ AsLoaded
  \/ SetFieldAction /\ AsLoaded
  \/ AddTag /\ AsLoaded
  \/ StopProcessing /\ AsLoaded
  \/ UnknownAction /\ AsLoaded
  \/ RuleEnds /\ AsLoaded
  \/ RulesEnd /\ AsLoaded
  \/ CallReturns /\ AsLoaded

\* No step waits for anybody but the database and the receivers of webhooks,
\* which have a timeout.
Spec == Init /\ [][Next]_vars /\ WF_vars(Next)

-----------------------------------------------------------------------------
(* POST /rules/test evaluates the same rules in its own way: each on the   *)
(* event as it was sent, a script like a group without members.            *)

TestMatch(rule, data) ==
  CASE rule.type = "decision_table" -> EvalTable(data, rule.conditions).matched
    [] rule.type = "javascript"     -> TRUE
    [] OTHER                        -> Holds(data, rule.conditions)

-----------------------------------------------------------------------------
(* Properties.                                                             *)

\* The event stays a tree, and the indexes in range.
TypeOK ==
  /\ at \in {"call", "rule", "act", "return", "committed", "raised"}
  /\ call \in 1 .. Calls + 1 /\ pos \in 1 .. Len(rules) + 1
  /\ IsTree(event)
  /\ \A i \in DOMAIN audits : IsTree(audits[i].event)

HaltedBy(a) ==
  /\ a.executed # <<>>
  /\ a.executed[Len(a.executed)].type = "stop_processing" \/ (a.matched /\ rules[a.pos].stop_on_match)

\* A committed request has audited, in order, each rule that its filter let
\* through, up to and with the first that halted the processing, and none
\* after that, in every step or record (process_event, rule_flows, batch).
AuditsAreComplete ==
  /\ \A i, j \in DOMAIN audits : i < j /\ audits[i].call = audits[j].call =>
       audits[i].pos < audits[j].pos /\ ~HaltedBy(audits[i])
  /\ at = "committed" /\ ~request.dry_run =>
       \A c \in 1 .. Calls, p \in DOMAIN book :
         \/ request.caller = "flow" /\ steps[c].rule \in {NoRule, Missed}
         \/ <<c, p>> \in skipped
         \/ \E i \in DOMAIN audits : audits[i].call = c /\ audits[i].pos = p
         \/ \E i \in DOMAIN audits : audits[i].call = c /\ audits[i].pos < p /\ HaltedBy(audits[i])

\* The steps of a flow that were saved without an order run as they were
\* listed (_sync_steps, _load_steps).
FlowsKeepTheirOrder ==
  (\A i \in DOMAIN request.steps : request.steps[i].step_order = 0) => steps = request.steps

\* A dry run starts nothing, sends nothing and leaves no audit; only a script
\* may change its event.
DryRunsHaveNoEffects ==
  request.dry_run => /\ effects = <<>> /\ audits = <<>>
                     /\ \A i \in DOMAIN mutations : mutations[i].by = "script"

\* What a committed request has done outside and what its audits say agree.
\* Each run that started and each webhook that was sent stands once, in the
\* audit of one rule, under its place among the actions, if only as an error:
\* a run may have started although its result is one.  And what stands there
\* as done was done, once (execute_action, trigger_workflow).
AsDone(x, e) == x.type = e.type \/ (e.type = "trigger_workflow" /\ x = Untyped)
IsDone(x) == x.type \in {"trigger_workflow", "send_webhook"} /\ x.status = "ok"

EffectsAreAudited ==
  at = "committed" =>
    /\ \A e \in Range(effects) :
         /\ Cardinality({ i \in DOMAIN effects : effects[i] = e }) = 1
         /\ \E i \in DOMAIN audits :
              /\ audits[i].call = e.call /\ audits[i].pos = e.pos
              /\ e.nth \in DOMAIN audits[i].executed
              /\ AsDone(audits[i].executed[e.nth], e)
    /\ \A i \in DOMAIN audits : \A k \in DOMAIN audits[i].executed :
         IsDone(audits[i].executed[k]) =>
           [call |-> audits[i].call, pos |-> audits[i].pos, nth |-> k, type |-> audits[i].executed[k].type]
             \in Range(effects)

\* An audit row shows the event as its rule left it, unless something changed
\* the event later, before a statement flushed the row.
AuditsShowTheEvent ==
  at = "committed" =>
    \A i \in DOMAIN audits :
      \/ \A k \in DOMAIN audits[i].executed :
            LET x == audits[i].executed[k]
            IN x.type = "set_field" => \/ GetField(audits[i].event, x.field) = x.value
                                       \/ \E l \in k + 1 .. Len(audits[i].executed) :
                                            audits[i].executed[l].type \in {"set_field", "add_tag"}
      \/ Len(mutations) > audits[i].mutations

\* As long as nothing changed the event, the test endpoint tells what the
\* engine decides, scripts excepted (test_rules against process_event).
TestPredicts ==
  at = "act" /\ mutations = <<>> /\ Rule.type # "javascript" /\ request.caller # "batch" =>
    current.matched = TestMatch(Rule, request.records[1])

\* Of two operators that negate each other exactly one holds, whatever the
\* field is; of two opposite comparisons at most one (_eval_leaf).
NegationsAreExact ==
  at = "call" => \A p \in {<<"a">>, <<"o">>, <<"o", "k">>}, v \in {"", "1", "2", "x"} :
    LET holds(op, ref) == EvalLeaf(event, [op |-> op, field |-> p, value |-> ref])
    IN /\ \A op \in DOMAIN Negative \ {"not_in"} : holds(op, v) <=> ~holds(Negative[op], v)
       /\ holds("not_in", {v, "2"}) <=> ~holds("in", {v, "2"})
       /\ \A o \in {<<"gt", "lte">>, <<"lt", "gte">>, <<"within_last_n_days", "older_than_n_days">>,
                    <<"date_before", "date_after">>, <<"is_true", "is_false">>} :
            ~(holds(o[1], v) /\ holds(o[2], v))

\* What the rows of rule_audits say of a request: all that was evaluated, all
\* that was done, and the event as it was.
AuditInvariant ==
  /\ AuditsAreComplete
  /\ EffectsAreAudited
  /\ AuditsShowTheEvent

\* What holds of the evaluation of lists, flows and dry runs, with the types.
EngineInvariant ==
  /\ TypeOK
  /\ FlowsKeepTheirOrder
  /\ DryRunsHaveNoEffects
  /\ NegationsAreExact

\* Every request ends, committed or rolled back.
RequestEnds == <>(at \in {"committed", "raised"})
=============================================================================
