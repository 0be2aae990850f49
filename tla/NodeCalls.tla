------------------------------ MODULE NodeCalls ------------------------------
(***************************************************************************)
(* One node of a run, from the record that it runs to the record of how it *)
(* ended: the call of its activity with its retries, the body of a         *)
(* for_each, the child run of a call_workflow, the scrape of a             *)
(* web_scraper; and the attempts of update_node_execution that write its   *)
(* row, the ones that were given up and go on included.                    *)
(*                                                                         *)
(* WorkflowExecutor takes a node in one step and says nothing of its       *)
(* effects outside; this module says nothing of the nodes around it.       *)
(***************************************************************************)
EXTENDS ScraperSession, WorkflowGraph

CONSTANTS
  Plans,   \* nodes, and how much goes wrong: [type, configured, items, body, hiccups, jobs]
  AtOnce   \* a bound: the attempts of the record that may be at work together

VARIABLES
  node,      \* the node
  stage,     \* where _execute_node, or the inline handler, is
  outcome,   \* None until the node has succeeded, failed or been skipped
  tries,     \* attempts of the activity at this site
  effects,   \* effects[s]: how often the activity of site s did its work
  item, at,  \* for_each: the item, and the position in the body
  body_status,
  child,     \* the run of call_workflow
  sub_row,   \* its workflow_executions row
  child_late, \* the statuses of attempts at that row that were given up: they go on
  mine,      \* the scrape of web_scraper
  rows,      \* the node_executions rows of this node, oldest first
  writing,   \* the attempt of update_node_execution that is waited for
  late,      \* those given up: they go on
  hiccups    \* attempts that failed or were given up

callVars == <<stage, outcome, tries, effects, item, at, body_status>>
childVars == <<child, sub_row, child_late>>
rowVars == <<rows, writing, late, hiccups>>
nodeVars == <<node, callVars, childVars, mine, rowVars, sessionVars>>

-----------------------------------------------------------------------------
(* The dispatch table.                                                     *)

WebCalls == {"http_request", "pack_action"}
DataCalls == {"db_query", "send_email"}
ServiceCalls == {"stripe", "mailchimp"}
ModelCalls == {"claude_llm", "action_node", "agent_node", "agent_graph_node"}
FileCalls == {"s3", "google_drive"}
MailCalls == {"gmail_send", "gmail_read", "outlook_send", "outlook_read"}
Retried == WebCalls \cup DataCalls \cup ServiceCalls \cup ModelCalls \cup FileCalls \cup MailCalls

\* An agentic agent_node is a child run (AgentRun), and not retried either.
CodeCalls == {"transform", "run_code"}
SheetCalls == {"excel_read", "excel_write"}
Once == CodeCalls \cup SheetCalls \cup {"evaluate_rules", "agentic"}

\* The types that read no key of config without a default.
NeedNoConfig == SheetCalls \cup {"pack_action", "agent_node", "evaluate_rules", "delay"}

\* A call site: the item of a for_each and the node of its body, or neither.
NoSite == <<0, None>>
Bodied(n) == n.type = "for_each"
Sites(n) == IF Bodied(n) THEN (1 .. n.items) \X n.body.nodes ELSE {NoSite}
BodyNode == node.body.order[at]
Site == IF Bodied(node) THEN <<item, BodyNode>> ELSE NoSite

\* The body as TopologicalSort leaves it: a node comes after its parents, one on
\* a cycle not at all; it may have edges that lead nowhere.
IsBody(b) ==
  /\ b.branch \in [b.edges -> Labels \cup {Unlabelled}]
  /\ b.order \in Seq(b.nodes)
  /\ \A i, j \in DOMAIN b.order : b.order[i] = b.order[j] => i = j
  /\ \A j \in DOMAIN b.order : \A p \in Parents(b, b.order[j]) : \E i \in DOMAIN b.order : i < j /\ b.order[i] = p

ASSUME PlansAssumption == \A n \in Plans : Bodied(n) => n.items \in Nat /\ IsBody(n.body)

\* A body holds activities: the types that route are unknown to _execute_node.
Type == IF ~Bodied(node) THEN node.type
        ELSE IF node.body.type[BodyNode] = "action" THEN "http_request" ELSE "unknown"

Ready == node.configured \/ Type \in NeedNoConfig

AttemptsOfAll(type) == 3
Attempts(type) == IF type \in Retried THEN 3 ELSE 1

NodeInit ==
  /\ SessionInit
  /\ node \in Plans
  /\ stage = IF node.type = "skipped" THEN "record_end" ELSE "record_start"
  /\ outcome = IF node.type = "skipped" THEN "skipped" ELSE None
  /\ tries = 0
  /\ effects = [s \in Sites(node) |-> 0]
  /\ item = 1 /\ at = 1
  /\ body_status = [n \in IF Bodied(node) THEN node.body.nodes ELSE {} |-> Undecided]
  /\ child = None /\ sub_row = None /\ child_late = {} /\ mine = None
  /\ rows = <<>> /\ writing = None /\ late = {} /\ hiccups = 0

\* None is no outcome, no state of a child and no attempt to write a row.
RowStatuses == {"running", "completed", "failed", "skipped"}
WriteSteps == {"read", "insert", "update", "keep", "over"}
ASSUME CallAssumption ==
  /\ {None, Deleted} \cap {"success", "error", "skipped", "pending", "started", "running", "marked", "completed",
                           "failing", "failed", "raised", "stopped"} = {}
  /\ None \notin [id : Nat, status : RowStatuses, step : WriteSteps]
  /\ None \notin Scrapes

Goes(place) == stage' = place
Over(how) == Goes("record_end") /\ outcome' = how   \* then _record_node_done

-----------------------------------------------------------------------------
(* update_node_execution: it reads the rows of the node, then inserts one, *)
(* or updates the one it read; nothing makes the pair unique.              *)

RowStatus(o) == IF o = "success" THEN "completed" ELSE IF o = "error" THEN "failed" ELSE "skipped"
Recording == stage \in {"record_start", "record_end"}

BeginWrite ==
  /\ Recording /\ writing = None
  /\ writing' = [id |-> hiccups, status |-> IF stage = "record_start" THEN "running" ELSE RowStatus(outcome),
                 step |-> "read"]
  /\ UNCHANGED <<node, callVars, childVars, mine, rows, late, hiccups, sessionVars>>

\* What an attempt does next: an UPDATE sets the status only if it differs
\* from the one that was read.
Reading(a) == a.step = "read" /\ Len(rows) < 2
ReadsAs(a) == [a EXCEPT !.step = IF rows = <<>> THEN "insert" ELSE IF rows[1] = a.status THEN "keep" ELSE "update"]
Written(a) ==
  CASE a.step = "insert" -> Append(rows, a.status)
    [] a.step = "update" -> [rows EXCEPT ![1] = a.status]
    [] OTHER -> rows

WriteRow ==
  /\ writing # None
  /\ \/ Reading(writing) /\ writing' = ReadsAs(writing) /\ UNCHANGED <<rows, stage>>
     \/ /\ writing.step # "read"
        /\ rows' = Written(writing)
        /\ writing' = None
        /\ stage' = IF stage = "record_end" THEN "done"
                    ELSE CASE node.type = "for_each" -> "items" [] node.type = "call_workflow" -> "insert_child"
                           [] OTHER -> "log"
  /\ UNCHANGED <<node, outcome, tries, effects, item, at, body_status, childVars, mine, late, hiccups, sessionVars>>

\* There is no bound on the attempts: one that raises is followed by another.
\* Two rows for one node make every later attempt raise.
FailWrite ==
  /\ writing # None
  /\ \/ writing.step = "read" /\ Len(rows) > 1 /\ UNCHANGED <<rows, hiccups>>
     \/ /\ hiccups < node.hiccups /\ hiccups' = hiccups + 1
        /\ rows' \in {rows, IF writing.step = "read" THEN rows ELSE Written(writing)}
  /\ writing' = None
  /\ UNCHANGED <<node, callVars, childVars, mine, late, sessionVars>>

\* Ten seconds: the attempt is given up and goes on.
GiveUpWrite ==
  /\ writing # None
  /\ hiccups < node.hiccups
  /\ Cardinality(late) < AtOnce
  /\ hiccups' = hiccups + 1
  /\ late' = late \cup {writing}
  /\ writing' = None
  /\ UNCHANGED <<node, callVars, childVars, mine, rows, sessionVars>>

WriteLate ==
  /\ \E a \in late :
       \/ Reading(a) /\ late' = (late \ {a}) \cup {ReadsAs(a)} /\ UNCHANGED rows
       \/ /\ a.step \notin {"read", "over"}
          /\ rows' = Written(a)
          /\ late' = (late \ {a}) \cup {[a EXCEPT !.step = "over"]}
  /\ UNCHANGED <<node, callVars, childVars, mine, writing, hiccups, sessionVars>>

-----------------------------------------------------------------------------
(* _execute_node.                                                          *)

\* A call that returned: the node is done, or the next of the body's turn.
Returns ==
  IF Bodied(node)
  THEN /\ body_status' = [body_status EXCEPT ![BodyNode] = "success"]
       /\ at' = at + 1 /\ Goes("items") /\ UNCHANGED <<outcome, item>>
  ELSE Over("success") /\ UNCHANGED <<item, at, body_status>>

Raises == Over("error") /\ UNCHANGED <<item, at, body_status>>   \* _handle_node_error

EmitStarted ==
  /\ stage = "log"
  /\ tries' = 0
  /\ \/ Goes("call") /\ UNCHANGED <<outcome, item, at, body_status>>
     \/ Raises
  /\ UNCHANGED <<node, effects, childVars, mine, rowVars, sessionVars>>

\* One attempt: its work may be done although it is reported as failed, or
\* not reported; a failure that may not be retried ends the call.
CallActivity ==
  /\ stage = "call" /\ Type \in Retried \cup Once /\ Ready
  /\ tries' = tries + 1
  /\ \/ effects' = [effects EXCEPT ![Site] = @ + 1] /\ Returns
     \/ /\ effects' \in {effects, [effects EXCEPT ![Site] = @ + 1]}
        /\ \/ tries' < Attempts(Type) /\ UNCHANGED <<stage, outcome, item, at, body_status>>
           \/ Raises
  /\ UNCHANGED <<node, childVars, mine, rowVars, sessionVars>>

\* A number of seconds that is none raises.
Delay ==
  /\ stage = "call" /\ Type = "delay"
  /\ Returns \/ Raises
  /\ UNCHANGED <<node, tries, effects, childVars, mine, rowVars, sessionVars>>

\* A key that config lacks, or a spec that is no JSON, raises before the call.
BadConfig ==
  /\ stage = "call" /\ ~Ready
  /\ Raises
  /\ UNCHANGED <<node, tries, effects, childVars, mine, rowVars, sessionVars>>

UnknownType ==
  /\ stage = "call" /\ Type \notin Retried \cup Once \cup {"delay", "web_scraper"}
  /\ Raises
  /\ UNCHANGED <<node, tries, effects, childVars, mine, rowVars, sessionVars>>

\* scrape_page, once, for at most ten minutes; nobody stops it then.
CallScraper ==
  /\ stage = "call" /\ Type = "web_scraper" /\ Ready
  /\ \E j \in Scrapes \cap node.jobs : StartScrape(j) /\ mine' = j
  /\ Goes("scraping")
  /\ UNCHANGED <<node, outcome, tries, effects, item, at, body_status, childVars, rowVars>>

AwaitScrape ==
  /\ stage = "scraping"
  /\ \/ job[mine] = "succeeded" /\ Returns
     \/ job[mine] # "succeeded" /\ Raises
  /\ UNCHANGED <<node, tries, effects, childVars, mine, rowVars, sessionVars>>

-----------------------------------------------------------------------------
(* for_each: the nodes of the body in their order, for each item in turn.  *)

Dangling(w) == w.nodes # {} /\ \E e \in w.edges : ~({e[1], e[2]} \subseteq w.nodes)
Skipped(n) == Parents(node.body, n) # {} /\ ~ShouldExecute(node.body, body_status, n)

NextOfBody ==
  /\ stage = "items" /\ item <= node.items /\ ~Dangling(node.body) /\ at <= Len(node.body.order)
  /\ IF Skipped(BodyNode)
     THEN at' = at + 1 /\ body_status' = [body_status EXCEPT ![BodyNode] = "skipped"] /\ UNCHANGED stage
     ELSE Goes("log") /\ UNCHANGED <<at, body_status>>
  /\ UNCHANGED <<node, outcome, tries, effects, item, childVars, mine, rowVars, sessionVars>>

NextItem ==
  /\ stage = "items" /\ item <= node.items /\ ~Dangling(node.body) /\ at > Len(node.body.order)
  /\ item' = item + 1 /\ at' = 1
  /\ body_status' = [n \in node.body.nodes |-> Undecided]
  /\ UNCHANGED <<node, stage, outcome, tries, effects, childVars, mine, rowVars, sessionVars>>

\* An edge of the body that leads nowhere is a KeyError at the first item; in
\* the workflow itself it would be left out.
EndItems ==
  /\ stage = "items"
  /\ IF item > node.items THEN Over("success") ELSE Dangling(node.body) /\ Over("error")
  /\ UNCHANGED <<node, tries, effects, item, at, body_status, childVars, mine, rowVars, sessionVars>>

-----------------------------------------------------------------------------
(* call_workflow: call_sub_workflow, once.                                 *)

ChildEnds == {"completed", "failed"}

InsertChild ==
  /\ stage = "insert_child"
  /\ \/ sub_row' = "pending" /\ Goes("start_child") /\ UNCHANGED outcome
     \/ sub_row' \in {None, "pending"} /\ Over("error")
  /\ UNCHANGED <<node, tries, effects, item, at, body_status, child, child_late, mine, rowVars, sessionVars>>

\* The id is made of eight digits of the parent and of the node: it may be
\* taken.  The row stays pending then.
StartChild ==
  /\ stage = "start_child"
  /\ \/ child' = "started" /\ Goes("waiting") /\ UNCHANGED outcome
     \/ child' \in {None, "started"} /\ Over("error")
  /\ UNCHANGED <<node, tries, effects, item, at, body_status, sub_row, child_late, mine, rowVars, sessionVars>>

\* What the child does to its row: an UPDATE of a row that is gone touches none.
\* An activity that failed may have updated it; one that was given up after its
\* ten seconds goes on, up to three of a status, which are not counted.
Update(s) == sub_row' = IF sub_row \in {None, Deleted} THEN sub_row ELSE s
Tried(s) == Update(s) \/ UNCHANGED sub_row
TimesOut(s) == child_late' \in {child_late, child_late \cup {s}}

\* The child: WorkflowExecutor.run.  Marked, its notification may fail; then it
\* is failing, and marks itself again, once.
LoadAndMark ==
  /\ child = "started"
  /\ \/ child' = "running" /\ Update("running")
     \/ child' = "raised" /\ Tried("running")
  /\ TimesOut("running")

FailNodes == child = "running" /\ child' = "failing" /\ UNCHANGED <<sub_row, child_late>>

MarkCompleted ==
  /\ child = "running"
  /\ \/ child' = "marked" /\ Update("completed")
     \/ child' = "failing" /\ Tried("completed")
  /\ TimesOut("completed")

Notify == child = "marked" /\ child' \in {"completed", "failing"} /\ UNCHANGED <<sub_row, child_late>>

MarkFailed ==
  /\ child = "failing"
  /\ \/ child' \in {"failed", "raised"} /\ Update("failed") /\ UNCHANGED child_late
     \/ child' = "raised" /\ UNCHANGED sub_row /\ TimesOut("failed")

\* Its time is over, whatever it is at; an update that is under way goes on.
Stop ==
  /\ child \in {"started", "running", "marked", "failing"}
  /\ child' = "stopped"
  /\ UNCHANGED sub_row
  /\ CASE child = "started" -> TimesOut("running")
       [] child = "running" -> TimesOut("completed")
       [] child = "marked" -> UNCHANGED child_late
       [] child = "failing" -> TimesOut("failed")

ChildStep ==
  /\ LoadAndMark \/ FailNodes \/ MarkCompleted \/ Notify \/ MarkFailed \/ Stop
  /\ UNCHANGED <<node, callVars, mine, rowVars, sessionVars>>

\* Beside it: the attempts that were given up, and the deletion of the workflow
\* that it runs, which takes its rows along.
BesideTheChild ==
  /\ \/ \E s \in child_late : Update(s)
     \/ sub_row # None /\ sub_row' = Deleted
  /\ UNCHANGED <<node, callVars, child, child_late, mine, rowVars, sessionVars>>

\* The result of a child that failed is a result; the 30 s of one wait are
\* not the end of the waiting.
ReturnedIfCompleted == child = "completed"
Returned == child \in ChildEnds

AwaitChild ==
  /\ stage = "waiting"
  /\ \/ Returned /\ Over("success")
     \/ child \in {"raised", "stopped"} /\ Over("error")
  /\ UNCHANGED <<node, tries, effects, item, at, body_status, childVars, mine, rowVars, sessionVars>>

\* No heartbeat for two minutes: the worker is gone, and the child goes on.
LoseChild ==
  /\ stage = "waiting"
  /\ Over("error")
  /\ UNCHANGED <<node, tries, effects, item, at, body_status, childVars, mine, rowVars, sessionVars>>

-----------------------------------------------------------------------------
(* The session beside the node: POST /internal/scraper/run and the rest.   *)

SessionMoves ==
  /\ node.type = "web_scraper"
  /\ \/ SessionStep
     \/ mine # None /\ \E j \in Scrapes : StartScrape(j)
  /\ \A j \in Jobs \ node.jobs : job'[j] = "idle"
  /\ UNCHANGED <<node, callVars, childVars, mine, rowVars>>

NodeStep ==
  \/ EmitStarted \/ BadConfig \/ CallActivity \/ Delay \/ UnknownType \/ CallScraper \/ AwaitScrape
  \/ NextOfBody \/ NextItem \/ EndItems
  \/ InsertChild \/ StartChild \/ AwaitChild

NodeNext ==
  \/ BeginWrite \/ WriteRow \/ FailWrite \/ GiveUpWrite \/ WriteLate
  \/ NodeStep \/ ChildStep \/ BesideTheChild \/ LoseChild
  \/ SessionMoves

\* Temporal drives the node; the database and the worker answer after so
\* many hiccups; a child ends or is stopped.
NodeFairness ==
  /\ WF_nodeVars(BeginWrite) /\ WF_nodeVars(WriteRow) /\ WF_nodeVars(NodeStep) /\ WF_nodeVars(ChildStep)

NodeSpec == NodeInit /\ [][NodeNext]_nodeVars /\ NodeFairness /\ SessionFairness

-----------------------------------------------------------------------------
CallTypeOK ==
  /\ node \in Plans
  /\ stage \in {"record_start", "record_end", "log", "call", "scraping", "items", "insert_child", "start_child",
                "waiting", "done"}
  /\ outcome \in {None, "success", "error", "skipped"}
  /\ tries \in 0 .. 3
  /\ child \in {None, "started", "running", "marked", "failing", "raised", "stopped"} \cup ChildEnds
  /\ sub_row \in {None, Deleted, "pending", "running"} \cup ChildEnds
  /\ child_late \subseteq {"running"} \cup ChildEnds
  /\ mine \in Scrapes \cup {None}
  /\ \A i \in DOMAIN rows : rows[i] \in RowStatuses

\* What a node without retries does outside, it does at most once, any other
\* at most three times; a node that succeeded did it.  The work of a for_each
\* is a prefix of what its items ask for, and all of it if it succeeded: an
\* item asks for an activity if a parent, which did its own work for that
\* item, routes to it, or it has no parents.
Runs(s) ==
  LET b == node.body
  IN /\ \E j \in DOMAIN b.order : b.order[j] = s[2]
     /\ b.type[s[2]] = "action"
     /\ \/ Parents(b, s[2]) = {}
        \/ \E p \in Parents(b, s[2]) : effects[<<s[1], p>>] > 0 /\ IsEdgeLive(b.branch[<<p, s[2]>>], "success")
Before(s, t) ==
  \/ s[1] < t[1]
  \/ s[1] = t[1] /\ \E i, j \in DOMAIN node.body.order :
                      i < j /\ node.body.order[i] = s[2] /\ node.body.order[j] = t[2]

EffectsAreBounded ==
  /\ node.type \in Once => effects[NoSite] <= 1
  /\ \A s \in DOMAIN effects : effects[s] <= 3
  /\ ~node.configured /\ node.type \in Retried \ NeedNoConfig => effects[NoSite] = 0
  /\ outcome = "success" /\ node.type \in Retried \cup Once => effects[NoSite] >= 1
  /\ Bodied(node) =>
       /\ \A s, t \in DOMAIN effects :
            Before(s, t) /\ effects[t] > 0 => (effects[s] > 0 <=> Runs(s))
       /\ outcome = "success" => \A s \in DOMAIN effects : effects[s] > 0 <=> Runs(s)

\* The row of a node that is done says how it ended, and is its only row,
\* unless an attempt to write it was given up while it was at work.
GivenUp(status) == \E a \in late : a.status = status
RowShowsTheEnd ==
  /\ stage = "done" /\ ~GivenUp("running") /\ node.type # "skipped" => rows = <<RowStatus(outcome)>>
  /\ stage = "done" => rows # <<>>
  /\ Len(rows) > 1 => late # {}

\* A child whose result was taken has ended, and its row says the same, unless
\* it was deleted or an attempt to write something else into it was given up;
\* a node that failed may leave the child running, or its row pending for ever.
ChildIsOver ==
  /\ node.type = "call_workflow" /\ outcome = "success" =>
       child \in ChildEnds /\ sub_row \in {child, Deleted} \cup child_late
  /\ child # None => sub_row # None
  /\ child = None => sub_row \in {None, Deleted, "pending"}

\* A scrape whose output a node returned has succeeded.
ScrapeIsOver == mine # None /\ outcome = "success" => job[mine] = "succeeded"

\* What the attempts of a node's activity, of its record and of its child keep:
\* how often work is done, what the row says, and what a success stands for.
CallInvariant == CallTypeOK /\ EffectsAreBounded /\ RowShowsTheEnd /\ ChildIsOver /\ ScrapeIsOver

\* Every node comes to its end, however it ends, unless two rows were
\* inserted for it: then the record is attempted for ever.
NodeEnds == <>(stage = "done" \/ Len(rows) > 1)
=============================================================================
