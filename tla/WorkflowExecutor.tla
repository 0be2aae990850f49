--------------------------- MODULE WorkflowExecutor ---------------------------
(***************************************************************************)
(* WorkflowExecutor.run: the Temporal workflow that loads a definition,    *)
(* sorts its nodes and executes them one after the other, and the rows it  *)
(* writes through its state activities while it does so.                   *)
(*                                                                         *)
(* One action per stretch between two awaits.  Temporal replays a workflow *)
(* whose worker dies, so a crash of the worker is not a step of its own:   *)
(* what it can change is the outcome of the activity that was running, and *)
(* every activity with a bounded number of attempts may fail here, before  *)
(* or after its commit.  update_node_execution retries without a bound, so *)
(* it succeeds.  Node payloads are left out; final_output is kept as the   *)
(* node it came from.                                                      *)
(***************************************************************************)
EXTENDS TopologicalSort

VARIABLES
  pc,               \* the await, or the stretch of code, the run is at
  pos,              \* the position in order of the loop over the nodes
  node_status,      \* node_status[n], "undecided" while it has none
  final_output,     \* the node whose output is the output of the run
  approval_status,  \* the decision that approval_signal left in the workflow
  result,           \* what the run returned; "raised" if it raised
  exec_row,         \* status of the workflow_executions row
  node_row,         \* status of the node_executions rows
  approval_row      \* approval_status of the workflow_executions row

runVars == <<pc, pos, node_status, final_output, approval_status, result>>
rowVars == <<exec_row, node_row, approval_row>>
vars == <<sortVars, runVars, rowVars>>

None == "none"
ASSUME NoneAssumption == \A w \in Workflows : None \notin w.nodes

Results == { None, "completed", "failed", "raised" }
ExecStatuses == { "pending", "running", "completed", "failed" }
NodeRowStatuses == { None, "running", "completed", "failed", "skipped" }

Init ==
  /\ SortStart
  /\ pc = "load"
  /\ pos = 1
  /\ node_status = [n \in Nodes |-> Undecided]
  /\ final_output = None
  /\ approval_status = None
  /\ result = None
  /\ exec_row = "pending"
  /\ node_row = [n \in Nodes |-> None]
  /\ approval_row = None

node == order[pos]
Goto(label) == pc' = label
Return(r) == pc' = "end" /\ result' = r

-----------------------------------------------------------------------------
(* Before the loop: no exception of these two activities is caught.        *)

LoadDefinition ==
  /\ pc = "load"
  /\ \/ Goto("mark_running") /\ UNCHANGED result
     \/ Return("raised")
  /\ UNCHANGED <<sortVars, pos, node_status, final_output, approval_status, rowVars>>

\* update_execution_status commits the row, then writes to Redis: a failure
\* leaves the row as it was or leaves the new status in it.
UpdateExecution(status, Done, Failed) ==
  \/ exec_row' = status /\ Done
  \/ exec_row' \in {exec_row, status} /\ Failed

MarkRunning ==
  /\ pc = "mark_running"
  /\ UpdateExecution("running", Goto("sort") /\ UNCHANGED result, Return("raised"))
  /\ UNCHANGED <<sortVars, pos, node_status, final_output, approval_status, node_row, approval_row>>

SortStep ==
  /\ pc = "sort"
  /\ PopNode
  /\ UNCHANGED <<runVars, rowVars>>

StartLoop ==
  /\ pc = "sort" /\ Sorted
  /\ Goto("loop")
  /\ UNCHANGED <<sortVars, pos, node_status, final_output, approval_status, result, rowVars>>

-----------------------------------------------------------------------------
(* The head of the loop: what to do with the next node.                    *)

AtNode == pc = "loop" /\ pos <= Len(order)

SamePos == pos
NextPos == pos + 1

\* A trigger already fired: it passes the input through and leaves no row.
PassTrigger ==
  /\ AtNode
  /\ wf.type[node] = "trigger"
  /\ node_status' = [node_status EXCEPT ![node] = "success"]
  /\ pos' = NextPos
  /\ UNCHANGED <<sortVars, pc, final_output, approval_status, result, rowVars>>

\* Every edge into the node is dead; a root has none and is never blocked.
Blocked == Parents(wf, node) # {} /\ ~ShouldExecute(wf, node_status, node)

SkipNode ==
  /\ AtNode
  /\ wf.type[node] # "trigger"
  /\ Blocked
  /\ node_status' = [node_status EXCEPT ![node] = "skipped"]
  /\ Goto("record")
  /\ UNCHANGED <<sortVars, pos, final_output, approval_status, result, rowVars>>

\* _record_node_start
StartNode ==
  /\ AtNode
  /\ wf.type[node] # "trigger"
  /\ ~Blocked
  /\ node_row' = [node_row EXCEPT ![node] = "running"]
  /\ Goto("started")
  /\ UNCHANGED <<sortVars, pos, node_status, final_output, approval_status, result, exec_row, approval_row>>

-----------------------------------------------------------------------------
(* The body of the loop, after the row of the node says running.           *)

Decided(s) ==
  /\ node_status' = [node_status EXCEPT ![node] = s]
  /\ Goto("record")

\* The cross-company gate comes before every dispatch.
DenyNode ==
  /\ pc = "started"
  /\ node \in wf.denied
  /\ Decided("skipped")
  /\ UNCHANGED <<sortVars, pos, final_output, approval_status, result, rowVars>>

Allowed == node \notin wf.denied

\* Conditions, switches: they route, and keep final_output as it is.
RouteNode ==
  /\ pc = "started"
  /\ Allowed
  /\ wf.type[node] \in {"if_condition", "domain_condition", "switch"}
  /\ \E s \in Outcomes(wf, node) : Decided(s)
  /\ UNCHANGED <<sortVars, pos, final_output, approval_status, result, rowVars>>

\* Activity nodes, for_each, call_workflow and merge.
WorkNode ==
  /\ pc = "started"
  /\ Allowed
  /\ wf.type[node] \in {"action", "for_each", "call_workflow", "merge"}
  /\ \/ Decided("success") /\ final_output' = node
     \/ Decided("error") /\ UNCHANGED final_output
  /\ UNCHANGED <<sortVars, pos, approval_status, result, rowVars>>

\* register_approval_token, which overwrites the pending request of an
\* earlier gate; the workflow keeps the decision of that earlier gate.
RequestApproval ==
  /\ pc = "started"
  /\ Allowed
  /\ wf.type[node] = "wait_approval"
  /\ \/ approval_row' = "pending" /\ Goto("email") /\ UNCHANGED node_status
     \/ approval_row' \in {approval_row, "pending"} /\ Decided("error")
  /\ UNCHANGED <<sortVars, pos, final_output, approval_status, result, exec_row, node_row>>

\* A refused or unsent mail is reported as False and ignored; only the
\* activity itself timing out fails the node.
SendApprovalEmail ==
  /\ pc = "email"
  /\ \/ Goto("waiting") /\ UNCHANGED node_status
     \/ Decided("error")
  /\ UNCHANGED <<sortVars, pos, final_output, approval_status, result, rowVars>>

ApprovalBranch == IF approval_status = "approved" THEN "true_branch" ELSE "false_branch"

ResumeApproval ==
  /\ pc = "waiting"
  /\ approval_status # None
  /\ Decided(ApprovalBranch)
  /\ final_output' = node
  /\ UNCHANGED <<sortVars, pos, approval_status, result, rowVars>>

TimerLost == FALSE
TimerFires == approval_status = None

\* wait_condition looks at the decision before the timer.
TimeOutApproval ==
  /\ pc = "waiting"
  /\ TimerFires
  /\ Decided("false_branch")
  /\ final_output' = node
  /\ UNCHANGED <<sortVars, pos, approval_status, result, rowVars>>

\* db_status of _record_node_done.
RowStatusOf(s) ==
  IF s = "skipped" THEN "skipped" ELSE IF s = "error" THEN "failed" ELSE "completed"

Recorded == [node_row EXCEPT ![node] = RowStatusOf(node_status[node])]

RaisesNever == FALSE
Raises == node_status[node] = "error" /\ Fatal(wf, node)

\* _record_node_done, then the next node, or the except clause of the run.
RecordNode ==
  /\ pc = "record"
  /\ node_row' = Recorded
  /\ IF Raises THEN Goto("mark_failed") /\ UNCHANGED pos
               ELSE Goto("loop") /\ pos' = NextPos
  /\ UNCHANGED <<sortVars, node_status, final_output, approval_status, result, exec_row, approval_row>>

-----------------------------------------------------------------------------
(* After the loop.                                                         *)

LoopEndedEarly == pc = "loop" /\ pos >= Len(order)
LoopEnded == pc = "loop" /\ pos > Len(order)

MarkCompleted ==
  /\ LoopEnded
  /\ UpdateExecution("completed",
       IF wf.notify_on_completion THEN Goto("notify") /\ UNCHANGED result ELSE Return("completed"),
       Goto("mark_failed") /\ UNCHANGED result)
  /\ UNCHANGED <<sortVars, pos, node_status, final_output, approval_status, node_row, approval_row>>

\* Still inside the try: a failed notification fails the completed run.
NotifyCompletion ==
  /\ pc = "notify"
  /\ \/ Return("completed")
     \/ Goto("mark_failed") /\ UNCHANGED result
  /\ UNCHANGED <<sortVars, pos, node_status, final_output, approval_status, rowVars>>

MarkFailed ==
  /\ pc = "mark_failed"
  /\ UpdateExecution("failed",
       IF wf.notify_on_failure THEN Goto("notify_failed") /\ UNCHANGED result ELSE Return("failed"),
       Return("raised"))
  /\ UNCHANGED <<sortVars, pos, node_status, final_output, approval_status, node_row, approval_row>>

NotifyFailure ==
  /\ pc = "notify_failed"
  /\ \E r \in {"failed", "raised"} : Return(r)
  /\ UNCHANGED <<sortVars, pos, node_status, final_output, approval_status, rowVars>>

\* An approver answers the pending request: the endpoint signals the run
\* and updates the row.  Module ApprovalGate takes these two apart.
Approve(action) ==
  /\ approval_row = "pending"
  /\ approval_row' = action
  /\ approval_status' = IF result = None THEN action ELSE approval_status
  /\ UNCHANGED <<sortVars, pc, pos, node_status, final_output, result, exec_row, node_row>>

Step ==
  \/ LoadDefinition \/ MarkRunning \/ SortStep \/ StartLoop
  \/ PassTrigger \/ SkipNode \/ StartNode
  \/ DenyNode \/ RouteNode \/ WorkNode
  \/ RequestApproval \/ SendApprovalEmail \/ ResumeApproval \/ TimeOutApproval
  \/ RecordNode
  \/ MarkCompleted \/ NotifyCompletion \/ MarkFailed \/ NotifyFailure

Next == Step \/ \E action \in {"approved", "rejected"} : Approve(action)

\* Temporal drives a started run: activities end, timers fire.
Spec == Init /\ [][Next]_vars /\ WF_vars(Step)

-----------------------------------------------------------------------------
(* What the run promises.                                                  *)

TypeOK ==
  /\ SortTypeOK
  /\ None \notin Nodes
  /\ pc \in { "load", "mark_running", "sort", "loop", "started", "email", "waiting", "record",
              "notify", "mark_failed", "notify_failed", "end" }
  /\ pos \in 1 .. Len(order) + 1
  /\ node_status \in [Nodes -> Statuses \cup {Undecided}]
  /\ final_output \in Nodes \cup {None}
  /\ approval_status \in {None, "approved", "rejected"}
  /\ result \in Results
  /\ exec_row \in ExecStatuses
  /\ node_row \in [Nodes -> NodeRowStatuses]
  /\ approval_row \in {None, "pending", "approved", "rejected"}

IsDecided(n) == node_status[n] # Undecided

\* A node gets its status only after every parent has one, in any graph: the
\* default "success" of node_status.get never opens an edge.
DecidedParentsFirst ==
  \A n \in Nodes : IsDecided(n) => \A p \in Parents(wf, n) : IsDecided(p)

\* Routing, as a user of the builder reads it.  A node that was started and
\* has incoming edges was reached along one of them: from a parent that was
\* not skipped, by an "error" edge exactly if that parent failed, by a "true"
\* or "false" edge only from the branch it names.  A node skipped without a
\* denial has no edge like that.
Reached(p, n) ==
  LET label == wf.branch[<<p, n>>]
  IN /\ node_status[p] \notin {Undecided, "skipped"}
     /\ label = "error" <=> node_status[p] = "error"
     /\ label = "true" => node_status[p] = "true_branch"
     /\ label = "false" => node_status[p] = "false_branch"

RoutingRespected ==
  \A n \in Nodes :
    /\ node_row[n] \in {"running", "completed", "failed"} /\ Parents(wf, n) # {}
         => \E p \in Parents(wf, n) : Reached(p, n)
    /\ node_status[n] = "skipped" /\ n \notin wf.denied
         => /\ Parents(wf, n) # {}
            /\ \A p \in Parents(wf, n) :
                 wf.branch[<<p, n>>] \in {Unlabelled, "true", "false", "error"} => ~Reached(p, n)

\* A denied node does no work: it is never a source of output and never
\* takes a branch.
DeniedNeverRuns ==
  \A n \in wf.denied : wf.type[n] # "trigger" =>
    node_status[n] \in {Undecided, "skipped"} /\ final_output # n

\* A run reported as completed left no reachable node out, hid no fatal
\* error, and its row and the rows of its nodes say so.
CompletedIsComplete ==
  result = "completed" =>
    /\ exec_row = "completed"
    /\ \A n \in Nodes :
         /\ ~IsDecided(n) => \E p \in Parents(wf, n) : ~IsDecided(p)
         /\ IsDecided(n) /\ wf.type[n] # "trigger" => node_row[n] = RowStatusOf(node_status[n])
         /\ node_status[n] = "error" => ~Fatal(wf, n)

\* However the run ends, no node row stays "running": the list of steps of a
\* finished run never shows one in progress.
NoNodeLeftRunning == result # None => \A n \in Nodes : node_row[n] # "running"

\* What holds of the nodes of every run in every state, with the types.
RunInvariant ==
  /\ TypeOK
  /\ DecidedParentsFirst
  /\ DeniedNeverRuns
  /\ NoNodeLeftRunning

\* The statuses of the nodes only grow: a decided node is never executed,
\* skipped or rerouted again, and run executes one node at a time, those of
\* parallel branches too: the guide says of these "Both branches execute
\* concurrently" (docs/user-guide-workflows-rules-forms.md:962), but the loop
\* awaits each node before it looks at the next.
StatusesAreFinal ==
  [][\A n \in Nodes :
       /\ IsDecided(n) => node_status'[n] = node_status[n]
       /\ node_row'[n] = "running" /\ node_row[n] # "running"
            => \A m \in Nodes : node_row[m] # "running"]_vars

\* The run is a dataflow evaluation of the graph, and it ends "completed"
\* only when nothing is left to decide.
Contract == INSTANCE RunContract WITH status <- node_status, outcome <- result
ImplementsContract == Contract!Spec

\* A run in progress ends: no graph and no approval keeps it for ever.
RunEnds == <>(result # None)
=============================================================================
