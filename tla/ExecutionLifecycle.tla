-------------------------- MODULE ExecutionLifecycle --------------------------
(***************************************************************************)
(* The row of an execution, between the API request that triggers it and   *)
(* the Temporal run that executes it.                                      *)
(*                                                                         *)
(* A request inserts the rows of one execution (execute, webhook) or of    *)
(* several (dispatch_event) in ONE transaction, which get_db commits when  *)
(* the handler is over; trigger_workflow starts each Temporal run before   *)
(* that.  The run therefore races the commit: its updates of a row that is *)
(* not there yet succeed and change nothing, its node rows violate their   *)
(* foreign key and are retried without a bound.                            *)
(*                                                                         *)
(* Module WorkflowExecutor is the detailed run.  Here a run is the order   *)
(* of its writes, and an attempt of update_execution_status that outlived  *)
(* its timeout may still write, once, after Temporal gave it up.           *)
(***************************************************************************)
EXTENDS Naturals, FiniteSets

CONSTANTS
  Executions,   \* the executions that the request may trigger
  TriggerOnly   \* those of definitions that have trigger nodes only

ASSUME TriggerOnlyAssumption == TriggerOnly \subseteq Executions

VARIABLES
  swallows,    \* whether the handler catches what trigger_workflow raises
  request,     \* the transaction of the request
  step,        \* step[e]: how far trigger_workflow is with e
  draft,       \* the rows, as the open transaction sees them
  row,         \* the committed rows
  started_at,  \* the executions whose row has a started_at
  run,         \* run[e]: the next write of the Temporal run
  outcome,     \* what the run returned
  late,        \* the writes that Temporal gave up and that may still happen
  slow         \* the executions that ever had such a write (history)

apiVars == <<swallows, request, step, draft>>
runVars == <<run, outcome>>
lateVars == <<late, slow>>
vars == <<apiVars, row, started_at, runVars, lateVars>>

Absent == "absent"
RowStatuses == { Absent, "pending", "running", "completed", "failed" }
Steps == { "waiting", "inserted", "started", "marked", "returned", "raised" }

Init ==
  /\ swallows \in BOOLEAN
  /\ request = "open"
  /\ step = [e \in Executions |-> "waiting"]
  /\ draft = [e \in Executions |-> Absent]
  /\ row = draft
  /\ started_at = {}
  /\ run = [e \in Executions |-> "none"]
  /\ outcome = run
  /\ late = {}
  /\ slow = {}

-----------------------------------------------------------------------------
(* The request: trigger_workflow, once per workflow, then the commit.      *)

At(e, s) == request = "open" /\ step[e] = s
Advance(e, s) == step' = [step EXCEPT ![e] = s] /\ UNCHANGED request
Draft(e, s) == draft' = [draft EXCEPT ![e] = s]

Rollback == request' = "rolled_back"

\* dispatch_event and the rule engine catch the exception and go on; the
\* others let it through to get_db, which rolls everything back.
RaiseReported(e) == Advance(e, "returned")
Raise(e) == IF swallows THEN Advance(e, "raised") ELSE Rollback /\ UNCHANGED step

\* The executions follow one another, and only a swallowing caller has many.
MayTrigger(e) ==
  \A d \in Executions :
    step[d] = "waiting" \/ (swallows /\ step[d] \in {"returned", "raised"})

\* A flush that fails has already lost the transaction of the session.
InsertRow(e) ==
  /\ At(e, "waiting")
  /\ MayTrigger(e)
  /\ \/ Advance(e, "inserted") /\ Draft(e, "pending")
     \/ Rollback /\ UNCHANGED <<step, draft>>
  /\ UNCHANGED <<swallows, row, started_at, runVars, lateVars>>

\* client.start_workflow may raise although the server has started the run.
StartRun(e) ==
  /\ At(e, "inserted")
  /\ \/ run' = [run EXCEPT ![e] = "load"] /\ Advance(e, "started")
     \/ run' \in {run, [run EXCEPT ![e] = "load"]} /\ Raise(e)
  /\ UNCHANGED <<swallows, draft, row, started_at, outcome, lateVars>>

MarkDraftRunning(e) ==
  /\ At(e, "started")
  /\ \/ Advance(e, "marked") /\ Draft(e, "running")
     \/ Rollback /\ UNCHANGED <<step, draft>>
  /\ UNCHANGED <<swallows, row, started_at, runVars, lateVars>>

CacheStatus(e) ==
  /\ At(e, "marked")
  /\ Advance(e, "returned") \/ Raise(e)
  /\ UNCHANGED <<swallows, draft, row, started_at, runVars, lateVars>>

Commit ==
  /\ request = "open"
  /\ \A e \in Executions : step[e] \in {"waiting", "returned", "raised"}
  /\ swallows \/ \E e \in Executions : step[e] = "returned"
  /\ \/ request' = "committed" /\ row' = draft
     \/ Rollback /\ UNCHANGED row
  /\ UNCHANGED <<swallows, step, draft, started_at, runVars, lateVars>>

\* The API process dies, or the client goes away and the handler with it.
LoseRequest ==
  /\ request = "open"
  /\ Rollback
  /\ UNCHANGED <<swallows, step, draft, row, started_at, runVars, lateVars>>

\* Deleting a workflow cascades to the rows of its executions; nothing tells
\* the run.
DeleteWorkflow(e) ==
  /\ row[e] # Absent
  /\ row' = [row EXCEPT ![e] = Absent]
  /\ started_at' = started_at \ {e}
  /\ UNCHANGED <<apiVars, runVars, lateVars>>

-----------------------------------------------------------------------------
(* The run.                                                                *)

\* UPDATE ... WHERE id = e, which matches no row before the commit.
Update(e, s) ==
  /\ row' = IF row[e] = Absent THEN row ELSE [row EXCEPT ![e] = s]
  /\ started_at' = IF row[e] # Absent /\ s = "running" THEN started_at \cup {e} ELSE started_at

NoUpdate == UNCHANGED <<row, started_at>>

\* Attempts of these writes may have timed out and be still in progress.
TimedOut(e, writes) ==
  \E l \in SUBSET writes :
    /\ late' = late \cup ({e} \X l)
    /\ slow' = IF l = {} THEN slow ELSE slow \cup {e}

Continue(e, next) == run' = [run EXCEPT ![e] = next] /\ UNCHANGED outcome
End(e, r) == run' = [run EXCEPT ![e] = "ended"] /\ outcome' = [outcome EXCEPT ![e] = r]

LoadDefinition(e) ==
  /\ run[e] = "load"
  /\ Continue(e, "mark") \/ End(e, "raised")
  /\ UNCHANGED <<apiVars, row, started_at, lateVars>>

\* update_execution_status("running"); a definition with no other node than
\* triggers writes no node row.
MarkRunning(e) ==
  /\ run[e] = "mark"
  /\ TimedOut(e, {"running"})
  /\ \/ Update(e, "running") /\ Continue(e, IF e \in TriggerOnly THEN "finish" ELSE "record")
     \/ (Update(e, "running") \/ NoUpdate) /\ End(e, "raised")
  /\ UNCHANGED apiVars

\* update_node_execution, which needs the row; then the node, and another
\* one or the end.
AlwaysRecordable(e) == TRUE
OnceMarked(e) == row[e] = "running"
Recordable(e) == row[e] # Absent
RecordNode(e) ==
  /\ run[e] = "record"
  /\ Recordable(e)
  /\ Continue(e, "finish")
  /\ UNCHANGED <<apiVars, row, started_at, lateVars>>

\* The run marks its outcome.  "failed" is also what it falls back to when
\* it could not mark itself completed, and has one attempt only.
Finish(e) ==
  /\ run[e] = "finish"
  /\ \E s \in {"completed", "failed"} :
       \/ Update(e, s) /\ End(e, s) /\ TimedOut(e, {"completed"})
       \/ (Update(e, s) \/ NoUpdate) /\ End(e, "raised") /\ TimedOut(e, {"completed", "failed"})
  /\ UNCHANGED apiVars

LateWrite ==
  \E w \in late :
    /\ Update(w[1], w[2])
    /\ late' = late \ {w}
    /\ UNCHANGED <<apiVars, runVars, slow>>

Request(e) == InsertRow(e) \/ StartRun(e) \/ MarkDraftRunning(e) \/ CacheStatus(e)
Worker(e) == LoadDefinition(e) \/ MarkRunning(e) \/ RecordNode(e) \/ Finish(e)

Next ==
  \/ \E e \in Executions : Request(e) \/ Worker(e) \/ DeleteWorkflow(e)
  \/ Commit \/ LoseRequest \/ LateWrite

\* Temporal drives every run it has started; requests may stop anywhere.
Spec == Init /\ [][Next]_vars /\ \A e \in Executions : WF_vars(Worker(e))

-----------------------------------------------------------------------------
TypeOK ==
  /\ swallows \in BOOLEAN
  /\ request \in {"open", "committed", "rolled_back"}
  /\ step \in [Executions -> Steps]
  /\ draft \in [Executions -> {Absent, "pending", "running"}]
  /\ row \in [Executions -> RowStatuses]
  /\ started_at \subseteq { e \in Executions : row[e] # Absent }
  /\ run \in [Executions -> {"none", "load", "mark", "record", "finish", "ended"}]
  /\ outcome \in [Executions -> {"none", "completed", "failed", "raised"}]
  /\ late \subseteq Executions \X {"running", "completed", "failed"}
  /\ slow \subseteq Executions

Finished(e) == outcome[e] \in {"completed", "failed"}

\* A run that has something to do never overtakes its own row: if it
\* returned an outcome, and no write of it came late, its row shows that
\* outcome, however the run and the commit of the request interleave.
FinishedRowsShowOutcome ==
  \A e \in Executions \ (TriggerOnly \cup slow) :
    Finished(e) /\ row[e] # Absent => row[e] = outcome[e]

\* A run executes no node, so has no effect, on behalf of a request that was
\* not committed: such a run never gets past the record of its first node.
OrphansDoNothing ==
  request # "committed" =>
    \A e \in Executions \ TriggerOnly : run[e] # "finish" /\ ~Finished(e)

\* What holds of runs whose request has not been committed, with the types.
LifecycleInvariant == TypeOK /\ OrphansDoNothing

\* Once committed, an execution that dispatch_event reports as triggered has
\* a run; one that it dropped has a row all the same, which no caller knows.
BatchIsAccounted ==
  request = "committed" =>
    \A e \in Executions :
      /\ step[e] = "returned" => run[e] # "none" /\ draft[e] = "running"
      /\ step[e] = "raised" => draft[e] # Absent
      /\ row[e] # Absent => step[e] # "waiting"

\* A committed run ends, unless its workflow is deleted under it.
CommittedRunsEnd ==
  \A e \in Executions :
    (request = "committed" /\ run[e] # "none") ~> (run[e] = "ended" \/ row[e] = Absent)
=============================================================================
