----------------------------- MODULE RunContract -----------------------------
(***************************************************************************)
(* What the run of a workflow promises, without the sort, the loop, the    *)
(* rows and the approvals: a dataflow evaluation of the graph.  Any node   *)
(* whose parents have all been decided may be decided next, its verdict    *)
(* follows from the final statuses of its parents alone, and nothing is    *)
(* decided once an error of a node is fatal.  WorkflowExecutor implements  *)
(* it with status <- node_status and outcome <- result.                    *)
(***************************************************************************)
EXTENDS WorkflowGraph

VARIABLES wf, status, outcome

contractVars == <<wf, status, outcome>>

Init ==
  /\ wf \in Workflows
  /\ status = [n \in wf.nodes |-> Undecided]
  /\ outcome = "none"

Ready(n) ==
  /\ status[n] = Undecided
  /\ \A p \in Parents(wf, n) : status[p] # Undecided

Doomed == \E n \in wf.nodes : status[n] = "error" /\ Fatal(wf, n)

\* What a ready node may be decided to be.
Verdicts(n) ==
  IF wf.type[n] = "trigger" THEN {"success"}
  ELSE IF Parents(wf, n) # {} /\ ~ShouldExecute(wf, status, n) THEN {"skipped"}
  ELSE IF n \in wf.denied THEN {"skipped"}
  ELSE Outcomes(wf, n)

Decide(n) ==
  /\ outcome = "none" /\ ~Doomed
  /\ Ready(n)
  /\ \E s \in Verdicts(n) : status' = [status EXCEPT ![n] = s]
  /\ UNCHANGED <<wf, outcome>>

Complete ==
  /\ outcome = "none" /\ ~Doomed
  /\ \A n \in wf.nodes : ~Ready(n)
  /\ outcome' = "completed"
  /\ UNCHANGED <<wf, status>>

\* A fatal error, or an activity of the engine itself that gave up.
Fail ==
  /\ outcome = "none"
  /\ outcome' \in {"failed", "raised"}
  /\ UNCHANGED <<wf, status>>

Next == Complete \/ Fail \/ \E n \in wf.nodes : Decide(n)

Spec == Init /\ [][Next]_contractVars
=============================================================================
