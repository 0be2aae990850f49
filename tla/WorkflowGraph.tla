---------------------------- MODULE WorkflowGraph ----------------------------
(***************************************************************************)
(* The stored definition of a workflow and the pure functions that route   *)
(* execution through it (_is_edge_live, _should_execute_node,              *)
(* _has_error_edges, _cross_company_action_allowed).                       *)
(*                                                                         *)
(* A definition is whatever JSON the builder saved.  Its edges may name    *)
(* nodes that do not exist and may form cycles: nothing rejects either.    *)
(* Edge labels are strings, as in the code; node payloads are left out.    *)
(***************************************************************************)
EXTENDS Naturals, Sequences, FiniteSets

CONSTANTS
  Workflows,   \* the definitions that runs may load
  Labels       \* the edge and case labels those definitions use

\* The node types, with every activity type that _execute_node dispatches
\* (and the unknown ones it rejects) gathered in "action".
NodeTypes ==
  { "trigger", "if_condition", "domain_condition", "switch", "for_each",
    "wait_approval", "call_workflow", "merge", "action" }

Unlabelled == ""

SwitchStatus(label) == "switch_" \o label
SwitchStatuses == { SwitchStatus(l) : l \in Labels }

Statuses ==
  { "success", "error", "skipped", "true_branch", "false_branch" } \cup SwitchStatuses

Undecided == "undecided"

\* The prefix keeps the labels that a user chooses apart from the rest.
ASSUME SwitchStatusesAssumption ==
  SwitchStatuses \cap { "success", "error", "skipped", "true_branch", "false_branch", Undecided } = {}

\* nodes, and edges as pairs <<from, to>>; branch[e] is the label of e;
\* cases[n] the labels that switch n can select, its default included;
\* cont the nodes with continue_on_error; denied the nodes whose authz rule
\* names a company this organisation may not act for.  No two nodes have one id,
\* as the builder makes them, though the code accepts it: a root that is listed
\* twice would be sorted and run twice.
IsDefinition(w) ==
  /\ IsFiniteSet(w.nodes)
  /\ w.branch \in [w.edges -> Labels \cup {Unlabelled}]
  /\ w.type \in [w.nodes -> NodeTypes]
  /\ w.cases \in [w.nodes -> SUBSET Labels]
  /\ w.cont \subseteq w.nodes
  /\ w.denied \subseteq w.nodes
  /\ w.notify_on_completion \in BOOLEAN
  /\ w.notify_on_failure \in BOOLEAN

ASSUME WorkflowsAssumption == \A w \in Workflows : IsDefinition(w)

\* An edge with an endpoint outside the graph is dropped, with a warning.
ParentsWithMalformed(w, n) == { e[1] : e \in { d \in w.edges : d[2] = n } }
Parents(w, n) == { p \in w.nodes : <<p, n>> \in w.edges }
Children(w, n) == { c \in w.nodes : <<n, c>> \in w.edges }

Reserved == { Unlabelled, "true", "false", "success", "error" }

\* The statuses of a parent from which an edge without a label is followed.
AnyButSkipped == Statuses \ {"skipped"}
Succeeded == { "success", "true_branch", "false_branch" } \cup SwitchStatuses

\* Whether an edge with this label is followed from a parent that ended so.
IsEdgeLive(label, s) ==
  \/ label = Unlabelled /\ s \in Succeeded
  \/ label = "true"     /\ s = "true_branch"
  \/ label = "false"    /\ s = "false_branch"
  \/ label = "success"  /\ s = "success"
  \/ label = "error"    /\ s = "error"
  \/ label \notin Reserved /\ s = SwitchStatus(label)

\* A parent without a status counts as successful (node_status.get).
StatusOr(status, p) == IF status[p] = Undecided THEN "success" ELSE status[p]

ShouldExecute(w, status, n) ==
  \E p \in Parents(w, n) : IsEdgeLive(w.branch[<<p, n>>], StatusOr(status, p))

HasErrorEdges(w, n) == \E c \in Children(w, n) : w.branch[<<n, c>>] = "error"

\* The types whose handler raises again what _handle_node_error recorded.
ReRaising == { "action", "for_each", "call_workflow" }

\* An error of n ends the run.
Fatal(w, n) ==
  w.type[n] \in ReRaising /\ n \notin w.cont /\ ~HasErrorEdges(w, n)

\* The statuses that executing a node of this type can end in.
Outcomes(w, n) ==
  CASE w.type[n] \in {"if_condition", "domain_condition"} -> {"true_branch", "false_branch", "error"}
    [] w.type[n] = "wait_approval" -> {"true_branch", "false_branch", "error"}
    [] w.type[n] = "switch" -> { SwitchStatus(l) : l \in w.cases[n] } \cup {"error"}
    [] OTHER -> {"success", "error"}
=============================================================================
