--------------------------- MODULE TopologicalSort ---------------------------
(***************************************************************************)
(* The order in which the executor visits the nodes of a workflow: Kahn's  *)
(* algorithm of _topological_sort, one dequeue per step.                   *)
(*                                                                         *)
(* The order of the lists of nodes and edges is data, so wherever the code *)
(* walks such a list this module takes any enumeration of its elements; a  *)
(* repeated edge counts once here, since the code adds it to an in-degree  *)
(* as often as it takes it away.                                           *)
(***************************************************************************)
EXTENDS WorkflowGraph

VARIABLES
  wf,         \* the definition of this run
  in_degree,  \* in_degree[n]: edges into n whose source is not ordered yet
  queue,      \* nodes whose parents are all ordered
  order       \* the result so far

sortVars == <<wf, in_degree, queue, order>>

Elements(s) == { s[i] : i \in 1 .. Len(s) }

\* The enumerations of a finite set, each element exactly once.
Listings(S) ==
  { q \in [1 .. Cardinality(S) -> S] :
      /\ \A x \in S : \E i \in 1 .. Cardinality(S) : q[i] = x
      /\ \A i, j \in 1 .. Cardinality(S) : q[i] = q[j] => i = j }

Nodes == wf.nodes

SortInit ==
  /\ in_degree = [n \in Nodes |-> Cardinality(Parents(wf, n))]
  /\ queue \in Listings({ n \in Nodes : Parents(wf, n) = {} })
  /\ order = <<>>

SortStart == wf \in Workflows /\ SortInit

\* The in-degrees once the children of nid stop waiting for it.
Lowered(nid) ==
  [k \in Nodes |-> IF k \in Children(wf, nid) THEN in_degree[k] - 1 ELSE in_degree[k]]

\* The children whose in-degree that brings to zero.
ReleasedEarly(nid) == Children(wf, nid)
Released(nid) == { k \in Children(wf, nid) : in_degree[k] = 1 }

NodesQueued == queue # <<>>

\* One turn of the while loop: dequeue a node, order it, and enqueue every
\* child that was waiting for it alone.
PopNode ==
  /\ NodesQueued
  /\ order' = Append(order, Head(queue))
  /\ in_degree' = Lowered(Head(queue))
  /\ \E q \in Listings(Released(Head(queue))) : queue' = Tail(queue) \o q
  /\ UNCHANGED wf

Sorted == queue = <<>>

SortSpec == SortStart /\ [][PopNode]_sortVars /\ WF_sortVars(PopNode)

-----------------------------------------------------------------------------

\* Type invariant of the sort.
SortTypeOK ==
  /\ IsDefinition(wf)
  /\ in_degree \in [Nodes -> Nat]
  /\ queue \in Seq(Nodes)
  /\ order \in Seq(Nodes)

\* Every node in the order comes after all of its parents: the executor may
\* read the status of a parent without asking whether it has one yet.
ParentsFirst ==
  \A i \in 1 .. Len(order) :
    \A p \in Parents(wf, order[i]) : \E j \in 1 .. i - 1 : order[j] = p

\* No node is ordered twice, so no node is executed twice.
NoRepeats ==
  \A i, j \in 1 .. Len(order) : order[i] = order[j] => i = j

\* When the loop ends, a node it left out still waits for a parent it left
\* out too, so it lies on or behind a cycle; any other node was ordered.
OnlyCyclesLeftOut ==
  Sorted => \A n \in Nodes \ Elements(order) : Parents(wf, n) \ Elements(order) # {}

\* n lies on a cycle, or behind one: it belongs to a set of nodes each of which
\* has an edge from another of them, or from itself.
BehindCycle(n) ==
  \E S \in SUBSET Nodes : n \in S /\ \A m \in S : \E p \in S : <<p, m>> \in wf.edges

\* The order consists of exactly the nodes that no cycle holds back; the rest of
\* a cyclic definition is left out without an error.
OrdersTheAcyclicPart ==
  Sorted => \A n \in Nodes : n \in Elements(order) <=> ~BehindCycle(n)
=============================================================================
