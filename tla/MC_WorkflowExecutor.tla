------------------------- MODULE MC_WorkflowExecutor -------------------------
(***************************************************************************)
(* Instances of WorkflowExecutor: families of small definitions.           *)
(***************************************************************************)
EXTENDS WorkflowExecutor

\* A definition without decorations: its nodes with their types, its edges
\* as triples <<from, to, label>>.
Def(types, edges) ==
  LET pairs == { <<e[1], e[2]>> : e \in edges }
  IN [nodes |-> DOMAIN types, edges |-> pairs,
      branch |-> [p \in pairs |-> (CHOOSE e \in edges : <<e[1], e[2]>> = p)[3]],
      type |-> types,
      cases |-> [n \in DOMAIN types |-> IF types[n] = "switch" THEN {"a", "b"} ELSE {}],
      cont |-> {}, denied |-> {}, notify_on_completion |-> FALSE, notify_on_failure |-> FALSE]

Continuing(w, ns) == [w EXCEPT !.cont = ns]
Denying(w, ns) == [w EXCEPT !.denied = ns]
Notifying(w) == [w EXCEPT !.notify_on_completion = TRUE, !.notify_on_failure = TRUE]

Labelled(shape, lab) == { <<e[1], e[2], lab[e]>> : e \in shape }

\* A diamond without its lower half: n1 routes to n2 and n3, n2 to n3.
Triangle == { <<"n1", "n2">>, <<"n1", "n3">>, <<"n2", "n3">> }

\* Every labelling of the triangle, n1 and n2 of each kind that routes or
\* works, without decoration and with n2 continuing or denied.
Triangles ==
  UNION { LET w == Def([n1 |-> t1, n2 |-> t2, n3 |-> "merge"], Labelled(Triangle, lab))
          IN { w, Continuing(w, {"n2"}), Denying(w, {"n2"}) } :
            t1 \in {"if_condition", "action"}, t2 \in {"action", "switch"},
            lab \in [Triangle -> {Unlabelled, "true", "error", "a"}] }

\* A condition, two branches and their merge, with one of them failing.
Diamond == { <<"n1", "n2">>, <<"n1", "n3">>, <<"n2", "n4">>, <<"n3", "n4">> }

Diamonds ==
  { Notifying(Def([n1 |-> t1, n2 |-> "action", n3 |-> t3, n4 |-> "merge"], Labelled(Diamond, lab))) :
      t1 \in {"if_condition", "switch"}, t3 \in {"action", "wait_approval"},
      lab \in { l \in [Diamond -> {Unlabelled, "true", "false", "error", "b"}] :
                 l[<<"n2", "n4">>] \in {Unlabelled, "error"} /\ l[<<"n3", "n4">>] # "b" } }

\* A cycle behind a node that still runs, an edge from a node that does not
\* exist, notifications, and a node that waits for an approver.
Oddities ==
  { Def([n1 |-> "trigger", n2 |-> "action", n3 |-> "action"],
        { <<"n1", "n2", "">>, <<"n2", "n3", "">>, <<"n3", "n2", "">> }),
    Def([n1 |-> "trigger", n2 |-> "call_workflow", n3 |-> "for_each"],
        { <<"n1", "n2", "">>, <<"ghost", "n3", "">>, <<"n2", "n3", "success">> }),
    Notifying(Def([n1 |-> "trigger", n2 |-> "wait_approval", n3 |-> "domain_condition"],
        { <<"n1", "n2", "">>, <<"n2", "n3", "false">> })) }

\* Every graph on two nodes with edges from one that does not exist, and every
\* graph on three: cycles, self-loops and dangling edges among them.
Graph(ns, es) == Def([n \in ns |-> "merge"], { <<e[1], e[2], Unlabelled>> : e \in es })
Pairs == {"n1", "n2"}
Triples == {"n1", "n2", "n3"}
Graphs ==
  { Graph(Pairs, es) : es \in SUBSET ((Pairs \cup {"ghost"}) \X Pairs) }
  \cup { Graph(Triples, es) : es \in SUBSET { e \in Triples \X Triples : e[1] # e[2] } }

MCWorkflows == Triangles \cup Diamonds \cup Oddities \cup Graphs
=============================================================================
