---------------------------- MODULE MC_NodeCalls ----------------------------
(***************************************************************************)
(* One node of each kind, for TLC: an activity with and without retries,   *)
(* two items of four bodies, a child run, and a scraper beside another     *)
(* scrape, whose actions click, and two logins.                            *)
(***************************************************************************)
EXTENDS NodeCalls, TLC

Body(types, edges) ==
  [nodes |-> DOMAIN types, type |-> types, edges |-> DOMAIN edges, branch |-> edges,
   cases |-> [n \in DOMAIN types |-> {}], cont |-> {}, denied |-> {},
   notify_on_completion |-> FALSE, notify_on_failure |-> FALSE]
Ordered(b, order) == b @@ [order |-> order]

\* b2 follows b1; b3 would follow its failure, and never runs.
Branching == Ordered(Body([b1 |-> "action", b2 |-> "action", b3 |-> "action"],
                          <<"b1", "b2">> :> Unlabelled @@ <<"b1", "b3">> :> "error"), <<"b1", "b3", "b2">>)
Conditional == Ordered(Body([b1 |-> "action", b2 |-> "if_condition"], <<"b1", "b2">> :> Unlabelled), <<"b1", "b2">>)
Broken == Ordered(Body([b1 |-> "action"], <<"b1", "b9">> :> Unlabelled), <<"b1">>)
Empty == Ordered(Body(<<>>, <<>>), <<>>)
\* b3 has only a parent that is left out; b4 and b5 hold each other back.
Chained == Ordered(Body([b1 |-> "action", b2 |-> "action", b3 |-> "action", b4 |-> "action", b5 |-> "action"],
                        <<"b1", "b2">> :> "error" @@ <<"b2", "b3">> :> Unlabelled
                          @@ <<"b4", "b5">> :> Unlabelled @@ <<"b5", "b4">> :> Unlabelled), <<"b1", "b2", "b3">>)

Plan(type, n) == [type |-> type, configured |-> TRUE, items |-> 0, body |-> Empty, hiccups |-> n, jobs |-> {}]
Each(items, body) == [Plan("for_each", 0) EXCEPT !.items = items, !.body = body]

MCPlans ==
  { Plan(type, 2) : type \in {"http_request", "run_code", "delay", "skipped"} }
  \cup { Plan("call_workflow", 1), Plan("no_such_type", 0) }
  \cup { [Plan("web_scraper", 0) EXCEPT !.jobs = j] : j \in {{"s1", "s2"}, {"s1", "l1", "l2"}, {"s1", "s2", "l1"}} }
  \cup { [Plan(type, 0) EXCEPT !.configured = FALSE] : type \in {"agent_graph_node", "excel_write"} }
  \cup { Each(2, Branching), Each(2, Conditional), Each(2, Chained), Each(1, Broken), Each(2, Empty) }

Template(secret, mfa, totp, proves) ==
  [secret |-> secret, login_url |-> TRUE, mfa |-> mfa, totp |-> totp, proves |-> proves]
MCTemplates ==
  { Template("password_and_seed", {"code", "url"}, TRUE, FALSE), Template("password_and_seed", {"code"}, FALSE, TRUE),
    Template("password", {"code"}, TRUE, FALSE), Template("none", {}, TRUE, FALSE) }
=============================================================================
