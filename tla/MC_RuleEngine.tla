---------------------------- MODULE MC_RuleEngine ----------------------------
(***************************************************************************)
(* Lists of two or three out of nine rules, whose actions change the      *)
(* fields that others read; flows of up to two steps, batches of two       *)
(* records, the node of a workflow; real and dry runs.                     *)
(***************************************************************************)
EXTENDS RuleEngine, RuleGroups

CONSTANT NotANumber  \* a model value

Numbers == [v \in {"0", "1", "2", "3"} |-> CASE v = "0" -> 0 [] v = "1" -> 1 [] v = "2" -> 2 [] v = "3" -> 3]
MCNumber(v) == IF v \in DOMAIN Numbers THEN Numbers[v] ELSE NotANumber
MCText(n) == IF n \in 0 .. 3 THEN CHOOSE v \in DOMAIN Numbers : Numbers[v] = n ELSE "many"
MCCompare(op, v, w) == w = "" \/ v = w

A == <<"a">>
O == <<"o">>
OK == <<"o", "k">>

Leaf(field, op, value) == [field |-> field, op |-> op, value |-> value]
Group(combinator, members) == [combinator |-> combinator, rules |-> members]
Always == Group("and", <<>>)
From(field, plus) == [field |-> field, text |-> "", plus |-> plus]
Trigger(w) == [type |-> "trigger_workflow", workflow |-> w]
Tag == [type |-> "add_tag", tag |-> "t"]
Do(type) == [type |-> type]

R(id, priority, type, conditions, actions, else_actions, stop) ==
  [id |-> id, priority |-> priority, type |-> type, filter |-> <<>>, conditions |-> conditions,
   actions |-> actions, else_actions |-> else_actions, stop_on_match |-> stop]

Table(policy) ==
  [inputs |-> <<A, O>>, outputs |-> <<A, OK>>, policy |-> policy,
   rows |-> << [conditions |-> << [op |-> "gte", value |-> "1"], [op |-> "ANY", value |-> ""] >>,
                outputs |-> << From(A, 1), From(A, 0) >>],
               [conditions |-> << [op |-> "is_true", value |-> ""], [op |-> "is_not_empty", value |-> ""] >>,
                outputs |-> << Literal("2") >>] >>]

Script(fails, actions) ==
  [holds |-> Group("or", <<Leaf(A, "is_true", ""), Leaf(O, "eq", "x")>>), fails |-> fails, actions |-> actions,
   output |-> << [field |-> OK, value |-> "1"], [field |-> A, value |-> "2"] >>]

AllRules ==
  { R("sets", 2, "condition_tree", Group("and", <<Leaf(A, "lt", "2"), Group("not", <<Leaf(A, "contains", "x")>>)>>),
      <<SetField(A, From(A, 1)), Trigger("w"), SetField(O, Literal("x"))>>, <<Tag, Do("send_email")>>, FALSE),
    R("stop", 2, "condition_tree", Group("or", <<Leaf(A, "in", {"1", "2"}), Leaf(OK, "between", <<"1", "2">>)>>),
      <<Do("send_webhook"), Trigger("gone")>>, <<Do("stop_processing"), Tag>>, TRUE),
    [R("filtered", 2, "condition_tree", Always, <<SetField(OK, Literal("2")), Trigger("w")>>, <<>>, FALSE)
       EXCEPT !.filter = [a |-> "1"]],
    R("first", 1, "decision_table", Table("first"), <<>>, <<Tag>>, FALSE),
    R("any", 3, "decision_table", Table("any_match"), <<>>, <<>>, FALSE),
    R("unique", 2, "decision_table", Table("unique"), <<>>, <<>>, FALSE),
    R("collect", 3, "decision_table", Table("collect_all"), <<>>, <<>>, TRUE),
    R("script", 1, "javascript", Script(FALSE, <<Do("stop_processing")>>), <<>>, <<Trigger("w")>>, FALSE),
    R("failing", 3, "javascript", Script(TRUE, <<>>), <<Tag>>, <<Do("send_email")>>, FALSE) }

\* Any two rules, and a third one that reads what they changed.
MCBooks ==
  { b \in { <<r, s>> : r, s \in AllRules } \cup
         { <<q, r, s>> : q, r, s \in { x \in AllRules : x.id \in {"sets", "stop", "script"} } } :
      IsInjective(b) }

Data == { (A :> "1"), (A :> "x") @@ (OK :> "1"), (O :> "x") @@ (<<"data", "a">> :> "1"),
          (A :> "x") @@ (<<"_tags">> :> "x"), (A :> "1") @@ (<<"data">> :> "x") }

Step(rule, pass_output) == [rule |-> rule, pass_output |-> pass_output, step_order |-> 0]
FlowSteps ==
  { << Step("sets", TRUE), Step("stop", FALSE) >>, << Step(Missed, FALSE), Step("filtered", TRUE) >>,
    << [Step("first", TRUE) EXCEPT !.step_order = 1], Step(NoRule, TRUE) >>, <<>> }

MCRequests ==
  [caller : {"activity"}, dry_run : BOOLEAN, steps : {<<>>}, records : { <<d>> : d \in Data }]
    \cup [caller : {"batch"}, dry_run : {FALSE}, steps : {<<>>}, records : { <<(A :> "1"), (O :> "x") @@ (<<"data", "a">> :> "1")>> }]
    \cup [caller : {"flow"}, dry_run : {FALSE}, steps : FlowSteps, records : { <<d>> : d \in Data }]
    \cup [caller : {"flow"}, dry_run : {TRUE}, steps : FlowSteps, records : { <<A :> "1">> }]
=============================================================================
