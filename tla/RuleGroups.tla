------------------------------ MODULE RuleGroups ------------------------------
(***************************************************************************)
(* Groups of conditions, nested to any depth: what RuleEngine takes as the *)
(* meaning of the conditions of a rule.                                    *)
(***************************************************************************)
EXTENDS RuleConditions

\* A group without members restricts nothing; "not" looks at its first member only.
RECURSIVE EvalGroup(_, _)
EvalGroup(event, group) ==
  LET holds == [i \in DOMAIN group.rules |->
                  IF "combinator" \in DOMAIN group.rules[i] THEN EvalGroup(event, group.rules[i])
                  ELSE EvalLeaf(event, group.rules[i])]
  IN \/ group.rules = <<>>
     \/ group.combinator = "or" /\ \E i \in DOMAIN holds : holds[i]
     \/ group.combinator = "not" /\ ~holds[1]
     \/ group.combinator \notin {"or", "not"} /\ \A i \in DOMAIN holds : holds[i]
=============================================================================
