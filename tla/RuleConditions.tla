---------------------------- MODULE RuleConditions ----------------------------
(***************************************************************************)
(* The pure part of the rule engine: fields of an event, conditions,       *)
(* decision tables.                                                        *)
(*                                                                         *)
(* An event is the function from its leaf paths to their values: a path is *)
(* a sequence of keys, an object is there when a path goes on below it.    *)
(* Values are strings; Number says which of them read as a number (a date  *)
(* is its day).  A template is a text, a field, or a field and a number to *)
(* add to it, which stands for the arithmetic of templates.                *)
(***************************************************************************)
EXTENDS Integers, Sequences, SequencesExt

CONSTANTS
  Number(_),     \* the number that a value reads as, or what is no number
  Text(_),       \* a number as a value
  Compare(_, _, _), \* contains, starts_with, ends_with, matches_regex of two values
  Today

ASSUME TodayAssumption == Today \in Int

Missing == "missing"  \* a field that the event does not have
Object == "object"    \* a field that is an object

Below(p, q) == p # q /\ IsPrefix(p, q)

\* Dot-notation access; nothing is below a value.
GetField(event, path) ==
  IF path \in DOMAIN event THEN event[path]
  ELSE IF \E q \in DOMAIN event : Below(path, q) THEN Object ELSE Missing

\* A value in the way cannot be given a key: the assignment raises.
Obstructed(event, path) == \E q \in DOMAIN event : Below(q, path)

\* What was below the path is replaced.
SetNested(event, path, value) ==
  LET kept == { q \in DOMAIN event : ~Below(path, q) } \cup {path}
  IN [q \in kept |-> IF q = path THEN value ELSE event[q]]

\* A field that is missing counts as 0 in arithmetic, and as no text elsewhere;
\* arithmetic that fails leaves the text it would have computed with.
Garbled == "garbled"
Interp(event, template) ==
  LET v == IF template.field = <<>> THEN template.text ELSE GetField(event, template.field)
  IN CASE template.field = <<>> \/ template.plus = 0 -> IF v = Missing THEN "" ELSE v
       [] v = Missing      -> Text(template.plus)
       [] Number(v) \in Int -> Text(Number(v) + template.plus)
       [] OTHER            -> Garbled

Literal(value) == [field |-> <<>>, text |-> value, plus |-> 0]

IsTree(event) == event \in [DOMAIN event -> Range(event)] /\ \A p, q \in DOMAIN event : ~Below(p, q)

-----------------------------------------------------------------------------
(* Conditions: a leaf has an operator and a field.  Groups of leaves are   *)
(* in RuleGroups.                                                          *)

Str(actual) == IF actual = Missing THEN "" ELSE actual

Numeric(v) == v # Missing /\ Number(v) \in Int

\* Both sides read as numbers, or as dates.
Ordered(v, w) == Numeric(v) /\ Numeric(w)

\* Every positive operator; the value is a set for in and between.
Positive(op, v, ref) ==
  CASE op = "eq"       -> Str(v) = ref
    [] op = "in"       -> Str(v) \in ref
    [] op = "is_empty" -> Str(v) = ""
    [] op \in {"contains", "starts_with", "ends_with", "matches_regex"} -> Compare(op, Str(v), ref)
    [] OTHER           -> FALSE

Negative == [neq |-> "eq", not_contains |-> "contains", not_in |-> "in", is_not_empty |-> "is_empty"]

\* A comparison of what does not read as a number, or as a date, is false.
Comparison(op, v, ref) ==
  CASE op \in {"gt", "date_after"}  -> Ordered(v, ref) /\ Number(v) > Number(ref)
    [] op = "gte"                   -> Ordered(v, ref) /\ Number(v) >= Number(ref)
    [] op \in {"lt", "date_before"} -> Ordered(v, ref) /\ Number(v) < Number(ref)
    [] op = "lte"                   -> Ordered(v, ref) /\ Number(v) <= Number(ref)
    [] op = "within_last_n_days"    -> Ordered(v, ref) /\ Today - Number(v) <= Number(ref)
    [] op = "older_than_n_days"     -> Ordered(v, ref) /\ Today - Number(v) > Number(ref)
    [] op = "date_equals"           -> Ordered(v, ref) /\ Number(v) = Number(ref)
    [] op = "between"               -> Ordered(v, ref[1]) /\ Numeric(ref[2]) /\ Number(v) \in Number(ref[1]) .. Number(ref[2])
    [] op = "is_true"               -> Str(v) \in {"true", "1", "yes"}
    [] op = "is_false"              -> Str(v) \in {"false", "0", "no", ""}

Comparisons ==
  {"gt", "gte", "lt", "lte", "between", "is_true", "is_false", "date_before", "date_after",
   "date_equals", "within_last_n_days", "older_than_n_days"}

EvalLeafOfPresent(event, leaf) ==
  LET v == GetField(event, leaf.field)
  IN /\ v # Missing
     /\ IF leaf.op \in DOMAIN Negative THEN ~Positive(Negative[leaf.op], v, leaf.value)
        ELSE IF leaf.op \in Comparisons THEN Comparison(leaf.op, v, leaf.value)
        ELSE Positive(leaf.op, v, leaf.value)

EvalLeaf(event, leaf) ==
  LET v == GetField(event, leaf.field)
  IN IF leaf.op \in DOMAIN Negative THEN ~Positive(Negative[leaf.op], v, leaf.value)
     ELSE IF leaf.op \in Comparisons THEN Comparison(leaf.op, v, leaf.value)
     ELSE Positive(leaf.op, v, leaf.value)

-----------------------------------------------------------------------------
(* Decision tables: rows of conditions, one per input column, and outputs. *)

EvalRow(event, table, row) ==
  \A c \in DOMAIN table.inputs \cap DOMAIN row.conditions :
    \/ row.conditions[c].op = "ANY"
    \/ EvalLeaf(event, [field |-> table.inputs[c], op |-> row.conditions[c].op, value |-> row.conditions[c].value])

SetField(field, template) == [type |-> "set_field", field |-> field, value |-> template]

\* The outputs are filled in when the row matches, before any of them is set.
RowActions(event, table, row) ==
  LET filled(c) == SetField(table.outputs[c], Literal(Interp(event, row.outputs[c])))
  IN [c \in DOMAIN table.outputs \cap DOMAIN row.outputs |-> filled(c)]

RowsHit(event, table) == SelectSeq(table.rows, LAMBDA row : EvalRow(event, table, row))

\* Whether any row matches, and the actions that its policy makes of those that do.
EvalTable(event, table) ==
  LET hit == RowsHit(event, table)
      all == FlattenSeq([i \in DOMAIN hit |-> RowActions(event, table, hit[i])])
      conflict == \E i, j \in DOMAIN all : i # j /\ all[i].field = all[j].field
  IN [matched |-> hit # <<>>,
      actions |-> CASE hit = <<>> \/ table.policy = "any_match"   -> <<>>
                    [] hit # <<>> /\ table.policy = "collect_all" -> all
                    [] hit # <<>> /\ table.policy = "unique"      -> IF conflict THEN << [type |-> "error"] >> ELSE all
                    [] OTHER -> RowActions(event, table, hit[1])]
=============================================================================
