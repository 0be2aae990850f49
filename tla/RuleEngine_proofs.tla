--------------------------- MODULE RuleEngine_proofs ---------------------------
(***************************************************************************)
(* Proofs about the rule engine, for every request, list of rules, event   *)
(* and meaning of the conditions.                                          *)
(*                                                                         *)
(* What a committed request says of itself is collected rule by rule, so   *)
(* the invariant says of every moment: which rules are accounted for so    *)
(* far, where each effect stands or is about to stand, and what the rows   *)
(* that are to be written may still come to show.                          *)
(***************************************************************************)
EXTENDS RuleEngine, FiniteSetTheorems, SequenceTheorems, WellFoundedInduction, TLAPS

\* Where the request is.
Placed ==
  /\ request \in Requests /\ book \in Books /\ steps \in Loaded(request.steps)
  /\ at \in {"call", "rule", "act", "return", "committed", "raised"}
  /\ call \in Nat \ {0} /\ call <= Calls + 1
  /\ at \in {"call", "rule", "act", "return"} => call <= Calls
  /\ at = "committed" => call = Calls + 1
  /\ rules \in {<<>>, Sorted}
  /\ at \in {"rule", "act", "return"} => rules = Sorted
  /\ pos \in 1 .. Len(rules) + 1
  /\ at = "act" => pos <= Len(rules)

RowFields == {"call", "pos", "matched", "executed", "event", "flushed", "mutations"}

\* Rows, results and the rest are records and sequences.
Shaped ==
  /\ IsSequence(audits) /\ IsSequence(effects) /\ IsSequence(mutations) /\ IsSequence(matched)
  /\ DOMAIN current = {"matched", "todo", "executed", "halted"}
  /\ IsSequence(current.executed)
  /\ \A m \in Range(matched) : IsSequence(m.executed)
  /\ \A i \in DOMAIN audits :
       /\ DOMAIN audits[i] = RowFields
       /\ IsSequence(audits[i].executed)
       /\ audits[i].mutations \in Nat /\ audits[i].mutations <= Len(mutations)

Trees == IsTree(event) /\ \A i \in DOMAIN audits : IsTree(audits[i].event)

Before(c, p, d, q) == c < d \/ (c = d /\ p < q)

\* The rows stand in the order in which the rules were evaluated; the last one
\* of a call may have halted it.
RowsInOrder ==
  /\ audits # <<>> => rules = Sorted
  /\ \A i \in DOMAIN audits :
       /\ audits[i].call \in Nat /\ audits[i].pos \in 1 .. Len(rules)
       /\ \/ audits[i].call < call
          \/ /\ audits[i].call = call /\ audits[i].pos < pos
             /\ at \in {"rule", "act"} => ~HaltedBy(audits[i])
             /\ at \in {"rule", "act", "return"}
  /\ \A i, j \in DOMAIN audits :
       i < j /\ audits[i].call = audits[j].call => audits[i].pos < audits[j].pos /\ ~HaltedBy(audits[i])

\* The rule under evaluation is halted by its last action, if by any.
HaltsAtOnce ==
  at = "act" /\ ~request.dry_run =>
    (current.halted <=> current.executed # <<>> /\ Halts(current.executed[Len(current.executed)]))

Accounted(c, p) ==
  \/ request.caller = "flow" /\ steps[c].rule \in {NoRule, Missed}
  \/ <<c, p>> \in skipped
  \/ \E i \in DOMAIN audits : audits[i].call = c /\ audits[i].pos = p
  \/ \E i \in DOMAIN audits : audits[i].call = c /\ audits[i].pos < p /\ HaltedBy(audits[i])

\* Of the calls before this one, and of the rules of this one before this one.
AccountedSoFar ==
  at # "raised" /\ ~request.dry_run =>
    \A c \in 1 .. Calls, p \in DOMAIN book :
      \/ c < call
      \/ c = call /\ at \in {"rule", "act"} /\ p < pos
      \/ c = call /\ at = "return"
      => Accounted(c, p)

DryRun ==
  request.dry_run =>
    /\ DryRunsHaveNoEffects
    /\ \A k \in DOMAIN current.executed : current.executed[k].status = "preview"
    /\ \A m \in Range(matched) : \A k \in DOMAIN m.executed : m.executed[k].status = "preview"

Shows(executed, e) ==
  /\ e.nth \in DOMAIN executed
  /\ AsDone(executed[e.nth], e)

\* Each effect is the one of an action whose result is kept.
EffectsAreKnown ==
  /\ \A i, j \in DOMAIN effects : effects[i] = effects[j] => i = j
  /\ at # "raised" => \A i \in DOMAIN effects :
       \/ at = "act" /\ effects[i].call = call /\ effects[i].pos = pos /\ Shows(current.executed, effects[i])
       \/ \E a \in DOMAIN audits :
            audits[a].call = effects[i].call /\ audits[a].pos = effects[i].pos /\ Shows(audits[a].executed, effects[i])

\* What is said to be done was done, under the place that the result has.
AllDone(executed, c, p) ==
  \A k \in DOMAIN executed :
    IsDone(executed[k]) => [call |-> c, pos |-> p, nth |-> k, type |-> executed[k].type] \in Range(effects)

DoneIsKnown ==
  /\ at = "act" => AllDone(current.executed, call, pos)
  /\ \A a \in DOMAIN audits : AllDone(audits[a].executed, audits[a].call, audits[a].pos)

\* The last field that the actions set holds what it was set to.
FieldsHold(executed, data) ==
  \A k \in DOMAIN executed :
    executed[k].type = "set_field" =>
      \/ GetField(data, executed[k].field) = executed[k].value
      \/ \E l \in k + 1 .. Len(executed) : executed[l].type \in {"set_field", "add_tag"}

RowsShowTheEvent ==
  /\ at = "act" /\ ~request.dry_run => FieldsHold(current.executed, event)
  /\ \A i \in DOMAIN audits : FieldsHold(audits[i].executed, audits[i].event) \/ Len(mutations) > audits[i].mutations

EventAsSent ==
  /\ mutations = <<>> /\ request.caller # "batch" => event = request.records[1]
  /\ TestPredicts

EngineIInv ==
  /\ Placed
  /\ Shaped
  /\ Trees
  /\ RowsInOrder
  /\ HaltsAtOnce
  /\ AccountedSoFar
  /\ DryRun
  /\ EffectsAreKnown
  /\ DoneIsKnown
  /\ RowsShowTheEvent
  /\ EventAsSent

-----------------------------------------------------------------------------
(* Sequences, and numbers.                                                 *)

LEMMA SequenceIs ==
  ASSUME NEW s, IsSequence(s)
  PROVE  Len(s) \in Nat /\ DOMAIN s = 1 .. Len(s) /\ s \in [1 .. Len(s) -> Range(s)]
BY DEF IsSequence

LEMMA FunctionIsSequence ==
  ASSUME NEW n \in Nat, NEW S, NEW s \in [1 .. n -> S]
  PROVE  IsSequence(s) /\ Len(s) = n
<1>1. s \in [1 .. n -> Range(s)]
  BY DEF Range
<1>2. s \in Seq(Range(s))
  BY <1>1, IsASeq
<1>3. DOMAIN s = 1 .. Len(s) /\ DOMAIN s = 1 .. n /\ Len(s) \in Nat
  BY <1>2
<1> QED BY <1>2, <1>3 DEF IsSequence

LEMMA EmptySequence ==
  IsSequence(<<>>) /\ Len(<<>>) = 0 /\ DOMAIN <<>> = {} /\ Range(<<>>) = {}
BY DEF IsSequence, Range

\* Both lengths are zero exactly for the empty sequence.
LEMMA EmptyIffNone ==
  ASSUME NEW s, IsSequence(s)
  PROVE  (s = <<>> <=> Len(s) = 0) /\ (s = <<>> <=> DOMAIN s = {})
<1>1. s \in Seq(Range(s))
  BY DEF IsSequence
<1>2. s = <<>> <=> Len(s) = 0
  BY <1>1, EmptySeq
<1>3. Len(s) \in Nat /\ DOMAIN s = 1 .. Len(s)
  BY <1>1
<1> QED BY <1>2, <1>3

LEMMA Appended ==
  ASSUME NEW s, IsSequence(s), NEW e
  PROVE  /\ IsSequence(Append(s, e))
         /\ Len(Append(s, e)) = Len(s) + 1
         /\ DOMAIN Append(s, e) = DOMAIN s \cup {Len(s) + 1}
         /\ \A i \in DOMAIN s : Append(s, e)[i] = s[i]
         /\ Append(s, e)[Len(s) + 1] = e
         /\ Append(s, e) # <<>>
         /\ Range(Append(s, e)) = Range(s) \cup {e}
<1> DEFINE S == Range(s) \cup {e}
           a == Append(s, e)
<1>1. s \in Seq(S) /\ e \in S /\ Len(s) \in Nat /\ DOMAIN s = 1 .. Len(s)
  BY DEF IsSequence
<1>2. /\ a \in Seq(S) /\ a # <<>> /\ Len(a) = Len(s) + 1
      /\ \A i \in 1 .. Len(s) : a[i] = s[i]
      /\ a[Len(s) + 1] = e
  BY <1>1, AppendProperties
<1> HIDE DEF a
<1>3. DOMAIN a = 1 .. Len(s) + 1 /\ a \in [1 .. Len(s) + 1 -> S]
  BY <1>1, <1>2
<1>4. IsSequence(a)
  <2> DEFINE n == Len(s) + 1
  <2>1. n \in Nat /\ a \in [1 .. n -> S]
    BY <1>1, <1>3
  <2> HIDE DEF n, S
  <2> QED BY <2>1, FunctionIsSequence
<1>5. DOMAIN a = DOMAIN s \cup {Len(s) + 1}
  BY <1>1, <1>3
<1>6. Range(a) = S
  BY <1>1, <1>2, <1>5 DEF Range
<1> QED BY <1>1, <1>2, <1>4, <1>5, <1>6 DEF a

LEMMA LeastNat ==
  ASSUME NEW T \in SUBSET Nat, T # {}
  PROVE  \E i \in T : \A j \in T : i <= j
<1> DEFINE R == OpToRel(<, Nat)
<1>1. IsWellFoundedOn(R, Nat)
  BY NatLessThanWellFounded
<1>2. \A i, j \in Nat : i < j => <<i, j>> \in R
  BY DEF OpToRel
<1> HIDE DEF R
<1>3. PICK i \in T : \A j \in T : <<j, i>> \notin R
  BY <1>1, WFMin
<1>4. ASSUME NEW j \in T PROVE i <= j
  <2>1. i \in Nat /\ j \in Nat /\ ~(j < i)
    BY <1>2, <1>3
  <2> QED BY <2>1
<1> QED BY <1>4

-----------------------------------------------------------------------------
(* The rules as process_event sorts them.                                  *)

Earlier(i, j) == book[i].priority < book[j].priority \/ (book[i].priority = book[j].priority /\ i < j)
Place(i) == Cardinality({ j \in DOMAIN book : Earlier(j, i) }) + 1

LEMMA BookIs ==
  ASSUME book \in Books
  PROVE  /\ IsSequence(book) /\ Len(book) \in Nat /\ DOMAIN book = 1 .. Len(book)
         /\ \A i \in DOMAIN book : book[i].priority \in Int
         /\ IsFiniteSet(DOMAIN book) /\ Cardinality(DOMAIN book) = Len(book)
<1>1. IsSequence(book) /\ \A r \in Range(book) : r.priority \in Int
  BY BooksAssumption
<1>2. Len(book) \in Nat /\ DOMAIN book = 1 .. Len(book)
  BY <1>1, SequenceIs
<1>3. IsFiniteSet(1 .. Len(book)) /\ Cardinality(1 .. Len(book)) = Len(book)
  <2> DEFINE n == Len(book)
  <2>1. n \in Nat
    BY <1>2
  <2> HIDE DEF n
  <2>2. IsFiniteSet(1 .. n) /\ Cardinality(1 .. n) = (IF 1 > n THEN 0 ELSE n - 1 + 1)
    BY <2>1, FS_Interval
  <2>3. IsFiniteSet(1 .. n) /\ Cardinality(1 .. n) = n
    BY <2>1, <2>2
  <2> QED BY <2>3 DEF n
<1> QED BY <1>1, <1>2, <1>3 DEF Range

\* Rules that come earlier have a lower place.
LEMMA PlacesAreOrdered ==
  ASSUME book \in Books
  PROVE  /\ \A i \in DOMAIN book : Place(i) \in DOMAIN book
         /\ \A i, j \in DOMAIN book : Earlier(i, j) => Place(i) < Place(j)
<1> DEFINE Ahead(i) == { j \in DOMAIN book : Earlier(j, i) }
<1>1. ASSUME NEW i \in DOMAIN book
      PROVE  IsFiniteSet(Ahead(i)) /\ Cardinality(Ahead(i)) \in Nat /\ Cardinality(Ahead(i)) < Len(book)
  <2>1. i \in Int /\ book[i].priority \in Int
    BY BookIs
  <2>2. Ahead(i) \in SUBSET DOMAIN book /\ i \notin Ahead(i)
    BY <2>1 DEF Earlier
  <2> HIDE DEF Ahead
  <2>3. IsFiniteSet(Ahead(i)) /\ Cardinality(Ahead(i)) <= Len(book) /\ Cardinality(Ahead(i)) # Len(book)
    BY <2>2, BookIs, FS_Subset
  <2>4. Cardinality(Ahead(i)) \in Nat
    BY <2>3, FS_CardinalityType
  <2> QED BY <2>3, <2>4, BookIs
<1>2. ASSUME NEW i \in DOMAIN book, NEW j \in DOMAIN book, Earlier(i, j)
      PROVE  Cardinality(Ahead(i)) < Cardinality(Ahead(j))
  <2>1. i \in Int /\ j \in Int /\ \A k \in DOMAIN book : k \in Int /\ book[k].priority \in Int
    BY BookIs
  <2>2. Ahead(i) \in SUBSET Ahead(j) /\ i \in Ahead(j) /\ i \notin Ahead(i)
    BY <1>2, <2>1 DEF Earlier
  <2> HIDE DEF Ahead
  <2>3. IsFiniteSet(Ahead(j)) /\ Cardinality(Ahead(j)) \in Nat /\ Cardinality(Ahead(i)) \in Nat
    BY <1>1
  <2>4. Cardinality(Ahead(i)) <= Cardinality(Ahead(j)) /\ Cardinality(Ahead(i)) # Cardinality(Ahead(j))
    BY <2>2, <2>3, FS_Subset
  <2> QED BY <2>3, <2>4
<1>3. \A i : Place(i) = Cardinality(Ahead(i)) + 1
  BY DEF Place
<1> HIDE DEF Ahead
<1>4. ASSUME NEW i \in DOMAIN book PROVE Place(i) \in DOMAIN book
  BY <1>1, <1>3, BookIs
<1>5. ASSUME NEW i \in DOMAIN book, NEW j \in DOMAIN book, Earlier(i, j) PROVE Place(i) < Place(j)
  BY <1>1, <1>2, <1>3, <1>5
<1> QED BY <1>4, <1>5

\* The rules are evaluated each once, by priority, and in the order of the
\* cached list where their priorities are equal (rules.sort in process_event).
THEOREM RulesAreSorted ==
  ASSUME book \in Books
  PROVE  /\ IsSequence(Sorted) /\ Len(Sorted) = Len(book) /\ DOMAIN Sorted = DOMAIN book
         /\ \E p \in Bijection(DOMAIN book, DOMAIN book) :
              \A m, n \in DOMAIN book :
                /\ Sorted[m] = book[p[m]]
                /\ m < n => Earlier(p[m], p[n])
<1> DEFINE f == [i \in DOMAIN book |-> Place(i)]
           p == [n \in DOMAIN book |-> CHOOSE i \in DOMAIN book : Place(i) = n]
<1>1. f \in [DOMAIN book -> DOMAIN book]
  BY PlacesAreOrdered
<1>2. ASSUME NEW i \in DOMAIN book, NEW j \in DOMAIN book PROVE Earlier(i, j) \/ Earlier(j, i) \/ i = j
  BY BookIs DEF Earlier
<1>3. ASSUME NEW i \in DOMAIN book, NEW j \in DOMAIN book, Place(i) = Place(j) PROVE i = j
  <2>1. ~(Place(i) < Place(j)) /\ ~(Place(j) < Place(i))
    <3>1. Place(i) \in Int /\ Place(j) \in Int
      BY PlacesAreOrdered, BookIs
    <3> QED BY <1>3, <3>1
  <2> QED BY <1>2, <2>1, PlacesAreOrdered
<1>4. f \in Injection(DOMAIN book, DOMAIN book)
  BY <1>1, <1>3 DEF Injection, IsInjective
<1>5. f \in Surjection(DOMAIN book, DOMAIN book)
  <2> HIDE DEF f
  <2> QED BY <1>4, BookIs, FS_Injection
<1>6. ASSUME NEW n \in DOMAIN book PROVE p[n] \in DOMAIN book /\ Place(p[n]) = n
  <2>1. \E i \in DOMAIN book : Place(i) = n
    BY <1>5 DEF Surjection
  <2> QED BY <2>1
<1>7. p \in Bijection(DOMAIN book, DOMAIN book)
  <2>1. p \in [DOMAIN book -> DOMAIN book]
    BY <1>6
  <2>2. \A m, n \in DOMAIN book : p[m] = p[n] => m = n
    BY <1>6
  <2>3. \A i \in DOMAIN book : Place(i) \in DOMAIN book /\ p[Place(i)] = i
    BY <1>3, <1>6, PlacesAreOrdered
  <2> HIDE DEF p
  <2> QED BY <2>1, <2>2, <2>3 DEF Bijection, Injection, Surjection, IsInjective
<1>8. \A n \in DOMAIN book : Sorted[n] = book[p[n]]
  BY DEF Sorted, Place, Earlier
<1>9. DOMAIN Sorted = DOMAIN book
  BY DEF Sorted
<1>10. IsSequence(Sorted) /\ Len(Sorted) = Len(book)
  <2>1. Sorted \in [1 .. Len(book) -> { Sorted[n] : n \in 1 .. Len(book) }]
    BY BookIs DEF Sorted
  <2> QED BY <2>1, BookIs, FunctionIsSequence
<1>11. ASSUME NEW m \in DOMAIN book, NEW n \in DOMAIN book, m < n PROVE Earlier(p[m], p[n])
  <2>1. p[m] \in DOMAIN book /\ p[n] \in DOMAIN book /\ Place(p[m]) = m /\ Place(p[n]) = n
    BY <1>6
  <2>2. m \in Int /\ n \in Int
    BY BookIs
  <2> HIDE DEF p
  <2>3. p[m] # p[n]
    BY <1>11, <2>1, <2>2
  <2>4. ~Earlier(p[n], p[m])
    <3>1. ~(n < m)
      BY <1>11, <2>2
    <3> QED BY <2>1, <3>1, PlacesAreOrdered
  <2> QED BY <1>2, <2>1, <2>3, <2>4
<1> HIDE DEF p
<1> QED BY <1>7, <1>8, <1>9, <1>10, <1>11

LEMMA RulesOfTheBook ==
  ASSUME Placed
  PROVE  /\ IsSequence(rules) /\ Len(rules) \in Nat /\ DOMAIN rules = 1 .. Len(rules)
         /\ IsSequence(Sorted) /\ DOMAIN Sorted = DOMAIN book /\ Len(Sorted) = Len(book) /\ Len(book) \in Nat
         /\ DOMAIN book = 1 .. Len(book)
         /\ Range(Sorted) \subseteq Range(book)
         /\ pos \in Nat \ {0}
<1>1. book \in Books
  BY DEF Placed
<1>2. /\ IsSequence(Sorted) /\ DOMAIN Sorted = DOMAIN book /\ Len(Sorted) = Len(book)
      /\ Range(Sorted) \subseteq Range(book)
  BY <1>1, RulesAreSorted DEF Bijection, Injection, Range
<1>3. IsSequence(rules)
  BY <1>2, EmptySequence DEF Placed
<1>4. Len(rules) \in Nat /\ DOMAIN rules = 1 .. Len(rules)
  BY <1>3, SequenceIs
<1>5. pos \in Nat \ {0}
  BY <1>4 DEF Placed
<1> QED BY <1>1, <1>2, <1>3, <1>4, <1>5, BookIs

-----------------------------------------------------------------------------
(* Events: what a change makes of a tree is a tree.                        *)

LEMMA SetNestedKeepsTheTree ==
  ASSUME NEW e, IsTree(e), NEW path, NEW value, ~Obstructed(e, path)
  PROVE  IsTree(SetNested(e, path, value)) /\ GetField(SetNested(e, path, value), path) = value
<1> DEFINE kept == { q \in DOMAIN e : ~Below(path, q) } \cup {path}
           f == SetNested(e, path, value)
<1>1. f = [q \in kept |-> IF q = path THEN value ELSE e[q]]
  BY DEF SetNested
<1>2. f \in [DOMAIN f -> Range(f)] /\ DOMAIN f = kept
  BY <1>1 DEF Range
<1>3. ASSUME NEW p \in kept, NEW q \in kept PROVE ~Below(p, q)
  <2>1. ~Below(path, path)
    BY DEF Below
  <2>2. \A x, y \in DOMAIN e : ~Below(x, y)
    BY DEF IsTree
  <2>3. \A x \in DOMAIN e : ~Below(x, path)
    BY DEF Obstructed
  <2> QED BY <2>1, <2>2, <2>3
<1>4. f[path] = value /\ path \in DOMAIN f
  BY <1>1
<1> HIDE DEF kept, f
<1>5. IsTree(f)
  BY <1>2, <1>3 DEF IsTree
<1>6. GetField(f, path) = value
  BY <1>4 DEF GetField
<1> QED BY <1>5, <1>6 DEF f

LEMMA SettingNothing ==
  ASSUME IsTree(event), NEW items, DOMAIN items = {}
  PROVE  SetAll(items) = event
<1>1. SetAll(items) = [q \in DOMAIN event |-> event[q]]
  BY DEF SetAll
<1> QED BY <1>1 DEF IsTree

LEMMA SetAllKeepsTheTree ==
  ASSUME IsTree(event), NEW items, DOMAIN items \subseteq Nat, Settable(items)
  PROVE  IsTree(SetAll(items))
<1> DEFINE standing == { i \in DOMAIN items : Stands(items, i) }
           set  == { items[i].field : i \in standing }
           kept == { q \in DOMAIN event : \A i \in DOMAIN items : ~IsPrefix(items[i].field, q) }
           f == SetAll(items)
<1>1. DOMAIN f = kept \cup set /\ f \in [DOMAIN f -> Range(f)]
  BY DEF SetAll, Range
\* What stands in the way of an item still does so when it is set.
<1>2. ASSUME NEW j \in DOMAIN items, NEW p \in kept \cup set, p # items[j].field,
             p \in kept \/ \E i \in standing : i < j /\ items[i].field = p
      PROVE  ~Below(p, items[j].field)
  <2> DEFINE some == Restrict(items, { i \in DOMAIN items : i < j })
  <2>1. DOMAIN some = { i \in DOMAIN items : i < j } /\ \A i \in DOMAIN some : some[i] = items[i]
    BY DEF Restrict
  <2>2. ~Obstructed(SetAll(some), items[j].field)
    BY DEF Settable
  <2> HIDE DEF some
  <2>3. p \in DOMAIN SetAll(some)
    <3>1. CASE p \in kept
      BY <3>1, <2>1 DEF SetAll
    <3>2. CASE \E i \in standing : i < j /\ items[i].field = p
      <4>1. PICK i \in standing : i < j /\ items[i].field = p
        BY <3>2
      <4>2. i \in DOMAIN some /\ some[i].field = p /\ Stands(some, i)
        BY <4>1, <2>1 DEF Stands
      <4> QED BY <4>2 DEF SetAll
    <3> QED BY <1>2, <3>1, <3>2
  <2> QED BY <2>2, <2>3 DEF Obstructed
<1>3. ASSUME NEW p \in kept \cup set, NEW q \in kept \cup set, Below(p, q) PROVE FALSE
  <2>1. p # q /\ IsPrefix(p, q)
    BY <1>3 DEF Below
  <2>2. CASE p \in kept /\ q \in kept
    BY <1>3, <2>2 DEF IsTree
  <2>3. CASE p \in set /\ q \in kept
    BY <2>1, <2>3
  <2>4. CASE p \in kept /\ q \in set
    BY <1>2, <1>3, <2>1, <2>4
  <2>5. CASE p \in set /\ q \in set
    <3>1. PICK i \in standing, j \in standing : items[i].field = p /\ items[j].field = q
      BY <2>5
    <3>2. i \in Nat /\ j \in Nat /\ i # j
      BY <2>1, <3>1
    <3>3. ~(j < i)
      BY <2>1, <3>1 DEF Stands
    <3>4. i < j
      BY <3>2, <3>3
    <3> QED BY <1>2, <1>3, <2>1, <3>1, <3>4
  <2> QED BY <1>3, <2>2, <2>3, <2>4, <2>5
<1> HIDE DEF f, kept, set, standing
<1>4. IsTree(f)
  BY <1>1, <1>3 DEF IsTree
<1> QED BY <1>4 DEF f

\* The negations and the opposite comparisons, for any event and any values.
LEMMA Negations ==
  ASSUME NEW e, NEW p, NEW v
  PROVE  LET holds(op, ref) == EvalLeaf(e, [op |-> op, field |-> p, value |-> ref])
         IN /\ \A op \in DOMAIN Negative \ {"not_in"} : holds(op, v) <=> ~holds(Negative[op], v)
            /\ holds("not_in", {v, "2"}) <=> ~holds("in", {v, "2"})
            /\ \A o \in {<<"gt", "lte">>, <<"lt", "gte">>, <<"within_last_n_days", "older_than_n_days">>,
                         <<"date_before", "date_after">>, <<"is_true", "is_false">>} :
                 ~(holds(o[1], v) /\ holds(o[2], v))
<1> DEFINE holds(op, ref) == EvalLeaf(e, [op |-> op, field |-> p, value |-> ref])
           w == GetField(e, p)
<1>1. DOMAIN Negative = {"neq", "not_contains", "not_in", "is_not_empty"}
      /\ Negative["neq"] = "eq" /\ Negative["not_contains"] = "contains"
      /\ Negative["not_in"] = "in" /\ Negative["is_not_empty"] = "is_empty"
  BY DEF Negative
<1>2. \A op \in DOMAIN Negative : \A ref : holds(op, ref) <=> ~Positive(Negative[op], w, ref)
  BY DEF EvalLeaf
<1>3. \A op \in {"eq", "contains", "in", "is_empty"} : \A ref : holds(op, ref) <=> Positive(op, w, ref)
  BY <1>1 DEF EvalLeaf, Comparisons
<1>4. \A op \in Comparisons : \A ref : holds(op, ref) <=> Comparison(op, w, ref)
  BY <1>1 DEF EvalLeaf, Comparisons
<1> HIDE DEF w, holds
<1>5. \A op \in DOMAIN Negative : \A ref : holds(op, ref) <=> ~holds(Negative[op], ref)
  BY <1>1, <1>2, <1>3
<1> DEFINE a == Number(w)
           b == Number(v)
<1>9. /\ holds("gt", v) <=> Ordered(w, v) /\ a > b
      /\ holds("date_after", v) <=> Ordered(w, v) /\ a > b
      /\ holds("gte", v) <=> Ordered(w, v) /\ a >= b
  BY <1>4 DEF Comparisons, Comparison
<1>10. /\ holds("lt", v) <=> Ordered(w, v) /\ a < b
       /\ holds("date_before", v) <=> Ordered(w, v) /\ a < b
       /\ holds("lte", v) <=> Ordered(w, v) /\ a <= b
  BY <1>4 DEF Comparisons, Comparison
<1>11. /\ holds("within_last_n_days", v) <=> Ordered(w, v) /\ Today - a <= b
       /\ holds("older_than_n_days", v) <=> Ordered(w, v) /\ Today - a > b
  <2>1. /\ holds("within_last_n_days", v) <=> Comparison("within_last_n_days", w, v)
        /\ holds("older_than_n_days", v) <=> Comparison("older_than_n_days", w, v)
    BY <1>4 DEF Comparisons
  <2>2. Comparison("within_last_n_days", w, v) <=> Ordered(w, v) /\ Today - a <= b
    BY ZenonT(30) DEF Comparison
  <2>3. Comparison("older_than_n_days", w, v) <=> Ordered(w, v) /\ Today - a > b
    BY DEF Comparison
  <2> QED BY <2>1, <2>2, <2>3
<1>12. Ordered(w, v) => a \in Int /\ b \in Int
  BY DEF Ordered, Numeric
<1> HIDE DEF a, b
<1>6. ~(holds("gt", v) /\ holds("lte", v)) /\ ~(holds("lt", v) /\ holds("gte", v))
      /\ ~(holds("date_before", v) /\ holds("date_after", v))
  BY <1>9, <1>10, <1>12
<1>7. ~(holds("within_last_n_days", v) /\ holds("older_than_n_days", v))
  BY <1>11, <1>12, TodayAssumption
<1>8. ~(holds("is_true", v) /\ holds("is_false", v))
  BY <1>4 DEF Comparisons, Comparison
<1> QED BY <1>1, <1>5, <1>6, <1>7, <1>8 DEF holds

\* A monotone arrangement of 1 .. n into itself moves nothing.
LEMMA OrderedIsIdentity ==
  ASSUME NEW n \in Nat, NEW f \in Bijection(1 .. n, 1 .. n), \A i, j \in 1 .. n : i < j => f[i] <= f[j]
  PROVE  \A i \in 1 .. n : f[i] = i
<1> DEFINE Moved == { i \in 1 .. n : f[i] # i }
<1> SUFFICES ASSUME Moved # {} PROVE FALSE
  OBVIOUS
<1>1. /\ f \in [1 .. n -> 1 .. n]
      /\ \A i, j \in 1 .. n : f[i] = f[j] => i = j
      /\ \A t \in 1 .. n : \E i \in 1 .. n : f[i] = t
  BY DEF Bijection, Injection, Surjection, IsInjective
<1>2. PICK m \in Moved : \A j \in Moved : m <= j
  <2>1. Moved \in SUBSET Nat
    OBVIOUS
  <2> HIDE DEF Moved
  <2> QED BY <2>1, LeastNat
<1>3. m \in 1 .. n /\ f[m] # m /\ \A i \in 1 .. n : i < m => f[i] = i
  BY <1>2
<1>4. f[m] \in 1 .. n /\ ~(f[m] < m)
  BY <1>1, <1>3
<1>5. PICK k \in 1 .. n : f[k] = m
  BY <1>1, <1>3
<1>6. ~(k < m) /\ k # m
  BY <1>3, <1>5
<1>7. m < k /\ m < f[m]
  BY <1>3, <1>4, <1>6
<1>8. f[m] <= f[k]
  BY <1>1, <1>3, <1>7
<1> QED BY <1>3, <1>4, <1>5, <1>7, <1>8

\* The steps of a flow are those that were saved; without an order, as listed.
LEMMA StepsAre ==
  ASSUME request \in Requests, steps \in Loaded(request.steps)
  PROVE  /\ IsSequence(steps) /\ Len(steps) \in Nat /\ Len(request.records) \in Nat
         /\ Calls \in Nat
         /\ FlowsKeepTheirOrder
<1> DEFINE given == request.steps
<1>1. IsSequence(given) /\ IsSequence(request.records)
  BY RequestsAssumption
<1>2. Len(given) \in Nat /\ DOMAIN given = 1 .. Len(given) /\ given \in [1 .. Len(given) -> Range(given)]
  BY <1>1, SequenceIs
<1>3. PICK f \in Bijection(DOMAIN given, DOMAIN given) :
        /\ steps = [n \in DOMAIN given |-> given[f[n]]]
        /\ \A m, n \in DOMAIN given : m < n => StepOrder(given, f[m]) <= StepOrder(given, f[n])
  BY DEF Loaded
<1>4. f \in [DOMAIN given -> DOMAIN given]
  BY DEF Bijection, Injection
<1>5. steps \in [1 .. Len(given) -> Range(given)]
  BY <1>2, <1>3, <1>4
<1> HIDE DEF given
<1>6. IsSequence(steps) /\ Len(steps) = Len(given)
  BY <1>2, <1>5, FunctionIsSequence
<1>7. Len(request.records) \in Nat
  BY <1>1, SequenceIs
<1>8. FlowsKeepTheirOrder
  <2> SUFFICES ASSUME \A i \in DOMAIN given : given[i].step_order = 0 PROVE steps = given
    BY DEF FlowsKeepTheirOrder, given
  <2>1. \A m \in DOMAIN given : StepOrder(given, f[m]) = f[m] - 1
    BY <1>4 DEF StepOrder
  <2>2. \A m, n \in 1 .. Len(given) : m < n => f[m] <= f[n]
    <3> TAKE m, n \in 1 .. Len(given)
    <3>1. f[m] \in Int /\ f[n] \in Int
      BY <1>2, <1>4
    <3> QED BY <1>2, <1>3, <2>1, <3>1
  <2>3. \A i \in 1 .. Len(given) : f[i] = i
    BY <1>2, <2>2, OrderedIsIdentity
  <2> QED BY <1>2, <1>3, <2>3
<1> QED BY <1>2, <1>6, <1>7, <1>8 DEF Calls

-----------------------------------------------------------------------------
(* What steps do to the rows, to the event and to the results.             *)

\* The rows are the same, but for what they show of the event.
RowsStay ==
  /\ IsSequence(audits') /\ DOMAIN audits' = DOMAIN audits
  /\ \A i \in DOMAIN audits :
       /\ DOMAIN audits'[i] = RowFields
       /\ audits'[i].call = audits[i].call /\ audits'[i].pos = audits[i].pos
       /\ audits'[i].matched = audits[i].matched /\ audits'[i].executed = audits[i].executed
       /\ audits'[i].mutations = audits[i].mutations

RowsShowTheSame == \A i \in DOMAIN audits : audits'[i].event = audits[i].event

\* The event stays, or it changes, which is recorded, and rows may show it.
EventStays == UNCHANGED <<event, mutations>> /\ RowsShowTheSame
EventChanges(by) ==
  /\ IsTree(event')
  /\ mutations' = Append(mutations, [call |-> call, pos |-> pos, by |-> by])
  /\ \A i \in DOMAIN audits : audits'[i].event = audits[i].event \/ audits'[i].event = event'

LEMMA RowsUnchanged ==
  ASSUME Shaped, UNCHANGED audits
  PROVE  RowsStay /\ RowsShowTheSame
BY DEF Shaped, RowsStay, RowsShowTheSame

LEMMA RowsFlushed ==
  ASSUME Shaped, audits' = Flushed(audits)
  PROVE  RowsStay /\ RowsShowTheSame
<1>1. Len(audits) \in Nat /\ DOMAIN audits = 1 .. Len(audits)
  BY SequenceIs DEF Shaped
<1>2. audits' = [i \in DOMAIN audits |-> [audits[i] EXCEPT !.flushed = TRUE]]
  BY DEF Flushed
<1>3. IsSequence(audits')
  <2> DEFINE S == { [audits[i] EXCEPT !.flushed = TRUE] : i \in DOMAIN audits }
  <2>1. audits' \in [1 .. Len(audits) -> S]
    BY <1>1, <1>2
  <2> HIDE DEF S
  <2> QED BY <1>1, <2>1, FunctionIsSequence
<1>4. ASSUME NEW i \in DOMAIN audits
      PROVE  /\ DOMAIN audits'[i] = RowFields
             /\ audits'[i].call = audits[i].call /\ audits'[i].pos = audits[i].pos
             /\ audits'[i].matched = audits[i].matched /\ audits'[i].executed = audits[i].executed
             /\ audits'[i].mutations = audits[i].mutations
             /\ audits'[i].event = audits[i].event
  <2>1. DOMAIN audits[i] = RowFields
    BY DEF Shaped
  <2>2. audits'[i] = [audits[i] EXCEPT !.flushed = TRUE]
    BY <1>2
  <2> QED BY <2>1, <2>2 DEF RowFields
<1> QED BY <1>2, <1>3, <1>4 DEF RowsStay, RowsShowTheSame

LEMMA ChangeEventIs ==
  ASSUME Shaped, NEW to, NEW by, ChangeEvent(to, by), IsTree(to)
  PROVE  RowsStay /\ event' = to /\ ((to = event /\ EventStays) \/ (to # event /\ EventChanges(by)))
<1> DEFINE Row(i) == IF to = event \/ audits[i].flushed \/ (request.caller = "batch" /\ audits[i].call # call)
                     THEN audits[i] ELSE [audits[i] EXCEPT !.event = to]
<1>1. Len(audits) \in Nat /\ DOMAIN audits = 1 .. Len(audits)
  BY SequenceIs DEF Shaped
<1>2. audits' = [i \in DOMAIN audits |-> Row(i)] /\ event' = to
  BY DEF ChangeEvent
<1>3. IsSequence(audits')
  <2> DEFINE S == { Row(i) : i \in DOMAIN audits }
  <2>1. audits' \in [1 .. Len(audits) -> S]
    BY <1>1, <1>2
  <2> HIDE DEF S
  <2> QED BY <1>1, <2>1, FunctionIsSequence
<1>4. ASSUME NEW i \in DOMAIN audits
      PROVE  /\ DOMAIN audits'[i] = RowFields
             /\ audits'[i].call = audits[i].call /\ audits'[i].pos = audits[i].pos
             /\ audits'[i].matched = audits[i].matched /\ audits'[i].executed = audits[i].executed
             /\ audits'[i].mutations = audits[i].mutations
             /\ audits'[i].event = audits[i].event \/ (to # event /\ audits'[i].event = to)
  <2>1. DOMAIN audits[i] = RowFields
    BY DEF Shaped
  <2>2. audits'[i] = audits[i] \/ (to # event /\ audits'[i] = [audits[i] EXCEPT !.event = to])
    BY <1>2
  <2> QED BY <2>1, <2>2 DEF RowFields
<1>5. mutations' = IF to = event THEN mutations ELSE Append(mutations, [call |-> call, pos |-> pos, by |-> by])
  BY DEF ChangeEvent
<1> QED BY <1>2, <1>3, <1>4, <1>5 DEF RowsStay, RowsShowTheSame, EventStays, EventChanges

LEMMA Frame ==
  ASSUME AsSent
  PROVE  request' = request /\ book' = book /\ steps' = steps /\ Calls' = Calls /\ Sorted' = Sorted
         /\ Loaded(request.steps)' = Loaded(request.steps)
BY DEF AsSent, Calls, Sorted, Loaded, StepOrder

\* As long as the rows stay, what they account for and what they show of
\* effects is the same.
LEMMA RowsStayAsTheyAre ==
  ASSUME Placed, RowsInOrder, RowsStay, Shaped, AsSent, rules' \in {rules, Sorted}, skipped \subseteq skipped'
  PROVE  /\ audits' # <<>> => rules = Sorted /\ rules' = Sorted
         /\ \A i \in DOMAIN audits : HaltedBy(audits[i])' <=> HaltedBy(audits[i])
         /\ \A c, p : Accounted(c, p) => Accounted(c, p)'
         /\ request.dry_run /\ audits = <<>> => audits' = <<>>
<1>1. audits' = <<>> <=> audits = <<>>
  BY EmptyIffNone DEF RowsStay, Shaped
<1>2. audits' # <<>> => rules = Sorted /\ rules' = Sorted
  BY <1>1 DEF RowsInOrder
<1>3. ASSUME NEW i \in DOMAIN audits PROVE HaltedBy(audits[i])' <=> HaltedBy(audits[i])
  <2>1. audits # <<>>
    BY <1>3, EmptyIffNone DEF Shaped
  <2>2. rules' = rules
    BY <1>1, <1>2, <2>1
  <2> QED BY <2>2 DEF HaltedBy, RowsStay
<1>4. ASSUME NEW c, NEW p, Accounted(c, p) PROVE Accounted(c, p)'
  <2>1. request' = request /\ steps' = steps
    BY DEF AsSent
  <2>2. CASE request.caller = "flow" /\ steps[c].rule \in {NoRule, Missed}
    BY <2>1, <2>2 DEF Accounted
  <2>3. CASE <<c, p>> \in skipped
    BY <2>3 DEF Accounted
  <2>4. CASE \E i \in DOMAIN audits : audits[i].call = c /\ audits[i].pos = p
    BY <2>4 DEF Accounted, RowsStay
  <2>5. CASE \E i \in DOMAIN audits : audits[i].call = c /\ audits[i].pos < p /\ HaltedBy(audits[i])
    <3>1. PICK i \in DOMAIN audits : audits[i].call = c /\ audits[i].pos < p /\ HaltedBy(audits[i])
      BY <2>5
    <3>2. i \in DOMAIN audits' /\ audits'[i].call = c /\ audits'[i].pos < p
      BY <3>1 DEF RowsStay
    <3>3. HaltedBy(audits[i])'
      BY <1>3, <3>1
    <3> QED BY <3>2, <3>3 DEF Accounted
  <2> QED BY <1>4, <2>2, <2>3, <2>4, <2>5 DEF Accounted
<1> QED BY <1>1, <1>2, <1>3, <1>4

\* Rows that stay keep their order, if the request went on and not back.
LEMMA RowsStayInOrder ==
  ASSUME Placed, RowsInOrder, RowsStay, Shaped, AsSent, rules' \in {rules, Sorted}, skipped \subseteq skipped',
         call' \in Nat,
         \/ call' = call + 1
         \/ call' = call /\ at = "call"
         \/ call' = call /\ pos' \in Nat /\ pos <= pos' /\ at \in {"rule", "act"} /\ at' \in {"rule", "act", "return"}
  PROVE  RowsInOrder'
<1>1. /\ audits' # <<>> => rules = Sorted /\ rules' = Sorted
      /\ \A i \in DOMAIN audits : HaltedBy(audits[i])' <=> HaltedBy(audits[i])
  BY RowsStayAsTheyAre
<1>2. call \in Nat /\ pos \in Nat /\ Sorted' = Sorted
  BY RulesOfTheBook, Frame DEF Placed
<1>3. ASSUME NEW i \in DOMAIN audits'
      PROVE  /\ audits'[i].call \in Nat /\ audits'[i].pos \in 1 .. Len(rules')
             /\ \/ audits'[i].call < call'
                \/ /\ audits'[i].call = call' /\ audits'[i].pos < pos'
                   /\ at' \in {"rule", "act"} => ~HaltedBy(audits[i])'
                   /\ at' \in {"rule", "act", "return"}
  <2>1. /\ i \in DOMAIN audits /\ audits'[i].call = audits[i].call /\ audits'[i].pos = audits[i].pos
        /\ audits' # <<>>
    BY <1>3, EmptyIffNone DEF RowsStay
  <2>2. /\ audits[i].call \in Nat /\ audits[i].pos \in 1 .. Len(rules) /\ rules' = rules
        /\ \/ audits[i].call < call
           \/ /\ audits[i].call = call /\ audits[i].pos < pos
              /\ at \in {"rule", "act"} => ~HaltedBy(audits[i])
              /\ at \in {"rule", "act", "return"}
    BY <1>1, <2>1 DEF RowsInOrder
  <2>3. audits[i].pos \in Nat
    BY <2>2, RulesOfTheBook
  <2>4. HaltedBy(audits[i])' <=> HaltedBy(audits[i])
    BY <1>1, <2>1
  <2> QED BY <1>2, <2>1, <2>2, <2>3, <2>4
<1>4. ASSUME NEW i \in DOMAIN audits', NEW j \in DOMAIN audits', i < j, audits'[i].call = audits'[j].call
      PROVE  audits'[i].pos < audits'[j].pos /\ ~HaltedBy(audits[i])'
  BY <1>1, <1>4 DEF RowsInOrder, RowsStay
<1> QED BY <1>1, <1>2, <1>3, <1>4 DEF RowsInOrder

\* Effects that stand in rows still do.
LEMMA EffectsStay ==
  ASSUME EffectsAreKnown, RowsStay, UNCHANGED effects, at \notin {"act", "raised"}
  PROVE  EffectsAreKnown'
<1>1. ASSUME NEW i \in DOMAIN effects'
      PROVE  \E a \in DOMAIN audits' :
               audits'[a].call = effects'[i].call /\ audits'[a].pos = effects'[i].pos /\ Shows(audits'[a].executed, effects'[i])
  <2>1. PICK a \in DOMAIN audits :
          audits[a].call = effects[i].call /\ audits[a].pos = effects[i].pos /\ Shows(audits[a].executed, effects[i])
    BY <1>1 DEF EffectsAreKnown
  <2> QED BY <2>1 DEF RowsStay
<1>2. \A i, j \in DOMAIN effects' : effects'[i] = effects'[j] => i = j
  BY DEF EffectsAreKnown
<1> QED BY <1>1, <1>2 DEF EffectsAreKnown

\* A row shows the event as its rule left it, or the event changed since.
LEMMA RowsKeepShowing ==
  ASSUME Shaped, RowsStay, NEW by, EventStays \/ EventChanges(by),
         \A i \in DOMAIN audits : FieldsHold(audits[i].executed, audits[i].event) \/ Len(mutations) > audits[i].mutations
  PROVE  /\ \A i \in DOMAIN audits' :
              FieldsHold(audits'[i].executed, audits'[i].event) \/ Len(mutations') > audits'[i].mutations
         /\ IsSequence(mutations') /\ Len(mutations') \in Nat /\ Len(mutations) <= Len(mutations')
         /\ mutations' = <<>> => mutations = <<>> /\ event' = event
<1>1. IsSequence(mutations) /\ Len(mutations) \in Nat
  BY SequenceIs DEF Shaped
<1>2. CASE EventStays
  BY <1>1, <1>2 DEF EventStays, RowsShowTheSame, RowsStay
<1>3. CASE EventChanges(by)
  <2>1. IsSequence(mutations') /\ Len(mutations') = Len(mutations) + 1 /\ mutations' # <<>>
    BY <1>1, <1>3, Appended DEF EventChanges
  <2>2. \A i \in DOMAIN audits' : audits'[i].mutations \in Nat /\ audits'[i].mutations <= Len(mutations)
    BY DEF Shaped, RowsStay
  <2>3. \A i \in DOMAIN audits' : Len(mutations') > audits'[i].mutations
    BY <1>1, <2>1, <2>2
  <2> QED BY <1>1, <2>1, <2>3
<1> QED BY <1>2, <1>3

LEMMA DoneStays ==
  ASSUME DoneIsKnown, RowsStay, UNCHANGED effects, at' = "act" => current'.executed = <<>>
  PROVE  DoneIsKnown'
<1>1. ASSUME NEW a \in DOMAIN audits'
      PROVE  AllDone(audits'[a].executed, audits'[a].call, audits'[a].pos)
  BY DEF DoneIsKnown, RowsStay
<1>2. ASSUME at' = "act" PROVE AllDone(current.executed, call, pos)'
  BY <1>2, EmptySequence DEF AllDone
<1> QED BY <1>1, <1>2 DEF DoneIsKnown, AllDone

\* The rest of the shape, as long as the rows and the results stay.
LEMMA ShapeStays ==
  ASSUME Shaped, RowsStay, IsSequence(mutations'), Len(mutations') \in Nat, Len(mutations) <= Len(mutations'),
         IsSequence(effects'), UNCHANGED matched \/ matched' = <<>>,
         DOMAIN current' = {"matched", "todo", "executed", "halted"}, IsSequence(current'.executed)
  PROVE  Shaped'
<1>1. IsSequence(matched') /\ \A m \in Range(matched') : IsSequence(m.executed)
  BY EmptySequence DEF Shaped
<1>2. Len(mutations) \in Nat
  BY SequenceIs DEF Shaped
<1>3. ASSUME NEW i \in DOMAIN audits'
      PROVE  /\ DOMAIN audits'[i] = RowFields
             /\ IsSequence(audits'[i].executed)
             /\ audits'[i].mutations \in Nat /\ audits'[i].mutations <= Len(mutations')
  <2>1. i \in DOMAIN audits /\ audits[i].mutations \in Nat /\ audits[i].mutations <= Len(mutations)
        /\ IsSequence(audits[i].executed)
    BY <1>3 DEF Shaped, RowsStay
  <2> QED BY <1>2, <2>1 DEF RowsStay
<1> QED BY <1>1, <1>3 DEF Shaped, RowsStay

LEMMA TreesStay ==
  ASSUME Trees, RowsStay, NEW by, EventStays \/ EventChanges(by)
  PROVE  Trees'
<1>1. CASE EventStays
  BY <1>1 DEF Trees, EventStays, RowsShowTheSame, RowsStay
<1>2. CASE EventChanges(by)
  BY <1>2 DEF Trees, EventChanges, RowsStay
<1> QED BY <1>1, <1>2

-----------------------------------------------------------------------------
(* Init, and the steps between the rules.                                  *)

LEMMA EngineStarts ==
  ASSUME Init
  PROVE  EngineIInv
<1>1. /\ request \in Requests /\ book \in Books /\ steps \in Loaded(request.steps)
      /\ at = (IF Calls = 0 THEN "committed" ELSE "call") /\ call = 1 /\ pos = 1
      /\ rules = <<>> /\ event = request.records[1] /\ current = Nothing
      /\ matched = <<>> /\ audits = <<>> /\ effects = <<>> /\ mutations = <<>> /\ skipped = {}
  BY DEF Init
<1>2. Calls \in Nat
  BY <1>1, StepsAre
<1>3. Placed
  BY <1>1, <1>2, EmptySequence DEF Placed
<1>4. Shaped
  BY <1>1, EmptySequence DEF Shaped, Nothing
<1>5. Trees
  <2>1. IsSequence(request.records) /\ request.records # <<>> /\ \A d \in Range(request.records) : IsTree(d)
    BY <1>1, RequestsAssumption
  <2>2. Len(request.records) \in Nat /\ Len(request.records) # 0 /\ DOMAIN request.records = 1 .. Len(request.records)
    BY <2>1, SequenceIs, EmptyIffNone
  <2>3. request.records[1] \in Range(request.records)
    BY <2>2 DEF Range
  <2> QED BY <1>1, <2>1, <2>3, EmptySequence DEF Trees
<1>6. RowsInOrder
  BY <1>1, EmptySequence DEF RowsInOrder
<1>7. HaltsAtOnce
  BY <1>1 DEF HaltsAtOnce
<1>8. AccountedSoFar
  <2>1. \A c \in 1 .. Calls : ~(c < 1)
    BY <1>2
  <2>2. at \notin {"rule", "act", "return"}
    BY <1>1
  <2>3. Calls = 0 => \A c : c \notin 1 .. Calls
    BY <1>2
  <2> QED BY <1>1, <2>1, <2>2, <2>3 DEF AccountedSoFar
<1>9. DryRun
  BY <1>1, EmptySequence DEF DryRun, DryRunsHaveNoEffects, Nothing
<1>10. EffectsAreKnown
  BY <1>1, EmptySequence DEF EffectsAreKnown
<1>11. RowsShowTheEvent
  BY <1>1, EmptySequence DEF RowsShowTheEvent
<1>12. EventAsSent
  BY <1>1 DEF EventAsSent, TestPredicts
<1>13. DoneIsKnown
  BY <1>1, EmptySequence DEF DoneIsKnown
<1> QED BY <1>3, <1>4, <1>5, <1>6, <1>7, <1>8, <1>9, <1>10, <1>11, <1>12, <1>13 DEF EngineIInv

\* A request that is rolled back has no rows, and does nothing more.
LEMMA RaiseKeeps ==
  ASSUME EngineIInv, Raise, AsLoaded
  PROVE  EngineIInv'
<1> USE DEF EngineIInv
<1>1. /\ at' = "raised" /\ audits' = <<>> /\ AsSent
      /\ UNCHANGED <<call, pos, rules, event, current, matched, effects, mutations, skipped>>
  BY DEF Raise, Goto, AsLoaded
<1>2. Placed'
  BY <1>1, Frame DEF Placed
<1>3. Shaped'
  BY <1>1, EmptySequence DEF Shaped
<1>4. Trees'
  BY <1>1, EmptySequence DEF Trees
<1>5. RowsInOrder'
  BY <1>1, EmptySequence DEF RowsInOrder
<1>6. HaltsAtOnce' /\ AccountedSoFar'
  BY <1>1 DEF HaltsAtOnce, AccountedSoFar
<1>7. DryRun'
  BY <1>1, Frame DEF DryRun, DryRunsHaveNoEffects
<1>8. EffectsAreKnown'
  BY <1>1 DEF EffectsAreKnown
<1>9. RowsShowTheEvent'
  BY <1>1, EmptySequence DEF RowsShowTheEvent
<1>10. EventAsSent'
  BY <1>1, Frame DEF EventAsSent, TestPredicts
<1>11. DoneIsKnown'
  BY <1>1, EmptySequence DEF DoneIsKnown
<1> QED BY <1>2, <1>3, <1>4, <1>5, <1>6, <1>7, <1>8, <1>9, <1>10, <1>11

\* A step between the rules, which changes nothing but the place, and perhaps
\* the event when it is a record of its own or when a call returns.
LEMMA BetweenRulesKeeps ==
  ASSUME EngineIInv, AsSent, NEW by, EventStays \/ EventChanges(by) \/ (request.caller = "batch" /\ IsTree(event')
                                                                       /\ UNCHANGED mutations /\ RowsShowTheSame),
         RowsStay, UNCHANGED <<current, effects>>, skipped \subseteq skipped',
         UNCHANGED matched \/ matched' = <<>>,
         at \in {"call", "rule", "return"}, at' \in {"call", "rule", "return", "committed"},
         Placed', RowsInOrder', AccountedSoFar',
         request.dry_run => mutations' = mutations \/ by = "script"
  PROVE  EngineIInv'
<1> USE DEF EngineIInv
<1>1. EventStays \/ EventChanges(by) => Trees'
  BY TreesStay
<1>2. /\ \A i \in DOMAIN audits' :
           FieldsHold(audits'[i].executed, audits'[i].event) \/ Len(mutations') > audits'[i].mutations
      /\ IsSequence(mutations') /\ Len(mutations') \in Nat /\ Len(mutations) <= Len(mutations')
      /\ mutations' = <<>> /\ request.caller # "batch" => mutations = <<>> /\ event' = event
  <2>1. \A i \in DOMAIN audits : FieldsHold(audits[i].executed, audits[i].event) \/ Len(mutations) > audits[i].mutations
    BY DEF RowsShowTheEvent
  <2>2. CASE EventStays \/ EventChanges(by)
    BY <2>1, <2>2, RowsKeepShowing
  <2>3. CASE request.caller = "batch" /\ UNCHANGED mutations /\ RowsShowTheSame
    <3>1. IsSequence(mutations) /\ Len(mutations) \in Nat
      BY SequenceIs DEF Shaped
    <3> QED BY <2>1, <2>3, <3>1 DEF RowsShowTheSame, RowsStay
  <2> QED BY <2>2, <2>3
<1>3. Trees'
  <2>1. CASE request.caller = "batch" /\ IsTree(event') /\ RowsShowTheSame
    BY <2>1 DEF Trees, RowsStay, RowsShowTheSame
  <2> QED BY <1>1, <2>1
<1>4. Shaped'
  BY <1>2, ShapeStays DEF Shaped
<1>5. HaltsAtOnce'
  BY DEF HaltsAtOnce
<1>6. DryRun'
  <2> SUFFICES ASSUME request.dry_run PROVE DryRun'
    BY Frame DEF DryRun
  <2>1. effects' = <<>> /\ audits' = <<>>
    BY RowsStayAsTheyAre, EmptyIffNone DEF DryRun, DryRunsHaveNoEffects, RowsStay
  <2>2. \A i \in DOMAIN mutations' : mutations'[i].by = "script"
    <3>1. \A i \in DOMAIN mutations : mutations[i].by = "script"
      BY DEF DryRun, DryRunsHaveNoEffects
    <3>2. mutations' = mutations \/ (by = "script" /\ mutations' = Append(mutations, [call |-> call, pos |-> pos, by |-> by]))
      BY DEF EventStays, EventChanges
    <3> QED BY <3>1, <3>2, Appended DEF Shaped
  <2>3. \A k \in DOMAIN current'.executed : current'.executed[k].status = "preview"
    BY DEF DryRun
  <2>4. \A m \in Range(matched') : \A k \in DOMAIN m.executed : m.executed[k].status = "preview"
    BY EmptySequence DEF DryRun
  <2> QED BY <2>1, <2>2, <2>3, <2>4 DEF DryRun, DryRunsHaveNoEffects
<1>7. EffectsAreKnown'
  BY EffectsStay
<1>8. RowsShowTheEvent'
  BY <1>2 DEF RowsShowTheEvent
<1>9. EventAsSent'
  <2>1. mutations' = <<>> /\ request'.caller # "batch" => event' = request'.records[1]
    BY <1>2, Frame DEF EventAsSent
  <2> QED BY <2>1 DEF EventAsSent, TestPredicts
<1>10. DoneIsKnown'
  BY DoneStays
<1> QED BY <1>3, <1>4, <1>5, <1>6, <1>7, <1>8, <1>9, <1>10

\* What is accounted for stays so; a step has to account for what it passes.
LEMMA AccountsStay ==
  ASSUME Placed, RowsInOrder, RowsStay, Shaped, AsSent, rules' \in {rules, Sorted}, skipped \subseteq skipped',
         AccountedSoFar, at # "raised", at # "committed",
         ~request.dry_run =>
           \A c \in 1 .. Calls, p \in DOMAIN book :
             \/ c < call'
             \/ c = call' /\ at' \in {"rule", "act"} /\ p < pos'
             \/ c = call' /\ at' = "return"
             =>
             \/ c < call
             \/ c = call /\ at \in {"rule", "act"} /\ p < pos
             \/ c = call /\ at = "return"
             \/ Accounted(c, p)'
  PROVE  AccountedSoFar'
<1>1. \A c, p : Accounted(c, p) => Accounted(c, p)'
  BY RowsStayAsTheyAre
<1>2. request' = request /\ Calls' = Calls /\ book' = book
  BY Frame
<1> QED BY <1>1, <1>2 DEF AccountedSoFar

LEMMA CallBeginsKeeps ==
  ASSUME EngineIInv, CallBegins, AsSent
  PROVE  EngineIInv'
<1>1. Placed /\ Shaped /\ RowsInOrder /\ AccountedSoFar
  BY DEF EngineIInv
<1>2. /\ at = "call" /\ at' = "rule" /\ pos' = 1 /\ call' = call
      /\ event' = (IF request.caller = "batch" THEN request.records[call] ELSE event)
      /\ rules' = Sorted /\ matched' = <<>>
      /\ audits' = (IF request.caller = "flow" THEN Flushed(audits) ELSE audits)
      /\ UNCHANGED <<current, effects, mutations, skipped>>
  BY DEF CallBegins
<1>3. RowsStay /\ RowsShowTheSame
  BY <1>1, <1>2, RowsFlushed, RowsUnchanged
<1>4. /\ call \in Nat \ {0} /\ call <= Calls /\ Calls \in Nat
      /\ Len(Sorted) \in Nat /\ request \in Requests /\ Len(request.records) \in Nat
  BY <1>1, <1>2, RulesOfTheBook, StepsAre DEF Placed
<1>5. ASSUME request.caller = "batch" PROVE IsTree(event')
  <2>1. IsSequence(request.records) /\ \A d \in Range(request.records) : IsTree(d)
    BY <1>4, RequestsAssumption
  <2>2. DOMAIN request.records = 1 .. Len(request.records)
    BY <2>1, SequenceIs
  <2>3. Calls = Len(request.records)
    BY <1>5 DEF Calls
  <2>4. call \in DOMAIN request.records
    BY <1>4, <2>2, <2>3
  <2> QED BY <1>2, <1>5, <2>1, <2>4 DEF Range
<1>6. Placed'
  <2>1. 1 \in 1 .. Len(Sorted) + 1
    BY <1>4
  <2> QED BY <1>1, <1>2, <1>4, <2>1, Frame DEF Placed
<1>7. RowsInOrder'
  BY <1>1, <1>2, <1>3, <1>4, RowsStayInOrder
<1>8. AccountedSoFar'
  <2>1. \A p \in DOMAIN book : ~(p < 1)
    BY <1>1, RulesOfTheBook
  <2> QED BY <1>1, <1>2, <1>3, <2>1, AccountsStay
<1>9. EventStays \/ (request.caller = "batch" /\ IsTree(event') /\ UNCHANGED mutations /\ RowsShowTheSame)
  BY <1>2, <1>3, <1>5 DEF EventStays
<1> QED BY <1>2, <1>3, <1>6, <1>7, <1>8, <1>9, BetweenRulesKeeps

LEMMA StepSkippedKeeps ==
  ASSUME EngineIInv, StepSkipped, AsLoaded
  PROVE  EngineIInv'
<1>1. Placed /\ Shaped /\ RowsInOrder /\ AccountedSoFar
  BY DEF EngineIInv
<1>2. /\ at = "call" /\ SkipsStep
      /\ at' = (IF call = Calls THEN "committed" ELSE "call") /\ call' = call + 1 /\ pos' = 1
      /\ audits' = (IF steps[call].rule = Missed THEN Flushed(audits) ELSE audits)
      /\ UNCHANGED <<event, current, matched, effects, mutations, skipped, rules>> /\ AsSent
  BY DEF StepSkipped, NextCall, AsLoaded
<1>3. RowsStay /\ RowsShowTheSame
  BY <1>1, <1>2, RowsFlushed, RowsUnchanged
<1>4. call \in Nat \ {0} /\ call <= Calls /\ Calls \in Nat /\ Len(rules) \in Nat
  BY <1>1, <1>2, RulesOfTheBook, StepsAre DEF Placed
<1>5. Placed'
  <2>1. 1 \in 1 .. Len(rules) + 1 /\ call + 1 \in Nat \ {0} /\ call + 1 <= Calls + 1
        /\ (call # Calls => call + 1 <= Calls)
    BY <1>4
  <2> QED BY <1>1, <1>2, <2>1, Frame DEF Placed
<1>6. RowsInOrder'
  BY <1>1, <1>2, <1>3, <1>4, RowsStayInOrder
<1>7. AccountedSoFar'
  <2>1. \A c \in 1 .. Calls : c < call + 1 => c < call \/ c = call
    BY <1>4
  <2>2. \A c \in 1 .. Calls, p \in DOMAIN book : c < call' => c < call \/ Accounted(c, p)'
    <3> TAKE c \in 1 .. Calls, p \in DOMAIN book
    <3>1. \A q : Accounted(c, q)' \/ c # call
      BY <1>2, Frame DEF Accounted, SkipsStep
    <3> QED BY <1>2, <2>1, <3>1
  <2>3. at' \notin {"rule", "act", "return"}
    BY <1>2
  <2> QED BY <1>1, <1>2, <1>3, <2>2, <2>3, AccountsStay
<1>8. EventStays
  BY <1>2, <1>3 DEF EventStays
<1> QED BY <1>2, <1>3, <1>5, <1>6, <1>7, <1>8, BetweenRulesKeeps

LEMMA FilterKeeps ==
  ASSUME EngineIInv, Filter, AsLoaded
  PROVE  EngineIInv'
<1>1. CASE Unfilterable(Rule)
  <2>1. Raise
    BY <1>1 DEF Filter
  <2> QED BY <2>1, RaiseKeeps
<1>2. CASE ~Unfilterable(Rule)
  <2>1. Placed /\ Shaped /\ RowsInOrder /\ AccountedSoFar
    BY DEF EngineIInv
  <2>2. /\ at = "rule" /\ pos <= Len(rules) /\ pos' = pos + 1 /\ UNCHANGED <<at, call>>
        /\ skipped' = skipped \cup {<<call, pos>>}
        /\ UNCHANGED <<event, current, matched, audits, effects, mutations, rules>> /\ AsSent
    BY <1>2 DEF Filter, AsLoaded
  <2>3. RowsStay /\ RowsShowTheSame
    BY <2>1, <2>2, RowsUnchanged
  <2>4. pos \in Nat \ {0} /\ Len(rules) \in Nat /\ call \in Nat
    BY <2>1, RulesOfTheBook DEF Placed
  <2>5. Placed'
    <3>1. pos + 1 \in 1 .. Len(rules) + 1
      BY <2>2, <2>4
    <3> QED BY <2>1, <2>2, <3>1, Frame DEF Placed
  <2>6. RowsInOrder'
    <3>1. pos' \in Nat /\ pos <= pos'
      BY <2>2, <2>4
    <3> QED BY <2>1, <2>2, <2>3, <2>4, <3>1, RowsStayInOrder
  <2>7. AccountedSoFar'
    <3>1. ASSUME NEW c \in 1 .. Calls, NEW p \in DOMAIN book, c < call \/ (c = call /\ p < pos')
          PROVE  c < call \/ (c = call /\ p < pos) \/ Accounted(c, p)'
      <4>1. p \in Nat
        BY <2>1, RulesOfTheBook
      <4>2. p < pos' => p < pos \/ p = pos
        BY <2>2, <2>4, <4>1
      <4>3. c = call /\ p = pos => Accounted(c, p)'
        BY <2>2 DEF Accounted
      <4> QED BY <3>1, <4>2, <4>3
    <3> QED BY <2>1, <2>2, <2>3, <3>1, AccountsStay
  <2>8. EventStays
    BY <2>2, <2>3 DEF EventStays
  <2> QED BY <2>2, <2>3, <2>5, <2>6, <2>7, <2>8, BetweenRulesKeeps
<1> QED BY <1>1, <1>2

LEMMA RulesEndKeeps ==
  ASSUME EngineIInv, RulesEnd, AsLoaded
  PROVE  EngineIInv'
<1>1. Placed /\ Shaped /\ RowsInOrder /\ AccountedSoFar
  BY DEF EngineIInv
<1>2. /\ at = "rule" /\ pos > Len(rules) /\ at' = "return" /\ UNCHANGED <<call, pos>>
      /\ UNCHANGED <<event, current, matched, audits, effects, mutations, skipped, rules>> /\ AsSent
  BY DEF RulesEnd, Goto, AsLoaded, outside
<1>3. RowsStay /\ RowsShowTheSame
  BY <1>1, <1>2, RowsUnchanged
<1>4. pos \in Nat \ {0} /\ Len(rules) \in Nat /\ call \in Nat
  BY <1>1, RulesOfTheBook DEF Placed
<1>5. Placed'
  BY <1>1, <1>2, Frame DEF Placed
<1>6. RowsInOrder'
  <2>1. pos' \in Nat /\ pos <= pos'
    BY <1>2, <1>4
  <2> QED BY <1>1, <1>2, <1>3, <1>4, <2>1, RowsStayInOrder
<1>7. AccountedSoFar'
  <2>1. \A p \in DOMAIN book : p < pos
    <3>1. rules = Sorted
      BY <1>1, <1>2 DEF Placed
    <3>2. DOMAIN book = 1 .. Len(rules)
      BY <1>1, <3>1, RulesOfTheBook
    <3> QED BY <1>2, <1>4, <3>2
  <2> QED BY <1>1, <1>2, <1>3, <2>1, AccountsStay
<1>8. EventStays
  BY <1>2, <1>3 DEF EventStays
<1> QED BY <1>2, <1>3, <1>5, <1>6, <1>7, <1>8, BetweenRulesKeeps

\* What a step of a flow passes on are results of its rule; in a dry run none.
LEMMA PassedOnIs ==
  ASSUME Shaped, DryRun
  PROVE  DOMAIN PassedOn \subseteq Nat /\ (request.dry_run => DOMAIN PassedOn = {})
<1>1. CASE request.caller = "flow" /\ steps[call].pass_output /\ OwnResults # {}
  <2> DEFINE m == CHOOSE x \in OwnResults : TRUE
             x == m.executed
  <2>1. m \in Range(matched)
    BY <1>1 DEF OwnResults
  <2>2. PassedOn = Restrict(x, { i \in DOMAIN x : x[i].type = "set_field" /\ x[i].status = "ok" })
    BY <1>1 DEF PassedOn
  <2> HIDE DEF m
  <2>3. IsSequence(x) /\ (request.dry_run => \A k \in DOMAIN x : x[k].status = "preview")
    BY <2>1 DEF Shaped, DryRun
  <2> HIDE DEF x
  <2>4. DOMAIN x \subseteq Nat
    BY <2>3, SequenceIs
  <2>5. DOMAIN PassedOn = { i \in DOMAIN x : x[i].type = "set_field" /\ x[i].status = "ok" }
    BY <2>2 DEF Restrict
  <2> QED BY <2>3, <2>4, <2>5
<1>2. CASE ~(request.caller = "flow" /\ steps[call].pass_output /\ OwnResults # {})
  BY <1>2, EmptySequence DEF PassedOn
<1> QED BY <1>1, <1>2

LEMMA CallReturnsKeeps ==
  ASSUME EngineIInv, CallReturns, AsLoaded
  PROVE  EngineIInv'
<1>1. CASE ~Settable(PassedOn) /\ Raise
  BY <1>1, RaiseKeeps
<1>2. CASE /\ Settable(PassedOn) /\ ChangeEvent(SetAll(PassedOn), "flow") /\ NextCall
           /\ UNCHANGED <<current, matched, effects, skipped>>
  <2>1. Placed /\ Shaped /\ RowsInOrder /\ AccountedSoFar /\ Trees /\ DryRun
    BY DEF EngineIInv
  <2>2. /\ at = "return"
        /\ at' = (IF call = Calls THEN "committed" ELSE "call") /\ call' = call + 1 /\ pos' = 1
        /\ UNCHANGED <<current, matched, effects, skipped, rules>> /\ AsSent
    BY <1>2 DEF CallReturns, NextCall, AsLoaded
  <2>3. IsTree(event) /\ IsTree(SetAll(PassedOn)) /\ (request.dry_run => SetAll(PassedOn) = event)
    BY <1>2, <2>1, PassedOnIs, SetAllKeepsTheTree, SettingNothing DEF Trees
  <2>4. RowsStay /\ (EventStays \/ EventChanges("flow")) /\ (request.dry_run => EventStays)
    BY <1>2, <2>1, <2>3, ChangeEventIs
  <2>5. call \in Nat \ {0} /\ call <= Calls /\ Calls \in Nat /\ Len(rules) \in Nat
    BY <2>1, <2>2, RulesOfTheBook, StepsAre DEF Placed
  <2>6. Placed'
    <3>1. 1 \in 1 .. Len(rules) + 1 /\ call + 1 \in Nat \ {0} /\ call + 1 <= Calls + 1
          /\ (call # Calls => call + 1 <= Calls)
      BY <2>5
    <3> QED BY <2>1, <2>2, <3>1, Frame DEF Placed
  <2>7. RowsInOrder'
    BY <2>1, <2>2, <2>4, <2>5, RowsStayInOrder
  <2>8. AccountedSoFar'
    <3>1. \A c \in 1 .. Calls : c < call' => c < call \/ c = call
      BY <2>2, <2>5
    <3>2. at' \notin {"rule", "act", "return"}
      BY <2>2
    <3> QED BY <2>1, <2>2, <2>4, <3>1, <3>2, AccountsStay
  <2>9. request.dry_run => mutations' = mutations
    BY <2>4 DEF EventStays
  <2> QED BY <2>2, <2>4, <2>6, <2>7, <2>8, <2>9, BetweenRulesKeeps
<1> QED BY <1>1, <1>2 DEF CallReturns

-----------------------------------------------------------------------------
(* One rule: its evaluation, its actions, its end.                         *)

LEMMA OutputIs ==
  ASSUME Placed, at = "rule", pos <= Len(rules)
  PROVE  /\ DOMAIN Decide(Rule).output \subseteq Nat
         /\ Rule.type # "javascript" =>
              /\ DOMAIN Decide(Rule).output = {}
              /\ Decide(Rule).matched = TestMatch(Rule, event)
<1> DEFINE r == Rule
<1>1. r \in Range(book)
  <2>1. rules = Sorted /\ pos \in DOMAIN rules
    BY RulesOfTheBook DEF Placed
  <2> QED BY <2>1, RulesOfTheBook DEF Rule, Range
<1>2. r.type = "javascript" => IsSequence(r.conditions.output)
  BY <1>1, BooksAssumption DEF Placed
<1> HIDE DEF r
<1> SUFFICES /\ DOMAIN Decide(r).output \subseteq Nat
             /\ r.type # "javascript" => DOMAIN Decide(r).output = {} /\ Decide(r).matched = TestMatch(r, event)
  BY DEF r
<1>3. CASE r.type = "decision_table"
  <2>1. Decide(r) = TableDecides(EvalTable(event, r.conditions))
    BY <1>3 DEF Decide
  <2>2. TestMatch(r, event) = EvalTable(event, r.conditions).matched
    BY <1>3 DEF TestMatch
  <2> QED BY <1>3, <2>1, <2>2, EmptySequence DEF TableDecides
<1>4. CASE r.type = "javascript"
  <2>1. Decide(r).output = RunScript(r.conditions).output
    BY <1>4 DEF Decide
  <2>2. RunScript(r.conditions).output \in
          { << [field |-> <<"error">>, value |-> "error"] >>, r.conditions.output, <<>> }
    BY DEF RunScript
  <2>3. DOMAIN r.conditions.output \subseteq Nat
    BY <1>2, <1>4, SequenceIs
  <2>4. DOMAIN << [field |-> <<"error">>, value |-> "error"] >> \subseteq Nat
    OBVIOUS
  <2> QED BY <1>4, <2>1, <2>2, <2>3, <2>4, EmptySequence
<1>5. CASE r.type \notin {"decision_table", "javascript"}
  <2>1. Decide(r) = [matched |-> Holds(event, r.conditions), todo |-> Branch(r, Holds(event, r.conditions)), output |-> <<>>]
    BY <1>5 DEF Decide
  <2>2. TestMatch(r, event) = Holds(event, r.conditions)
    BY <1>5 DEF TestMatch
  <2> QED BY <1>5, <2>1, <2>2, EmptySequence
<1> QED BY <1>3, <1>4, <1>5

LEMMA EvaluateKeeps ==
  ASSUME EngineIInv, Evaluate, AsLoaded
  PROVE  EngineIInv'
<1> DEFINE d == Decide(Rule)
<1>1. CASE ~Settable(d.output) /\ Raise
  BY <1>1, RaiseKeeps
<1>2. CASE /\ Settable(d.output)
           /\ current' = [Nothing EXCEPT !.matched = d.matched, !.todo = d.todo]
           /\ ChangeEvent(SetAll(d.output), "script")
           /\ Goto("act")
           /\ UNCHANGED <<matched, effects, skipped>>
  <2>1. Placed /\ Shaped /\ RowsInOrder /\ AccountedSoFar /\ Trees /\ DryRun /\ RowsShowTheEvent
        /\ EffectsAreKnown /\ DoneIsKnown /\ EventAsSent
    BY DEF EngineIInv
  <2>2. /\ at = "rule" /\ pos <= Len(rules) /\ at' = "act"
        /\ UNCHANGED <<call, pos, matched, effects, skipped, rules>> /\ AsSent
    BY <1>2 DEF Evaluate, Goto, AsLoaded
  <2>3. /\ DOMAIN d.output \subseteq Nat
        /\ Rule.type # "javascript" => DOMAIN d.output = {} /\ d.matched = TestMatch(Rule, event)
    BY <2>1, <2>2, OutputIs
  <2>4. /\ DOMAIN current' = {"matched", "todo", "executed", "halted"}
        /\ current'.matched = d.matched /\ current'.executed = <<>> /\ current'.halted = FALSE
    BY <1>2 DEF Nothing
  <2> HIDE DEF d
  <2>5. IsTree(event) /\ IsTree(SetAll(d.output)) /\ (Rule.type # "javascript" => SetAll(d.output) = event)
    BY <1>2, <2>1, <2>3, SetAllKeepsTheTree, SettingNothing DEF Trees
  <2>6. RowsStay /\ (EventStays \/ EventChanges("script")) /\ event' = SetAll(d.output)
    BY <1>2, <2>1, <2>5, ChangeEventIs
  <2>7. pos \in Nat \ {0} /\ call \in Nat
    BY <2>1, RulesOfTheBook DEF Placed
  <2>8. Placed'
    BY <2>1, <2>2, Frame DEF Placed
  <2>9. /\ \A i \in DOMAIN audits' :
             FieldsHold(audits'[i].executed, audits'[i].event) \/ Len(mutations') > audits'[i].mutations
        /\ IsSequence(mutations') /\ Len(mutations') \in Nat /\ Len(mutations) <= Len(mutations')
        /\ mutations' = <<>> => mutations = <<>> /\ event' = event
    BY <2>1, <2>6, RowsKeepShowing DEF RowsShowTheEvent
  <2>10. Shaped'
    BY <2>1, <2>2, <2>4, <2>6, <2>9, EmptySequence, ShapeStays DEF Shaped
  <2>11. Trees'
    BY <2>1, <2>6, TreesStay
  <2>12. RowsInOrder'
    BY <2>1, <2>2, <2>6, <2>7, RowsStayInOrder
  <2>13. HaltsAtOnce'
    BY <2>4 DEF HaltsAtOnce
  <2>14. AccountedSoFar'
    BY <2>1, <2>2, <2>6, AccountsStay
  <2>15. DryRun'
    <3> SUFFICES ASSUME request.dry_run PROVE DryRun'
      BY <2>2, Frame DEF DryRun
    <3>1. effects' = <<>> /\ audits' = <<>>
      BY <2>1, <2>2, <2>6, RowsStayAsTheyAre DEF DryRun, DryRunsHaveNoEffects
    <3>2. \A i \in DOMAIN mutations' : mutations'[i].by = "script"
      <4>1. \A i \in DOMAIN mutations : mutations[i].by = "script"
        BY <2>1 DEF DryRun, DryRunsHaveNoEffects
      <4>2. mutations' = mutations \/ mutations' = Append(mutations, [call |-> call, pos |-> pos, by |-> "script"])
        BY <2>6 DEF EventStays, EventChanges
      <4> QED BY <2>1, <4>1, <4>2, Appended DEF Shaped
    <3>3. \A m \in Range(matched') : \A k \in DOMAIN m.executed : m.executed[k].status = "preview"
      BY <2>1, <2>2 DEF DryRun
    <3> QED BY <2>4, <3>1, <3>2, <3>3, EmptySequence DEF DryRun, DryRunsHaveNoEffects
  <2>16. EffectsAreKnown'
    BY <2>1, <2>2, <2>6, EffectsStay
  <2>17. RowsShowTheEvent'
    BY <2>4, <2>9, EmptySequence DEF RowsShowTheEvent, FieldsHold
  <2>18. EventAsSent'
    <3>1. mutations' = <<>> /\ request'.caller # "batch" => event' = event /\ event = request'.records[1]
      BY <2>1, <2>2, <2>9, Frame DEF EventAsSent
    <3>2. Rule' = Rule /\ request' = request
      BY <2>2, Frame DEF Rule
    <3>3. TestPredicts'
      <4> SUFFICES ASSUME mutations' = <<>>, Rule.type # "javascript", request.caller # "batch"
                   PROVE  current'.matched = TestMatch(Rule, request.records[1])
        BY <3>2 DEF TestPredicts, TestMatch
      <4> QED BY <2>3, <2>4, <3>1, <3>2
    <3> QED BY <3>1, <3>3 DEF EventAsSent
  <2>19. DoneIsKnown'
    BY <2>1, <2>2, <2>4, <2>6, DoneStays
  <2> QED BY <2>8, <2>10, <2>11, <2>12, <2>13, <2>14, <2>15, <2>16, <2>17, <2>18, <2>19 DEF EngineIInv
<1> QED BY <1>1, <1>2 DEF Evaluate

Outward == {"trigger_workflow", "send_webhook"}

\* What the actions have in common: a result more, and with it perhaps an
\* effect, or a change of the event.
Acts(r) ==
  /\ at = "act" /\ at' = "act" /\ AsSent
  /\ UNCHANGED <<call, pos, rules, matched, skipped>>
  /\ DOMAIN current' = {"matched", "todo", "executed", "halted"}
  /\ current'.matched = current.matched
  /\ current'.executed = Append(current.executed, r)
  /\ current'.halted <=> ~request.dry_run /\ Halts(r)
  /\ RowsStay
  /\ \/ effects' = effects
     \/ \E type \in Outward : AsDone(r, Effect(type)) /\ effects' = Append(effects, Effect(type))
  /\ IsDone(r) => effects' = Append(effects, Effect(r.type))
  /\ EventStays \/ EventChanges("action")
  /\ request.dry_run => r.status = "preview" /\ effects' = effects /\ EventStays
  /\ ~request.dry_run => \/ r.type \notin {"set_field", "add_tag"} /\ EventStays
                         \/ r.type = "add_tag"
                         \/ r.type = "set_field" /\ GetField(event', r.field) = r.value

LEMMA ActsKeeps ==
  ASSUME EngineIInv, NEW r, Acts(r)
  PROVE  EngineIInv'
<1>1. Placed /\ Shaped /\ RowsInOrder /\ AccountedSoFar /\ Trees /\ DryRun /\ RowsShowTheEvent
      /\ EffectsAreKnown /\ DoneIsKnown /\ EventAsSent /\ HaltsAtOnce
  BY DEF EngineIInv
<1>2. /\ at = "act" /\ at' = "act" /\ AsSent
      /\ UNCHANGED <<call, pos, rules, matched, skipped>>
      /\ RowsStay /\ (EventStays \/ EventChanges("action"))
      /\ current'.executed = Append(current.executed, r) /\ current'.matched = current.matched
  BY DEF Acts
<1>3. /\ IsSequence(current'.executed)
      /\ Len(current'.executed) = Len(current.executed) + 1
      /\ DOMAIN current'.executed = DOMAIN current.executed \cup {Len(current.executed) + 1}
      /\ \A k \in DOMAIN current.executed : current'.executed[k] = current.executed[k]
      /\ current'.executed[Len(current.executed) + 1] = r
      /\ current'.executed # <<>>
      /\ Len(current.executed) \in Nat /\ DOMAIN current.executed = 1 .. Len(current.executed)
  <2> DEFINE x == current.executed
  <2>1. IsSequence(x)
    BY <1>1 DEF Shaped
  <2>2. current'.executed = Append(x, r)
    BY <1>2
  <2> HIDE DEF x
  <2>3. /\ IsSequence(Append(x, r)) /\ Len(Append(x, r)) = Len(x) + 1 /\ DOMAIN Append(x, r) = DOMAIN x \cup {Len(x) + 1}
        /\ \A k \in DOMAIN x : Append(x, r)[k] = x[k]
        /\ Append(x, r)[Len(x) + 1] = r /\ Append(x, r) # <<>>
    BY <2>1, Appended
  <2>4. Len(x) \in Nat /\ DOMAIN x = 1 .. Len(x)
    BY <2>1, SequenceIs
  <2> QED BY <2>2, <2>3, <2>4 DEF x
<1>4. pos \in Nat \ {0} /\ call \in Nat /\ Rule' = Rule
  BY <1>1, <1>2, RulesOfTheBook DEF Placed, Rule
<1>5. Placed'
  BY <1>1, <1>2, Frame DEF Placed
<1>6. /\ \A i \in DOMAIN audits' :
           FieldsHold(audits'[i].executed, audits'[i].event) \/ Len(mutations') > audits'[i].mutations
      /\ IsSequence(mutations') /\ Len(mutations') \in Nat /\ Len(mutations) <= Len(mutations')
      /\ mutations' = <<>> => mutations = <<>> /\ event' = event
  BY <1>1, <1>2, RowsKeepShowing DEF RowsShowTheEvent
<1>17. PICK type \in Outward : effects' = effects \/ (effects' = Append(effects, Effect(type)) /\ AsDone(r, Effect(type)))
  BY DEF Acts, Outward
<1>7. /\ IsSequence(effects')
      /\ \/ effects' = effects
         \/ /\ DOMAIN effects' = DOMAIN effects \cup {Len(effects) + 1}
            /\ \A i \in DOMAIN effects : effects'[i] = effects[i]
            /\ effects'[Len(effects) + 1] = Effect(type)
            /\ AsDone(r, Effect(type))
  <2>1. IsSequence(effects)
    BY <1>1 DEF Shaped
  <2>2. CASE effects' = effects
    BY <2>1, <2>2
  <2>3. CASE effects' = Append(effects, Effect(type)) /\ AsDone(r, Effect(type))
    <3> DEFINE e == Effect(type)
    <3>1. effects' = Append(effects, e)
      BY <2>3
    <3> HIDE DEF e
    <3>2. /\ IsSequence(effects') /\ DOMAIN effects' = DOMAIN effects \cup {Len(effects) + 1}
          /\ \A i \in DOMAIN effects : effects'[i] = effects[i]
          /\ effects'[Len(effects) + 1] = e
      BY <2>1, <3>1, Appended
    <3> QED BY <2>3, <3>2 DEF e
  <2> QED BY <1>17, <2>2, <2>3
<1>8. Shaped'
  BY <1>1, <1>2, <1>3, <1>6, <1>7, ShapeStays DEF Acts
<1>9. Trees'
  BY <1>1, <1>2, TreesStay
<1>10. RowsInOrder'
  BY <1>1, <1>2, <1>4, RowsStayInOrder
<1>11. HaltsAtOnce'
  <2>1. current'.executed[Len(current'.executed)] = r
    BY <1>3
  <2>2. Halts(r)' <=> Halts(r)
    BY <1>2, <1>4 DEF Halts
  <2> QED BY <1>2, <1>3, <2>1, <2>2, Frame DEF HaltsAtOnce, Acts, Halts
<1>12. AccountedSoFar'
  BY <1>1, <1>2, AccountsStay
<1>13. DryRun'
  <2> SUFFICES ASSUME request.dry_run PROVE DryRun'
    BY <1>2, Frame DEF DryRun
  <2>1. r.status = "preview" /\ effects' = effects /\ mutations' = mutations
    BY DEF Acts, EventStays
  <2>2. effects' = <<>> /\ audits' = <<>> /\ \A i \in DOMAIN mutations' : mutations'[i].by = "script"
    BY <1>1, <1>2, <2>1, RowsStayAsTheyAre DEF DryRun, DryRunsHaveNoEffects
  <2>3. \A k \in DOMAIN current'.executed : current'.executed[k].status = "preview"
    BY <1>1, <1>3, <2>1 DEF DryRun
  <2> QED BY <1>1, <1>2, <2>2, <2>3 DEF DryRun, DryRunsHaveNoEffects
<1>14. EffectsAreKnown'
  <2> DEFINE n == Len(effects) + 1
  <2>1. ASSUME NEW i \in DOMAIN effects
        PROVE  \/ effects[i].call = call /\ effects[i].pos = pos /\ Shows(current'.executed, effects[i])
               \/ \E a \in DOMAIN audits' :
                    audits'[a].call = effects[i].call /\ audits'[a].pos = effects[i].pos /\ Shows(audits'[a].executed, effects[i])
    <3>1. CASE effects[i].call = call /\ effects[i].pos = pos /\ Shows(current.executed, effects[i])
      BY <1>3, <3>1 DEF Shows
    <3>2. CASE \E a \in DOMAIN audits :
                 audits[a].call = effects[i].call /\ audits[a].pos = effects[i].pos /\ Shows(audits[a].executed, effects[i])
      BY <1>2, <3>2 DEF RowsStay
    <3> QED BY <1>1, <1>2, <3>1, <3>2 DEF EffectsAreKnown
  <2>2. ASSUME NEW i \in DOMAIN effects PROVE effects[i] # Effect(type)
    <3> SUFFICES ASSUME effects[i] = Effect(type) PROVE FALSE
      OBVIOUS
    <3>1. effects[i].call = call /\ effects[i].pos = pos /\ effects[i].nth = Len(current.executed) + 1
      BY DEF Effect
    <3>2. ~Shows(current.executed, effects[i])
      BY <1>3, <3>1 DEF Shows
    <3>3. PICK a \in DOMAIN audits : audits[a].call = call /\ audits[a].pos = pos
      BY <1>1, <1>2, <3>1, <3>2 DEF EffectsAreKnown
    <3>4. audits[a].call < call \/ audits[a].pos < pos
      BY <1>1 DEF RowsInOrder
    <3> QED BY <1>4, <3>3, <3>4
  <2>3. AsDone(r, Effect(type)) => Shows(current'.executed, Effect(type))
    BY <1>3 DEF Shows, Effect
  <2>4. Effect(type).call = call /\ Effect(type).pos = pos
    BY DEF Effect
  <2>5. ASSUME NEW i \in DOMAIN effects'
        PROVE  \/ effects'[i].call = call /\ effects'[i].pos = pos /\ Shows(current'.executed, effects'[i])
               \/ \E a \in DOMAIN audits' :
                    audits'[a].call = effects'[i].call /\ audits'[a].pos = effects'[i].pos /\ Shows(audits'[a].executed, effects'[i])
    <3>1. CASE i \in DOMAIN effects /\ effects'[i] = effects[i]
      BY <2>1, <3>1
    <3>2. CASE effects'[i] = Effect(type) /\ AsDone(r, Effect(type))
      BY <2>3, <2>4, <3>2
    <3> QED BY <1>7, <3>1, <3>2
  <2>6. ASSUME NEW i \in DOMAIN effects', NEW j \in DOMAIN effects', effects'[i] = effects'[j] PROVE i = j
    <3>1. \A x, y \in DOMAIN effects : effects[x] = effects[y] => x = y
      BY <1>1 DEF EffectsAreKnown
    <3> QED BY <1>7, <2>2, <2>6, <3>1
  <2> QED BY <1>2, <2>5, <2>6 DEF EffectsAreKnown
<1>15. RowsShowTheEvent'
  <2>1. ASSUME ~request.dry_run PROVE FieldsHold(current'.executed, event')
    <3>1. FieldsHold(current.executed, event)
      BY <1>1, <1>2, <2>1 DEF RowsShowTheEvent
    <3> DEFINE last == Len(current.executed) + 1
    <3>2. ASSUME NEW k \in DOMAIN current'.executed, current'.executed[k].type = "set_field"
          PROVE  \/ GetField(event', current'.executed[k].field) = current'.executed[k].value
                 \/ \E l \in k + 1 .. Len(current'.executed) : current'.executed[l].type \in {"set_field", "add_tag"}
      <4>1. CASE k = last
        BY <1>3, <2>1, <3>2, <4>1 DEF Acts
      <4>2. CASE k \in DOMAIN current.executed /\ r.type \in {"set_field", "add_tag"}
        <5>1. last \in k + 1 .. Len(current'.executed)
          BY <1>3, <4>2
        <5> QED BY <1>3, <4>2, <5>1
      <4>3. CASE k \in DOMAIN current.executed /\ r.type \notin {"set_field", "add_tag"}
        <5>1. event' = event
          BY <2>1, <4>3 DEF Acts, EventStays
        <5>2. current'.executed[k] = current.executed[k]
          BY <1>3, <4>3
        <5>3. \A l \in k + 1 .. Len(current.executed) :
                l \in k + 1 .. Len(current'.executed) /\ current'.executed[l] = current.executed[l]
          BY <1>3, <4>3
        <5> QED BY <3>1, <3>2, <4>3, <5>1, <5>2, <5>3 DEF FieldsHold
      <4> QED BY <1>3, <4>1, <4>2, <4>3
    <3> QED BY <3>2 DEF FieldsHold
  <2> QED BY <1>2, <1>6, <2>1, Frame DEF RowsShowTheEvent
<1>16. EventAsSent'
  <2>1. mutations' = <<>> /\ request'.caller # "batch" => event' = request'.records[1]
    BY <1>1, <1>2, <1>6, Frame DEF EventAsSent
  <2>2. TestPredicts'
    <3> SUFFICES ASSUME mutations' = <<>>, Rule.type # "javascript", request.caller # "batch"
                 PROVE  current'.matched = TestMatch(Rule, request.records[1])
      BY <1>2, <1>4, Frame DEF TestPredicts, TestMatch
    <3> QED BY <1>1, <1>2, <1>6 DEF EventAsSent, TestPredicts
  <2> QED BY <2>1, <2>2 DEF EventAsSent
<1>18. DoneIsKnown'
  <2>1. Range(effects) \subseteq Range(effects')
    BY <1>7 DEF Range
  <2>2. ASSUME NEW a \in DOMAIN audits', NEW k \in DOMAIN audits'[a].executed, IsDone(audits'[a].executed[k])
        PROVE  [call |-> audits'[a].call, pos |-> audits'[a].pos, nth |-> k, type |-> audits'[a].executed[k].type]
                 \in Range(effects')
    <3>1. /\ a \in DOMAIN audits /\ audits'[a].executed = audits[a].executed
          /\ audits'[a].call = audits[a].call /\ audits'[a].pos = audits[a].pos
      BY <1>2 DEF RowsStay
    <3>2. AllDone(audits[a].executed, audits[a].call, audits[a].pos)
      BY <1>1, <3>1 DEF DoneIsKnown
    <3> QED BY <2>1, <2>2, <3>1, <3>2 DEF AllDone
  <2>3. ASSUME NEW k \in DOMAIN current'.executed, IsDone(current'.executed[k])
        PROVE  [call |-> call, pos |-> pos, nth |-> k, type |-> current'.executed[k].type] \in Range(effects')
    <3>1. CASE k \in DOMAIN current.executed
      BY <1>1, <1>2, <1>3, <2>1, <2>3, <3>1 DEF DoneIsKnown, AllDone
    <3>2. CASE k = Len(current.executed) + 1
      <4> DEFINE e == Effect(r.type)
      <4>1. current'.executed[k] = r /\ e = [call |-> call, pos |-> pos, nth |-> k, type |-> r.type]
        BY <1>3, <3>2 DEF Effect
      <4>2. effects' = Append(effects, e)
        BY <2>3, <4>1 DEF Acts
      <4> HIDE DEF e
      <4>3. e \in Range(effects')
        BY <1>1, <4>2, Appended DEF Shaped
      <4> QED BY <4>1, <4>3
    <3> QED BY <1>3, <3>1, <3>2
  <2>4. AllDone(current.executed, call, pos)'
    BY <1>2, <2>3 DEF AllDone
  <2>5. \A a \in DOMAIN audits' : AllDone(audits[a].executed, audits[a].call, audits[a].pos)'
    BY <2>2 DEF AllDone
  <2> QED BY <2>4, <2>5 DEF DoneIsKnown
<1> QED BY <1>5, <1>8, <1>9, <1>10, <1>11, <1>12, <1>13, <1>14, <1>15, <1>16, <1>18 DEF EngineIInv

\* An action that only has a result, or an effect too.
LEMMA ExecutedIs ==
  ASSUME EngineIInv, at = "act", NEW r, Executed(r), AsLoaded
  PROVE  /\ at' = "act" /\ AsSent
         /\ UNCHANGED <<call, pos, rules, matched, skipped>>
         /\ DOMAIN current' = {"matched", "todo", "executed", "halted"}
         /\ current'.matched = current.matched
         /\ current'.executed = Append(current.executed, r)
         /\ current'.halted <=> ~request.dry_run /\ Halts(r)
<1>1. DOMAIN current = {"matched", "todo", "executed", "halted"}
  BY DEF EngineIInv, Shaped
<1>2. /\ current' = [current EXCEPT !.executed = Append(@, r), !.todo = Tail(@), !.halted = ~request.dry_run /\ Halts(r)]
      /\ at' = "act" /\ UNCHANGED <<call, pos, matched, skipped>>
  BY DEF Executed, Goto
<1> QED BY <1>1, <1>2 DEF AsLoaded

LEMMA PlainActionKeeps ==
  ASSUME EngineIInv, at = "act", NEW type, NEW status, Executed(Result(type, status)), AsLoaded,
         audits' = audits \/ audits' = Flushed(audits), UNCHANGED <<event, mutations>>,
         \/ effects' = effects
         \/ /\ ~request.dry_run
            /\ \E t \in Outward : AsDone(Result(type, status), Effect(t)) /\ effects' = Append(effects, Effect(t)),
         IsDone(Result(type, status)) => effects' = Append(effects, Effect(type)),
         request.dry_run => status = "preview",
         ~request.dry_run => type \notin {"set_field", "add_tag"}
  PROVE  EngineIInv'
<1> DEFINE r == Result(type, status)
<1>1. /\ r.type = type /\ r.status = status
      /\ IsDone(r) => effects' = Append(effects, Effect(r.type))
      /\ effects' = effects \/ \E t \in Outward : AsDone(r, Effect(t)) /\ effects' = Append(effects, Effect(t))
  BY DEF Result
<1> HIDE DEF r
<1>2. RowsStay /\ RowsShowTheSame
  BY RowsUnchanged, RowsFlushed DEF EngineIInv
<1>3. EventStays
  BY <1>2 DEF EventStays
<1>4. /\ at' = "act" /\ AsSent
      /\ UNCHANGED <<call, pos, rules, matched, skipped>>
      /\ DOMAIN current' = {"matched", "todo", "executed", "halted"}
      /\ current'.matched = current.matched
      /\ current'.executed = Append(current.executed, r)
      /\ current'.halted <=> ~request.dry_run /\ Halts(r)
  BY ExecutedIs DEF r
<1>5. Acts(r)
  BY <1>1, <1>2, <1>3, <1>4 DEF Acts
<1> QED BY <1>5, ActsKeeps

\* set_field and add_tag: the result, and the event with what was set.
LEMMA SettingActionKeeps ==
  ASSUME EngineIInv, at = "act", ~request.dry_run, NEW r, Executed(r), AsLoaded, UNCHANGED effects,
         NEW path, NEW value, ~Obstructed(event, path), ChangeEvent(SetNested(event, path, value), "action"),
         r.type = "add_tag" \/ (r.type = "set_field" /\ r.field = path /\ r.value = value)
  PROVE  EngineIInv'
<1> DEFINE to == SetNested(event, path, value)
<1>1. IsTree(event)
  BY DEF EngineIInv, Trees
<1>2. IsTree(to) /\ GetField(to, path) = value
  BY <1>1, SetNestedKeepsTheTree
<1> HIDE DEF to
<1>3. RowsStay /\ event' = to /\ (EventStays \/ EventChanges("action"))
  BY <1>2, ChangeEventIs DEF EngineIInv, to
<1>4. /\ at' = "act" /\ AsSent
      /\ UNCHANGED <<call, pos, rules, matched, skipped>>
      /\ DOMAIN current' = {"matched", "todo", "executed", "halted"}
      /\ current'.matched = current.matched
      /\ current'.executed = Append(current.executed, r)
      /\ current'.halted <=> ~request.dry_run /\ Halts(r)
  BY ExecutedIs
<1>5. ~IsDone(r)
  BY DEF IsDone
<1>6. Acts(r)
  BY <1>2, <1>3, <1>4, <1>5 DEF Acts
<1> QED BY <1>6, ActsKeeps

LEMMA ActionsKeep ==
  ASSUME EngineIInv, AsLoaded,
         Preview \/ TriggerWorkflow \/ SendWebhook \/ SendEmail \/ SetFieldAction \/ AddTag \/ StopProcessing \/ UnknownAction
  PROVE  EngineIInv'
<1>1. CASE Preview
  <2>1. at = "act" /\ request.dry_run /\ Executed(Result(Action.type, "preview"))
        /\ UNCHANGED <<event, audits, effects, mutations>>
    BY <1>1 DEF Preview
  <2> QED BY <2>1, PlainActionKeeps DEF IsDone, Result
<1>2. CASE TriggerWorkflow
  <2>1. at = "act" /\ ~request.dry_run /\ (audits' = audits \/ audits' = Flushed(audits)) /\ UNCHANGED <<event, mutations>>
    BY <1>2 DEF TriggerWorkflow, Acting
  <2> DEFINE e == Effect("trigger_workflow")
             ok == Result("trigger_workflow", "ok")
             failed == Result("untyped", "error")
  <2>2. AsDone(ok, e) /\ AsDone(failed, e) /\ ~IsDone(failed)
    BY DEF AsDone, IsDone, Untyped, Result, Effect
  <2>3. \/ Executed(ok) /\ effects' = Append(effects, e)
        \/ Executed(failed) /\ effects' = Append(effects, e)
        \/ Executed(failed) /\ UNCHANGED effects
    BY <1>2 DEF TriggerWorkflow, Untyped
  <2>4. CASE Executed(ok) /\ effects' = Append(effects, e)
    BY <2>1, <2>2, <2>4, PlainActionKeeps DEF Outward
  <2>5. CASE Executed(failed) /\ effects' = Append(effects, e)
    BY <2>1, <2>2, <2>5, PlainActionKeeps DEF Outward
  <2>6. CASE Executed(failed) /\ UNCHANGED effects
    BY <2>1, <2>2, <2>6, PlainActionKeeps
  <2> QED BY <2>3, <2>4, <2>5, <2>6
<1>3. CASE SendWebhook
  <2>1. at = "act" /\ ~request.dry_run /\ UNCHANGED <<event, audits, mutations>>
    BY <1>3 DEF SendWebhook, Acting
  <2> DEFINE e == Effect("send_webhook")
  <2>2. PICK status \in {"ok", "error"} :
          /\ Executed(Result("send_webhook", status))
          /\ effects' = Append(effects, e) \/ effects' = effects
          /\ status = "ok" => effects' = Append(effects, e)
    <3>1. PICK answered \in BOOLEAN : \E sent \in {TRUE, answered} :
            /\ Executed(Result("send_webhook", IF answered THEN "ok" ELSE "error"))
            /\ effects' = IF sent THEN Append(effects, e) ELSE effects
      BY <1>3, Zenon DEF SendWebhook
    <3>2. CASE answered = TRUE
      BY <3>1, <3>2
    <3>3. CASE answered = FALSE
      BY <3>1, <3>3
    <3> QED BY <3>2, <3>3
  <2>3. AsDone(Result("send_webhook", status), e) /\ (IsDone(Result("send_webhook", status)) => status = "ok")
    BY DEF AsDone, IsDone, Result, Effect
  <2> QED BY <2>1, <2>2, <2>3, PlainActionKeeps DEF Outward
<1>4. CASE SendEmail
  <2>1. at = "act" /\ ~request.dry_run /\ Executed(Result("send_email", "queued"))
        /\ UNCHANGED <<event, audits, effects, mutations>>
    BY <1>4 DEF SendEmail, Acting
  <2> QED BY <2>1, PlainActionKeeps DEF IsDone, Result
<1>5. CASE SetFieldAction
  <2>1. CASE Obstructed(event, Action.field) /\ Raise
    BY <2>1, RaiseKeeps
  <2>2. CASE ~(Obstructed(event, Action.field) /\ Raise)
    <3> DEFINE value == Interp(event, Action.value)
               r == [type |-> "set_field", status |-> "ok", field |-> Action.field, value |-> value]
    <3>1. /\ at = "act" /\ ~request.dry_run /\ ~Obstructed(event, Action.field) /\ Executed(r)
          /\ ChangeEvent(SetNested(event, Action.field, value), "action") /\ UNCHANGED effects
      BY <1>5, <2>2 DEF SetFieldAction, Acting
    <3>2. r.type = "set_field" /\ r.field = Action.field /\ r.value = value
      OBVIOUS
    <3> HIDE DEF r, value
    <3> QED BY <3>1, <3>2, SettingActionKeeps
  <2> QED BY <2>1, <2>2
<1>6. CASE AddTag
  <2> DEFINE tag == <<"_tags", Action.tag>>
             r == Result("add_tag", "ok")
  <2>1. CASE Obstructed(event, tag) /\ Raise
    BY <2>1, RaiseKeeps
  <2>2. CASE ~(Obstructed(event, tag) /\ Raise)
    <3>1. /\ at = "act" /\ ~request.dry_run /\ ~Obstructed(event, tag) /\ Executed(r)
          /\ ChangeEvent(SetNested(event, tag, Action.tag), "action") /\ UNCHANGED effects
      BY <1>6, <2>2 DEF AddTag, Acting
    <3>2. r.type = "add_tag"
      BY DEF Result
    <3> HIDE DEF r, tag
    <3> QED BY <3>1, <3>2, SettingActionKeeps
  <2> QED BY <2>1, <2>2
<1>7. CASE StopProcessing
  <2>1. at = "act" /\ ~request.dry_run /\ Executed(Result("stop_processing", "ok"))
        /\ UNCHANGED <<event, audits, effects, mutations>>
    BY <1>7 DEF StopProcessing, Acting
  <2> QED BY <2>1, PlainActionKeeps DEF IsDone, Result
<1>8. CASE UnknownAction
  <2>1. at = "act" /\ ~request.dry_run /\ Executed(Result("untyped", "error"))
        /\ UNCHANGED <<event, audits, effects, mutations>>
    BY <1>8 DEF UnknownAction, Acting, Untyped
  <2> QED BY <2>1, PlainActionKeeps DEF IsDone, Result
<1> QED BY <1>1, <1>2, <1>3, <1>4, <1>5, <1>6, <1>7, <1>8

\* The end of a rule, which writes the row that accounts for it, and which
\* now shows its effects.
LEMMA RuleEndsKeeps ==
  ASSUME EngineIInv, RuleEnds, AsLoaded
  PROVE  EngineIInv'
<1> DEFINE row == AuditOf(event)
           n == Len(audits) + 1
<1>1. Placed /\ Shaped /\ RowsInOrder /\ AccountedSoFar /\ Trees /\ DryRun /\ RowsShowTheEvent
      /\ EffectsAreKnown /\ DoneIsKnown /\ EventAsSent /\ HaltsAtOnce
  BY DEF EngineIInv
<1>2. /\ at = "act" /\ audits' = Audited /\ AsSent
      /\ at' = (IF current.halted THEN "return" ELSE "rule") /\ pos' = pos + 1
      /\ current' = Nothing
      /\ UNCHANGED <<call, event, effects, mutations, skipped, rules>>
      /\ matched' = matched \/ matched' = Append(matched, [pos |-> pos, matched |-> current.matched, executed |-> current.executed])
  BY DEF RuleEnds, AsLoaded
<1>3. /\ pos \in Nat \ {0} /\ Len(rules) \in Nat /\ pos <= Len(rules) /\ call \in Nat /\ rules = Sorted
      /\ Sorted' = Sorted /\ DOMAIN book = 1 .. Len(rules)
  BY <1>1, <1>2, RulesOfTheBook, Frame DEF Placed
<1>4. /\ IsSequence(audits) /\ Len(audits) \in Nat /\ DOMAIN audits = 1 .. Len(audits)
      /\ IsSequence(current.executed) /\ Len(mutations) \in Nat
  BY <1>1, SequenceIs DEF Shaped
<1>5. /\ DOMAIN row = RowFields /\ row.call = call /\ row.pos = pos /\ row.matched = current.matched
      /\ row.executed = current.executed /\ row.event = event /\ row.mutations = Len(mutations)
  BY DEF AuditOf, RowFields
<1>6. ~request.dry_run => audits' = Append(audits, row)
  BY <1>2 DEF Audited
<1> HIDE DEF row
<1>7. ~request.dry_run =>
        /\ IsSequence(audits') /\ DOMAIN audits' = DOMAIN audits \cup {n} /\ audits'[n] = row /\ n \notin DOMAIN audits
        /\ \A i \in DOMAIN audits : audits'[i] = audits[i] /\ i < n
  <2>1. /\ IsSequence(Append(audits, row)) /\ DOMAIN Append(audits, row) = DOMAIN audits \cup {Len(audits) + 1}
        /\ \A i \in DOMAIN audits : Append(audits, row)[i] = audits[i]
        /\ Append(audits, row)[Len(audits) + 1] = row
    BY <1>4, Appended
  <2>2. n \notin DOMAIN audits /\ \A i \in DOMAIN audits : i < n
    BY <1>4
  <2> QED BY <1>6, <2>1, <2>2
<1>8. request.dry_run => audits' = audits /\ audits = <<>> /\ DOMAIN audits = {}
  BY <1>1, <1>2, EmptySequence DEF Audited, DryRun, DryRunsHaveNoEffects
<1> HIDE DEF n
<1>9. ~request.dry_run => (HaltedBy(row) <=> current.halted)
  BY <1>1, <1>2, <1>5 DEF HaltsAtOnce, HaltedBy, Halts, Rule
<1>11. /\ DOMAIN current' = {"matched", "todo", "executed", "halted"} /\ current'.executed = <<>>
  BY <1>2 DEF Nothing
<1>12. Placed'
  <2>1. pos + 1 \in 1 .. Len(rules) + 1
    BY <1>3
  <2> QED BY <1>1, <1>2, <1>3, <2>1, Frame DEF Placed
<1>13. Shaped'
  <2>1. IsSequence(matched') /\ \A m \in Range(matched') : IsSequence(m.executed)
    <3>1. CASE matched' = matched
      BY <1>1, <3>1 DEF Shaped
    <3>2. CASE matched' = Append(matched, [pos |-> pos, matched |-> current.matched, executed |-> current.executed])
      <4> DEFINE m == [pos |-> pos, matched |-> current.matched, executed |-> current.executed]
      <4>1. m.executed = current.executed /\ matched' = Append(matched, m)
        BY <3>2
      <4> HIDE DEF m
      <4>2. IsSequence(matched') /\ Range(matched') = Range(matched) \cup {m}
        BY <1>1, <4>1, Appended DEF Shaped
      <4> QED BY <1>1, <1>4, <4>1, <4>2 DEF Shaped
    <3> QED BY <1>2, <3>1, <3>2
  <2>2. ASSUME NEW i \in DOMAIN audits'
        PROVE  /\ DOMAIN audits'[i] = RowFields
               /\ IsSequence(audits'[i].executed)
               /\ audits'[i].mutations \in Nat /\ audits'[i].mutations <= Len(mutations)
    <3>1. CASE i \in DOMAIN audits /\ audits'[i] = audits[i]
      BY <1>1, <3>1 DEF Shaped
    <3>2. CASE audits'[i] = row
      BY <1>4, <1>5, <3>2
    <3> QED BY <1>7, <1>8, <3>1, <3>2
  <2> QED BY <1>1, <1>2, <1>4, <1>7, <1>8, <1>11, <2>1, <2>2, EmptySequence DEF Shaped
<1>14. Trees'
  BY <1>1, <1>2, <1>5, <1>7, <1>8 DEF Trees
<1>15. RowsInOrder'
  <2> SUFFICES ASSUME ~request.dry_run PROVE RowsInOrder'
    <3>1. request.dry_run => audits' = <<>>
      BY <1>8
    <3> QED BY <3>1, EmptySequence DEF RowsInOrder
  <2>1. \A i \in DOMAIN audits :
          /\ audits[i].call \in Nat /\ audits[i].pos \in 1 .. Len(rules)
          /\ audits[i].call < call \/ (audits[i].call = call /\ audits[i].pos < pos /\ ~HaltedBy(audits[i]))
    BY <1>1, <1>2 DEF RowsInOrder
  <2>2. ASSUME NEW i \in DOMAIN audits'
        PROVE  /\ audits'[i].call \in Nat /\ audits'[i].pos \in 1 .. Len(rules)
               /\ \/ audits'[i].call < call
                  \/ audits'[i].call = call /\ audits'[i].pos < pos + 1 /\ (at' = "rule" => ~HaltedBy(audits'[i]))
    <3>1. CASE i \in DOMAIN audits /\ audits'[i] = audits[i]
      <4>1. audits[i].pos \in Nat
        BY <1>3, <2>1, <3>1
      <4> QED BY <1>3, <2>1, <3>1, <4>1
    <3>2. CASE audits'[i] = row
      <4>1. at' = "rule" => ~HaltedBy(row)
        BY <1>2, <1>9
      <4> QED BY <1>3, <1>5, <3>2, <4>1
    <3> QED BY <1>7, <3>1, <3>2
  <2>3. ASSUME NEW i \in DOMAIN audits', NEW j \in DOMAIN audits', i < j, audits'[i].call = audits'[j].call
        PROVE  audits'[i].pos < audits'[j].pos /\ ~HaltedBy(audits'[i])
    <3>1. i \in DOMAIN audits
      <4>1. i = n => j \in DOMAIN audits \/ j = n
        BY <1>7
      <4>2. \A k \in DOMAIN audits : k < n /\ k \in Int
        BY <1>4, <1>7
      <4>3. n \in Int
        BY <1>4 DEF n
      <4> QED BY <1>7, <2>3, <4>1, <4>2, <4>3
    <3>2. CASE j \in DOMAIN audits
      BY <1>1, <1>7, <2>3, <3>1, <3>2 DEF RowsInOrder
    <3>3. CASE j = n
      <4>1. audits'[i] = audits[i] /\ audits[i].call = call /\ audits'[j].pos = pos
        BY <1>5, <1>7, <2>3, <3>1, <3>3
      <4>2. ~(call < call)
        BY <1>3
      <4> QED BY <2>1, <3>1, <4>1, <4>2
    <3> QED BY <1>7, <3>2, <3>3
  <2>4. rules' = Sorted' /\ Len(rules') = Len(rules) /\ call' = call /\ pos' = pos + 1 /\ at' \in {"rule", "return"}
    BY <1>2, <1>3
  <2>5. \A i : HaltedBy(audits[i])' <=> HaltedBy(audits'[i])
    BY <1>2 DEF HaltedBy
  <2> QED BY <2>2, <2>3, <2>4, <2>5 DEF RowsInOrder
<1>16. HaltsAtOnce'
  BY <1>2 DEF HaltsAtOnce
<1>17. AccountedSoFar'
  <2> SUFFICES ASSUME ~request.dry_run,
                      NEW c \in 1 .. Calls, NEW p \in DOMAIN book,
                      c < call \/ (c = call /\ (at' = "return" \/ p < pos + 1))
               PROVE  Accounted(c, p)'
    BY <1>2, Frame DEF AccountedSoFar
  <2>1. p \in Nat
    BY <1>3
  <2>2. CASE c < call \/ (c = call /\ p < pos)
    <3>1. Accounted(c, p)
      BY <1>1, <1>2, <2>2 DEF AccountedSoFar
    <3>2. DOMAIN audits \subseteq DOMAIN audits' /\ \A i \in DOMAIN audits : audits'[i] = audits[i]
      BY <1>7
    <3>3. \A i \in DOMAIN audits : HaltedBy(audits[i])' <=> HaltedBy(audits[i])
      BY <1>2, <3>2 DEF HaltedBy
    <3> QED BY <1>2, <3>1, <3>2, <3>3, Frame DEF Accounted
  <2>3. CASE c = call /\ p = pos
    BY <1>5, <1>7, <2>3 DEF Accounted
  <2>4. CASE c = call /\ pos < p /\ current.halted
    <3>1. PICK k \in DOMAIN audits' : audits'[k] = row
      BY <1>7
    <3>2. audits'[k].call = c /\ audits'[k].pos < p /\ HaltedBy(audits'[k])
      BY <1>5, <1>9, <2>4, <3>1
    <3>3. HaltedBy(audits[k])'
      BY <1>2, <3>2 DEF HaltedBy
    <3> QED BY <3>1, <3>2, <3>3 DEF Accounted
  <2>5. at' = "return" => current.halted
    BY <1>2
  <2>6. p < pos + 1 => p < pos \/ p = pos
    BY <1>3, <2>1
  <2>7. p < pos \/ p = pos \/ pos < p
    BY <1>3, <2>1
  <2> QED BY <2>2, <2>3, <2>4, <2>5, <2>6, <2>7
<1>18. DryRun'
  <2> SUFFICES ASSUME request.dry_run PROVE DryRun'
    BY <1>2, Frame DEF DryRun
  <2>1. effects' = <<>> /\ audits' = <<>> /\ \A i \in DOMAIN mutations' : mutations'[i].by = "script"
    BY <1>1, <1>2, <1>8 DEF DryRun, DryRunsHaveNoEffects
  <2>2. \A m \in Range(matched') : \A k \in DOMAIN m.executed : m.executed[k].status = "preview"
    <3>1. CASE matched' = matched
      BY <1>1, <3>1 DEF DryRun
    <3>2. CASE matched' = Append(matched, [pos |-> pos, matched |-> current.matched, executed |-> current.executed])
      <4> DEFINE m == [pos |-> pos, matched |-> current.matched, executed |-> current.executed]
      <4>1. m.executed = current.executed /\ matched' = Append(matched, m)
        BY <3>2
      <4> HIDE DEF m
      <4>2. Range(matched') = Range(matched) \cup {m}
        BY <1>1, <4>1, Appended DEF Shaped
      <4> QED BY <1>1, <4>1, <4>2 DEF DryRun
    <3> QED BY <1>2, <3>1, <3>2
  <2> QED BY <1>11, <2>1, <2>2, EmptySequence DEF DryRun, DryRunsHaveNoEffects
<1>19. EffectsAreKnown'
  <2>1. ASSUME NEW i \in DOMAIN effects
        PROVE  \E a \in DOMAIN audits' :
                 audits'[a].call = effects[i].call /\ audits'[a].pos = effects[i].pos /\ Shows(audits'[a].executed, effects[i])
    <3>1. ~request.dry_run
      BY <2>1, <1>1, EmptySequence DEF DryRun, DryRunsHaveNoEffects
    <3>2. CASE effects[i].call = call /\ effects[i].pos = pos /\ Shows(current.executed, effects[i])
      BY <1>5, <1>7, <3>1, <3>2
    <3>3. CASE \E a \in DOMAIN audits :
                 audits[a].call = effects[i].call /\ audits[a].pos = effects[i].pos /\ Shows(audits[a].executed, effects[i])
      BY <1>7, <3>1, <3>3
    <3> QED BY <1>1, <1>2, <3>2, <3>3 DEF EffectsAreKnown
  <2> QED BY <1>1, <1>2, <2>1 DEF EffectsAreKnown
<1>20. RowsShowTheEvent'
  <2>1. ASSUME NEW i \in DOMAIN audits'
        PROVE  FieldsHold(audits'[i].executed, audits'[i].event) \/ Len(mutations) > audits'[i].mutations
    <3>1. CASE i \in DOMAIN audits /\ audits'[i] = audits[i]
      BY <1>1, <3>1 DEF RowsShowTheEvent
    <3>2. CASE audits'[i] = row /\ ~request.dry_run
      BY <1>1, <1>2, <1>5, <3>2 DEF RowsShowTheEvent
    <3> QED BY <1>7, <1>8, <3>1, <3>2
  <2> QED BY <1>2, <2>1 DEF RowsShowTheEvent
<1>21. EventAsSent'
  BY <1>1, <1>2, Frame DEF EventAsSent, TestPredicts
<1>22. DoneIsKnown'
  <2>1. ASSUME NEW a \in DOMAIN audits'
        PROVE  AllDone(audits'[a].executed, audits'[a].call, audits'[a].pos)
    <3>1. CASE a \in DOMAIN audits /\ audits'[a] = audits[a]
      BY <1>1, <3>1 DEF DoneIsKnown
    <3>2. CASE audits'[a] = row
      BY <1>1, <1>2, <1>5, <3>2 DEF DoneIsKnown
    <3> QED BY <1>7, <1>8, <3>1, <3>2
  <2>2. at' # "act"
    BY <1>2
  <2> QED BY <1>2, <2>1, <2>2 DEF DoneIsKnown, AllDone
<1> QED BY <1>12, <1>13, <1>14, <1>15, <1>16, <1>17, <1>18, <1>19, <1>20, <1>21, <1>22 DEF EngineIInv

-----------------------------------------------------------------------------
(* The invariant, and what follows from it.                                *)

LEMMA EngineInvariantIsInductive ==
  ASSUME EngineIInv, [Next]_vars
  PROVE  EngineIInv'
<1>1. CASE UNCHANGED vars
  <2>1. /\ UNCHANGED <<request, book, steps, rules, at, call, pos, event, current, matched>>
        /\ UNCHANGED <<audits, effects, mutations, skipped>>
    BY <1>1 DEF vars, place, outside
  <2> USE DEF EngineIInv
  <2>2. AsSent
    BY <2>1 DEF AsSent
  <2>3. Placed' /\ Shaped' /\ Trees'
    BY <2>1, <2>2, Frame DEF Placed, Shaped, Trees
  <2>4. RowsInOrder' /\ HaltsAtOnce'
    BY <2>1, <2>2, Frame DEF RowsInOrder, HaltsAtOnce, HaltedBy, Halts, Rule
  <2>5. AccountedSoFar'
    BY <2>1, <2>2, Frame DEF AccountedSoFar, Accounted, HaltedBy
  <2>6. DryRun' /\ EffectsAreKnown' /\ DoneIsKnown' /\ RowsShowTheEvent'
    BY <2>1 DEF DryRun, DryRunsHaveNoEffects, EffectsAreKnown, DoneIsKnown, AllDone, RowsShowTheEvent
  <2>7. EventAsSent'
    BY <2>1 DEF EventAsSent, TestPredicts, TestMatch, Rule
  <2> QED BY <2>3, <2>4, <2>5, <2>6, <2>7
<1>2. CASE CallBegins /\ AsSent
  BY <1>2, CallBeginsKeeps
<1>3. CASE StepSkipped /\ AsLoaded
  BY <1>3, StepSkippedKeeps
<1>4. CASE Filter /\ AsLoaded
  BY <1>4, FilterKeeps
<1>5. CASE Evaluate /\ AsLoaded
  BY <1>5, EvaluateKeeps
<1>6. CASE (Preview \/ TriggerWorkflow \/ SendWebhook \/ SendEmail \/ SetFieldAction \/ AddTag \/ StopProcessing
            \/ UnknownAction) /\ AsLoaded
  BY <1>6, ActionsKeep
<1>7. CASE RuleEnds /\ AsLoaded
  BY <1>7, RuleEndsKeeps
<1>8. CASE RulesEnd /\ AsLoaded
  BY <1>8, RulesEndKeeps
<1>9. CASE CallReturns /\ AsLoaded
  BY <1>9, CallReturnsKeeps
<1> QED BY <1>1, <1>2, <1>3, <1>4, <1>5, <1>6, <1>7, <1>8, <1>9 DEF Next

\* The audit of a committed request is complete and in order, each effect
\* stands in one row, what a row says was done was done, and a row shows the
\* event unless it changed later.
LEMMA AuditFollows ==
  ASSUME EngineIInv
  PROVE  AuditInvariant
<1> USE DEF EngineIInv
<1>1. AuditsAreComplete
  <2>1. ASSUME at = "committed", ~request.dry_run, NEW c \in 1 .. Calls, NEW p \in DOMAIN book
        PROVE  Accounted(c, p)
    <3>1. call = Calls + 1 /\ Calls \in Nat
      BY <2>1, StepsAre DEF Placed
    <3>2. c < call
      BY <3>1
    <3> QED BY <2>1, <3>2 DEF AccountedSoFar
  <2> QED BY <2>1 DEF AuditsAreComplete, Accounted, RowsInOrder
<1>2. EffectsAreAudited
  <2>1. ASSUME at = "committed", NEW e \in Range(effects)
        PROVE  /\ Cardinality({ j \in DOMAIN effects : effects[j] = e }) = 1
               /\ \E a \in DOMAIN audits :
                    /\ audits[a].call = e.call /\ audits[a].pos = e.pos
                    /\ e.nth \in DOMAIN audits[a].executed
                    /\ AsDone(audits[a].executed[e.nth], e)
    <3>1. PICK i \in DOMAIN effects : effects[i] = e
      BY DEF Range
    <3>2. { j \in DOMAIN effects : effects[j] = e } = {i}
      BY <3>1 DEF EffectsAreKnown
    <3>3. Cardinality({i}) = 1
      BY FS_Singleton
    <3>4. PICK a \in DOMAIN audits : audits[a].call = e.call /\ audits[a].pos = e.pos /\ Shows(audits[a].executed, e)
      BY <2>1, <3>1 DEF EffectsAreKnown
    <3> QED BY <3>2, <3>3, <3>4 DEF Shows
  <2>2. ASSUME NEW a \in DOMAIN audits, NEW k \in DOMAIN audits[a].executed, IsDone(audits[a].executed[k])
        PROVE  [call |-> audits[a].call, pos |-> audits[a].pos, nth |-> k, type |-> audits[a].executed[k].type]
                 \in Range(effects)
    BY <2>2 DEF DoneIsKnown, AllDone
  <2> QED BY <2>1, <2>2 DEF EffectsAreAudited
<1>3. AuditsShowTheEvent
  BY DEF AuditsShowTheEvent, RowsShowTheEvent, FieldsHold
<1> QED BY <1>1, <1>2, <1>3 DEF AuditInvariant

LEMMA EngineFollows ==
  ASSUME EngineIInv
  PROVE  EngineInvariant /\ TestPredicts
<1> USE DEF EngineIInv
<1>1. FlowsKeepTheirOrder /\ Calls \in Nat
  BY StepsAre DEF Placed
<1>2. TypeOK
  BY <1>1 DEF TypeOK, Placed, Trees
<1>3. DryRunsHaveNoEffects
  BY DEF DryRun, DryRunsHaveNoEffects
<1>4. NegationsAreExact
  BY Negations DEF NegationsAreExact
<1> QED BY <1>1, <1>2, <1>3, <1>4 DEF EngineInvariant, EventAsSent

\* The rows of rule_audits account for all that a committed request evaluated,
\* and for all it did outside, if only as an error; what they say was done was
\* done, and they show the event unless it changed before they were flushed
\* (process_event and its callers).
THEOREM AuditIsKept == Spec => []AuditInvariant
<1>1. Init => EngineIInv
  BY EngineStarts
<1>2. EngineIInv /\ [Next]_vars => EngineIInv'
  BY EngineInvariantIsInductive
<1>3. EngineIInv => AuditInvariant
  BY AuditFollows
<1> QED BY <1>1, <1>2, <1>3, PTL DEF Spec

\* Events stay trees, flows keep their order, dry runs do nothing outside, and
\* of opposite operators at most one holds (process_event, execute_flow).
THEOREM EngineIsKept == Spec => []EngineInvariant
<1>1. Init => EngineIInv
  BY EngineStarts
<1>2. EngineIInv /\ [Next]_vars => EngineIInv'
  BY EngineInvariantIsInductive
<1>3. EngineIInv => EngineInvariant
  BY EngineFollows
<1> QED BY <1>1, <1>2, <1>3, PTL DEF Spec

\* The test endpoint tells what the engine decides of the event as sent,
\* scripts excepted (test_rules against process_event).
THEOREM TestsPredict == Spec => []TestPredicts
<1>1. Init => EngineIInv
  BY EngineStarts
<1>2. EngineIInv /\ [Next]_vars => EngineIInv'
  BY EngineInvariantIsInductive
<1>3. EngineIInv => TestPredicts
  BY EngineFollows
<1> QED BY <1>1, <1>2, <1>3, PTL DEF Spec
=============================================================================
