------------------------ MODULE WorkflowExecutor_proofs ------------------------
(***************************************************************************)
(* For every set of definitions: the sort is correct (parents come first,  *)
(* nothing is ordered twice, and only nodes on or behind a cycle are left  *)
(* out), then the invariants of a run, and the step simulation that makes  *)
(* it an implementation of RunContract.                                    *)
(***************************************************************************)
EXTENDS WorkflowExecutor, FiniteSetTheorems, WellFoundedInduction, TLAPS

-----------------------------------------------------------------------------
(* The sort.                                                               *)

\* The inductive invariant.  in_degree counts the parents not yet ordered;
\* a node reaches zero exactly when it is queued or ordered; the queue and
\* the order hold every node at most once.
InDegreeCounts ==
  \A n \in Nodes : in_degree[n] = Cardinality(Parents(wf, n) \ Elements(order))

ZeroMeansReleased ==
  \A n \in Nodes : in_degree[n] = 0 <=> n \in Elements(queue) \cup Elements(order)

QueueNoRepeats ==
  /\ \A i, j \in 1 .. Len(queue) : queue[i] = queue[j] => i = j
  /\ Elements(queue) \cap Elements(order) = {}

SortInv ==
  /\ SortTypeOK
  /\ InDegreeCounts
  /\ ZeroMeansReleased
  /\ QueueNoRepeats
  /\ NoRepeats
  /\ ParentsFirst

\* Facts about sequences seen as enumerations.
LEMMA AppendElements ==
  ASSUME NEW S, NEW s \in Seq(S), NEW x \in S
  PROVE  Elements(Append(s, x)) = Elements(s) \cup {x}
<1>1. Append(s, x) \in Seq(S) /\ Len(Append(s, x)) = Len(s) + 1 /\ Len(s) \in Nat
  OBVIOUS
<1>2. \A i \in 1 .. Len(s) : Append(s, x)[i] = s[i]
  OBVIOUS
<1>3. Append(s, x)[Len(s) + 1] = x
  OBVIOUS
<1>4. ASSUME NEW y PROVE y \in Elements(Append(s, x)) <=> y \in Elements(s) \cup {x}
  <2>1. y \in Elements(Append(s, x)) <=> \E i \in 1 .. Len(s) + 1 : Append(s, x)[i] = y
    BY <1>1 DEF Elements
  <2>2. y \in Elements(s) <=> \E i \in 1 .. Len(s) : s[i] = y
    BY DEF Elements
  <2>3. 1 .. Len(s) + 1 = (1 .. Len(s)) \cup {Len(s) + 1}
    BY <1>1
  <2>4. QED
    BY <1>2, <1>3, <2>1, <2>2, <2>3
<1>5. QED
  BY <1>4

LEMMA ConcatElements ==
  ASSUME NEW S, NEW s \in Seq(S), NEW t \in Seq(S)
  PROVE  /\ Elements(s \o t) = Elements(s) \cup Elements(t)
         /\ s \o t \in Seq(S)
         /\ Len(s \o t) = Len(s) + Len(t)
         /\ \A i \in 1 .. Len(s) : (s \o t)[i] = s[i]
         /\ \A i \in 1 .. Len(t) : (s \o t)[Len(s) + i] = t[i]
<1>1. /\ s \o t \in Seq(S)
      /\ Len(s \o t) = Len(s) + Len(t)
      /\ Len(s) \in Nat /\ Len(t) \in Nat
  OBVIOUS
<1>2. /\ \A i \in 1 .. Len(s) : (s \o t)[i] = s[i]
      /\ \A i \in 1 .. Len(t) : (s \o t)[Len(s) + i] = t[i]
  OBVIOUS
<1>3. ASSUME NEW y PROVE y \in Elements(s \o t) <=> y \in Elements(s) \cup Elements(t)
  <2>1. y \in Elements(s \o t) <=> \E i \in 1 .. Len(s) + Len(t) : (s \o t)[i] = y
    BY <1>1 DEF Elements
  <2>2. y \in Elements(s) <=> \E i \in 1 .. Len(s) : s[i] = y
    BY DEF Elements
  <2>3. y \in Elements(t) <=> \E i \in 1 .. Len(t) : t[i] = y
    BY DEF Elements
  <2>4. \A i \in 1 .. Len(s) + Len(t) :
          i \in 1 .. Len(s) \/ \E j \in 1 .. Len(t) : i = Len(s) + j
    <3>1. SUFFICES ASSUME NEW i \in 1 .. Len(s) + Len(t), i \notin 1 .. Len(s)
                   PROVE  i - Len(s) \in 1 .. Len(t) /\ i = Len(s) + (i - Len(s))
      OBVIOUS
    <3>2. QED
      BY <1>1, <3>1
  <2>5. \A j \in 1 .. Len(t) : Len(s) + j \in 1 .. Len(s) + Len(t)
    BY <1>1
  <2>6. 1 .. Len(s) \subseteq 1 .. Len(s) + Len(t)
    BY <1>1
  <2>7. QED
    BY <1>2, <2>1, <2>2, <2>3, <2>4, <2>5, <2>6
<1>4. QED
  BY <1>1, <1>2, <1>3

LEMMA TailElements ==
  ASSUME NEW S, NEW s \in Seq(S), s # <<>>,
         \A i, j \in 1 .. Len(s) : s[i] = s[j] => i = j
  PROVE  /\ Head(s) \in S
         /\ Head(s) \in Elements(s)
         /\ Tail(s) \in Seq(S)
         /\ Elements(Tail(s)) = Elements(s) \ {Head(s)}
         /\ \A i, j \in 1 .. Len(Tail(s)) : Tail(s)[i] = Tail(s)[j] => i = j
<1>1. /\ Len(s) \in Nat \ {0} /\ Head(s) = s[1] /\ s[1] \in S
      /\ Tail(s) \in Seq(S) /\ Len(Tail(s)) = Len(s) - 1
  OBVIOUS
<1>2. \A i \in 1 .. Len(Tail(s)) : Tail(s)[i] = s[i + 1]
  OBVIOUS
<1>3. \A i \in 1 .. Len(Tail(s)) : i + 1 \in 1 .. Len(s) /\ i + 1 # 1
  BY <1>1
<1>4. \A i \in 1 .. Len(s) : i = 1 \/ i - 1 \in 1 .. Len(Tail(s))
  BY <1>1
<1>5. ASSUME NEW y PROVE y \in Elements(Tail(s)) <=> y \in Elements(s) \ {Head(s)}
  <2>1. CASE y \in Elements(Tail(s))
    <3>1. PICK i \in 1 .. Len(Tail(s)) : y = Tail(s)[i]
      BY <2>1 DEF Elements
    <3>2. y = s[i + 1] /\ i + 1 \in 1 .. Len(s) /\ i + 1 # 1 /\ 1 \in 1 .. Len(s)
      BY <1>1, <1>2, <1>3, <3>1
    <3>3. s[i + 1] # s[1]
      BY <3>2
    <3>4. QED
      BY <1>1, <3>2, <3>3 DEF Elements
  <2>2. CASE y \in Elements(s) \ {Head(s)}
    <3>1. PICK i \in 1 .. Len(s) : y = s[i]
      BY <2>2 DEF Elements
    <3>2. i # 1
      BY <1>1, <2>2, <3>1
    <3>3. i - 1 \in 1 .. Len(Tail(s)) /\ (i - 1) + 1 = i
      BY <1>4, <3>2
    <3>4. y = Tail(s)[i - 1]
      BY <1>2, <3>1, <3>3
    <3>5. QED
      BY <2>2, <3>3, <3>4 DEF Elements
  <2>3. QED
    BY <2>1, <2>2
<1>6. Head(s) \in Elements(s)
  BY <1>1 DEF Elements
<1>7. ASSUME NEW i \in 1 .. Len(Tail(s)), NEW j \in 1 .. Len(Tail(s)), Tail(s)[i] = Tail(s)[j]
      PROVE  i = j
  <2>1. s[i + 1] = s[j + 1]
    BY <1>2, <1>7
  <2>2. i + 1 = j + 1
    BY <1>3, <2>1
  <2>3. QED
    BY <2>2
<1>8. QED
  BY <1>1, <1>5, <1>6, <1>7

LEMMA ListingElements ==
  ASSUME NEW T, NEW S \in SUBSET T, IsFiniteSet(S), NEW q \in Listings(S)
  PROVE  /\ q \in Seq(T)
         /\ Elements(q) = S
         /\ \A i, j \in 1 .. Len(q) : q[i] = q[j] => i = j
<1>1. Cardinality(S) \in Nat
  BY FS_CardinalityType
<1>2. q \in [1 .. Cardinality(S) -> S]
  BY DEF Listings
<1>3. q \in Seq(T) /\ Len(q) = Cardinality(S)
  BY <1>1, <1>2
<1>4. Elements(q) = S
  BY <1>2, <1>3 DEF Elements, Listings
<1>5. QED
  BY <1>3, <1>4 DEF Listings

\* The loop starts with in-degrees that count every parent and with the
\* nodes that have none.
LEMMA SortInvInit ==
  ASSUME wf \in Workflows, SortInit
  PROVE  SortInv
<1> DEFINE roots == { n \in Nodes : Parents(wf, n) = {} }
<1>1. IsFiniteSet(Nodes)
  BY WorkflowsAssumption DEF IsDefinition, Nodes
<1>2. \A n \in Nodes : IsFiniteSet(Parents(wf, n)) /\ Cardinality(Parents(wf, n)) \in Nat
  <2>1. SUFFICES ASSUME NEW n \in Nodes
                 PROVE  IsFiniteSet(Parents(wf, n)) /\ Cardinality(Parents(wf, n)) \in Nat
    OBVIOUS
  <2>2. Parents(wf, n) \in SUBSET Nodes
    BY DEF Parents, Nodes
  <2>3. IsFiniteSet(Parents(wf, n))
    BY <1>1, <2>2, FS_Subset
  <2>4. QED
    BY <2>3, FS_CardinalityType
<1>3. roots \in SUBSET Nodes /\ IsFiniteSet(roots)
  BY <1>1, FS_Subset
<1>4. queue \in Listings(roots) /\ order = <<>>
  BY DEF SortInit
<1>5. /\ queue \in Seq(Nodes)
      /\ Elements(queue) = roots
      /\ \A i, j \in 1 .. Len(queue) : queue[i] = queue[j] => i = j
  BY <1>3, <1>4, ListingElements
<1>6. Elements(order) = {} /\ order \in Seq(Nodes) /\ Len(order) = 0
  BY <1>4 DEF Elements
<1>7. \A n \in Nodes : Parents(wf, n) \ Elements(order) = Parents(wf, n)
  BY <1>6
<1>8. in_degree \in [Nodes -> Nat] /\ \A n \in Nodes : in_degree[n] = Cardinality(Parents(wf, n))
  BY <1>2 DEF SortInit
<1>9. \A n \in Nodes : in_degree[n] = 0 <=> Parents(wf, n) = {}
  BY <1>2, <1>8, FS_EmptySet
<1>10. ZeroMeansReleased
  BY <1>5, <1>6, <1>9 DEF ZeroMeansReleased
<1>11. InDegreeCounts
  BY <1>7, <1>8 DEF InDegreeCounts
<1>12. NoRepeats /\ ParentsFirst
  BY <1>6 DEF NoRepeats, ParentsFirst
<1>13. QED
  BY WorkflowsAssumption, <1>5, <1>6, <1>8, <1>10, <1>11, <1>12 DEF SortInv, SortTypeOK, QueueNoRepeats

\* One dequeue preserves the invariant: the dequeued node has no parent left
\* to wait for, and the nodes it releases are new to both sequences.
LEMMA SortInvStep ==
  ASSUME SortInv, PopNode
  PROVE  SortInv'
<1> DEFINE nid == Head(queue)
           rel == Released(nid)
<1> USE DEF SortInv
<1>1. wf' = wf /\ Nodes' = Nodes /\ \A n : Parents(wf, n)' = Parents(wf, n)
  BY DEF PopNode, Nodes, Parents
<1>2. /\ nid \in Nodes /\ nid \in Elements(queue)
      /\ Tail(queue) \in Seq(Nodes)
      /\ Elements(Tail(queue)) = Elements(queue) \ {nid}
      /\ \A i, j \in 1 .. Len(Tail(queue)) : Tail(queue)[i] = Tail(queue)[j] => i = j
  BY TailElements DEF SortTypeOK, QueueNoRepeats, PopNode, NodesQueued
<1>3. /\ order' = Append(order, nid)
      /\ order' \in Seq(Nodes)
      /\ Elements(order)' = Elements(order) \cup {nid}
      /\ Elements(order') = Elements(order) \cup {nid}
  <2>1. order' = Append(order, nid)
    BY DEF PopNode
  <2>2. Elements(order') = Elements(order) \cup {nid}
    BY <1>2, <2>1, AppendElements DEF SortTypeOK
  <2>3. Elements(order)' = Elements(order')
    BY DEF Elements
  <2>4. order' \in Seq(Nodes)
    BY <1>2, <2>1 DEF SortTypeOK
  <2>5. QED
    BY <2>1, <2>2, <2>3, <2>4
<1>4. /\ in_degree[nid] = 0
      /\ nid \notin Elements(order)
  BY <1>2 DEF ZeroMeansReleased, QueueNoRepeats
<1>5. IsFiniteSet(Nodes)
  BY DEF IsDefinition, Nodes, SortTypeOK
<1>6. \A n \in Nodes : IsFiniteSet(Parents(wf, n) \ Elements(order))
  <2>1. SUFFICES ASSUME NEW n \in Nodes PROVE IsFiniteSet(Parents(wf, n) \ Elements(order))
    OBVIOUS
  <2>2. Parents(wf, n) \ Elements(order) \in SUBSET Nodes
    BY DEF Parents, Nodes
  <2>3. QED
    BY <1>5, <2>2, FS_Subset
<1>7. Parents(wf, nid) \subseteq Elements(order)
  <2>1. Cardinality(Parents(wf, nid) \ Elements(order)) = 0
    BY <1>2, <1>4 DEF InDegreeCounts
  <2>2. Parents(wf, nid) \ Elements(order) = {}
    BY <1>2, <1>6, <2>1, FS_EmptySet
  <2>3. QED
    BY <2>2
<1>8. \A k \in Nodes : k \in Children(wf, nid) <=> nid \in Parents(wf, k)
  BY <1>2 DEF Children, Parents, Nodes
<1>9. rel \in SUBSET Nodes /\ IsFiniteSet(rel)
  <2>1. rel \in SUBSET Nodes
    BY DEF Released, Children, Nodes
  <2>2. QED
    BY <1>5, <2>1, FS_Subset
<1>10. PICK q \in Listings(rel) : queue' = Tail(queue) \o q
  BY DEF PopNode
<1>11. /\ q \in Seq(Nodes) /\ Elements(q) = rel
       /\ \A i, j \in 1 .. Len(q) : q[i] = q[j] => i = j
  BY <1>9, ListingElements
<1>12. /\ queue' \in Seq(Nodes)
       /\ Elements(queue') = (Elements(queue) \ {nid}) \cup rel
       /\ Len(queue') = Len(Tail(queue)) + Len(q)
       /\ \A i \in 1 .. Len(Tail(queue)) : queue'[i] = Tail(queue)[i]
       /\ \A i \in 1 .. Len(q) : queue'[Len(Tail(queue)) + i] = q[i]
  <2>1. Tail(queue) \in Seq(Nodes) /\ q \in Seq(Nodes) /\ queue' = Tail(queue) \o q
    BY <1>2, <1>10, <1>11
  <2>2. Elements(Tail(queue) \o q) = Elements(Tail(queue)) \cup Elements(q)
    BY <2>1, ConcatElements
  <2>3. QED
    BY <1>2, <1>11, <2>1, <2>2, ConcatElements
<1>13. Elements(queue)' = Elements(queue')
  BY DEF Elements
<1>14. \A k \in Nodes : in_degree'[k] = IF nid \in Parents(wf, k) THEN in_degree[k] - 1 ELSE in_degree[k]
  BY <1>8 DEF PopNode, Lowered
<1>15. in_degree' = [k \in Nodes |-> in_degree'[k]]
  BY DEF PopNode, Lowered
<1>16. \A k \in Nodes : in_degree'[k] = Cardinality(Parents(wf, k) \ (Elements(order) \cup {nid}))
  <2>1. SUFFICES ASSUME NEW k \in Nodes
                 PROVE  in_degree'[k] = Cardinality(Parents(wf, k) \ (Elements(order) \cup {nid}))
    OBVIOUS
  <2>2. DEFINE W == Parents(wf, k) \ Elements(order)
  <2>3. W \ {nid} = Parents(wf, k) \ (Elements(order) \cup {nid})
    OBVIOUS
  <2>4. IsFiniteSet(W) /\ in_degree[k] = Cardinality(W)
    BY <1>6 DEF InDegreeCounts
  <2>5. nid \in W <=> nid \in Parents(wf, k)
    BY <1>4
  <2>6. Cardinality(W \ {nid}) = IF nid \in W THEN Cardinality(W) - 1 ELSE Cardinality(W)
    <3> HIDE DEF W
    <3>1. QED
      BY <2>4, FS_RemoveElement
  <2>7. QED
    BY <1>14, <2>3, <2>4, <2>5, <2>6
<1>17. InDegreeCounts'
  BY <1>1, <1>3, <1>16 DEF InDegreeCounts
<1>18. \A k \in Nodes : in_degree'[k] \in Nat
  <2>1. SUFFICES ASSUME NEW k \in Nodes PROVE in_degree'[k] \in Nat
    OBVIOUS
  <2>2. Parents(wf, k) \ (Elements(order) \cup {nid}) \in SUBSET Nodes
    BY DEF Parents, Nodes
  <2>3. IsFiniteSet(Parents(wf, k) \ (Elements(order) \cup {nid}))
    BY <1>5, <2>2, FS_Subset
  <2>4. QED
    BY <1>16, <2>3, FS_CardinalityType
<1>19. SortTypeOK'
  BY <1>1, <1>3, <1>12, <1>15, <1>18 DEF SortTypeOK
<1>20. rel \cap Elements(queue) = {} /\ rel \cap Elements(order) = {}
  <2>1. \A k \in rel : k \in Nodes /\ in_degree[k] = 1
    BY <1>9 DEF Released
  <2>2. QED
    BY <2>1 DEF ZeroMeansReleased
<1>21. \A k \in Nodes : in_degree'[k] = 0 <=> in_degree[k] = 0 \/ k \in rel
  <2>1. SUFFICES ASSUME NEW k \in Nodes
                 PROVE  in_degree'[k] = 0 <=> in_degree[k] = 0 \/ k \in rel
    OBVIOUS
  <2>2. in_degree[k] \in Nat /\ in_degree'[k] \in Nat
    BY <1>18 DEF SortTypeOK
  <2>3. k \in rel <=> nid \in Parents(wf, k) /\ in_degree[k] = 1
    BY <1>8 DEF Released, Children
  <2>4. QED
    BY <1>14, <2>2, <2>3
<1>22. ZeroMeansReleased'
  BY <1>1, <1>2, <1>3, <1>12, <1>13, <1>21 DEF ZeroMeansReleased
<1>23. Elements(queue') \cap Elements(order') = {}
  BY <1>2, <1>3, <1>12, <1>20 DEF QueueNoRepeats
<1>24. ASSUME NEW i \in 1 .. Len(queue'), NEW j \in 1 .. Len(queue'), queue'[i] = queue'[j]
       PROVE  i = j
  <2> DEFINE m == Len(Tail(queue))
  <2>1. m \in Nat /\ Len(q) \in Nat
    BY <1>2, <1>11
  <2>2. \A x \in 1 .. Len(queue') : x \in 1 .. m \/ (x - m \in 1 .. Len(q) /\ m + (x - m) = x)
    BY <1>12, <2>1
  <2>3. \A x \in 1 .. m : queue'[x] = Tail(queue)[x] /\ queue'[x] \in Elements(queue)
    BY <1>2, <1>12 DEF Elements
  <2>4. \A x \in 1 .. Len(q) : queue'[m + x] = q[x] /\ queue'[m + x] \in rel
    BY <1>11, <1>12 DEF Elements
  <2>10. \A x \in 1 .. Len(queue') : x \notin 1 .. m => queue'[x] \in rel
    BY <2>2, <2>4
  <2>5. CASE i \in 1 .. m /\ j \in 1 .. m
    BY <1>2, <1>24, <2>3, <2>5
  <2>6. CASE i \in 1 .. m /\ j \notin 1 .. m
    BY <1>20, <1>24, <2>3, <2>6, <2>10
  <2>7. CASE i \notin 1 .. m /\ j \in 1 .. m
    BY <1>20, <1>24, <2>3, <2>7, <2>10
  <2>8. CASE i \notin 1 .. m /\ j \notin 1 .. m
    <3>1. i - m \in 1 .. Len(q) /\ j - m \in 1 .. Len(q) /\ q[i - m] = q[j - m]
      BY <1>24, <2>2, <2>4, <2>8
    <3>2. i - m = j - m
      BY <1>11, <3>1
    <3>3. QED
      BY <2>1, <3>2
  <2>9. QED
    BY <2>5, <2>6, <2>7, <2>8
<1>25. QueueNoRepeats'
  BY <1>3, <1>13, <1>23, <1>24 DEF QueueNoRepeats
<1>26. /\ Len(order') = Len(order) + 1 /\ Len(order) \in Nat
       /\ order'[Len(order) + 1] = nid
       /\ \A i \in 1 .. Len(order) : order'[i] = order[i] /\ order[i] \in Elements(order)
  BY <1>2, <1>3 DEF SortTypeOK, Elements
<1>27. \A i \in 1 .. Len(order') : i \in 1 .. Len(order) \/ i = Len(order) + 1
  BY <1>26
<1>28. NoRepeats'
  BY <1>4, <1>26, <1>27 DEF NoRepeats
<1>29. ParentsFirst'
  <2>1. SUFFICES ASSUME NEW i \in 1 .. Len(order'), NEW p \in Parents(wf, order'[i])
                 PROVE  \E j \in 1 .. i - 1 : order'[j] = p
    BY <1>1 DEF ParentsFirst
  <2>2. CASE i \in 1 .. Len(order)
    <3>1. PICK j \in 1 .. i - 1 : order[j] = p
      BY <1>26, <2>2 DEF ParentsFirst
    <3>2. j \in 1 .. Len(order)
      BY <1>26, <2>2
    <3>3. QED
      BY <1>26, <3>1, <3>2
  <2>3. CASE i = Len(order) + 1
    <3>1. p \in Elements(order)
      BY <1>7, <1>26, <2>3
    <3>2. PICK j \in 1 .. Len(order) : order[j] = p
      BY <3>1 DEF Elements
    <3>3. j \in 1 .. i - 1 /\ order'[j] = p
      BY <1>26, <2>3, <3>2
    <3>4. QED
      BY <3>3
  <2>4. QED
    BY <1>27, <2>2, <2>3
<1>30. QED
  BY <1>17, <1>19, <1>22, <1>25, <1>28, <1>29

LEMMA SortInvKept ==
  ASSUME SortInv, UNCHANGED sortVars
  PROVE  SortInv'
<1>1. /\ wf' = wf /\ in_degree' = in_degree /\ queue' = queue /\ order' = order
      /\ Nodes' = Nodes
  BY DEF sortVars, Nodes
<1>2. /\ \A n : Parents(wf, n)' = Parents(wf, n)
      /\ Elements(queue)' = Elements(queue)
      /\ Elements(order)' = Elements(order)
  BY <1>1 DEF Parents, Elements
<1>3. SortTypeOK' /\ InDegreeCounts' /\ ZeroMeansReleased'
  BY <1>1, <1>2 DEF SortInv, SortTypeOK, InDegreeCounts, ZeroMeansReleased
<1>4. QueueNoRepeats' /\ NoRepeats'
  BY <1>1, <1>2 DEF SortInv, QueueNoRepeats, NoRepeats
<1>5. ParentsFirst'
  <2>1. ParentsFirst  BY DEF SortInv
  <2> QED  BY <1>1, <2>1 DEF ParentsFirst, Parents
<1>6. QED
  BY <1>3, <1>4, <1>5 DEF SortInv

\* What the invariant says of a finished sort.
LEMMA SortInvComplete ==
  ASSUME SortInv
  PROVE  OnlyCyclesLeftOut
<1> USE DEF SortInv
<1>1. SUFFICES ASSUME Sorted, NEW n \in Nodes \ Elements(order)
               PROVE  Parents(wf, n) \ Elements(order) # {}
  BY DEF OnlyCyclesLeftOut
<1>2. Elements(queue) = {}
  BY <1>1 DEF Sorted, Elements
<1>3. in_degree[n] # 0
  BY <1>1, <1>2 DEF ZeroMeansReleased
<1>4. QED
  BY <1>3, FS_EmptySet DEF InDegreeCounts

\* A nonempty set of natural numbers has a least one.
LEMMA LeastNat ==
  ASSUME NEW T \in SUBSET Nat, T # {}
  PROVE  \E i \in T : \A j \in T : i <= j
<1> DEFINE R == OpToRel(<, Nat)
<1>1. IsWellFoundedOn(R, Nat)
  BY NatLessThanWellFounded
<1>2. \A i, j \in Nat : i < j => <<i, j>> \in R
  BY DEF OpToRel
<1> HIDE DEF R
<1>3. \E i \in T : \A j \in T : <<j, i>> \notin R
  BY <1>1, WFMin
<1>4. PICK i \in T : \A j \in T : <<j, i>> \notin R
  BY <1>3
<1>5. ASSUME NEW j \in T PROVE i <= j
  <2>1. i \in Nat /\ j \in Nat /\ ~(j < i)
    BY <1>2, <1>4
  <2>2. QED
    BY <2>1
<1>6. QED
  BY <1>4, <1>5

\* Of a set that a cycle holds back, the first member in the order would have
\* a parent in the set before it.
LEMMA OrderedIsAcyclic ==
  ASSUME SortInv, NEW n \in Elements(order)
  PROVE  ~BehindCycle(n)
<1>1. SUFFICES ASSUME NEW S \in SUBSET Nodes, n \in S,
                      \A m \in S : \E p \in S : <<p, m>> \in wf.edges
               PROVE  FALSE
  BY DEF BehindCycle
<1> DEFINE T == { i \in 1 .. Len(order) : order[i] \in S }
<1>2. Len(order) \in Nat /\ T \in SUBSET Nat /\ T # {}
  BY <1>1 DEF SortInv, SortTypeOK, Elements
<1>3. PICK i \in T : \A j \in T : i <= j
  BY <1>2, LeastNat
<1>4. PICK p \in S : <<p, order[i]>> \in wf.edges
  BY <1>1, <1>3
<1>5. p \in Parents(wf, order[i])
  BY <1>1, <1>4 DEF Parents, Nodes
<1>6. PICK j \in 1 .. i - 1 : order[j] = p
  BY <1>3, <1>5 DEF SortInv, ParentsFirst
<1>7. j \in T /\ j < i
  BY <1>2, <1>3, <1>4, <1>6
<1>8. QED
  BY <1>2, <1>3, <1>7

\* The nodes that a finished sort left out hold each other back.
LEMMA LeftOutIsCyclic ==
  ASSUME SortInv, Sorted, NEW n \in Nodes \ Elements(order)
  PROVE  BehindCycle(n)
<1> DEFINE S == Nodes \ Elements(order)
<1>1. ASSUME NEW m \in S PROVE \E p \in S : <<p, m>> \in wf.edges
  <2>1. Parents(wf, m) \ Elements(order) # {}
    BY <1>1, SortInvComplete DEF OnlyCyclesLeftOut
  <2>2. QED
    BY <2>1 DEF Parents, Nodes
<1>2. QED
  BY <1>1 DEF BehindCycle

LEMMA SortInvAcyclic == SortInv => OrdersTheAcyclicPart
BY OrderedIsAcyclic, LeftOutIsCyclic DEF OrdersTheAcyclicPart

\* For every finite definition, cyclic or malformed, whatever the order of
\* its lists: the executor visits parents first, visits no node twice, and
\* visits exactly the nodes that no cycle holds back.
THEOREM SortCorrect ==
  SortSpec => [](SortTypeOK /\ ParentsFirst /\ NoRepeats /\ OnlyCyclesLeftOut /\ OrdersTheAcyclicPart)
<1>1. SortStart => SortInv
  BY SortInvInit DEF SortStart
<1>2. SortInv /\ [PopNode]_sortVars => SortInv'
  <2>1. SUFFICES ASSUME SortInv, [PopNode]_sortVars PROVE SortInv'
    OBVIOUS
  <2>2. CASE PopNode
    BY <2>1, <2>2, SortInvStep
  <2>3. CASE UNCHANGED sortVars
    BY <2>1, <2>3, SortInvKept
  <2>4. QED
    BY <2>1, <2>2, <2>3
<1>3. SortInv => SortTypeOK /\ ParentsFirst /\ NoRepeats /\ OnlyCyclesLeftOut /\ OrdersTheAcyclicPart
  BY SortInvComplete, SortInvAcyclic DEF SortInv
<1>4. QED
  BY <1>1, <1>2, <1>3, PTL DEF SortSpec

-----------------------------------------------------------------------------
(* The run.                                                                *)

AtSort == { "load", "mark_running", "sort" }
Executing == { "started", "email", "waiting" }
AfterDecision == { "record", "mark_failed", "notify_failed", "end" }

\* Where the loop is, for each label.
LoopPosition ==
  /\ pc \in AtSort => pos = 1
  /\ pc \in Executing \cup {"record"} => pos <= Len(order)
  /\ pc = "notify" => pos > Len(order)
  /\ pc \in Executing \cup {"loop", "record", "notify"} => Sorted

\* The decided nodes are those before pos in the order, and the one at pos
\* once the loop has decided it.
DecidedSoFar ==
  /\ \A i \in 1 .. pos - 1 : IsDecided(order[i])
  /\ \A n \in Nodes : IsDecided(n) =>
       \E i \in 1 .. Len(order) : order[i] = n /\ (i < pos \/ (i = pos /\ pc \in AfterDecision))
  /\ pc = "record" => IsDecided(node)

\* The loop never goes on past a fatal error.
NoHiddenFatal ==
  \A n \in Nodes : node_status[n] = "error" /\ Fatal(wf, n) =>
    pc \in AfterDecision /\ (pc = "record" => n = node)

\* Only the node the loop is executing has a row that says running.
OneRunning ==
  \A n \in Nodes : node_row[n] = "running" => n = node /\ pc \in Executing \cup {"record"}

DenialsKept ==
  /\ DeniedNeverRuns
  /\ pc \in {"email", "waiting"} => node \notin wf.denied

\* What StartNode and RequestApproval have checked stays true until the
\* node is decided.
Started ==
  /\ pc \in Executing => wf.type[node] # "trigger" /\ ~Blocked
  /\ pc \in {"email", "waiting"} => wf.type[node] = "wait_approval"

Returned == result # None <=> pc = "end"

\* The row of a decided node follows its status once the loop has recorded it.
RowsRecorded ==
  \A n \in Nodes : IsDecided(n) /\ wf.type[n] # "trigger" =>
    node_row[n] = RowStatusOf(node_status[n]) \/ (pc = "record" /\ n = node)

\* What holds from the moment the run marks itself completed, unless a failed
\* notification takes it to mark_failed.
Completing ==
  pc = "notify" \/ result = "completed" =>
    /\ exec_row = "completed"
    /\ pos > Len(order) /\ Sorted
    /\ \A n \in Nodes : ~(node_status[n] = "error" /\ Fatal(wf, n))

RunInv ==
  /\ SortInv
  /\ TypeOK
  /\ LoopPosition
  /\ DecidedSoFar
  /\ NoHiddenFatal
  /\ OneRunning
  /\ DenialsKept
  /\ Returned
  /\ RowsRecorded
  /\ Completing
  /\ Started

-----------------------------------------------------------------------------

\* What a run may assume of its definition.
LEMMA Definition ==
  ASSUME IsDefinition(wf)
  PROVE  /\ wf.type \in [Nodes -> NodeTypes]
         /\ wf.denied \subseteq Nodes
         /\ \A n \in Nodes : wf.cases[n] \subseteq Labels
         /\ \A n \in Nodes : Outcomes(wf, n) \subseteq Statuses
<1>1. /\ wf.type \in [Nodes -> NodeTypes]
      /\ wf.denied \subseteq Nodes
      /\ \A n \in Nodes : wf.cases[n] \subseteq Labels
  BY DEF IsDefinition, Nodes
<1>2. ASSUME NEW n \in Nodes PROVE Outcomes(wf, n) \subseteq Statuses
  <2>1. { SwitchStatus(l) : l \in wf.cases[n] } \subseteq SwitchStatuses
    BY <1>1 DEF SwitchStatuses
  <2>2. QED
    BY <2>1 DEF Outcomes, Statuses
<1>3. QED
  BY <1>1, <1>2

\* The node at a position of the loop is a node of the definition, and the
\* labels of the loop are distinct strings.
LEMMA NodeAtPos ==
  ASSUME TypeOK, pos <= Len(order)
  PROVE  node \in Nodes
BY DEF TypeOK, SortTypeOK, node

LEMMA TypeInit == Init => TypeOK
<1> SUFFICES ASSUME Init PROVE TypeOK
  OBVIOUS
<1>1. SortInv
  BY SortInvInit DEF Init, SortStart
<1>2. Len(order) = 0
  BY DEF Init, SortStart, SortInit
<1>3. None \notin Nodes
  BY NoneAssumption DEF Init, SortStart, Nodes
<1>4. QED
  BY <1>1, <1>2, <1>3 DEF SortInv, Init, TypeOK, Results, ExecStatuses, NodeRowStatuses, None

LEMMA RunInvInit == Init => RunInv
<1> SUFFICES ASSUME Init PROVE RunInv
  OBVIOUS
<1>1. SortInv /\ TypeOK
  BY SortInvInit, TypeInit DEF Init, SortStart
<1>2. LoopPosition /\ Returned
  BY DEF Init, LoopPosition, Returned, AtSort, Executing
<1>3. \A n \in Nodes : ~IsDecided(n) /\ node_status[n] # "error" /\ node_row[n] = None
  BY DEF Init, IsDecided, Undecided
<1>4. DecidedSoFar /\ NoHiddenFatal /\ OneRunning
  BY <1>3 DEF Init, DecidedSoFar, NoHiddenFatal, OneRunning, None
<1>5. DenialsKept
  BY <1>1, Definition DEF Init, DenialsKept, DeniedNeverRuns, TypeOK, SortTypeOK, Nodes
<1>6. RowsRecorded /\ Completing
  BY <1>3 DEF Init, RowsRecorded, Completing, None
<1>7. Started
  BY DEF Init, Started, Executing
<1>8. QED
  BY <1>1, <1>2, <1>4, <1>5, <1>6, <1>7 DEF RunInv

-----------------------------------------------------------------------------
(* Types.                                                                  *)

LEMMA SortTypesKept ==
  ASSUME SortInv, TypeOK, [Next]_vars
  PROVE  /\ SortInv'
         /\ wf' = wf /\ Nodes' = Nodes
         /\ pc # "sort" => order' = order /\ queue' = queue
         /\ Len(order) \in Nat /\ Len(order') \in Nat
         /\ \A i \in 1 .. Len(order) : order'[i] = order[i]
         /\ Len(order') >= Len(order)
<1>1. CASE UNCHANGED sortVars
  BY <1>1, SortInvKept DEF sortVars, Nodes, TypeOK, SortTypeOK
<1>2. CASE SortStep
  <2>1. SortInv' /\ wf' = wf /\ Nodes' = Nodes
    BY <1>2, SortInvStep DEF SortStep, PopNode, Nodes
  <2>2. order \in Seq(Nodes) /\ queue \in Seq(Nodes) /\ Head(queue) \in Nodes
    BY <1>2 DEF TypeOK, SortTypeOK, SortStep, PopNode, NodesQueued
  <2>3. order' = Append(order, Head(queue)) /\ pc = "sort"
    BY <1>2 DEF SortStep, PopNode
  <2>4. QED
    BY <2>1, <2>2, <2>3
<1>3. QED
  BY <1>1, <1>2 DEF Next, Step, vars, LoadDefinition, MarkRunning, StartLoop, PassTrigger,
    SkipNode, StartNode, DenyNode, RouteNode, WorkNode, RequestApproval, SendApprovalEmail,
    ResumeApproval, TimeOutApproval, RecordNode, MarkCompleted, NotifyCompletion, MarkFailed,
    NotifyFailure, Approve

LEMMA TypeStep ==
  ASSUME RunInv, [Next]_vars
  PROVE  TypeOK'
<1> USE DEF RunInv, Goto, Return, UpdateExecution, Results, ExecStatuses, NodeRowStatuses
<1>1. /\ TypeOK /\ SortTypeOK' /\ wf' = wf /\ Nodes' = Nodes
      /\ pos \in 1 .. Len(order') + 1
      /\ Len(order) \in Nat /\ pc # "sort" => order' = order
  BY SortTypesKept DEF SortInv, TypeOK
<1>2. /\ pc \in Executing \cup {"record"} => pos <= Len(order)
      /\ pos <= Len(order) => node \in Nodes
  BY NodeAtPos DEF LoopPosition
<1>3. CASE LoadDefinition
  BY <1>1, <1>3 DEF TypeOK, LoadDefinition, rowVars
<1>4. CASE MarkRunning
  BY <1>1, <1>4 DEF TypeOK, MarkRunning
<1>5. CASE SortStep
  BY <1>1, <1>5 DEF TypeOK, SortStep, rowVars, runVars
<1>6. CASE StartLoop
  BY <1>1, <1>6 DEF TypeOK, StartLoop, rowVars
<1>7. CASE PassTrigger
  BY <1>1, <1>2, <1>7 DEF TypeOK, PassTrigger, AtNode, NextPos, Statuses, rowVars
<1>8. CASE SkipNode
  BY <1>1, <1>8 DEF TypeOK, SkipNode, Statuses, rowVars
<1>9. CASE StartNode
  BY <1>1, <1>9 DEF TypeOK, StartNode
<1>10. CASE DenyNode
  BY <1>1, <1>10 DEF TypeOK, DenyNode, Decided, Statuses, rowVars
<1>11. CASE RouteNode
  <2>1. Outcomes(wf, node) \subseteq Statuses
    BY <1>1, <1>2, <1>11, Definition DEF RouteNode, Executing, SortTypeOK, TypeOK
  <2>2. QED
    BY <1>1, <1>11, <2>1 DEF TypeOK, RouteNode, Decided, rowVars
<1>12. CASE WorkNode
  BY <1>1, <1>2, <1>12 DEF TypeOK, WorkNode, Decided, Statuses, Executing, rowVars
<1>13. CASE RequestApproval
  BY <1>1, <1>13 DEF TypeOK, RequestApproval, Decided, Statuses
<1>14. CASE SendApprovalEmail
  BY <1>1, <1>14 DEF TypeOK, SendApprovalEmail, Decided, Statuses, rowVars
<1>15. CASE ResumeApproval
  BY <1>1, <1>2, <1>15 DEF TypeOK, ResumeApproval, Decided, ApprovalBranch, Statuses, Executing, rowVars
<1>16. CASE TimeOutApproval
  BY <1>1, <1>2, <1>16 DEF TypeOK, TimeOutApproval, Decided, Statuses, Executing, rowVars
<1>17. CASE RecordNode
  BY <1>1, <1>2, <1>17 DEF TypeOK, RecordNode, Recorded, RowStatusOf, NextPos
<1>18. CASE MarkCompleted
  BY <1>1, <1>18 DEF TypeOK, MarkCompleted
<1>19. CASE NotifyCompletion
  BY <1>1, <1>19 DEF TypeOK, NotifyCompletion, rowVars
<1>20. CASE MarkFailed
  BY <1>1, <1>20 DEF TypeOK, MarkFailed
<1>21. CASE NotifyFailure
  BY <1>1, <1>21 DEF TypeOK, NotifyFailure, rowVars
<1>22. ASSUME NEW action \in {"approved", "rejected"}, Approve(action) PROVE TypeOK'
  BY <1>1, <1>22 DEF TypeOK, Approve
<1>23. CASE UNCHANGED vars
  BY <1>1, <1>23 DEF TypeOK, vars, runVars, rowVars
<1>24. QED
  BY <1>3, <1>4, <1>5, <1>6, <1>7, <1>8, <1>9, <1>10, <1>11, <1>12, <1>13, <1>14, <1>15,
     <1>16, <1>17, <1>18, <1>19, <1>20, <1>21, <1>22, <1>23 DEF Next, Step

-----------------------------------------------------------------------------
(* The loop.                                                               *)

LEMMA UndecidedIsNoStatus == Undecided \notin Statuses
BY SwitchStatusesAssumption DEF Statuses, Undecided

\* Deciding the node at pos keeps DecidedSoFar, whether the loop records it
\* next or goes on at once.
LEMMA DecidedMore ==
  ASSUME RunInv, TypeOK', wf' = wf, order' = order,
         pos <= Len(order), pc \notin AfterDecision,
         NEW s \in Statuses, node_status' = [node_status EXCEPT ![node] = s],
         \/ pos' = pos /\ pc' = "record"
         \/ pos' = pos + 1 /\ pc' = "loop"
  PROVE  DecidedSoFar'
<1>1. /\ Nodes' = Nodes /\ node \in Nodes /\ node = order[pos] /\ Len(order) \in Nat
      /\ pos \in 1 .. Len(order)
      /\ \A i \in 1 .. Len(order) : order[i] \in Nodes
      /\ node_status \in [Nodes -> Statuses \cup {Undecided}]
  BY NodeAtPos DEF RunInv, TypeOK, SortTypeOK, Nodes, node
<1>2. \A n \in Nodes : IsDecided(n)' <=> IsDecided(n) \/ n = node
  BY <1>1, UndecidedIsNoStatus DEF IsDecided
<1>3. /\ \A i \in 1 .. pos - 1 : IsDecided(order[i])
      /\ \A n \in Nodes : IsDecided(n) => \E i \in 1 .. Len(order) : order[i] = n /\ i < pos
  BY <1>1 DEF RunInv, DecidedSoFar
<1>4. \A i \in 1 .. pos' - 1 : IsDecided(order[i])'
  BY <1>1, <1>2, <1>3
<1>5. ASSUME NEW n \in Nodes, IsDecided(n)'
      PROVE  \E i \in 1 .. Len(order) :
               order[i] = n /\ (i < pos' \/ (i = pos' /\ pc' \in AfterDecision))
  <2>1. CASE n = node
    <3>1. order[pos] = n /\ (pos < pos' \/ (pos = pos' /\ pc' \in AfterDecision))
      BY <1>1, <2>1 DEF AfterDecision
    <3>2. QED
      BY <1>1, <3>1
  <2>2. CASE n # node
    <3>1. PICK i \in 1 .. Len(order) : order[i] = n /\ i < pos
      BY <1>2, <1>3, <1>5, <2>2
    <3>2. i < pos'
      BY <1>1, <3>1
    <3>3. QED
      BY <3>1, <3>2
  <2>3. QED
    BY <2>1, <2>2
<1>6. pc' = "record" => IsDecided(node)'
  BY <1>1, <1>2 DEF node
<1>7. QED
  BY <1>1, <1>4, <1>5, <1>6 DEF DecidedSoFar

LEMMA LoopStep ==
  ASSUME RunInv, [Next]_vars
  PROVE  LoopPosition' /\ DecidedSoFar' /\ NoHiddenFatal'
<1> USE DEF RunInv, Goto, Return, UpdateExecution, AtSort, Executing, AfterDecision, IsDecided
<1>1. /\ TypeOK' /\ wf' = wf /\ Nodes' = Nodes
      /\ Len(order) \in Nat /\ Len(order') \in Nat
      /\ pc # "sort" => order' = order /\ queue' = queue
      /\ pos \in 1 .. Len(order) + 1 /\ order \in Seq(Nodes)
      /\ node_status \in [Nodes -> Statuses \cup {Undecided}]
  BY SortTypesKept, TypeStep DEF SortInv, TypeOK, SortTypeOK
<1>2. /\ pos <= Len(order) => node \in Nodes
      /\ \A i \in 1 .. Len(order) : order[i] \in Nodes
      /\ \A i, j \in 1 .. Len(order) : order[i] = order[j] => i = j
      /\ pc # "sort" /\ pos' = pos => node' = node
  BY <1>1, NodeAtPos DEF SortInv, NoRepeats, node
<1>3. \A n \in Nodes : Fatal(wf, n)' = Fatal(wf, n)
  BY <1>1 DEF Fatal, HasErrorEdges, Children
<1> USE <1>1, <1>2, <1>3
<1>4. CASE LoadDefinition
  <2>1. LoopPosition'
    BY <1>4 DEF LoopPosition, LoadDefinition, Sorted
  <2>2. DecidedSoFar'
    BY <1>4 DEF DecidedSoFar, LoopPosition, LoadDefinition, node
  <2>3. NoHiddenFatal'
    BY <1>4 DEF NoHiddenFatal, LoadDefinition
  <2>4. QED
    BY <2>1, <2>2, <2>3
<1>5. CASE MarkRunning
  <2>1. LoopPosition'
    BY <1>5 DEF LoopPosition, MarkRunning, Sorted
  <2>2. DecidedSoFar'
    BY <1>5 DEF DecidedSoFar, LoopPosition, MarkRunning, node
  <2>3. NoHiddenFatal'
    BY <1>5 DEF NoHiddenFatal, MarkRunning
  <2>4. QED
    BY <2>1, <2>2, <2>3
<1>6. CASE SortStep
  <2>1. LoopPosition'
    BY <1>6 DEF LoopPosition, SortStep, PopNode, runVars
  <2>2. DecidedSoFar'
    BY <1>6 DEF DecidedSoFar, LoopPosition, SortStep, PopNode, runVars, node
  <2>3. NoHiddenFatal'
    BY <1>6 DEF NoHiddenFatal, SortStep, PopNode, runVars
  <2>4. QED
    BY <2>1, <2>2, <2>3
<1>7. CASE StartLoop
  <2>1. LoopPosition'
    BY <1>7 DEF LoopPosition, StartLoop, sortVars, Sorted
  <2>2. DecidedSoFar'
    BY <1>7 DEF DecidedSoFar, LoopPosition, StartLoop, sortVars, node
  <2>3. NoHiddenFatal'
    BY <1>7 DEF NoHiddenFatal, StartLoop, sortVars
  <2>4. QED
    BY <2>1, <2>2, <2>3
<1>8. CASE PassTrigger
  <2>1. LoopPosition'
    BY <1>8 DEF LoopPosition, PassTrigger, AtNode, NextPos, Sorted
  <2>2. DecidedSoFar'
    <3>1. pos <= Len(order) /\ pc \notin AfterDecision /\ order' = order
      BY <1>8 DEF LoopPosition, PassTrigger, AtNode, NextPos, sortVars
    <3>2. pos' = pos + 1 /\ pc' = "loop" /\ node_status' = [node_status EXCEPT ![node] = "success"]
      BY <1>8 DEF PassTrigger, AtNode, NextPos
    <3>3. QED
      BY <3>1, <3>2, DecidedMore DEF Statuses
  <2>3. NoHiddenFatal'
    BY <1>8 DEF NoHiddenFatal, PassTrigger, AtNode, NextPos
  <2>4. QED
    BY <2>1, <2>2, <2>3
<1>9. CASE SkipNode
  <2>1. LoopPosition'
    BY <1>9 DEF LoopPosition, SkipNode, AtNode, Sorted
  <2>2. DecidedSoFar'
    <3>1. pos <= Len(order) /\ pc \notin AfterDecision /\ order' = order
      BY <1>9 DEF LoopPosition, SkipNode, AtNode, sortVars
    <3>2. pos' = pos /\ pc' = "record" /\ node_status' = [node_status EXCEPT ![node] = "skipped"]
      BY <1>9 DEF SkipNode, Decided
    <3>3. QED
      BY <3>1, <3>2, DecidedMore DEF Statuses
  <2>3. NoHiddenFatal'
    BY <1>9 DEF NoHiddenFatal, SkipNode, AtNode
  <2>4. QED
    BY <2>1, <2>2, <2>3
<1>10. CASE StartNode
  <2>1. LoopPosition'
    BY <1>10 DEF LoopPosition, StartNode, AtNode, Sorted
  <2>2. DecidedSoFar'
    BY <1>10 DEF DecidedSoFar, LoopPosition, StartNode, AtNode, node
  <2>3. NoHiddenFatal'
    BY <1>10 DEF NoHiddenFatal, StartNode, AtNode
  <2>4. QED
    BY <2>1, <2>2, <2>3
<1>11. CASE DenyNode
  <2>1. LoopPosition'
    BY <1>11 DEF LoopPosition, DenyNode, Decided, Sorted
  <2>2. DecidedSoFar'
    <3>1. pos <= Len(order) /\ pc \notin AfterDecision /\ order' = order
      BY <1>11 DEF LoopPosition, DenyNode, sortVars
    <3>2. pos' = pos /\ pc' = "record" /\ node_status' = [node_status EXCEPT ![node] = "skipped"]
      BY <1>11 DEF DenyNode, Decided
    <3>3. QED
      BY <3>1, <3>2, DecidedMore DEF Statuses
  <2>3. NoHiddenFatal'
    BY <1>11 DEF NoHiddenFatal, DenyNode, Decided
  <2>4. QED
    BY <2>1, <2>2, <2>3
<1>12. CASE RouteNode
  <2>1. LoopPosition'
    BY <1>12 DEF LoopPosition, RouteNode, Decided, Sorted
  <2>2. DecidedSoFar'
    <3>1. pos <= Len(order) /\ pc \notin AfterDecision /\ order' = order
      BY <1>12 DEF LoopPosition, RouteNode, sortVars
    <3>2. PICK s \in Outcomes(wf, node) \cup {"success", "error"} : Decided(s)
      BY <1>12 DEF RouteNode
    <3>3. s \in Statuses /\ pos' = pos
      BY <1>12, <3>1, Definition DEF RouteNode, TypeOK, SortTypeOK, Statuses
    <3>4. QED
      BY <3>1, <3>2, <3>3, DecidedMore DEF Decided
  <2>3. NoHiddenFatal'
    BY <1>12 DEF NoHiddenFatal, RouteNode, Decided
  <2>4. QED
    BY <2>1, <2>2, <2>3
<1>13. CASE WorkNode
  <2>1. LoopPosition'
    BY <1>13 DEF LoopPosition, WorkNode, Decided, Sorted
  <2>2. DecidedSoFar'
    <3>1. pos <= Len(order) /\ pc \notin AfterDecision /\ order' = order
      BY <1>13 DEF LoopPosition, WorkNode, sortVars
    <3>2. PICK s \in Outcomes(wf, node) \cup {"success", "error"} : Decided(s)
      BY <1>13 DEF WorkNode
    <3>3. s \in Statuses /\ pos' = pos
      BY <1>13, <3>1, Definition DEF WorkNode, TypeOK, SortTypeOK, Statuses
    <3>4. QED
      BY <3>1, <3>2, <3>3, DecidedMore DEF Decided
  <2>3. NoHiddenFatal'
    BY <1>13 DEF NoHiddenFatal, WorkNode, Decided
  <2>4. QED
    BY <2>1, <2>2, <2>3
<1>14. CASE RequestApproval
  <2>1. LoopPosition'
    BY <1>14 DEF LoopPosition, RequestApproval, Decided, Sorted
  <2>2. DecidedSoFar'
    <3>1. CASE Decided("error")
      <4>1. pos <= Len(order) /\ pc \notin AfterDecision /\ order' = order /\ pos' = pos
        BY <1>14 DEF LoopPosition, RequestApproval, sortVars
      <4>2. QED
        BY <3>1, <4>1, DecidedMore DEF Decided, Statuses
    <3>2. CASE UNCHANGED node_status /\ pc' \in Executing
      <4>1. order' = order /\ pos' = pos /\ pc \in Executing
        BY <1>14 DEF RequestApproval
      <4>2. QED
        BY <3>2, <4>1 DEF DecidedSoFar, node
    <3>3. QED
      BY <1>14, <3>1, <3>2 DEF RequestApproval
  <2>3. NoHiddenFatal'
    BY <1>14 DEF NoHiddenFatal, RequestApproval, Decided
  <2>4. QED
    BY <2>1, <2>2, <2>3
<1>15. CASE SendApprovalEmail
  <2>1. LoopPosition'
    BY <1>15 DEF LoopPosition, SendApprovalEmail, Decided, Sorted
  <2>2. DecidedSoFar'
    <3>1. CASE Decided("error")
      <4>1. pos <= Len(order) /\ pc \notin AfterDecision /\ order' = order /\ pos' = pos
        BY <1>15 DEF LoopPosition, SendApprovalEmail, sortVars
      <4>2. QED
        BY <3>1, <4>1, DecidedMore DEF Decided, Statuses
    <3>2. CASE UNCHANGED node_status /\ pc' \in Executing
      <4>1. order' = order /\ pos' = pos /\ pc \in Executing
        BY <1>15 DEF SendApprovalEmail
      <4>2. QED
        BY <3>2, <4>1 DEF DecidedSoFar, node
    <3>3. QED
      BY <1>15, <3>1, <3>2 DEF SendApprovalEmail
  <2>3. NoHiddenFatal'
    BY <1>15 DEF NoHiddenFatal, SendApprovalEmail, Decided
  <2>4. QED
    BY <2>1, <2>2, <2>3
<1>16. CASE ResumeApproval
  <2>1. LoopPosition'
    BY <1>16 DEF LoopPosition, ResumeApproval, Decided, Sorted
  <2>2. DecidedSoFar'
    <3>1. pos <= Len(order) /\ pc \notin AfterDecision /\ order' = order
      BY <1>16 DEF LoopPosition, ResumeApproval, sortVars
    <3>2. pos' = pos /\ pc' = "record" /\ node_status' = [node_status EXCEPT ![node] = ApprovalBranch]
      BY <1>16 DEF ResumeApproval, Decided
    <3>3. QED
      BY <3>1, <3>2, DecidedMore DEF Statuses, ApprovalBranch
  <2>3. NoHiddenFatal'
    BY <1>16 DEF NoHiddenFatal, ResumeApproval, Decided
  <2>4. QED
    BY <2>1, <2>2, <2>3
<1>17. CASE TimeOutApproval
  <2>1. LoopPosition'
    BY <1>17 DEF LoopPosition, TimeOutApproval, Decided, Sorted
  <2>2. DecidedSoFar'
    <3>1. pos <= Len(order) /\ pc \notin AfterDecision /\ order' = order
      BY <1>17 DEF LoopPosition, TimeOutApproval, sortVars
    <3>2. pos' = pos /\ pc' = "record" /\ node_status' = [node_status EXCEPT ![node] = "false_branch"]
      BY <1>17 DEF TimeOutApproval, Decided
    <3>3. QED
      BY <3>1, <3>2, DecidedMore DEF Statuses
  <2>3. NoHiddenFatal'
    BY <1>17 DEF NoHiddenFatal, TimeOutApproval, Decided
  <2>4. QED
    BY <2>1, <2>2, <2>3
<1>18. CASE RecordNode
  <2>1. LoopPosition'
    BY <1>18 DEF LoopPosition, RecordNode, NextPos, Raises, Sorted
  <2>2. DecidedSoFar'
    BY <1>18 DEF DecidedSoFar, LoopPosition, RecordNode, NextPos, Raises, node
  <2>3. NoHiddenFatal'
    BY <1>18 DEF NoHiddenFatal, RecordNode, NextPos, Raises
  <2>4. QED
    BY <2>1, <2>2, <2>3
<1>19. CASE MarkCompleted
  <2>1. LoopPosition'
    BY <1>19 DEF LoopPosition, MarkCompleted, LoopEnded, Sorted
  <2>2. DecidedSoFar'
    BY <1>19 DEF DecidedSoFar, LoopPosition, MarkCompleted, LoopEnded, node
  <2>3. NoHiddenFatal'
    BY <1>19 DEF NoHiddenFatal, MarkCompleted, LoopEnded
  <2>4. QED
    BY <2>1, <2>2, <2>3
<1>20. CASE NotifyCompletion
  <2>1. LoopPosition'
    BY <1>20 DEF LoopPosition, NotifyCompletion, Sorted
  <2>2. DecidedSoFar'
    BY <1>20 DEF DecidedSoFar, LoopPosition, NotifyCompletion, node
  <2>3. NoHiddenFatal'
    BY <1>20 DEF NoHiddenFatal, NotifyCompletion
  <2>4. QED
    BY <2>1, <2>2, <2>3
<1>21. CASE MarkFailed
  <2>1. LoopPosition'
    BY <1>21 DEF LoopPosition, MarkFailed, Sorted
  <2>2. DecidedSoFar'
    BY <1>21 DEF DecidedSoFar, LoopPosition, MarkFailed, node
  <2>3. NoHiddenFatal'
    BY <1>21 DEF NoHiddenFatal, MarkFailed
  <2>4. QED
    BY <2>1, <2>2, <2>3
<1>22. CASE NotifyFailure
  <2>1. LoopPosition'
    BY <1>22 DEF LoopPosition, NotifyFailure, Sorted
  <2>2. DecidedSoFar'
    BY <1>22 DEF DecidedSoFar, LoopPosition, NotifyFailure, node
  <2>3. NoHiddenFatal'
    BY <1>22 DEF NoHiddenFatal, NotifyFailure
  <2>4. QED
    BY <2>1, <2>2, <2>3
<1>23. ASSUME NEW action \in {"approved", "rejected"}, Approve(action)
      PROVE  LoopPosition' /\ DecidedSoFar' /\ NoHiddenFatal'
  BY <1>23 DEF LoopPosition, DecidedSoFar, NoHiddenFatal, Approve, Sorted, sortVars, node
<1>24. CASE UNCHANGED vars
  BY <1>24 DEF LoopPosition, DecidedSoFar, NoHiddenFatal, vars, sortVars, runVars, Sorted, node
<1>25. QED
  BY <1>4, <1>5, <1>6, <1>7, <1>8, <1>9, <1>10, <1>11, <1>12, <1>13, <1>14, <1>15, <1>16, <1>17, <1>18, <1>19, <1>20, <1>21, <1>22, <1>23, <1>24 DEF Next, Step

-----------------------------------------------------------------------------
(* Rows, denials and the end of the run.                                   *)

LEMMA RowStep ==
  ASSUME RunInv, [Next]_vars
  PROVE  OneRunning' /\ DenialsKept' /\ Returned'
<1> USE DEF Goto, Return, UpdateExecution, Executing
<1>1. /\ TypeOK /\ TypeOK' /\ wf' = wf /\ Nodes' = Nodes
      /\ OneRunning /\ DenialsKept /\ Returned
      /\ pc # "sort" => order' = order
      /\ pc \in Executing \cup {"record"} => pos <= Len(order)
      /\ node_status \in [Nodes -> Statuses \cup {Undecided}]
      /\ node_row \in [Nodes -> NodeRowStatuses]
  BY SortTypesKept, TypeStep DEF RunInv, TypeOK, LoopPosition
<1>2. /\ pos <= Len(order) => node \in Nodes
      /\ pc # "sort" /\ pos' = pos => node' = node
      /\ wf.denied \subseteq Nodes
      /\ \A n \in Nodes : n # None
  BY <1>1, NodeAtPos, Definition DEF node, TypeOK, SortTypeOK, Nodes
<1>3. CASE LoadDefinition
  <2>1. OneRunning'
    BY <1>1, <1>2, <1>3 DEF OneRunning, LoadDefinition, rowVars
  <2>2. DenialsKept'
    BY <1>1, <1>2, <1>3 DEF DenialsKept, DeniedNeverRuns, LoadDefinition, rowVars
  <2>3. Returned'
    BY <1>1, <1>3 DEF Returned, None, LoadDefinition, rowVars
  <2>4. QED
    BY <2>1, <2>2, <2>3
<1>4. CASE MarkRunning
  <2>1. OneRunning'
    BY <1>1, <1>2, <1>4 DEF OneRunning, MarkRunning
  <2>2. DenialsKept'
    BY <1>1, <1>2, <1>4 DEF DenialsKept, DeniedNeverRuns, MarkRunning
  <2>3. Returned'
    BY <1>1, <1>4 DEF Returned, None, MarkRunning
  <2>4. QED
    BY <2>1, <2>2, <2>3
<1>5. CASE SortStep
  <2>1. OneRunning'
    BY <1>1, <1>2, <1>5 DEF OneRunning, SortStep, runVars, rowVars
  <2>2. DenialsKept'
    BY <1>1, <1>2, <1>5 DEF DenialsKept, DeniedNeverRuns, SortStep, runVars, rowVars
  <2>3. Returned'
    BY <1>1, <1>5 DEF Returned, None, SortStep, runVars, rowVars
  <2>4. QED
    BY <2>1, <2>2, <2>3
<1>6. CASE StartLoop
  <2>1. OneRunning'
    BY <1>1, <1>2, <1>6 DEF OneRunning, StartLoop, rowVars
  <2>2. DenialsKept'
    BY <1>1, <1>2, <1>6 DEF DenialsKept, DeniedNeverRuns, StartLoop, rowVars
  <2>3. Returned'
    BY <1>1, <1>6 DEF Returned, None, StartLoop, rowVars
  <2>4. QED
    BY <2>1, <2>2, <2>3
<1>7. CASE PassTrigger
  <2>1. OneRunning'
    BY <1>1, <1>2, <1>7 DEF OneRunning, PassTrigger, AtNode, NextPos, rowVars
  <2>2. DenialsKept'
    BY <1>1, <1>2, <1>7 DEF DenialsKept, DeniedNeverRuns, PassTrigger, AtNode, NextPos, rowVars
  <2>3. Returned'
    BY <1>1, <1>7 DEF Returned, None, PassTrigger, AtNode, NextPos, rowVars
  <2>4. QED
    BY <2>1, <2>2, <2>3
<1>8. CASE SkipNode
  <2>1. OneRunning'
    BY <1>1, <1>2, <1>8 DEF OneRunning, SkipNode, AtNode, rowVars
  <2>2. DenialsKept'
    BY <1>1, <1>2, <1>8 DEF DenialsKept, DeniedNeverRuns, SkipNode, AtNode, rowVars
  <2>3. Returned'
    BY <1>1, <1>8 DEF Returned, None, SkipNode, AtNode, rowVars
  <2>4. QED
    BY <2>1, <2>2, <2>3
<1>9. CASE StartNode
  <2>1. OneRunning'
    BY <1>1, <1>2, <1>9 DEF OneRunning, StartNode, AtNode
  <2>2. DenialsKept'
    BY <1>1, <1>2, <1>9 DEF DenialsKept, DeniedNeverRuns, StartNode, AtNode
  <2>3. Returned'
    BY <1>1, <1>9 DEF Returned, None, StartNode, AtNode
  <2>4. QED
    BY <2>1, <2>2, <2>3
<1>10. CASE DenyNode
  <2>1. OneRunning'
    BY <1>1, <1>2, <1>10 DEF OneRunning, DenyNode, Decided, rowVars
  <2>2. DenialsKept'
    BY <1>1, <1>2, <1>10 DEF DenialsKept, DeniedNeverRuns, DenyNode, Decided, rowVars
  <2>3. Returned'
    BY <1>1, <1>10 DEF Returned, None, DenyNode, Decided, rowVars
  <2>4. QED
    BY <2>1, <2>2, <2>3
<1>11. CASE RouteNode
  <2>1. OneRunning'
    BY <1>1, <1>2, <1>11 DEF OneRunning, RouteNode, Decided, Allowed, rowVars
  <2>2. DenialsKept'
    BY <1>1, <1>2, <1>11 DEF DenialsKept, DeniedNeverRuns, RouteNode, Decided, Allowed, rowVars
  <2>3. Returned'
    BY <1>1, <1>11 DEF Returned, None, RouteNode, Decided, Allowed, rowVars
  <2>4. QED
    BY <2>1, <2>2, <2>3
<1>12. CASE WorkNode
  <2>1. OneRunning'
    BY <1>1, <1>2, <1>12 DEF OneRunning, WorkNode, Decided, Allowed, rowVars
  <2>2. DenialsKept'
    BY <1>1, <1>2, <1>12 DEF DenialsKept, DeniedNeverRuns, WorkNode, Decided, Allowed, rowVars
  <2>3. Returned'
    BY <1>1, <1>12 DEF Returned, None, WorkNode, Decided, Allowed, rowVars
  <2>4. QED
    BY <2>1, <2>2, <2>3
<1>13. CASE RequestApproval
  <2>1. OneRunning'
    BY <1>1, <1>2, <1>13 DEF OneRunning, RequestApproval, Decided, Allowed
  <2>2. DenialsKept'
    BY <1>1, <1>2, <1>13 DEF DenialsKept, DeniedNeverRuns, RequestApproval, Decided, Allowed
  <2>3. Returned'
    BY <1>1, <1>13 DEF Returned, None, RequestApproval, Decided, Allowed
  <2>4. QED
    BY <2>1, <2>2, <2>3
<1>14. CASE SendApprovalEmail
  <2>1. OneRunning'
    BY <1>1, <1>2, <1>14 DEF OneRunning, SendApprovalEmail, Decided, rowVars
  <2>2. DenialsKept'
    BY <1>1, <1>2, <1>14 DEF DenialsKept, DeniedNeverRuns, SendApprovalEmail, Decided, rowVars
  <2>3. Returned'
    BY <1>1, <1>14 DEF Returned, None, SendApprovalEmail, Decided, rowVars
  <2>4. QED
    BY <2>1, <2>2, <2>3
<1>15. CASE ResumeApproval
  <2>1. OneRunning'
    BY <1>1, <1>2, <1>15 DEF OneRunning, ResumeApproval, Decided, rowVars
  <2>2. DenialsKept'
    BY <1>1, <1>2, <1>15 DEF DenialsKept, DeniedNeverRuns, ResumeApproval, Decided, rowVars
  <2>3. Returned'
    BY <1>1, <1>15 DEF Returned, None, ResumeApproval, Decided, rowVars
  <2>4. QED
    BY <2>1, <2>2, <2>3
<1>16. CASE TimeOutApproval
  <2>1. OneRunning'
    BY <1>1, <1>2, <1>16 DEF OneRunning, TimeOutApproval, Decided, rowVars
  <2>2. DenialsKept'
    BY <1>1, <1>2, <1>16 DEF DenialsKept, DeniedNeverRuns, TimeOutApproval, Decided, rowVars
  <2>3. Returned'
    BY <1>1, <1>16 DEF Returned, None, TimeOutApproval, Decided, rowVars
  <2>4. QED
    BY <2>1, <2>2, <2>3
<1>17. CASE RecordNode
  <2>1. OneRunning'
    BY <1>1, <1>2, <1>17 DEF OneRunning, RecordNode, Recorded, RowStatusOf, NextPos
  <2>2. DenialsKept'
    BY <1>1, <1>2, <1>17 DEF DenialsKept, DeniedNeverRuns, RecordNode, Recorded, RowStatusOf, NextPos
  <2>3. Returned'
    BY <1>1, <1>17 DEF Returned, None, RecordNode, Recorded, RowStatusOf, NextPos
  <2>4. QED
    BY <2>1, <2>2, <2>3
<1>18. CASE MarkCompleted
  <2>1. OneRunning'
    BY <1>1, <1>2, <1>18 DEF OneRunning, MarkCompleted, LoopEnded
  <2>2. DenialsKept'
    BY <1>1, <1>2, <1>18 DEF DenialsKept, DeniedNeverRuns, MarkCompleted, LoopEnded
  <2>3. Returned'
    BY <1>1, <1>18 DEF Returned, None, MarkCompleted, LoopEnded
  <2>4. QED
    BY <2>1, <2>2, <2>3
<1>19. CASE NotifyCompletion
  <2>1. OneRunning'
    BY <1>1, <1>2, <1>19 DEF OneRunning, NotifyCompletion, rowVars
  <2>2. DenialsKept'
    BY <1>1, <1>2, <1>19 DEF DenialsKept, DeniedNeverRuns, NotifyCompletion, rowVars
  <2>3. Returned'
    BY <1>1, <1>19 DEF Returned, None, NotifyCompletion, rowVars
  <2>4. QED
    BY <2>1, <2>2, <2>3
<1>20. CASE MarkFailed
  <2>1. OneRunning'
    BY <1>1, <1>2, <1>20 DEF OneRunning, MarkFailed
  <2>2. DenialsKept'
    BY <1>1, <1>2, <1>20 DEF DenialsKept, DeniedNeverRuns, MarkFailed
  <2>3. Returned'
    BY <1>1, <1>20 DEF Returned, None, MarkFailed
  <2>4. QED
    BY <2>1, <2>2, <2>3
<1>21. CASE NotifyFailure
  <2>1. OneRunning'
    BY <1>1, <1>2, <1>21 DEF OneRunning, NotifyFailure, rowVars
  <2>2. DenialsKept'
    BY <1>1, <1>2, <1>21 DEF DenialsKept, DeniedNeverRuns, NotifyFailure, rowVars
  <2>3. Returned'
    BY <1>1, <1>21 DEF Returned, None, NotifyFailure, rowVars
  <2>4. QED
    BY <2>1, <2>2, <2>3
<1>22. ASSUME NEW action \in {"approved", "rejected"}, Approve(action)
      PROVE  OneRunning' /\ DenialsKept' /\ Returned'
  BY <1>1, <1>2, <1>22 DEF OneRunning, DenialsKept, DeniedNeverRuns, Returned, Approve, sortVars, node
<1>23. CASE UNCHANGED vars
  BY <1>1, <1>2, <1>23 DEF OneRunning, DenialsKept, DeniedNeverRuns, Returned, vars, sortVars, runVars, rowVars, node
<1>24. QED
  BY <1>3, <1>4, <1>5, <1>6, <1>7, <1>8, <1>9, <1>10, <1>11, <1>12, <1>13, <1>14, <1>15, <1>16, <1>17, <1>18, <1>19, <1>20, <1>21, <1>22, <1>23 DEF Next, Step

LEMMA CompletionStep ==
  ASSUME RunInv, [Next]_vars
  PROVE  RowsRecorded' /\ Completing'
<1> USE DEF Goto, Return, UpdateExecution, Executing, IsDecided
<1>1. /\ TypeOK /\ wf' = wf /\ Nodes' = Nodes
      /\ RowsRecorded /\ Completing /\ LoopPosition /\ Returned /\ NoHiddenFatal /\ DecidedSoFar
      /\ pc # "sort" => order' = order /\ queue' = queue
      /\ node_status \in [Nodes -> Statuses \cup {Undecided}]
      /\ node_row \in [Nodes -> NodeRowStatuses]
  BY SortTypesKept DEF RunInv, TypeOK
<1>2. /\ pos <= Len(order) => node \in Nodes
      /\ pc # "sort" /\ pos' = pos => node' = node
      /\ \A n \in Nodes : Fatal(wf, n)' = Fatal(wf, n)
  BY <1>1, NodeAtPos DEF node, Fatal, HasErrorEdges, Children
<1>3. \A s : RowStatusOf(s)' = RowStatusOf(s)
  BY DEF RowStatusOf
<1>4. pc = "loop" /\ pos <= Len(order) => ~IsDecided(node)
  BY <1>1, <1>2 DEF RunInv, SortInv, NoRepeats, DecidedSoFar, AfterDecision, TypeOK, node
<1>5. CASE LoadDefinition
  <2>1. RowsRecorded'
    BY <1>1, <1>2, <1>3, <1>5 DEF RowsRecorded, LoadDefinition, rowVars
  <2>2. Completing'
    BY <1>1, <1>2, <1>5 DEF Completing, LoopPosition, Returned, NoHiddenFatal, AfterDecision, None, Sorted, LoadDefinition, rowVars
  <2>3. QED
    BY <2>1, <2>2
<1>6. CASE MarkRunning
  <2>1. RowsRecorded'
    BY <1>1, <1>2, <1>3, <1>6 DEF RowsRecorded, MarkRunning
  <2>2. Completing'
    BY <1>1, <1>2, <1>6 DEF Completing, LoopPosition, Returned, NoHiddenFatal, AfterDecision, None, Sorted, MarkRunning
  <2>3. QED
    BY <2>1, <2>2
<1>7. CASE SortStep
  <2>1. RowsRecorded'
    BY <1>1, <1>2, <1>3, <1>7 DEF RowsRecorded, SortStep, runVars, rowVars
  <2>2. Completing'
    BY <1>1, <1>2, <1>7 DEF Completing, LoopPosition, Returned, NoHiddenFatal, AfterDecision, None, Sorted, SortStep, runVars, rowVars
  <2>3. QED
    BY <2>1, <2>2
<1>8. CASE StartLoop
  <2>1. RowsRecorded'
    BY <1>1, <1>2, <1>3, <1>8 DEF RowsRecorded, StartLoop, rowVars
  <2>2. Completing'
    BY <1>1, <1>2, <1>8 DEF Completing, LoopPosition, Returned, NoHiddenFatal, AfterDecision, None, Sorted, StartLoop, rowVars
  <2>3. QED
    BY <2>1, <2>2
<1>9. CASE PassTrigger
  <2>1. RowsRecorded'
    BY <1>1, <1>2, <1>3, <1>9 DEF RowsRecorded, PassTrigger, AtNode, NextPos, rowVars
  <2>2. Completing'
    BY <1>1, <1>2, <1>9 DEF Completing, LoopPosition, Returned, NoHiddenFatal, AfterDecision, None, Sorted, PassTrigger, AtNode, NextPos, rowVars
  <2>3. QED
    BY <2>1, <2>2
<1>10. CASE SkipNode
  <2>1. RowsRecorded'
    BY <1>1, <1>2, <1>3, <1>10 DEF RowsRecorded, SkipNode, AtNode, rowVars
  <2>2. Completing'
    BY <1>1, <1>2, <1>10 DEF Completing, LoopPosition, Returned, NoHiddenFatal, AfterDecision, None, Sorted, SkipNode, AtNode, rowVars
  <2>3. QED
    BY <2>1, <2>2
<1>11. CASE StartNode
  <2>1. RowsRecorded'
    BY <1>1, <1>2, <1>3, <1>4, <1>11 DEF RowsRecorded, StartNode, AtNode
  <2>2. Completing'
    BY <1>1, <1>2, <1>11 DEF Completing, LoopPosition, Returned, NoHiddenFatal, AfterDecision, None, Sorted, StartNode, AtNode
  <2>3. QED
    BY <2>1, <2>2
<1>12. CASE DenyNode
  <2>1. RowsRecorded'
    BY <1>1, <1>2, <1>3, <1>12 DEF RowsRecorded, DenyNode, Decided, rowVars
  <2>2. Completing'
    BY <1>1, <1>2, <1>12 DEF Completing, LoopPosition, Returned, NoHiddenFatal, AfterDecision, None, Sorted, DenyNode, Decided, rowVars
  <2>3. QED
    BY <2>1, <2>2
<1>13. CASE RouteNode
  <2>1. RowsRecorded'
    BY <1>1, <1>2, <1>3, <1>13 DEF RowsRecorded, RouteNode, Decided, Allowed, rowVars
  <2>2. Completing'
    BY <1>1, <1>2, <1>13 DEF Completing, LoopPosition, Returned, NoHiddenFatal, AfterDecision, None, Sorted, RouteNode, Decided, Allowed, rowVars
  <2>3. QED
    BY <2>1, <2>2
<1>14. CASE WorkNode
  <2>1. RowsRecorded'
    BY <1>1, <1>2, <1>3, <1>14 DEF RowsRecorded, WorkNode, Decided, Allowed, rowVars
  <2>2. Completing'
    BY <1>1, <1>2, <1>14 DEF Completing, LoopPosition, Returned, NoHiddenFatal, AfterDecision, None, Sorted, WorkNode, Decided, Allowed, rowVars
  <2>3. QED
    BY <2>1, <2>2
<1>15. CASE RequestApproval
  <2>1. RowsRecorded'
    BY <1>1, <1>2, <1>3, <1>15 DEF RowsRecorded, RequestApproval, Decided, Allowed
  <2>2. Completing'
    BY <1>1, <1>2, <1>15 DEF Completing, LoopPosition, Returned, NoHiddenFatal, AfterDecision, None, Sorted, RequestApproval, Decided, Allowed
  <2>3. QED
    BY <2>1, <2>2
<1>16. CASE SendApprovalEmail
  <2>1. RowsRecorded'
    BY <1>1, <1>2, <1>3, <1>16 DEF RowsRecorded, SendApprovalEmail, Decided, rowVars
  <2>2. Completing'
    BY <1>1, <1>2, <1>16 DEF Completing, LoopPosition, Returned, NoHiddenFatal, AfterDecision, None, Sorted, SendApprovalEmail, Decided, rowVars
  <2>3. QED
    BY <2>1, <2>2
<1>17. CASE ResumeApproval
  <2>1. RowsRecorded'
    BY <1>1, <1>2, <1>3, <1>17 DEF RowsRecorded, ResumeApproval, Decided, rowVars
  <2>2. Completing'
    BY <1>1, <1>2, <1>17 DEF Completing, LoopPosition, Returned, NoHiddenFatal, AfterDecision, None, Sorted, ResumeApproval, Decided, rowVars
  <2>3. QED
    BY <2>1, <2>2
<1>18. CASE TimeOutApproval
  <2>1. RowsRecorded'
    BY <1>1, <1>2, <1>3, <1>18 DEF RowsRecorded, TimeOutApproval, Decided, rowVars
  <2>2. Completing'
    BY <1>1, <1>2, <1>18 DEF Completing, LoopPosition, Returned, NoHiddenFatal, AfterDecision, None, Sorted, TimeOutApproval, Decided, rowVars
  <2>3. QED
    BY <2>1, <2>2
<1>19. CASE RecordNode
  <2>1. RowsRecorded'
    BY <1>1, <1>2, <1>3, <1>19 DEF RowsRecorded, RecordNode, Recorded, NextPos
  <2>2. Completing'
    BY <1>1, <1>2, <1>19 DEF Completing, LoopPosition, Returned, NoHiddenFatal, AfterDecision, None, Sorted, RecordNode, Recorded, NextPos
  <2>3. QED
    BY <2>1, <2>2
<1>20. CASE MarkCompleted
  <2>1. RowsRecorded'
    BY <1>1, <1>2, <1>3, <1>20 DEF RowsRecorded, MarkCompleted, LoopEnded
  <2>2. Completing'
    BY <1>1, <1>2, <1>20 DEF Completing, LoopPosition, Returned, NoHiddenFatal, AfterDecision, None, Sorted, MarkCompleted, LoopEnded
  <2>3. QED
    BY <2>1, <2>2
<1>21. CASE NotifyCompletion
  <2>1. RowsRecorded'
    BY <1>1, <1>2, <1>3, <1>21 DEF RowsRecorded, NotifyCompletion, rowVars
  <2>2. Completing'
    BY <1>1, <1>2, <1>21 DEF Completing, LoopPosition, Returned, NoHiddenFatal, AfterDecision, None, Sorted, NotifyCompletion, rowVars
  <2>3. QED
    BY <2>1, <2>2
<1>22. CASE MarkFailed
  <2>1. RowsRecorded'
    BY <1>1, <1>2, <1>3, <1>22 DEF RowsRecorded, MarkFailed
  <2>2. Completing'
    BY <1>1, <1>2, <1>22 DEF Completing, LoopPosition, Returned, NoHiddenFatal, AfterDecision, None, Sorted, MarkFailed
  <2>3. QED
    BY <2>1, <2>2
<1>23. CASE NotifyFailure
  <2>1. RowsRecorded'
    BY <1>1, <1>2, <1>3, <1>23 DEF RowsRecorded, NotifyFailure, rowVars
  <2>2. Completing'
    BY <1>1, <1>2, <1>23 DEF Completing, LoopPosition, Returned, NoHiddenFatal, AfterDecision, None, Sorted, NotifyFailure, rowVars
  <2>3. QED
    BY <2>1, <2>2
<1>24. ASSUME NEW action \in {"approved", "rejected"}, Approve(action)
      PROVE  RowsRecorded' /\ Completing'
  BY <1>1, <1>2, <1>3, <1>24 DEF RowsRecorded, Completing, Approve, sortVars, Sorted, node
<1>25. CASE UNCHANGED vars
  BY <1>1, <1>2, <1>3, <1>25 DEF RowsRecorded, Completing, vars, sortVars, runVars, rowVars, Sorted, node
<1>26. QED
  BY <1>5, <1>6, <1>7, <1>8, <1>9, <1>10, <1>11, <1>12, <1>13, <1>14, <1>15, <1>16, <1>17, <1>18, <1>19, <1>20, <1>21, <1>22, <1>23, <1>24, <1>25 DEF Next, Step

LEMMA StartedStep ==
  ASSUME RunInv, [Next]_vars
  PROVE  Started'
<1> USE DEF Goto, Return, UpdateExecution, Executing
<1>1. /\ wf' = wf /\ Nodes' = Nodes /\ Started
      /\ pc # "sort" => order' = order
  BY SortTypesKept DEF RunInv
<1>2. ASSUME pos' = pos, pc # "sort", node_status' = node_status
      PROVE  Blocked' = Blocked /\ node' = node
  BY <1>1, <1>2 DEF Blocked, ShouldExecute, Parents, StatusOr, node
<1>3. CASE StartNode
  BY <1>1, <1>2, <1>3 DEF Started, StartNode, AtNode
<1>4. CASE RequestApproval
  BY <1>1, <1>2, <1>4 DEF Started, RequestApproval, Decided
<1>5. CASE SendApprovalEmail
  BY <1>1, <1>2, <1>5 DEF Started, SendApprovalEmail, Decided
<1>6. ASSUME NEW action \in {"approved", "rejected"}, Approve(action) PROVE Started'
  <2>1. CASE pc = "sort"
    BY <1>6, <2>1 DEF Approve, Started
  <2>2. CASE pc # "sort"
    BY <1>1, <1>2, <1>6, <2>2 DEF Started, Approve
  <2>3. QED
    BY <2>1, <2>2
<1>7. CASE UNCHANGED vars
  <2>1. pc' = pc /\ pos' = pos /\ node_status' = node_status
    BY <1>7 DEF vars, runVars
  <2>2. QED
    BY <1>1, <1>2, <2>1 DEF Started
<1>8. CASE pc' \notin Executing
  BY <1>8 DEF Started
<1>9. QED
  BY <1>3, <1>4, <1>5, <1>6, <1>7, <1>8 DEF Next, Step, LoadDefinition, MarkRunning, SortStep,
    runVars, StartLoop, PassTrigger, AtNode, SkipNode, DenyNode, RouteNode, WorkNode,
    ResumeApproval, TimeOutApproval, Decided, RecordNode, MarkCompleted, LoopEnded,
    NotifyCompletion, MarkFailed, NotifyFailure

LEMMA RunInvStep == RunInv /\ [Next]_vars => RunInv'
BY SortTypesKept, TypeStep, LoopStep, RowStep, CompletionStep, StartedStep DEF RunInv

-----------------------------------------------------------------------------
(* The invariants and action properties of a run.                          *)

\* A run keeps its types, whatever the definitions.
THEOREM RunTypes == Spec => []TypeOK
<1>1. RunInv => TypeOK
  BY DEF RunInv
<1>2. QED
  BY RunInvInit, RunInvStep, <1>1, PTL DEF Spec

\* The loop decides no node before all of its parents, in any graph.
THEOREM RunDecidesParentsFirst == Spec => []DecidedParentsFirst
<1>1. RunInv => DecidedParentsFirst
  <2>1. SUFFICES ASSUME RunInv, NEW n \in Nodes, IsDecided(n), NEW p \in Parents(wf, n)
                 PROVE  IsDecided(p)
    BY DEF DecidedParentsFirst
  <2>2. PICK i \in 1 .. Len(order) : order[i] = n /\ i <= pos
    BY <2>1 DEF RunInv, DecidedSoFar, TypeOK
  <2>3. PICK j \in 1 .. i - 1 : order[j] = p
    BY <2>1, <2>2 DEF RunInv, SortInv, ParentsFirst
  <2>4. j \in 1 .. pos - 1
    BY <2>1, <2>2, <2>3 DEF RunInv, TypeOK, SortTypeOK
  <2>5. QED
    BY <2>1, <2>3, <2>4 DEF RunInv, DecidedSoFar
<1>2. QED
  BY RunInvInit, RunInvStep, <1>1, PTL DEF Spec

\* A node denied by the cross-company rules never works nor routes.
THEOREM RunKeepsDenials == Spec => []DeniedNeverRuns
<1>1. RunInv => DeniedNeverRuns
  BY DEF RunInv, DenialsKept
<1>2. QED
  BY RunInvInit, RunInvStep, <1>1, PTL DEF Spec

\* No node row says running once the run has returned or raised.
THEOREM RunLeavesNoNodeRunning == Spec => []NoNodeLeftRunning
<1>1. RunInv => NoNodeLeftRunning
  BY DEF RunInv, OneRunning, Returned, NoNodeLeftRunning, Executing
<1>2. QED
  BY RunInvInit, RunInvStep, <1>1, PTL DEF Spec

\* All of that at once, the types included.
THEOREM RunIsSound == Spec => []RunInvariant
BY RunTypes, RunDecidesParentsFirst, RunKeepsDenials, RunLeavesNoNodeRunning, PTL DEF RunInvariant

\* A run that reports completed is complete, and its rows say so.
THEOREM RunCompletes == Spec => []CompletedIsComplete
<1>1. RunInv => CompletedIsComplete
  <2>1. SUFFICES ASSUME RunInv, result = "completed" PROVE CompletedIsComplete
    BY DEF CompletedIsComplete
  <2>2. /\ exec_row = "completed" /\ pos > Len(order) /\ Sorted /\ pc = "end"
        /\ \A n \in Nodes : ~(node_status[n] = "error" /\ Fatal(wf, n))
    BY <2>1 DEF RunInv, Completing, Returned, None
  <2>3. \A n \in Nodes : IsDecided(n) <=> n \in Elements(order)
    <3>1. /\ \A i \in 1 .. pos - 1 : IsDecided(order[i])
          /\ \A n \in Nodes : IsDecided(n) => \E i \in 1 .. Len(order) : order[i] = n
      BY <2>1 DEF RunInv, DecidedSoFar
    <3>2. \A i \in 1 .. Len(order) : i \in 1 .. pos - 1
      BY <2>1, <2>2 DEF RunInv, TypeOK, SortTypeOK
    <3>3. QED
      BY <3>1, <3>2 DEF Elements
  <2>4. ASSUME NEW n \in Nodes, ~IsDecided(n)
        PROVE  \E p \in Parents(wf, n) : ~IsDecided(p)
    <3>1. Parents(wf, n) \ Elements(order) # {}
      BY <2>1, <2>2, <2>3, <2>4, SortInvComplete DEF RunInv, OnlyCyclesLeftOut
    <3>2. Parents(wf, n) \subseteq Nodes
      BY DEF Parents, Nodes
    <3>3. QED
      BY <2>3, <3>1, <3>2
  <2>5. QED
    BY <2>1, <2>2, <2>4 DEF RunInv, RowsRecorded, CompletedIsComplete
<1>2. QED
  BY RunInvInit, RunInvStep, <1>1, PTL DEF Spec
\* What a step may do to the statuses: that of StatusesAreFinal.
Final ==
  \A n \in Nodes :
    /\ IsDecided(n) => node_status'[n] = node_status[n]
    /\ node_row'[n] = "running" /\ node_row[n] # "running"
         => \A m \in Nodes : node_row[m] # "running"

LEMMA FinalStep == RunInv /\ [Next]_vars => Final
<1>1. SUFFICES ASSUME RunInv, [Next]_vars, NEW n \in Nodes
               PROVE  /\ IsDecided(n) => node_status'[n] = node_status[n]
                      /\ node_row'[n] = "running" /\ node_row[n] # "running"
                           => \A m \in Nodes : node_row[m] # "running"
  BY DEF Final
<1>2. node_status' = node_status \/ \E s : node_status' = [node_status EXCEPT ![node] = s]
  BY <1>1 DEF Next, Step, vars, runVars, rowVars, LoadDefinition, MarkRunning, SortStep,
    StartLoop, PassTrigger, SkipNode, StartNode, DenyNode, RouteNode, WorkNode, RequestApproval,
    SendApprovalEmail, ResumeApproval, TimeOutApproval, Decided, RecordNode, MarkCompleted,
    NotifyCompletion, MarkFailed, NotifyFailure, Approve
<1>3. ASSUME node_status' # node_status PROVE pc \in Executing \/ AtNode
  BY <1>1, <1>3 DEF Next, Step, vars, runVars, rowVars, LoadDefinition, MarkRunning, SortStep,
    StartLoop, PassTrigger, SkipNode, StartNode, DenyNode, RouteNode, WorkNode, RequestApproval,
    SendApprovalEmail, ResumeApproval, TimeOutApproval, RecordNode, MarkCompleted,
    NotifyCompletion, MarkFailed, NotifyFailure, Approve, Executing
<1>4. (pc \in Executing \/ AtNode) /\ IsDecided(n) => n # node
  BY <1>1 DEF RunInv, LoopPosition, SortInv, NoRepeats, DecidedSoFar, Executing, AfterDecision,
    AtNode, TypeOK, node
<1>5. IsDecided(n) => node_status'[n] = node_status[n]
  BY <1>1, <1>2, <1>3, <1>4 DEF RunInv, TypeOK
<1>6. CASE StartNode
  BY <1>1, <1>5, <1>6 DEF RunInv, OneRunning, StartNode, AtNode, Executing
<1>7. CASE RecordNode
  <2>1. RowStatusOf(node_status[node]) # "running"
    BY DEF RowStatusOf
  <2>2. QED
    BY <1>1, <1>5, <1>7, <2>1 DEF RunInv, TypeOK, RecordNode, Recorded
<1>8. CASE node_row' = node_row
  BY <1>5, <1>8
<1>9. QED
  BY <1>1, <1>6, <1>7, <1>8 DEF Next, Step, vars, rowVars, LoadDefinition, MarkRunning, SortStep,
    StartLoop, PassTrigger, SkipNode, DenyNode, RouteNode, WorkNode, RequestApproval,
    SendApprovalEmail, ResumeApproval, TimeOutApproval, MarkCompleted,
    NotifyCompletion, MarkFailed, NotifyFailure, Approve

\* The status of a node is final, and nodes are executed one at a time.
THEOREM RunStatusesFinal == Spec => StatusesAreFinal
<1>1. RunInv /\ [Next]_vars => [Final]_vars
  BY FinalStep
<1>2. QED
  BY RunInvInit, RunInvStep, <1>1, PTL DEF Spec, StatusesAreFinal, Final

-----------------------------------------------------------------------------
(* Routing.                                                                *)

\* A node has a row once it is being executed or decided, and that row says
\* running until the loop records what became of the node.
RowsStarted ==
  /\ \A n \in Nodes : node_row[n] # None => IsDecided(n) \/ (pc \in Executing /\ n = node)
  /\ pc \in Executing => node_row[node] = "running"
  /\ pc = "record" /\ node_status[node] # "skipped" => node_row[node] = "running"

\* The edges that let a node start, or kept it from starting, still do.
RoutedSoFar ==
  \A n \in Nodes :
    /\ node_row[n] \in {"running", "completed", "failed"} /\ Parents(wf, n) # {}
         => ShouldExecute(wf, node_status, n)
    /\ node_status[n] = "skipped" /\ n \notin wf.denied
         => Parents(wf, n) # {} /\ ~ShouldExecute(wf, node_status, n)

RouteInv == RunInv /\ RowsStarted /\ RoutedSoFar

\* The parents of a node that is decided, or that the loop is at, are decided.
LEMMA ParentsAreDecided ==
  ASSUME RunInv, NEW n \in Nodes,
         IsDecided(n) \/ (n = node /\ pos <= Len(order)),
         NEW p \in Parents(wf, n)
  PROVE  IsDecided(p) /\ p \in Nodes
<1>1. PICK i \in 1 .. Len(order) : order[i] = n /\ i <= pos
  BY DEF RunInv, DecidedSoFar, TypeOK, SortTypeOK, node
<1>2. PICK j \in 1 .. i - 1 : order[j] = p
  BY <1>1 DEF RunInv, SortInv, ParentsFirst
<1>3. j \in 1 .. pos - 1
  BY <1>1, <1>2 DEF RunInv, TypeOK, SortTypeOK
<1>4. QED
  BY <1>2, <1>3 DEF RunInv, DecidedSoFar, Parents, Nodes

\* Once the parents of a node are decided, so is which of its edges are live.
LEMMA VerdictIsFinal ==
  ASSUME RunInv, [Next]_vars, NEW n \in Nodes,
         \A p \in Parents(wf, n) : IsDecided(p) /\ p \in Nodes
  PROVE  ShouldExecute(wf, node_status, n)' <=> ShouldExecute(wf, node_status, n)
<1>1. wf' = wf
  BY SortTypesKept DEF RunInv
<1>2. \A p \in Parents(wf, n) : node_status'[p] = node_status[p]
  BY FinalStep DEF Final
<1>3. \A p \in Parents(wf, n) : StatusOr(node_status, p)' = StatusOr(node_status, p)
  BY <1>2 DEF StatusOr
<1>4. Parents(wf, n)' = Parents(wf, n)
  BY <1>1 DEF Parents
<1>5. QED
  BY <1>1, <1>3, <1>4, Zenon DEF ShouldExecute

\* From the row that says running to the status that decides the node, the
\* loop stays at the node.
LEMMA StaysAtTheNode ==
  ASSUME RunInv, [Next]_vars
  PROVE  /\ pc \in Executing => pc' \in Executing \cup {"record"} /\ node' = node /\ node_row' = node_row
         /\ pc' \in Executing /\ ~StartNode => pc \in Executing
         /\ pc' = "record" => pc \in Executing \/ SkipNode \/ (pc = "record" /\ node' = node /\ node_row' = node_row
                                                                 /\ node_status' = node_status)
         /\ node_row' = node_row \/ StartNode \/ RecordNode
<1> USE DEF Goto, Return, UpdateExecution, Executing, Decided, rowVars, runVars, sortVars, node
<1>1. CASE LoadDefinition \/ MarkRunning \/ SortStep \/ StartLoop \/ PassTrigger
  BY <1>1 DEF LoadDefinition, MarkRunning, SortStep, StartLoop, PassTrigger, AtNode
<1>2. CASE SkipNode \/ StartNode
  BY <1>2 DEF SkipNode, StartNode, AtNode
<1>3. CASE DenyNode \/ RouteNode \/ WorkNode
  BY <1>3 DEF DenyNode, RouteNode, WorkNode
<1>4. CASE RequestApproval \/ SendApprovalEmail \/ ResumeApproval \/ TimeOutApproval
  BY <1>4 DEF RequestApproval, SendApprovalEmail, ResumeApproval, TimeOutApproval
<1>5. CASE RecordNode
  BY <1>5 DEF RecordNode
<1>6. CASE MarkCompleted \/ NotifyCompletion \/ MarkFailed \/ NotifyFailure
  BY <1>6 DEF MarkCompleted, LoopEnded, NotifyCompletion, MarkFailed, NotifyFailure
<1>7. CASE \E action \in {"approved", "rejected"} : Approve(action)
  BY <1>7 DEF Approve
<1>8. CASE UNCHANGED vars
  BY <1>8 DEF vars
<1>9. QED
  BY <1>1, <1>2, <1>3, <1>4, <1>5, <1>6, <1>7, <1>8 DEF Next, Step

LEMMA RowsStartedStep ==
  ASSUME RouteInv, [Next]_vars PROVE RowsStarted'
<1>1. /\ RunInv /\ RunInv' /\ Nodes' = Nodes
      /\ pc # "sort" => order' = order
      /\ node_row \in [Nodes -> NodeRowStatuses]
      /\ \A n \in Nodes : IsDecided(n) => IsDecided(n)'
      /\ pc' = "record" => IsDecided(node)'
      /\ pc = "record" => IsDecided(node)
      /\ pc \in Executing \cup {"record"} => pos <= Len(order)
      /\ "record" \notin Executing /\ "loop" \notin Executing /\ "mark_failed" \notin Executing
  BY RunInvStep, SortTypesKept, FinalStep
  DEF RouteInv, RunInv, Final, IsDecided, TypeOK, DecidedSoFar, LoopPosition, Executing
<1>2. CASE StartNode
  <2>1. /\ pc = "loop" /\ pc' = "started" /\ pos' = pos /\ order' = order
        /\ node' = node /\ node \in Nodes
        /\ node_row' = [node_row EXCEPT ![node] = "running"]
    BY <1>1, <1>2, NodeAtPos DEF StartNode, AtNode, Goto, node, RunInv, sortVars
  <2>2. QED
    BY <1>1, <2>1 DEF RouteInv, RowsStarted, IsDecided, Executing
<1>3. CASE RecordNode
  <2>1. /\ pc = "record" /\ pc' \in {"loop", "mark_failed"} /\ node \in Nodes
        /\ \A n \in Nodes : n # node => node_row'[n] = node_row[n]
    BY <1>1, <1>3, NodeAtPos DEF RecordNode, Recorded, Goto, RunInv
  <2>2. QED
    BY <1>1, <2>1 DEF RouteInv, RowsStarted, IsDecided, Executing
<1>4. CASE node_row' = node_row /\ ~StartNode
  <2>1. \A n \in Nodes : node_row'[n] # None => IsDecided(n)' \/ (pc \in Executing /\ n = node)'
    BY <1>1, <1>4, StaysAtTheNode DEF RouteInv, RowsStarted, IsDecided
  <2>2. pc' \in Executing => node_row'[node'] = "running"
    BY <1>1, <1>4, StaysAtTheNode DEF RouteInv, RowsStarted, IsDecided
  <2>3. ASSUME pc' = "record", (node_status[node] # "skipped")' PROVE node_row'[node'] = "running"
    <3>1. CASE SkipNode
      <4>1. node' = node /\ node \in Nodes /\ node_status'[node] = "skipped"
        BY <1>1, <3>1, NodeAtPos DEF SkipNode, AtNode, node, RunInv, TypeOK, sortVars, Goto
      <4>2. QED
        BY <2>3, <4>1
    <3>2. CASE pc \in Executing
      BY <1>1, <1>4, <3>2, StaysAtTheNode DEF RouteInv, RowsStarted
    <3>3. CASE pc = "record" /\ node' = node /\ node_status' = node_status
      BY <1>4, <2>3, <3>3 DEF RouteInv, RowsStarted
    <3>4. QED
      BY <1>1, <2>3, <3>1, <3>2, <3>3, StaysAtTheNode
  <2>4. QED
    BY <1>1, <2>1, <2>2, <2>3 DEF RowsStarted, IsDecided
<1>5. QED
  BY <1>1, <1>2, <1>3, <1>4, StaysAtTheNode

\* A status of skipped comes from dead edges, or from a denial.
LEMMA SkippedFor ==
  ASSUME RunInv, [Next]_vars, NEW n \in Nodes, node_status'[n] = "skipped", node_status[n] # "skipped",
         n \notin wf.denied
  PROVE  n = node /\ AtNode /\ Blocked
<1>1. /\ node_status \in [Nodes -> Statuses \cup {Undecided}]
      /\ wf.cases \in [Nodes -> SUBSET Labels]
      /\ pc \in Executing => node \in Nodes
  BY NodeAtPos DEF RunInv, TypeOK, SortTypeOK, IsDefinition, Nodes, LoopPosition
<1>2. CASE SkipNode
  BY <1>1, <1>2 DEF SkipNode
<1>3. CASE DenyNode
  BY <1>1, <1>3 DEF DenyNode, Decided
<1>4. CASE RouteNode
  <2>1. PICK s \in Outcomes(wf, node) : node_status' = [node_status EXCEPT ![node] = s]
    BY <1>4 DEF RouteNode, Decided
  <2>2. node \in Nodes
    BY <1>1, <1>4 DEF RouteNode, Executing
  <2>3. { SwitchStatus(l) : l \in wf.cases[node] } \subseteq SwitchStatuses
    BY <1>1, <2>2 DEF SwitchStatuses
  <2>4. s # "skipped"
    BY <2>1, <2>3, SwitchStatusesAssumption DEF Outcomes
  <2>5. QED
    BY <1>1, <2>1, <2>4
<1>5. CASE PassTrigger \/ WorkNode
  BY <1>1, <1>5 DEF PassTrigger, WorkNode, Decided
<1>6. CASE RequestApproval \/ SendApprovalEmail \/ ResumeApproval \/ TimeOutApproval
  BY <1>1, <1>6 DEF RequestApproval, SendApprovalEmail, ResumeApproval, TimeOutApproval, Decided,
     ApprovalBranch
<1>7. CASE node_status' = node_status
  BY <1>7
<1>8. QED
  BY <1>2, <1>3, <1>4, <1>5, <1>6, <1>7 DEF Next, Step, vars, runVars, LoadDefinition, MarkRunning,
     SortStep, StartLoop, StartNode, RecordNode, MarkCompleted, NotifyCompletion, MarkFailed,
     NotifyFailure, Approve

LEMMA RoutedStep ==
  ASSUME RouteInv, [Next]_vars PROVE RoutedSoFar'
<1>1. /\ RunInv /\ wf' = wf /\ Nodes' = Nodes /\ \A n : Parents(wf, n)' = Parents(wf, n)
      /\ node_row \in [Nodes -> NodeRowStatuses]
      /\ pc \in Executing => pos <= Len(order)
  BY SortTypesKept DEF RouteInv, RunInv, Nodes, Parents, TypeOK, LoopPosition
<1>2. ASSUME NEW n \in Nodes, IsDecided(n) \/ (n = node /\ pos <= Len(order))
      PROVE  ShouldExecute(wf, node_status, n)' <=> ShouldExecute(wf, node_status, n)
  BY <1>1, <1>2, ParentsAreDecided, VerdictIsFinal
<1>3. ASSUME NEW n \in Nodes, node_row'[n] \in {"running", "completed", "failed"}, Parents(wf, n) # {}
      PROVE  ShouldExecute(wf, node_status, n)'
  <2>1. CASE node_row[n] \in {"running", "completed", "failed"}
    <3>1. IsDecided(n) \/ (n = node /\ pos <= Len(order))
      BY <1>1, <2>1 DEF RouteInv, RowsStarted, None
    <3>2. ShouldExecute(wf, node_status, n)
      BY <1>3, <2>1 DEF RouteInv, RoutedSoFar
    <3>3. QED
      BY <1>2, <3>1, <3>2
  <2>2. CASE node_row[n] \notin {"running", "completed", "failed"} /\ StartNode
    <3>1. n = node /\ AtNode /\ ~Blocked
      BY <1>1, <1>3, <2>2 DEF StartNode
    <3>2. QED
      BY <1>2, <1>3, <3>1 DEF Blocked, AtNode
  <2>3. CASE node_row[n] \notin {"running", "completed", "failed"} /\ RecordNode
    <3>1. n = node /\ pc = "record" /\ node_row'[n] = RowStatusOf(node_status[node])
      BY <1>1, <1>3, <2>3 DEF RecordNode, Recorded
    <3>2. node_status[node] # "skipped"
      BY <1>3, <3>1 DEF RowStatusOf
    <3>3. QED
      BY <2>3, <3>1, <3>2 DEF RouteInv, RowsStarted
  <2>4. QED
    BY <1>1, <1>3, <2>1, <2>2, <2>3, StaysAtTheNode
<1>4. ASSUME NEW n \in Nodes, node_status'[n] = "skipped", n \notin wf.denied
      PROVE  Parents(wf, n) # {} /\ ~ShouldExecute(wf, node_status, n)'
  <2>1. CASE node_status[n] = "skipped"
    <3>1. IsDecided(n)
      BY <2>1 DEF IsDecided, Undecided
    <3>2. QED
      BY <1>2, <1>4, <2>1, <3>1 DEF RouteInv, RoutedSoFar
  <2>2. CASE node_status[n] # "skipped"
    <3>1. n = node /\ AtNode /\ Blocked
      BY <1>1, <1>4, <2>2, SkippedFor
    <3>2. QED
      BY <1>2, <3>1 DEF Blocked, AtNode
  <2>3. QED
    BY <2>1, <2>2
<1>5. QED
  BY <1>1, <1>3, <1>4 DEF RoutedSoFar

\* What the labels of the edges say of the nodes they join, in the words of
\* the builder.
LEMMA LiveIsReached ==
  ASSUME IsDefinition(wf), NEW n \in Nodes, NEW p \in Parents(wf, n), node_status[p] \in Statuses
  PROVE  /\ IsEdgeLive(wf.branch[<<p, n>>], StatusOr(node_status, p)) => Reached(p, n)
         /\ wf.branch[<<p, n>>] \in {Unlabelled, "true", "false", "error"} /\ Reached(p, n)
              => IsEdgeLive(wf.branch[<<p, n>>], StatusOr(node_status, p))
<1> DEFINE label == wf.branch[<<p, n>>]
           s == node_status[p]
<1>1. /\ label \in Labels \cup {Unlabelled} /\ s \in Statuses
      /\ StatusOr(node_status, p) = s
  BY UndecidedIsNoStatus DEF IsDefinition, Parents, StatusOr
<1>2. /\ SwitchStatuses \cap { "success", "error", "skipped", "true_branch", "false_branch", Undecided } = {}
      /\ label \in Labels => SwitchStatus(label) \in SwitchStatuses
  BY SwitchStatusesAssumption DEF SwitchStatuses
<1> HIDE DEF s, label
<1>3. ASSUME IsEdgeLive(label, s)
      PROVE  /\ s \notin {Undecided, "skipped"}
             /\ label = "error" <=> s = "error"
             /\ label = "true" => s = "true_branch"
             /\ label = "false" => s = "false_branch"
  BY <1>1, <1>2, <1>3 DEF IsEdgeLive, Succeeded, Reserved, Unlabelled, Undecided
<1>4. ASSUME label \in {Unlabelled, "true", "false", "error"},
             s \notin {Undecided, "skipped"},
             label = "error" <=> s = "error",
             label = "true" => s = "true_branch",
             label = "false" => s = "false_branch"
      PROVE  IsEdgeLive(label, s)
  BY <1>1, <1>4 DEF IsEdgeLive, Succeeded, Statuses, Unlabelled
<1>5. QED
  BY <1>1, <1>3, <1>4 DEF Reached, s, label

LEMMA RoutedIsRespected == RouteInv => RoutingRespected
<1> SUFFICES ASSUME RouteInv, NEW n \in Nodes
             PROVE  /\ node_row[n] \in {"running", "completed", "failed"} /\ Parents(wf, n) # {}
                         => \E p \in Parents(wf, n) : Reached(p, n)
                    /\ node_status[n] = "skipped" /\ n \notin wf.denied
                         => /\ Parents(wf, n) # {}
                            /\ \A p \in Parents(wf, n) :
                                 wf.branch[<<p, n>>] \in {Unlabelled, "true", "false", "error"} => ~Reached(p, n)
  BY DEF RoutingRespected
<1>1. /\ RunInv /\ IsDefinition(wf)
      /\ node_status \in [Nodes -> Statuses \cup {Undecided}]
      /\ pc \in Executing => pos <= Len(order)
  BY DEF RouteInv, RunInv, TypeOK, SortTypeOK, LoopPosition
<1>2. ASSUME node_row[n] \in {"running", "completed", "failed"} \/ node_status[n] = "skipped",
             NEW p \in Parents(wf, n)
      PROVE  node_status[p] \in Statuses
  <2>1. IsDecided(n) \/ (n = node /\ pos <= Len(order))
    BY <1>1, <1>2 DEF RouteInv, RowsStarted, None, IsDecided, Undecided
  <2>2. IsDecided(p) /\ p \in Nodes
    BY <1>1, <2>1, ParentsAreDecided
  <2>3. QED
    BY <1>1, <2>2 DEF IsDecided
<1>3. CASE node_row[n] \in {"running", "completed", "failed"} /\ Parents(wf, n) # {}
  <2>1. PICK p \in Parents(wf, n) : IsEdgeLive(wf.branch[<<p, n>>], StatusOr(node_status, p))
    BY <1>3 DEF RouteInv, RoutedSoFar, ShouldExecute
  <2>2. Reached(p, n)
    BY <1>1, <1>2, <1>3, <2>1, LiveIsReached
  <2>3. node_status[n] # "skipped" \/ n \in wf.denied
    BY <1>3 DEF RouteInv, RoutedSoFar
  <2>4. QED
    BY <2>2, <2>3
<1>4. ASSUME node_status[n] = "skipped", n \notin wf.denied
      PROVE  /\ Parents(wf, n) # {}
             /\ \A p \in Parents(wf, n) :
                  wf.branch[<<p, n>>] \in {Unlabelled, "true", "false", "error"} => ~Reached(p, n)
  BY <1>1, <1>2, <1>4, LiveIsReached DEF RouteInv, RoutedSoFar, ShouldExecute
<1>5. QED
  BY <1>3, <1>4

LEMMA RouteInvInit == Init => RouteInv
BY RunInvInit DEF Init, RouteInv, RowsStarted, RoutedSoFar, Executing, None, Undecided, Nodes

\* The nodes that a run started were each reached along an edge that the
\* builder would call taken, and it skipped none that was, unless denied.
THEOREM RunRespectsRouting == Spec => []RoutingRespected
<1>1. RouteInv /\ [Next]_vars => RouteInv'
  BY RunInvStep, RowsStartedStep, RoutedStep DEF RouteInv
<1>2. QED
  BY RouteInvInit, RoutedIsRespected, <1>1, PTL DEF Spec

\* A run orders, and so executes, the nodes that no cycle holds back and only
\* those.
THEOREM RunOrdersTheAcyclicPart == Spec => []OrdersTheAcyclicPart
<1>1. RunInv => OrdersTheAcyclicPart
  BY SortInvAcyclic DEF RunInv
<1>2. QED
  BY RunInvInit, RunInvStep, <1>1, PTL DEF Spec

-----------------------------------------------------------------------------
(* Refinement: the run implements the contract.                            *)

LEMMA SameVerdicts ==
  ASSUME NEW n
  PROVE  /\ Contract!Fatal(wf, n) <=> Fatal(wf, n)
         /\ Contract!Parents(wf, n) = Parents(wf, n)
         /\ Contract!ShouldExecute(wf, node_status, n) <=> ShouldExecute(wf, node_status, n)
         /\ Contract!Outcomes(wf, n) = Outcomes(wf, n)
         /\ Contract!Undecided = Undecided
<1>1. \A l : Contract!SwitchStatus(l) = SwitchStatus(l)
  BY DEF Contract!SwitchStatus, SwitchStatus
<1>2. /\ Contract!SwitchStatuses = SwitchStatuses
      /\ Contract!Undecided = Undecided /\ Contract!Unlabelled = Unlabelled
  BY <1>1 DEF Contract!SwitchStatuses, SwitchStatuses, Contract!Undecided, Undecided,
     Contract!Unlabelled, Unlabelled
<1>3. /\ \A m : Contract!Parents(wf, m) = Parents(wf, m)
      /\ \A m : Contract!Children(wf, m) = Children(wf, m)
  BY DEF Contract!Parents, Parents, Contract!Children, Children
<1>4. \A l, s : Contract!IsEdgeLive(l, s) <=> IsEdgeLive(l, s)
  BY <1>1, <1>2 DEF Contract!IsEdgeLive, IsEdgeLive, Contract!Succeeded, Succeeded,
     Contract!Reserved, Reserved
<1>5. \A p : Contract!StatusOr(node_status, p) = StatusOr(node_status, p)
  BY <1>2 DEF Contract!StatusOr, StatusOr
<1>6. Contract!ShouldExecute(wf, node_status, n) <=> ShouldExecute(wf, node_status, n)
  BY <1>3, <1>4, <1>5 DEF Contract!ShouldExecute, ShouldExecute
<1>7. Contract!Fatal(wf, n) <=> Fatal(wf, n)
  BY <1>3 DEF Contract!Fatal, Fatal, Contract!HasErrorEdges, HasErrorEdges,
     Contract!ReRaising, ReRaising
<1>8. Contract!Outcomes(wf, n) = Outcomes(wf, n)
  BY <1>1 DEF Contract!Outcomes, Outcomes
<1>9. QED
  BY <1>2, <1>3, <1>6, <1>7, <1>8
\* Deciding the node at pos as the contract allows is a Decide of the contract.
LEMMA DecideSimulation ==
  ASSUME RunInv, wf' = wf, result' = result,
         pos <= Len(order), pc \notin AfterDecision,
         NEW s \in Contract!Verdicts(node), node_status' = [node_status EXCEPT ![node] = s]
  PROVE  Contract!Decide(node) /\ node \in Nodes
<1>1. /\ node \in Nodes /\ order[pos] = node /\ pos \in 1 .. Len(order)
      /\ ~IsDecided(node)
  BY NodeAtPos DEF RunInv, DecidedSoFar, SortInv, NoRepeats, TypeOK, node
<1>2. \A p \in Parents(wf, node) : IsDecided(p)
  BY <1>1 DEF RunInv, SortInv, ParentsFirst, DecidedSoFar
<1>3. Contract!Ready(node)
  BY <1>1, <1>2, SameVerdicts DEF Contract!Ready, IsDecided
<1>4. ~Contract!Doomed
  BY SameVerdicts DEF Contract!Doomed, RunInv, NoHiddenFatal, Nodes
<1>5. result = "none"
  BY DEF RunInv, Returned, AfterDecision, None
<1>6. QED
  BY <1>1, <1>3, <1>4, <1>5 DEF Contract!Decide

\* Once the loop has ended without a fatal error, nothing is left to decide.
LEMMA CompleteSimulation ==
  ASSUME RunInv, wf' = wf, node_status' = node_status, result' = "completed",
         pc \in {"loop", "notify"}, pos > Len(order)
  PROVE  Contract!Complete
<1>1. result = "none" /\ Sorted
  BY DEF RunInv, Returned, LoopPosition, None
<1>2. ~Contract!Doomed
  BY SameVerdicts DEF Contract!Doomed, RunInv, NoHiddenFatal, AfterDecision, Nodes
<1>3. \A n \in Nodes : IsDecided(n) <=> n \in Elements(order)
  <2>1. /\ \A i \in 1 .. pos - 1 : IsDecided(order[i])
        /\ \A n \in Nodes : IsDecided(n) => \E i \in 1 .. Len(order) : order[i] = n
    BY DEF RunInv, DecidedSoFar
  <2>2. \A i \in 1 .. Len(order) : i \in 1 .. pos - 1
    BY DEF RunInv, TypeOK, SortTypeOK
  <2>3. QED
    BY <2>1, <2>2 DEF Elements
<1>4. ASSUME NEW n \in Nodes PROVE ~Contract!Ready(n)
  <2>1. CASE IsDecided(n)
    BY <2>1, SameVerdicts DEF Contract!Ready, IsDecided
  <2>2. CASE ~IsDecided(n)
    <3>1. Parents(wf, n) \ Elements(order) # {} /\ Parents(wf, n) \subseteq Nodes
      BY <1>1, <1>3, <2>2, SortInvComplete DEF RunInv, OnlyCyclesLeftOut, Parents, Nodes
    <3>2. \E p \in Parents(wf, n) : ~IsDecided(p)
      BY <1>3, <3>1
    <3>3. QED
      BY <3>2, SameVerdicts DEF Contract!Ready, IsDecided
  <2>3. QED
    BY <2>1, <2>2
<1>5. QED
  BY <1>1, <1>2, <1>4 DEF Contract!Complete, Nodes

LEMMA ContractInit == Init => Contract!Init
BY SameVerdicts DEF Init, SortStart, Contract!Init, Nodes, None

LEMMA ContractStep ==
  ASSUME RunInv, [Next]_vars
  PROVE  [Contract!Next]_(Contract!contractVars)
<1> USE DEF Goto, Return, UpdateExecution
<1>1. /\ wf' = wf
      /\ pc \in Executing \cup {"record"} => pos <= Len(order)
      /\ pc # "end" => result = "none"
      /\ Started /\ DenialsKept
      /\ pc = "notify" => pos > Len(order)
      /\ IsDefinition(wf)
  BY SortTypesKept DEF RunInv, LoopPosition, Returned, None, TypeOK, SortTypeOK
<1>2. ASSUME pos <= Len(order), pc \notin AfterDecision, result' = result,
             NEW s \in Contract!Verdicts(node), node_status' = [node_status EXCEPT ![node] = s]
      PROVE  Contract!Next
  <2>1. Contract!Decide(node) /\ node \in wf.nodes
    BY <1>1, <1>2, DecideSimulation DEF Nodes
  <2>2. QED
    BY <2>1 DEF Contract!Next
<1>3. ASSUME pc \in {"loop", "notify"}, pos > Len(order), result' = "completed",
             node_status' = node_status
      PROVE  Contract!Next
  BY <1>1, <1>3, CompleteSimulation DEF Contract!Next
<1>4. ASSUME pc # "end", result' \in {"failed", "raised"}, node_status' = node_status
      PROVE  Contract!Next
  BY <1>1, <1>4 DEF Contract!Next, Contract!Fail
<1>5. ASSUME result' = result, node_status' = node_status
      PROVE  UNCHANGED Contract!contractVars
  BY <1>1, <1>5 DEF Contract!contractVars
<1>6. pc \in Executing /\ node \notin wf.denied => Contract!Verdicts(node) = Outcomes(wf, node)
  BY <1>1, SameVerdicts DEF Contract!Verdicts, Started, Blocked
<1>7. CASE LoadDefinition
  BY <1>4, <1>5, <1>7 DEF LoadDefinition
<1>8. CASE MarkRunning
  BY <1>4, <1>5, <1>8 DEF MarkRunning
<1>9. CASE SortStep \/ StartLoop \/ StartNode
  BY <1>5, <1>9 DEF SortStep, StartLoop, StartNode, runVars
<1>10. CASE PassTrigger
  <2>1. "success" \in Contract!Verdicts(node)
    BY <1>10 DEF PassTrigger, Contract!Verdicts
  <2>2. QED
    BY <1>2, <1>10, <2>1 DEF PassTrigger, AtNode, AfterDecision
<1>11. CASE SkipNode
  <2>1. "skipped" \in Contract!Verdicts(node)
    BY <1>11, SameVerdicts DEF SkipNode, Blocked, Contract!Verdicts
  <2>2. QED
    BY <1>2, <1>11, <2>1 DEF SkipNode, AtNode, AfterDecision
<1>12. CASE DenyNode
  <2>1. "skipped" \in Contract!Verdicts(node)
    BY <1>1, <1>12, SameVerdicts DEF DenyNode, Contract!Verdicts, Started, Executing
  <2>2. QED
    BY <1>1, <1>2, <1>12, <2>1 DEF DenyNode, Decided, AfterDecision, Executing
<1>13. CASE RouteNode
  <2>1. PICK s \in Contract!Verdicts(node) : Decided(s)
    BY <1>6, <1>13 DEF RouteNode, Allowed, Executing
  <2>2. QED
    BY <1>1, <1>2, <1>13, <2>1 DEF RouteNode, Decided, AfterDecision, Executing
<1>14. CASE WorkNode
  <2>1. Outcomes(wf, node) = {"success", "error"}
    BY <1>14 DEF WorkNode, Outcomes
  <2>2. PICK s \in Contract!Verdicts(node) : Decided(s)
    BY <1>6, <1>14, <2>1 DEF WorkNode, Allowed, Executing
  <2>3. QED
    BY <1>1, <1>2, <1>14, <2>2 DEF WorkNode, Decided, AfterDecision, Executing
<1>15. CASE RequestApproval \/ SendApprovalEmail \/ ResumeApproval \/ TimeOutApproval
  <2>1. /\ pc \in Executing /\ node \notin wf.denied /\ wf.type[node] = "wait_approval"
        /\ result' = result
    BY <1>1, <1>15 DEF RequestApproval, SendApprovalEmail, ResumeApproval, TimeOutApproval,
      Allowed, Started, DenialsKept, Executing
  <2>2. Contract!Verdicts(node) = {"true_branch", "false_branch", "error"}
    BY <1>6, <2>1 DEF Outcomes
  <2>3. node_status' = node_status \/ \E s \in Contract!Verdicts(node) : Decided(s)
    BY <1>15, <2>2 DEF RequestApproval, SendApprovalEmail, ResumeApproval, TimeOutApproval,
      ApprovalBranch
  <2>4. QED
    BY <1>1, <1>2, <1>5, <2>1, <2>3 DEF Decided, AfterDecision, Executing
<1>16. CASE RecordNode
  BY <1>5, <1>16 DEF RecordNode
<1>17. CASE MarkCompleted
  BY <1>3, <1>5, <1>17 DEF MarkCompleted, LoopEnded
<1>18. CASE NotifyCompletion
  BY <1>1, <1>3, <1>5, <1>18 DEF NotifyCompletion
<1>19. CASE MarkFailed
  BY <1>4, <1>5, <1>19 DEF MarkFailed
<1>20. CASE NotifyFailure
  BY <1>4, <1>20 DEF NotifyFailure
<1>21. ASSUME NEW action \in {"approved", "rejected"}, Approve(action)
       PROVE  UNCHANGED Contract!contractVars
  BY <1>5, <1>21 DEF Approve
<1>22. CASE UNCHANGED vars
  BY <1>5, <1>22 DEF vars, runVars
<1>23. QED
  BY <1>7, <1>8, <1>9, <1>10, <1>11, <1>12, <1>13, <1>14, <1>15, <1>16, <1>17, <1>18, <1>19,
     <1>20, <1>21, <1>22 DEF Next, Step

\* Whatever the graph, the run is a dataflow evaluation of it.
THEOREM RunImplementsContract == Spec => ImplementsContract
BY ContractInit, ContractStep, RunInvInit, RunInvStep, PTL DEF Spec, ImplementsContract, Contract!Spec
=============================================================================
