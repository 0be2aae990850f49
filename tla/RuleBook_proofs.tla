---------------------------- MODULE RuleBook_proofs ----------------------------
(***************************************************************************)
(* That the cache of rules is fresh except for a race that it records,     *)
(* that a rule is approved by everybody required, that its history is      *)
(* kept, and that decisions stand unless contested, for any number of      *)
(* requests, evaluators, approvers and approval requests.                  *)
(***************************************************************************)
EXTENDS RuleBook, WellFoundedInduction, TLAPS

Fields == {"at", "status", "content", "snapshot", "inserts", "supersedes", "decides", "verdict", "by", "voter",
           "cached", "early", "invalidated", "locked"}

Writes(t) == t.status # Same \/ t.content # Same

\* tx is a function to records, of which nothing else is needed.
Shape ==
  /\ DOMAIN tx = Requests
  /\ \A r \in Requests : DOMAIN tx[r] = Fields

\* What is read from the rule, before the cache learns of it.
Held(value) == value \notin {None, Missed}

CacheInv ==
  /\ Shape
  /\ DOMAIN evaluator = Evaluators
  /\ \A r \in Requests : Writes(tx[r]) => tx[r].cached
  /\ CacheIsFresh
  /\ \A e \in Evaluators : Held(evaluator[e].value) => evaluator[e].raced \/ evaluator[e].value = Visible
  /\ InvalidatedTooEarly =>
       /\ cache.raced \/ cache.value = Empty
       /\ \A e \in Evaluators : Held(evaluator[e].value) => evaluator[e].raced

LEMMA IdleFacts ==
  /\ DOMAIN Idle = Fields
  /\ Idle.at = "idle" /\ Idle.status = Same /\ Idle.content = Same
  /\ ~Idle.cached /\ ~Idle.invalidated
  /\ Idle.by = {} /\ Idle.voter = {} /\ Idle.decides = None /\ Idle.verdict = Same
BY DEF Idle, Fields

\* What the handlers leave in tx: a record that has not invalidated, and that
\* is going to if it writes the rule.
Begun(t) ==
  /\ DOMAIN t = Fields
  /\ Writes(t) => t.cached
  /\ ~t.invalidated

LEMMA HandlersBegin ==
  ASSUME NEW r \in Requests, Handle(r)
  PROVE  \E t : Begun(t) /\ tx' = [tx EXCEPT ![r] = t] /\ UNCHANGED <<ruleVars, cacheVars>>
<1>1. ASSUME NEW t, DOMAIN t = Fields, Writes(t) => t.cached, ~t.invalidated, Open(r, t)
      PROVE  \E u : Begun(u) /\ tx' = [tx EXCEPT ![r] = u] /\ UNCHANGED <<ruleVars, cacheVars>>
  <2> DEFINE u == [t EXCEPT !.at = "open"]
  <2>1. DOMAIN u = Fields /\ u.status = t.status /\ u.content = t.content /\ u.cached = t.cached
        /\ u.invalidated = t.invalidated
    BY <1>1 DEF Fields
  <2>2. Begun(u)
    BY <1>1, <2>1 DEF Begun, Writes
  <2>3. tx' = [tx EXCEPT ![r] = u] /\ UNCHANGED <<ruleVars, cacheVars>>
    BY <1>1 DEF Open
  <2> QED BY <2>2, <2>3
<1>2. ASSUME NEW status, NEW content, NEW old, Open(r, Versioned(status, content, old))
      PROVE  \E u : Begun(u) /\ tx' = [tx EXCEPT ![r] = u] /\ UNCHANGED <<ruleVars, cacheVars>>
  <2>1. LET t == Versioned(status, content, old)
        IN DOMAIN t = Fields /\ t.cached /\ ~t.invalidated
    BY DEF Versioned, Mutation, Idle, Fields
  <2> QED BY <1>1, <1>2, <2>1
<1>3. ASSUME NEW content \in Contents, NEW status \in {"draft", "published"}, Edit(r, status, content)
      PROVE  \E t : Begun(t) /\ tx' = [tx EXCEPT ![r] = t] /\ UNCHANGED <<ruleVars, cacheVars>>
  BY <1>2, <1>3 DEF Edit
<1>4. ASSUME NEW v \in versions, Restore(r, v)
      PROVE  \E t : Begun(t) /\ tx' = [tx EXCEPT ![r] = t] /\ UNCHANGED <<ruleVars, cacheVars>>
  BY <1>2, <1>4 DEF Restore
<1>5. ASSUME NEW status \in {"draft", "published"}, SetStatus(r, status)
      PROVE  \E t : Begun(t) /\ tx' = [tx EXCEPT ![r] = t] /\ UNCHANGED <<ruleVars, cacheVars>>
  <2>1. LET t == [Mutation EXCEPT !.status = Assigned(status, rule.status)]
        IN DOMAIN t = Fields /\ t.cached /\ ~t.invalidated
    BY DEF Mutation, Idle, Fields
  <2> QED BY <1>1, <1>5, <2>1 DEF SetStatus
<1>6. CASE Delete(r)
  <2>1. LET t == [Mutation EXCEPT !.status = "deleted", !.early = TRUE]
        IN DOMAIN t = Fields /\ t.cached /\ ~t.invalidated
    BY DEF Mutation, Idle, Fields
  <2> QED BY <1>1, <1>6, <2>1 DEF Delete
<1>7. ASSUME NEW i \in Approvals, RequestApproval(r, i)
      PROVE  \E t : Begun(t) /\ tx' = [tx EXCEPT ![r] = t] /\ UNCHANGED <<ruleVars, cacheVars>>
  <2>1. LET t == [Idle EXCEPT !.inserts = i,
                              !.supersedes = { j \in Approvals : approval[j].status = "pending" }]
        IN DOMAIN t = Fields /\ ~Writes(t) /\ ~t.invalidated
    BY DEF Idle, Fields, Writes
  <2> QED BY <1>1, <1>7, <2>1 DEF RequestApproval
<1>8. ASSUME NEW i \in Approvals, NEW u \in Users, Approve(r, i, u)
      PROVE  \E t : Begun(t) /\ tx' = [tx EXCEPT ![r] = t] /\ UNCHANGED <<ruleVars, cacheVars>>
  <2> DEFINE by == approval[i].by \cup {u}
             t == [Idle EXCEPT !.decides = i, !.voter = {u},
                               !.by = IF u \in approval[i].by THEN {} ELSE by,
                               !.verdict = IF AllRequired(by) THEN "approved" ELSE Same]
  <2>1. DOMAIN t = Fields /\ ~Writes(t) /\ ~t.invalidated
    BY DEF Idle, Fields, Writes
  <2>2. Open(r, t)
    BY <1>8 DEF Approve
  <2> QED BY <1>1, <2>1, <2>2
<1>9. ASSUME NEW i \in Approvals, Reject(r, i)
      PROVE  \E t : Begun(t) /\ tx' = [tx EXCEPT ![r] = t] /\ UNCHANGED <<ruleVars, cacheVars>>
  <2>1. LET t == [Idle EXCEPT !.decides = i, !.verdict = "rejected"]
        IN DOMAIN t = Fields /\ ~Writes(t) /\ ~t.invalidated
    BY DEF Idle, Fields, Writes
  <2> QED BY <1>1, <1>9, <2>1 DEF Reject
<1> QED BY <1>3, <1>4, <1>5, <1>6, <1>7, <1>8, <1>9 DEF Handle

LEMMA CacheInvInit == Init => CacheInv
<1> SUFFICES ASSUME Init PROVE CacheInv
  OBVIOUS
<1>1. \A r \in Requests : tx[r] = Idle
  BY DEF Init
<1>2. cache.value = Empty /\ \A e \in Evaluators : evaluator[e].value = None
  BY DEF Init, Entry
<1> QED BY <1>1, <1>2, IdleFacts DEF Init, CacheInv, Shape, Writes, CacheIsFresh, Held, InvalidatedTooEarly

\* A step that changes neither the rule nor the cache, and that lets no
\* request be invalidated that was not.
LEMMA Undisturbed ==
  ASSUME CacheInv, Shape', UNCHANGED <<rule, cacheVars>>,
         \A r \in Requests : Writes(tx'[r]) => tx'[r].cached,
         \A r \in Requests : tx'[r].at = "open" /\ tx'[r].invalidated => tx[r].at = "open" /\ tx[r].invalidated
  PROVE  CacheInv'
BY DEF CacheInv, cacheVars, CacheIsFresh, Visible, InvalidatedTooEarly, Held

LEMMA CacheInvNext == CacheInv /\ [Next]_vars => CacheInv'
<1> SUFFICES ASSUME CacheInv, [Next]_vars PROVE CacheInv'
  OBVIOUS
<1> USE DEF CacheInv
<1>1. ASSUME NEW r \in Requests, Handle(r) PROVE CacheInv'
  <2>1. PICK t : Begun(t) /\ tx' = [tx EXCEPT ![r] = t] /\ UNCHANGED <<ruleVars, cacheVars>>
    BY <1>1, HandlersBegin
  <2>2. \A q \in Requests : tx'[q] = IF q = r THEN t ELSE tx[q]
    BY <2>1 DEF Shape
  <2>3. Shape' /\ UNCHANGED rule
    BY <2>1, <2>2 DEF Shape, Begun, ruleVars
  <2> QED BY <2>1, <2>2, <2>3, Undisturbed DEF Begun
<1>2. ASSUME NEW r \in Requests, Flush(r) PROVE CacheInv'
  <2>1. \A q \in Requests : /\ tx'[q].at = tx[q].at /\ tx'[q].status = tx[q].status
                            /\ tx'[q].content = tx[q].content /\ tx'[q].cached = tx[q].cached
                            /\ tx'[q].invalidated = tx[q].invalidated
    BY <1>2 DEF Flush, Shape, Fields
  <2>2. Shape' /\ UNCHANGED <<rule, cacheVars>>
    BY <1>2 DEF Flush, Shape, ruleVars
  <2> QED BY <2>1, <2>2, Undisturbed DEF Writes
<1>3. ASSUME NEW r \in Requests, Publish(r) PROVE CacheInv'
  <2>1. \A q \in Requests : /\ tx'[q].at = tx[q].at /\ tx'[q].invalidated = tx[q].invalidated
                            /\ q = r => tx'[q].cached
                            /\ q # r => tx'[q] = tx[q]
    BY <1>3 DEF Publish, Shape, Fields
  <2>2. Shape' /\ UNCHANGED <<rule, cacheVars>>
    BY <1>3 DEF Publish, Shape, ruleVars
  <2> QED BY <2>1, <2>2, Undisturbed
<1>4. ASSUME NEW r \in Requests, Invalidate(r) PROVE CacheInv'
  <2>1. \A q \in Requests : /\ tx'[q].status = tx[q].status /\ tx'[q].content = tx[q].content
                            /\ tx'[q].cached = tx[q].cached
    BY <1>4 DEF Invalidate, Shape, Fields
  <2>2. Shape'
    BY <1>4 DEF Invalidate, Shape
  <2>3. cache'.value = Empty /\ DOMAIN evaluator' = Evaluators
    BY <1>4 DEF Invalidate, EmptyAndRaced, Entry
  <2>4. \A e \in Evaluators : evaluator'[e].value = evaluator[e].value
                              /\ (Held(evaluator[e].value) => evaluator'[e].raced)
    BY <1>4 DEF Invalidate, EmptyAndRaced, Entry, Held
  <2> QED BY <2>1, <2>2, <2>3, <2>4 DEF Writes, CacheIsFresh, Held
<1>5. ASSUME NEW r \in Requests, Commit(r) PROVE CacheInv'
  <2>1. \A q \in Requests : tx'[q] = IF q = r THEN Over("committed") ELSE tx[q]
    BY <1>5 DEF Commit, Shape
  <2>2. DOMAIN Over("committed") = Fields /\ Over("committed").at = "committed" /\ ~Writes(Over("committed"))
    BY IdleFacts DEF Over, Fields, Writes
  <2>3. Shape' /\ UNCHANGED cacheVars
    BY <1>5, <2>1, <2>2 DEF Commit, Shape
  <2>4. CASE Writes(tx[r])
    <3>1. InvalidatedTooEarly
      BY <1>5, <2>4 DEF Commit, Committable, InvalidatedTooEarly
    <3>2. cache.raced \/ cache.value = Empty
      BY <3>1
    <3>3. \A e \in Evaluators : Held(evaluator[e].value) => evaluator[e].raced
      BY <3>1
    <3> QED BY <2>1, <2>2, <2>3, <3>2, <3>3 DEF cacheVars, CacheIsFresh
  <2>5. CASE ~Writes(tx[r])
    <3>1. Visible' = Visible
      BY <1>5, <2>5 DEF Commit, Writes, Written, Visible
    <3>2. InvalidatedTooEarly' => InvalidatedTooEarly
      BY <2>1, <2>2 DEF InvalidatedTooEarly
    <3> QED BY <2>1, <2>2, <2>3, <3>1, <3>2 DEF cacheVars, CacheIsFresh
  <2> QED BY <2>4, <2>5
<1>6. ASSUME NEW r \in Requests, Fail(r) PROVE CacheInv'
  <2>1. \A q \in Requests : tx'[q] = IF q = r THEN Over("failed") ELSE tx[q]
    BY <1>6 DEF Fail, Shape
  <2>2. DOMAIN Over("failed") = Fields /\ Over("failed").at = "failed" /\ ~Writes(Over("failed"))
    BY IdleFacts DEF Over, Fields, Writes
  <2>3. Shape' /\ UNCHANGED <<rule, cacheVars>>
    BY <1>6, <2>1, <2>2 DEF Fail, Shape, ruleVars
  <2> QED BY <2>1, <2>2, <2>3, Undisturbed
<1>7. ASSUME NEW e \in Evaluators, Miss(e) PROVE CacheInv'
  <2>1. \A f \in Evaluators : evaluator'[f] = IF f = e THEN Entry(Missed, FALSE) ELSE evaluator[f]
    BY <1>7 DEF Miss
  <2>2. Entry(Missed, FALSE).value = Missed
    BY DEF Entry
  <2> QED BY <1>7, <2>1, <2>2 DEF Miss, ruleVars, Shape, CacheIsFresh, Visible, Held, InvalidatedTooEarly, Writes
<1>8. ASSUME NEW e \in Evaluators, Load(e) PROVE CacheInv'
  <2>1. \A f \in Evaluators : evaluator'[f] = IF f = e THEN Entry(Visible, InvalidatedTooEarly) ELSE evaluator[f]
    BY <1>8 DEF Load
  <2>2. /\ Entry(Visible, InvalidatedTooEarly).value = Visible
        /\ Entry(Visible, InvalidatedTooEarly).raced <=> InvalidatedTooEarly
    BY DEF Entry
  <2>3. Visible' = Visible /\ (InvalidatedTooEarly' <=> InvalidatedTooEarly)
    BY <1>8 DEF Load, ruleVars, Visible, InvalidatedTooEarly
  <2> QED BY <1>8, <2>1, <2>2, <2>3 DEF Load, ruleVars, Shape, CacheIsFresh, Held, Writes
<1>9. ASSUME NEW e \in Evaluators, Fill(e) PROVE CacheInv'
  <2>1. \A f \in Evaluators : evaluator'[f] = IF f = e THEN Entry(None, FALSE) ELSE evaluator[f]
    BY <1>9 DEF Fill
  <2>2. Entry(None, FALSE).value = None
    BY DEF Entry
  <2>3. cache' = evaluator[e] \/ cache' = cache
    BY <1>9 DEF Fill
  <2>4. Held(evaluator[e].value)
    BY <1>9 DEF Fill, Held
  <2>5. Visible' = Visible /\ (InvalidatedTooEarly' <=> InvalidatedTooEarly)
    BY <1>9 DEF Fill, ruleVars, Visible, InvalidatedTooEarly
  <2>6. CacheIsFresh' /\ (InvalidatedTooEarly' => cache'.raced \/ cache'.value = Empty)
    BY <2>3, <2>4, <2>5 DEF CacheIsFresh
  <2> QED BY <1>9, <2>1, <2>2, <2>5, <2>6 DEF Fill, Shape, Held, Writes
<1>10. CASE Expire
  <2>1. cache'.value = Empty
    BY <1>10 DEF Expire, Entry
  <2> QED BY <1>10, <2>1 DEF Expire, ruleVars, Shape, CacheIsFresh, Visible, Held, InvalidatedTooEarly, Writes
<1>11. CASE UNCHANGED vars
  BY <1>11 DEF vars, ruleVars, cacheVars, Shape, CacheIsFresh, Visible, Held, InvalidatedTooEarly, Writes
<1> QED BY <1>1, <1>2, <1>3, <1>4, <1>5, <1>6, <1>7, <1>8, <1>9, <1>10, <1>11 DEF Next, Transact, Evaluate

\* Whatever requests and evaluators do at the same time, a rule is evaluated
\* as it was last committed, unless the entry of the cache was read in the
\* window between an invalidation and its commit.
THEOREM RulesAreEvaluatedFresh == Spec => []CacheIsFresh
<1>1. CacheInv => CacheIsFresh
  BY DEF CacheInv
<1> QED BY <1>1, CacheInvInit, CacheInvNext, PTL DEF Spec

-----------------------------------------------------------------------------
(* Approvals.                                                              *)

\* u voted for i, or is about to have by committing t.
Voted(t, u) == <<u, t.decides>> \in said \/ u \in t.voter

\* A request never writes back a vote that nobody cast, nor concludes before
\* all the required votes are cast, its own included.
HonestTx(t) ==
  /\ \A u \in t.by : Voted(t, u)
  /\ t.verdict = "approved" => \A u \in Required : Voted(t, u)

VotesInv ==
  /\ Shape
  /\ DOMAIN approval = Approvals
  /\ \A r \in Requests : HonestTx(tx[r])
  /\ \A i \in Approvals : \A u \in approval[i].by : <<u, i>> \in said
  /\ ApprovedByEveryone

LEMMA VotesInvInit == Init => VotesInv
<1> SUFFICES ASSUME Init PROVE VotesInv
  OBVIOUS
<1>1. \A r \in Requests : tx[r] = Idle
  BY DEF Init
<1>2. DOMAIN approval = Approvals /\ \A i \in Approvals : approval[i].status \in {None, "pending"}
  BY DEF Init, NoRow
<1>3. \A i \in Approvals : \A u \in approval[i].by : <<u, i>> \in said
  <2> SUFFICES ASSUME NEW i \in Approvals, NEW u \in approval[i].by PROVE <<u, i>> \in said
    OBVIOUS
  <2>1. <<u, i>> \in approval[i].by \X {i}
    OBVIOUS
  <2> QED BY <2>1 DEF Init
<1>4. Shape
  BY <1>1, IdleFacts DEF Init, Shape
<1>5. \A r \in Requests : HonestTx(tx[r])
  BY <1>1, IdleFacts DEF HonestTx, Same
<1> QED BY <1>2, <1>3, <1>4, <1>5 DEF VotesInv, ApprovedByEveryone, None

\* The handlers leave an honest request, given that the votes in the rows are.
LEMMA HandlersAreHonest ==
  ASSUME VotesInv, NEW r \in Requests, Handle(r)
  PROVE  /\ UNCHANGED ruleVars
         /\ \E t : HonestTx(t) /\ DOMAIN t = Fields /\ tx' = [tx EXCEPT ![r] = t]
<1> DEFINE Honest == UNCHANGED ruleVars
                     /\ \E t : HonestTx(t) /\ DOMAIN t = Fields /\ tx' = [tx EXCEPT ![r] = t]
<1>1. ASSUME NEW t, DOMAIN t = Fields, HonestTx(t), Open(r, t) PROVE Honest
  <2> DEFINE u == [t EXCEPT !.at = "open"]
  <2>1. DOMAIN u = Fields /\ u.by = t.by /\ u.voter = t.voter /\ u.decides = t.decides /\ u.verdict = t.verdict
    BY <1>1 DEF Fields
  <2>2. HonestTx(u)
    BY <1>1, <2>1 DEF HonestTx, Voted
  <2>3. tx' = [tx EXCEPT ![r] = u] /\ UNCHANGED ruleVars
    BY <1>1 DEF Open
  <2> QED BY <2>1, <2>2, <2>3
<1>2. ASSUME NEW t, DOMAIN t = Fields, t.by = {}, t.verdict # "approved", Open(r, t) PROVE Honest
  BY <1>1, <1>2 DEF HonestTx
<1>3. ASSUME NEW status, NEW content, NEW old, Open(r, Versioned(status, content, old)) PROVE Honest
  <2>1. LET t == Versioned(status, content, old) IN DOMAIN t = Fields /\ t.by = {} /\ t.verdict # "approved"
    BY DEF Versioned, Mutation, Idle, Fields, Same
  <2> HIDE DEF Honest
  <2> QED BY <1>2, <1>3, <2>1
<1>4. ASSUME NEW content \in Contents, NEW status \in {"draft", "published"}, Edit(r, status, content) PROVE Honest
  <2> HIDE DEF Honest
  <2> QED BY <1>3, <1>4 DEF Edit
<1>5. ASSUME NEW v \in versions, Restore(r, v) PROVE Honest
  <2> HIDE DEF Honest
  <2> QED BY <1>3, <1>5 DEF Restore
<1>6. ASSUME NEW status \in {"draft", "published"}, SetStatus(r, status) PROVE Honest
  <2>1. LET t == [Mutation EXCEPT !.status = Assigned(status, rule.status)]
        IN DOMAIN t = Fields /\ t.by = {} /\ t.verdict # "approved"
    BY DEF Mutation, Idle, Fields, Same
  <2> HIDE DEF Honest
  <2> QED BY <1>2, <1>6, <2>1 DEF SetStatus
<1>7. ASSUME Delete(r) PROVE Honest
  <2>1. LET t == [Mutation EXCEPT !.status = "deleted", !.early = TRUE]
        IN DOMAIN t = Fields /\ t.by = {} /\ t.verdict # "approved"
    BY DEF Mutation, Idle, Fields, Same
  <2> HIDE DEF Honest
  <2> QED BY <1>2, <1>7, <2>1 DEF Delete
<1>8. ASSUME NEW i \in Approvals, RequestApproval(r, i) PROVE Honest
  <2>1. LET t == [Idle EXCEPT !.inserts = i,
                              !.supersedes = { j \in Approvals : approval[j].status = "pending" }]
        IN DOMAIN t = Fields /\ t.by = {} /\ t.verdict # "approved"
    BY DEF Idle, Fields, Same
  <2> HIDE DEF Honest
  <2> QED BY <1>2, <1>8, <2>1 DEF RequestApproval
<1>9. ASSUME NEW i \in Approvals, NEW u \in Users, Approve(r, i, u) PROVE Honest
  <2> DEFINE by == approval[i].by \cup {u}
             t == [Idle EXCEPT !.decides = i, !.voter = {u},
                               !.by = IF u \in approval[i].by THEN {} ELSE by,
                               !.verdict = IF AllRequired(by) THEN "approved" ELSE Same]
  <2>1. DOMAIN t = Fields /\ t.decides = i /\ t.voter = {u} /\ t.by \subseteq by
        /\ (t.verdict = "approved" => AllRequired(by))
    BY DEF Idle, Fields, Same
  <2>2. \A w \in by : Voted(t, w)
    BY <2>1 DEF VotesInv, Voted
  <2>3. HonestTx(t)
    BY <2>1, <2>2 DEF HonestTx, AllRequired
  <2>4. Open(r, t)
    BY <1>9 DEF Approve
  <2> HIDE DEF Honest, t
  <2> QED BY <1>1, <2>1, <2>3, <2>4
<1>10. ASSUME NEW i \in Approvals, Reject(r, i) PROVE Honest
  <2>1. LET t == [Idle EXCEPT !.decides = i, !.verdict = "rejected"]
        IN DOMAIN t = Fields /\ t.by = {} /\ t.verdict # "approved"
    BY DEF Idle, Fields
  <2> HIDE DEF Honest
  <2> QED BY <1>2, <1>10, <2>1 DEF Reject
<1> HIDE DEF Honest
<1>11. Honest
  BY <1>4, <1>5, <1>6, <1>7, <1>8, <1>9, <1>10 DEF Handle
<1> QED BY <1>11 DEF Honest

\* A step that leaves the rows, and the votes that the requests carry.
LEMMA VotesUndisturbed ==
  ASSUME VotesInv, Shape', UNCHANGED ruleVars,
         \A r \in Requests : HonestTx(tx'[r])
  PROVE  VotesInv'
<1>1. UNCHANGED <<approval, said>>
  BY DEF ruleVars
<1> QED BY <1>1 DEF VotesInv, ApprovedByEveryone, HonestTx, Voted

LEMMA OverIsHonest ==
  ASSUME NEW outcome
  PROVE  DOMAIN Over(outcome) = Fields /\ HonestTx(Over(outcome)) /\ HonestTx(Over(outcome))'
BY IdleFacts DEF Over, Idle, Fields, HonestTx, Same

LEMMA VotesInvNext == VotesInv /\ [Next]_vars => VotesInv'
<1> SUFFICES ASSUME VotesInv, [Next]_vars PROVE VotesInv'
  OBVIOUS
<1>0. Shape /\ \A r \in Requests : HonestTx(tx[r])
  BY DEF VotesInv
<1>1. ASSUME NEW r \in Requests, Handle(r) PROVE VotesInv'
  <2>1. UNCHANGED ruleVars
    BY <1>1, HandlersAreHonest
  <2>2. PICK t : HonestTx(t) /\ DOMAIN t = Fields /\ tx' = [tx EXCEPT ![r] = t]
    BY <1>1, HandlersAreHonest
  <2>3. \A q \in Requests : tx'[q] = IF q = r THEN t ELSE tx[q]
    BY <1>0, <2>2 DEF Shape
  <2>4. Shape' /\ \A q \in Requests : HonestTx(tx'[q])
    BY <1>0, <2>2, <2>3 DEF Shape
  <2> QED BY <2>1, <2>4, VotesUndisturbed
<1>2. ASSUME NEW r \in Requests, Flush(r) \/ Publish(r) \/ Invalidate(r) PROVE VotesInv'
  <2>1. \A q \in Requests : /\ DOMAIN tx'[q] = Fields
                            /\ tx'[q].by = tx[q].by /\ tx'[q].voter = tx[q].voter
                            /\ tx'[q].decides = tx[q].decides /\ tx'[q].verdict = tx[q].verdict
    BY <1>0, <1>2 DEF Flush, Publish, Invalidate, Shape, Fields
  <2>2. Shape'
    BY <1>0, <1>2, <2>1 DEF Flush, Publish, Invalidate, Shape
  <2>3. \A q \in Requests : HonestTx(tx'[q])
    BY <1>0, <2>1 DEF HonestTx, Voted
  <2>4. UNCHANGED ruleVars
    BY <1>2 DEF Flush, Publish, Invalidate
  <2> QED BY <2>2, <2>3, <2>4, VotesUndisturbed
<1>3. ASSUME NEW r \in Requests, Commit(r) PROVE VotesInv'
  <2> DEFINE t == tx[r]
  <2>1. \A q \in Requests : tx'[q] = IF q = r THEN Over("committed") ELSE tx[q]
    BY <1>0, <1>3 DEF Commit, Shape
  <2>2. Shape'
    BY <1>0, <1>3, <2>1, OverIsHonest DEF Commit, Shape
  <2>3. said \subseteq said' /\ \A u \in t.voter : <<u, t.decides>> \in said'
    BY <1>3 DEF Commit
  <2>4. \A q \in Requests : HonestTx(tx[q])'
    BY <1>0, <2>1, <2>3, OverIsHonest DEF HonestTx, Voted
  <2>5. approval' = [i \in Approvals |-> ApprovalAfter(t, i)]
    BY <1>3 DEF Commit
  <2>6. \A u \in t.by : <<u, t.decides>> \in said'
    BY <1>0, <2>3 DEF HonestTx, Voted
  <2>7. t.verdict = "approved" => \A u \in Required : <<u, t.decides>> \in said'
    BY <1>0, <2>3 DEF HonestTx, Voted
  <2>8. ASSUME NEW i \in Approvals
        PROVE  /\ \A u \in ApprovalAfter(t, i).by : <<u, i>> \in said'
               /\ ApprovalAfter(t, i).status = "approved" => \A u \in Required : <<u, i>> \in said'
    <3>1. /\ \A u \in approval[i].by : <<u, i>> \in said'
          /\ approval[i].status = "approved" => \A u \in Required : <<u, i>> \in said'
      BY <2>3 DEF VotesInv, ApprovedByEveryone
    <3>2. CASE Deletes(t)
      BY <3>2 DEF ApprovalAfter, NoRow, None
    <3>3. CASE ~Deletes(t) /\ i = t.inserts
      BY <3>3 DEF ApprovalAfter
    <3>4. CASE ~Deletes(t) /\ i # t.inserts /\ i \in t.supersedes
      BY <3>1, <3>4 DEF ApprovalAfter
    <3>5. CASE ~Deletes(t) /\ i # t.inserts /\ i \notin t.supersedes /\ i = t.decides
      <4> HIDE DEF t
      <4>1. ApprovalAfter(t, i) = [status |-> Written(t.verdict, approval[i].status),
                                   by |-> IF t.by = {} THEN approval[i].by ELSE t.by]
        BY <3>5 DEF ApprovalAfter
      <4> QED BY <2>6, <2>7, <3>1, <3>5, <4>1 DEF Written
    <3>6. CASE ~Deletes(t) /\ i # t.inserts /\ i \notin t.supersedes /\ i # t.decides
      BY <3>1, <3>6 DEF ApprovalAfter
    <3> QED BY <3>2, <3>3, <3>4, <3>5, <3>6
  <2> QED BY <2>2, <2>4, <2>5, <2>8 DEF VotesInv, ApprovedByEveryone
<1>4. ASSUME NEW r \in Requests, Fail(r) PROVE VotesInv'
  <2>1. \A q \in Requests : tx'[q] = IF q = r THEN Over("failed") ELSE tx[q]
    BY <1>0, <1>4 DEF Fail, Shape
  <2>2. Shape' /\ \A q \in Requests : HonestTx(tx'[q])
    BY <1>0, <1>4, <2>1, OverIsHonest DEF Fail, Shape
  <2>3. UNCHANGED ruleVars
    BY <1>4 DEF Fail
  <2> QED BY <2>2, <2>3, VotesUndisturbed
<1>5. ASSUME NEW e \in Evaluators, Evaluate(e) PROVE VotesInv'
  <2>1. UNCHANGED <<ruleVars, tx>>
    BY <1>5 DEF Evaluate, Miss, Load, Fill
  <2>2. Shape' /\ \A r \in Requests : HonestTx(tx'[r])
    BY <1>0, <2>1 DEF Shape
  <2> QED BY <2>1, <2>2, VotesUndisturbed
<1>6. CASE Expire \/ UNCHANGED vars
  <2>1. UNCHANGED <<ruleVars, tx>>
    BY <1>6 DEF Expire, vars
  <2>2. Shape' /\ \A r \in Requests : HonestTx(tx'[r])
    BY <1>0, <2>1 DEF Shape
  <2> QED BY <2>1, <2>2, VotesUndisturbed
<1> QED BY <1>1, <1>2, <1>3, <1>4, <1>5, <1>6 DEF Next, Transact

\* A rule is approved only after everybody required has voted for it, however
\* the lists of votes are overwritten by concurrent requests.
THEOREM ApprovalsNeedEverybody == Spec => []ApprovedByEveryone
<1>1. VotesInv => ApprovedByEveryone
  BY DEF VotesInv
<1> QED BY <1>1, VotesInvInit, VotesInvNext, PTL DEF Spec

-----------------------------------------------------------------------------
(* The history of the rule.                                                *)

Versions == [num : Nat \ {0}, content : Contents, status : Statuses]

\* What a request holds, of which the rows are made when it commits.
TypedTx(t) ==
  /\ DOMAIN t = Fields
  /\ t.status \in Statuses \cup {Same}
  /\ t.content \in Contents \cup {Same}
  /\ t.snapshot \subseteq Versions /\ (\A s, w \in t.snapshot : s = w)
  /\ t.verdict \in {Same, "approved", "rejected"}
  /\ t.by \subseteq Users
  /\ t.voter \subseteq Users /\ (t.voter # {} => t.decides \in Approvals)

\* A request that changes what the rule says is open, and adds a version.
Snapshotted(t) ==
  /\ t.snapshot # {} => t.at = "open"
  /\ t.content # Same => t.snapshot # {}

\* The version that a request adds holds what the rule says now, under a
\* number that no version has.
NewVersion(t) ==
  \E s \in Versions :
    t.snapshot = {s} /\ s.content = rule.content /\ \A v \in versions : v.num < s.num

\* Unless two requests that make versions overlapped, there is one at most.
OneWriter ==
  overlapped \/
    /\ \A r \in Requests : tx[r].snapshot # {} => NewVersion(tx[r])
    /\ \A q, r \in Requests : tx[q].snapshot # {} /\ tx[r].snapshot # {} => q = r

\* The inductive invariant.  The numbers are bounded, so that there is a next
\* one; what a deleted rule has said need not be found any more.
HistoryInv ==
  /\ TypeOK
  /\ \E b \in Nat : \A v \in versions : v.num <= b
  /\ \A r \in Requests : TypedTx(tx[r]) /\ Snapshotted(tx[r])
  /\ OneWriter
  /\ rule.status = "deleted" => known = {}
  /\ HistoryIsComplete

LEMMA LeastNat ==
  ASSUME NEW T \in SUBSET Nat, T # {}
  PROVE  \E i \in T : \A j \in T : i <= j
<1> DEFINE R == OpToRel(<, Nat)
<1>1. IsWellFoundedOn(R, Nat)
  BY NatLessThanWellFounded
<1>2. \A i, j \in Nat : i < j => <<i, j>> \in R
  BY DEF OpToRel
<1> HIDE DEF R
<1>3. PICK i \in T : \A j \in T : <<j, i>> \notin R
  BY <1>1, WFMin
<1>4. ASSUME NEW j \in T PROVE i <= j
  <2>1. i \in Nat /\ j \in Nat /\ ~(j < i)
    BY <1>2, <1>3
  <2> QED BY <2>1
<1> QED BY <1>4

\* A bounded set of numbers has a greatest one, which is what Max chooses.
LEMMA MaxIsGreatest ==
  ASSUME NEW S \in SUBSET Nat, S # {}, NEW b \in Nat, \A i \in S : i <= b
  PROVE  Max(S) \in S /\ \A i \in S : i <= Max(S)
<1>1. PICK a \in S : TRUE
  OBVIOUS
<1> DEFINE Bounds == { c \in Nat : \A i \in S : i <= c }
<1>2. PICK m \in Bounds : \A c \in Bounds : m <= c
  <2>1. b \in Bounds /\ Bounds \in SUBSET Nat
    OBVIOUS
  <2> HIDE DEF Bounds
  <2> QED BY <2>1, LeastNat
<1>3. m \in Nat /\ \A i \in S : i \in Nat /\ i <= m
  BY <1>2
<1>4. m \in S
  <2> SUFFICES ASSUME m \notin S PROVE FALSE
    OBVIOUS
  <2>1. \A i \in S : i < m
    BY <1>3
  <2>2. m > 0
    BY <1>1, <1>3, <2>1
  <2>3. m - 1 \in Nat /\ \A i \in S : i <= m - 1
    BY <1>3, <2>1, <2>2
  <2> QED BY <1>2, <1>3, <2>3
<1>5. \E x \in S : \A y \in S : x >= y
  BY <1>3, <1>4
<1>6. Max(S) \in S /\ \A i \in S : Max(S) >= i
  BY <1>5 DEF Max
<1> QED BY <1>6

\* The next version has a number above all others.
LEMMA NextVersionIsNew ==
  ASSUME HistoryInv
  PROVE  NextVersion \in Nat \ {0} /\ \A v \in versions : v.num < NextVersion
<1> DEFINE S == {0} \cup { v.num : v \in versions }
<1>1. \A v \in versions : v.num \in Nat
  BY DEF HistoryInv, TypeOK
<1>2. PICK b \in Nat : \A v \in versions : v.num <= b
  BY DEF HistoryInv
<1>3. S \in SUBSET Nat /\ S # {} /\ \A i \in S : i <= b
  BY <1>1, <1>2
<1>4. Max(S) \in S /\ \A i \in S : i <= Max(S)
  BY <1>3, MaxIsGreatest
<1>5. NextVersion = Max(S) + 1
  BY DEF NextVersion
<1> HIDE DEF S
<1>6. Max(S) \in Nat /\ \A v \in versions : v.num \in S
  BY <1>3, <1>4 DEF S
<1> QED BY <1>1, <1>4, <1>5, <1>6

LEMMA IdleIsTyped == TypedTx(Idle) /\ Idle.snapshot = {}
BY DEF TypedTx, Idle, Fields, Same, None

LEMMA OverIsTyped ==
  ASSUME NEW outcome
  PROVE  TypedTx(Over(outcome)) /\ Snapshotted(Over(outcome)) /\ Over(outcome).snapshot = {}
BY IdleIsTyped, IdleFacts DEF TypedTx, Snapshotted, Over, Idle, Fields

\* A handler leaves a typed request; if it is to change what the rule says, it
\* adds a version, and other requests that do are noticed.
LEMMA HandlersSnapshot ==
  ASSUME HistoryInv, NEW r \in Requests, Handle(r)
  PROVE  /\ UNCHANGED <<ruleVars, cacheVars>>
         /\ \E t : /\ TypedTx(t) /\ Snapshotted(t)
                   /\ tx' = [tx EXCEPT ![r] = t]
                   /\ t.snapshot = {} => UNCHANGED overlapped
                   /\ t.snapshot # {} => NewVersion(t) /\ Crowd
<1> DEFINE Noted ==
      /\ UNCHANGED <<ruleVars, cacheVars>>
      /\ \E t : /\ TypedTx(t) /\ Snapshotted(t)
                /\ tx' = [tx EXCEPT ![r] = t]
                /\ t.snapshot = {} => UNCHANGED overlapped
                /\ t.snapshot # {} => NewVersion(t) /\ Crowd
<1>0. /\ rule.status \in Statuses /\ rule.content \in Contents
      /\ versions \subseteq Versions
      /\ approval \in [Approvals -> [status : RowStatuses, by : SUBSET Users]]
  BY DEF HistoryInv, TypeOK, Versions
<1>1. ASSUME NEW t, TypedTx(t), t.content # Same => t.snapshot # {}, Open(r, t),
             t.snapshot = {} => UNCHANGED overlapped,
             t.snapshot # {} => NewVersion(t) /\ Crowd
      PROVE  Noted
  <2> DEFINE u == [t EXCEPT !.at = "open"]
  <2>1. /\ DOMAIN u = Fields /\ u.at = "open" /\ u.status = t.status /\ u.content = t.content
        /\ u.snapshot = t.snapshot /\ u.verdict = t.verdict /\ u.by = t.by /\ u.voter = t.voter
        /\ u.decides = t.decides
    BY <1>1 DEF TypedTx, Fields
  <2>2. tx' = [tx EXCEPT ![r] = u] /\ UNCHANGED <<ruleVars, cacheVars>>
    BY <1>1 DEF Open
  <2> HIDE DEF u
  <2>3. TypedTx(u) /\ Snapshotted(u)
    BY <1>1, <2>1 DEF TypedTx, Snapshotted
  <2>4. u.snapshot # {} => NewVersion(u) /\ Crowd
    BY <1>1, <2>1 DEF NewVersion
  <2> QED BY <1>1, <2>1, <2>2, <2>3, <2>4
<1>2. ASSUME NEW t, TypedTx(t), t.content = Same, t.snapshot = {}, Open(r, t), UNCHANGED overlapped
      PROVE  Noted
  <2> HIDE DEF Noted
  <2> QED BY <1>1, <1>2
<1>3. ASSUME NEW status \in Statuses, NEW content \in Contents,
             Open(r, Versioned(status, content, rule.content)), Crowd
      PROVE  Noted
  <2> DEFINE t == Versioned(status, content, rule.content)
             s == [num |-> NextVersion, content |-> rule.content, status |-> rule.status]
  <2>1. /\ DOMAIN t = Fields /\ t.snapshot = {s}
        /\ t.status = Assigned(status, rule.status) /\ t.content = Assigned(content, rule.content)
        /\ t.verdict = Same /\ t.by = {} /\ t.voter = {}
    BY DEF Versioned, Mutation, Idle, Fields
  <2>2. s \in Versions
    BY <1>0, NextVersionIsNew DEF Versions
  <2>3. s.content = rule.content /\ \A v \in versions : v.num < s.num
    BY NextVersionIsNew
  <2> HIDE DEF t, s, Noted
  <2>4. TypedTx(t)
    BY <1>0, <2>1, <2>2 DEF TypedTx, Assigned
  <2>5. NewVersion(t)
    BY <2>1, <2>2, <2>3 DEF NewVersion
  <2> QED BY <1>1, <1>3, <2>1, <2>4, <2>5 DEF t
<1>4. ASSUME NEW content \in Contents, NEW status \in {"draft", "published"}, Edit(r, status, content) PROVE Noted
  <2> HIDE DEF Noted
  <2> QED BY <1>3, <1>4 DEF Edit, Replaced, Statuses
<1>5. ASSUME NEW v \in versions, Restore(r, v) PROVE Noted
  <2> HIDE DEF Noted
  <2>1. v.status \in Statuses /\ v.content \in Contents
    BY <1>0 DEF Versions
  <2> QED BY <1>3, <1>5, <2>1 DEF Restore, Replaced
<1>6. ASSUME NEW status \in {"draft", "published"}, SetStatus(r, status) PROVE Noted
  <2>1. LET t == [Mutation EXCEPT !.status = Assigned(status, rule.status)]
        IN TypedTx(t) /\ t.content = Same /\ t.snapshot = {}
    BY DEF TypedTx, Mutation, Idle, Fields, Assigned, Statuses
  <2> HIDE DEF Noted
  <2> QED BY <1>2, <1>6, <2>1 DEF SetStatus
<1>7. ASSUME Delete(r) PROVE Noted
  <2>1. LET t == [Mutation EXCEPT !.status = "deleted", !.early = TRUE]
        IN TypedTx(t) /\ t.content = Same /\ t.snapshot = {}
    BY DEF TypedTx, Mutation, Idle, Fields, Statuses
  <2> HIDE DEF Noted
  <2> QED BY <1>2, <1>7, <2>1 DEF Delete
<1>8. ASSUME NEW i \in Approvals, RequestApproval(r, i) PROVE Noted
  <2>1. LET t == [Idle EXCEPT !.inserts = i,
                              !.supersedes = { j \in Approvals : approval[j].status = "pending" }]
        IN TypedTx(t) /\ t.content = Same /\ t.snapshot = {}
    BY DEF TypedTx, Idle, Fields
  <2> HIDE DEF Noted
  <2> QED BY <1>2, <1>8, <2>1 DEF RequestApproval
<1>9. ASSUME NEW i \in Approvals, NEW u \in Users, Approve(r, i, u) PROVE Noted
  <2> DEFINE by == approval[i].by \cup {u}
             t == [Idle EXCEPT !.decides = i, !.voter = {u},
                               !.by = IF u \in approval[i].by THEN {} ELSE by,
                               !.verdict = IF AllRequired(by) THEN "approved" ELSE Same]
  <2>1. by \subseteq Users
    BY <1>0
  <2> HIDE DEF by
  <2>2. TypedTx(t) /\ t.content = Same /\ t.snapshot = {}
    BY <2>1 DEF TypedTx, Idle, Fields
  <2>3. Open(r, t) /\ UNCHANGED overlapped
    BY <1>9 DEF Approve, by
  <2> HIDE DEF Noted, t
  <2> QED BY <1>2, <2>2, <2>3
<1>10. ASSUME NEW i \in Approvals, Reject(r, i) PROVE Noted
  <2>1. LET t == [Idle EXCEPT !.decides = i, !.verdict = "rejected"]
        IN TypedTx(t) /\ t.content = Same /\ t.snapshot = {}
    BY DEF TypedTx, Idle, Fields
  <2> HIDE DEF Noted
  <2> QED BY <1>2, <1>10, <2>1 DEF Reject
<1> HIDE DEF Noted
<1>11. Noted
  BY <1>4, <1>5, <1>6, <1>7, <1>8, <1>9, <1>10 DEF Handle
<1> QED BY <1>11 DEF Noted

LEMMA HistoryInvInit == Init => HistoryInv
<1> SUFFICES ASSUME Init PROVE HistoryInv
  OBVIOUS
<1>1. \A r \in Requests : tx[r] = Idle
  BY DEF Init
<1>2. \A r \in Requests : TypedTx(tx[r]) /\ Snapshotted(tx[r]) /\ tx[r].snapshot = {}
  BY <1>1, IdleIsTyped, IdleFacts DEF Snapshotted
<1>3. approval \in [Approvals -> [status : RowStatuses, by : SUBSET Users]]
  BY RequiredAssumption DEF Init, NoRow, RowStatuses
<1>4. said \subseteq Users \X Approvals
  <2> SUFFICES ASSUME NEW i \in Approvals PROVE approval[i].by \X {i} \subseteq Users \X Approvals
    BY DEF Init
  <2>1. approval[i].by \subseteq Users
    BY <1>3
  <2> QED BY <2>1
<1>5. rule \in [status : Statuses, content : Contents] /\ rule.status # "deleted" /\ known = {rule.content}
  BY DEF Init, Statuses
<1>6. Entry(Empty, FALSE) \in Entries /\ Entry(None, FALSE) \in Entries
  BY DEF Entry, Entries, Values
<1>7. TypeOK
  BY <1>3, <1>4, <1>5, <1>6 DEF Init, TypeOK
<1>8. \A v \in versions : v.num <= 0
  BY DEF Init
<1>9. OneWriter
  BY <1>2 DEF OneWriter
<1>10. HistoryIsComplete
  BY <1>5 DEF HistoryIsComplete, Init
<1> QED BY <1>2, <1>5, <1>7, <1>8, <1>9, <1>10 DEF HistoryInv

\* What is cached and read has its type after each step.
LEMMA CacheIsTyped ==
  ASSUME TypeOK, [Next]_vars
  PROVE  cache' \in Entries /\ evaluator' \in [Evaluators -> Entries]
<1> DEFINE Typed == cache' \in Entries /\ evaluator' \in [Evaluators -> Entries]
<1>0. cache \in Entries /\ evaluator \in [Evaluators -> Entries]
  BY DEF TypeOK
<1>1. ASSUME NEW v \in Values, NEW b \in BOOLEAN PROVE Entry(v, b) \in Entries
  BY <1>1 DEF Entry, Entries
<1>2. Visible \in Values /\ None \in Values /\ Missed \in Values /\ Empty \in Values
  BY DEF TypeOK, Visible, Values
<1>3. \A e \in Evaluators : evaluator[e].value \in Values
  BY <1>0 DEF Entries
<1>4. ASSUME NEW r \in Requests, Handle(r) PROVE Typed
  <2>1. UNCHANGED cacheVars
    BY <1>4, HandlersBegin
  <2> QED BY <1>0, <2>1 DEF cacheVars
<1>5. ASSUME NEW r \in Requests, Flush(r) \/ Publish(r) \/ Commit(r) \/ Fail(r) PROVE Typed
  BY <1>0, <1>5 DEF Flush, Publish, Commit, Fail, cacheVars
<1>6. ASSUME NEW r \in Requests, Invalidate(r) PROVE Typed
  <2>1. cache' = Entry(Empty, FALSE)
    BY <1>6 DEF Invalidate, EmptyAndRaced
  <2>2. evaluator' = [e \in Evaluators |->
                        Entry(evaluator[e].value, evaluator[e].value \notin {None, Missed})]
    BY <1>6 DEF Invalidate, EmptyAndRaced
  <2>3. \A e \in Evaluators : Entry(evaluator[e].value, evaluator[e].value \notin {None, Missed}) \in Entries
    <3> TAKE e \in Evaluators
    <3>1. (evaluator[e].value \notin {None, Missed}) \in BOOLEAN
      OBVIOUS
    <3> QED BY <1>1, <1>3, <3>1
  <2> QED BY <1>1, <1>2, <2>1, <2>2, <2>3
<1>7. ASSUME NEW e \in Evaluators, Miss(e) PROVE Typed
  <2>1. Entry(Missed, FALSE) \in Entries
    BY <1>1, <1>2
  <2> QED BY <1>0, <1>7, <2>1 DEF Miss
<1>8. ASSUME NEW e \in Evaluators, Load(e) PROVE Typed
  <2>1. InvalidatedTooEarly \in BOOLEAN
    BY DEF InvalidatedTooEarly
  <2>2. Entry(Visible, InvalidatedTooEarly) \in Entries
    BY <1>1, <1>2, <2>1
  <2> QED BY <1>0, <1>8, <2>2 DEF Load
<1>9. ASSUME NEW e \in Evaluators, Fill(e) PROVE Typed
  <2>1. Entry(None, FALSE) \in Entries
    BY <1>1, <1>2
  <2> QED BY <1>0, <1>9, <2>1 DEF Fill
<1>10. ASSUME Expire PROVE Typed
  <2>1. Entry(Empty, FALSE) \in Entries
    BY <1>1, <1>2
  <2> QED BY <1>0, <1>10, <2>1 DEF Expire
<1>11. ASSUME UNCHANGED vars PROVE Typed
  BY <1>0, <1>11 DEF vars, cacheVars
<1> HIDE DEF Typed
<1>12. Typed
  BY <1>4, <1>5, <1>6, <1>7, <1>8, <1>9, <1>10, <1>11 DEF Next, Transact, Evaluate
<1> QED BY <1>12 DEF Typed

\* Who else settles a request is noted when one is opened.
LEMMA ContestedIsTyped ==
  ASSUME TypeOK, [Next]_vars
  PROVE  contested' \subseteq Approvals
<1>0. contested \subseteq Approvals
  BY DEF TypeOK
<1>1. ASSUME NEW r, NEW t, Open(r, t) PROVE contested' \subseteq Approvals
  BY <1>0, <1>1 DEF Open
<1>2. ASSUME NEW r \in Requests, Handle(r) PROVE contested' \subseteq Approvals
  BY <1>1, <1>2 DEF Handle, Edit, Restore, SetStatus, Delete, RequestApproval, Approve, Reject
<1>3. CASE ~\E r \in Requests : Handle(r)
  BY <1>0, <1>3 DEF Next, Transact, Flush, Publish, Invalidate, Commit, Fail, Evaluate, Miss, Load, Fill, Expire, vars
<1> QED BY <1>2, <1>3

\* A step that leaves the rows, and of the versions that are being made some.
LEMMA HistoryUndisturbed ==
  ASSUME HistoryInv, [Next]_vars, DOMAIN tx' = Requests, UNCHANGED <<ruleVars, overlapped>>,
         \A r \in Requests : TypedTx(tx'[r]) /\ Snapshotted(tx'[r]),
         \A r \in Requests : tx'[r].snapshot # {} => tx'[r].snapshot = tx[r].snapshot
  PROVE  HistoryInv'
<1>1. UNCHANGED <<rule, versions, approval, said, known>>
  BY DEF ruleVars
<1>2. TypeOK'
  <2>1. cache' \in Entries /\ evaluator' \in [Evaluators -> Entries]
    BY CacheIsTyped DEF HistoryInv
  <2> QED BY <1>1, <2>1, ContestedIsTyped DEF HistoryInv, TypeOK
<1>3. OneWriter'
  BY <1>1 DEF HistoryInv, OneWriter, NewVersion
<1>4. HistoryIsComplete'
  BY <1>1 DEF HistoryInv, HistoryIsComplete
<1>5. \A r \in Requests : TypedTx(tx[r])' /\ Snapshotted(tx[r])'
  BY DEF TypedTx, Snapshotted
<1> QED BY <1>1, <1>2, <1>3, <1>4, <1>5 DEF HistoryInv

LEMMA HistoryAfterHandle ==
  ASSUME HistoryInv, [Next]_vars, NEW r \in Requests, Handle(r)
  PROVE  HistoryInv'
<1>1. UNCHANGED <<rule, versions, approval, said, known, cache, evaluator>>
  BY HandlersSnapshot DEF ruleVars, cacheVars
<1>2. PICK t : /\ TypedTx(t) /\ Snapshotted(t)
               /\ tx' = [tx EXCEPT ![r] = t]
               /\ t.snapshot = {} => UNCHANGED overlapped
               /\ t.snapshot # {} => NewVersion(t) /\ Crowd
  BY HandlersSnapshot
<1>3. DOMAIN tx' = Requests /\ \A q \in Requests : tx'[q] = IF q = r THEN t ELSE tx[q]
  BY <1>2 DEF HistoryInv, TypeOK
<1>4. \A q \in Requests : TypedTx(tx'[q]) /\ Snapshotted(tx'[q])
  BY <1>2, <1>3 DEF HistoryInv
<1>5. CASE t.snapshot = {}
  <2>1. UNCHANGED <<ruleVars, overlapped>>
    BY <1>1, <1>2, <1>5 DEF ruleVars
  <2> QED BY <1>3, <1>4, <1>5, <2>1, HistoryUndisturbed
<1>6. CASE t.snapshot # {}
  <2>1. NewVersion(t) /\ Crowd
    BY <1>2, <1>6
  <2>2. overlapped' \in BOOLEAN
    BY <2>1 DEF Crowd
  <2>3. TypeOK'
    BY <1>1, <1>3, <2>2, ContestedIsTyped DEF HistoryInv, TypeOK
  <2>4. OneWriter'
    <3> SUFFICES ASSUME ~overlapped' PROVE OneWriter'
      BY DEF OneWriter
    <3>1. \A q \in Requests : tx[q].snapshot = {}
      BY <2>1 DEF Crowd, HistoryInv, Snapshotted
    <3>2. \A q \in Requests : tx'[q].snapshot # {} => q = r /\ tx'[q] = t
      BY <1>3, <3>1
    <3>3. NewVersion(t)'
      BY <1>1, <2>1 DEF NewVersion
    <3> QED BY <3>2, <3>3 DEF OneWriter, NewVersion
  <2>5. HistoryIsComplete'
    BY <1>1, <2>1 DEF HistoryInv, HistoryIsComplete, Crowd
  <2>6. \A q \in Requests : TypedTx(tx[q])' /\ Snapshotted(tx[q])'
    BY <1>4 DEF TypedTx, Snapshotted
  <2> QED BY <1>1, <2>3, <2>4, <2>5, <2>6 DEF HistoryInv
<1> QED BY <1>5, <1>6

LEMMA HistoryAfterCommit ==
  ASSUME HistoryInv, [Next]_vars, NEW r \in Requests, Commit(r)
  PROVE  HistoryInv'
<1> DEFINE t == tx[r]
<1>1. /\ rule' = [status |-> Written(t.status, rule.status), content |-> Written(t.content, rule.content)]
      /\ versions' = IF Deletes(t) THEN {} ELSE versions \cup t.snapshot
      /\ approval' = [i \in Approvals |-> ApprovalAfter(t, i)]
      /\ said' = said \cup (t.voter \X {t.decides})
      /\ known' = IF rule'.status = "deleted" THEN {} ELSE known \cup {rule'.content}
      /\ tx' = [tx EXCEPT ![r] = Over("committed")]
      /\ UNCHANGED overlapped
  BY DEF Commit
<1>2. /\ TypedTx(t) /\ Snapshotted(t)
      /\ rule \in [status : Statuses, content : Contents]
      /\ versions \subseteq Versions
      /\ approval \in [Approvals -> [status : RowStatuses, by : SUBSET Users]]
      /\ said \subseteq Users \X Approvals /\ known \subseteq Contents
  BY DEF HistoryInv, TypeOK, Versions
<1>3. DOMAIN tx' = Requests /\ \A q \in Requests : tx'[q] = IF q = r THEN Over("committed") ELSE tx[q]
  BY <1>1 DEF HistoryInv, TypeOK
<1> HIDE DEF t
<1>4. rule' \in [status : Statuses, content : Contents]
  BY <1>1, <1>2 DEF Written, TypedTx
<1>5. versions' \subseteq Versions
  BY <1>1, <1>2 DEF TypedTx
<1>6. approval' \in [Approvals -> [status : RowStatuses, by : SUBSET Users]]
  <2> SUFFICES ASSUME NEW i \in Approvals PROVE ApprovalAfter(t, i) \in [status : RowStatuses, by : SUBSET Users]
    BY <1>1
  <2>1. approval[i] \in [status : RowStatuses, by : SUBSET Users]
    BY <1>2
  <2>2. Written(t.verdict, approval[i].status) \in RowStatuses /\ t.by \subseteq Users
    BY <1>2, <2>1 DEF Written, RowStatuses, TypedTx
  <2>3. /\ NoRow \in [status : RowStatuses, by : SUBSET Users]
        /\ [status |-> "pending", by |-> {}] \in [status : RowStatuses, by : SUBSET Users]
        /\ [approval[i] EXCEPT !.status = "rejected"] \in [status : RowStatuses, by : SUBSET Users]
    BY <2>1 DEF NoRow, RowStatuses
  <2> QED BY <2>1, <2>2, <2>3 DEF ApprovalAfter
<1>7. said' \subseteq Users \X Approvals
  BY <1>1, <1>2 DEF TypedTx
<1>8. known' \subseteq Contents
  BY <1>1, <1>2, <1>4
<1>9. TypeOK'
  <2>1. cache' \in Entries /\ evaluator' \in [Evaluators -> Entries]
    BY CacheIsTyped DEF HistoryInv
  <2>2. overlapped' \in BOOLEAN
    BY <1>1 DEF HistoryInv, TypeOK
  <2>3. contested' \subseteq Approvals
    BY ContestedIsTyped DEF HistoryInv
  <2> QED BY <1>3, <1>4, <1>5, <1>6, <1>7, <1>8, <2>1, <2>2, <2>3 DEF TypeOK, Versions
<1>10. overlapped \/ t.snapshot = {} \/ NewVersion(t)
  BY DEF HistoryInv, OneWriter, t
<1>11. \A q \in Requests : TypedTx(tx[q])' /\ Snapshotted(tx[q])'
  BY <1>3, OverIsTyped DEF HistoryInv, TypedTx, Snapshotted
<1>12. \E b \in Nat : \A v \in versions' : v.num <= b
  <2>1. PICK b \in Nat : \A v \in versions : v.num <= b
    BY DEF HistoryInv
  <2>2. CASE Deletes(t) \/ t.snapshot = {}
    BY <1>1, <2>1, <2>2
  <2>3. CASE ~Deletes(t) /\ t.snapshot # {}
    <3>1. PICK s \in Versions : t.snapshot = {s}
      BY <1>2, <2>3 DEF TypedTx
    <3>2. s.num \in Nat /\ \A v \in versions : v.num \in Nat
      BY <1>2 DEF Versions
    <3>3. versions' = versions \cup {s}
      BY <1>1, <2>3, <3>1
    <3>4. b + s.num \in Nat /\ \A v \in versions' : v.num <= b + s.num
      BY <2>1, <3>2, <3>3
    <3> QED BY <3>4
  <2> QED BY <2>2, <2>3
<1>13. OneWriter'
  <2> SUFFICES ASSUME ~overlapped PROVE OneWriter'
    BY <1>1 DEF OneWriter
  <2> SUFFICES ASSUME NEW q \in Requests, tx'[q].snapshot # {}
               PROVE  /\ NewVersion(tx[q])'
                      /\ \A p \in Requests : tx'[p].snapshot # {} => p = q
    BY DEF OneWriter
  <2>1. q # r /\ tx'[q] = tx[q] /\ NewVersion(tx[q]) /\ t.snapshot = {}
    BY <1>3, OverIsTyped DEF HistoryInv, OneWriter, t
  <2>2. rule'.content = rule.content /\ versions' \subseteq versions
    BY <1>1, <1>2, <2>1 DEF Snapshotted, Written
  <2>3. NewVersion(tx[q])'
    BY <2>1, <2>2 DEF NewVersion
  <2>4. \A p \in Requests : tx'[p].snapshot # {} => p = q
    BY <1>3, <2>1, OverIsTyped DEF HistoryInv, OneWriter
  <2> QED BY <2>3, <2>4
<1>14. rule'.status = "deleted" => known' = {}
  BY <1>1
<1>15. HistoryIsComplete'
  <2> SUFFICES ASSUME ~overlapped PROVE HistoryIsComplete'
    BY <1>1 DEF HistoryIsComplete
  <2>1. /\ known \subseteq {rule.content} \cup { v.content : v \in versions }
        /\ \A v, w \in versions : v.num = w.num => v = w
    BY DEF HistoryInv, HistoryIsComplete
  <2>2. CASE Deletes(t)
    <3>1. versions' = {} /\ known' = {}
      BY <1>1, <2>2 DEF Deletes, Written, Same
    <3> QED BY <3>1 DEF HistoryIsComplete
  <2>3. CASE ~Deletes(t) /\ t.snapshot = {}
    <3>1. versions' = versions /\ rule'.content = rule.content /\ known' \subseteq known \cup {rule.content}
      BY <1>1, <1>2, <2>3 DEF Snapshotted, Written
    <3> QED BY <2>1, <3>1 DEF HistoryIsComplete
  <2>4. CASE ~Deletes(t) /\ t.snapshot # {}
    <3>1. PICK s \in Versions :
            t.snapshot = {s} /\ s.content = rule.content /\ \A v \in versions : v.num < s.num
      BY <1>10, <2>4 DEF NewVersion
    <3>2. versions' = versions \cup {s} /\ known' \subseteq known \cup {rule'.content}
      BY <1>1, <2>4, <3>1
    <3>3. \A v \in versions : v.num \in Nat /\ s.num \in Nat
      BY <1>2, <3>1 DEF Versions
    <3>4. \A v, w \in versions' : v.num = w.num => v = w
      BY <2>1, <3>1, <3>2, <3>3
    <3>5. known' \subseteq {rule'.content} \cup { v.content : v \in versions' }
      BY <2>1, <3>1, <3>2
    <3> QED BY <3>4, <3>5 DEF HistoryIsComplete
  <2> QED BY <2>2, <2>3, <2>4
<1> QED BY <1>9, <1>11, <1>12, <1>13, <1>14, <1>15 DEF HistoryInv

LEMMA HistoryInvNext == HistoryInv /\ [Next]_vars => HistoryInv'
<1> SUFFICES ASSUME HistoryInv, [Next]_vars PROVE HistoryInv'
  OBVIOUS
<1>0. DOMAIN tx = Requests /\ \A r \in Requests : TypedTx(tx[r]) /\ Snapshotted(tx[r])
  BY DEF HistoryInv, TypeOK
<1>1. ASSUME NEW r \in Requests, Handle(r) PROVE HistoryInv'
  BY <1>1, HistoryAfterHandle
<1>2. ASSUME NEW r \in Requests, Flush(r) \/ Invalidate(r) PROVE HistoryInv'
  <2>1. \A q \in Requests : /\ DOMAIN tx'[q] = Fields
                            /\ tx'[q].at = tx[q].at /\ tx'[q].status = tx[q].status
                            /\ tx'[q].content = tx[q].content /\ tx'[q].snapshot = tx[q].snapshot
                            /\ tx'[q].verdict = tx[q].verdict /\ tx'[q].by = tx[q].by
                            /\ tx'[q].voter = tx[q].voter /\ tx'[q].decides = tx[q].decides
    BY <1>0, <1>2 DEF Flush, Invalidate, Fields, TypedTx
  <2>2. \A q \in Requests : TypedTx(tx'[q]) /\ Snapshotted(tx'[q])
    BY <1>0, <2>1 DEF TypedTx, Snapshotted
  <2>3. DOMAIN tx' = Requests /\ UNCHANGED <<ruleVars, overlapped>>
    BY <1>0, <1>2 DEF Flush, Invalidate
  <2> QED BY <2>1, <2>2, <2>3, HistoryUndisturbed
<1>3. ASSUME NEW r \in Requests, Publish(r) PROVE HistoryInv'
  <2>1. \A q \in Requests : /\ DOMAIN tx'[q] = Fields
                            /\ tx'[q].at = tx[q].at
                            /\ tx'[q].status \in {tx[q].status, Assigned("published", rule.status)}
                            /\ tx'[q].content = tx[q].content /\ tx'[q].snapshot = tx[q].snapshot
                            /\ tx'[q].verdict = tx[q].verdict /\ tx'[q].by = tx[q].by
                            /\ tx'[q].voter = tx[q].voter /\ tx'[q].decides = tx[q].decides
    BY <1>0, <1>3 DEF Publish, Fields, TypedTx
  <2>2. Assigned("published", rule.status) \in Statuses \cup {Same}
    BY DEF Assigned, Statuses
  <2>3. \A q \in Requests : TypedTx(tx'[q]) /\ Snapshotted(tx'[q])
    BY <1>0, <2>1, <2>2 DEF TypedTx, Snapshotted
  <2>4. DOMAIN tx' = Requests /\ UNCHANGED <<ruleVars, overlapped>>
    BY <1>0, <1>3 DEF Publish
  <2> QED BY <2>1, <2>3, <2>4, HistoryUndisturbed
<1>4. ASSUME NEW r \in Requests, Commit(r) PROVE HistoryInv'
  BY <1>4, HistoryAfterCommit
<1>5. ASSUME NEW r \in Requests, Fail(r) PROVE HistoryInv'
  <2>1. DOMAIN tx' = Requests /\ \A q \in Requests : tx'[q] = IF q = r THEN Over("failed") ELSE tx[q]
    BY <1>0, <1>5 DEF Fail
  <2>2. UNCHANGED <<ruleVars, overlapped>>
    BY <1>5 DEF Fail
  <2> QED BY <1>0, <2>1, <2>2, OverIsTyped, HistoryUndisturbed
<1>6. CASE (\E e \in Evaluators : Evaluate(e)) \/ Expire \/ UNCHANGED vars
  <2>1. UNCHANGED <<ruleVars, tx, overlapped>>
    BY <1>6 DEF Evaluate, Miss, Load, Fill, Expire, vars
  <2> QED BY <1>0, <2>1, HistoryUndisturbed
<1> QED BY <1>1, <1>2, <1>3, <1>4, <1>5, <1>6 DEF Next, Transact

\* Nothing that a rule ever said is lost from its history, and each version
\* has a number of its own, as long as no two requests that make versions are
\* open together; and everything has its type.
THEOREM HistoryIsKept == Spec => []BookkeepingInvariant
<1>1. HistoryInv => BookkeepingInvariant
  BY DEF HistoryInv, BookkeepingInvariant
<1> QED BY <1>1, HistoryInvInit, HistoryInvNext, PTL DEF Spec
-----------------------------------------------------------------------------
(* Decisions.                                                              *)

Rows == Approvals \cup {"rule", "key"}

\* Whoever deletes the rule waits until nobody has locked anything, and locks
\* everything; nothing is locked of a rule that is gone.
LocksInv ==
  /\ \A r \in Requests : tx[r].locked \subseteq Rows
  /\ \A r \in Requests : Deletes(tx[r]) /\ tx[r].locked # {} =>
       tx[r].locked = Rows /\ \A q \in Requests \ {r} : tx[q].locked = {}
  /\ rule.status = "deleted" => \A r \in Requests : tx[r].locked = {}

Settling(r, i) == tx[r].at = "open" /\ Settles(tx[r], i)
Inserting(r, i) == tx[r].at = "open" /\ tx[r].inserts = i

\* What a request that settles an approval has read of it is still so, unless
\* another is to settle it too, or the rule is gone with it.
StillRead(t, i) ==
  /\ approval[i].status \in {"pending", None}
  /\ t.decides = i => t.by = {} \/ approval[i].by \subseteq t.by

RowsInv ==
  /\ \A i \in Approvals : approval[i].status = None => approval[i].by = {}
  /\ \A i \in Approvals, r \in Requests : Settling(r, i) =>
       /\ approval[i].status = None => rule.status = "deleted"
       /\ i \in contested \/ StillRead(tx[r], i)
       /\ \A q \in Requests \ {r} : Settling(q, i) => i \in contested
  /\ \A i \in Approvals, r \in Requests : Inserting(r, i) =>
       /\ approval[i].status = None
       /\ \A q \in Requests : ~Settling(q, i) /\ (Inserting(q, i) => q = r)

\* The inductive invariant of the decisions.
StandInv == HistoryInv /\ LocksInv /\ RowsInv

LEMMA IdleHolds ==
  ASSUME NEW outcome
  PROVE  /\ Idle.locked = {} /\ ~Deletes(Idle)
         /\ Over(outcome).at = outcome /\ Over(outcome).locked = {} /\ ~Deletes(Over(outcome))
BY DEF Idle, Over, Deletes, Same

LEMMA StandInvInit == Init => StandInv
<1> SUFFICES ASSUME Init PROVE StandInv
  OBVIOUS
<1>1. \A r \in Requests : tx[r] = Idle
  BY DEF Init
<1>2. LocksInv
  BY <1>1, IdleHolds DEF Init, LocksInv
<1>3. \A i \in Approvals : approval[i].status = None => approval[i].by = {}
  BY DEF Init, NoRow, None
<1>4. RowsInv
  BY <1>1, <1>3, IdleFacts DEF RowsInv, Settling, Inserting
<1> QED BY <1>2, <1>4, HistoryInvInit DEF StandInv

\* What a handler leaves: it settles pending approvals, as it read them, and
\* inserts one under an id of its own.
Fresh(t) ==
  /\ DOMAIN t = Fields
  /\ t.locked = {}
  /\ \A i \in Approvals : Settles(t, i) => approval[i].status = "pending" /\ StillRead(t, i)
  /\ t.inserts \in Approvals =>
       /\ rule.status # "deleted" /\ approval[t.inserts].status = None
       /\ \A q \in Requests : tx[q].inserts # t.inserts

LEMMA HandlersSettle ==
  ASSUME StandInv, NEW r \in Requests, Handle(r)
  PROVE  tx[r].at = "idle" /\ \E t : Fresh(t) /\ Open(r, t)
<1> DEFINE Opens == tx[r].at = "idle" /\ \E t : Fresh(t) /\ Open(r, t)
<1>1. ASSUME NEW t, DOMAIN t = Fields, t.locked = {}, t.decides = None, t.supersedes = {}, t.inserts = None
      PROVE  Fresh(t)
  BY <1>1, ApprovalsAssumption DEF Fresh, Settles
<1>2. ASSUME NEW status, NEW content, NEW old PROVE Fresh(Versioned(status, content, old))
  <2>1. LET t == Versioned(status, content, old)
        IN DOMAIN t = Fields /\ t.locked = {} /\ t.decides = None /\ t.supersedes = {} /\ t.inserts = None
    BY DEF Versioned, Mutation, Idle, Fields
  <2> QED BY <1>1, <2>1
<1>3. ASSUME NEW content \in Contents, NEW status \in {"draft", "published"}, Edit(r, status, content) PROVE Opens
  BY <1>2, <1>3 DEF Edit, Found
<1>4. ASSUME NEW v \in versions, Restore(r, v) PROVE Opens
  BY <1>2, <1>4 DEF Restore, Found
<1>5. ASSUME NEW status \in {"draft", "published"}, SetStatus(r, status) PROVE Opens
  <2> DEFINE t == [Mutation EXCEPT !.status = Assigned(status, rule.status)]
  <2>1. DOMAIN t = Fields /\ t.locked = {} /\ t.decides = None /\ t.supersedes = {} /\ t.inserts = None
    BY DEF Mutation, Idle, Fields
  <2>2. tx[r].at = "idle" /\ Open(r, t)
    BY <1>5 DEF SetStatus, Found
  <2> HIDE DEF t
  <2> QED BY <1>1, <2>1, <2>2
<1>6. ASSUME Delete(r) PROVE Opens
  <2> DEFINE t == [Mutation EXCEPT !.status = "deleted", !.early = TRUE]
  <2>1. DOMAIN t = Fields /\ t.locked = {} /\ t.decides = None /\ t.supersedes = {} /\ t.inserts = None
    BY DEF Mutation, Idle, Fields
  <2>2. tx[r].at = "idle" /\ Open(r, t)
    BY <1>6 DEF Delete, Found
  <2> HIDE DEF t
  <2> QED BY <1>1, <2>1, <2>2
<1>7. ASSUME NEW i \in Approvals, RequestApproval(r, i) PROVE Opens
  <2> DEFINE pending == { j \in Approvals : approval[j].status = "pending" }
             t == [Idle EXCEPT !.inserts = i, !.supersedes = pending]
  <2>1. DOMAIN t = Fields /\ t.locked = {} /\ t.decides = None /\ t.supersedes = pending /\ t.inserts = i
    BY DEF Idle, Fields
  <2>2. /\ tx[r].at = "idle" /\ Open(r, t) /\ rule.status # "deleted"
        /\ approval[i].status = None /\ \A q \in Requests : tx[q].inserts # i
    BY <1>7 DEF RequestApproval, Found
  <2> HIDE DEF t
  <2>3. Fresh(t)
    BY <2>1, <2>2, ApprovalsAssumption DEF Fresh, Settles, StillRead
  <2> QED BY <2>2, <2>3
<1>8. ASSUME NEW i \in Approvals, NEW u \in Users, Approve(r, i, u) PROVE Opens
  <2> DEFINE by == approval[i].by \cup {u}
             t == [Idle EXCEPT !.decides = i, !.voter = {u},
                               !.by = IF u \in approval[i].by THEN {} ELSE by,
                               !.verdict = IF AllRequired(by) THEN "approved" ELSE Same]
  <2>1. DOMAIN t = Fields /\ t.locked = {} /\ t.decides = i /\ t.supersedes = {} /\ t.inserts = None
        /\ t.by \in {{}, by}
    BY DEF Idle, Fields
  <2>2. tx[r].at = "idle" /\ Open(r, t) /\ approval[i].status = "pending"
    BY <1>8 DEF Approve, Undecided
  <2> HIDE DEF t
  <2>3. Fresh(t)
    BY <2>1, <2>2, ApprovalsAssumption DEF Fresh, Settles, StillRead
  <2> QED BY <2>2, <2>3
<1>9. ASSUME NEW i \in Approvals, Reject(r, i) PROVE Opens
  <2> DEFINE t == [Idle EXCEPT !.decides = i, !.verdict = "rejected"]
  <2>1. DOMAIN t = Fields /\ t.locked = {} /\ t.decides = i /\ t.supersedes = {} /\ t.inserts = None /\ t.by = {}
    BY DEF Idle, Fields
  <2>2. tx[r].at = "idle" /\ Open(r, t) /\ approval[i].status = "pending"
    BY <1>9 DEF Reject, Undecided
  <2> HIDE DEF t
  <2>3. Fresh(t)
    BY <2>1, <2>2, ApprovalsAssumption DEF Fresh, Settles, StillRead
  <2> QED BY <2>2, <2>3
<1> HIDE DEF Opens
<1>10. Opens
  BY <1>3, <1>4, <1>5, <1>6, <1>7, <1>8, <1>9 DEF Handle
<1> QED BY <1>10 DEF Opens

\* A step that leaves the rows, and of what is settled and inserted some.
LEMMA RowsUndisturbed ==
  ASSUME RowsInv, UNCHANGED <<rule, approval, contested>>,
         \A r \in Requests : tx'[r].at = "open" =>
           /\ tx[r].at = "open"
           /\ tx'[r].inserts = tx[r].inserts /\ tx'[r].decides = tx[r].decides
           /\ tx'[r].supersedes = tx[r].supersedes /\ tx'[r].by = tx[r].by
  PROVE  RowsInv'
<1>1. \A r \in Requests, i \in Approvals :
        /\ Settling(r, i)' => Settling(r, i) /\ (StillRead(tx[r], i) => StillRead(tx[r], i)')
        /\ Inserting(r, i)' => Inserting(r, i)
  BY DEF Settling, Settles, Inserting, StillRead
<1> QED BY <1>1 DEF RowsInv

LEMMA StandAfterHandle ==
  ASSUME StandInv, NEW r \in Requests, Handle(r)
  PROVE  LocksInv' /\ RowsInv'
<1>1. tx[r].at = "idle" /\ \E t : Fresh(t) /\ Open(r, t)
  BY HandlersSettle
<1>2. PICK t : Fresh(t) /\ Open(r, t)
  BY <1>1
<1> DEFINE u == [t EXCEPT !.at = "open"]
<1>3. /\ u.at = "open" /\ u.locked = {} /\ u.inserts = t.inserts /\ u.decides = t.decides
      /\ u.supersedes = t.supersedes /\ u.by = t.by
  BY <1>2 DEF Fresh, Fields
<1>4. /\ UNCHANGED <<rule, approval>>
      /\ tx' = [tx EXCEPT ![r] = u]
      /\ contested' = contested \cup
           { i \in Approvals : Settles(t, i) /\ \E q \in Requests : tx[q].at = "open" /\ Settles(tx[q], i) }
  BY <1>2 DEF Open, ruleVars
<1> HIDE DEF u
<1>5. \A q \in Requests : tx'[q] = IF q = r THEN u ELSE tx[q]
  BY <1>4 DEF StandInv, HistoryInv, TypeOK
<1>6. LocksInv'
  BY <1>3, <1>4, <1>5 DEF StandInv, LocksInv, Deletes
<1>7. ASSUME NEW i \in Approvals
      PROVE  /\ Settling(r, i)' <=> Settles(t, i)
             /\ Inserting(r, i)' <=> t.inserts = i
             /\ ~Settling(r, i) /\ ~Inserting(r, i)
             /\ \A q \in Requests \ {r} : (Settling(q, i)' <=> Settling(q, i)) /\ (Inserting(q, i)' <=> Inserting(q, i))
             /\ i \in contested' <=> i \in contested \/ (Settles(t, i) /\ \E q \in Requests : Settling(q, i))
  BY <1>1, <1>3, <1>4, <1>5 DEF Settling, Settles, Inserting
<1>8. ASSUME NEW i \in Approvals, NEW q \in Requests, Settling(q, i)'
      PROVE  /\ approval'[i].status = None => rule'.status = "deleted"
             /\ i \in contested' \/ StillRead(tx[q], i)'
             /\ \A p \in Requests \ {q} : Settling(p, i)' => i \in contested'
  <2>1. CASE q = r
    <3>1. approval[i].status = "pending" /\ StillRead(t, i)
      BY <1>2, <1>7, <1>8, <2>1 DEF Fresh
    <3>2. StillRead(tx[q], i)'
      BY <1>3, <1>4, <1>5, <2>1, <3>1 DEF StillRead
    <3> QED BY <1>4, <1>7, <1>8, <2>1, <3>1, <3>2 DEF None
  <2>2. CASE q # r
    <3>1. Settling(q, i)
      BY <1>7, <1>8, <2>2
    <3>2. StillRead(tx[q], i) => StillRead(tx[q], i)'
      BY <1>4, <1>5, <2>2 DEF StillRead
    <3> QED BY <1>4, <1>7, <2>2, <3>1, <3>2 DEF StandInv, RowsInv
  <2> QED BY <2>1, <2>2
<1>9. ASSUME NEW i \in Approvals, NEW q \in Requests, Inserting(q, i)'
      PROVE  /\ approval'[i].status = None
             /\ \A p \in Requests : ~Settling(p, i)' /\ (Inserting(p, i)' => p = q)
  <2>1. CASE q = r
    <3>1. /\ t.inserts = i /\ rule.status # "deleted" /\ approval[i].status = None
          /\ \A p \in Requests : tx[p].inserts # i
      BY <1>2, <1>7, <1>9, <2>1 DEF Fresh
    <3>2. ~Settles(t, i)
      BY <1>2, <3>1 DEF Fresh, None
    <3>3. \A p \in Requests : ~Settling(p, i) /\ ~Inserting(p, i)
      BY <3>1 DEF StandInv, RowsInv, Inserting
    <3> QED BY <1>4, <1>7, <2>1, <3>1, <3>2, <3>3
  <2>2. CASE q # r
    <3>1. Inserting(q, i)
      BY <1>7, <1>9, <2>2
    <3>2. approval[i].status = None /\ tx[q].inserts = i
      BY <3>1 DEF StandInv, RowsInv, Inserting
    <3>3. ~Settles(t, i) /\ t.inserts # i
      BY <1>2, <3>2 DEF Fresh, None
    <3> QED BY <1>4, <1>7, <3>1, <3>2, <3>3 DEF StandInv, RowsInv
  <2> QED BY <2>1, <2>2
<1>10. \A i \in Approvals : approval'[i].status = None => approval'[i].by = {}
  BY <1>4 DEF StandInv, RowsInv
<1>11. RowsInv'
  BY <1>8, <1>9, <1>10 DEF RowsInv
<1> QED BY <1>6, <1>11

\* Nobody flushes while another has flushed the deletion, nor deletes while
\* another has flushed anything.
LEMMA LocksAfterFlush ==
  ASSUME StandInv, NEW r \in Requests, Flush(r)
  PROVE  LocksInv'
<1> DEFINE L == Locks(tx[r])
<1>1. /\ L \ tx[r].locked # {} /\ rule.status # "deleted" /\ UNCHANGED rule
      /\ \A q \in Requests \ {r} : ~Conflict(tx[r], tx[q])
      /\ tx' = [tx EXCEPT ![r].locked = L]
  BY DEF Flush, ruleVars
<1>2. L \subseteq Rows /\ (Deletes(tx[r]) => L = Rows)
  BY DEF Locks, Rows
<1>3. LocksInv /\ DOMAIN tx = Requests /\ \A q \in Requests : DOMAIN tx[q] = Fields
  BY DEF StandInv, HistoryInv, TypeOK, TypedTx
<1>4. \A q \in Requests \ {r} : \A row \in L \cap tx[q].locked : row = "key" /\ ~Deletes(tx[r]) /\ ~Deletes(tx[q])
  BY <1>1 DEF Conflict
<1> HIDE DEF L
<1>5. \A q \in Requests : /\ tx'[q].locked = IF q = r THEN L ELSE tx[q].locked
                          /\ Deletes(tx'[q]) <=> Deletes(tx[q])
  BY <1>1, <1>3 DEF Fields, Deletes
<1>6. ASSUME NEW q \in Requests \ {r}, Deletes(tx[r]) PROVE tx[q].locked = {}
  BY <1>2, <1>3, <1>4, <1>6 DEF LocksInv
<1>7. ASSUME NEW q \in Requests \ {r}, Deletes(tx[q]) PROVE tx[q].locked = {}
  BY <1>1, <1>2, <1>3, <1>4, <1>7 DEF LocksInv
<1> QED BY <1>1, <1>2, <1>3, <1>5, <1>6, <1>7 DEF LocksInv, Deletes

\* What a commit makes of an approval that is not inserted or deleted.
LEMMA CommitWrites ==
  ASSUME StandInv, NEW r \in Requests, Commit(r), NEW i \in Approvals, ~Deletes(tx[r])
  PROVE  LET t == tx[r]
         IN /\ i = t.inserts => approval'[i] = [status |-> "pending", by |-> {}]
            /\ i # t.inserts /\ ~Settles(t, i) => approval'[i] = approval[i]
            /\ i # t.inserts /\ Settles(t, i) =>
                 /\ approval'[i].status = None => approval[i].status = None /\ approval'[i].by = {}
                 /\ approval'[i].by = approval[i].by \/ (t.decides = i /\ t.by # {} /\ approval'[i].by = t.by)
<1> DEFINE t == tx[r]
<1>1. /\ approval' = [j \in Approvals |-> ApprovalAfter(t, j)]
      /\ t.at = "open" /\ Locks(t) \subseteq t.locked
  BY DEF Commit, Committable, Flushed
<1>2. approval'[i] = ApprovalAfter(t, i)
  BY <1>1
<1>3. approval[i] \in [status : RowStatuses, by : SUBSET Users] /\ TypedTx(t)
  BY DEF StandInv, HistoryInv, TypeOK
<1>4. approval[i].status = None /\ Settles(t, i) => tx[r].locked = {}
  BY <1>1 DEF StandInv, RowsInv, LocksInv, Settling
<1>5. approval[i].status = None => approval[i].by = {}
  BY DEF StandInv, RowsInv
<1> HIDE DEF t
<1>6. CASE i = t.inserts
  BY <1>2, <1>6 DEF ApprovalAfter, t
<1>7. CASE i # t.inserts /\ i \in t.supersedes
  <2>1. approval'[i] = [approval[i] EXCEPT !.status = "rejected"]
    BY <1>2, <1>7 DEF ApprovalAfter, t
  <2>2. approval'[i].status = "rejected" /\ approval'[i].by = approval[i].by
    BY <1>3, <2>1
  <2> QED BY <1>7, <2>2 DEF None, Settles, t
<1>8. CASE i # t.inserts /\ i \notin t.supersedes /\ i = t.decides
  <2>1. approval'[i] = [status |-> Written(t.verdict, approval[i].status),
                        by |-> IF t.by = {} THEN approval[i].by ELSE t.by]
    BY <1>2, <1>8 DEF ApprovalAfter, t
  <2>2. approval'[i].status \in {approval[i].status, "approved", "rejected"}
    BY <1>3, <2>1 DEF Written, TypedTx
  <2>3. approval[i].status = None => t.by = {}
    BY <1>1, <1>4, <1>8 DEF Locks, Settles, t
  <2> QED BY <1>5, <1>8, <2>1, <2>2, <2>3 DEF None, Settles, t
<1>9. CASE i # t.inserts /\ i \notin t.supersedes /\ i # t.decides
  BY <1>2, <1>9 DEF ApprovalAfter, Settles, t
<1> QED BY <1>6, <1>7, <1>8, <1>9 DEF t

LEMMA StandAfterCommit ==
  ASSUME StandInv, NEW r \in Requests, Commit(r)
  PROVE  LocksInv' /\ RowsInv'
<1> DEFINE t == tx[r]
<1>1. /\ t.at = "open" /\ Locks(t) \subseteq t.locked
      /\ rule'.status = Written(t.status, rule.status)
      /\ approval' = [i \in Approvals |-> ApprovalAfter(t, i)]
      /\ tx' = [tx EXCEPT ![r] = Over("committed")]
      /\ UNCHANGED contested
  BY DEF Commit, Committable, Flushed
<1>2. DOMAIN tx = Requests /\ LocksInv /\ RowsInv /\ t.status \in Statuses \cup {Same}
  BY DEF StandInv, HistoryInv, TypeOK, TypedTx
<1>3. \A q \in Requests : tx'[q] = IF q = r THEN Over("committed") ELSE tx[q]
  BY <1>1, <1>2
<1>4. ASSUME NEW i \in Approvals
      PROVE  /\ ~Settling(r, i)' /\ ~Inserting(r, i)'
             /\ \A q \in Requests \ {r} : (Settling(q, i)' <=> Settling(q, i)) /\ (Inserting(q, i)' <=> Inserting(q, i))
             /\ Settles(t, i) => Settling(r, i)
             /\ t.inserts = i => Inserting(r, i)
  BY <1>1, <1>3, IdleHolds DEF Settling, Inserting
<1>5. CASE Deletes(t)
  <2>1. rule'.status = "deleted" /\ \A i \in Approvals : approval'[i] = NoRow
    BY <1>1, <1>5 DEF Deletes, Written, ApprovalAfter, Same
  <2>2. t.locked # {}
    BY <1>1, <1>5 DEF Locks
  <2>3. \A q \in Requests \ {r} : tx[q].locked = {}
    BY <1>2, <1>5, <2>2 DEF LocksInv
  <2>4. LocksInv'
    BY <1>3, <2>3, IdleHolds DEF LocksInv
  <2>5. \A q \in Requests, i \in Approvals : StillRead(tx[q], i)'
    BY <2>1 DEF StillRead, NoRow
  <2>6. RowsInv'
    BY <1>1, <1>2, <1>4, <2>1, <2>5 DEF RowsInv, NoRow
  <2> QED BY <2>4, <2>6
<1>6. CASE ~Deletes(t)
  <2>1. rule.status = "deleted" <=> rule'.status = "deleted"
    <3>1. t.status # Same => t.locked # {}
      BY <1>1 DEF Locks
    <3> QED BY <1>1, <1>2, <1>6, <3>1 DEF Deletes, Written, LocksInv
  <2>2. LocksInv'
    BY <1>2, <1>3, <2>1, IdleHolds DEF LocksInv, Deletes
  <2>3. ASSUME NEW i \in Approvals, NEW q \in Requests, Settling(q, i)'
        PROVE  /\ approval'[i].status = None => rule'.status = "deleted"
               /\ i \in contested' \/ StillRead(tx[q], i)'
               /\ \A p \in Requests \ {q} : Settling(p, i)' => i \in contested'
    <3>1. q # r /\ Settling(q, i) /\ tx'[q] = tx[q]
      BY <1>3, <1>4, <2>3
    <3>2. i # t.inserts
      BY <1>2, <1>4, <3>1 DEF RowsInv
    <3>3. approval'[i].status = None => approval[i].status = None
      BY <1>6, <3>2, CommitWrites
    <3>4. approval[i].status = None => rule.status = "deleted"
      BY <1>2, <3>1 DEF RowsInv
    <3>5. i \in contested \/ approval'[i] = approval[i]
      BY <1>2, <1>4, <1>6, <3>1, <3>2, CommitWrites DEF RowsInv
    <3>6. i \in contested \/ StillRead(tx[q], i)'
      BY <1>2, <3>1, <3>5 DEF RowsInv, StillRead
    <3> QED BY <1>1, <1>2, <1>4, <2>1, <3>1, <3>3, <3>4, <3>6 DEF RowsInv
  <2>4. ASSUME NEW i \in Approvals, NEW q \in Requests, Inserting(q, i)'
        PROVE  /\ approval'[i].status = None
               /\ \A p \in Requests : ~Settling(p, i)' /\ (Inserting(p, i)' => p = q)
    <3>1. q # r /\ Inserting(q, i)
      BY <1>4, <2>4
    <3>2. i # t.inserts /\ ~Settles(t, i)
      BY <1>2, <1>4, <3>1 DEF RowsInv
    <3>3. approval'[i] = approval[i]
      BY <1>6, <3>2, CommitWrites
    <3> QED BY <1>2, <1>4, <3>1, <3>3 DEF RowsInv
  <2>5. ASSUME NEW i \in Approvals, approval'[i].status = None PROVE approval'[i].by = {}
    <3>1. approval[i].status = None => approval[i].by = {}
      BY <1>2 DEF RowsInv
    <3>2. i # t.inserts
      BY <1>6, <2>5, CommitWrites DEF None
    <3> QED BY <1>6, <2>5, <3>1, <3>2, CommitWrites
  <2>6. RowsInv'
    BY <2>3, <2>4, <2>5 DEF RowsInv
  <2> QED BY <2>2, <2>6
<1> QED BY <1>5, <1>6

LEMMA StandInvNext == StandInv /\ [Next]_vars => StandInv'
<1> SUFFICES ASSUME StandInv, [Next]_vars PROVE StandInv'
  OBVIOUS
<1>0. /\ HistoryInv /\ LocksInv /\ RowsInv
      /\ DOMAIN tx = Requests /\ \A r \in Requests : DOMAIN tx[r] = Fields
  BY DEF StandInv, HistoryInv, TypeOK, TypedTx
<1>1. HistoryInv'
  BY <1>0, HistoryInvNext
<1>2. ASSUME NEW r \in Requests, Handle(r) PROVE LocksInv' /\ RowsInv'
  BY <1>2, StandAfterHandle
<1>3. ASSUME NEW r \in Requests, Flush(r) \/ Publish(r) \/ Invalidate(r) PROVE LocksInv' /\ RowsInv'
  <2>1. \A q \in Requests : /\ tx'[q].at = tx[q].at /\ tx'[q].inserts = tx[q].inserts
                            /\ tx'[q].decides = tx[q].decides /\ tx'[q].supersedes = tx[q].supersedes
                            /\ tx'[q].by = tx[q].by
    BY <1>0, <1>3 DEF Flush, Publish, Invalidate, Fields
  <2>2. UNCHANGED <<rule, approval, contested>>
    BY <1>3 DEF Flush, Publish, Invalidate, ruleVars
  <2>3. RowsInv'
    BY <1>0, <2>1, <2>2, RowsUndisturbed
  <2>4. CASE Flush(r)
    BY <2>3, <2>4, LocksAfterFlush
  <2>5. CASE Publish(r) \/ Invalidate(r)
    <3>1. \A q \in Requests : tx'[q].locked = tx[q].locked /\ (Deletes(tx'[q]) => Deletes(tx[q]))
      BY <1>0, <2>5 DEF Publish, Invalidate, Fields, Deletes, Assigned, Same
    <3>2. LocksInv'
      BY <1>0, <2>2, <3>1 DEF LocksInv
    <3> QED BY <2>3, <3>2
  <2> QED BY <1>3, <2>4, <2>5
<1>4. ASSUME NEW r \in Requests, Commit(r) PROVE LocksInv' /\ RowsInv'
  BY <1>4, StandAfterCommit
<1>5. ASSUME NEW r \in Requests, Fail(r) PROVE LocksInv' /\ RowsInv'
  <2>1. \A q \in Requests : tx'[q] = IF q = r THEN Over("failed") ELSE tx[q]
    BY <1>0, <1>5 DEF Fail
  <2>2. UNCHANGED <<rule, approval, contested>>
    BY <1>5 DEF Fail, ruleVars
  <2>3. RowsInv'
    BY <1>0, <2>1, <2>2, IdleHolds, RowsUndisturbed
  <2>4. LocksInv'
    BY <1>0, <2>1, <2>2, IdleHolds DEF LocksInv
  <2> QED BY <2>3, <2>4
<1>6. ASSUME (\E e \in Evaluators : Evaluate(e)) \/ Expire \/ UNCHANGED vars PROVE LocksInv' /\ RowsInv'
  <2>1. UNCHANGED <<rule, approval, contested, tx>>
    BY <1>6 DEF Evaluate, Miss, Load, Fill, Expire, vars, ruleVars
  <2>2. RowsInv'
    BY <1>0, <2>1, RowsUndisturbed
  <2>3. LocksInv'
    BY <1>0, <2>1 DEF LocksInv, Deletes
  <2> QED BY <2>2, <2>3
<1> QED BY <1>1, <1>2, <1>3, <1>4, <1>5, <1>6 DEF Next, Transact, StandInv

\* A decided request stays as it was decided and a vote counts for good,
\* whatever any number of requests do, as long as no two that decide or
\* replace it are open together.
THEOREM DecisionsAreKept == Spec => DecisionsStand
<1> DEFINE Stands(i) ==
      \/ approval'[i] = NoRow
      \/ /\ approval[i].by \subseteq approval'[i].by
         /\ approval[i].status \in {"approved", "rejected"} => approval'[i].status = approval[i].status
<1>1. ASSUME StandInv, Next, NEW i \in Approvals \ contested PROVE Stands(i)
  <2>1. ASSUME NEW r \in Requests, Commit(r) PROVE Stands(i)
    <3> DEFINE t == tx[r]
    <3>1. t.at = "open" /\ approval' = [j \in Approvals |-> ApprovalAfter(t, j)]
      BY <2>1 DEF Commit, Committable
    <3>2. /\ i = t.inserts => Inserting(r, i)
          /\ Settles(t, i) => Settling(r, i)
      BY <3>1 DEF Inserting, Settling
    <3>3. CASE Deletes(t)
      BY <3>1, <3>3 DEF ApprovalAfter
    <3>4. CASE ~Deletes(t) /\ i = t.inserts
      BY <1>1, <3>2, <3>4 DEF StandInv, RowsInv, None
    <3>5. CASE ~Deletes(t) /\ i # t.inserts /\ Settles(t, i)
      <4>1. StillRead(t, i)
        BY <1>1, <3>2, <3>5 DEF StandInv, RowsInv
      <4>2. approval'[i].by = approval[i].by \/ (t.decides = i /\ t.by # {} /\ approval'[i].by = t.by)
        BY <1>1, <2>1, <3>5, CommitWrites
      <4> QED BY <4>1, <4>2 DEF StillRead, None
    <3>6. CASE ~Deletes(t) /\ i # t.inserts /\ ~Settles(t, i)
      <4>1. approval'[i] = approval[i]
        BY <1>1, <2>1, <3>6, CommitWrites
      <4> QED BY <4>1
    <3> QED BY <3>3, <3>4, <3>5, <3>6
  <2>2. ASSUME NEW r \in Requests, Handle(r) PROVE Stands(i)
    <3>1. UNCHANGED approval
      BY <2>2, HandlersBegin DEF ruleVars
    <3> QED BY <3>1
  <2>3. CASE ~\E r \in Requests : Commit(r) \/ Handle(r)
    <3>1. UNCHANGED approval
      BY <1>1, <2>3 DEF Next, Transact, Flush, Publish, Invalidate, Fail, Evaluate, Miss, Load, Fill, Expire, ruleVars
    <3> QED BY <3>1
  <2> QED BY <2>1, <2>2, <2>3
<1>2. StandInv /\ [Next]_vars =>
        [\A i \in Approvals \ contested :
           \/ approval'[i] = NoRow
           \/ /\ approval[i].by \subseteq approval'[i].by
              /\ approval[i].status \in {"approved", "rejected"} => approval'[i].status = approval[i].status]_vars
  BY <1>1
<1> QED BY <1>2, StandInvInit, StandInvNext, PTL DEF Spec, DecisionsStand
=============================================================================
