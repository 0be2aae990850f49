------------------------------- MODULE RuleBook -------------------------------
(***************************************************************************)
(* One rule, its history, its approvals, and the Redis cache from which    *)
(* rules are evaluated.                                                    *)
(*                                                                         *)
(* Each API request is a transaction (READ COMMITTED, committed by get_db  *)
(* when the handler is over): it reads, decides what to assign, flushes    *)
(* the columns that changed, which waits for the rows that others have     *)
(* flushed and overwrites what they committed meanwhile, and commits.      *)
(* The handlers invalidate the cache before they commit.  A request may    *)
(* fail at any time, and then leaves nothing but an invalidated cache.     *)
(*                                                                         *)
(* An inactive rule is not told apart from a draft.  The rule requires     *)
(* approval, by the same people throughout.                                *)
(***************************************************************************)
EXTENDS Naturals, FiniteSetsExt

CONSTANTS
  Requests,    \* the calls of the API, each made at most once
  Evaluators,  \* the processes that evaluate rules
  Users,       \* those who decide approvals
  Required,    \* required_approvers
  Contents,    \* what a rule may say
  Approvals    \* the ids of approval requests

ASSUME RequiredAssumption == Required \subseteq Users /\ Required # {}

None == "none"
Same == "same"     \* a column that keeps its value
Empty == "empty"   \* the cache has no entry
Missed == "missed" \* an evaluator has found none
Hidden == "hidden" \* the cached list of rules does not have the rule

ASSUME ContentsAssumption == Contents \cap {None, Same, Empty, Missed, Hidden} = {}
ASSUME ApprovalsAssumption == Approvals \cap {None, "rule", "key"} = {}

VARIABLES
  rule,        \* the committed row
  versions,    \* its rule_versions
  approval,    \* its rule_approvals
  tx,          \* what each request is doing
  cache,       \* the entry of the organisation
  evaluator,   \* what each evaluator has read and may cache
  said,        \* who has approved which request (history)
  known,       \* the contents the rule has had (history)
  overlapped,  \* two requests that make versions were open together (history)
  contested    \* approvals that two open requests were to decide or to replace (history)

ruleVars == <<rule, versions, approval, said, known>>
cacheVars == <<cache, evaluator>>
vars == <<ruleVars, tx, cacheVars, overlapped, contested>>

Statuses == {"draft", "published", "deleted"}

NoRow == [status |-> None, by |-> {}]

\* What a request has read and decided: the columns it assigns, the version it
\* adds, the approval requests that it inserts, supersedes and decides, the
\* verdict, the list it writes back and who votes; whether it still has to
\* invalidate the cache, before it writes the rule or after; what it has
\* locked by flushing.
Idle ==
  [at |-> "idle", status |-> Same, content |-> Same, snapshot |-> {}, inserts |-> None,
   supersedes |-> {}, decides |-> None, verdict |-> Same, by |-> {}, voter |-> {},
   cached |-> FALSE, early |-> FALSE, invalidated |-> FALSE, locked |-> {}]
Over(outcome) == [Idle EXCEPT !.at = outcome]

\* raced: the value was read after a mutation had invalidated the cache and
\* before it committed, or read before the cache was invalidated.
Entry(value, raced) == [value |-> value, raced |-> raced]

\* An approval that is open already may lack some of the required votes.
Init ==
  /\ rule \in [status : {"draft", "published"}, content : Contents]
  /\ versions = {}
  /\ \/ approval = [i \in Approvals |-> NoRow]
     \/ \E i \in Approvals, by \in SUBSET Required \ {Required} :
          approval = [j \in Approvals |-> IF j = i THEN [status |-> "pending", by |-> by] ELSE NoRow]
  /\ said = UNION { approval[i].by \X {i} : i \in Approvals }
  /\ known = {rule.content}
  /\ tx = [r \in Requests |-> Idle]
  /\ cache = Entry(Empty, FALSE)
  /\ evaluator = [e \in Evaluators |-> Entry(None, FALSE)]
  /\ overlapped = FALSE
  /\ contested = {}

-----------------------------------------------------------------------------
(* The handlers: what they read and what they will write.                  *)

Found(r) == tx[r].at = "idle" /\ rule.status # "deleted"

Settles(t, i) == i = t.decides \/ i \in t.supersedes

Open(r, t) ==
  /\ tx' = [tx EXCEPT ![r] = [t EXCEPT !.at = "open"]]
  /\ contested' = contested \cup { i \in Approvals : Settles(t, i) /\ \E q \in Requests : tx[q].at = "open" /\ Settles(tx[q], i) }
  /\ UNCHANGED <<ruleVars, cacheVars>>

\* SQLAlchemy leaves a column out whose value it loaded already.
Assigned(new, old) == IF new = old THEN Same ELSE new

MutationUncached == Idle
Mutation == [Idle EXCEPT !.cached = TRUE]

NextVersion == Max({0} \cup { v.num : v \in versions }) + 1

\* update_rule and restore_version add a snapshot of what they read, under
\* the number after the highest one.
Versioned(status, content, snapshotted) ==
  [Mutation EXCEPT !.status = Assigned(status, rule.status),
                   !.content = Assigned(content, rule.content),
                   !.snapshot = {[num |-> NextVersion, content |-> snapshotted, status |-> rule.status]}]

Crowd == overlapped' = (overlapped \/ \E q \in Requests : tx[q].at = "open" /\ tx[q].snapshot # {})

ReplacedByNew(content) == content
Replaced(content) == rule.content

\* update_rule: any of its columns, after a snapshot.
Edit(r, status, content) ==
  /\ Found(r)
  /\ Open(r, Versioned(status, content, Replaced(content)))
  /\ Crowd

\* restore_version, which fails when two versions have the number.
Restore(r, v) ==
  /\ Found(r)
  /\ { w \in versions : w.num = v.num } = {v}
  /\ Open(r, Versioned(v.status, v.content, Replaced(v.content)))
  /\ Crowd

\* publish_rule and unpublish_rule; neither looks at approvals.
SetStatus(r, status) ==
  /\ Found(r)
  /\ Open(r, [Mutation EXCEPT !.status = Assigned(status, rule.status)])
  /\ UNCHANGED overlapped

\* The DELETE is only sent with the commit.
Delete(r) ==
  /\ Found(r)
  /\ Open(r, [Mutation EXCEPT !.status = "deleted", !.early = TRUE])
  /\ UNCHANGED overlapped

\* request_approval rejects the pending requests that it sees.
RequestApproval(r, i) ==
  /\ Found(r)
  /\ approval[i].status = None /\ \A q \in Requests : tx[q].inserts # i
  /\ Open(r, [Idle EXCEPT !.inserts = i,
                          !.supersedes = { j \in Approvals : approval[j].status = "pending" }])
  /\ UNCHANGED overlapped

UndecidedOrNot(i) == approval[i].status # None
Undecided(i) == approval[i].status = "pending"

AnyRequired(by) == Required \cap by # {}
AllRequired(by) == Required \subseteq by

\* decide_approval: the list of approvals is read, extended and written back.
Approve(r, i, u) ==
  LET by == approval[i].by \cup {u}
  IN /\ tx[r].at = "idle"
     /\ Undecided(i)
     /\ Open(r, [Idle EXCEPT !.decides = i, !.voter = {u},
                             !.by = IF u \in approval[i].by THEN {} ELSE by,
                             !.verdict = IF AllRequired(by) THEN "approved" ELSE Same])
     /\ UNCHANGED overlapped

Reject(r, i) ==
  /\ tx[r].at = "idle"
  /\ Undecided(i)
  /\ Open(r, [Idle EXCEPT !.decides = i, !.verdict = "rejected"])
  /\ UNCHANGED overlapped

-----------------------------------------------------------------------------
(* How a transaction goes on.                                              *)

Deletes(t) == t.status = "deleted"

\* The rows that its statements lock; an insert locks the key of its rule.
Locks(t) ==
  { row \in Approvals \cup {"rule", "key"} :
      \/ Deletes(t)
      \/ row = "rule" /\ {t.status, t.content} # {Same}
      \/ row = "key" /\ (t.snapshot # {} \/ t.inserts # None)
      \/ row \in t.supersedes
      \/ row = t.decides /\ (t.verdict # Same \/ t.by # {}) }

\* Inserts do not wait for each other, nor for the updates of the rule.
Conflict(t, other) ==
  \E row \in Locks(t) \cap other.locked : row = "key" => Deletes(t) \/ Deletes(other)

\* The DELETE of the rule and its publication by the last approval follow
\* the invalidation; all other writes come before it.
Flush(r) ==
  /\ tx[r].at = "open"
  /\ Locks(tx[r]) \ tx[r].locked # {}
  /\ rule.status # "deleted"
  /\ tx[r].early => tx[r].invalidated
  /\ \A q \in Requests \ {r} : ~Conflict(tx[r], tx[q])
  /\ tx' = [tx EXCEPT ![r].locked = Locks(tx[r])]
  /\ UNCHANGED <<ruleVars, cacheVars, overlapped, contested>>

Flushed(t) == Locks(t) \subseteq t.locked

\* The last approval: the SELECT of the rule has flushed the approval.
Publish(r) ==
  /\ tx[r].at = "open"
  /\ tx[r].verdict = "approved" /\ ~tx[r].early /\ Flushed(tx[r])
  /\ tx' = [tx EXCEPT ![r].status = Assigned("published", rule.status),
                      ![r].cached = TRUE, ![r].early = TRUE]
  /\ UNCHANGED <<ruleVars, cacheVars, overlapped, contested>>

EmptyAndRaced ==
  /\ cache' = Entry(Empty, FALSE)
  /\ evaluator' = [e \in Evaluators |->
                     Entry(evaluator[e].value, evaluator[e].value \notin {None, Missed})]

\* cache_invalidate
Invalidate(r) ==
  /\ tx[r].at = "open"
  /\ tx[r].cached /\ ~tx[r].invalidated
  /\ tx[r].early \/ Flushed(tx[r])
  /\ tx' = [tx EXCEPT ![r].invalidated = TRUE]
  /\ EmptyAndRaced
  /\ UNCHANGED <<ruleVars, overlapped, contested>>

Written(new, old) == IF new = Same THEN old ELSE new

\* The columns that were assigned, in the rows as they are now.
ApprovalAfter(t, i) ==
  IF Deletes(t) THEN NoRow
  ELSE IF i = t.inserts THEN [status |-> "pending", by |-> {}]
  ELSE IF i \in t.supersedes THEN [approval[i] EXCEPT !.status = "rejected"]
  ELSE IF i = t.decides THEN [status |-> Written(t.verdict, approval[i].status),
                              by |-> IF t.by = {} THEN approval[i].by ELSE t.by]
  ELSE approval[i]

Committable(t) ==
  /\ t.at = "open"
  /\ Flushed(t)
  /\ t.verdict = "approved" => t.early
  /\ t.cached => t.invalidated

\* The versions of a deleted rule lose their rule_id.
Commit(r) ==
  LET t == tx[r]
  IN /\ Committable(t)
     /\ rule' = [status |-> Written(t.status, rule.status), content |-> Written(t.content, rule.content)]
     /\ versions' = IF Deletes(t) THEN {} ELSE versions \cup t.snapshot
     /\ approval' = [i \in Approvals |-> ApprovalAfter(t, i)]
     /\ said' = said \cup (t.voter \X {t.decides})
     /\ known' = IF rule'.status = "deleted" THEN {} ELSE known \cup {rule'.content}
     /\ tx' = [tx EXCEPT ![r] = Over("committed")]
     /\ UNCHANGED <<cacheVars, overlapped, contested>>

\* The database, Redis or the process fails, or the client goes away.
Fail(r) ==
  /\ tx[r].at = "open"
  /\ tx' = [tx EXCEPT ![r] = Over("failed")]
  /\ UNCHANGED <<ruleVars, cacheVars, overlapped, contested>>

-----------------------------------------------------------------------------
(* get_cached_rules: a hit changes nothing, a miss fills the cache.        *)

Visible == IF rule.status = "published" THEN rule.content ELSE Hidden

Miss(e) ==
  /\ evaluator[e].value = None
  /\ cache.value = Empty
  /\ evaluator' = [evaluator EXCEPT ![e] = Entry(Missed, FALSE)]
  /\ UNCHANGED <<ruleVars, tx, cache, overlapped, contested>>

InvalidatedTooEarly == \E r \in Requests : tx[r].at = "open" /\ tx[r].invalidated

Load(e) ==
  /\ evaluator[e].value = Missed
  /\ evaluator' = [evaluator EXCEPT ![e] = Entry(Visible, InvalidatedTooEarly)]
  /\ UNCHANGED <<ruleVars, tx, cache, overlapped, contested>>

\* SETEX, which may fail.
Fill(e) ==
  /\ evaluator[e].value \notin {None, Missed}
  /\ \/ cache' = evaluator[e]
     \/ UNCHANGED cache
  /\ evaluator' = [evaluator EXCEPT ![e] = Entry(None, FALSE)]
  /\ UNCHANGED <<ruleVars, tx, overlapped, contested>>

\* The time to live of the entry.
Expire ==
  /\ cache.value # Empty
  /\ cache' = Entry(Empty, FALSE)
  /\ UNCHANGED <<ruleVars, tx, evaluator, overlapped, contested>>

Handle(r) ==
  \/ \E content \in Contents, status \in {"draft", "published"} : Edit(r, status, content)
  \/ \E v \in versions : Restore(r, v)
  \/ \E status \in {"draft", "published"} : SetStatus(r, status)
  \/ Delete(r)
  \/ \E i \in Approvals : RequestApproval(r, i)
  \/ \E i \in Approvals, u \in Users : Approve(r, i, u)
  \/ \E i \in Approvals : Reject(r, i)

Transact(r) == Handle(r) \/ Flush(r) \/ Publish(r) \/ Invalidate(r) \/ Commit(r) \/ Fail(r)
Evaluate(e) == Miss(e) \/ Load(e) \/ Fill(e)

Next ==
  \/ \E r \in Requests : Transact(r)
  \/ \E e \in Evaluators : Evaluate(e)
  \/ Expire

Spec == Init /\ [][Next]_vars

-----------------------------------------------------------------------------
Values == Contents \cup {None, Missed, Empty, Hidden}
Entries == [value : Values, raced : BOOLEAN]
RowStatuses == {None, "pending", "approved", "rejected"}

\* The rows, the history and the cache have the values the code gives them;
\* versions are numbered from 1.
TypeOK ==
  /\ rule \in [status : Statuses, content : Contents]
  /\ versions \subseteq [num : Nat \ {0}, content : Contents, status : Statuses]
  /\ approval \in [Approvals -> [status : RowStatuses, by : SUBSET Users]]
  /\ DOMAIN tx = Requests
  /\ cache \in Entries
  /\ evaluator \in [Evaluators -> Entries]
  /\ said \subseteq Users \X Approvals
  /\ known \subseteq Contents
  /\ overlapped \in BOOLEAN
  /\ contested \subseteq Approvals

\* Rules are evaluated as they were last committed: every handler that
\* changes one invalidates the cache, and whatever is left in it was read
\* in the window between an invalidation and the commit that follows it
\* (rule_cache.invalidate and the commit of get_db).
CacheIsFresh == cache.raced \/ cache.value \in {Empty, Visible}

\* A request is approved only if everybody required has approved it, though
\* each vote of decide_approval writes back a list that was read before.
ApprovedByEveryone ==
  \A i \in Approvals : approval[i].status = "approved" => \A u \in Required : <<u, i>> \in said

\* Nothing a rule ever said is lost from its history (update_rule and
\* restore_version), and each version has a number of its own, unless two
\* requests made versions at the same time.
HistoryIsComplete ==
  \/ overlapped
  \/ /\ known \subseteq {rule.content} \cup { v.content : v \in versions }
     /\ \A v, w \in versions : v.num = w.num => v = w

\* What holds of the rule, its versions and its approvals, with the types.
BookkeepingInvariant == TypeOK /\ HistoryIsComplete

\* A decided request stays as it was decided, and a vote counts for good,
\* whatever requests come after, unless two of them that decide or replace it
\* were open together: decide_approval writes the list and the verdict over
\* what was committed since it read them.
DecisionsStand ==
  [][\A i \in Approvals \ contested :
       \/ approval'[i] = NoRow
       \/ /\ approval[i].by \subseteq approval'[i].by
          /\ approval[i].status \in {"approved", "rejected"} => approval'[i].status = approval[i].status]_vars
=============================================================================
