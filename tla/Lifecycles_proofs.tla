--------------------------- MODULE Lifecycles_proofs ---------------------------
(***************************************************************************)
(* Proofs about how runs begin and end.                                    *)
(*                                                                         *)
(* Executions of workflows, any number of them in a request: the row of a  *)
(* run that has something to do shows what the run returned, no run does   *)
(* anything on behalf of a request that was not committed, and what the    *)
(* request says of its batch is so.                                        *)
(*                                                                         *)
(* Runs of agents, of any number of turns, calls and answers: no tool is   *)
(* executed without consent, and one slot for the answer is enough as long *)
(* as nobody answers a call twice or answers when nothing was asked; and   *)
(* the ledger shows how the run ended unless a report was lost.            *)
(***************************************************************************)
EXTENDS ExecutionLifecycle, AgentRun, TLAPS

\* The inductive invariant.  Nobody sees a row of a request that has not
\* committed, a run starts and ends once, and only slow runs write late.
RowsAreCommitted == request # "committed" => \A e \in Executions : row[e] = Absent

StartsOnce ==
  request = "open" =>
    \A e \in Executions : step[e] \in {"waiting", "inserted"} => run[e] = "none"

EndsOnce == \A e \in Executions : run[e] # "ended" => outcome[e] = "none"

LateIsSlow == \A w \in late : w[1] \in slow

LifeInv ==
  /\ TypeOK
  /\ RowsAreCommitted
  /\ StartsOnce
  /\ EndsOnce
  /\ LateIsSlow
  /\ OrphansDoNothing
  /\ FinishedRowsShowOutcome

LEMMA LifeInvInit == Init => LifeInv
<1> SUFFICES ASSUME Init PROVE LifeInv
  OBVIOUS
<1>1. TypeOK
  BY DEF Init, TypeOK, Absent, RowStatuses, Steps
<1>2. QED
  BY <1>1 DEF Init, LifeInv, RowsAreCommitted, StartsOnce, EndsOnce, LateIsSlow,
     OrphansDoNothing, FinishedRowsShowOutcome, Finished

\* A status update touches one row, and only if it is there.
LEMMA UpdateKeeps ==
  ASSUME TypeOK, NEW e \in Executions, NEW s \in {"running", "completed", "failed"},
         Update(e, s) \/ NoUpdate
  PROVE  /\ row' \in [Executions -> RowStatuses]
         /\ started_at' \subseteq { d \in Executions : row'[d] # Absent }
         /\ \A d \in Executions : row[d] = Absent <=> row'[d] = Absent
         /\ \A d \in Executions : d # e => row'[d] = row[d]
         /\ Update(e, s) /\ row[e] # Absent => row'[e] = s
BY DEF TypeOK, Update, NoUpdate, RowStatuses, Absent

\* Attempts that time out make their execution slow.
LEMMA TimedOutKeeps ==
  ASSUME TypeOK, LateIsSlow, NEW e \in Executions,
         NEW writes \in SUBSET {"running", "completed", "failed"}, TimedOut(e, writes)
  PROVE  /\ late' \subseteq Executions \X {"running", "completed", "failed"}
         /\ slow' \subseteq Executions
         /\ slow \subseteq slow'
         /\ LateIsSlow'
<1>1. PICK l \in SUBSET writes :
        /\ late' = late \cup ({e} \X l)
        /\ slow' = IF l = {} THEN slow ELSE slow \cup {e}
  BY DEF TimedOut
<1>2. \A w \in {e} \X l : w[1] = e /\ w \in Executions \X {"running", "completed", "failed"} /\ l # {}
  OBVIOUS
<1>3. QED
  BY <1>1, <1>2 DEF TypeOK, LateIsSlow

\* Steps of the request: they move no run past its start, and no row that
\* is already there.
LEMMA RequestKeeps ==
  ASSUME LifeInv, NEW e \in Executions, Request(e)
  PROVE  LifeInv'
<1>1. /\ request = "open" /\ request' \in {"open", "rolled_back"}
      /\ UNCHANGED <<swallows, row, started_at, outcome, lateVars>>
  BY DEF LifeInv, TypeOK, Request, InsertRow, StartRun, MarkDraftRunning, CacheStatus, At, Advance,
     Rollback, Raise, runVars
<1>2. /\ step' \in [Executions -> Steps]
      /\ \A d \in Executions : d # e => step'[d] = step[d]
  BY DEF LifeInv, TypeOK, Steps, Request, InsertRow, StartRun, MarkDraftRunning, CacheStatus,
     Advance, Rollback, Raise
<1>3. draft' \in [Executions -> {Absent, "pending", "running"}]
  BY DEF LifeInv, TypeOK, Request, InsertRow, StartRun, MarkDraftRunning, CacheStatus, Draft
<1>4. \/ UNCHANGED run
      \/ /\ run' = [run EXCEPT ![e] = "load"]
         /\ run[e] = "none"
  BY <1>1 DEF LifeInv, StartsOnce, Request, InsertRow, StartRun, MarkDraftRunning, CacheStatus, At, runVars
<1>5. TypeOK'
  BY <1>1, <1>2, <1>3, <1>4 DEF LifeInv, TypeOK, lateVars
<1>6. RowsAreCommitted' /\ LateIsSlow'
  BY <1>1 DEF LifeInv, RowsAreCommitted, LateIsSlow, lateVars
<1>7. StartsOnce'
  <2>1. SUFFICES ASSUME request' = "open", NEW d \in Executions,
                        step'[d] \in {"waiting", "inserted"}
                 PROVE  run'[d] = "none"
    BY DEF StartsOnce
  <2>2. CASE d # e
    BY <1>1, <1>2, <1>4, <2>1, <2>2 DEF LifeInv, TypeOK, StartsOnce
  <2>3. CASE d = e
    BY <1>1, <2>1, <2>3 DEF LifeInv, TypeOK, StartsOnce, Steps, Request, InsertRow, StartRun,
       MarkDraftRunning, CacheStatus, At, Advance, Rollback, Raise, runVars
  <2>4. QED
    BY <2>2, <2>3
<1>8. EndsOnce'
  BY <1>1, <1>4 DEF LifeInv, TypeOK, EndsOnce
<1>9. OrphansDoNothing'
  BY <1>1, <1>4 DEF LifeInv, TypeOK, OrphansDoNothing, Finished
<1>10. FinishedRowsShowOutcome'
  BY <1>1 DEF LifeInv, FinishedRowsShowOutcome, Finished, lateVars
<1>11. QED
  BY <1>5, <1>6, <1>7, <1>8, <1>9, <1>10 DEF LifeInv

\* What a step of the run keeps when it writes no node: the rows that other
\* runs own, and the order of its own writes.
LEMMA WorkerKeeps ==
  ASSUME LifeInv, NEW e \in Executions, Worker(e)
  PROVE  LifeInv'
<1>1. /\ UNCHANGED apiVars
      /\ run[e] \in {"load", "mark", "record", "finish"}
  BY DEF Worker, LoadDefinition, MarkRunning, RecordNode, Finish
<1>2. outcome[e] = "none"
  BY <1>1 DEF LifeInv, EndsOnce
<1>3. /\ run' \in [Executions -> {"none", "load", "mark", "record", "finish", "ended"}]
      /\ outcome' \in [Executions -> {"none", "completed", "failed", "raised"}]
      /\ \A d \in Executions : d # e => run'[d] = run[d] /\ outcome'[d] = outcome[d]
      /\ run'[e] # "none"
      /\ run'[e] # "ended" => outcome'[e] = "none"
  BY <1>2 DEF LifeInv, TypeOK, Worker, LoadDefinition, MarkRunning, RecordNode, Finish, Continue, End
<1>4. \/ UNCHANGED <<row, started_at, lateVars>>
      \/ \E s \in {"running", "completed", "failed"},
            writes \in SUBSET {"running", "completed", "failed"} :
           (Update(e, s) \/ NoUpdate) /\ TimedOut(e, writes)
  <2>1. CASE LoadDefinition(e) \/ RecordNode(e)
    BY <2>1 DEF LoadDefinition, RecordNode
  <2>2. CASE MarkRunning(e)
    BY <2>2 DEF MarkRunning
  <2>3. CASE Finish(e)
    <3>1. PICK s \in {"completed", "failed"} :
            \/ Update(e, s) /\ End(e, s) /\ TimedOut(e, {"completed"})
            \/ (Update(e, s) \/ NoUpdate) /\ End(e, "raised") /\ TimedOut(e, {"completed", "failed"})
      BY <2>3 DEF Finish
    <3>2. QED
      BY <3>1
  <2>4. QED
    BY <2>1, <2>2, <2>3 DEF Worker
<1>5. /\ row' \in [Executions -> RowStatuses]
      /\ started_at' \subseteq { d \in Executions : row'[d] # Absent }
      /\ \A d \in Executions : row[d] = Absent <=> row'[d] = Absent
      /\ \A d \in Executions : d # e => row'[d] = row[d]
      /\ late' \subseteq Executions \X {"running", "completed", "failed"}
      /\ slow' \subseteq Executions
      /\ slow \subseteq slow'
      /\ LateIsSlow'
  <2>1. CASE UNCHANGED <<row, started_at, lateVars>>
    BY <2>1 DEF LifeInv, TypeOK, LateIsSlow, lateVars
  <2>2. CASE \E s \in {"running", "completed", "failed"},
                writes \in SUBSET {"running", "completed", "failed"} :
               (Update(e, s) \/ NoUpdate) /\ TimedOut(e, writes)
    BY <2>2, UpdateKeeps, TimedOutKeeps DEF LifeInv
  <2>3. QED
    BY <1>4, <2>1, <2>2
<1>6. TypeOK'
  BY <1>1, <1>3, <1>5 DEF LifeInv, TypeOK, apiVars
<1>7. RowsAreCommitted' /\ EndsOnce'
  BY <1>1, <1>3, <1>5 DEF LifeInv, RowsAreCommitted, EndsOnce, apiVars
<1>8. StartsOnce'
  BY <1>1, <1>3 DEF LifeInv, StartsOnce, apiVars
<1>9. OrphansDoNothing'
  <2>1. SUFFICES ASSUME request # "committed", e \notin TriggerOnly
                 PROVE  run'[e] # "finish" /\ ~Finished(e)'
    BY <1>1, <1>3 DEF LifeInv, OrphansDoNothing, Finished, apiVars
  <2>2. row[e] = Absent /\ run[e] # "finish"
    BY <2>1 DEF LifeInv, RowsAreCommitted, OrphansDoNothing
  <2>3. LoadDefinition(e) \/ MarkRunning(e)
    BY <2>2 DEF Worker, RecordNode, Recordable, Finish
  <2>4. QED
    BY <1>2, <2>1, <2>3 DEF LifeInv, TypeOK, LoadDefinition, MarkRunning, Continue, End, Finished
<1>10. FinishedRowsShowOutcome'
  <2>1. SUFFICES ASSUME Finished(e)', row'[e] # Absent
                 PROVE  row'[e] = outcome'[e]
    BY <1>3, <1>5 DEF LifeInv, FinishedRowsShowOutcome, Finished
  <2>2. Finish(e)
    BY <1>2, <2>1 DEF LifeInv, TypeOK, Worker, LoadDefinition, MarkRunning, RecordNode, Continue, End,
       Finished
  <2>3. PICK s \in {"completed", "failed"} :
          (Update(e, s) /\ End(e, s)) \/ End(e, "raised")
    BY <2>2 DEF Finish
  <2>4. Update(e, s) /\ outcome'[e] = s
    BY <2>1, <2>3 DEF LifeInv, TypeOK, End, Finished
  <2>5. QED
    BY <1>5, <2>1, <2>4, UpdateKeeps DEF LifeInv
<1>11. QED
  BY <1>5, <1>6, <1>7, <1>8, <1>9, <1>10 DEF LifeInv

LEMMA LifeInvNext == LifeInv /\ [Next]_vars => LifeInv'
<1> SUFFICES ASSUME LifeInv, [Next]_vars PROVE LifeInv'
  OBVIOUS
<1>1. CASE \E e \in Executions : Request(e)
  BY <1>1, RequestKeeps
<1>2. CASE \E e \in Executions : Worker(e)
  BY <1>2, WorkerKeeps
<1>3. ASSUME NEW e \in Executions, DeleteWorkflow(e)
      PROVE  LifeInv'
  BY <1>3 DEF DeleteWorkflow, LifeInv, TypeOK, RowsAreCommitted, StartsOnce, EndsOnce, LateIsSlow,
     OrphansDoNothing, FinishedRowsShowOutcome, Finished, RowStatuses, apiVars, runVars, lateVars
<1>4. CASE Commit
  <2>1. /\ request = "open" /\ request' \in {"committed", "rolled_back"}
        /\ UNCHANGED <<swallows, step, draft, started_at, runVars, lateVars>>
        /\ row' \in {row, draft}
        /\ request' = "rolled_back" => row' = row
    BY <1>4 DEF Commit, Rollback
  <2>2. \A e \in Executions : row[e] = Absent
    BY <2>1 DEF LifeInv, RowsAreCommitted
  <2>3. started_at = {}
    BY <2>2 DEF LifeInv, TypeOK
  <2>4. TypeOK'
    BY <2>1, <2>3 DEF LifeInv, TypeOK, RowStatuses, runVars, lateVars
  <2>5. \A e \in Executions \ TriggerOnly : ~Finished(e)
    BY <2>1 DEF LifeInv, OrphansDoNothing
  <2>6. FinishedRowsShowOutcome' /\ OrphansDoNothing'
    BY <2>1, <2>5 DEF LifeInv, FinishedRowsShowOutcome, OrphansDoNothing, Finished, runVars, lateVars
  <2>7. QED
    BY <2>1, <2>2, <2>4, <2>6 DEF LifeInv, RowsAreCommitted, StartsOnce, EndsOnce, LateIsSlow, runVars,
       lateVars
<1>5. CASE LoseRequest
  BY <1>5 DEF LoseRequest, Rollback, LifeInv, TypeOK, RowsAreCommitted, StartsOnce, EndsOnce, LateIsSlow,
     OrphansDoNothing, FinishedRowsShowOutcome, Finished, runVars, lateVars
<1>6. CASE LateWrite
  <2>1. PICK w \in late : Update(w[1], w[2]) /\ late' = late \ {w} /\ UNCHANGED <<apiVars, runVars, slow>>
    BY <1>6 DEF LateWrite
  <2>2. w[1] \in Executions /\ w[2] \in {"running", "completed", "failed"} /\ w[1] \in slow
    BY <2>1 DEF LifeInv, TypeOK, LateIsSlow
  <2>3. /\ row' \in [Executions -> RowStatuses]
        /\ started_at' \subseteq { d \in Executions : row'[d] # Absent }
        /\ \A d \in Executions : row[d] = Absent <=> row'[d] = Absent
        /\ \A d \in Executions : d # w[1] => row'[d] = row[d]
    BY <2>1, <2>2, UpdateKeeps DEF LifeInv
  <2>4. TypeOK'
    BY <2>1, <2>3 DEF LifeInv, TypeOK, apiVars, runVars
  <2>5. QED
    BY <2>1, <2>2, <2>3, <2>4 DEF LifeInv, RowsAreCommitted, StartsOnce, EndsOnce, LateIsSlow,
       OrphansDoNothing, FinishedRowsShowOutcome, Finished, apiVars, runVars
<1>7. CASE UNCHANGED vars
  BY <1>7 DEF LifeInv, TypeOK, RowsAreCommitted, StartsOnce, EndsOnce, LateIsSlow, OrphansDoNothing,
     FinishedRowsShowOutcome, Finished, vars, apiVars, runVars, lateVars
<1>8. QED
  BY <1>1, <1>2, <1>3, <1>4, <1>5, <1>6, <1>7 DEF Next

\* The row of a run that returned an outcome shows that outcome, for a run
\* that had a node to record and no write that came late, whatever the order
\* of the commit of trigger_workflow and of the writes of the run.
THEOREM RowsFollowTheirRuns == Spec => []FinishedRowsShowOutcome
<1>1. LifeInv => FinishedRowsShowOutcome
  BY DEF LifeInv
<1>2. QED
  BY <1>1, LifeInvInit, LifeInvNext, PTL DEF Spec

\* The types hold, and a run whose request did not commit executes no node.
THEOREM LifecycleInvariantHolds == Spec => []LifecycleInvariant
<1>1. LifeInv => LifecycleInvariant
  BY DEF LifeInv, LifecycleInvariant
<1>2. QED
  BY <1>1, LifeInvInit, LifeInvNext, PTL DEF Spec

-----------------------------------------------------------------------------

\* What trigger_workflow has done by each of its steps, whether or not the
\* transaction is still open: the row is drafted first, then the run started.
TriggersAreDrafted ==
  \A e \in Executions :
    /\ step[e] = "waiting" <=> draft[e] = Absent
    /\ step[e] \in {"started", "marked", "returned"} => run[e] # "none"
    /\ step[e] \in {"marked", "returned"} => draft[e] = "running"
    /\ row[e] # Absent => draft[e] # Absent

BatchInv == LifeInv /\ TriggersAreDrafted

LEMMA TriggersAreDraftedInit == Init => TriggersAreDrafted
BY DEF Init, TriggersAreDrafted

\* A step of the request concerns one execution, drafted before it starts.
LEMMA RequestDrafts ==
  ASSUME BatchInv, NEW e \in Executions, Request(e) PROVE TriggersAreDrafted'
<1>1. /\ step \in [Executions -> Steps] /\ run \in [Executions -> {"none", "load", "mark", "record", "finish", "ended"}]
      /\ draft \in [Executions -> {Absent, "pending", "running"}]
      /\ row' = row
  BY DEF BatchInv, LifeInv, TypeOK, Request, InsertRow, StartRun, MarkDraftRunning, CacheStatus
<1>2. \A d \in Executions : d # e => step'[d] = step[d] /\ draft'[d] = draft[d] /\ run'[d] = run[d]
  BY <1>1 DEF Request, InsertRow, StartRun, MarkDraftRunning, CacheStatus, Advance, Rollback, Raise,
     Draft, runVars
<1>3. /\ step'[e] = "waiting" <=> draft'[e] = Absent
      /\ step'[e] \in {"started", "marked", "returned"} => run'[e] # "none"
      /\ step'[e] \in {"marked", "returned"} => draft'[e] = "running"
      /\ row'[e] # Absent => draft'[e] # Absent
  <2>1. CASE InsertRow(e)
    BY <1>1, <2>1 DEF BatchInv, TriggersAreDrafted, InsertRow, At, Advance, Rollback, Draft, runVars, Absent
  <2>2. CASE StartRun(e)
    BY <1>1, <2>2 DEF BatchInv, TriggersAreDrafted, StartRun, At, Advance, Rollback, Raise, Absent
  <2>3. CASE MarkDraftRunning(e)
    BY <1>1, <2>3 DEF BatchInv, TriggersAreDrafted, MarkDraftRunning, At, Advance, Rollback, Draft,
       runVars, Absent
  <2>4. CASE CacheStatus(e)
    BY <1>1, <2>4 DEF BatchInv, TriggersAreDrafted, CacheStatus, At, Advance, Rollback, Raise, runVars, Absent
  <2>5. QED
    BY <2>1, <2>2, <2>3, <2>4 DEF Request
<1>4. QED
  BY <1>1, <1>2, <1>3 DEF BatchInv, TriggersAreDrafted

\* A step of the run undoes no start and writes no row that is not there.
LEMMA WorkerDrafts ==
  ASSUME BatchInv, NEW e \in Executions, Worker(e) PROVE TriggersAreDrafted'
<1>1. /\ UNCHANGED apiVars /\ TypeOK
      /\ run \in [Executions -> {"none", "load", "mark", "record", "finish", "ended"}]
  BY DEF BatchInv, LifeInv, TypeOK, Worker, LoadDefinition, MarkRunning, RecordNode, Finish
<1>2. \A d \in Executions : run'[d] = "none" => run[d] = "none"
  BY <1>1 DEF Worker, LoadDefinition, MarkRunning, RecordNode, Finish, Continue, End
<1>3. \A d \in Executions : row'[d] # Absent => row[d] # Absent
  <2>1. CASE UNCHANGED row
    BY <2>1
  <2>2. CASE \E s \in {"running", "completed", "failed"} : Update(e, s) \/ NoUpdate
    BY <1>1, <2>2, UpdateKeeps
  <2>3. QED
    BY <2>1, <2>2 DEF Worker, LoadDefinition, MarkRunning, RecordNode, Finish
<1>4. QED
  BY <1>1, <1>2, <1>3 DEF BatchInv, TriggersAreDrafted, apiVars

LEMMA BatchInvNext == BatchInv /\ [Next]_vars => BatchInv'
<1> SUFFICES ASSUME BatchInv, [Next]_vars PROVE TriggersAreDrafted'
  BY LifeInvNext DEF BatchInv
<1>1. TypeOK
  BY DEF BatchInv, LifeInv
<1>2. CASE \E e \in Executions : Request(e) \/ Worker(e)
  BY <1>2, RequestDrafts, WorkerDrafts
<1>3. CASE \E e \in Executions : DeleteWorkflow(e)
  BY <1>1, <1>3 DEF DeleteWorkflow, BatchInv, TriggersAreDrafted, TypeOK, apiVars, runVars
<1>4. CASE Commit \/ LoseRequest
  BY <1>4 DEF Commit, LoseRequest, BatchInv, TriggersAreDrafted, runVars
<1>5. CASE LateWrite
  <2>1. PICK w \in late : Update(w[1], w[2]) /\ UNCHANGED <<apiVars, runVars, slow>>
    BY <1>5 DEF LateWrite
  <2>2. w[1] \in Executions /\ w[2] \in {"running", "completed", "failed"}
    BY <1>1, <2>1 DEF TypeOK
  <2>3. \A d \in Executions : row[d] = Absent <=> row'[d] = Absent
    BY <1>1, <2>1, <2>2, UpdateKeeps
  <2>4. QED
    BY <2>1, <2>3 DEF BatchInv, TriggersAreDrafted, apiVars, runVars
<1>6. CASE UNCHANGED vars
  BY <1>6 DEF BatchInv, TriggersAreDrafted, vars, apiVars, runVars
<1>7. QED
  BY <1>2, <1>3, <1>4, <1>5, <1>6 DEF Next

\* What dispatch_event reports of a batch is so: what it counts as triggered
\* has a run and a row, what it drops after the insert has a row all the same.
THEOREM BatchesAreAccounted == Spec => []BatchIsAccounted
<1>1. Init => BatchInv
  BY LifeInvInit, TriggersAreDraftedInit DEF BatchInv
<1>2. BatchInv => BatchIsAccounted
  BY DEF BatchInv, TriggersAreDrafted, BatchIsAccounted
<1>3. QED
  BY <1>1, <1>2, BatchInvNext, PTL DEF Spec

-----------------------------------------------------------------------------
(* Runs of agents.                                                         *)

\* The inductive invariant.  What is pending is the current call, and only
\* while the run waits; nobody has answered a call that has not come yet.
Position ==
  /\ result = None <=> pc # "end"
  /\ pc \in {"calls", "waiting", "dispatch"} => steps >= 1
  /\ pc \in {"waiting", "dispatch"} => HasCall
  /\ pc = "waiting" => pending = current /\ policy[current] = "approval_required"
  /\ pc # "waiting" => pending = NoCall
  /\ decision = "timeout" => pc = "end"
  /\ pc = "dispatch" => attempt < MaximumAttempts

AskedSoFar ==
  \A a \in Answers :
    /\ ~Before(current, answer[a].asked)
    /\ answer[a].at \in {"idle", "signal"} => ~answer[a].delivered
    /\ answer[a].at = "idle" => answer[a].asked = NoCall

Given(action) == \E a \in Answers : answer[a].delivered /\ answer[a].action = action

DecisionWasGiven == decision \in Decisions => Given(decision)

\* What is being executed may be, and what was executed belongs to a turn
\* already taken.
DispatchMayRun ==
  pc = "dispatch" =>
    policy[current] = "allow" \/ (policy[current] = "approval_required" /\ Given("approved"))

RanSoFar == \A c \in ran : c[1] <= steps

\* As long as answers come in turn: the slot holds an answer to the current
\* call, and a call that is over and was answered at all got its answer.
SlotIsForTheCall ==
  pc = "waiting" /\ decision \in Decisions =>
    \/ AnsweredOutOfTurn
    \/ \E a \in Answers :
         answer[a].delivered /\ answer[a].action = decision /\ answer[a].asked = current

SettledByAnAnswer ==
  result = None =>
    \A a \in Answers :
      \/ answer[a].asked \in {NoCall, pending}
      \/ AnsweredOutOfTurn
      \/ \E b \in Answers : answer[b].delivered /\ answer[b].asked = answer[a].asked

DispatchIsConsented ==
  pc = "dispatch" /\ policy[current] = "approval_required" => Consented(current) \/ AnsweredOutOfTurn

SafeInv ==
  /\ AgentTypeOK
  /\ Position
  /\ AskedSoFar
  /\ DecisionWasGiven
  /\ DispatchMayRun
  /\ RanSoFar
  /\ SlotIsForTheCall
  /\ SettledByAnAnswer
  /\ DispatchIsConsented
  /\ NoToolWithoutConsent
  /\ ConsentIsForTheCall

LEMMA SafeInvInit == AgentInit => SafeInv
<1> SUFFICES ASSUME AgentInit PROVE SafeInv
  OBVIOUS
<1>1. AgentTypeOK
  BY MaxStepsAssumption, MaxCallsAssumption
  DEF AgentInit, AgentTypeOK, Calls, NoCall, None, Policies, Decisions, Statuses, MaximumAttempts, Idle, Requests
<1>2. AskedSoFar
  BY DEF AgentInit, AskedSoFar, Idle, Before, current, NoCall
<1>3. QED
  BY <1>1, <1>2
  DEF AgentInit, SafeInv, Position, DecisionWasGiven, DispatchMayRun, RanSoFar, SlotIsForTheCall,
      SettledByAnAnswer, DispatchIsConsented, NoToolWithoutConsent, ConsentIsForTheCall, None, Decisions,
      Idle, NoCall

\* A call in progress is a call.
LEMMA CurrentIsACall ==
  ASSUME AgentTypeOK, HasCall, steps >= 1
  PROVE  current \in Calls
BY MaxStepsAssumption, MaxCallsAssumption DEF AgentTypeOK, HasCall, current, Calls

LEMMA NotBeforeIsTransitive ==
  ASSUME NEW c \in Nat \X Nat, NEW d \in Nat \X Nat, NEW e \in Nat \X Nat, ~Before(c, d), ~Before(d, e)
  PROVE  ~Before(c, e)
BY DEF Before

\* A report leaves the ledger with a status.
LEMMA ReportKeeps ==
  ASSUME AgentTypeOK, NEW s \in Statuses, Report(s)
  PROVE  ledger' \in Statuses \cup {None} /\ lossless' \in BOOLEAN
<1>1. ledger' \in Statuses \cup {None}
  BY DEF AgentTypeOK, Report
<1>2. lossless' \in BOOLEAN
  BY Zenon DEF AgentTypeOK, Report
<1>3. QED
  BY <1>1, <1>2

\* Answers that reached the run stay as they are.
Kept ==
  \A a \in Answers : answer[a].delivered =>
    /\ answer'[a].delivered
    /\ answer'[a].action = answer[a].action
    /\ answer'[a].asked = answer[a].asked

LEMMA KeptIsMonotonic ==
  ASSUME Kept
  PROVE  /\ \A action : Given(action) => Given(action)'
         /\ AnsweredOutOfTurn => AnsweredOutOfTurn'
         /\ \A c \in Calls : Consented(c) => Consented(c)'
BY DEF Kept, Given, AnsweredOutOfTurn, Consented

\* The steps of the loop that neither ask, nor take an answer, nor execute.
LEMMA LoopKeeps ==
  ASSUME SafeInv, Start \/ TakeTurn \/ LastTurn \/ OutOfSteps \/ EndOfTurn \/ Allow \/ Deny
  PROVE  SafeInv'
<1>1. UNCHANGED <<ran, slotVars, answer>>
  BY DEF Start, TakeTurn, LastTurn, OutOfSteps, EndOfTurn, Allow, Deny
<1>2. pc # "waiting" /\ pc' # "waiting" /\ pc # "dispatch" /\ result = None /\ pending = NoCall
  BY DEF Start, TakeTurn, LastTurn, OutOfSteps, EndOfTurn, Allow, Deny, AtCall, Goto, Return, NextCall,
     BeginDispatch, SafeInv, Position
<1>3. decision # "timeout"
  BY <1>2 DEF SafeInv, Position
<1>4. /\ AgentTypeOK'
      /\ ~Before(current', current)
      /\ steps' >= steps
      /\ \A c \in Calls : c[1] <= steps => policy'[c] = policy[c]
  <2>1. CASE Start
    <3>1. ledger' \in Statuses \cup {None} /\ lossless' \in BOOLEAN
      BY <2>1, ReportKeeps DEF Start, SafeInv, Statuses
    <3>2. QED
      BY <2>1, <3>1, <1>1 DEF Start, SafeInv, AgentTypeOK, Goto, current, Before, slotVars
  <2>2. CASE TakeTurn
    <3>0. PICK n \in 0 .. MaxCalls : \E d \in [1 .. n -> Policies] :
            policy' = [c \in Calls |-> IF c[1] = steps + 1 /\ c[2] <= n THEN d[c[2]] ELSE policy[c]]
      BY <2>2, Zenon DEF TakeTurn
    <3>1. PICK d \in [1 .. n -> Policies] :
            policy' = [c \in Calls |-> IF c[1] = steps + 1 /\ c[2] <= n THEN d[c[2]] ELSE policy[c]]
      BY <3>0
    <3>2. n \in Nat /\ MaxCalls \in Nat /\ steps \in Nat
      BY MaxCallsAssumption, MaxStepsAssumption DEF SafeInv, AgentTypeOK
    <3>3. policy' \in [Calls -> Policies \cup {None}]
      <4>1. \A c \in Calls : c[1] = steps + 1 /\ c[2] <= n => d[c[2]] \in Policies
        BY <3>2 DEF Calls
      <4>2. QED
        BY <3>1, <4>1 DEF SafeInv, AgentTypeOK
    <3>4. \A c \in Calls : c[1] <= steps => policy'[c] = policy[c]
      BY <3>1, <3>2 DEF Calls
    <3>5. steps' = steps + 1 /\ steps' \in 0 .. MaxSteps /\ place' = 1 /\ place' \in 1 .. MaxCalls + 1
      BY <2>2, <3>2, MaxStepsAssumption DEF TakeTurn, TurnsLeft, SafeInv, AgentTypeOK
    <3>6. QED
      BY <2>2, <3>2, <3>3, <3>4, <3>5, <1>1 DEF TakeTurn, SafeInv, AgentTypeOK, Goto, current, Before, slotVars,
         ledgerVars
  <2>3. CASE LastTurn
    <3>1. ledger' \in Statuses \cup {None} /\ lossless' \in BOOLEAN
      BY <2>3, ReportKeeps DEF LastTurn, SafeInv, AgentTypeOK, Statuses, ledgerVars
    <3>2. QED
      BY <2>3, <3>1, <1>1, MaxStepsAssumption, MaxCallsAssumption
      DEF LastTurn, TurnsLeft, SafeInv, AgentTypeOK, Return, current, Before, slotVars
  <2>4. CASE OutOfSteps
    <3>1. ledger' \in Statuses \cup {None} /\ lossless' \in BOOLEAN
      BY <2>4, ReportKeeps DEF OutOfSteps, SafeInv, Statuses
    <3>2. QED
      BY <2>4, <3>1, <1>1 DEF OutOfSteps, SafeInv, AgentTypeOK, Return, current, Before, slotVars
  <2>5. CASE EndOfTurn
    BY <2>5, <1>1 DEF EndOfTurn, SafeInv, AgentTypeOK, Goto, current, Before, slotVars, ledgerVars
  <2>6. CASE Allow
    BY <2>6, <1>1 DEF Allow, BeginDispatch, MaximumAttempts, SafeInv, AgentTypeOK, Goto, current, Before,
       slotVars, ledgerVars
  <2>7. CASE Deny
    BY <2>7, <1>1, MaxCallsAssumption DEF Deny, NextCall, AtCall, HasCall, SafeInv, AgentTypeOK, current, Before,
       slotVars, ledgerVars
  <2>8. QED
    BY <2>1, <2>2, <2>3, <2>4, <2>5, <2>6, <2>7
<1>5. Position'
  <2>1. pc' \in {"calls", "waiting", "dispatch"} => steps' >= 1
    BY MaxStepsAssumption DEF Start, TakeTurn, LastTurn, OutOfSteps, EndOfTurn, Allow, Deny, AtCall, Goto,
       Return, NextCall, BeginDispatch, SafeInv, Position, AgentTypeOK
  <2>2. pc' = "dispatch" => Allow
    BY DEF Start, TakeTurn, LastTurn, OutOfSteps, EndOfTurn, Allow, Deny, Goto, Return, NextCall
  <2>3. pc' = "dispatch" => HasCall'
    BY <2>2 DEF Allow, AtCall, BeginDispatch, HasCall, current
  <2>4. result' = None <=> pc' # "end"
    BY <1>2 DEF Start, TakeTurn, LastTurn, OutOfSteps, EndOfTurn, Allow, Deny, Goto, Return, NextCall,
       BeginDispatch, None, SafeInv, Position
  <2>5. QED
    BY <1>1, <1>2, <1>3, <2>1, <2>2, <2>3, <2>4
    DEF Position, slotVars, Allow, BeginDispatch, MaximumAttempts
<1>6. AskedSoFar'
  <2>1. \A a \in Answers : answer[a].asked \in Calls \cup {NoCall}
    BY DEF SafeInv, AgentTypeOK, Requests
  <2>2. current \in Nat \X Nat /\ current' \in Nat \X Nat
    BY <1>4, MaxStepsAssumption, MaxCallsAssumption DEF SafeInv, AgentTypeOK, current
  <2>3. \A a \in Answers : answer[a].asked \in Nat \X Nat
    BY <2>1, MaxStepsAssumption, MaxCallsAssumption DEF Calls, NoCall
  <2>4. \A a \in Answers : ~Before(current, answer[a].asked)
    BY DEF SafeInv, AskedSoFar
  <2>5. \A a \in Answers : ~Before(current', answer[a].asked)
    BY <1>4, <2>2, <2>3, <2>4, NotBeforeIsTransitive
  <2>6. QED
    BY <1>1, <2>5 DEF SafeInv, AskedSoFar, Before
<1>7. DecisionWasGiven'
  BY <1>1 DEF SafeInv, DecisionWasGiven, Given, slotVars
<1>8. DispatchMayRun' /\ DispatchIsConsented'
  <2>1. pc' = "dispatch" => policy'[current'] = "allow"
    BY DEF Start, TakeTurn, LastTurn, OutOfSteps, EndOfTurn, Allow, Deny, AtCall, Goto, Return, NextCall,
       BeginDispatch, current
  <2>2. QED
    BY <2>1 DEF DispatchMayRun, DispatchIsConsented
<1>9. RanSoFar'
  BY <1>1, <1>4, MaxStepsAssumption DEF SafeInv, AgentTypeOK, RanSoFar, Calls
<1>10. SlotIsForTheCall' /\ SettledByAnAnswer'
  BY <1>1, <1>2 DEF SafeInv, SlotIsForTheCall, SettledByAnAnswer, AnsweredOutOfTurn, slotVars
<1>11. \A c \in ran : c \in Calls /\ policy'[c] = policy[c]
  BY <1>4 DEF SafeInv, AgentTypeOK, RanSoFar
<1>12. NoToolWithoutConsent' /\ ConsentIsForTheCall'
  BY <1>1, <1>11 DEF SafeInv, NoToolWithoutConsent, ConsentIsForTheCall, Consented, AnsweredOutOfTurn
<1>13. QED
  BY <1>4, <1>5, <1>6, <1>7, <1>8, <1>9, <1>10, <1>12 DEF SafeInv

\* A new request empties the slot.
LEMMA AskingKeeps == SafeInv /\ RequestApproval => SafeInv'
<1> SUFFICES ASSUME SafeInv, RequestApproval PROVE SafeInv'
  OBVIOUS
<1>1. /\ pc = "calls" /\ pc' = "waiting" /\ HasCall /\ policy[current] = "approval_required"
      /\ pending = NoCall /\ pending' = current /\ decision' = None
      /\ UNCHANGED <<steps, place, policy, attempt, ran, answer, result>>
  BY DEF RequestApproval, AtCall, Goto, EmptySlot, SafeInv, Position
<1>2. current \in Calls /\ current' = current
  BY <1>1, CurrentIsACall DEF SafeInv, Position, current
<1>3. AgentTypeOK'
  <2>1. ledger' \in Statuses \cup {None} /\ lossless' \in BOOLEAN
    BY ReportKeeps DEF RequestApproval, SafeInv, Statuses
  <2>2. QED
    BY <1>1, <1>2, <2>1 DEF SafeInv, AgentTypeOK
<1>4. Position' /\ AskedSoFar' /\ DecisionWasGiven'
  BY <1>1, <1>2 DEF SafeInv, Position, AskedSoFar, DecisionWasGiven, HasCall, None, Decisions, Before
<1>5. RanSoFar' /\ NoToolWithoutConsent' /\ ConsentIsForTheCall' /\ DispatchMayRun' /\ DispatchIsConsented'
  BY <1>1 DEF SafeInv, RanSoFar, NoToolWithoutConsent, ConsentIsForTheCall, Consented, AnsweredOutOfTurn,
     DispatchMayRun, DispatchIsConsented
<1>6. SlotIsForTheCall' /\ SettledByAnAnswer'
  BY <1>1 DEF SafeInv, SlotIsForTheCall, SettledByAnAnswer, AnsweredOutOfTurn, None, Decisions
<1>7. QED
  BY <1>3, <1>4, <1>5, <1>6 DEF SafeInv

\* The run takes what is in the slot.
LEMMA ResumingKeeps == SafeInv /\ Resume => SafeInv'
<1> SUFFICES ASSUME SafeInv, Resume PROVE SafeInv'
  OBVIOUS
<1>1. /\ pc = "waiting" /\ HasCall /\ policy[current] = "approval_required" /\ steps >= 1
      /\ pending = current /\ pending' = NoCall /\ decision \in Decisions
      /\ UNCHANGED <<steps, policy, ran, decision, answer, result>>
  BY DEF Resume, BeginDispatch, NextCall, Goto, SafeInv, Position, AgentTypeOK, None, Decisions
<1>2. \/ pc' = "dispatch" /\ place' = place /\ attempt' = 0 /\ decision = "approved"
      \/ pc' = "calls" /\ place' = place + 1 /\ attempt' = attempt
  BY DEF Resume, BeginDispatch, NextCall, Goto, Approved
<1>3. current \in Calls
  BY <1>1, CurrentIsACall DEF SafeInv
<1>4. AgentTypeOK'
  <2>1. ledger' \in Statuses \cup {None} /\ lossless' \in BOOLEAN
    BY ReportKeeps DEF Resume, SafeInv, Statuses
  <2>2. place' \in 1 .. MaxCalls + 1 /\ attempt' \in 0 .. MaximumAttempts
    BY <1>1, <1>2, MaxCallsAssumption DEF SafeInv, AgentTypeOK, HasCall, MaximumAttempts
  <2>3. QED
    BY <1>1, <1>2, <2>1, <2>2 DEF SafeInv, AgentTypeOK
<1>5. Position'
  BY <1>1, <1>2 DEF SafeInv, Position, HasCall, current, Decisions, MaximumAttempts
<1>6. AskedSoFar'
  <2>1. \A a \in Answers : answer[a].asked \in Calls \cup {NoCall}
    BY DEF SafeInv, AgentTypeOK, Requests
  <2>2. \A a \in Answers : ~Before(current', answer[a].asked)
    BY <1>1, <1>2, <2>1, MaxStepsAssumption, MaxCallsAssumption
    DEF SafeInv, AgentTypeOK, AskedSoFar, Before, current, Calls, NoCall
  <2>3. QED
    BY <1>1, <2>2 DEF SafeInv, AskedSoFar, Before
<1>7. DecisionWasGiven' /\ RanSoFar' /\ NoToolWithoutConsent' /\ ConsentIsForTheCall'
  BY <1>1 DEF SafeInv, DecisionWasGiven, Given, RanSoFar, NoToolWithoutConsent, ConsentIsForTheCall,
     Consented, AnsweredOutOfTurn
<1>8. \/ AnsweredOutOfTurn
      \/ \E a \in Answers :
           answer[a].delivered /\ answer[a].action = decision /\ answer[a].asked = current
  BY <1>1 DEF SafeInv, SlotIsForTheCall
<1>9. DispatchMayRun' /\ DispatchIsConsented'
  <2>1. pc' = "dispatch" => Given("approved") /\ (Consented(current) \/ AnsweredOutOfTurn)
    BY <1>1, <1>2, <1>8 DEF SafeInv, DecisionWasGiven, Consented
  <2>2. QED
    BY <1>1, <1>2, <2>1 DEF DispatchMayRun, DispatchIsConsented, Given, Consented, AnsweredOutOfTurn, current
<1>10. SlotIsForTheCall' /\ SettledByAnAnswer'
  BY <1>1, <1>2, <1>8 DEF SafeInv, SlotIsForTheCall, SettledByAnAnswer, AnsweredOutOfTurn, Position
<1>11. QED
  BY <1>4, <1>5, <1>6, <1>7, <1>9, <1>10 DEF SafeInv

LEMMA TimingOutKeeps == SafeInv /\ TimeOut => SafeInv'
<1> SUFFICES ASSUME SafeInv, TimeOut PROVE SafeInv'
  OBVIOUS
<1>1. /\ pc' = "end" /\ result' = "timeout" /\ pending' = NoCall /\ decision' = "timeout"
      /\ UNCHANGED <<steps, place, policy, attempt, ran, answer>>
  BY DEF TimeOut, Return
<1>2. AgentTypeOK'
  <2>1. ledger' \in Statuses \cup {None} /\ lossless' \in BOOLEAN
    <3>1. CASE Report(ReportedAtTheEnd)
      BY <3>1, ReportKeeps DEF ReportedAtTheEnd, SafeInv, Statuses
    <3>2. CASE ledger' = "running" /\ lossless' = FALSE
      BY <3>2 DEF Statuses
    <3>3. QED
      BY <3>1, <3>2 DEF TimeOut
  <2>2. QED
    BY <1>1, <2>1 DEF SafeInv, AgentTypeOK
<1>3. QED
  BY <1>1, <1>2 DEF SafeInv, Position, AskedSoFar, Before, current, DecisionWasGiven, Decisions,
     DispatchMayRun, RanSoFar, SlotIsForTheCall, SettledByAnAnswer, DispatchIsConsented,
     NoToolWithoutConsent, ConsentIsForTheCall, Consented, AnsweredOutOfTurn, None

\* An attempt executes what may be executed, or nothing.
LEMMA DispatchingKeeps == SafeInv /\ Dispatch => SafeInv'
<1> SUFFICES ASSUME SafeInv, Dispatch PROVE SafeInv'
  OBVIOUS
<1>1. /\ pc = "dispatch" /\ HasCall /\ steps >= 1 /\ pending = NoCall /\ decision # "timeout"
      /\ ran' \in {ran, ran \cup {current}}
      /\ UNCHANGED <<steps, policy, pending, decision, ledger, lossless, answer>>
  BY DEF Dispatch, SafeInv, Position, slotVars, ledgerVars
<1>2. \/ pc' = "calls" /\ place' = place + 1 /\ attempt' = attempt /\ result' = result
      \/ pc' = "dispatch" /\ place' = place /\ attempt' = attempt + 1 /\ attempt' # MaximumAttempts /\ result' = result
      \/ pc' = "end" /\ place' = place /\ attempt' = MaximumAttempts /\ result' = "raised"
  BY <1>1 DEF Dispatch, NextCall, Return
<1>3. current \in Calls /\ current[1] = steps
  BY <1>1, CurrentIsACall DEF SafeInv, current
<1>4. AgentTypeOK'
  <2>1. place' \in 1 .. MaxCalls + 1
    BY <1>1, <1>2, MaxCallsAssumption DEF SafeInv, AgentTypeOK, HasCall
  <2>2. attempt' \in 0 .. MaximumAttempts
    BY <1>1, <1>2 DEF SafeInv, AgentTypeOK, Position, MaximumAttempts
  <2>3. QED
    BY <1>1, <1>2, <1>3, <2>1, <2>2 DEF SafeInv, AgentTypeOK
<1>5. Position'
  BY <1>1, <1>2 DEF SafeInv, AgentTypeOK, Position, HasCall, current, None, MaximumAttempts
<1>6. AskedSoFar'
  <2>1. \A a \in Answers : answer[a].asked \in Calls \cup {NoCall}
    BY DEF SafeInv, AgentTypeOK, Requests
  <2>2. \A a \in Answers : ~Before(current', answer[a].asked)
    BY <1>1, <1>2, <2>1, MaxStepsAssumption, MaxCallsAssumption
    DEF SafeInv, AgentTypeOK, AskedSoFar, Before, current, Calls, NoCall
  <2>3. QED
    BY <1>1, <2>2 DEF SafeInv, AskedSoFar, Before
<1>7. DecisionWasGiven' /\ SlotIsForTheCall'
  BY <1>1, <1>2 DEF SafeInv, DecisionWasGiven, Given, SlotIsForTheCall
<1>8. SettledByAnAnswer'
  BY <1>1, <1>2 DEF SafeInv, Position, SettledByAnAnswer, AnsweredOutOfTurn
<1>9. DispatchMayRun' /\ DispatchIsConsented'
  BY <1>1, <1>2 DEF SafeInv, DispatchMayRun, DispatchIsConsented, Given, Consented, AnsweredOutOfTurn, current
<1>10. RanSoFar'
  BY <1>1, <1>3 DEF SafeInv, AgentTypeOK, RanSoFar
<1>11. NoToolWithoutConsent' /\ ConsentIsForTheCall'
  <2>1. \/ policy[current] = "allow"
        \/ /\ policy[current] = "approval_required"
           /\ \E a \in Answers :
                answer[a].delivered /\ answer[a].action = "approved" /\ ~Before(current, answer[a].asked)
    BY <1>1 DEF SafeInv, DispatchMayRun, Given, AskedSoFar
  <2>2. policy[current] = "approval_required" => Consented(current) \/ AnsweredOutOfTurn
    BY <1>1 DEF SafeInv, DispatchIsConsented
  <2>3. NoToolWithoutConsent'
    BY <1>1, <2>1 DEF SafeInv, NoToolWithoutConsent
  <2>4. ConsentIsForTheCall'
    BY <1>1, <2>2 DEF SafeInv, ConsentIsForTheCall, Consented, AnsweredOutOfTurn
  <2>5. QED
    BY <2>3, <2>4
<1>12. QED
  BY <1>4, <1>5, <1>6, <1>7, <1>8, <1>9, <1>10, <1>11 DEF SafeInv

LEMMA ClickingKeeps ==
  ASSUME SafeInv, NEW x \in Answers, NEW action \in Actions, Click(x, action)
  PROVE  SafeInv'
<1>1. UNCHANGED <<pc, steps, place, policy, attempt, ran, pending, decision, result, ledger, lossless>>
  BY DEF Click, loopVars, slotVars, ledgerVars
<1>2. /\ answer'[x].asked = pending /\ answer'[x].at = "signal" /\ ~answer'[x].delivered
      /\ ~answer[x].delivered
      /\ \A a \in Answers : a # x => answer'[a] = answer[a]
      /\ answer' \in [Answers -> Requests]
  <2>1. Normalized(action) \in Decisions
    BY DEF Normalized, Decisions
  <2>2. QED
    BY <2>1 DEF Click, SafeInv, AgentTypeOK, Requests, AskedSoFar
<1>3. AgentTypeOK' /\ Position'
  BY <1>1, <1>2 DEF SafeInv, AgentTypeOK, Position, HasCall, current
<1>4. ~Before(current, pending)
  BY MaxStepsAssumption, MaxCallsAssumption DEF SafeInv, AgentTypeOK, Position, Before, current, NoCall
<1>5. AskedSoFar'
  BY <1>1, <1>2, <1>4 DEF SafeInv, AskedSoFar, Before, current
<1>6. Kept
  BY <1>2 DEF Kept
<1>7. DecisionWasGiven' /\ DispatchMayRun' /\ RanSoFar' /\ DispatchIsConsented'
  <2>1. current \in Calls \/ pc # "dispatch"
    BY CurrentIsACall DEF SafeInv, Position
  <2>2. QED
    BY <1>1, <1>6, <2>1, KeptIsMonotonic
    DEF SafeInv, DecisionWasGiven, DispatchMayRun, RanSoFar, DispatchIsConsented, current, Given, Consented,
        AnsweredOutOfTurn
<1>8. SlotIsForTheCall'
  BY <1>1, <1>2 DEF SafeInv, SlotIsForTheCall, AnsweredOutOfTurn, current
<1>9. SettledByAnAnswer'
  BY <1>1, <1>2 DEF SafeInv, SettledByAnAnswer, AnsweredOutOfTurn
<1>10. NoToolWithoutConsent' /\ ConsentIsForTheCall'
  BY <1>1, <1>2 DEF SafeInv, NoToolWithoutConsent, ConsentIsForTheCall, Consented, AnsweredOutOfTurn, Before
<1>11. QED
  BY <1>3, <1>5, <1>7, <1>8, <1>9, <1>10 DEF SafeInv

\* A signal that arrives after its call is settled makes two answers to that
\* call, since the first one settled it.
LEMMA SignallingKeeps ==
  ASSUME SafeInv, NEW x \in Answers, Signal(x)
  PROVE  SafeInv'
<1>1. UNCHANGED <<pc, steps, place, policy, attempt, ran, pending, result, ledger, lossless>>
  BY DEF Signal, loopVars, ledgerVars
<1>2. /\ answer[x].at = "signal" /\ ~answer[x].delivered
      /\ answer'[x].at \in {"ok", "failed"}
      /\ answer'[x].action = answer[x].action /\ answer'[x].asked = answer[x].asked
      /\ answer[x].action \in Decisions \cup {None}
      /\ \A a \in Answers : a # x => answer'[a] = answer[a]
      /\ answer' \in [Answers -> Requests]
  BY DEF Signal, SafeInv, AgentTypeOK, Requests, AskedSoFar
<1>3. \/ result = None /\ decision' = answer[x].action /\ answer'[x].delivered
      \/ decision' = decision /\ ~answer'[x].delivered
  BY <1>2 DEF Signal, SafeInv, AgentTypeOK, Requests
<1>4. AgentTypeOK' /\ Position'
  BY <1>1, <1>2, <1>3 DEF SafeInv, AgentTypeOK, Position, HasCall, current, Decisions, None
<1>5. AskedSoFar'
  BY <1>1, <1>2 DEF SafeInv, AskedSoFar, Before, current
<1>6. Kept
  BY <1>2 DEF Kept
<1>7. DecisionWasGiven'
  BY <1>2, <1>3, <1>6 DEF SafeInv, DecisionWasGiven, Given, Kept
<1>8. DispatchMayRun' /\ RanSoFar' /\ DispatchIsConsented'
  <2>1. current \in Calls \/ pc # "dispatch"
    BY CurrentIsACall DEF SafeInv, Position
  <2>2. QED
    BY <1>1, <1>6, <2>1, KeptIsMonotonic
    DEF SafeInv, DispatchMayRun, RanSoFar, DispatchIsConsented, current, Given, Consented, AnsweredOutOfTurn
<1>9. SlotIsForTheCall'
  <2>1. SUFFICES ASSUME pc = "waiting", decision' \in Decisions, answer'[x].delivered,
                        result = None, decision' = answer[x].action
                 PROVE  \/ AnsweredOutOfTurn'
                        \/ \E a \in Answers :
                             /\ answer'[a].delivered /\ answer'[a].action = decision'
                             /\ answer'[a].asked = current
    BY <1>1, <1>2, <1>3 DEF SafeInv, SlotIsForTheCall, AnsweredOutOfTurn, current
  <2>2. pending = current
    BY <2>1 DEF SafeInv, Position
  <2>3. CASE answer[x].asked = pending
    BY <1>2, <2>1, <2>2, <2>3
  <2>4. CASE answer[x].asked = NoCall
    BY <1>2, <2>1, <2>4 DEF AnsweredOutOfTurn
  <2>5. CASE AnsweredOutOfTurn
    BY <1>6, <2>5, KeptIsMonotonic
  <2>6. CASE \E b \in Answers : answer[b].delivered /\ answer[b].asked = answer[x].asked
    BY <1>2, <2>1, <2>6 DEF AnsweredOutOfTurn
  <2>7. QED
    BY <2>1, <2>3, <2>4, <2>5, <2>6 DEF SafeInv, SettledByAnAnswer
<1>10. SettledByAnAnswer'
  BY <1>1, <1>2, <1>6, KeptIsMonotonic DEF SafeInv, SettledByAnAnswer, Kept
<1>11. NoToolWithoutConsent' /\ ConsentIsForTheCall'
  BY <1>1, <1>6, KeptIsMonotonic
  DEF SafeInv, AgentTypeOK, NoToolWithoutConsent, ConsentIsForTheCall, Kept
<1>12. QED
  BY <1>4, <1>5, <1>7, <1>8, <1>9, <1>10, <1>11 DEF SafeInv

LEMMA SafeInvNext == SafeInv /\ [AgentNext]_agentVars => SafeInv'
<1> SUFFICES ASSUME SafeInv, [AgentNext]_agentVars PROVE SafeInv'
  OBVIOUS
<1>1. CASE Step
  BY <1>1, LoopKeeps, AskingKeeps, ResumingKeeps, TimingOutKeeps, DispatchingKeeps DEF Step
<1>2. ASSUME NEW a \in Answers, Signal(a) PROVE SafeInv'
  BY <1>2, SignallingKeeps
<1>3. ASSUME NEW a \in Answers, NEW action \in Actions, Click(a, action) PROVE SafeInv'
  BY <1>3, ClickingKeeps
<1>4. CASE UNCHANGED agentVars
  BY <1>4 DEF agentVars, loopVars, slotVars, ledgerVars, SafeInv, AgentTypeOK, Position, AskedSoFar, DecisionWasGiven,
     Given, DispatchMayRun, RanSoFar, SlotIsForTheCall, SettledByAnAnswer, DispatchIsConsented,
     NoToolWithoutConsent, ConsentIsForTheCall, Consented, AnsweredOutOfTurn, HasCall, current, Before
<1>5. QED
  BY <1>1, <1>2, <1>3, <1>4 DEF AgentNext

\* Whatever the model returns and in whatever order answers arrive, a tool
\* that needs approval was approved for that very call, as long as nobody
\* answers a call twice or answers when nothing is asked.
THEOREM ToolsRunWithConsent == AgentSpec => []ConsentIsForTheCall
<1>1. SafeInv => ConsentIsForTheCall
  BY DEF SafeInv
<1>2. QED
  BY <1>1, SafeInvInit, SafeInvNext, PTL DEF AgentSpec

\* The types hold, and no tool is executed against the policy or without an
\* approval, for any number of turns, calls and answers.
THEOREM AgentInvariantHolds == AgentSpec => []AgentInvariant
<1>1. SafeInv => AgentInvariant
  BY DEF SafeInv, AgentInvariant
<1>2. QED
  BY <1>1, SafeInvInit, SafeInvNext, PTL DEF AgentSpec

-----------------------------------------------------------------------------

\* The status that the last report of the run gave, at each of its awaits.
Reported ==
  CASE pc = "start" -> None
    [] pc = "waiting" -> "awaiting_approval"
    [] pc = "end" /\ result # "raised" -> result
    [] OTHER -> "running"

\* The ledger follows the run all the way, as long as no report was lost.
LedgerFollows == lossless => ledger = Reported

LedgerInv == SafeInv /\ LedgerFollows

LEMMA LedgerFollowsInit == AgentInit => LedgerFollows
BY DEF AgentInit, LedgerFollows, Reported

\* A report that arrives shows its status; one that is lost is remembered.
LEMMA ReportedOrLost ==
  ASSUME NEW s, Report(s) PROVE lossless' => ledger' = s /\ lossless
BY DEF Report

LEMMA LedgerFollowsNext == LedgerInv /\ [AgentNext]_agentVars => LedgerFollows'
<1> SUFFICES ASSUME LedgerInv, [AgentNext]_agentVars, lossless' PROVE ledger' = Reported'
  BY DEF LedgerFollows
<1>1. result = None <=> pc # "end"
  BY DEF LedgerInv, SafeInv, Position
<1>2. CASE Start
  BY <1>1, <1>2, ReportedOrLost DEF Start, Goto, Reported
<1>3. CASE LastTurn
  BY <1>1, <1>3, ReportedOrLost DEF LastTurn, Return, Reported, LedgerInv, LedgerFollows, ledgerVars
<1>4. CASE OutOfSteps
  BY <1>1, <1>4, ReportedOrLost DEF OutOfSteps, Return, Reported
<1>5. CASE RequestApproval
  BY <1>1, <1>5, ReportedOrLost DEF RequestApproval, Goto, Reported
<1>6. CASE Resume
  BY <1>1, <1>6, ReportedOrLost DEF Resume, BeginDispatch, NextCall, Goto, Reported
<1>7. CASE TimeOut
  BY <1>1, <1>7, ReportedOrLost DEF TimeOut, ReportedAtTheEnd, Return, Reported
<1>8. CASE TakeTurn \/ EndOfTurn \/ Allow \/ Deny
  BY <1>1, <1>8 DEF TakeTurn, EndOfTurn, Allow, Deny, AtCall, BeginDispatch, NextCall, Goto, Reported,
     LedgerInv, LedgerFollows, ledgerVars
<1>9. CASE Dispatch
  BY <1>1, <1>9 DEF Dispatch, NextCall, Return, Reported, LedgerInv, LedgerFollows, ledgerVars
<1>10. CASE \E x \in Answers : Signal(x) \/ \E action \in Actions : Click(x, action)
  BY <1>10 DEF Signal, Click, Reported, LedgerInv, LedgerFollows, loopVars, ledgerVars
<1>11. CASE UNCHANGED agentVars
  BY <1>11 DEF agentVars, Reported, LedgerInv, LedgerFollows, loopVars, ledgerVars
<1>12. QED
  BY <1>2, <1>3, <1>4, <1>5, <1>6, <1>7, <1>8, <1>9, <1>10, <1>11 DEF AgentNext, Step

\* The ledger shows how a run that returned has ended, unless a report of it
\* was lost: nothing the run, the approvers or its timer do overtakes it.
THEOREM LedgersShowTheEnd == AgentSpec => []LedgerShowsTheEnd
<1>1. AgentInit => LedgerInv
  BY SafeInvInit, LedgerFollowsInit DEF LedgerInv
<1>2. LedgerInv /\ [AgentNext]_agentVars => LedgerInv'
  BY SafeInvNext, LedgerFollowsNext DEF LedgerInv
<1>3. LedgerInv => LedgerShowsTheEnd
  BY DEF LedgerInv, LedgerFollows, Reported, LedgerShowsTheEnd, SafeInv, Position, None
<1>4. QED
  BY <1>1, <1>2, <1>3, PTL DEF AgentSpec
=============================================================================
