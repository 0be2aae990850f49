------------------------------- MODULE AgentRun -------------------------------
(***************************************************************************)
(* AgentRunWorkflow: the tool-using loop of an autonomous agent, with the  *)
(* people who approve its high-risk tools (approve_agent_run).             *)
(*                                                                         *)
(* A turn of the model returns calls of tools, each with the decision of   *)
(* the policy; the run dispatches the allowed ones and waits, one after    *)
(* the other, for an answer to those that need approval.  It keeps one     *)
(* slot for that answer, without the name of the call it was meant for.    *)
(*                                                                         *)
(* Reports of the status to the agent_runs ledger, which belongs to        *)
(* integration-hub, are best-effort: each is part of the step before it    *)
(* and may be lost.  Messages and payloads are left out.                   *)
(***************************************************************************)
EXTENDS Naturals

CONSTANTS
  MaxSteps,  \* max_steps of the node
  MaxCalls,  \* bound: how many calls a turn returns
  Answers    \* the requests to the approval endpoint

ASSUME MaxStepsAssumption == MaxSteps \in Nat
ASSUME MaxCallsAssumption == MaxCalls \in Nat

\* A call is known by its turn and its place in it.
Calls == (1 .. MaxSteps) \X (1 .. MaxCalls)
NoCall == <<0, 0>>
Before(c, d) == c[1] < d[1] \/ (c[1] = d[1] /\ c[2] < d[2])

None == "none"
Policies == { "allow", "approval_required", "deny" }  \* what is neither of the first two denies
Decisions == { "approved", "rejected" }
Actions == { "approve", "approved", "reject", "no" }  \* what callers send
Statuses == { "running", "awaiting_approval", "completed", "timeout" }

\* DEFAULT_RETRY
MaximumAttempts == 3

VARIABLES
  pc,        \* the await the run is at
  steps,     \* turns taken
  place,     \* place, in the turn, of the call to look at next
  policy,    \* policy[c]: the decision that came with call c (history)
  attempt,   \* failed attempts of the dispatch in progress
  ran,       \* the calls whose tool was executed at least once (history)
  pending,   \* _pending: the call whose approval is asked for
  decision,  \* _decision: the one slot for an answer
  result,    \* what the run returned; "raised" if it raised
  ledger,    \* the status the ledger shows
  lossless,  \* no report was given up so far (history)
  answer     \* what each request does, and for which call

loopVars == <<pc, steps, place, policy, attempt, ran>>
slotVars == <<pending, decision>>
ledgerVars == <<ledger, lossless>>
agentVars == <<loopVars, slotVars, result, ledgerVars, answer>>

current == <<steps, place>>
HasCall == place <= MaxCalls /\ policy[current] # None

Idle == [at |-> "idle", action |-> None, asked |-> NoCall, delivered |-> FALSE]

AgentInit ==
  /\ pc = "start"
  /\ steps = 0
  /\ place = 1
  /\ policy = [c \in Calls |-> None]
  /\ attempt = 0
  /\ ran = {}
  /\ pending = NoCall
  /\ decision = None
  /\ result = None
  /\ ledger = None
  /\ lossless = TRUE
  /\ answer = [a \in Answers |-> Idle]

Goto(label) == pc' = label /\ UNCHANGED result
Return(r) == pc' = "end" /\ result' = r

\* _status, whose failure is swallowed.
Report(s) ==
  \/ ledger' = s /\ UNCHANGED lossless
  \/ ledger' \in {ledger, s} /\ lossless' = FALSE

-----------------------------------------------------------------------------
(* The loop.                                                               *)

Start ==
  /\ pc = "start"
  /\ Goto("turn")
  /\ Report("running")
  /\ UNCHANGED <<steps, place, policy, attempt, ran, slotVars, answer>>

TurnsLeft == steps < MaxSteps

\* run_agent_turn answers with calls, possibly none.
TakeTurn ==
  /\ pc = "turn"
  /\ TurnsLeft
  /\ steps' = steps + 1
  /\ place' = 1
  /\ \E n \in 0 .. MaxCalls : \E d \in [1 .. n -> Policies] :
       policy' = [c \in Calls |-> IF c[1] = steps + 1 /\ c[2] <= n THEN d[c[2]] ELSE policy[c]]
  /\ Goto("calls")
  /\ UNCHANGED <<attempt, ran, slotVars, ledgerVars, answer>>

\* It answers that the agent is done, or all its attempts fail; nothing
\* catches that, and nothing reports it.
LastTurn ==
  /\ pc = "turn"
  /\ TurnsLeft
  /\ steps' = steps + 1
  /\ \/ Return("completed") /\ Report("completed")
     \/ Return("raised") /\ UNCHANGED ledgerVars
  /\ UNCHANGED <<place, policy, attempt, ran, slotVars, answer>>

OutOfSteps ==
  /\ pc = "turn"
  /\ ~TurnsLeft
  /\ Return("completed") /\ Report("completed")
  /\ UNCHANGED <<steps, place, policy, attempt, ran, slotVars, answer>>

EndOfTurn ==
  /\ pc = "calls"
  /\ ~HasCall
  /\ Goto("turn")
  /\ UNCHANGED <<steps, place, policy, attempt, ran, slotVars, ledgerVars, answer>>

AtCall(d) == pc = "calls" /\ HasCall /\ policy[current] = d

NextCall == pc' = "calls" /\ place' = place + 1 /\ UNCHANGED result
BeginDispatch == Goto("dispatch") /\ attempt' = 0 /\ UNCHANGED place

Allow ==
  /\ AtCall("allow")
  /\ BeginDispatch
  /\ UNCHANGED <<steps, policy, ran, slotVars, ledgerVars, answer>>

Deny ==
  /\ AtCall("deny")
  /\ NextCall
  /\ UNCHANGED <<steps, policy, attempt, ran, slotVars, ledgerVars, answer>>

\* An answer that comes from here on is taken for this call.
SlotKept == decision
EmptySlot == None
RequestApproval ==
  /\ AtCall("approval_required")
  /\ pending' = current
  /\ decision' = EmptySlot
  /\ Goto("waiting")
  /\ Report("awaiting_approval")
  /\ UNCHANGED <<steps, place, policy, attempt, ran, answer>>

AnyAnswer == decision # None
Approved == decision = "approved"

Resume ==
  /\ pc = "waiting"
  /\ decision # None
  /\ pending' = NoCall
  /\ Report("running")
  /\ IF Approved THEN BeginDispatch ELSE NextCall /\ UNCHANGED attempt
  /\ UNCHANGED <<steps, policy, ran, decision, answer>>

LeftAsItWas == "running"
ReportedAtTheEnd == "timeout"
TimerLost == FALSE
TimerFires == decision = None

\* The status goes to running and then to timeout, and the run is over.
TimeOut ==
  /\ pc = "waiting"
  /\ TimerFires
  /\ pending' = NoCall
  /\ decision' = "timeout"
  /\ Return("timeout")
  /\ \/ Report(ReportedAtTheEnd)
     \/ ledger' = "running" /\ lossless' = FALSE
  /\ UNCHANGED <<steps, place, policy, attempt, ran, answer>>

\* run_agent_tool_dispatch: an attempt that fails may have executed the tool.
Dispatch ==
  /\ pc = "dispatch"
  /\ \/ /\ ran' = ran \cup {current}
        /\ NextCall
        /\ UNCHANGED attempt
     \/ /\ ran' \in {ran, ran \cup {current}}
        /\ attempt' = attempt + 1
        /\ UNCHANGED place
        /\ IF attempt' = MaximumAttempts THEN Return("raised") ELSE UNCHANGED <<pc, result>>
  /\ UNCHANGED <<steps, policy, slotVars, ledgerVars, answer>>

-----------------------------------------------------------------------------
(* approve_agent_run: it looks at nothing the run holds.                   *)

Normalized(action) == IF action \in {"approve", "approved"} THEN "approved" ELSE "rejected"

\* Somebody answers what the run shows as pending at the time.
Click(a, action) ==
  /\ answer[a].at = "idle"
  /\ answer' = [answer EXCEPT ![a] =
       [at |-> "signal", action |-> Normalized(action), asked |-> pending, delivered |-> FALSE]]
  /\ UNCHANGED <<loopVars, slotVars, result, ledgerVars>>

\* The signal reaches a run that is not over, and overwrites the slot; the
\* endpoint reports a failure, which may come after that.
Signal(a) ==
  /\ answer[a].at = "signal"
  /\ \/ /\ result = None
        /\ decision' = answer[a].action
        /\ \E at \in {"ok", "failed"} :
             answer' = [answer EXCEPT ![a].at = at, ![a].delivered = TRUE]
     \/ /\ answer' = [answer EXCEPT ![a].at = "failed"]
        /\ UNCHANGED decision
  /\ UNCHANGED <<loopVars, pending, result, ledgerVars>>

Step ==
  \/ Start \/ TakeTurn \/ LastTurn \/ OutOfSteps \/ EndOfTurn
  \/ Allow \/ Deny \/ RequestApproval \/ Resume \/ TimeOut \/ Dispatch

AgentNext ==
  \/ Step
  \/ \E a \in Answers : Signal(a) \/ \E action \in Actions : Click(a, action)

\* Temporal drives the run; nobody has to answer.
AgentSpec == AgentInit /\ [][AgentNext]_agentVars /\ WF_agentVars(Step)

-----------------------------------------------------------------------------
Requests ==
  [at : {"idle", "signal", "ok", "failed"}, action : Decisions \cup {None},
   asked : Calls \cup {NoCall}, delivered : BOOLEAN]

AgentTypeOK ==
  /\ pc \in {"start", "turn", "calls", "waiting", "dispatch", "end"}
  /\ steps \in 0 .. MaxSteps
  /\ place \in 1 .. MaxCalls + 1
  /\ policy \in [Calls -> Policies \cup {None}]
  /\ attempt \in 0 .. MaximumAttempts
  /\ ran \subseteq Calls
  /\ pending \in Calls \cup {NoCall}
  /\ decision \in Decisions \cup {None, "timeout"}
  /\ result \in {None, "completed", "timeout", "raised"}
  /\ ledger \in Statuses \cup {None}
  /\ lossless \in BOOLEAN
  /\ answer \in [Answers -> Requests]

\* No tool is executed that the policy denied, and none that needs approval
\* unless an approval reached the run, meant for that call, for an earlier
\* one, or for none; however answers, failures and retries interleave.
NoToolWithoutConsent ==
  \A c \in ran :
    \/ policy[c] = "allow"
    \/ /\ policy[c] = "approval_required"
       /\ \E a \in Answers :
            answer[a].delivered /\ answer[a].action = "approved" /\ ~Before(c, answer[a].asked)

\* What holds of the tools whatever people answer, with the types.
AgentInvariant == AgentTypeOK /\ NoToolWithoutConsent

Consented(c) ==
  \E a \in Answers :
    answer[a].delivered /\ answer[a].action = "approved" /\ answer[a].asked = c

\* One slot is sufficient for people who answer each request once: a tool
\* that needs approval is executed on an approval of that very call, unless
\* somebody answered a call twice, or answered when nothing was asked.
AnsweredOutOfTurn ==
  \/ \E a \in Answers : answer[a].delivered /\ answer[a].asked = NoCall
  \/ \E a, b \in Answers :
       a # b /\ answer[a].delivered /\ answer[b].delivered /\ answer[a].asked = answer[b].asked

ConsentIsForTheCall ==
  \A c \in ran : policy[c] = "approval_required" => Consented(c) \/ AnsweredOutOfTurn

\* The ledger shows how a run ended that returned, unless a report failed.
LedgerShowsTheEnd ==
  result \in {"completed", "timeout"} /\ lossless => ledger = result

\* The run ends, whatever the model and the approvers do.
RunEnds == <>(result # None)
=============================================================================
