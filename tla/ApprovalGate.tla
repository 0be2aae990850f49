----------------------------- MODULE ApprovalGate -----------------------------
(***************************************************************************)
(* The approval gates of one run and the people who answer them.           *)
(*                                                                         *)
(* The run meets its wait_approval nodes one after the other; each writes  *)
(* its request over that of the gate before (register_approval_token) and  *)
(* then waits for approval_signal or its timer.  The two endpoints         *)
(* (approval_action_link, _action_approval) read the row, signal the run,  *)
(* and write the row when they commit, three steps between which the run   *)
(* and the other requests move on.  A signal that fails is logged and      *)
(* forgotten; a commit that fails comes after the signal.  The decision    *)
(* stays in the run from one gate to the next.                             *)
(***************************************************************************)
EXTENDS Naturals, FiniteSets

CONSTANTS
  Gates,      \* how many wait_approval nodes the run meets
  Requests,   \* the calls to the endpoints
  ZeroHours   \* the gates configured with timeout_hours = 0

ASSUME GatesAssumption == Gates \in Nat \ {0}
ASSUME ZeroHoursAssumption == ZeroHours \subseteq 1 .. Gates

None == "none"
Decisions == { "approved", "rejected" }
Actions == { "approve", "reject", "approved", "no" }   \* what callers send

VARIABLES
  linked,    \* the row has a temporal_workflow_id; that of a sub-workflow has none
  gate,      \* the gate the run is at; past the last one it has ended
  waiting,   \* the request of this gate is registered
  decision,  \* _approval_status of the workflow object
  outcome,   \* what became of each gate
  row,       \* approval_status and approval_token (a gate) of the row, and
             \* whether approval_expires_at has passed
  request    \* what each call does, for which pending gate, from where it came

vars == <<linked, gate, waiting, decision, outcome, row, request>>

Ended == gate > Gates

Idle == [at |-> "idle", action |-> None, asked |-> 0, delivered |-> FALSE]

Init ==
  /\ linked \in BOOLEAN
  /\ gate = 1
  /\ waiting = FALSE
  /\ decision = None
  /\ outcome = [g \in 1 .. Gates |-> None]
  /\ row = [status |-> None, token |-> 0, expired |-> FALSE]
  /\ request = [r \in Requests |-> Idle]

\* The node ends so; the run goes on to the next gate, or never meets another.
EndGate(result) ==
  /\ outcome' = [outcome EXCEPT ![gate] = result]
  /\ gate' \in {gate + 1, Gates + 1}
  /\ waiting' = FALSE

PendingRow == [status |-> "pending", token |-> gate, expired |-> gate \in ZeroHours]

\* register_approval_token and the mail; the node fails if either gives up.
Register ==
  /\ ~Ended /\ ~waiting
  /\ \/ row' = PendingRow /\ waiting' = TRUE /\ UNCHANGED <<gate, outcome>>
     \/ row' \in {row, PendingRow} /\ EndGate("error")
  /\ UNCHANGED <<linked, decision, request>>

\* The expiry is computed before the timer of the run is started.
Expire ==
  /\ waiting /\ ~row.expired
  /\ row' = [row EXCEPT !.expired = TRUE]
  /\ UNCHANGED <<linked, gate, waiting, decision, outcome, request>>

Resume ==
  /\ waiting
  /\ decision # None
  /\ EndGate(decision)
  /\ UNCHANGED <<linked, decision, row, request>>

TimerFiresLate == row.expired /\ \A r \in Requests : request[r].at # "idle"
TimerFires == row.expired
FailOpen == "approved"
OnTimeout == "timeout"

TimeOut ==
  /\ waiting
  /\ decision = None
  /\ TimerFires
  /\ EndGate(OnTimeout)
  /\ UNCHANGED <<linked, decision, row, request>>

-----------------------------------------------------------------------------

Settle(r, at) == request' = [request EXCEPT ![r].at = at]

\* The UI asks whether the row is pending; a link must also hold the token in
\* the row and come before it expires.
MayAnswer(via, token) ==
  /\ row.status = "pending"
  /\ via = "link" => token = row.token /\ ~row.expired

\* Whatever is not an approval counts as a rejection.
Normalized(action) == IF action \in {"approve", "approved"} THEN "approved" ELSE "rejected"

\* token: the gate whose mail holds the link; only mails sent hold one.
Read(r, via, token, action) ==
  /\ request[r].at = "idle"
  /\ token <= row.token
  /\ IF MayAnswer(via, token)
     THEN request' = [request EXCEPT ![r] =
                        [at |-> "signal", action |-> Normalized(action),
                         asked |-> row.token, delivered |-> FALSE]]
     ELSE Settle(r, "refused")
  /\ UNCHANGED <<linked, gate, waiting, decision, outcome, row>>

\* _send_temporal_signal: a run that ended, one without an id and a failure
\* of Temporal all look like success to the caller.
Signal(r) ==
  /\ request[r].at = "signal"
  /\ \/ /\ linked /\ ~Ended
        /\ decision' = request[r].action
        /\ request' = [request EXCEPT ![r].at = "commit", ![r].delivered = TRUE]
     \/ Settle(r, "commit") /\ UNCHANGED decision
  /\ UNCHANGED <<linked, gate, waiting, outcome, row>>

AlwaysApproved(r) == "approved"
Answer(r) == request[r].action

\* The row is written by its primary key, whatever it holds by now.
Commit(r) ==
  /\ request[r].at = "commit"
  /\ \/ row' = [row EXCEPT !.status = Answer(r)] /\ Settle(r, "accepted")
     \/ Settle(r, "failed") /\ UNCHANGED row
  /\ UNCHANGED <<linked, gate, waiting, decision, outcome>>

Run == Register \/ Expire \/ Resume \/ TimeOut
Call(r) ==
  \/ \E via \in {"link", "ui"}, token \in 1 .. Gates, action \in Actions : Read(r, via, token, action)
  \/ Signal(r)
  \/ Commit(r)

Next == Run \/ \E r \in Requests : Call(r)

\* The run goes on and a call that has begun ends; nobody has to call.
Spec ==
  /\ Init /\ [][Next]_vars
  /\ WF_vars(Run)
  /\ \A r \in Requests : WF_vars(Signal(r)) /\ WF_vars(Commit(r))

-----------------------------------------------------------------------------

Outcomes == Decisions \cup {None, "timeout", "error"}
Rows == [status : Decisions \cup {None, "pending"}, token : 0 .. Gates, expired : BOOLEAN]
Calls ==
  [at : {"idle", "signal", "commit", "accepted", "refused", "failed"},
   action : Decisions \cup {None}, asked : 0 .. Gates, delivered : BOOLEAN]

TypeOK ==
  /\ linked \in BOOLEAN
  /\ gate \in 1 .. Gates + 1
  /\ waiting \in BOOLEAN
  /\ decision \in Decisions \cup {None}
  /\ outcome \in [1 .. Gates -> Outcomes]
  /\ row \in Rows
  /\ request \in [Requests -> Calls]

\* No gate opens, and none is refused, but by an answer with that action that
\* somebody gave to it, or to an earlier gate, while a request was pending.
DecidedByAnAnswer ==
  \A g \in 1 .. Gates : outcome[g] \in Decisions =>
    \E r \in Requests :
      /\ request[r].delivered
      /\ request[r].action = outcome[g]
      /\ request[r].asked \in 1 .. g

Settled == Ended /\ \A r \in Requests : request[r].at \notin {"signal", "commit"}

\* When everything has settled, the row tells what became of the gate whose
\* request it holds, unless the gate failed or timed out, a signal or a commit
\* was lost, answers contradicted each other, or an earlier gate was answered.
RowExplained ==
  Settled /\ row.token > 0 =>
    LET g == row.token
    IN \/ row.status = outcome[g]
       \/ outcome[g] \in {"error", "timeout"}
       \/ \E r \in Requests : request[r].at = "failed"
       \/ \E r \in Requests : request[r].at = "accepted" /\ ~request[r].delivered
       \/ \E r, s \in Requests : request[r].action = "approved" /\ request[s].action = "rejected"
       \/ \E r \in Requests : request[r].delivered /\ request[r].asked < g

\* The run of a sub-workflow has no id to signal: all its gates time out.
UnlinkedGatesTimeOut ==
  ~linked => \A g \in 1 .. Gates : outcome[g] \in {None, "timeout", "error"}

\* What holds of the gates of a run that nobody can signal, with the types.
GateInvariant == TypeOK /\ UnlinkedGatesTimeOut

\* Lost signals, refused links and overwritten rows never hold the run up.
RunGoesOn == <>Ended
=============================================================================
