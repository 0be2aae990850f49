-------------------------- MODULE ApprovalGate_proofs --------------------------
(***************************************************************************)
(* For any number of gates and of calls: a gate is only ever decided by an *)
(* answer, the gates of a run that cannot be signalled never are, and the  *)
(* row tells what became of the gate whose request it holds.               *)
(***************************************************************************)
EXTENDS ApprovalGate, TLAPS

\* The action was delivered for a gate up to g.
Answered(action, g) ==
  \E r \in Requests :
    request[r].delivered /\ request[r].action = action /\ request[r].asked \in 1 .. g

\* The inductive invariant: the decision the run holds was answered, and so
\* was whatever a call is about to signal, before the gate the run is at.
WaitInv == waiting => ~Ended

RowInv == row.token <= gate /\ (row.status # None => row.token >= 1)

CallInv ==
  \A r \in Requests :
    /\ request[r].at \in {"signal", "commit"} =>
         request[r].asked \in 1 .. row.token /\ request[r].action \in Decisions
    /\ request[r].delivered => request[r].at \in {"commit", "accepted", "failed"}

DecisionInv == decision # None => Answered(decision, gate) /\ linked

GateInv ==
  /\ TypeOK
  /\ WaitInv
  /\ RowInv
  /\ CallInv
  /\ DecisionInv
  /\ DecidedByAnAnswer
  /\ UnlinkedGatesTimeOut

LEMMA GateInvInit == Init => GateInv
<1> SUFFICES ASSUME Init PROVE GateInv
  OBVIOUS
<1>1. /\ Gates \in Nat \ {0} /\ 1 \in 1 .. Gates + 1 /\ 0 \in 0 .. Gates
      /\ None \notin Decisions
  BY GatesAssumption DEF None, Decisions
<1>2. \A r \in Requests : request[r] = Idle
  BY DEF Init
<1>3. Idle \in Calls
  BY <1>1 DEF Idle, Calls
<1>4. [status |-> None, token |-> 0, expired |-> FALSE] \in Rows
  BY <1>1 DEF Rows
<1>5. TypeOK
  BY <1>1, <1>3, <1>4 DEF Init, TypeOK, Outcomes
<1>6. QED
  BY <1>1, <1>2, <1>5 DEF Init, GateInv, Idle, WaitInv, RowInv, CallInv, DecisionInv,
     DecidedByAnAnswer, UnlinkedGatesTimeOut

\* Ending a gate by the decision of the run, or by no answer at all.
LEMMA EndGateKeeps ==
  ASSUME GateInv, NEW result, EndGate(result), ~Ended,
         result \in {"timeout", "error"} \/ (result = decision /\ decision # None),
         UNCHANGED <<linked, decision, request>>, row' \in Rows, RowInv', CallInv'
  PROVE  GateInv'
<1>1. /\ gate \in 1 .. Gates /\ gate' \in {gate + 1, Gates + 1} /\ waiting' = FALSE
      /\ outcome' = [outcome EXCEPT ![gate] = result]
      /\ outcome \in [1 .. Gates -> Outcomes]
      /\ decision \in Decisions \cup {None}
      /\ Gates \in Nat
  BY GatesAssumption DEF GateInv, TypeOK, EndGate, Ended
<1>2. TypeOK' /\ WaitInv'
  <2>1. result \in Outcomes
    BY <1>1 DEF Outcomes
  <2>2. gate' \in 1 .. Gates + 1
    BY <1>1
  <2>3. QED
    BY <1>1, <2>1, <2>2 DEF GateInv, TypeOK, WaitInv
<1>3. DecisionInv'
  <2>1. SUFFICES ASSUME decision # None PROVE Answered(decision, gate)' /\ linked
    BY DEF DecisionInv
  <2>2. Answered(decision, gate) /\ linked
    BY <2>1 DEF GateInv, DecisionInv
  <2>3. gate' \in Nat /\ gate <= gate' /\ gate \in Nat
    BY <1>1
  <2>4. QED
    BY <2>2, <2>3 DEF Answered
<1>4. ASSUME NEW g \in 1 .. Gates, outcome'[g] \in Decisions
      PROVE  Answered(outcome[g], g)'
  <2>1. CASE g = gate
    BY <1>1, <1>4, <2>1 DEF GateInv, DecisionInv, Answered, Decisions
  <2>2. CASE g # gate
    BY <1>1, <1>4, <2>2 DEF GateInv, DecidedByAnAnswer, Answered
  <2>3. QED
    BY <2>1, <2>2
<1>5. DecidedByAnAnswer'
  BY <1>4 DEF DecidedByAnAnswer, Answered
<1>6. UnlinkedGatesTimeOut'
  BY <1>1 DEF GateInv, DecisionInv, UnlinkedGatesTimeOut
<1>7. QED
  BY <1>2, <1>3, <1>5, <1>6 DEF GateInv

\* A call only changes its own record, and never what it has delivered.
LEMMA CallKeeps ==
  ASSUME GateInv, NEW r \in Requests, Call(r)
  PROVE  /\ request' \in [Requests -> Calls]
         /\ UNCHANGED <<linked, gate, waiting, outcome>>
         /\ \A s \in Requests : s # r => request'[s] = request[s]
         /\ request[r].delivered =>
              /\ request'[r].delivered
              /\ request'[r].action = request[r].action
              /\ request'[r].asked = request[r].asked
<1> USE DEF CallInv
<1>1. /\ request \in [Requests -> Calls] /\ request[r] \in Calls /\ row \in Rows
      /\ UNCHANGED <<linked, gate, waiting, outcome>>
  BY DEF GateInv, TypeOK, Call, Read, Signal, Commit
<1>2. ASSUME NEW at \in {"accepted", "refused", "failed", "commit"}, Settle(r, at)
      PROVE  /\ request' \in [Requests -> Calls]
             /\ \A s \in Requests : s # r => request'[s] = request[s]
             /\ request'[r] = [request[r] EXCEPT !.at = at]
  <2>1. [request[r] EXCEPT !.at = at] \in Calls
    BY <1>1, <1>2 DEF Calls
  <2>2. request' = [request EXCEPT ![r] = [request[r] EXCEPT !.at = at]]
    BY <1>2 DEF Settle
  <2>3. QED
    BY <1>1, <2>1, <2>2
<1>3. ASSUME NEW via, NEW token, NEW action, Read(r, via, token, action)
      PROVE  /\ request' \in [Requests -> Calls]
             /\ \A s \in Requests : s # r => request'[s] = request[s]
             /\ ~request[r].delivered
  <2>1. ~request[r].delivered
    BY <1>3 DEF GateInv, Read
  <2>2. CASE MayAnswer(via, token)
    <3>1. [at |-> "signal", action |-> Normalized(action),
           asked |-> row.token, delivered |-> FALSE] \in Calls
      BY <1>1 DEF Calls, Rows, Normalized, Decisions
    <3>2. request' = [request EXCEPT ![r] = [at |-> "signal", action |-> Normalized(action),
                                             asked |-> row.token, delivered |-> FALSE]]
      BY <1>3, <2>2 DEF Read
    <3>3. QED
      BY <1>1, <2>1, <3>1, <3>2
  <2>3. CASE ~MayAnswer(via, token)
    BY <1>2, <1>3, <2>1, <2>3 DEF Read
  <2>4. QED
    BY <2>2, <2>3
<1>4. CASE Signal(r)
  <2>1. ~request[r].delivered
    BY <1>4 DEF GateInv, Signal
  <2>2. CASE Settle(r, "commit")
    BY <1>1, <1>2, <2>1, <2>2
  <2>3. CASE request' = [request EXCEPT ![r].at = "commit", ![r].delivered = TRUE]
    <3>1. [request[r] EXCEPT !.at = "commit", !.delivered = TRUE] \in Calls
      BY <1>1 DEF Calls
    <3>2. request' = [request EXCEPT ![r] = [request[r] EXCEPT !.at = "commit", !.delivered = TRUE]]
      BY <1>1, <2>3
    <3>3. QED
      BY <1>1, <2>1, <3>1, <3>2
  <2>4. QED
    BY <1>4, <2>1, <2>2, <2>3 DEF Signal
<1>5. CASE Commit(r)
  BY <1>1, <1>2, <1>5 DEF Commit, Calls
<1>6. QED
  BY <1>1, <1>3, <1>4, <1>5 DEF Call

LEMMA AnsweredAfterCall ==
  ASSUME GateInv, NEW r \in Requests, Call(r), NEW action, NEW g, Answered(action, g)
  PROVE  Answered(action, g)'
BY CallKeeps DEF Answered

LEMMA CallStep ==
  ASSUME GateInv, NEW r \in Requests, Call(r)
  PROVE  GateInv'
<1>1. /\ TypeOK /\ Gates \in Nat /\ row \in Rows /\ request[r] \in Calls
      /\ request \in [Requests -> Calls] /\ gate \in 1 .. Gates + 1
      /\ WaitInv /\ RowInv /\ CallInv /\ DecisionInv
  BY GatesAssumption DEF GateInv, TypeOK
<1>2. /\ request' \in [Requests -> Calls] /\ UNCHANGED <<linked, gate, waiting, outcome>>
      /\ \A s \in Requests : s # r => request'[s] = request[s]
  BY CallKeeps
<1>3. DecidedByAnAnswer' /\ UnlinkedGatesTimeOut' /\ WaitInv'
  BY <1>1, <1>2, AnsweredAfterCall DEF GateInv, DecidedByAnAnswer, UnlinkedGatesTimeOut,
     Answered, WaitInv, Ended
<1>4. TypeOK' /\ RowInv' /\ CallInv' /\ DecisionInv'
  <2>1. ASSUME decision' = decision PROVE DecisionInv'
    BY <1>1, <1>2, <2>1, AnsweredAfterCall DEF DecisionInv
  <2>2. ASSUME row' = row, request'[r].at \in {"refused", "commit"},
               request'[r].asked = request[r].asked, request'[r].action = request[r].action,
               request'[r].delivered => request'[r].at = "commit",
               request'[r].at = "commit" => request[r].at = "signal"
        PROVE  RowInv' /\ CallInv' /\ row' \in Rows
    BY <1>1, <1>2, <2>2 DEF RowInv, CallInv
  <2>3. ASSUME NEW via, NEW token, NEW action, Read(r, via, token, action),
               MayAnswer(via, token)
        PROVE  RowInv' /\ CallInv' /\ row' \in Rows /\ decision' = decision
    <3>1. /\ row' = row /\ decision' = decision
          /\ request'[r] = [at |-> "signal", action |-> Normalized(action),
                            asked |-> row.token, delivered |-> FALSE]
      BY <1>1, <2>3 DEF Read
    <3>2. row.token \in 1 .. row.token /\ Normalized(action) \in Decisions
      BY <1>1, <2>3 DEF MayAnswer, RowInv, Rows, None, Normalized, Decisions
    <3>3. QED
      BY <1>1, <1>2, <3>1, <3>2 DEF RowInv, CallInv
  <2>4. ASSUME NEW via, NEW token, NEW action, Read(r, via, token, action),
               ~MayAnswer(via, token)
        PROVE  RowInv' /\ CallInv' /\ row' \in Rows /\ decision' = decision
    <3>1. /\ row' = row /\ decision' = decision /\ request[r].at = "idle"
          /\ request'[r] = [request[r] EXCEPT !.at = "refused"]
      BY <1>1, <2>4 DEF Read, Settle
    <3>2. QED
      BY <1>1, <2>2, <3>1 DEF CallInv, Calls
  <2>5. CASE Signal(r) /\ Settle(r, "commit") /\ decision' = decision
    <3>1. /\ row' = row /\ request[r].at = "signal"
          /\ request'[r] = [request[r] EXCEPT !.at = "commit"]
      BY <1>1, <2>5 DEF Signal, Settle
    <3>2. RowInv' /\ CallInv' /\ row' \in Rows
      BY <1>1, <2>2, <3>1 DEF CallInv, Calls
    <3>3. QED
      BY <1>1, <1>2, <2>1, <2>5, <3>2 DEF TypeOK
  <2>6. CASE Signal(r) /\ linked /\ decision' = request[r].action
             /\ request' = [request EXCEPT ![r].at = "commit", ![r].delivered = TRUE]
    <3>1. /\ row' = row /\ request[r].at = "signal"
          /\ request'[r] = [request[r] EXCEPT !.at = "commit", !.delivered = TRUE]
      BY <1>1, <2>6 DEF Signal
    <3>2. RowInv' /\ CallInv' /\ row' \in Rows
      BY <1>1, <2>2, <3>1 DEF CallInv, Calls
    <3>3. /\ request'[r].delivered /\ request'[r].action = decision'
          /\ request'[r].asked = request[r].asked
      BY <1>1, <2>6, <3>1 DEF Calls
    <3>4. request[r].asked \in 1 .. gate' /\ decision' \in Decisions
      BY <1>1, <1>2, <2>6, <3>1 DEF CallInv, RowInv, Rows, Calls
    <3>5. DecisionInv'
      BY <1>2, <2>6, <3>3, <3>4 DEF DecisionInv, Answered
    <3>6. QED
      BY <1>1, <1>2, <2>6, <3>2, <3>4, <3>5 DEF TypeOK
  <2>7. CASE Commit(r)
    <3>1. /\ decision' = decision /\ request[r].at = "commit" /\ row'.token = row.token
          /\ row' \in Rows /\ (row' # row => request'[r].at = "accepted" /\ row.token >= 1)
          /\ request'[r].at \in {"accepted", "failed"}
      BY <1>1, <2>7 DEF Commit, Settle, Answer, CallInv, Rows, Calls
    <3>2. RowInv' /\ CallInv'
      BY <1>1, <1>2, <3>1 DEF RowInv, CallInv
    <3>3. QED
      BY <1>1, <1>2, <2>1, <3>1, <3>2 DEF TypeOK
  <2>8. CASE \E via, token, action : Read(r, via, token, action)
    BY <1>1, <1>2, <2>1, <2>3, <2>4, <2>8 DEF TypeOK
  <2>9. QED
    BY <2>5, <2>6, <2>7, <2>8 DEF Call, Signal
<1>5. QED
  BY <1>3, <1>4 DEF GateInv

LEMMA GateInvStep == GateInv /\ [Next]_vars => GateInv'
<1> SUFFICES ASSUME GateInv, [Next]_vars PROVE GateInv'
  OBVIOUS
<1>1. /\ TypeOK /\ Gates \in Nat /\ row \in Rows /\ RowInv /\ CallInv /\ gate \in 1 .. Gates + 1
  BY GatesAssumption DEF GateInv, TypeOK
<1>2. CASE Register
  <2>1. /\ gate \in 1 .. Gates /\ ~Ended
        /\ PendingRow \in Rows /\ PendingRow.token = gate
    BY <1>1, <1>2 DEF PendingRow, Rows, Register, Ended
  <2>2. row' \in {row, PendingRow} /\ UNCHANGED <<linked, decision, request>>
    BY <1>2 DEF Register
  <2>3. \A r \in Requests : request[r].at \in {"signal", "commit"} => request[r].asked \in 1 .. gate
    BY <1>1 DEF CallInv, RowInv, Rows
  <2>4. row' \in Rows /\ CallInv'
    BY <1>1, <2>1, <2>2, <2>3 DEF CallInv
  <2>5. CASE waiting' = TRUE /\ UNCHANGED <<gate, outcome>>
    <3>1. RowInv' /\ WaitInv' /\ TypeOK'
      BY <1>1, <2>1, <2>2, <2>4, <2>5 DEF RowInv, WaitInv, Ended, TypeOK
    <3>2. DecisionInv' /\ DecidedByAnAnswer' /\ UnlinkedGatesTimeOut'
      BY <2>2, <2>5 DEF GateInv, DecisionInv, Answered, DecidedByAnAnswer, UnlinkedGatesTimeOut
    <3>3. QED
      BY <2>4, <3>1, <3>2 DEF GateInv
  <2>6. CASE EndGate("error")
    <3>1. gate' >= gate /\ gate' \in Nat
      BY <1>1, <2>1, <2>6 DEF EndGate
    <3>2. row'.token \in Nat /\ row'.token <= gate /\ (row'.status # None => row'.token >= 1)
      BY <1>1, <2>1, <2>2 DEF RowInv, Rows
    <3>3. RowInv'
      BY <2>1, <3>1, <3>2 DEF RowInv
    <3>4. QED
      BY <2>1, <2>2, <2>4, <2>6, <3>3, EndGateKeeps
  <2>7. QED
    BY <1>2, <2>5, <2>6 DEF Register
<1>3. CASE Expire
  <2>1. /\ UNCHANGED <<linked, gate, waiting, decision, outcome, request>>
        /\ row' \in Rows /\ row'.token = row.token /\ row'.status = row.status
    BY <1>1, <1>3 DEF Expire, Rows
  <2>2. TypeOK' /\ RowInv' /\ CallInv' /\ WaitInv'
    BY <1>1, <2>1 DEF GateInv, TypeOK, RowInv, CallInv, WaitInv, Ended
  <2>3. DecisionInv' /\ DecidedByAnAnswer' /\ UnlinkedGatesTimeOut'
    BY <2>1 DEF GateInv, DecisionInv, Answered, DecidedByAnAnswer, UnlinkedGatesTimeOut
  <2>4. QED
    BY <2>2, <2>3 DEF GateInv
<1>4. CASE Resume \/ TimeOut
  <2>1. ~Ended /\ UNCHANGED <<linked, decision, row, request>>
    BY <1>4 DEF GateInv, WaitInv, Resume, TimeOut
  <2>2. PICK result : EndGate(result) /\ (result = "timeout" \/ (result = decision /\ decision # None))
    BY <1>4 DEF Resume, TimeOut, OnTimeout
  <2>3. RowInv' /\ CallInv' /\ row' \in Rows
    BY <1>1, <2>1, <2>2 DEF RowInv, CallInv, EndGate, Rows, Ended
  <2>4. QED
    BY <2>1, <2>2, <2>3, EndGateKeeps
<1>5. ASSUME NEW r \in Requests, Call(r) PROVE GateInv'
  BY <1>5, CallStep
<1>6. CASE UNCHANGED vars
  BY <1>6 DEF GateInv, vars, TypeOK, WaitInv, Ended, RowInv, CallInv, DecisionInv, Answered,
     DecidedByAnAnswer, UnlinkedGatesTimeOut
<1>7. QED
  BY <1>2, <1>3, <1>4, <1>5, <1>6 DEF Next, Run

\* For any number of gates and calls, gates are decided by answers given to
\* them or before them.
THEOREM GatesAreDecidedByAnswers == Spec => []DecidedByAnAnswer
<1>1. GateInv => DecidedByAnAnswer
  BY DEF GateInv
<1>2. QED
  BY GateInvInit, GateInvStep, <1>1, PTL DEF Spec

\* The types hold, and no gate of a run that nobody can signal is decided.
THEOREM GateInvariantHolds == Spec => []GateInvariant
<1>1. GateInv => GateInvariant
  BY DEF GateInv, GateInvariant
<1>2. QED
  BY GateInvInit, GateInvStep, <1>1, PTL DEF Spec

-----------------------------------------------------------------------------

\* What ties the row to the gate whose request it holds: the gate is the one
\* the run waits at or one that ended; a decision in the row is that of a call
\* that committed; a call that committed for this request has written one.
RowShows ==
  /\ row.token > 0 => row.status # None
  /\ IF waiting THEN row.token = gate
                ELSE row.token < gate /\ (row.token > 0 => outcome[row.token] # None)
  /\ row.status \in Decisions =>
       \E r \in Requests : request[r].at = "accepted" /\ request[r].action = row.status
  /\ \A r \in Requests : request[r].at = "accepted" =>
       /\ request[r].asked <= row.token
       /\ request[r].asked = row.token => row.status \in Decisions
       /\ request[r].action \in Decisions

RowInvariant == GateInv /\ RowShows

LEMMA RowShowsInit == Init => RowShows
BY GatesAssumption DEF Init, RowShows, Idle, None, Decisions

\* A new request takes the place of one whose gate has ended.
LEMMA RegisteringShows ==
  ASSUME RowInvariant, Register PROVE RowShows'
<1>1. /\ gate \in 1 .. Gates /\ ~waiting /\ Gates \in Nat /\ row \in Rows
      /\ request' = request /\ request \in [Requests -> Calls]
      /\ outcome \in [1 .. Gates -> Outcomes]
      /\ row.token < gate
  BY GatesAssumption DEF RowInvariant, RowShows, GateInv, TypeOK, Register, Ended
<1>2. \A r \in Requests : request[r].at = "accepted" => request[r].asked \in Nat /\ request[r].asked < gate
  BY <1>1 DEF RowInvariant, RowShows, Calls, Rows
<1>3. PendingRow.token = gate /\ PendingRow.status = "pending"
  BY DEF PendingRow
<1>4. "pending" \notin Decisions /\ "pending" # None /\ "error" # None
  BY DEF Decisions, None
<1>5. CASE row' = PendingRow /\ waiting' = TRUE /\ UNCHANGED <<gate, outcome>>
  BY <1>1, <1>2, <1>3, <1>4, <1>5 DEF RowInvariant, RowShows
<1>6. CASE EndGate("error")
  <2>1. /\ gate' \in Nat /\ gate < gate' /\ waiting' = FALSE
        /\ outcome' = [outcome EXCEPT ![gate] = "error"]
    BY <1>1, <1>6 DEF EndGate
  <2>2. CASE row' = PendingRow
    BY <1>1, <1>2, <1>3, <1>4, <2>1, <2>2 DEF RowInvariant, RowShows
  <2>3. CASE row' = row
    <3>1. row.token \in Nat /\ (row.token > 0 => outcome'[row.token] # None)
      BY <1>1, <2>1 DEF RowInvariant, RowShows, Rows
    <3>2. row.token < gate'
      BY <1>1, <2>1, <3>1
    <3>3. QED
      BY <1>1, <2>1, <2>3, <3>1, <3>2 DEF RowInvariant, RowShows
  <2>4. QED
    BY <1>6, <2>2, <2>3 DEF Register, EndGate, RowInvariant, RowShows, GateInv
<1>7. QED
  BY <1>5, <1>6 DEF Register

\* A gate that ends keeps the row, and has its outcome then.
LEMMA EndingShows ==
  ASSUME RowInvariant, Resume \/ TimeOut PROVE RowShows'
<1>1. /\ waiting /\ gate \in 1 .. Gates /\ Gates \in Nat /\ row \in Rows
      /\ UNCHANGED <<row, request>> /\ outcome \in [1 .. Gates -> Outcomes]
      /\ row.token = gate
  BY GatesAssumption DEF RowInvariant, RowShows, GateInv, TypeOK, WaitInv, Ended, Resume, TimeOut
<1>2. PICK result : EndGate(result) /\ result # None
  BY DEF Resume, TimeOut, OnTimeout, None
<1>3. gate < gate' /\ ~waiting' /\ outcome'[gate] # None
  BY <1>1, <1>2 DEF EndGate
<1>4. QED
  BY <1>1, <1>3 DEF RowInvariant, RowShows

\* Reading and signalling leave every call that committed, and the row, alone.
LEMMA AskingShows ==
  ASSUME RowInvariant, NEW r \in Requests, Call(r), ~Commit(r)
  PROVE  RowShows'
<1>1. /\ request[r] \in Calls /\ request \in [Requests -> Calls]
      /\ UNCHANGED <<gate, waiting, outcome, row>>
      /\ request' \in [Requests -> Calls]
      /\ \A s \in Requests : s # r => request'[s] = request[s]
  BY CallKeeps DEF RowInvariant, GateInv, TypeOK, Call, Signal, Read
<1>2. request[r].at # "accepted" /\ request'[r].at # "accepted"
  <2>1. CASE Signal(r)
    BY <1>1, <2>1 DEF Signal, Settle, Calls
  <2>2. ASSUME NEW via, NEW token, NEW action, Read(r, via, token, action)
        PROVE  request[r].at # "accepted" /\ request'[r].at # "accepted"
    BY <1>1, <2>2 DEF Read, Settle, Calls
  <2>3. QED
    BY <2>1, <2>2 DEF Call
<1>3. \A s \in Requests : request'[s].at = "accepted" \/ request[s].at = "accepted" =>
                            request'[s] = request[s]
  BY <1>1, <1>2
<1>4. QED
  BY <1>1, <1>3 DEF RowInvariant, RowShows

\* A commit writes the decision of its call over whatever the row holds.
LEMMA CommittingShows ==
  ASSUME RowInvariant, NEW r \in Requests, Commit(r) PROVE RowShows'
<1>1. /\ request[r] \in Calls /\ request \in [Requests -> Calls] /\ row \in Rows
      /\ request[r].at = "commit" /\ request[r].action \in Decisions
      /\ request[r].asked \in 1 .. row.token
      /\ UNCHANGED <<gate, waiting, outcome>>
  BY DEF RowInvariant, GateInv, TypeOK, CallInv, Commit
<1>2. "accepted" # "failed" /\ None \notin Decisions
  BY DEF None, Decisions
<1>3. CASE row' = [row EXCEPT !.status = Answer(r)] /\ Settle(r, "accepted")
  <2>1. /\ row'.status = request[r].action /\ row'.token = row.token
        /\ request'[r].at = "accepted" /\ request'[r].action = request[r].action
        /\ request'[r].asked = request[r].asked
        /\ \A s \in Requests : s # r => request'[s] = request[s]
    BY <1>1, <1>3 DEF Settle, Answer, Rows, Calls
  <2>2. row.token \in Nat
    BY <1>1 DEF Rows
  <2>3. QED
    BY <1>1, <1>2, <2>1, <2>2 DEF RowInvariant, RowShows
<1>4. CASE Settle(r, "failed") /\ row' = row
  <2>1. /\ request'[r].at = "failed"
        /\ \A s \in Requests : s # r => request'[s] = request[s]
    BY <1>1, <1>4 DEF Settle, Calls
  <2>2. \A s \in Requests : request'[s].at = "accepted" \/ request[s].at = "accepted" =>
                              request'[s] = request[s]
    BY <1>1, <1>2, <2>1
  <2>3. QED
    BY <1>1, <1>4, <2>2 DEF RowInvariant, RowShows
<1>5. QED
  BY <1>3, <1>4 DEF Commit

LEMMA RowInvariantStep == RowInvariant /\ [Next]_vars => RowInvariant'
<1> SUFFICES ASSUME RowInvariant, [Next]_vars PROVE RowInvariant'
  OBVIOUS
<1>1. GateInv'
  BY GateInvStep DEF RowInvariant
<1>2. CASE Expire
  <2>1. /\ UNCHANGED <<gate, waiting, outcome, request>>
        /\ row'.token = row.token /\ row'.status = row.status
    BY <1>2 DEF Expire, RowInvariant, GateInv, TypeOK, Rows
  <2>2. QED
    BY <1>1, <2>1 DEF RowInvariant, RowShows
<1>3. CASE UNCHANGED vars
  BY <1>1, <1>3 DEF RowInvariant, RowShows, vars
<1>4. CASE Run /\ ~Expire
  BY <1>1, <1>4, RegisteringShows, EndingShows DEF Run, RowInvariant
<1>5. ASSUME NEW r \in Requests, Call(r) PROVE RowInvariant'
  BY <1>1, <1>5, AskingShows, CommittingShows DEF Call, RowInvariant
<1>6. QED
  BY <1>2, <1>3, <1>4, <1>5 DEF Next

\* Of a gate that was decided, an answer was delivered for it and committed:
\* the row then holds a decision, and without a contradiction the same one.
LEMMA ShownIsExplained == RowInvariant => RowExplained
<1> SUFFICES ASSUME RowInvariant, Settled, row.token > 0,
                    outcome[row.token] \notin {"error", "timeout"},
                    ~ \E r \in Requests : request[r].at = "failed",
                    ~ \E r \in Requests : request[r].at = "accepted" /\ ~request[r].delivered,
                    ~ \E r, s \in Requests : request[r].action = "approved" /\ request[s].action = "rejected",
                    ~ \E r \in Requests : request[r].delivered /\ request[r].asked < row.token
             PROVE  row.status = outcome[row.token]
  BY DEF RowExplained
<1>1. /\ row.token \in 1 .. Gates /\ outcome[row.token] \in Outcomes
      /\ row \in Rows /\ request \in [Requests -> Calls] /\ ~waiting
  BY GatesAssumption DEF RowInvariant, GateInv, TypeOK, Rows, WaitInv, Settled
<1>2. outcome[row.token] \in Decisions
  BY <1>1 DEF RowInvariant, RowShows, Outcomes
<1>3. PICK r \in Requests : /\ request[r].delivered /\ request[r].action = outcome[row.token]
                            /\ request[r].asked \in 1 .. row.token
  BY <1>1, <1>2 DEF RowInvariant, GateInv, DecidedByAnAnswer
<1>4. request[r].asked = row.token
  BY <1>1, <1>3 DEF Rows
<1>5. request[r].at = "accepted"
  BY <1>3 DEF RowInvariant, GateInv, CallInv, Settled
<1>6. PICK s \in Requests : request[s].at = "accepted" /\ request[s].action = row.status
  BY <1>4, <1>5 DEF RowInvariant, RowShows
<1>7. row.status \in Decisions
  BY <1>4, <1>5 DEF RowInvariant, RowShows
<1>8. QED
  BY <1>2, <1>3, <1>6, <1>7 DEF Decisions

\* Whoever asks once everything has settled finds in the row what became of
\* the gate, but for the failures and contradictions RowExplained lists.
THEOREM RowsAreExplained == Spec => []RowExplained
<1>1. Init => RowInvariant
  BY GateInvInit, RowShowsInit DEF RowInvariant
<1>2. QED
  BY <1>1, RowInvariantStep, ShownIsExplained, PTL DEF Spec
=============================================================================
