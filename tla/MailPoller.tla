------------------------------ MODULE MailPoller ------------------------------
(***************************************************************************)
(* The poller of a workflow that is triggered by mail: how the requests on *)
(* the workflow start and stop it (imap_poller_service.py), its ticks      *)
(* (imap_polling_workflow.py), and the attempts of the activity that       *)
(* fetches new mail (imap_activity.py).                                    *)
(***************************************************************************)
EXTENDS WorkflowBook

CONSTANTS
  MaxEmails,    \* max_emails_per_poll
  MaxAttempts,  \* SOFT_RETRY
  Plans         \* who takes part: [ops, books, mails, faults]; the last two are bounds

ASSUME PollerAssumption == MaxEmails \in Nat \ {0} /\ MaxAttempts \in Nat \ {0}
ASSUME OpsAssumption == \A p \in Plans : \A o \in p.ops : \A r \in Requests : IsOp(o[r])

VARIABLES
  mails,     \* how many mails are still to come
  arrived,   \* mails in the mailbox: their uids are 1 .. arrived
  seen,      \* uids with the flag \Seen
  cursor,    \* imap:last_uid in Redis; 0 when there is none
  poller,    \* the cron workflow: whether it is there, asked to stop, and where it is
  attempt,   \* the attempt at work: its number, and what it has found
  late,      \* what given-up attempts have still to store; {} for one that has still to search
  rows,      \* uids that have a row of workflow_executions
  started,   \* uids whose run was started
  others,    \* pollers of workflows that requests created
  faults,    \* how many attempts, answers and calls may still be lost, and mails read elsewhere
  excused    \* uids passed over for a reason (history): a fault, a stop, the cap, or the
             \* first search, which is for unread mail only

mailVars == <<mails, arrived, seen, cursor, poller, attempt, late, rows, started, others, faults, excused>>
allVars == <<bookVars, mailVars>>

-----------------------------------------------------------------------------
Phases == {"rest", "fetch", "row", "run"}
Nothing == [at |-> "none", n |-> 0, found |-> {}]
Last(s) == CHOOSE x \in s : \A y \in s : y <= x
Next1(s) == CHOOSE x \in s : \A y \in s : x <= y

PollerInit ==
  /\ BookInit
  /\ \E p \in Plans :
       /\ op \in p.ops /\ mails = p.mails /\ faults = p.faults
       /\ \A w \in row : \E b \in p.books : b.row = w /\ b.versions = versions
  /\ \E up \in { (w.trigger = "imap_trigger" /\ w.active) : w \in row } :
       poller = [up |-> up, stop |-> FALSE, phase |-> "rest", batch |-> {}]
  /\ arrived = 0 /\ seen = {} /\ cursor = 0 /\ attempt = Nothing /\ late = {}
  /\ rows = {} /\ started = <<>> /\ others = {} /\ excused = {}

-----------------------------------------------------------------------------
(* sync_imap_poller and stop_imap_poller, called by the requests before    *)
(* their transaction commits.                                              *)

NoBook == UNCHANGED <<row, versions, made, grants, op, tx, runs, overlapped, withdrawn, unsaid>>
NoMail == UNCHANGED <<mails, arrived, seen, cursor, attempt, late, rows, started, excused>>
Fault == faults > 0 /\ faults' = faults - 1

Wants(r) == tx[r].mine.active /\ tx[r].mine.config.mailbox # None

\* The poller that is there is asked to stop; it is not waited for, and an error
\* of the call is swallowed.
Stop(r) ==
  /\ at[r] = "sync" /\ op[r].do \in {"update", "delete"}
  /\ \/ poller' = [poller EXCEPT !.stop = poller.up] /\ UNCHANGED faults
     \/ Fault /\ UNCHANGED poller
  /\ Goes(r, IF op[r].do = "delete" THEN "erase" ELSE IF Wants(r) THEN "start" ELSE "commit")
  /\ UNCHANGED others /\ NoBook /\ NoMail

\* A second workflow of the same id is refused, and with it the request.
StartPollerWhenGone(r) ==
  /\ at[r] = "start" /\ ~poller.up
  /\ poller' = [up |-> TRUE, stop |-> FALSE, phase |-> "rest", batch |-> {}]
  /\ Goes(r, "commit") /\ UNCHANGED <<row, versions, made, grants, op, runs, overlapped, withdrawn, unsaid, tx, others, faults>> /\ NoMail
StartPoller(r) ==
  /\ at[r] = "start"
  /\ IF poller.up
     THEN /\ Goes(r, "conflict") /\ tx' = [tx EXCEPT ![r] = NoTx] /\ UNCHANGED poller
     ELSE /\ Goes(r, "commit") /\ UNCHANGED tx
          /\ poller' = [up |-> TRUE, stop |-> FALSE, phase |-> "rest", batch |-> {}]
  /\ UNCHANGED <<row, versions, made, grants, op, runs, overlapped, withdrawn, unsaid, others, faults>> /\ NoMail

\* The poller of a workflow that is being created.
StartOther(r) ==
  /\ at[r] = "sync" /\ op[r].do = "create" /\ Goes(r, "commit")
  /\ others' = others \cup {r}
  /\ UNCHANGED <<poller, faults>> /\ NoBook /\ NoMail

-----------------------------------------------------------------------------
(* ImapPollingWorkflow.run.                                                *)

Cron == UNCHANGED <<bookVars, mails, arrived, others>>

MailArrives ==
  /\ mails > 0 /\ mails' = mails - 1 /\ arrived' = arrived + 1
  /\ UNCHANGED <<bookVars, seen, cursor, poller, attempt, late, rows, started, others, faults, excused>>

\* Somebody opens the mail in another client.
ReadElsewhere(u) ==
  /\ u \in (1 .. arrived) \ seen /\ Fault /\ seen' = seen \cup {u}
  /\ UNCHANGED <<cursor, poller, attempt, late, rows, started, excused>> /\ Cron

Tick ==
  /\ poller.up /\ poller.phase = "rest"
  /\ poller' = [poller EXCEPT !.phase = "fetch"]
  /\ attempt' = [at |-> "begun", n |-> 1, found |-> {}]
  /\ UNCHANGED <<seen, cursor, late, rows, started, faults, excused>> /\ Cron

\* The workflow ends, and the cron schedule begins it again.
Rests == [poller EXCEPT !.phase = "rest", !.batch = {}, !.stop = FALSE]

\* fetch_new_emails: the newest MaxEmails of those after the cursor, and
\* without a cursor of those that are unread.
AlreadyRead == IF cursor = 0 THEN seen ELSE {}
NewMailsSkipOne == { u \in 1 .. arrived : u > cursor + 1 } \ AlreadyRead
NewMails == { u \in 1 .. arrived : u > cursor } \ AlreadyRead
Newest(s) == { u \in s : Cardinality({ v \in s : v > u }) < MaxEmails }

Search ==
  /\ attempt.at = "begun"
  /\ attempt' = [attempt EXCEPT !.at = "found", !.found = Newest(NewMails)]
  /\ excused' = excused \cup AlreadyRead \cup (NewMails \ Newest(NewMails))
  /\ UNCHANGED <<seen, cursor, poller, late, rows, started, faults>> /\ Cron

\* A fetch of RFC822 sets the flag, as mark_as_read does once more.  A mail
\* whose fetch returns nothing is left out, and passed over if a later one is not.
Fetch ==
  /\ attempt.at = "found"
  /\ \E got \in SUBSET attempt.found :
       /\ IF got = attempt.found THEN UNCHANGED faults ELSE Fault
       /\ attempt' = [attempt EXCEPT !.at = "fetched", !.found = got]
       /\ seen' = seen \cup got
       /\ excused' = excused \cup { u \in attempt.found \ got : \E v \in got : u < v }
  /\ UNCHANGED <<cursor, poller, late, rows, started>> /\ Cron

\* The cursor is stored before the mails are handed over.
StoreCursor ==
  /\ attempt.at = "fetched" /\ attempt' = [attempt EXCEPT !.at = "stored"]
  /\ cursor' = IF attempt.found = {} THEN cursor ELSE Last(attempt.found)
  /\ UNCHANGED <<seen, poller, late, rows, started, faults, excused>> /\ Cron

HandOver ==
  /\ attempt.at = "stored" /\ attempt' = Nothing
  /\ poller' = IF attempt.found = {} THEN Rests ELSE [poller EXCEPT !.phase = "row", !.batch = attempt.found]
  /\ UNCHANGED <<seen, cursor, late, rows, started, faults, excused>> /\ Cron

\* An attempt is given up: it has died, maybe after it has fetched some of its
\* mails, or it is only late and will search or store its cursor after others.
\* What it had stored but not handed over is lost.
FetchedUpTo(u) == seen' = seen \cup { v \in attempt.found : v <= u }
GivenUp ==
  /\ late' = late
  /\ excused' = IF attempt.at = "stored" THEN excused \cup attempt.found ELSE excused
GivenUpLate ==
  \/ /\ attempt.at = "begun"
     /\ late' = late \cup {{}} /\ UNCHANGED excused
  \/ /\ attempt.at \in {"found", "fetched"}
     /\ \E got \in SUBSET attempt.found \ {{}} :
          /\ attempt.at = "fetched" => got = attempt.found
          /\ late' = late \cup {got}
     /\ excused' = excused \cup attempt.found

LoseAttempt ==
  /\ attempt.at # "none" /\ Fault
  /\ GivenUp \/ GivenUpLate
  /\ \E u \in 0 .. arrived : FetchedUpTo(u)
  /\ IF attempt.n < MaxAttempts
     THEN attempt' = [at |-> "begun", n |-> attempt.n + 1, found |-> {}] /\ UNCHANGED poller
     ELSE attempt' = Nothing /\ poller' = Rests
  /\ UNCHANGED <<cursor, rows, started>> /\ Cron

SearchLate ==
  /\ {} \in late /\ late' = (late \ {{}}) \cup ({Newest(NewMails)} \ {{}})
  /\ excused' = IF NewMails = {} THEN excused ELSE excused \cup AlreadyRead \cup NewMails
  /\ UNCHANGED <<seen, cursor, poller, attempt, rows, started, faults>> /\ Cron

StoreLate(found) ==
  /\ found \in late \ {{}} /\ late' = late \ {found}
  /\ cursor' = Last(found) /\ seen' = seen \cup found
  /\ UNCHANGED <<poller, attempt, rows, started, faults, excused>> /\ Cron

\* The cancellation arrives as an error of the fetch, which is answered like
\* any other: the run ends, and the schedule goes on.
FetchCancelled ==
  /\ poller.stop /\ poller.phase = "fetch"
  /\ GivenUp \/ GivenUpLate
  /\ \E u \in 0 .. arrived : FetchedUpTo(u)
  /\ attempt' = Nothing /\ poller' = Rests
  /\ UNCHANGED <<cursor, rows, started, faults>> /\ Cron

\* Per mail: create_execution_record, whose rows have unique workflow ids...
RecordTwice ==
  LET uid == Next1(poller.batch)
  IN /\ poller.phase = "row"
     /\ rows' = rows \cup {uid} /\ poller' = [poller EXCEPT !.phase = "run"]
     /\ UNCHANGED <<seen, cursor, attempt, late, started, faults, excused>> /\ Cron
Record ==
  LET uid == Next1(poller.batch)
  IN /\ poller.phase = "row"
     /\ IF uid \in rows
        THEN poller' = Rests /\ excused' = excused \cup poller.batch /\ UNCHANGED rows
        ELSE rows' = rows \cup {uid} /\ poller' = [poller EXCEPT !.phase = "run"] /\ UNCHANGED excused
     /\ UNCHANGED <<seen, cursor, attempt, late, started, faults>> /\ Cron

\* ... so an attempt whose answer was lost makes the next ones fail, and one
\* that never got through ends the run as well.
LoseRecord ==
  LET uid == Next1(poller.batch)
  IN /\ poller.phase = "row" /\ Fault
     /\ rows' \in {rows, rows \cup {uid}} /\ poller' = Rests
     /\ excused' = excused \cup poller.batch
     /\ UNCHANGED <<seen, cursor, attempt, late, started>> /\ Cron

\* ... and the run of the workflow.
StartRun ==
  LET uid == Next1(poller.batch) left == poller.batch \ {uid}
  IN /\ poller.phase = "run"
     /\ started' = Append(started, uid)
     /\ poller' = IF left = {} THEN Rests ELSE [poller EXCEPT !.phase = "row", !.batch = left]
     /\ UNCHANGED <<seen, cursor, attempt, late, rows, faults, excused>> /\ Cron

\* Here the cancellation ends the workflow, and the schedule with it.
LoopCancelled ==
  /\ poller.stop /\ poller.phase \in {"row", "run"}
  /\ poller' = [up |-> FALSE, stop |-> FALSE, phase |-> "rest", batch |-> {}]
  /\ excused' = excused \cup poller.batch
  /\ UNCHANGED <<seen, cursor, attempt, late, rows, started, faults>> /\ Cron

-----------------------------------------------------------------------------
Works(r) == Statement(r) /\ UNCHANGED mailVars
Tells(r) == Stop(r) \/ StartPoller(r) \/ StartOther(r)
Fetches == Search \/ Fetch \/ StoreCursor \/ HandOver
Answers == Record \/ StartRun

PollerNext ==
  \/ \E r \in Requests : Start(r) /\ UNCHANGED mailVars
  \/ \E r \in Requests : Works(r)
  \/ \E r \in Requests : (Fail(r) \/ Victim(r)) /\ UNCHANGED mailVars
  \/ \E x \in runs : Load(x) /\ UNCHANGED mailVars
  \/ \E r \in Requests : Tells(r)
  \/ MailArrives \/ (\E u \in 1 .. arrived : ReadElsewhere(u))
  \/ Tick \/ Fetches \/ LoseAttempt \/ SearchLate \/ (\E f \in late : StoreLate(f)) \/ FetchCancelled
  \/ Answers \/ LoseRecord \/ LoopCancelled

\* A request that has begun goes on, the database ends a deadlock, and the
\* schedule and the activities of Temporal are carried on.
PollerSpec ==
  /\ PollerInit /\ [][PollerNext]_allVars
  /\ \A r \in Requests : WF_allVars(Works(r) \/ Tells(r) \/ (Victim(r) /\ UNCHANGED mailVars))
  /\ WF_allVars(Tick \/ Fetches \/ Answers)

-----------------------------------------------------------------------------
\* The poller and its activity are where their code may be.
MailTypeOK ==
  /\ cursor \in 0 .. arrived /\ seen \subseteq 1 .. arrived
  /\ poller \in [up : BOOLEAN, stop : BOOLEAN, phase : Phases, batch : SUBSET (1 .. arrived)]
  /\ poller.phase \in {"row", "run"} <=> poller.batch # {}
  /\ poller.phase = "fetch" <=> attempt.at # "none"
  /\ attempt.n <= MaxAttempts /\ Cardinality(attempt.found) <= MaxEmails

\* One mail starts one run, and only after its row was written, though a late
\* attempt may move the cursor back and have mails fetched again
\* (fetch_new_emails, create_execution_record).
MailRunsOnce ==
  /\ \A i, j \in DOMAIN started : started[i] = started[j] => i = j
  /\ \A i \in DOMAIN started : started[i] \in rows

\* No mail the cursor has passed is forgotten: it was run, it is about to be,
\* or the poller passed over it for a fault, a stop, the cap of a poll, or
\* because it was read before there was a cursor (fetch_new_emails searches for
\* unread mail then, and stores the cursor before the mails are handed over).
NoMailIsForgotten ==
  \A u \in 1 .. cursor :
    \/ u \in { started[i] : i \in DOMAIN started } \cup poller.batch \cup excused
    \/ attempt.at = "stored" /\ u \in attempt.found

\* Every mail that has arrived gets a row in the end or was passed over for one
\* of these reasons, as long as there is a poller, whatever was asked of it
\* (ImapPollingWorkflow.run).
MailIsNoticed == []<>(poller.up => 1 .. arrived \subseteq rows \cup excused)

\* Every request that has begun comes to an end.
RequestsEnd == \A r \in Requests : AtWork(r) ~> at[r] \in Ended

\* What the polls of a mailbox keep through failures, late attempts, stops and
\* replacements of the poller: mails run once, and none is silently forgotten.
MailInvariant == MailTypeOK /\ MailRunsOnce /\ NoMailIsForgotten

\* imap_poller_service.py:43-53, "Start (or replace) the IMAP cron poller",
\* "idempotent replacement": a request never fails because there is a poller.
ReplacementsSucceed == \A r \in Requests : at[r] # "conflict"
=============================================================================
