--------------------------- MODULE MailPoller_proofs ---------------------------
(***************************************************************************)
(* Proofs about MailPoller and WorkflowBook, for any requests, definitions *)
(* and mails, and any number of failures.                                  *)
(*                                                                         *)
(* The mails come first.  What the cursor has passed is accounted for, and *)
(* so is what it may still be moved to: what an attempt has found, and     *)
(* what attempts that were given up will store late.                       *)
(*                                                                         *)
(* Then the workflow.  Two requests that are at work together are in the   *)
(* history of overlaps; a request says of the others only what holds       *)
(* unless they overlapped with it: that its number is beyond theirs, that  *)
(* the version it read is still current, that its shares are the row's.    *)
(***************************************************************************)
EXTENDS MailPoller, FiniteSetTheorems, WellFoundedInduction, TLAPS

Started == { started[i] : i \in DOMAIN started }
Coming == IF attempt.at = "stored" THEN attempt.found ELSE {}
Covered == Started \cup poller.batch \cup excused \cup Coming

\* Every mail up to the last of these is one of them, or accounted for.
Accounts(found, also) ==
  \A u \in 1 .. arrived : (\E v \in found : u <= v) => u \in also \cup Covered

Attempts == {"none", "begun", "found", "fetched", "stored"}

AttemptOK ==
  /\ attempt \in [at : Attempts, n : Nat, found : SUBSET (1 .. arrived)]
  /\ attempt.at \in {"none", "begun"} => attempt.found = {}
  /\ attempt.at \in {"found", "fetched"} => Accounts(attempt.found, attempt.found)

LateOK ==
  /\ late \subseteq SUBSET (1 .. arrived)
  /\ \A found \in late : Accounts(found, {})

RunOK ==
  /\ started \in Seq(Nat) /\ rows \subseteq 1 .. arrived
  /\ poller.phase = "run" => Next1(poller.batch) \in rows \ Started
  /\ ~poller.up => poller.phase = "rest"

MailIInv ==
  /\ arrived \in Nat
  /\ MailTypeOK
  /\ AttemptOK
  /\ LateOK
  /\ RunOK
  /\ MailRunsOnce
  /\ NoMailIsForgotten

-----------------------------------------------------------------------------
(* Sets of numbers.                                                        *)

LEMMA LeastNat ==
  ASSUME NEW T \in SUBSET Nat, T # {}
  PROVE  \E i \in T : \A j \in T : i <= j
<1> DEFINE R == OpToRel(<, Nat)
<1>1. IsWellFoundedOn(R, Nat)  BY NatLessThanWellFounded
<1>2. \A i, j \in Nat : i < j => <<i, j>> \in R  BY DEF OpToRel
<1> HIDE DEF R
<1>3. PICK i \in T : \A j \in T : <<j, i>> \notin R  BY <1>1, WFMin
<1>4. ASSUME NEW j \in T PROVE i <= j
  <2>1. i \in Nat /\ j \in Nat /\ ~(j < i)  BY <1>2, <1>3
  <2> QED  BY <2>1
<1> QED  BY <1>4

\* The first and the last of a set of mails.
LEMMA FirstAndLast ==
  ASSUME NEW n \in Nat, NEW T \in SUBSET (1 .. n), T # {}
  PROVE  /\ Next1(T) \in T /\ \A y \in T : Next1(T) <= y
         /\ Last(T) \in T /\ \A y \in T : y <= Last(T)
<1>1. \E x \in T : \A y \in T : x <= y
  <2>1. T \in SUBSET Nat  OBVIOUS
  <2> QED  BY <2>1, LeastNat
<1>2. \E x \in T : \A y \in T : y <= x
  <2> DEFINE Bounds == { c \in 1 .. n : \A y \in T : y <= c }
  <2>1. n \in Bounds /\ Bounds \in SUBSET Nat
    <3>1. PICK y \in T : TRUE  OBVIOUS
    <3>2. n \in 1 .. n  BY <3>1
    <3> QED  BY <3>2
  <2> HIDE DEF Bounds
  <2>2. PICK m \in Bounds : \A c \in Bounds : m <= c  BY <2>1, LeastNat
  <2>3. m \in 1 .. n /\ \A y \in T : y <= m  BY <2>2 DEF Bounds
  <2>4. m \in T
    <3> SUFFICES ASSUME m \notin T PROVE FALSE  OBVIOUS
    <3>1. \A y \in T : y \in 1 .. n /\ y <= m - 1  BY <2>3
    <3>4. PICK y \in T : TRUE  OBVIOUS
    <3>2. m - 1 \in 1 .. n  BY <2>3, <3>1, <3>4
    <3>3. m - 1 \in Bounds  BY <3>1, <3>2 DEF Bounds
    <3> QED  BY <2>2, <2>3, <3>3
  <2> QED  BY <2>3, <2>4
<1> QED  BY <1>1, <1>2 DEF Next1, Last

\* A poll takes no more mails than the cap: all but the first of them are
\* after the first, and of those the cap allows one fewer.
LEMMA NewestAreFew ==
  ASSUME NEW n \in Nat, NEW S \in SUBSET (1 .. n)
  PROVE  Cardinality(Newest(S)) <= MaxEmails
<1> DEFINE T == Newest(S)
<1>1. T \subseteq S /\ IsFiniteSet(S) /\ IsFiniteSet(T) /\ MaxEmails \in Nat \ {0}
  <2>1. IsFiniteSet(1 .. n)  BY FS_Interval
  <2> QED  BY <2>1, FS_Subset, PollerAssumption DEF Newest
<1>2. CASE T = {}  BY <1>1, <1>2, FS_EmptySet
<1>3. CASE T # {}
  <2> DEFINE m == Next1(T)
             above == { v \in S : v > m }
  <2> HIDE DEF T
  <2>1. m \in T /\ \A y \in T : m <= y  BY <1>1, <1>3, FirstAndLast
  <2>2. Cardinality(above) < MaxEmails  BY <2>1 DEF Newest, T
  <2>3. T \ {m} \subseteq above
    <3>1. ASSUME NEW v \in T \ {m} PROVE v > m
      <4>1. v \in 1 .. n /\ m \in 1 .. n  BY <1>1, <2>1
      <4>2. m <= v /\ v # m  BY <2>1
      <4> HIDE DEF m
      <4> QED  BY <4>1, <4>2
    <3> QED  BY <1>1, <3>1
  <2>4. IsFiniteSet(above)  BY <1>1, FS_Subset
  <2> HIDE DEF m, above
  <2>5. Cardinality(T \ {m}) <= Cardinality(above)  BY <2>3, <2>4, FS_Subset
  <2>6. /\ Cardinality(T \ {m}) = Cardinality(T) - 1
        /\ Cardinality(T) \in Nat /\ Cardinality(above) \in Nat
    BY <1>1, <2>1, <2>4, FS_RemoveElement, FS_CardinalityType
  <2> QED  BY <1>1, <2>2, <2>5, <2>6 DEF T
<1> QED  BY <1>2, <1>3

-----------------------------------------------------------------------------
(* The mails.                                                              *)

\* What is accounted for stays so while more is.
LEMMA AccountsGrow ==
  ASSUME arrived' = arrived, Covered \subseteq Covered', NEW found, NEW also, Accounts(found, also)
  PROVE  Accounts(found, also)'
  BY DEF Accounts

LEMMA MailUntouched ==
  ASSUME MailIInv, UNCHANGED mailVars
  PROVE  MailIInv'
<1>1. UNCHANGED <<arrived, seen, cursor, poller, attempt, late, rows, started, excused>>  BY DEF mailVars
<1>2. Covered' = Covered /\ Started' = Started  BY <1>1 DEF Covered, Coming, Started
<1>3. \A found, also : Accounts(found, also)' <=> Accounts(found, also)
  BY <1>1, <1>2 DEF Accounts
<1>4. AttemptOK' /\ LateOK'  BY <1>1, <1>3 DEF MailIInv, AttemptOK, LateOK, Accounts, Covered, Coming, Started
<1>5. RunOK'  BY <1>1, <1>2 DEF MailIInv, RunOK
<1> QED  BY <1>1, <1>4, <1>5 DEF MailIInv, MailTypeOK, MailRunsOnce, NoMailIsForgotten

\* Who stops or starts the poller forgets no mail.
LEMMA TellsStep ==
  ASSUME MailIInv, NEW r \in Requests, Tells(r)
  PROVE  MailIInv'
<1>1. UNCHANGED <<mails, arrived, seen, cursor, attempt, late, rows, started, excused>>
  BY DEF Tells, Stop, StartPoller, StartOther, NoMail
<1>2. /\ poller \in [up : BOOLEAN, stop : BOOLEAN, phase : Phases, batch : SUBSET (1 .. arrived)]
      /\ ~poller.up => poller.phase = "rest"
      /\ poller.phase \in {"row", "run"} <=> poller.batch # {}
  BY DEF MailIInv, MailTypeOK, RunOK
<1>3. /\ poller' \in [up : BOOLEAN, stop : BOOLEAN, phase : Phases, batch : SUBSET (1 .. arrived)]
      /\ poller'.phase = poller.phase /\ poller'.batch = poller.batch
      /\ ~poller'.up => poller'.phase = "rest"
  <2>1. CASE Stop(r)  BY <1>2, <2>1 DEF Stop
  <2>2. CASE StartPoller(r)
    <3>1. CASE poller.up  BY <1>2, <2>2, <3>1 DEF StartPoller
    <3>2. CASE ~poller.up
      <4>1. poller' = [up |-> TRUE, stop |-> FALSE, phase |-> "rest", batch |-> {}]
        BY <2>2, <3>2 DEF StartPoller
      <4> QED  BY <1>2, <3>2, <4>1 DEF Phases
    <3> QED  BY <3>1, <3>2
  <2>3. CASE StartOther(r)  BY <1>2, <2>3 DEF StartOther
  <2> QED  BY <2>1, <2>2, <2>3 DEF Tells
<1>4. Covered' = Covered /\ Started' = Started  BY <1>1, <1>3 DEF Covered, Coming, Started
<1>5. MailTypeOK'  BY <1>1, <1>3 DEF MailIInv, MailTypeOK
<1>6. AttemptOK' /\ LateOK'  BY <1>1, <1>4 DEF MailIInv, AttemptOK, LateOK, Accounts
<1>7. RunOK'  BY <1>1, <1>3, <1>4 DEF MailIInv, RunOK
<1> QED  BY <1>1, <1>3, <1>5, <1>6, <1>7 DEF MailIInv, MailRunsOnce, NoMailIsForgotten

LEMMA MailArrivesStep ==
  ASSUME MailIInv, MailArrives
  PROVE  MailIInv'
<1>1. /\ arrived' = arrived + 1 /\ arrived \in Nat
      /\ UNCHANGED <<seen, cursor, poller, attempt, late, rows, started, excused>>
  BY DEF MailArrives, MailIInv
<1>2. 1 .. arrived \subseteq 1 .. arrived' /\ 0 .. arrived \subseteq 0 .. arrived'  BY <1>1
<1>3. Covered' = Covered /\ Started' = Started  BY <1>1 DEF Covered, Coming, Started
<1>4. ASSUME NEW found \in SUBSET (1 .. arrived), NEW also, Accounts(found, also)
      PROVE  Accounts(found, also)'
  BY <1>1, <1>3, <1>4 DEF Accounts
<1>5. MailTypeOK'
  <2>1. cursor \in 0 .. arrived /\ seen \subseteq 1 .. arrived /\ poller \in [up : BOOLEAN, stop : BOOLEAN, phase : Phases, batch : SUBSET (1 .. arrived)]
    BY DEF MailIInv, MailTypeOK
  <2>2. SUBSET (1 .. arrived) \subseteq SUBSET (1 .. arrived')  BY <1>2
  <2>3. poller \in [up : BOOLEAN, stop : BOOLEAN, phase : Phases, batch : SUBSET (1 .. arrived')]
    BY <2>1, <2>2
  <2> QED  BY <1>1, <1>2, <2>1, <2>3 DEF MailIInv, MailTypeOK
<1>6. AttemptOK'
  <2>1. /\ attempt \in [at : Attempts, n : Nat, found : SUBSET (1 .. arrived)]
        /\ attempt.at \in {"none", "begun"} => attempt.found = {}
        /\ attempt.at \in {"found", "fetched"} => Accounts(attempt.found, attempt.found)
    BY DEF MailIInv, AttemptOK
  <2>2. attempt.at \in {"found", "fetched"} => Accounts(attempt.found, attempt.found)'
    BY <1>1, <1>3, <2>1 DEF Accounts
  <2>3. SUBSET (1 .. arrived) \subseteq SUBSET (1 .. arrived')  BY <1>2
  <2>4. attempt \in [at : Attempts, n : Nat, found : SUBSET (1 .. arrived')]
    BY <2>1, <2>3
  <2> QED  BY <1>1, <2>1, <2>2, <2>4 DEF AttemptOK
<1>7. LateOK'
  <2>1. late \subseteq SUBSET (1 .. arrived) /\ \A found \in late : Accounts(found, {})
    BY DEF MailIInv, LateOK
  <2>2. \A found \in late : Accounts(found, {})'  BY <1>4, <2>1
  <2> QED  BY <1>1, <1>2, <2>1, <2>2 DEF LateOK
<1>8. RunOK'
  BY <1>1, <1>2, <1>3 DEF MailIInv, RunOK
<1> QED  BY <1>1, <1>5, <1>6, <1>7, <1>8 DEF MailIInv, MailRunsOnce, NoMailIsForgotten

\* A step of the poller or of its activity: it has to say what it leaves of the
\* attempt, what it starts, and that nothing it has had goes unaccounted.
LEMMA PollerStep ==
  ASSUME MailIInv, arrived' = arrived, Covered \subseteq Covered',
         MailTypeOK', AttemptOK', RunOK', MailRunsOnce', NoMailIsForgotten',
         \A found \in late' : \/ found \in late
                              \/ found \in SUBSET (1 .. arrived) /\ Accounts(found, {})'
  PROVE  MailIInv'
<1>1. late \subseteq SUBSET (1 .. arrived) /\ \A found \in late : Accounts(found, {})
  BY DEF MailIInv, LateOK
<1>2. ASSUME NEW found \in late' PROVE found \in SUBSET (1 .. arrived) /\ Accounts(found, {})'
  BY <1>1, AccountsGrow
<1>3. LateOK'  BY <1>2 DEF LateOK
<1> QED  BY <1>3 DEF MailIInv

\* What the invariant says of the attempt and the poller, spelled out once.
LEMMA PollerFacts ==
  ASSUME MailIInv
  PROVE  /\ arrived \in Nat /\ cursor \in 0 .. arrived
         /\ seen \subseteq 1 .. arrived
         /\ poller \in [up : BOOLEAN, stop : BOOLEAN, phase : Phases, batch : SUBSET (1 .. arrived)]
         /\ poller.phase \in {"row", "run"} <=> poller.batch # {}
         /\ poller.phase = "fetch" <=> attempt.at # "none"
         /\ ~poller.up => poller.phase = "rest"
         /\ attempt \in [at : Attempts, n : Nat, found : SUBSET (1 .. arrived)]
         /\ attempt.n <= MaxAttempts /\ Cardinality(attempt.found) <= MaxEmails
         /\ attempt.at \in {"none", "begun"} => attempt.found = {}
         /\ started \in Seq(Nat) /\ rows \subseteq 1 .. arrived
         /\ Started \subseteq rows
         /\ \A u \in 1 .. cursor : u \in Covered
         /\ Cardinality({}) = 0 /\ MaxEmails \in Nat /\ MaxAttempts \in Nat \ {0}
         /\ Rests \in [up : BOOLEAN, stop : BOOLEAN, phase : Phases, batch : SUBSET (1 .. arrived)]
         /\ Rests.phase = "rest" /\ Rests.batch = {} /\ Rests.up = poller.up
<1>1. /\ arrived \in Nat /\ MailTypeOK /\ AttemptOK /\ RunOK /\ MailRunsOnce /\ NoMailIsForgotten
  BY DEF MailIInv
<1>2. Started \subseteq rows  BY <1>1 DEF MailRunsOnce, Started
<1>3. /\ cursor \in 0 .. arrived /\ seen \subseteq 1 .. arrived
      /\ poller \in [up : BOOLEAN, stop : BOOLEAN, phase : Phases, batch : SUBSET (1 .. arrived)]
      /\ poller.phase \in {"row", "run"} <=> poller.batch # {}
      /\ poller.phase = "fetch" <=> attempt.at # "none"
      /\ attempt.n <= MaxAttempts /\ Cardinality(attempt.found) <= MaxEmails
  BY <1>1 DEF MailTypeOK
<1>4. /\ Rests \in [up : BOOLEAN, stop : BOOLEAN, phase : Phases, batch : SUBSET (1 .. arrived)]
      /\ Rests.phase = "rest" /\ Rests.batch = {} /\ Rests.up = poller.up
  BY <1>3 DEF Rests, Phases
<1>5. /\ attempt \in [at : Attempts, n : Nat, found : SUBSET (1 .. arrived)]
      /\ attempt.at \in {"none", "begun"} => attempt.found = {}
  BY <1>1 DEF AttemptOK
<1>6. \A u \in 1 .. cursor : u \in Covered
  BY <1>1 DEF NoMailIsForgotten, Covered, Coming, Started
<1> QED  BY <1>1, <1>2, <1>3, <1>4, <1>5, <1>6, PollerAssumption, FS_EmptySet DEF RunOK

LEMMA ReadElsewhereStep ==
  ASSUME MailIInv, NEW u \in 1 .. arrived, ReadElsewhere(u)
  PROVE  MailIInv'
<1>1. /\ seen' = seen \cup {u}
      /\ UNCHANGED <<arrived, cursor, poller, attempt, late, rows, started, excused>>
  BY DEF ReadElsewhere, Cron
<1>2. Covered' = Covered /\ Started' = Started  BY <1>1 DEF Covered, Coming, Started
<1>3. MailTypeOK'  BY <1>1, PollerFacts DEF MailIInv, MailTypeOK
<1>4. AttemptOK' /\ LateOK'  BY <1>1, <1>2 DEF MailIInv, AttemptOK, LateOK, Accounts
<1>5. RunOK'  BY <1>1, <1>2 DEF MailIInv, RunOK
<1> QED  BY <1>1, <1>3, <1>4, <1>5 DEF MailIInv, MailRunsOnce, NoMailIsForgotten

LEMMA TickStep ==
  ASSUME MailIInv, Tick
  PROVE  MailIInv'
<1>1. /\ poller.up /\ poller.phase = "rest"
      /\ poller' = [poller EXCEPT !.phase = "fetch"]
      /\ attempt' = [at |-> "begun", n |-> 1, found |-> {}]
      /\ UNCHANGED <<arrived, seen, cursor, late, rows, started, excused>>
  BY DEF Tick, Cron
<1>2. /\ poller'.phase = "fetch" /\ poller'.batch = poller.batch /\ poller.batch = {} /\ poller'.up
      /\ poller' \in [up : BOOLEAN, stop : BOOLEAN, phase : Phases, batch : SUBSET (1 .. arrived)]
      /\ attempt'.at = "begun" /\ attempt'.n = 1 /\ attempt'.found = {} /\ attempt.at = "none"
      /\ attempt' \in [at : Attempts, n : Nat, found : SUBSET (1 .. arrived)]
  BY <1>1, PollerFacts DEF Phases, Attempts
<1>3. Covered' = Covered /\ Started' = Started  BY <1>1, <1>2 DEF Covered, Coming, Started
<1>4. MailTypeOK'
  <2>1. 1 <= MaxAttempts /\ Cardinality({}) <= MaxEmails  BY PollerFacts
  <2> QED  BY <1>1, <1>2, <2>1, PollerFacts DEF MailTypeOK
<1>5. AttemptOK'  BY <1>1, <1>2 DEF AttemptOK
<1>6. RunOK'  BY <1>1, <1>2, <1>3, PollerFacts DEF RunOK
<1>7. MailRunsOnce'  BY <1>1 DEF MailIInv, MailRunsOnce
<1>8. NoMailIsForgotten'
  BY <1>1, <1>3, PollerFacts DEF NoMailIsForgotten, Covered, Coming, Started
<1> QED  BY <1>1, <1>3, <1>4, <1>5, <1>6, <1>7, <1>8, PollerStep

\* A search finds the newest of the mails after the cursor: those before it
\* are accounted for, and those it leaves out, for the cap or because they were
\* read already, are excused.
LEMMA SearchStep ==
  ASSUME MailIInv, Search
  PROVE  MailIInv'
<1> DEFINE found == Newest(NewMails)
<1>1. /\ attempt.at = "begun" /\ attempt' = [attempt EXCEPT !.at = "found", !.found = found]
      /\ excused' = excused \cup AlreadyRead \cup (NewMails \ found)
      /\ UNCHANGED <<arrived, seen, cursor, poller, late, rows, started>>
  BY DEF Search, Cron
<1>2. NewMails \in SUBSET (1 .. arrived) /\ found \subseteq NewMails  BY DEF NewMails, Newest
<1>3. Cardinality(found) <= MaxEmails  BY <1>2, NewestAreFew, PollerFacts
<1> HIDE DEF found
<1>4. /\ attempt'.at = "found" /\ attempt'.n = attempt.n /\ attempt'.found = found
      /\ attempt' \in [at : Attempts, n : Nat, found : SUBSET (1 .. arrived)]
  BY <1>1, <1>2, PollerFacts DEF Attempts
<1>5. Covered' = Covered \cup AlreadyRead \cup (NewMails \ found) /\ Started' = Started
  BY <1>1 DEF Covered, Coming, Started
<1>6. \A u \in 1 .. arrived : u \in found \cup Covered'
  <2>1. ASSUME NEW u \in 1 .. arrived PROVE u \in 1 .. cursor \/ u \in NewMails \/ u \in AlreadyRead
    BY PollerFacts DEF NewMails
  <2> QED  BY <1>1, <1>5, <2>1, PollerFacts
<1>7. MailTypeOK'  BY <1>1, <1>3, <1>4, PollerFacts DEF MailTypeOK
<1>8. AttemptOK'  BY <1>1, <1>4, <1>6 DEF AttemptOK, Accounts
<1>9. RunOK'  BY <1>1, <1>5, PollerFacts DEF MailIInv, RunOK
<1>10. MailRunsOnce'  BY <1>1 DEF MailIInv, MailRunsOnce
<1>11. NoMailIsForgotten'  BY <1>1, <1>5, PollerFacts DEF NoMailIsForgotten, Covered, Coming, Started
<1> QED  BY <1>1, <1>5, <1>7, <1>8, <1>9, <1>10, <1>11, PollerStep

\* Of what it has fetched, the last is the last that it passes.
LEMMA FetchStep ==
  ASSUME MailIInv, Fetch
  PROVE  MailIInv'
<1>1. PICK got \in SUBSET attempt.found :
        /\ attempt.at = "found" /\ attempt' = [attempt EXCEPT !.at = "fetched", !.found = got]
        /\ seen' = seen \cup got
        /\ excused' = excused \cup { u \in attempt.found \ got : \E v \in got : u < v }
        /\ UNCHANGED <<arrived, cursor, poller, late, rows, started>>
  BY DEF Fetch, Cron
<1>2. attempt.found \in SUBSET (1 .. arrived) /\ got \in SUBSET (1 .. arrived)
  BY <1>1, PollerFacts
<1>3. Cardinality(got) <= MaxEmails
  <2>1. IsFiniteSet(attempt.found)
    <3>1. IsFiniteSet(1 .. arrived)  BY PollerFacts, FS_Interval
    <3> QED  BY <1>2, <3>1, FS_Subset
  <2>2. Cardinality(got) <= Cardinality(attempt.found)  BY <2>1, <1>1, FS_Subset
  <2>3. IsFiniteSet(got)  BY <2>1, <1>1, FS_Subset
  <2> QED  BY <2>1, <2>2, <2>3, PollerFacts, FS_CardinalityType
<1>4. /\ attempt'.at = "fetched" /\ attempt'.n = attempt.n /\ attempt'.found = got
      /\ attempt' \in [at : Attempts, n : Nat, found : SUBSET (1 .. arrived)]
  BY <1>1, <1>2, PollerFacts DEF Attempts
<1>5. /\ Started' = Started /\ Covered \subseteq Covered'
      /\ { u \in attempt.found \ got : \E v \in got : u < v } \subseteq Covered'
  BY <1>1 DEF Covered, Coming, Started
<1>6. Accounts(got, got)'
  <2>1. Accounts(attempt.found, attempt.found)  BY <1>1 DEF MailIInv, AttemptOK
  <2>2. ASSUME NEW u \in 1 .. arrived, NEW v \in got, u <= v PROVE u \in got \cup Covered'
    <3>1. u \in attempt.found \cup Covered  BY <1>1, <2>1, <2>2 DEF Accounts
    <3>2. CASE u \in attempt.found \ got
      <4>1. u < v  BY <1>2, <2>2, <3>2, PollerFacts
      <4> QED  BY <1>5, <2>2, <3>2, <4>1
    <3> QED  BY <1>5, <3>1, <3>2
  <2> QED  BY <1>1, <2>2 DEF Accounts
<1>7. MailTypeOK'  BY <1>1, <1>2, <1>3, <1>4, PollerFacts DEF MailTypeOK
<1>8. AttemptOK'  BY <1>1, <1>4, <1>6 DEF AttemptOK
<1>9. RunOK'  BY <1>1, <1>5, PollerFacts DEF MailIInv, RunOK
<1>10. MailRunsOnce'  BY <1>1 DEF MailIInv, MailRunsOnce
<1>11. NoMailIsForgotten'  BY <1>1, <1>5, PollerFacts DEF NoMailIsForgotten, Covered, Coming, Started
<1> QED  BY <1>1, <1>5, <1>7, <1>8, <1>9, <1>10, <1>11, PollerStep

LEMMA StoreCursorStep ==
  ASSUME MailIInv, StoreCursor
  PROVE  MailIInv'
<1>1. /\ attempt.at = "fetched" /\ attempt' = [attempt EXCEPT !.at = "stored"]
      /\ cursor' = IF attempt.found = {} THEN cursor ELSE Last(attempt.found)
      /\ UNCHANGED <<arrived, seen, poller, late, rows, started, excused>>
  BY DEF StoreCursor, Cron
<1>2. /\ attempt'.at = "stored" /\ attempt'.n = attempt.n /\ attempt'.found = attempt.found
      /\ attempt' \in [at : Attempts, n : Nat, found : SUBSET (1 .. arrived)]
      /\ attempt.found \in SUBSET (1 .. arrived)
  BY <1>1, PollerFacts DEF Attempts
<1>3. Started' = Started /\ Covered' = Covered \cup attempt.found  BY <1>1, <1>2 DEF Covered, Coming, Started
<1>4. cursor' \in 0 .. arrived /\ \A u \in 1 .. cursor' : u \in attempt.found \cup Covered
  <2>1. CASE attempt.found = {}  BY <1>1, <2>1, PollerFacts
  <2>2. CASE attempt.found # {}
    <3>1. Last(attempt.found) \in attempt.found  BY <1>2, <2>2, FirstAndLast, PollerFacts
    <3>2. cursor' = Last(attempt.found)  BY <1>1, <2>2
    <3>3. Accounts(attempt.found, attempt.found)  BY <1>1 DEF MailIInv, AttemptOK
    <3>4. cursor' \in 1 .. arrived  BY <1>2, <3>1, <3>2
    <3>5. \A u \in 1 .. cursor' : u \in 1 .. arrived /\ u <= Last(attempt.found)
      BY <3>2, <3>4, PollerFacts
    <3> QED  BY <3>1, <3>3, <3>4, <3>5, PollerFacts DEF Accounts
  <2> QED  BY <2>1, <2>2
<1>5. MailTypeOK'  BY <1>1, <1>2, <1>4, PollerFacts DEF MailTypeOK
<1>6. AttemptOK'  BY <1>1, <1>2 DEF AttemptOK
<1>7. RunOK'  BY <1>1, <1>3 DEF MailIInv, RunOK
<1>8. MailRunsOnce'  BY <1>1 DEF MailIInv, MailRunsOnce
<1>9. NoMailIsForgotten'  BY <1>1, <1>2, <1>3, <1>4 DEF NoMailIsForgotten, Covered, Coming, Started
<1> QED  BY <1>1, <1>3, <1>5, <1>6, <1>7, <1>8, <1>9, PollerStep

LEMMA HandOverStep ==
  ASSUME MailIInv, HandOver
  PROVE  MailIInv'
<1>1. /\ attempt.at = "stored" /\ attempt' = Nothing
      /\ poller' = IF attempt.found = {} THEN Rests ELSE [poller EXCEPT !.phase = "row", !.batch = attempt.found]
      /\ UNCHANGED <<arrived, seen, cursor, late, rows, started, excused>>
  BY DEF HandOver, Cron
<1>2. poller.phase = "fetch" /\ poller.batch = {} /\ poller.up /\ attempt.found \in SUBSET (1 .. arrived)
  BY <1>1, PollerFacts DEF Phases
<1>3. /\ poller' \in [up : BOOLEAN, stop : BOOLEAN, phase : Phases, batch : SUBSET (1 .. arrived)]
      /\ poller'.batch = attempt.found /\ poller'.up
      /\ poller'.phase = IF attempt.found = {} THEN "rest" ELSE "row"
  <2>1. CASE attempt.found = {}  BY <1>1, <1>2, <2>1, PollerFacts
  <2>2. CASE attempt.found # {}  BY <1>1, <1>2, <2>2, PollerFacts DEF Phases
  <2> QED  BY <2>1, <2>2
<1>4. attempt'.at = "none" /\ attempt'.n = 0 /\ attempt'.found = {}  BY <1>1 DEF Nothing
<1>5. Covered' = Covered /\ Started' = Started  BY <1>1, <1>2, <1>3, <1>4 DEF Covered, Coming, Started
<1>6. MailTypeOK'  BY <1>1, <1>3, <1>4, PollerFacts DEF MailTypeOK
<1>7. AttemptOK'  BY <1>1, <1>4 DEF AttemptOK, Attempts, Nothing
<1>8. RunOK'  BY <1>1, <1>3, <1>5, PollerFacts DEF RunOK
<1>9. MailRunsOnce'  BY <1>1 DEF MailIInv, MailRunsOnce
<1>10. NoMailIsForgotten'  BY <1>1, <1>5, PollerFacts DEF NoMailIsForgotten, Covered, Coming, Started
<1> QED  BY <1>1, <1>5, <1>6, <1>7, <1>8, <1>9, <1>10, PollerStep

\* An attempt that is given up leaves what it has stored excused, and what it
\* may still store late as well.
LEMMA GivenUpAccounts ==
  ASSUME MailIInv, GivenUp \/ GivenUpLate, arrived' = arrived, started' = started,
         poller'.batch = {}, poller.batch = {}, attempt.at # "none", attempt'.at \in {"none", "begun"}
  PROVE  /\ Covered \subseteq Covered' /\ Started' = Started
         /\ \A found \in late' : \/ found \in late
                                 \/ found \in SUBSET (1 .. arrived) /\ Accounts(found, {})'
         /\ \A u \in 1 .. cursor : u \in Covered'
<1>1. /\ excused \subseteq excused' /\ Started' = Started
      /\ Covered' = Started \cup excused' /\ Covered \subseteq Covered'
      /\ attempt.at # "stored" => Covered = Started \cup excused
  BY DEF GivenUp, GivenUpLate, Covered, Coming, Started
<1>2. CASE GivenUp
  BY <1>1, <1>2, PollerFacts DEF GivenUp
<1>3. CASE attempt.at = "begun" /\ late' = late \cup {{}} /\ UNCHANGED excused
  <2>1. Accounts({}, {})'  BY DEF Accounts
  <2> QED  BY <1>1, <1>3, <2>1, PollerFacts
<1>4. ASSUME attempt.at \in {"found", "fetched"}, NEW got \in SUBSET attempt.found,
             late' = late \cup {got}, excused' = excused \cup attempt.found
      PROVE  /\ \A found \in late' : found \in late \/ (found \in SUBSET (1 .. arrived) /\ Accounts(found, {})')
             /\ \A u \in 1 .. cursor : u \in Covered'
  <2>1. attempt.found \in SUBSET (1 .. arrived) /\ Accounts(attempt.found, attempt.found)
    BY <1>4, PollerFacts DEF MailIInv, AttemptOK
  <2>2. \A u \in 1 .. arrived : (\E v \in attempt.found : u <= v) => u \in Covered'
    BY <1>1, <1>4, <2>1 DEF Accounts
  <2>3. Accounts(got, {})'
    BY <1>4, <2>2 DEF Accounts
  <2> QED  BY <1>1, <1>4, <2>1, <2>3, PollerFacts
<1> QED  BY <1>1, <1>2, <1>3, <1>4 DEF GivenUpLate

\* What was fetched of it before sets flags, and nothing else.
LEMMA FlagsSet ==
  ASSUME MailIInv, \E u \in 0 .. arrived : FetchedUpTo(u)
  PROVE  seen' \subseteq 1 .. arrived
  BY PollerFacts DEF FetchedUpTo

LEMMA LoseAttemptStep ==
  ASSUME MailIInv, LoseAttempt
  PROVE  MailIInv'
<1>1. /\ attempt.at # "none" /\ (GivenUp \/ GivenUpLate) /\ \E u \in 0 .. arrived : FetchedUpTo(u)
      /\ UNCHANGED <<arrived, cursor, rows, started>>
  BY DEF LoseAttempt, Cron
<1>2. poller.phase = "fetch" /\ poller.batch = {} /\ poller.up
  BY <1>1, PollerFacts
<1>3. /\ poller' \in [up : BOOLEAN, stop : BOOLEAN, phase : Phases, batch : SUBSET (1 .. arrived)]
      /\ poller'.batch = {} /\ poller'.up
      /\ poller'.phase = IF attempt'.at = "none" THEN "rest" ELSE "fetch"
      /\ attempt' \in [at : Attempts, n : Nat, found : SUBSET (1 .. arrived)]
      /\ attempt'.at \in {"none", "begun"} /\ attempt'.found = {} /\ attempt'.n <= MaxAttempts
  <2>1. CASE attempt.n < MaxAttempts
    <3>1. attempt' = [at |-> "begun", n |-> attempt.n + 1, found |-> {}] /\ poller' = poller
      BY <2>1 DEF LoseAttempt
    <3>2. attempt.n \in Nat /\ attempt.n + 1 \in Nat /\ attempt.n + 1 <= MaxAttempts
      BY <2>1, PollerFacts
    <3> QED  BY <1>2, <3>1, <3>2, PollerFacts DEF Attempts
  <2>2. CASE ~(attempt.n < MaxAttempts)
    <3>1. attempt' = Nothing /\ poller' = Rests  BY <2>2 DEF LoseAttempt
    <3>2. MaxAttempts \in Nat  BY PollerAssumption
    <3>3. /\ attempt'.at = "none" /\ attempt'.found = {} /\ attempt'.n <= MaxAttempts
          /\ attempt' \in [at : Attempts, n : Nat, found : SUBSET (1 .. arrived)]
      BY <3>1, <3>2 DEF Nothing, Attempts
    <3>4. /\ poller'.batch = {} /\ poller'.up /\ poller'.phase = "rest"
          /\ poller' \in [up : BOOLEAN, stop : BOOLEAN, phase : Phases, batch : SUBSET (1 .. arrived)]
      BY <1>2, <3>1, PollerFacts
    <3> QED  BY <3>3, <3>4
  <2> QED  BY <2>1, <2>2
<1>4. /\ Covered \subseteq Covered' /\ Started' = Started
      /\ \A found \in late' : \/ found \in late
                              \/ found \in SUBSET (1 .. arrived) /\ Accounts(found, {})'
      /\ \A u \in 1 .. cursor : u \in Covered'
  BY <1>1, <1>2, <1>3, GivenUpAccounts
<1>5. MailTypeOK'  BY <1>1, <1>3, PollerFacts, FlagsSet DEF MailTypeOK
<1>6. AttemptOK'  BY <1>1, <1>3 DEF AttemptOK
<1>7. RunOK'  BY <1>1, <1>3, <1>4, PollerFacts DEF RunOK
<1>8. MailRunsOnce'  BY <1>1 DEF MailIInv, MailRunsOnce
<1>9. NoMailIsForgotten'  BY <1>1, <1>4 DEF NoMailIsForgotten, Covered, Coming, Started
<1> QED  BY <1>1, <1>4, <1>5, <1>6, <1>7, <1>8, <1>9, PollerStep

LEMMA FetchCancelledStep ==
  ASSUME MailIInv, FetchCancelled
  PROVE  MailIInv'
<1>1. /\ poller.phase = "fetch" /\ (GivenUp \/ GivenUpLate) /\ \E u \in 0 .. arrived : FetchedUpTo(u)
      /\ attempt' = Nothing /\ poller' = Rests
      /\ UNCHANGED <<arrived, cursor, rows, started>>
  BY DEF FetchCancelled, Cron
<1>2. attempt.at # "none" /\ poller.batch = {} /\ poller.up
  BY <1>1, PollerFacts
<1>3. /\ poller'.batch = {} /\ poller'.up /\ poller'.phase = "rest"
      /\ attempt'.at = "none" /\ attempt'.n = 0 /\ attempt'.found = {}
  BY <1>1, <1>2, PollerFacts DEF Nothing
<1>4. /\ Covered \subseteq Covered' /\ Started' = Started
      /\ \A found \in late' : \/ found \in late
                              \/ found \in SUBSET (1 .. arrived) /\ Accounts(found, {})'
      /\ \A u \in 1 .. cursor : u \in Covered'
  BY <1>1, <1>2, <1>3, GivenUpAccounts
<1>5. MailTypeOK'  BY <1>1, <1>3, PollerFacts, FlagsSet DEF MailTypeOK
<1>6. AttemptOK'  BY <1>1, <1>3 DEF AttemptOK, Attempts, Nothing
<1>7. RunOK'  BY <1>1, <1>3, <1>4, PollerFacts DEF RunOK
<1>8. MailRunsOnce'  BY <1>1 DEF MailIInv, MailRunsOnce
<1>9. NoMailIsForgotten'  BY <1>1, <1>4 DEF NoMailIsForgotten, Covered, Coming, Started
<1> QED  BY <1>1, <1>4, <1>5, <1>6, <1>7, <1>8, <1>9, PollerStep

\* A late attempt may have to search first: what is then ahead is excused.
LEMMA SearchLateStep ==
  ASSUME MailIInv, SearchLate
  PROVE  MailIInv'
<1> DEFINE found == Newest(NewMails)
<1>1. /\ late' = (late \ {{}}) \cup ({found} \ {{}})
      /\ excused' = IF NewMails = {} THEN excused ELSE excused \cup AlreadyRead \cup NewMails
      /\ UNCHANGED <<arrived, seen, cursor, poller, attempt, rows, started>>
  BY DEF SearchLate, Cron
<1>2. NewMails \in SUBSET (1 .. arrived) /\ found \subseteq NewMails  BY DEF NewMails, Newest
<1> HIDE DEF found
<1>3. Covered \subseteq Covered' /\ Started' = Started  BY <1>1 DEF Covered, Coming, Started
<1>4. found # {} => \A u \in 1 .. arrived : u \in Covered'
  <2>1. ASSUME NEW u \in 1 .. arrived PROVE u \in 1 .. cursor \/ u \in NewMails \/ u \in AlreadyRead
    BY PollerFacts DEF NewMails
  <2> QED  BY <1>1, <1>2, <1>3, <2>1, PollerFacts DEF Covered
<1>5. ASSUME NEW f \in late' PROVE f \in late \/ (f \in SUBSET (1 .. arrived) /\ Accounts(f, {})')
  <2>1. f \in late \/ (f = found /\ found # {})  BY <1>1
  <2>2. CASE f = found /\ found # {}  BY <1>1, <1>2, <1>4, <2>2 DEF Accounts
  <2> QED  BY <2>1, <2>2
<1>6. MailTypeOK'  BY <1>1, PollerFacts DEF MailIInv, MailTypeOK
<1>7. AttemptOK'  BY <1>1, <1>3, AccountsGrow DEF MailIInv, AttemptOK
<1>8. RunOK'  BY <1>1, <1>3 DEF MailIInv, RunOK
<1>9. MailRunsOnce'  BY <1>1 DEF MailIInv, MailRunsOnce
<1>10. NoMailIsForgotten'
  <2>1. \A u \in 1 .. cursor : u \in Covered'  BY <1>3, PollerFacts
  <2> QED  BY <1>1, <2>1 DEF NoMailIsForgotten, Covered, Coming, Started
<1> QED  BY <1>1, <1>3, <1>5, <1>6, <1>7, <1>8, <1>9, <1>10, PollerStep

\* A late attempt moves the cursor to where all that is before is accounted
\* for, be it forward or back.
LEMMA StoreLateStep ==
  ASSUME MailIInv, NEW found \in late, StoreLate(found)
  PROVE  MailIInv'
<1>1. /\ late' = late \ {found} /\ cursor' = Last(found)
      /\ found # {} /\ seen' = seen \cup found
      /\ UNCHANGED <<arrived, poller, attempt, rows, started, excused>>
  BY DEF StoreLate, Cron
<1>2. found \in SUBSET (1 .. arrived) /\ found # {} /\ Accounts(found, {})
  BY <1>1 DEF MailIInv, LateOK
<1>3. Covered' = Covered /\ Started' = Started  BY <1>1 DEF Covered, Coming, Started
<1>4. cursor' \in 1 .. arrived /\ cursor' \in found  BY <1>1, <1>2, FirstAndLast, PollerFacts
<1>5. \A u \in 1 .. cursor' : u \in Covered
  <2>1. ASSUME NEW u \in 1 .. cursor' PROVE u \in 1 .. arrived /\ u <= cursor'
    BY <1>4, PollerFacts
  <2> QED  BY <1>2, <1>4, <2>1 DEF Accounts
<1>6. MailTypeOK'
  <2>1. cursor' \in 0 .. arrived
    <3>1. arrived \in Nat  BY PollerFacts
    <3> QED  BY <1>4, <3>1
  <2>2. seen' \subseteq 1 .. arrived
    <3>1. seen \subseteq 1 .. arrived  BY PollerFacts
    <3> QED  BY <1>1, <1>2, <3>1
  <2> QED  BY <1>1, <2>1, <2>2 DEF MailIInv, MailTypeOK
<1>7. AttemptOK'  BY <1>1, <1>3 DEF MailIInv, AttemptOK, Accounts
<1>8. RunOK'  BY <1>1, <1>3 DEF MailIInv, RunOK
<1>9. MailRunsOnce'  BY <1>1 DEF MailIInv, MailRunsOnce
<1>10. NoMailIsForgotten'  BY <1>1, <1>3, <1>5 DEF NoMailIsForgotten, Covered, Coming, Started
<1> QED  BY <1>1, <1>3, <1>6, <1>7, <1>8, <1>9, <1>10, PollerStep

-----------------------------------------------------------------------------
\* A poller that is handing its mails over, and one that ends its run there.
LEMMA BatchFacts ==
  ASSUME MailIInv, poller.phase \in {"row", "run"}
  PROVE  /\ attempt.at = "none" /\ attempt.found = {} /\ poller.up
         /\ poller.batch \in SUBSET (1 .. arrived) /\ poller.batch # {}
         /\ Next1(poller.batch) \in poller.batch /\ Next1(poller.batch) \in 1 .. arrived
<1>1. /\ attempt.at = "none" /\ attempt.found = {} /\ poller.up
      /\ poller.batch \in SUBSET (1 .. arrived) /\ poller.batch # {} /\ arrived \in Nat
  BY PollerFacts
<1> QED  BY <1>1, FirstAndLast

LEMMA BatchDropped ==
  ASSUME MailIInv, poller.phase \in {"row", "run"},
         poller'.phase = "rest", poller'.batch = {},
         poller' \in [up : BOOLEAN, stop : BOOLEAN, phase : Phases, batch : SUBSET (1 .. arrived)],
         excused' = excused \cup poller.batch,
         rows \subseteq rows', rows' \subseteq 1 .. arrived,
         UNCHANGED <<arrived, seen, cursor, attempt, late, started>>
  PROVE  MailIInv'
<1>1. Covered' = Covered /\ Started' = Started  BY DEF Covered, Coming, Started
<1>2. MailTypeOK'  BY BatchFacts, PollerFacts DEF MailTypeOK
<1>3. AttemptOK'  BY <1>1, BatchFacts DEF MailIInv, AttemptOK
<1>4. RunOK'  BY <1>1, PollerFacts DEF RunOK
<1>5. MailRunsOnce'  BY DEF MailIInv, MailRunsOnce
<1>6. NoMailIsForgotten'  BY <1>1, BatchFacts, PollerFacts DEF NoMailIsForgotten, Covered, Coming, Started
<1> QED  BY <1>1, <1>2, <1>3, <1>4, <1>5, <1>6, PollerStep

LEMMA RecordStep ==
  ASSUME MailIInv, Record
  PROVE  MailIInv'
<1> DEFINE uid == Next1(poller.batch)
<1>1. poller.phase = "row" /\ UNCHANGED <<arrived, seen, cursor, attempt, late, started>>
  BY DEF Record, Cron
<1>2. CASE uid \in rows /\ poller' = Rests /\ excused' = excused \cup poller.batch /\ rows' = rows
  <2>1. /\ poller'.phase = "rest" /\ poller'.batch = {}
        /\ poller' \in [up : BOOLEAN, stop : BOOLEAN, phase : Phases, batch : SUBSET (1 .. arrived)]
        /\ rows \subseteq 1 .. arrived
    BY <1>2, PollerFacts
  <2> QED  BY <1>1, <1>2, <2>1, BatchDropped
<1>3. CASE /\ uid \notin rows /\ rows' = rows \cup {uid} /\ poller' = [poller EXCEPT !.phase = "run"]
           /\ excused' = excused
  <2>1. /\ poller'.phase = "run" /\ poller'.batch = poller.batch /\ poller'.up
        /\ poller' \in [up : BOOLEAN, stop : BOOLEAN, phase : Phases, batch : SUBSET (1 .. arrived)]
    BY <1>1, <1>3, BatchFacts, PollerFacts DEF Phases
  <2>2. Covered' = Covered /\ Started' = Started  BY <1>1, <1>3, <2>1 DEF Covered, Coming, Started
  <2>3. uid \notin Started /\ uid \in 1 .. arrived  BY <1>1, <1>3, BatchFacts, PollerFacts
  <2>4. MailTypeOK'  BY <1>1, <2>1, BatchFacts, PollerFacts DEF MailTypeOK
  <2>5. AttemptOK'  BY <1>1, <2>2, BatchFacts DEF MailIInv, AttemptOK
  <2>6. Next1(poller'.batch) = uid  BY <2>1
  <2>7. RunOK'
    <3> HIDE DEF uid
    <3> QED  BY <1>1, <1>3, <2>1, <2>2, <2>3, <2>6, PollerFacts DEF RunOK
  <2>8. MailRunsOnce'  BY <1>1, <1>3 DEF MailIInv, MailRunsOnce
  <2>9. NoMailIsForgotten'
    BY <1>1, <2>2, BatchFacts, PollerFacts DEF NoMailIsForgotten, Covered, Coming, Started
  <2> QED  BY <1>1, <2>2, <2>4, <2>5, <2>7, <2>8, <2>9, PollerStep
<1> QED  BY <1>2, <1>3 DEF Record

LEMMA LoseRecordStep ==
  ASSUME MailIInv, LoseRecord
  PROVE  MailIInv'
<1>1. /\ poller.phase = "row" /\ UNCHANGED <<arrived, seen, cursor, attempt, late, started>>
      /\ rows' \in {rows, rows \cup {Next1(poller.batch)}} /\ poller' = Rests
      /\ excused' = excused \cup poller.batch
  BY DEF LoseRecord, Cron
<1>2. /\ poller'.phase = "rest" /\ poller'.batch = {}
      /\ poller' \in [up : BOOLEAN, stop : BOOLEAN, phase : Phases, batch : SUBSET (1 .. arrived)]
  BY <1>1, PollerFacts
<1>3. rows \subseteq rows' /\ rows' \subseteq 1 .. arrived
  BY <1>1, BatchFacts, PollerFacts
<1> QED  BY <1>1, <1>2, <1>3, BatchDropped

LEMMA LoopCancelledStep ==
  ASSUME MailIInv, LoopCancelled
  PROVE  MailIInv'
<1>1. /\ poller.phase \in {"row", "run"} /\ UNCHANGED <<arrived, seen, cursor, attempt, late, rows, started>>
      /\ poller' = [up |-> FALSE, stop |-> FALSE, phase |-> "rest", batch |-> {}]
      /\ excused' = excused \cup poller.batch
  BY DEF LoopCancelled, Cron
<1>2. /\ poller'.phase = "rest" /\ poller'.batch = {}
      /\ poller' \in [up : BOOLEAN, stop : BOOLEAN, phase : Phases, batch : SUBSET (1 .. arrived)]
  BY <1>1 DEF Phases
<1> QED  BY <1>1, <1>2, BatchDropped, PollerFacts

\* The first mail of the batch was recorded and is run: it was not before.
LEMMA StartRunStep ==
  ASSUME MailIInv, StartRun
  PROVE  MailIInv'
<1> DEFINE uid == Next1(poller.batch)
           left == poller.batch \ {uid}
<1>1. /\ poller.phase = "run" /\ started' = Append(started, uid)
      /\ poller' = IF left = {} THEN Rests ELSE [poller EXCEPT !.phase = "row", !.batch = left]
      /\ UNCHANGED <<arrived, seen, cursor, attempt, late, rows, excused>>
  BY DEF StartRun, Cron
<1>2. uid \in poller.batch /\ uid \in 1 .. arrived /\ uid \in rows /\ uid \notin Started
  BY <1>1, BatchFacts DEF MailIInv, RunOK
<1> HIDE DEF uid
<1>3. /\ poller'.batch = left /\ poller'.up
      /\ poller'.phase = IF left = {} THEN "rest" ELSE "row"
      /\ poller' \in [up : BOOLEAN, stop : BOOLEAN, phase : Phases, batch : SUBSET (1 .. arrived)]
  <2>1. poller.up  BY <1>1, BatchFacts
  <2>2. CASE left = {}  BY <1>1, <2>1, <2>2, PollerFacts
  <2>3. CASE left # {}  BY <1>1, <2>1, <2>3, PollerFacts DEF Phases
  <2> QED  BY <2>2, <2>3
<1>4. /\ started \in Seq(Nat) /\ uid \in Nat /\ started' \in Seq(Nat)
      /\ DOMAIN started = 1 .. Len(started) /\ Len(started) \in Nat
      /\ DOMAIN started' = 1 .. Len(started) + 1
      /\ \A i \in 1 .. Len(started) : started'[i] = started[i]
      /\ started'[Len(started) + 1] = uid
  BY <1>1, <1>2, PollerFacts
<1>5. Started' = Started \cup {uid}
  <2>1. ASSUME NEW x \in Started' PROVE x \in Started \cup {uid}
    <3>1. PICK i \in 1 .. Len(started) + 1 : x = started'[i]  BY <1>4 DEF Started
    <3>2. CASE i = Len(started) + 1  BY <1>4, <3>1, <3>2
    <3>3. CASE i \in 1 .. Len(started)  BY <1>4, <3>1, <3>3 DEF Started
    <3> QED  BY <1>4, <3>2, <3>3
  <2>2. ASSUME NEW x \in Started PROVE x \in Started'
    <3>1. PICK i \in 1 .. Len(started) : x = started[i]  BY <1>4 DEF Started
    <3>2. i \in 1 .. Len(started) + 1  BY <1>4, <3>1
    <3> QED  BY <1>4, <3>1, <3>2 DEF Started
  <2>3. uid \in Started'
    <3>1. Len(started) + 1 \in 1 .. Len(started) + 1  BY <1>4
    <3> QED  BY <1>4, <3>1 DEF Started
  <2> QED  BY <2>1, <2>2, <2>3
<1>6. Covered' = Covered  BY <1>1, <1>2, <1>3, <1>5 DEF Covered, Coming
<1>7. MailTypeOK'  BY <1>1, <1>3, BatchFacts, PollerFacts DEF MailTypeOK
<1>8. AttemptOK'  BY <1>1, <1>6, BatchFacts DEF MailIInv, AttemptOK
<1>9. RunOK'  BY <1>1, <1>3, <1>4, PollerFacts DEF RunOK
<1>10. MailRunsOnce'
  <2>1. ASSUME NEW i \in 1 .. Len(started) + 1, NEW j \in 1 .. Len(started) + 1, started'[i] = started'[j]
        PROVE  i = j
    <3>1. \A k \in 1 .. Len(started) : started[k] # uid  BY <1>2, <1>4 DEF Started
    <3>2. CASE i = Len(started) + 1 \/ j = Len(started) + 1  BY <1>4, <2>1, <3>1, <3>2
    <3>3. CASE i \in 1 .. Len(started) /\ j \in 1 .. Len(started)
      BY <1>4, <2>1, <3>3 DEF MailIInv, MailRunsOnce
    <3> QED  BY <1>4, <3>2, <3>3
  <2>2. \A i \in DOMAIN started' : started'[i] \in rows'
    BY <1>1, <1>2, <1>5, PollerFacts DEF Started
  <2> QED  BY <1>4, <2>1, <2>2 DEF MailRunsOnce
<1>11. NoMailIsForgotten'
  BY <1>1, <1>6, BatchFacts, PollerFacts DEF NoMailIsForgotten, Covered, Coming, Started
<1> QED  BY <1>1, <1>6, <1>7, <1>8, <1>9, <1>10, <1>11, PollerStep

LEMMA MailStarts ==
  ASSUME PollerInit
  PROVE  MailIInv
<1>1. PICK up \in BOOLEAN : poller = [up |-> up, stop |-> FALSE, phase |-> "rest", batch |-> {}]
  BY DEF PollerInit
<1>2. /\ arrived = 0 /\ seen = {} /\ cursor = 0 /\ attempt = Nothing /\ late = {}
      /\ rows = {} /\ started = <<>> /\ excused = {}
  BY DEF PollerInit
<1>3. MailTypeOK
  BY <1>1, <1>2, PollerAssumption, FS_EmptySet DEF MailTypeOK, Nothing, Phases
<1>4. AttemptOK /\ LateOK  BY <1>2 DEF AttemptOK, Attempts, LateOK, Nothing
<1>5. RunOK  BY <1>1, <1>2 DEF RunOK
<1>6. MailRunsOnce /\ NoMailIsForgotten  BY <1>2 DEF MailRunsOnce, NoMailIsForgotten
<1> QED  BY <1>2, <1>3, <1>4, <1>5, <1>6 DEF MailIInv

LEMMA MailStep ==
  ASSUME MailIInv, [PollerNext]_allVars
  PROVE  MailIInv'
<1>1. ASSUME UNCHANGED mailVars PROVE MailIInv'  BY <1>1, MailUntouched
<1>2. ASSUME Fetches PROVE MailIInv'  BY <1>2, SearchStep, FetchStep, StoreCursorStep, HandOverStep DEF Fetches
<1>3. ASSUME Answers PROVE MailIInv'  BY <1>3, RecordStep, StartRunStep DEF Answers
<1>4. ASSUME NEW r \in Requests, Works(r) PROVE UNCHANGED mailVars  BY <1>4 DEF Works
<1>5. UNCHANGED allVars => UNCHANGED mailVars  BY DEF allVars
<1> QED
  BY <1>1, <1>2, <1>3, <1>4, <1>5, TellsStep, MailArrivesStep, ReadElsewhereStep, TickStep, LoseAttemptStep,
     SearchLateStep, StoreLateStep,
     FetchCancelledStep, LoseRecordStep, LoopCancelledStep DEF PollerNext

\* Whatever becomes of the attempts at fetching mail, and however often the
\* poller is stopped, replaced or left without an answer: a mail is run once
\* and only after its row is written, and none that the cursor has passed is
\* silently forgotten (fetch_new_emails, ImapPollingWorkflow.run).
THEOREM MailIsKept == PollerSpec => []MailInvariant
<1>1. PollerInit => MailIInv  BY MailStarts
<1>2. MailIInv /\ [PollerNext]_allVars => MailIInv'  BY MailStep
<1>3. MailIInv => MailInvariant  BY DEF MailIInv, MailInvariant
<1> QED  BY <1>1, <1>2, <1>3, PTL DEF PollerSpec

-----------------------------------------------------------------------------
(* The workflow, its versions and its shares.                              *)

Fields == {"read", "mine", "num", "archived", "new", "gone", "locks"}
Columns == {"definition", "trigger", "config", "active", "pointer", "shared"}
NewRows == [id : Requests, scope : Scopes, mandated : BOOLEAN, trigger : Triggers]
Shares(r) == op[r].do \in {"share", "unshare"}
Creates(r) == op[r].do \in {"create", "import"}

\* Where a request that does this may be while it is at work.
Way(do) ==
  CASE do = "update" -> {"flush", "sync", "start", "commit"}
    [] do \in {"share", "unshare"} -> {"flush", "grant", "commit"}
    [] do = "publish" -> {"number", "archive", "insert", "point", "commit"}
    [] do = "rollback" -> {"flush", "number", "archive", "insert", "point", "commit"}
    [] do = "delete" -> {"sync", "erase", "detach", "commit"}
    [] do = "create" -> {"keep", "sync", "commit"}
    [] do \in {"execute", "webhook", "import"} -> {"commit"}
    [] OTHER -> {}

\* A session differs from what it read only where its request may change
\* something, and what it read to be current is still a version.
Copy(r) ==
  /\ tx[r].read \in Rows /\ tx[r].mine \in Rows
  /\ \A c \in Columns \ Touches(r) : tx[r].mine[c] = tx[r].read[c]
  /\ tx[r].read.pointer # None => \E v \in versions : v.id = tx[r].read.pointer

\* How far a publication has come: what it archives, and the version it adds.
Publication(r) ==
  /\ at[r] \in {"flush", "number", "archive"} => tx[r].archived = {}
  /\ at[r] \in {"insert", "point", "commit"} => tx[r].archived = {tx[r].read.pointer} \ {None}
  /\ at[r] \in {"flush", "number", "archive", "insert"} => tx[r].new = {}
  /\ at[r] \in {"point", "commit"} =>
       \E v \in Versions : tx[r].new = {v} /\ v.id = r /\ v.status = "active" /\ v.num = tx[r].num
  /\ at[r] = "commit" => tx[r].mine.pointer = r

\* A workflow that is being created, until it is committed.
Adding(r) == \E w \in NewRows : tx[r].new = {w} /\ w.id = r

Session(r) ==
  /\ at[r] \in {"idle"} \cup Ended \cup Way(op[r].do)
  /\ DOMAIN tx[r] = Fields
  /\ ~AtWork(r) => tx[r] = NoTx
  /\ ~Publishes(r) => tx[r].archived = {}
  /\ ~Publishes(r) /\ ~Creates(r) => tx[r].new = {}
  /\ AtWork(r) /\ Reads(r) => Copy(r)
  /\ AtWork(r) /\ Publishes(r) => Publication(r)
  /\ AtWork(r) /\ Creates(r) => Adding(r) \/ (at[r] # "keep" /\ tx[r].new = {})

\* What a request holds when it comes to need more.
HoldsBefore(r) ==
  /\ op[r].do \in {"update", "share", "unshare"} /\ at[r] = "flush" => tx[r].locks = {}
  /\ op[r].do = "publish" /\ at[r] \in {"number", "archive"} => tx[r].locks = {}
  /\ op[r].do = "publish" /\ at[r] \in {"insert", "point"} => tx[r].locks \subseteq Ids \cup {"key"}

\* The number a publication has drawn is beyond all that were drawn before it,
\* and the others are of publications that were at work with it.
Numbered(r) ==
  Publishes(r) /\ at[r] \in {"archive", "insert", "point", "commit"} =>
    /\ tx[r].num \in Nat
    /\ \A v \in versions : v.num < tx[r].num \/ {r, v.id} \in overlapped

NoRivals == \A p \in overlapped : \E r \in p : ~Publishes(r)
ReadsCurrent(r) ==
  NoRivals /\ AtWork(r) /\ Publishes(r) => \A w \in row : w.pointer = tx[r].read.pointer

NoOtherShares == \A p \in overlapped : \E r \in p : op[r].do \notin {"share", "unshare"}
SharesCurrent(r) ==
  NoOtherShares /\ AtWork(r) /\ Shares(r) =>
    /\ \A w \in row : w.shared = tx[r].read.shared
    /\ tx[r].mine.shared = IF op[r].do = "share" THEN tx[r].read.shared \cup {op[r].company}
                                                 ELSE tx[r].read.shared \ {op[r].company}
    /\ at[r] = "commit" => IF op[r].do = "share" THEN op[r].company \notin withdrawn
                                                  ELSE op[r].company \in unsaid \/ op[r].company \notin grants

\* Whoever claims the trigger of a workflow that is being created was at work
\* with the request that creates it.
ClaimsOverlap(r) ==
  AtWork(r) /\ Creates(r) =>
    \A w \in tx[r].new : \A i \in DOMAIN made :
      made[i].mandated /\ made[i].trigger = w.trigger /\ made[i].scope \in Wider(w.scope) => {made[i].id, r} \in overlapped

Together == \A r, s \in Requests : r # s /\ AtWork(r) /\ AtWork(s) => {r, s} \in overlapped

VersionsOK ==
  /\ versions \subseteq Versions
  /\ \E b \in Nat : \A v \in versions : v.num <= b
  /\ \A u, v \in versions : u.id = v.id => u = v
  /\ \A r \in Requests : (\E v \in versions : v.id = r) => at[r] = "done"

RowIsOne ==
  /\ row = {} \/ \E w \in Rows : row = {w}
  /\ \A w \in row : w.pointer # None => \E v \in versions : v.id = w.pointer

RunsOK ==
  \A x \in runs :
    /\ DOMAIN x = {"id", "version", "loaded", "checked"}
    /\ x.version # None => \E v \in versions : v.id = x.version /\ v.definition = x.checked

Tables ==
  /\ DOMAIN at = Requests /\ DOMAIN tx = Requests
  /\ \A r \in Requests : IsOp(op[r])
  /\ grants \subseteq Companies /\ made \in Seq(NewRows)
  /\ VersionsOK /\ RowIsOne /\ RunsOK /\ Together

OfRequest(r) ==
  /\ Session(r) /\ HoldsBefore(r) /\ Numbered(r)
  /\ ReadsCurrent(r) /\ SharesCurrent(r) /\ ClaimsOverlap(r)

BookIInv ==
  /\ Tables
  /\ \A r \in Requests : OfRequest(r)
  /\ VersionsAreInOrder
  /\ RunsWhatWasChecked
  /\ WithdrawnIsOut
  /\ MandatesAreHonoured

-----------------------------------------------------------------------------
LEMMA RowOfColumns ==
  ASSUME NEW f, DOMAIN f = Columns, f = [c \in Columns |-> f[c]],
         f["definition"] \in Contents, f["trigger"] \in Triggers, f["config"] \in Config,
         f["active"] \in BOOLEAN, f["pointer"] \in Ids \cup {None}, f["shared"] \in SUBSET Companies
  PROVE  f \in Rows
BY DEF Rows, Columns

LEMMA RowColumns ==
  ASSUME NEW w \in Rows
  PROVE  /\ DOMAIN w = Columns
         /\ w["definition"] \in Contents /\ w["trigger"] \in Triggers /\ w["config"] \in Config
         /\ w["active"] \in BOOLEAN /\ w["pointer"] \in Ids \cup {None} /\ w["shared"] \in SUBSET Companies
BY DEF Rows, Columns
LEMMA RowIs ==
  ASSUME RowIsOne, row # {}
  PROVE  row = {Row} /\ Row \in Rows /\ (Row.pointer # None => \E v \in versions : v.id = Row.pointer)
<1>1. PICK w \in Rows : row = {w}  BY DEF RowIsOne
<1>2. Row = w  BY <1>1 DEF Row
<1> QED  BY <1>1, <1>2 DEF RowIsOne

\* Places, and what requests that do one thing have in common.
LEMMA TouchesColumns ==
  ASSUME NEW r \in Requests, IsOp(op[r])
  PROVE  Touches(r) \subseteq Columns
<1>1. op[r].do = "update" => DOMAIN op[r].set \subseteq Columns  BY DEF IsOp, Editable, Columns
<1> QED  BY <1>1 DEF Touches, Columns

LEMMA WrittenTouches ==
  ASSUME NEW r \in Requests, Copy(r)
  PROVE  Written(r) \subseteq Touches(r) /\ Written(r) \subseteq Columns
<1>1. DOMAIN tx[r].mine = Columns  BY RowColumns DEF Copy
<1> QED  BY <1>1 DEF Written, Copy

-----------------------------------------------------------------------------
(* The beginning of a request.                                             *)

LEMMA EditedRow ==
  ASSUME NEW r \in Requests, IsOp(op[r]), op[r].do = "update", Row \in Rows
  PROVE  Edited(r) \in Rows /\ \A c \in Columns \ Touches(r) : Edited(r)[c] = Row[c]
<1> DEFINE set == op[r].set
           given == [c \in DOMAIN Row |-> IF c \in DOMAIN set THEN set[c] ELSE Row[c]]
<1>1. /\ DOMAIN set \subseteq {"definition", "trigger", "config", "active"}
      /\ "definition" \in DOMAIN set => set["definition"] \in Contents
      /\ "trigger" \in DOMAIN set => set["trigger"] \in Triggers
      /\ "config" \in DOMAIN set => set["config"] \in Config
      /\ "active" \in DOMAIN set => set["active"] \in BOOLEAN
  BY DEF IsOp, Editable
<1>2. /\ DOMAIN Row = Columns
      /\ Row["definition"] \in Contents /\ Row["trigger"] \in Triggers /\ Row["config"] \in Config
      /\ Row["active"] \in BOOLEAN /\ Row["pointer"] \in Ids \cup {None} /\ Row["shared"] \in SUBSET Companies
  BY RowColumns
<1>3. given \in Rows
  <2>1. DOMAIN given = Columns /\ given = [c \in Columns |-> given[c]]  BY <1>2
  <2>2. \A c \in Columns : given[c] = IF c \in DOMAIN set THEN set[c] ELSE Row[c]  BY <1>2
  <2> HIDE DEF given
  <2>3. /\ given["definition"] \in Contents /\ given["trigger"] \in Triggers /\ given["config"] \in Config
        /\ given["active"] \in BOOLEAN /\ given["pointer"] \in Ids \cup {None} /\ given["shared"] \in SUBSET Companies
    BY <1>1, <1>2, <2>2 DEF Columns
  <2> QED  BY <2>1, <2>3, RowOfColumns
<1>4. \A c \in Columns : c \notin DOMAIN set => given[c] = Row[c]  BY <1>2
<1>5. Edited(r) = IF "definition" \in DOMAIN set
                  THEN [given EXCEPT !.config = Lifted(given.definition, given.config)] ELSE given
  BY DEF Edited
<1> HIDE DEF given
<1>6. Lifted(given.definition, given.config) \in Config
  BY <1>3 DEF Lifted, Rows, Config
<1>7. CASE "definition" \in DOMAIN set
  <2>1. Edited(r) \in Rows  BY <1>3, <1>5, <1>6, <1>7 DEF Rows
  <2>2. \A c \in Columns : c # "config" => Edited(r)[c] = given[c]
    BY <1>3, <1>5, <1>7, RowColumns
  <2>3. Touches(r) = DOMAIN set \cup {"config"}  BY <1>7 DEF Touches
  <2> QED  BY <1>4, <2>1, <2>2, <2>3
<1>8. CASE "definition" \notin DOMAIN set
  <2>1. Touches(r) = DOMAIN set  BY <1>8 DEF Touches
  <2> QED  BY <1>3, <1>4, <1>5, <1>8, <2>1
<1> QED  BY <1>7, <1>8

\* Its own copy, for each of the requests that take one.
Taken(r) ==
  \E mine \in Rows, to \in Way(op[r].do) \cap {"flush", "number", "sync", "erase"} :
    /\ Takes(r, mine, to) /\ row # {} /\ Reads(r) /\ ~Creates(r)
    /\ \A c \in Columns \ Touches(r) : mine[c] = Row[c]
    /\ Shares(r) => mine.shared = IF op[r].do = "share" THEN Row.shared \cup {op[r].company}
                                                        ELSE Row.shared \ {op[r].company}

Added(r) ==
  \E w \in NewRows, to \in Way(op[r].do) :
    /\ Creates(r) /\ ~Reads(r) /\ w.id = r /\ ~Claimed(r, w)
    /\ tx' = [tx EXCEPT ![r] = [NoTx EXCEPT !.new = {w}]] /\ Goes(r, to) /\ UNCHANGED <<runs, grants>>

LEMMA StartCases ==
  ASSUME Tables, NEW r \in Requests, Start(r)
  PROVE  /\ Begins(r)
         /\ Refuse(r) \/ Taken(r) \/ Added(r)
              \/ (op[r].do \in {"execute", "webhook"} /\ row # {} /\ Runs(r, "commit"))
<1> USE DEF Tables
<1>1. IsOp(op[r]) /\ RowIsOne  OBVIOUS
<1>2. ASSUME row # {} PROVE Row \in Rows  BY <1>1, <1>2, RowIs
<1>3. CASE Update(r)
  <2>1. Begins(r) /\ op[r].do = "update"  BY <1>3 DEF Update
  <2>2. CASE Takes(r, Edited(r), "flush") /\ row # {}
    <3>1. "flush" \in Way(op[r].do) \cap {"flush", "number", "sync", "erase"}  BY <2>1 DEF Way
    <3>2. Reads(r) /\ ~Creates(r) /\ ~Shares(r)  BY <2>1 DEF Reads, Creates, Shares
    <3>3. Edited(r) \in Rows /\ \A c \in Columns \ Touches(r) : Edited(r)[c] = Row[c]
      BY <1>1, <1>2, <2>1, <2>2, EditedRow
    <3> QED  BY <2>1, <2>2, <3>1, <3>2, <3>3 DEF Taken
  <2> QED  BY <1>3, <2>1, <2>2 DEF Update
<1>4. CASE Share(r)
  <2>1. Begins(r) /\ op[r].do \in {"share", "unshare"} /\ op[r].company \in Companies
    BY <1>1, <1>4 DEF Share, IsOp
  <2> DEFINE mine == [Row EXCEPT !.shared = IF op[r].do = "share" THEN @ \cup {op[r].company} ELSE @ \ {op[r].company}]
  <2>2. CASE Takes(r, mine, "flush") /\ row # {}
    <3>1. "flush" \in Way(op[r].do) \cap {"flush", "number", "sync", "erase"}  BY <2>1 DEF Way
    <3>2. Reads(r) /\ ~Creates(r) /\ Touches(r) = {"shared"}  BY <2>1 DEF Reads, Creates, Touches
    <3>3. mine \in Rows  BY <1>2, <2>1, <2>2 DEF Rows
    <3>4. \A c \in Columns \ {"shared"} : mine[c] = Row[c]  BY <1>2, <2>2, RowColumns
    <3>5. mine.shared = IF op[r].do = "share" THEN Row.shared \cup {op[r].company}
                                             ELSE Row.shared \ {op[r].company}
      BY <1>2, <2>2 DEF Rows
    <3> HIDE DEF mine
    <3> QED  BY <2>1, <2>2, <3>1, <3>2, <3>3, <3>4, <3>5 DEF Taken
  <2> QED  BY <1>4, <2>1, <2>2 DEF Share
<1>5. CASE Publish(r)
  <2>1. Begins(r) /\ op[r].do = "publish"  BY <1>5 DEF Publish
  <2>2. CASE Takes(r, Row, "number") /\ row # {}
    <3>1. "number" \in Way(op[r].do) \cap {"flush", "number", "sync", "erase"}  BY <2>1 DEF Way
    <3>2. Reads(r) /\ ~Creates(r) /\ ~Shares(r)  BY <2>1 DEF Reads, Creates, Shares
    <3> QED  BY <1>2, <2>1, <2>2, <3>1, <3>2 DEF Taken
  <2> QED  BY <1>5, <2>1, <2>2 DEF Publish
<1>6. CASE Rollback(r)
  <2>1. Begins(r) /\ op[r].do = "rollback"  BY <1>6 DEF Rollback
  <2>2. ASSUME NEW v \in versions, Takes(r, Restored(v), "flush"), row # {}
        PROVE  Taken(r)
    <3>1. "flush" \in Way(op[r].do) \cap {"flush", "number", "sync", "erase"}  BY <2>1 DEF Way
    <3>2. /\ Reads(r) /\ ~Creates(r) /\ ~Shares(r)
          /\ Touches(r) = {"definition", "trigger", "config", "pointer"}
      BY <2>1 DEF Reads, Creates, Shares, Touches
    <3>3. v \in Versions /\ Row \in Rows  BY <1>2, <2>2 DEF VersionsOK
    <3>4. Restored(v) \in Rows  BY <3>3 DEF Restored, Rows, Versions
    <3>5. \A c \in Columns : c \notin {"definition", "trigger", "config"} => Restored(v)[c] = Row[c]
      BY <3>3, RowColumns DEF Restored
    <3> QED  BY <2>2, <3>1, <3>2, <3>4, <3>5 DEF Taken
  <2> QED  BY <1>6, <2>1, <2>2 DEF Rollback
<1>7. CASE Delete(r)
  <2>1. Begins(r) /\ op[r].do = "delete"  BY <1>7 DEF Delete
  <2>2. ASSUME NEW to \in {"sync", "erase"}, Takes(r, Row, to), row # {}
        PROVE  Taken(r)
    <3>1. to \in Way(op[r].do) \cap {"flush", "number", "sync", "erase"}  BY <2>1 DEF Way
    <3>2. Reads(r) /\ ~Creates(r) /\ ~Shares(r)  BY <2>1 DEF Reads, Creates, Shares
    <3> QED  BY <1>2, <2>2, <3>1, <3>2 DEF Taken
  <2> QED  BY <1>7, <2>1, <2>2 DEF Delete
<1>8. CASE Execute(r)
  <2>1. Begins(r) /\ op[r].do = "execute"  BY <1>8 DEF Execute
  <2> QED  BY <1>8, <2>1 DEF Execute, Reaches
<1>9. CASE Webhook(r)
  <2>1. Begins(r) /\ op[r].do = "webhook"  BY <1>9 DEF Webhook
  <2> QED  BY <1>9, <2>1 DEF Webhook
<1>10. ASSUME NEW trigger \in Triggers, NEW to \in Way(op[r].do), Creates(r), Adds(r, NewRow(r, trigger), to)
       PROVE  Refuse(r) \/ Added(r)
  <2>1. NewRow(r, trigger) \in NewRows /\ NewRow(r, trigger).id = r
    BY <1>1, <1>10 DEF NewRow, NewRows, IsOp, Creates
  <2>2. ~Reads(r)  BY <1>10 DEF Reads, Creates
  <2> QED  BY <1>10, <2>1, <2>2 DEF Adds, Added
<1>11. CASE Create(r)
  <2>1. Begins(r) /\ op[r].do = "create" /\ Creates(r)  BY <1>11 DEF Create, Creates
  <2>2. Derived(r) \in Triggers  BY <1>1, <2>1 DEF IsOp, Derived, Triggers
  <2>3. "keep" \in Way(op[r].do) /\ AfterCreate(r) \in Way(op[r].do)  BY <2>1 DEF Way, AfterCreate
  <2> QED  BY <1>10, <1>11, <2>1, <2>2, <2>3 DEF Create
<1>12. CASE Import(r)
  <2>1. Begins(r) /\ op[r].do = "import" /\ Creates(r) /\ op[r].trigger \in Triggers
    BY <1>1, <1>12 DEF Import, Creates, IsOp
  <2>2. "commit" \in Way(op[r].do)  BY <2>1 DEF Way
  <2> QED  BY <1>10, <1>12, <2>1, <2>2 DEF Import
<1> QED  BY <1>3, <1>4, <1>5, <1>6, <1>7, <1>8, <1>9, <1>11, <1>12 DEF Start

-----------------------------------------------------------------------------
(* What a step leaves alone.                                               *)

\* The session of a request that does not move, while versions are kept.
LEMMA StillSession ==
  ASSUME NEW s \in Requests, Session(s), HoldsBefore(s),
         at'[s] = at[s], tx'[s] = tx[s], op' = op,
         \A v \in versions : \E u \in versions' : u.id = v.id
  PROVE  Session(s)' /\ HoldsBefore(s)' /\ (AtWork(s)' <=> AtWork(s))
<1>1. /\ AtWork(s)' <=> AtWork(s)
      /\ Publishes(s)' <=> Publishes(s)
      /\ Creates(s)' <=> Creates(s)
      /\ Reads(s)' <=> Reads(s)
  BY DEF AtWork, Publishes, Creates, Reads
<1>2. Copy(s) => Copy(s)'
  <2>1. Touches(s)' = Touches(s)  BY DEF Touches
  <2> QED  BY <2>1 DEF Copy
<1>3. (Publication(s) => Publication(s)') /\ (Adding(s) => Adding(s)')  BY DEF Publication, Adding
<1>4. Session(s)'  BY <1>1, <1>2, <1>3 DEF Session
<1>5. HoldsBefore(s)'  BY DEF HoldsBefore
<1> QED  BY <1>1, <1>4, <1>5

\* Nothing else is said of it that more overlaps could break.
LEMMA StillRequest ==
  ASSUME NEW s \in Requests, OfRequest(s),
         at'[s] = at[s], tx'[s] = tx[s], overlapped \subseteq overlapped',
         UNCHANGED <<op, row, versions, made, grants, withdrawn, unsaid>>
  PROVE  OfRequest(s)'
<1>1. Session(s)' /\ HoldsBefore(s)' /\ (AtWork(s)' <=> AtWork(s))
  BY StillSession DEF OfRequest
<1>2. /\ Publishes(s)' <=> Publishes(s)
      /\ Creates(s)' <=> Creates(s)
      /\ Shares(s)' <=> Shares(s)
  BY DEF Publishes, Creates, Shares
<1>3. Numbered(s)'  BY <1>2 DEF OfRequest, Numbered
<1>4. ReadsCurrent(s)'
  <2>1. NoRivals' => NoRivals  BY DEF NoRivals, Publishes
  <2> QED  BY <1>1, <1>2, <2>1 DEF OfRequest, ReadsCurrent
<1>5. SharesCurrent(s)'
  <2>1. NoOtherShares' => NoOtherShares  BY DEF NoOtherShares
  <2> QED  BY <1>1, <1>2, <2>1 DEF OfRequest, SharesCurrent
<1>6. ClaimsOverlap(s)'  BY <1>1, <1>2 DEF OfRequest, ClaimsOverlap, Wider
<1> QED  BY <1>1, <1>3, <1>4, <1>5, <1>6 DEF OfRequest

\* The history, when nothing was committed.
LEMMA StillHistory ==
  ASSUME BookIInv, overlapped \subseteq overlapped',
         UNCHANGED <<op, row, versions, made, grants, withdrawn, unsaid>>
  PROVE  VersionsAreInOrder' /\ WithdrawnIsOut' /\ MandatesAreHonoured'
<1>1. VersionsAreInOrder'
  <2>1. (\A p \in overlapped' : \E r \in p : ~Publishes(r)') => \A p \in overlapped : \E r \in p : ~Publishes(r)
    BY DEF Publishes
  <2>2. VersionsAreInOrder  BY DEF BookIInv
  <2> QED  BY <2>1, <2>2 DEF VersionsAreInOrder, Row
<1>2. WithdrawnIsOut'  BY DEF BookIInv, WithdrawnIsOut
<1>3. MandatesAreHonoured'  BY DEF BookIInv, MandatesAreHonoured, Wider
<1> QED  BY <1>1, <1>2, <1>3

\* A request that has ended has given up all it had.
LEMMA EndedRequest ==
  ASSUME NEW r \in Requests, at'[r] \in Ended, tx'[r] = NoTx
  PROVE  OfRequest(r)'
<1>1. ~AtWork(r)' /\ at'[r] \notin {"flush", "number", "archive", "insert", "point", "commit"}
  BY DEF AtWork, Ended
<1>2. DOMAIN tx'[r] = Fields /\ tx'[r].archived = {} /\ tx'[r].new = {}  BY DEF NoTx, Fields
<1>3. Session(r)'  BY <1>1, <1>2 DEF Session
<1> QED  BY <1>1, <1>3 DEF OfRequest, HoldsBefore, Numbered, ReadsCurrent, SharesCurrent, ClaimsOverlap

\* A statement that writes to no table: the request it is of is all that
\* can change.
LEMMA OwnStep ==
  ASSUME BookIInv, NEW r \in Requests, AtWork(r),
         DOMAIN at' = Requests, DOMAIN tx' = Requests,
         \A s \in Requests : s # r => at'[s] = at[s] /\ tx'[s] = tx[s],
         UNCHANGED <<op, row, versions, made, runs, overlapped, grants, withdrawn, unsaid>>,
         OfRequest(r)'
  PROVE  BookIInv'
<1>1. \A s \in Requests : OfRequest(s)'
  BY StillRequest DEF BookIInv
<1>2. Tables'
  <2>1. \A s \in Requests : AtWork(s)' => AtWork(s)  BY DEF AtWork
  <2>2. Together'  BY <2>1 DEF BookIInv, Tables, Together
  <2>3. at[r] # "done"  BY DEF AtWork, Ended
  <2>4. VersionsOK'  BY <2>3 DEF BookIInv, Tables, VersionsOK
  <2>5. RowIsOne' /\ RunsOK'  BY DEF BookIInv, Tables, RowIsOne, RunsOK
  <2>6. \A s \in Requests : IsOp(op[s])'  BY DEF BookIInv, Tables, IsOp
  <2> QED  BY <2>2, <2>4, <2>5, <2>6 DEF BookIInv, Tables
<1>3. VersionsAreInOrder' /\ WithdrawnIsOut' /\ MandatesAreHonoured'  BY StillHistory
<1>4. RunsWhatWasChecked'  BY DEF BookIInv, RunsWhatWasChecked
<1> QED  BY <1>1, <1>2, <1>3, <1>4 DEF BookIInv

LEMMA BeginningsOverlap ==
  ASSUME Tables, NEW r \in Requests, Begins(r),
         \A s \in Requests : s # r => at'[s] = at[s]
  PROVE  /\ overlapped \subseteq overlapped' /\ Together' /\ at[r] = "idle"
         /\ \A s \in Requests : s # r /\ AtWork(s) => {r, s} \in overlapped'
<1>1. overlapped' = overlapped \cup { {r, s} : s \in { x \in Requests \ {r} : AtWork(x) } }
  BY DEF Begins
<1>2. \A s \in Requests : s # r /\ AtWork(s) => {r, s} \in overlapped' /\ {s, r} \in overlapped'
  <2>1. \A s : {s, r} = {r, s}  OBVIOUS
  <2> QED  BY <1>1, <2>1
<1>3. \A s \in Requests : s # r => (AtWork(s)' <=> AtWork(s))  BY DEF AtWork
<1>4. Together'  BY <1>1, <1>2, <1>3 DEF Tables, Together
<1> QED  BY <1>1, <1>2, <1>4 DEF Begins

\* A request that has read the row works on its copy.
LEMMA TakenRequest ==
  ASSUME Tables, NEW r \in Requests, Taken(r), UNCHANGED <<op, row, versions>>
  PROVE  OfRequest(r)'
<1>1. PICK mine \in Rows, to \in Way(op[r].do) \cap {"flush", "number", "sync", "erase"} :
         /\ Takes(r, mine, to) /\ row # {} /\ Reads(r) /\ ~Creates(r)
         /\ \A c \in Columns \ Touches(r) : mine[c] = Row[c]
         /\ Shares(r) => mine.shared = IF op[r].do = "share" THEN Row.shared \cup {op[r].company}
                                                             ELSE Row.shared \ {op[r].company}
  BY DEF Taken
<1>2. /\ at'[r] = to /\ DOMAIN tx'[r] = Fields
      /\ tx'[r].read = Row /\ tx'[r].mine = mine /\ tx'[r].archived = {} /\ tx'[r].new = {} /\ tx'[r].locks = {}
  BY <1>1 DEF Takes, Goes, NoTx, Fields, Tables
<1>3. row = {Row} /\ Row \in Rows /\ (Row.pointer # None => \E v \in versions : v.id = Row.pointer)
  BY <1>1, RowIs DEF Tables
<1>4. /\ Publishes(r)' <=> Publishes(r)
      /\ Creates(r)' <=> Creates(r)
      /\ Shares(r)' <=> Shares(r)
      /\ Touches(r)' = Touches(r)
  BY DEF Publishes, Creates, Shares, Touches
<1>5. Copy(r)'  BY <1>1, <1>2, <1>3, <1>4 DEF Copy
<1>6. Publication(r)' /\ at'[r] \notin {"archive", "insert", "point", "commit"}
  BY <1>2 DEF Publication
<1>7. AtWork(r)'  BY <1>2 DEF AtWork, Ended
<1>8. Session(r)'  BY <1>1, <1>2, <1>4, <1>5, <1>6, <1>7 DEF Session
<1>9. HoldsBefore(r)'  BY <1>2 DEF HoldsBefore
<1>10. Numbered(r)'  BY <1>6 DEF Numbered
<1>11. ReadsCurrent(r)'  BY <1>2, <1>3 DEF ReadsCurrent
<1>12. SharesCurrent(r)'  BY <1>1, <1>2, <1>3, <1>4, <1>6 DEF SharesCurrent
<1>13. ClaimsOverlap(r)'  BY <1>1, <1>4 DEF ClaimsOverlap
<1> QED  BY <1>8, <1>9, <1>10, <1>11, <1>12, <1>13 DEF OfRequest

\* One that is going to add a workflow has found its trigger unclaimed.
LEMMA AddedRequest ==
  ASSUME Tables, NEW r \in Requests, Added(r), UNCHANGED <<op, made>>
  PROVE  OfRequest(r)'
<1>1. PICK w \in NewRows, to \in Way(op[r].do) :
         /\ Creates(r) /\ ~Reads(r) /\ w.id = r /\ ~Claimed(r, w)
         /\ tx' = [tx EXCEPT ![r] = [NoTx EXCEPT !.new = {w}]] /\ Goes(r, to)
  BY DEF Added
<1>2. /\ at'[r] = to /\ DOMAIN tx'[r] = Fields
      /\ tx'[r].archived = {} /\ tx'[r].new = {w} /\ tx'[r].locks = {}
  BY <1>1 DEF Goes, NoTx, Fields, Tables
<1>3. /\ ~Publishes(r)' /\ ~Reads(r)' /\ ~Shares(r)' /\ Creates(r)'
      /\ op[r].do \notin {"update", "share", "unshare", "publish"}
  BY <1>1 DEF Publishes, Creates, Shares, Reads
<1>4. AtWork(r)'  BY <1>1, <1>2 DEF AtWork, Ended, Creates, Way
<1>5. Session(r)'  BY <1>1, <1>2, <1>3, <1>4 DEF Session, Adding
<1>6. HoldsBefore(r)' /\ Numbered(r)' /\ ReadsCurrent(r)' /\ SharesCurrent(r)'
  BY <1>3 DEF HoldsBefore, Numbered, ReadsCurrent, SharesCurrent
<1>7. ClaimsOverlap(r)'
  <2>1. \A i \in DOMAIN made : ~(made[i].mandated /\ made[i].trigger = w.trigger /\ made[i].scope \in Wider(w.scope))
    BY <1>1 DEF Claimed
  <2> QED  BY <1>2, <2>1 DEF ClaimsOverlap, Wider
<1> QED  BY <1>5, <1>6, <1>7 DEF OfRequest

\* One that starts a run has done what it came for.
LEMMA RunningRequest ==
  ASSUME Tables, NEW r \in Requests, Session(r), at[r] = "idle",
         op[r].do \in {"execute", "webhook"}, Runs(r, "commit"), op' = op
  PROVE  OfRequest(r)'
<1>1. at'[r] = "commit" /\ tx'[r] = NoTx
  BY DEF Runs, Goes, Tables, Session, AtWork
<1>2. ~Publishes(r)' /\ ~Creates(r)' /\ ~Reads(r)' /\ ~Shares(r)'
  BY DEF Publishes, Creates, Reads, Shares
<1>3. Session(r)'
  BY <1>1, <1>2 DEF Session, NoTx, Fields, Way
<1> QED
  BY <1>1, <1>2, <1>3 DEF OfRequest, HoldsBefore, Numbered, ReadsCurrent, SharesCurrent, ClaimsOverlap

LEMMA StartStep ==
  ASSUME BookIInv, NEW r \in Requests, Start(r)
  PROVE  BookIInv'
<1>1. /\ Begins(r)
      /\ Refuse(r) \/ Taken(r) \/ Added(r)
           \/ (op[r].do \in {"execute", "webhook"} /\ row # {} /\ Runs(r, "commit"))
  BY StartCases DEF BookIInv
<1>2. Tables /\ OfRequest(r) /\ at[r] = "idle" /\ UNCHANGED <<row, versions, made, op, withdrawn, unsaid>>
  BY <1>1 DEF BookIInv, Begins
<1>3. /\ grants' = grants /\ DOMAIN at' = Requests /\ DOMAIN tx' = Requests
      /\ \A s \in Requests : s # r => at'[s] = at[s] /\ tx'[s] = tx[s]
  BY <1>1, <1>2 DEF Tables, Refuse, Taken, Takes, Added, Runs, Goes
<1>4. /\ overlapped \subseteq overlapped' /\ Together'
  BY <1>1, <1>2, <1>3, BeginningsOverlap
<1>5. OfRequest(r)'
  <2>1. CASE Refuse(r)
    <3>1. at'[r] = "refused" /\ tx'[r] = tx[r]  BY <1>2, <2>1 DEF Refuse, Goes, Tables
    <3>2. tx[r] = NoTx  BY <1>2 DEF OfRequest, Session, AtWork
    <3> QED  BY <3>1, <3>2, EndedRequest DEF Ended
  <2> QED  BY <1>1, <1>2, <2>1, TakenRequest, AddedRequest, RunningRequest DEF OfRequest
<1>6. \A s \in Requests : OfRequest(s)'
  BY <1>2, <1>3, <1>4, <1>5, StillRequest DEF BookIInv
<1>7. RunsOK' /\ RunsWhatWasChecked'
  <2>1. CASE runs' = runs  BY <1>2, <2>1 DEF BookIInv, Tables, RunsOK, RunsWhatWasChecked
  <2>2. CASE row # {} /\ Runs(r, "commit")
    <3>1. Row.pointer # None => \E v \in versions : v.id = Row.pointer
      BY <1>2, <2>2, RowIs DEF Tables
    <3>2. Row.pointer # None => \E v \in versions : v.id = Row.pointer /\ v.definition = Version(Row.pointer).definition
      BY <3>1 DEF Version
    <3> DEFINE y == [id |-> r, version |-> Row.pointer, loaded |-> None,
                     checked |-> IF Row.pointer = None THEN Row.definition ELSE Version(Row.pointer).definition]
    <3>3. /\ runs' = runs \cup {y} /\ DOMAIN y = {"id", "version", "loaded", "checked"} /\ y.loaded = None
          /\ y.version # None => \E v \in versions : v.id = y.version /\ v.definition = y.checked
      BY <2>2, <3>2 DEF Runs
    <3> HIDE DEF y
    <3> QED  BY <1>2, <3>3 DEF BookIInv, Tables, RunsOK, RunsWhatWasChecked
  <2> QED  BY <1>1, <2>1, <2>2 DEF Refuse, Taken, Takes, Added
<1>8. Tables'
  <2>1. VersionsOK'
    <3>1. \A s \in Requests : at[s] = "done" => at'[s] = "done"  BY <1>2, <1>3
    <3> QED  BY <1>2, <3>1 DEF Tables, VersionsOK
  <2>2. RowIsOne'  BY <1>2 DEF Tables, RowIsOne
  <2>3. \A s \in Requests : IsOp(op[s])'  BY <1>2 DEF Tables, IsOp
  <2> QED  BY <1>2, <1>3, <1>4, <1>7, <2>1, <2>2, <2>3 DEF Tables
<1> QED  BY <1>2, <1>3, <1>4, <1>6, <1>7, <1>8, StillHistory DEF BookIInv

-----------------------------------------------------------------------------
(* The statements of a transaction.                                        *)

LEMMA GreatestNat ==
  ASSUME NEW T \in SUBSET Nat, T # {}, NEW b \in Nat, \A x \in T : x <= b
  PROVE  \E n \in T : \A x \in T : x <= n
<1> DEFINE U == { u \in Nat : \A x \in T : x <= u }
<1>1. PICK n \in U : \A u \in U : n <= u
  <2>1. U \in SUBSET Nat /\ b \in U  OBVIOUS
  <2> HIDE DEF U
  <2> QED  BY <2>1, LeastNat
<1>2. n \in Nat /\ \A x \in T : x <= n  BY <1>1
<1>3. n \in T
  <2> SUFFICES ASSUME n \notin T PROVE FALSE  OBVIOUS
  <2>1. \A x \in T : x \in Nat /\ x < n  BY <1>2
  <2>2. PICK least \in T : least \in Nat /\ least < n  BY <2>1
  <2>3. n - 1 \in Nat  BY <1>2, <2>2
  <2>4. \A x \in T : x <= n - 1  BY <1>2, <2>1
  <2>5. n - 1 \in U  BY <2>3, <2>4
  <2> QED  BY <1>1, <1>2, <2>5
<1> QED  BY <1>2, <1>3

LEMMA HighestNumber ==
  ASSUME VersionsOK
  PROVE  Highest \in Nat /\ \A v \in versions : v.num <= Highest
<1>1. CASE versions = {}  BY <1>1 DEF Highest
<1>2. CASE versions # {}
  <2> DEFINE T == { v.num : v \in versions }
  <2>1. PICK b \in Nat : \A v \in versions : v.num <= b  BY DEF VersionsOK
  <2>2. T \in SUBSET Nat /\ T # {} /\ \A x \in T : x <= b
    BY <1>2, <2>1 DEF VersionsOK, Versions
  <2>3. PICK n \in T : \A x \in T : x <= n
    <3> HIDE DEF T
    <3> QED  BY <2>2, GreatestNat
  <2>4. \E m \in T : \A v \in versions : v.num <= m  BY <2>3
  <2>5. Highest \in T /\ \A v \in versions : v.num <= Highest  BY <1>2, <2>4 DEF Highest
  <2> QED  BY <2>2, <2>5
<1> QED  BY <1>1, <1>2

\* What a statement finds: its request, which is at work.
LEMMA AtStatement ==
  ASSUME BookIInv, NEW r \in Requests, AtWork(r)
  PROVE  /\ Tables /\ OfRequest(r) /\ IsOp(op[r])
         /\ DOMAIN at = Requests /\ DOMAIN tx = Requests /\ DOMAIN tx[r] = Fields
         /\ at[r] \in Way(op[r].do)
BY DEF BookIInv, Tables, OfRequest, Session, AtWork

LEMMA FailStep ==
  ASSUME BookIInv, NEW r \in Requests, AtWork(r),
         NEW to \in Ended, Goes(r, to), tx' = [tx EXCEPT ![r] = NoTx],
         UNCHANGED <<op, row, versions, made, runs, overlapped, grants, withdrawn, unsaid>>
  PROVE  BookIInv'
<1>1. /\ DOMAIN at' = Requests /\ DOMAIN tx' = Requests
      /\ \A s \in Requests : s # r => at'[s] = at[s] /\ tx'[s] = tx[s]
      /\ at'[r] = to /\ tx'[r] = NoTx
  BY AtStatement DEF Goes
<1> QED  BY <1>1, EndedRequest, OwnStep

\* A step to another place that leaves the session as it is, but for locks
\* and the mark of a deletion, of a request that does not publish.
LEMMA GoesOn ==
  ASSUME BookIInv, NEW r \in Requests, AtWork(r), ~Publishes(r),
         at'[r] \in Way(op[r].do) \ {"flush", "keep"},
         Shares(r) => at'[r] # "commit",
         DOMAIN tx'[r] = Fields,
         \A f \in Fields \ {"locks", "gone"} : tx'[r][f] = tx[r][f],
         UNCHANGED <<op, row, versions, made, runs, overlapped, grants, withdrawn, unsaid>>
  PROVE  OfRequest(r)'
<1>1. /\ OfRequest(r) /\ Session(r)
      /\ tx'[r].read = tx[r].read /\ tx'[r].mine = tx[r].mine
      /\ tx'[r].archived = tx[r].archived /\ tx'[r].new = tx[r].new
  BY AtStatement DEF OfRequest, Fields
<1>2. /\ Publishes(r)' <=> Publishes(r)
      /\ Creates(r)' <=> Creates(r)
      /\ Shares(r)' <=> Shares(r)
      /\ Reads(r)' <=> Reads(r)
      /\ Touches(r)' = Touches(r)
      /\ op[r].do # "publish"
  BY DEF Publishes, Creates, Shares, Reads, Touches
<1>3. AtWork(r)'  BY DEF AtWork, Ended, Way
<1>4. (Copy(r) => Copy(r)') /\ (Adding(r) => Adding(r)')  BY <1>1, <1>2 DEF Copy, Adding
<1>5. Session(r)'  BY <1>1, <1>2, <1>3, <1>4 DEF Session
<1>6. HoldsBefore(r)' /\ Numbered(r)' /\ ReadsCurrent(r)'
  BY <1>2 DEF HoldsBefore, Numbered, ReadsCurrent
<1>7. SharesCurrent(r)'
  <2>1. NoOtherShares' <=> NoOtherShares  BY DEF NoOtherShares
  <2> QED  BY <1>1, <1>2, <1>3, <2>1 DEF OfRequest, SharesCurrent
<1>8. ClaimsOverlap(r)'  BY <1>1, <1>2, <1>3 DEF OfRequest, ClaimsOverlap, Wider
<1> QED  BY <1>5, <1>6, <1>7, <1>8 DEF OfRequest

LEMMA FlushStep ==
  ASSUME BookIInv, NEW r \in Requests, Flush(r)
  PROVE  BookIInv'
<1>1. /\ at[r] = "flush" /\ AtWork(r)
      /\ UNCHANGED <<op, row, versions, made, runs, overlapped, grants, withdrawn, unsaid>>
  BY DEF Flush, Untold, Locks, AtWork, Ended
<1>2. CASE Goes(r, "failed") /\ tx' = [tx EXCEPT ![r] = NoTx]
  BY <1>1, <1>2, FailStep DEF Ended
<1>3. CASE Goes(r, AfterFlush(r)) /\ tx' = [tx EXCEPT ![r].locks = Holds(r)]
  <2>1. /\ DOMAIN at' = Requests /\ DOMAIN tx' = Requests /\ DOMAIN tx'[r] = Fields
        /\ \A s \in Requests : s # r => at'[s] = at[s] /\ tx'[s] = tx[s]
        /\ at'[r] = AfterFlush(r)
        /\ \A f \in Fields \ {"locks", "gone"} : tx'[r][f] = tx[r][f]
    BY <1>1, <1>3, AtStatement DEF Goes
  <2>2. op[r].do \in {"update", "share", "unshare", "rollback"}
    BY <1>1, AtStatement DEF Way
  <2>3. CASE op[r].do = "rollback"
    <3>1. at'[r] = "number"  BY <2>1, <2>3 DEF AfterFlush
    <3>2. /\ OfRequest(r) /\ Session(r) /\ Publishes(r) /\ Reads(r) /\ ~Creates(r) /\ ~Shares(r)
          /\ tx'[r].read = tx[r].read /\ tx'[r].mine = tx[r].mine
          /\ tx'[r].archived = tx[r].archived /\ tx'[r].new = tx[r].new
      BY <1>1, <2>1, <2>3, AtStatement DEF OfRequest, Fields, Publishes, Reads, Creates, Shares
    <3>3. /\ Publishes(r)' /\ ~Creates(r)' /\ ~Shares(r)' /\ AtWork(r)' /\ Touches(r)' = Touches(r)
      BY <1>1, <2>3, <3>1 DEF Publishes, Creates, Shares, Touches, AtWork, Ended
    <3>4. Copy(r)'  BY <1>1, <3>2, <3>3 DEF Session, Copy
    <3>5. Publication(r)'  BY <1>1, <3>1, <3>2 DEF Session, Publication
    <3>6. at'[r] \in Way(op'[r].do)  BY <1>1, <2>3, <3>1 DEF Way
    <3>7. Session(r)'  BY <2>1, <3>3, <3>4, <3>5, <3>6 DEF Session
    <3>8. HoldsBefore(r)' /\ Numbered(r)' /\ SharesCurrent(r)' /\ ClaimsOverlap(r)'
      BY <1>1, <2>3, <3>1, <3>3 DEF HoldsBefore, Numbered, SharesCurrent, ClaimsOverlap
    <3>9. ReadsCurrent(r)'
      <4>1. NoRivals' <=> NoRivals  BY <1>1 DEF NoRivals, Publishes
      <4> QED  BY <1>1, <3>2, <4>1 DEF OfRequest, ReadsCurrent
    <3>10. OfRequest(r)'  BY <3>7, <3>8, <3>9 DEF OfRequest
    <3> QED  BY <1>1, <2>1, <3>10, OwnStep
  <2>4. CASE op[r].do # "rollback"
    <3>1. /\ ~Publishes(r) /\ at'[r] \in Way(op[r].do) \ {"flush", "keep"}
          /\ Shares(r) => at'[r] # "commit"
      BY <2>1, <2>2, <2>4 DEF Publishes, Shares, AfterFlush, Way
    <3>2. OfRequest(r)'  BY <1>1, <2>1, <3>1, GoesOn
    <3> QED  BY <1>1, <2>1, <3>2, OwnStep
  <2> QED  BY <2>3, <2>4
<1> QED  BY <1>2, <1>3 DEF Flush

\* Where a publication is, and what of it a step to the next place keeps.
LEMMA PublicationGoesOn ==
  ASSUME BookIInv, NEW r \in Requests, AtWork(r), Publishes(r), at[r] # "flush",
         at'[r] \in {"archive", "insert", "point", "commit"},
         DOMAIN tx'[r] = Fields, tx'[r].read = tx[r].read,
         Copy(r)', Publication(r)', HoldsBefore(r)', Numbered(r)',
         UNCHANGED <<op, row, versions, made, runs, overlapped, grants, withdrawn, unsaid>>
  PROVE  OfRequest(r)'
<1>1. /\ Publishes(r)' /\ ~Creates(r)' /\ ~Shares(r)' /\ AtWork(r)'
      /\ at'[r] \in Way(op'[r].do)
  BY DEF Publishes, Creates, Shares, AtWork, Ended, Way
<1>2. Session(r)'  BY <1>1 DEF Session
<1>3. ReadsCurrent(r)'
  <2>1. NoRivals' <=> NoRivals  BY DEF NoRivals, Publishes
  <2>2. ReadsCurrent(r)  BY DEF BookIInv, OfRequest
  <2> QED  BY <2>1, <2>2 DEF ReadsCurrent
<1>4. SharesCurrent(r)' /\ ClaimsOverlap(r)'  BY <1>1 DEF SharesCurrent, ClaimsOverlap
<1> QED  BY <1>2, <1>3, <1>4 DEF OfRequest

LEMMA PublicationFacts ==
  ASSUME BookIInv, NEW r \in Requests, at[r] \in {"number", "archive", "insert", "point"}
  PROVE  /\ AtWork(r) /\ Publishes(r) /\ op[r].do \in {"publish", "rollback"}
         /\ Copy(r) /\ Publication(r) /\ HoldsBefore(r) /\ Numbered(r)
         /\ DOMAIN tx[r] = Fields /\ DOMAIN at = Requests /\ DOMAIN tx = Requests
<1>1. AtWork(r)  BY DEF AtWork, Ended
<1>2. op[r].do \in {"publish", "rollback"}  BY <1>1, AtStatement DEF Way
<1> QED  BY <1>1, <1>2, AtStatement DEF OfRequest, Session, Publishes, Reads

\* The next number is beyond those of all versions there are.
LEMMA NumberStep ==
  ASSUME BookIInv, NEW r \in Requests, Number(r)
  PROVE  BookIInv'
<1>1. /\ at[r] = "number" /\ Goes(r, "archive") /\ tx' = [tx EXCEPT ![r].num = Highest + 1]
      /\ UNCHANGED <<op, row, versions, made, runs, overlapped, grants, withdrawn, unsaid>>
  BY DEF Number, Untold, Locks
<1>2. /\ DOMAIN at' = Requests /\ DOMAIN tx' = Requests /\ DOMAIN tx'[r] = Fields
      /\ \A s \in Requests : s # r => at'[s] = at[s] /\ tx'[s] = tx[s]
      /\ at'[r] = "archive"
      /\ tx'[r].num = Highest + 1
      /\ tx'[r].read = tx[r].read /\ tx'[r].mine = tx[r].mine /\ tx'[r].locks = tx[r].locks
      /\ tx'[r].archived = tx[r].archived /\ tx'[r].new = tx[r].new
  BY <1>1, PublicationFacts DEF Goes, Fields
<1>3. Touches(r)' = Touches(r)  BY <1>1 DEF Touches
<1>4. Copy(r)'  BY <1>1, <1>2, <1>3, PublicationFacts DEF Copy
<1>5. Publication(r)'  BY <1>1, <1>2, PublicationFacts DEF Publication
<1>6. HoldsBefore(r)'  BY <1>1, <1>2, PublicationFacts DEF HoldsBefore
<1>7. Numbered(r)'
  <2>1. Highest \in Nat /\ \A v \in versions : v.num <= Highest  BY HighestNumber DEF BookIInv, Tables
  <2>2. \A v \in versions : v.num \in Nat  BY DEF BookIInv, Tables, VersionsOK, Versions
  <2>3. Highest + 1 \in Nat /\ \A v \in versions : v.num < Highest + 1  BY <2>1, <2>2
  <2> QED  BY <1>1, <1>2, <2>3 DEF Numbered
<1>8. OfRequest(r)'  BY <1>1, <1>2, <1>4, <1>5, <1>6, <1>7, PublicationFacts, PublicationGoesOn
<1> QED  BY <1>1, <1>2, <1>8, PublicationFacts, OwnStep

LEMMA ArchiveStep ==
  ASSUME BookIInv, NEW r \in Requests, Archive(r)
  PROVE  BookIInv'
<1>1. /\ at[r] = "archive" /\ Goes(r, "insert")
      /\ tx' = [tx EXCEPT ![r].archived = {tx[r].read.pointer} \ {None}, ![r].locks = Holds(r)]
      /\ UNCHANGED <<op, row, versions, made, runs, overlapped, grants, withdrawn, unsaid>>
  BY DEF Archive, Untold, Locks
<1>2. /\ DOMAIN at' = Requests /\ DOMAIN tx' = Requests /\ DOMAIN tx'[r] = Fields
      /\ \A s \in Requests : s # r => at'[s] = at[s] /\ tx'[s] = tx[s]
      /\ at'[r] = "insert" /\ tx'[r].locks = Holds(r)
      /\ tx'[r].num = tx[r].num
      /\ tx'[r].read = tx[r].read /\ tx'[r].mine = tx[r].mine
      /\ tx'[r].archived = {tx[r].read.pointer} \ {None} /\ tx'[r].new = tx[r].new
  BY <1>1, PublicationFacts DEF Goes, Fields
<1>3. Touches(r)' = Touches(r)  BY <1>1 DEF Touches
<1>4. Copy(r)'  BY <1>1, <1>2, <1>3, PublicationFacts DEF Copy
<1>5. Publication(r)'  BY <1>1, <1>2, PublicationFacts DEF Publication
<1>6. HoldsBefore(r)'
  <2>1. Needs(r) \subseteq Ids
    <3>1. tx[r].read \in Rows  BY <1>1, PublicationFacts DEF Copy
    <3>2. Needs(r) \subseteq {tx[r].read.pointer} \ {None}  BY <1>1 DEF Needs
    <3> QED  BY <3>1, <3>2 DEF Rows
  <2>2. op[r].do = "publish" => tx[r].locks = {}  BY <1>1, PublicationFacts DEF HoldsBefore
  <2> QED  BY <1>1, <1>2, <2>1, <2>2 DEF HoldsBefore, Holds
<1>7. Numbered(r)'  BY <1>1, <1>2, PublicationFacts DEF Numbered
<1>8. OfRequest(r)'  BY <1>1, <1>2, <1>4, <1>5, <1>6, <1>7, PublicationFacts, PublicationGoesOn
<1> QED  BY <1>1, <1>2, <1>8, PublicationFacts, OwnStep

LEMMA InsertStep ==
  ASSUME BookIInv, NEW r \in Requests, Insert(r)
  PROVE  BookIInv'
<1> DEFINE v == [id |-> r, num |-> tx[r].num, status |-> "active", definition |-> tx[r].mine.definition,
                 trigger |-> tx[r].mine.trigger, config |-> tx[r].mine.config]
<1>1. /\ at[r] = "insert"
      /\ UNCHANGED <<op, row, versions, made, runs, overlapped, grants, withdrawn, unsaid>>
  BY DEF Insert, Untold, Locks
<1>2. CASE Goes(r, "failed") /\ tx' = [tx EXCEPT ![r] = NoTx]
  BY <1>1, <1>2, PublicationFacts, FailStep DEF Ended
<1>3. CASE Goes(r, "point") /\ tx' = [tx EXCEPT ![r].locks = Holds(r), ![r].new = {v}]
  <2>1. /\ v.id = r /\ v.status = "active" /\ v.num = tx[r].num
        /\ v \in Versions
    <3>1. tx[r].mine \in Rows /\ tx[r].num \in Nat  BY <1>1, PublicationFacts DEF Copy, Numbered
    <3> QED  BY <3>1 DEF Rows, Versions, Ids
  <2> HIDE DEF v
  <2>2. /\ DOMAIN at' = Requests /\ DOMAIN tx' = Requests /\ DOMAIN tx'[r] = Fields
        /\ \A s \in Requests : s # r => at'[s] = at[s] /\ tx'[s] = tx[s]
        /\ at'[r] = "point" /\ tx'[r].locks = Holds(r)
        /\ tx'[r].num = tx[r].num
        /\ tx'[r].read = tx[r].read /\ tx'[r].mine = tx[r].mine
        /\ tx'[r].archived = tx[r].archived /\ tx'[r].new = {v}
    BY <1>1, <1>3, PublicationFacts DEF Goes, Fields
  <2>3. Touches(r)' = Touches(r)  BY <1>1 DEF Touches
  <2>4. Copy(r)'  BY <1>1, <2>2, <2>3, PublicationFacts DEF Copy
  <2>5. Publication(r)'  BY <1>1, <2>1, <2>2, PublicationFacts DEF Publication
  <2>6. HoldsBefore(r)'
    <3>1. Needs(r) = {"key"}  BY <1>1 DEF Needs
    <3> QED  BY <1>1, <2>2, <3>1, PublicationFacts DEF HoldsBefore, Holds
  <2>7. Numbered(r)'  BY <1>1, <2>2, PublicationFacts DEF Numbered
  <2>8. OfRequest(r)'  BY <1>1, <2>2, <2>4, <2>5, <2>6, <2>7, PublicationFacts, PublicationGoesOn
  <2> QED  BY <1>1, <2>2, <2>8, PublicationFacts, OwnStep
<1> QED  BY <1>2, <1>3 DEF Insert

LEMMA PointStep ==
  ASSUME BookIInv, NEW r \in Requests, Point(r)
  PROVE  BookIInv'
<1>1. /\ at[r] = "point" /\ Goes(r, "commit")
      /\ tx' = [tx EXCEPT ![r].mine.pointer = r, ![r].locks = Holds(r)]
      /\ UNCHANGED <<op, row, versions, made, runs, overlapped, grants, withdrawn, unsaid>>
  BY DEF Point, Untold, Locks
<1>2. /\ DOMAIN at' = Requests /\ DOMAIN tx' = Requests /\ DOMAIN tx'[r] = Fields
      /\ \A s \in Requests : s # r => at'[s] = at[s] /\ tx'[s] = tx[s]
      /\ at'[r] = "commit"
      /\ tx'[r].num = tx[r].num
      /\ tx'[r].read = tx[r].read /\ tx'[r].mine = [tx[r].mine EXCEPT !.pointer = r]
      /\ tx'[r].archived = tx[r].archived /\ tx'[r].new = tx[r].new
  BY <1>1, PublicationFacts DEF Goes, Fields
<1>3. /\ tx[r].mine \in Rows /\ tx'[r].mine \in Rows /\ tx'[r].mine.pointer = r
      /\ \A c \in Columns : c # "pointer" => tx'[r].mine[c] = tx[r].mine[c]
  <2>1. tx[r].mine \in Rows /\ r \in Ids  BY <1>1, PublicationFacts DEF Copy, Ids
  <2> QED  BY <1>2, <2>1, RowColumns DEF Rows
<1>4. Touches(r)' = Touches(r) /\ "pointer" \in Touches(r)
  BY <1>1, PublicationFacts DEF Touches
<1>5. Copy(r)'  BY <1>1, <1>2, <1>3, <1>4, PublicationFacts DEF Copy
<1>6. Publication(r)'  BY <1>1, <1>2, <1>3, PublicationFacts DEF Publication
<1>7. HoldsBefore(r)'  BY <1>2 DEF HoldsBefore
<1>8. Numbered(r)'  BY <1>1, <1>2, PublicationFacts DEF Numbered
<1>9. OfRequest(r)'  BY <1>1, <1>2, <1>5, <1>6, <1>7, <1>8, PublicationFacts, PublicationGoesOn
<1> QED  BY <1>1, <1>2, <1>9, PublicationFacts, OwnStep

LEMMA DeletingStep ==
  ASSUME BookIInv, NEW r \in Requests, Erase(r) \/ Detach(r)
  PROVE  BookIInv'
<1>1. /\ at[r] \in {"erase", "detach"} /\ AtWork(r)
      /\ Goes(r, IF at[r] = "erase" THEN "detach" ELSE "commit")
      /\ \/ tx' = [tx EXCEPT ![r].gone = TRUE, ![r].locks = Holds(r)]
         \/ tx' = [tx EXCEPT ![r].locks = Holds(r)]
      /\ UNCHANGED <<op, row, versions, made, runs, overlapped, grants, withdrawn, unsaid>>
  BY DEF Erase, Detach, Untold, Locks, AtWork, Ended
<1>2. op[r].do = "delete"  BY <1>1, AtStatement DEF Way
<1>3. /\ DOMAIN at' = Requests /\ DOMAIN tx' = Requests /\ DOMAIN tx'[r] = Fields
      /\ \A s \in Requests : s # r => at'[s] = at[s] /\ tx'[s] = tx[s]
      /\ at'[r] \in {"detach", "commit"}
      /\ \A f \in Fields \ {"locks", "gone"} : tx'[r][f] = tx[r][f]
  BY <1>1, AtStatement DEF Goes
<1>4. ~Publishes(r) /\ ~Shares(r) /\ at'[r] \in Way(op[r].do) \ {"flush", "keep"}
  BY <1>2, <1>3 DEF Publishes, Shares, Way
<1>5. OfRequest(r)'  BY <1>1, <1>3, <1>4, GoesOn
<1> QED  BY <1>1, <1>3, <1>5, OwnStep

\* The calls to the poller are made by requests that have their locks.
LEMMA PollerCallStep ==
  ASSUME BookIInv, NEW r \in Requests, Tells(r)
  PROVE  BookIInv'
<1>1. /\ at[r] \in {"sync", "start"} /\ AtWork(r)
      /\ UNCHANGED <<op, row, versions, made, runs, overlapped, grants, withdrawn, unsaid>>
  BY DEF Tells, Stop, StartPoller, StartOther, NoBook, AtWork, Ended
<1>2. op[r].do \in {"update", "delete", "create"}  BY <1>1, AtStatement DEF Way
<1>3. ~Publishes(r) /\ ~Shares(r)  BY <1>2 DEF Publishes, Shares
<1>4. ASSUME NEW to \in Way(op[r].do) \ {"flush", "keep"}, Goes(r, to), tx' = tx
      PROVE  BookIInv'
  <2>1. /\ DOMAIN at' = Requests /\ DOMAIN tx' = Requests /\ DOMAIN tx'[r] = Fields
        /\ \A s \in Requests : s # r => at'[s] = at[s] /\ tx'[s] = tx[s]
        /\ at'[r] = to
    BY <1>1, <1>4, AtStatement DEF Goes
  <2>2. OfRequest(r)'  BY <1>1, <1>3, <1>4, <2>1, GoesOn
  <2> QED  BY <1>1, <2>1, <2>2, OwnStep
<1>5. CASE Stop(r)
  <2>1. tx' = tx /\ op[r].do \in {"update", "delete"}  BY <1>5 DEF Stop, NoBook
  <2>2. \E to \in Way(op[r].do) \ {"flush", "keep"} : Goes(r, to)
    <3>1. CASE op[r].do = "delete"
      <4>1. Goes(r, "erase")  BY <1>5, <3>1 DEF Stop
      <4>2. "erase" \in Way(op[r].do) \ {"flush", "keep"}  BY <3>1 DEF Way
      <4> QED  BY <4>1, <4>2
    <3>2. CASE op[r].do = "update"
      <4>1. Goes(r, "start") \/ Goes(r, "commit")  BY <1>5, <3>2 DEF Stop
      <4>2. {"start", "commit"} \subseteq Way(op[r].do) \ {"flush", "keep"}  BY <3>2 DEF Way
      <4> QED  BY <4>1, <4>2
    <3> QED  BY <2>1, <3>1, <3>2
  <2> QED  BY <1>4, <2>1, <2>2
<1>6. CASE StartOther(r)
  <2>1. tx' = tx /\ op[r].do = "create" /\ Goes(r, "commit")  BY <1>6 DEF StartOther, NoBook
  <2>2. "commit" \in Way(op[r].do) \ {"flush", "keep"}  BY <2>1 DEF Way
  <2> QED  BY <1>4, <2>1, <2>2
<1>7. CASE StartPoller(r)
  <2>1. at[r] = "start"  BY <1>7 DEF StartPoller
  <2>2. op[r].do = "update"  BY <1>1, <2>1, AtStatement DEF Way
  <2>3. CASE Goes(r, "conflict") /\ tx' = [tx EXCEPT ![r] = NoTx]
    BY <1>1, <2>3, FailStep DEF Ended
  <2>4. CASE Goes(r, "commit") /\ tx' = tx
    <3>1. "commit" \in Way(op[r].do) \ {"flush", "keep"}  BY <2>2 DEF Way
    <3> QED  BY <1>4, <2>4, <3>1
  <2> QED  BY <1>7, <2>3, <2>4 DEF StartPoller
<1> QED  BY <1>5, <1>6, <1>7 DEF Tells

LEMMA FailureStep ==
  ASSUME BookIInv, NEW r \in Requests, Fail(r) \/ Victim(r)
  PROVE  BookIInv'
<1>1. /\ Goes(r, "failed") /\ tx' = [tx EXCEPT ![r] = NoTx]
      /\ UNCHANGED <<op, row, versions, made, runs, overlapped, grants, withdrawn, unsaid>>
  BY DEF Fail, Victim, Untold, Locks
<1>2. AtWork(r)
  <2>1. CASE Fail(r)  BY <2>1 DEF Fail
  <2>2. CASE Victim(r)
    <3>1. Needs(r) # {}  BY <2>2 DEF Victim, InDeadlock, WaitsFor
    <3>2. at[r] \in {"flush", "archive", "insert", "point", "erase", "detach"}  BY <3>1 DEF Needs
    <3> QED  BY <3>2 DEF AtWork, Ended
  <2> QED  BY <2>1, <2>2
<1> QED  BY <1>1, <1>2, FailStep DEF Ended

\* A run loads the version it was started with, which is as it was then.
LEMMA LoadStep ==
  ASSUME BookIInv, NEW x \in runs, Load(x)
  PROVE  BookIInv'
<1> DEFINE loaded == IF x.version = None THEN Row.definition ELSE Version(x.version).definition
           y == [x EXCEPT !.loaded = loaded]
<1>1. /\ runs' = (runs \ {x}) \cup {y}
      /\ UNCHANGED <<row, versions, made, grants, op, at, tx, overlapped, withdrawn, unsaid>>
  BY DEF Load
<1>2. /\ DOMAIN x = {"id", "version", "loaded", "checked"}
      /\ x.version # None => \E v \in versions : v.id = x.version /\ v.definition = x.checked
  BY DEF BookIInv, Tables, RunsOK
<1>3. x.version # None => Version(x.version).definition = x.checked
  BY <1>2 DEF Version, BookIInv, Tables, VersionsOK
<1>4. /\ DOMAIN y = {"id", "version", "loaded", "checked"}
      /\ y.version = x.version /\ y.checked = x.checked /\ y.loaded = loaded
  BY <1>2
<1>5. y.version # None => y.loaded = y.checked  BY <1>3, <1>4
<1> HIDE DEF y, loaded
<1>6. RunsOK' /\ RunsWhatWasChecked'
  BY <1>1, <1>2, <1>4, <1>5 DEF BookIInv, Tables, RunsOK, RunsWhatWasChecked
<1>7. Tables'
  <2>1. VersionsOK' /\ RowIsOne'  BY <1>1 DEF BookIInv, Tables, VersionsOK, RowIsOne
  <2>2. Together'  BY <1>1 DEF BookIInv, Tables, Together, AtWork
  <2>3. \A s \in Requests : IsOp(op[s])'  BY <1>1 DEF BookIInv, Tables, IsOp
  <2> QED  BY <1>1, <1>6, <2>1, <2>2, <2>3 DEF BookIInv, Tables
<1>8. \A s \in Requests : OfRequest(s)'  BY <1>1, StillRequest DEF BookIInv
<1> QED  BY <1>1, <1>6, <1>7, <1>8, StillHistory DEF BookIInv

\* The grant of a share is told or missed; nobody else changes the shares
\* meanwhile, or the two have overlapped.
LEMMA GrantStep ==
  ASSUME BookIInv, NEW r \in Requests, Grant(r)
  PROVE  BookIInv'
<1>1. /\ at[r] = "grant" /\ Goes(r, "commit") /\ AtWork(r)
      /\ UNCHANGED <<op, row, versions, made, runs, overlapped, tx>>
      /\ withdrawn' = IF op[r].do = "share" THEN withdrawn \ {op[r].company} ELSE withdrawn
      /\ \/ /\ grants' = IF op[r].do = "share" THEN grants \cup {op[r].company} ELSE grants \ {op[r].company}
            /\ unsaid' = unsaid
         \/ unsaid' = unsaid \cup {op[r].company} /\ grants' = grants
  BY DEF Grant, Locks, AtWork, Ended
<1>2. /\ Shares(r) /\ op[r].company \in Companies
      /\ DOMAIN at' = Requests /\ at'[r] = "commit" /\ \A s \in Requests : s # r => at'[s] = at[s]
  BY <1>1, AtStatement DEF Shares, Way, IsOp, Goes
<1>3. /\ ~Publishes(r) /\ ~Creates(r) /\ Reads(r)  BY <1>2 DEF Shares, Publishes, Creates, Reads
<1>4. AtWork(r)' /\ \A s \in Requests : AtWork(s)' <=> AtWork(s)
  BY <1>1, <1>2 DEF AtWork, Ended
<1>5. \A s \in Requests : /\ Publishes(s)' <=> Publishes(s)
                          /\ Creates(s)' <=> Creates(s)
                          /\ Shares(s)' <=> Shares(s)
                          /\ Reads(s)' <=> Reads(s)
                          /\ Touches(s)' = Touches(s)
  BY <1>1 DEF Publishes, Creates, Shares, Reads, Touches
<1>6. /\ NoRivals' <=> NoRivals
      /\ NoOtherShares' <=> NoOtherShares
  BY <1>1 DEF NoRivals, NoOtherShares, Publishes
<1>7. \A s \in Requests : Session(s)' /\ HoldsBefore(s)'
  <2>1. ASSUME NEW s \in Requests, s # r PROVE Session(s)' /\ HoldsBefore(s)'
    <3>1. Session(s) /\ HoldsBefore(s)  BY DEF BookIInv, OfRequest
    <3> QED  BY <1>1, <1>2, <2>1, <3>1, StillSession
  <2>2. Session(r) /\ HoldsBefore(r)  BY DEF BookIInv, OfRequest
  <2>3. Copy(r)'  BY <1>1, <1>3, <1>5, <2>2 DEF Session, Copy
  <2>4. Session(r)'
    <3>1. at'[r] \in Way(op'[r].do)  BY <1>1, <1>2 DEF Shares, Way
    <3> QED  BY <1>1, <1>2, <1>3, <1>4, <1>5, <2>2, <2>3, <3>1 DEF Session
  <2>5. HoldsBefore(r)'  BY <1>1, <1>2 DEF HoldsBefore, Shares
  <2> QED  BY <2>1, <2>4, <2>5
<1>8. \A s \in Requests : Numbered(s)' /\ ReadsCurrent(s)' /\ ClaimsOverlap(s)'
  <2> SUFFICES ASSUME NEW s \in Requests PROVE Numbered(s)' /\ ReadsCurrent(s)' /\ ClaimsOverlap(s)'
    OBVIOUS
  <2>1. Numbered(s) /\ ReadsCurrent(s) /\ ClaimsOverlap(s)  BY DEF BookIInv, OfRequest
  <2>2. Numbered(s)'  BY <1>1, <1>2, <1>3, <1>5, <2>1 DEF Numbered
  <2>3. ReadsCurrent(s)'  BY <1>1, <1>4, <1>5, <1>6, <2>1 DEF ReadsCurrent
  <2>4. ClaimsOverlap(s)'  BY <1>1, <1>4, <1>5, <2>1 DEF ClaimsOverlap, Wider
  <2> QED  BY <2>2, <2>3, <2>4
<1>9. ASSUME NoOtherShares, NEW s \in Requests, s # r PROVE ~(AtWork(s) /\ Shares(s))
  BY <1>1, <1>2, <1>9 DEF BookIInv, Tables, Together, NoOtherShares, Shares
<1>10. \A s \in Requests : SharesCurrent(s)'
  <2> SUFFICES ASSUME NEW s \in Requests, NoOtherShares, AtWork(s), Shares(s) PROVE SharesCurrent(s)'
    BY <1>4, <1>5, <1>6 DEF SharesCurrent
  <2>1. s = r  BY <1>9
  <2>2. SharesCurrent(r)  BY DEF BookIInv, OfRequest
  <2>3. /\ \A w \in row : w.shared = tx[r].read.shared
        /\ tx[r].mine.shared = IF op[r].do = "share" THEN tx[r].read.shared \cup {op[r].company}
                                                     ELSE tx[r].read.shared \ {op[r].company}
    BY <1>1, <1>2, <2>2 DEF SharesCurrent
  <2>4. IF op[r].do = "share" THEN op[r].company \notin withdrawn'
                              ELSE op[r].company \in unsaid' \/ op[r].company \notin grants'
    BY <1>1
  <2> QED  BY <1>1, <2>1, <2>3, <2>4 DEF SharesCurrent
<1>11. Tables'
  <2>1. VersionsOK'
    <3>1. \A s \in Requests : at[s] = "done" => at'[s] = "done"  BY <1>1, <1>2
    <3> QED  BY <1>1, <3>1 DEF BookIInv, Tables, VersionsOK
  <2>2. RowIsOne' /\ RunsOK'  BY <1>1 DEF BookIInv, Tables, RowIsOne, RunsOK
  <2>3. Together'  BY <1>1, <1>4 DEF BookIInv, Tables, Together
  <2>4. \A s \in Requests : IsOp(op[s])'  BY <1>1 DEF BookIInv, Tables, IsOp
  <2>5. grants' \subseteq Companies  BY <1>1, <1>2 DEF BookIInv, Tables
  <2> QED  BY <1>1, <1>2, <2>1, <2>2, <2>3, <2>4, <2>5 DEF BookIInv, Tables
<1>12. WithdrawnIsOut'
  <2> SUFFICES ASSUME NoOtherShares, NEW c \in withdrawn' \ unsaid'
               PROVE  c \notin grants' /\ \A w \in row : c \notin w.shared
    BY <1>1, <1>6 DEF WithdrawnIsOut, NoOtherShares
  <2>1. c \in withdrawn \ unsaid  BY <1>1
  <2>2. c \notin grants /\ \A w \in row : c \notin w.shared
    BY <2>1 DEF BookIInv, WithdrawnIsOut, NoOtherShares
  <2>3. c # op[r].company \/ op[r].do # "share"  BY <1>1
  <2> QED  BY <1>1, <2>2, <2>3
<1>13. VersionsAreInOrder'
  <2>1. VersionsAreInOrder  BY DEF BookIInv
  <2> QED  BY <1>1, <1>6, <2>1 DEF VersionsAreInOrder, NoRivals, Row
<1>14. RunsWhatWasChecked' /\ MandatesAreHonoured'
  BY <1>1 DEF BookIInv, RunsWhatWasChecked, MandatesAreHonoured, Wider
<1> QED
  <2>1. \A s \in Requests : OfRequest(s)'  BY <1>7, <1>8, <1>10 DEF OfRequest
  <2> QED  BY <1>11, <1>12, <1>13, <1>14, <2>1 DEF BookIInv

-----------------------------------------------------------------------------
(* The commit.                                                             *)

\* Whoever is at work when a request commits has overlapped with it.
LEMMA CommitFrame ==
  ASSUME BookIInv, NEW r \in Requests, Commit(r)
  PROVE  /\ at[r] = "commit" /\ AtWork(r) /\ Tables /\ OfRequest(r)
         /\ DOMAIN at' = Requests /\ DOMAIN tx' = Requests /\ at'[r] = "done" /\ OfRequest(r)'
         /\ \A s \in Requests : s # r => at'[s] = at[s] /\ tx'[s] = tx[s] /\ (AtWork(s)' <=> AtWork(s))
         /\ \A s \in Requests : s # r /\ AtWork(s) => {r, s} \in overlapped /\ {s, r} \in overlapped
         /\ Together'
         /\ UNCHANGED <<grants, op, runs, overlapped, unsaid>>
<1>1. /\ at[r] = "commit" /\ AtWork(r) /\ Goes(r, "done") /\ tx' = [tx EXCEPT ![r] = NoTx]
      /\ UNCHANGED <<grants, op, runs, overlapped, unsaid>>
  BY DEF Commit, AtWork, Ended
<1>2. Tables /\ OfRequest(r)  BY DEF BookIInv
<1>3. /\ DOMAIN at' = Requests /\ DOMAIN tx' = Requests /\ at'[r] = "done" /\ tx'[r] = NoTx
      /\ \A s \in Requests : s # r => at'[s] = at[s] /\ tx'[s] = tx[s]
  BY <1>1, <1>2 DEF Goes, Tables
<1>4. OfRequest(r)'  BY <1>3, EndedRequest DEF Ended
<1>5. \A s \in Requests : (s # r => (AtWork(s)' <=> AtWork(s))) /\ (AtWork(s)' => AtWork(s))
  BY <1>1, <1>3 DEF AtWork
<1>6. Together'  BY <1>1, <1>2, <1>5 DEF Tables, Together
<1>7. \A s \in Requests : s # r /\ AtWork(s) => {r, s} \in overlapped /\ {s, r} \in overlapped
  BY <1>1, <1>2 DEF Tables, Together
<1> QED  BY <1>1, <1>2, <1>3, <1>4, <1>5, <1>6, <1>7

LEMMA UpToNext ==
  ASSUME NEW n \in Nat PROVE \A i \in 1 .. n + 1 : i = n + 1 \/ i \in 1 .. n
OBVIOUS

\* What is said of a request that creates while it is at work with others.
LEMMA CreatedStep ==
  ASSUME BookIInv, NEW r \in Requests, AtWork(r), Creates(r),
         NEW w \in NewRows, tx[r].new = {w}, w.id = r, made' = Append(made, w),
         DOMAIN at' = Requests, DOMAIN tx' = Requests, OfRequest(r)', AtWork(r)' \/ at'[r] = "done",
         \A s \in Requests : s # r => at'[s] = at[s] /\ tx'[s] = tx[s],
         UNCHANGED <<op, row, versions, runs, overlapped, grants, withdrawn, unsaid>>
  PROVE  BookIInv'
<1>1. /\ Tables /\ OfRequest(r)
      /\ \A s \in Requests : AtWork(s)' => AtWork(s)
      /\ \A s \in Requests : s # r => (AtWork(s)' <=> AtWork(s))
  BY DEF BookIInv, AtWork
<1>2. /\ \A s \in Requests : s # r /\ AtWork(s) => {r, s} \in overlapped /\ {s, r} \in overlapped
      /\ Together'
  BY <1>1 DEF Tables, Together
<1>3. made \in Seq(NewRows) /\ ClaimsOverlap(r)  BY <1>1 DEF Tables, OfRequest
<1>4. PICK n \in Nat :
        /\ made' \in Seq(NewRows)
        /\ DOMAIN made = 1 .. n /\ DOMAIN made' = 1 .. n + 1
        /\ \A i \in 1 .. n : made'[i] = made[i]
        /\ made'[n + 1] = w
  <2>1. /\ made' \in Seq(NewRows) /\ Len(made) \in Nat
        /\ DOMAIN made = 1 .. Len(made) /\ DOMAIN made' = 1 .. Len(made) + 1
        /\ \A i \in 1 .. Len(made) : made'[i] = made[i]
        /\ made'[Len(made) + 1] = w
    BY <1>3
  <2> QED  BY <2>1
<1>5. ASSUME NEW s \in Requests, s # r PROVE OfRequest(s)'
  <2>1. OfRequest(s) /\ at'[s] = at[s] /\ tx'[s] = tx[s]  BY <1>5 DEF BookIInv
  <2>2. Session(s)' /\ HoldsBefore(s)' /\ (AtWork(s)' <=> AtWork(s))
    BY <2>1, StillSession DEF OfRequest
  <2>3. /\ Publishes(s)' <=> Publishes(s)
        /\ Creates(s)' <=> Creates(s)
        /\ Shares(s)' <=> Shares(s)
        /\ NoRivals' <=> NoRivals
        /\ NoOtherShares' <=> NoOtherShares
    BY DEF Publishes, Creates, Shares, NoRivals, NoOtherShares
  <2>4. Numbered(s)'  BY <2>1, <2>3 DEF OfRequest, Numbered
  <2>5. ReadsCurrent(s)'  BY <2>1, <2>2, <2>3 DEF OfRequest, ReadsCurrent
  <2>6. SharesCurrent(s)'  BY <2>1, <2>2, <2>3 DEF OfRequest, SharesCurrent
  <2>7. ClaimsOverlap(s)'
    <3> SUFFICES ASSUME AtWork(s), Creates(s), NEW x \in tx[s].new, NEW i \in 1 .. n + 1,
                        made'[i].mandated, made'[i].trigger = x.trigger, made'[i].scope \in Wider(x.scope)
                 PROVE  {made'[i].id, s} \in overlapped
      BY <1>4, <2>1, <2>2, <2>3 DEF ClaimsOverlap, Wider
    <3>1. CASE i = n + 1  BY <1>2, <1>4, <1>5, <3>1
    <3>2. CASE i \in 1 .. n  BY <1>4, <2>1, <3>2 DEF OfRequest, ClaimsOverlap
    <3> QED  BY <3>1, <3>2, UpToNext
  <2> QED  BY <2>2, <2>4, <2>5, <2>6, <2>7 DEF OfRequest
<1>6. \A s \in Requests : OfRequest(s)'  BY <1>5
<1>7. MandatesAreHonoured'
  <2> SUFFICES ASSUME NEW i \in 1 .. n + 1, NEW j \in 1 .. n + 1, i < j, made'[i].mandated,
                      made'[i].trigger = made'[j].trigger, made'[i].scope \in Wider(made'[j].scope)
               PROVE  {made'[i].id, made'[j].id} \in overlapped
    BY <1>4 DEF MandatesAreHonoured, Wider
  <2>1. i \in 1 .. n  BY <1>4
  <2>2. CASE j = n + 1
    <3>1. made'[j] = w /\ made'[i] = made[i]  BY <1>4, <2>1, <2>2
    <3>2. w \in tx[r].new /\ i \in DOMAIN made  BY <1>4, <2>1
    <3>3. {made[i].id, r} \in overlapped  BY <1>3, <3>1, <3>2 DEF ClaimsOverlap
    <3> QED  BY <3>1, <3>3
  <2>3. CASE j \in 1 .. n
    BY <1>4, <2>1, <2>3 DEF BookIInv, MandatesAreHonoured
  <2> QED  BY <2>2, <2>3, UpToNext
<1>8. Tables'
  <2>1. VersionsOK'
    <3>1. \A s \in Requests : at[s] = "done" => at'[s] = "done"  BY DEF AtWork, Ended
    <3> QED  BY <1>1, <3>1 DEF Tables, VersionsOK
  <2>2. RowIsOne' /\ RunsOK'  BY <1>1 DEF Tables, RowIsOne, RunsOK
  <2>3. \A s \in Requests : IsOp(op[s])'  BY <1>1 DEF Tables, IsOp
  <2> QED  BY <1>1, <1>2, <1>4, <2>1, <2>2, <2>3 DEF Tables
<1>9. VersionsAreInOrder' /\ WithdrawnIsOut' /\ RunsWhatWasChecked'
  <2>1. VersionsAreInOrder /\ WithdrawnIsOut /\ RunsWhatWasChecked  BY DEF BookIInv
  <2>2. (\A p \in overlapped' : \E s \in p : ~Publishes(s)') => \A p \in overlapped : \E s \in p : ~Publishes(s)
    BY DEF Publishes
  <2>3. VersionsAreInOrder'  BY <2>1, <2>2 DEF VersionsAreInOrder, Row
  <2>4. WithdrawnIsOut'  BY <2>1 DEF WithdrawnIsOut
  <2>5. RunsWhatWasChecked'  BY <2>1 DEF RunsWhatWasChecked
  <2> QED  BY <2>3, <2>4, <2>5
<1> QED  BY <1>6, <1>7, <1>8, <1>9 DEF BookIInv

\* A creation that commits in the middle has nothing left to add.
LEMMA KeepStep ==
  ASSUME BookIInv, NEW r \in Requests, Keep(r)
  PROVE  BookIInv'
<1>1. /\ at[r] = "keep" /\ AtWork(r) /\ Goes(r, AfterCreate(r)) /\ tx' = [tx EXCEPT ![r] = NoTx]
      /\ UNCHANGED <<op, row, versions, runs, overlapped, grants, withdrawn, unsaid>>
  BY DEF Keep, Untold, AtWork, Ended
<1>2. op[r].do = "create" /\ Session(r)  BY <1>1, AtStatement DEF Way, OfRequest
<1>3. PICK w \in NewRows : tx[r].new = {w} /\ w.id = r /\ made' = Append(made, w)
  <2>1. PICK w \in NewRows : tx[r].new = {w} /\ w.id = r
    BY <1>1, <1>2 DEF Session, Creates, Adding
  <2> QED  BY <2>1 DEF Keep
<1>4. /\ DOMAIN at' = Requests /\ DOMAIN tx' = Requests /\ tx'[r] = NoTx
      /\ \A s \in Requests : s # r => at'[s] = at[s] /\ tx'[s] = tx[s]
      /\ at'[r] \in {"sync", "commit"}
  BY <1>1, AtStatement DEF Goes, AfterCreate
<1>5. AtWork(r)' /\ ~Publishes(r)' /\ ~Reads(r)' /\ ~Shares(r)' /\ Creates(r)
  BY <1>1, <1>2, <1>4 DEF AtWork, Ended, Publishes, Reads, Shares, Creates
<1>6. Session(r)'
  BY <1>1, <1>2, <1>4, <1>5 DEF Session, NoTx, Fields, Way
<1>7. OfRequest(r)'
  BY <1>1, <1>2, <1>4, <1>5, <1>6
     DEF OfRequest, HoldsBefore, Numbered, ReadsCurrent, SharesCurrent, ClaimsOverlap, NoTx
<1> QED  BY <1>1, <1>3, <1>4, <1>5, <1>7, CreatedStep

LEMMA CommitAdds ==
  ASSUME BookIInv, NEW r \in Requests, Commit(r), Creates(r)
  PROVE  BookIInv'
<1>1. UNCHANGED <<op, row, versions, runs, overlapped, grants, withdrawn, unsaid>>
  BY CommitFrame DEF Commit, Creates
<1>2. CASE tx[r].new = {}
  <2>1. made' = made  BY <1>2 DEF Commit, Creates
  <2> QED  BY <1>1, <2>1, CommitFrame, OwnStep
<1>3. CASE tx[r].new # {}
  <2>1. PICK w \in NewRows : tx[r].new = {w} /\ w.id = r
    BY <1>3, CommitFrame DEF OfRequest, Session, Adding
  <2>2. made' = Append(made, w)  BY <2>1 DEF Commit, Creates
  <2> QED  BY <1>1, <2>1, <2>2, CommitFrame, CreatedStep
<1> QED  BY <1>2, <1>3

\* What is in the row afterwards.
LEMMA CommittedRow ==
  ASSUME BookIInv, NEW r \in Requests, Commit(r), ~Creates(r)
  PROVE  \/ row' = {}
         \/ \E w \in Rows, u \in Rows :
              /\ row = {w} /\ row' = {u}
              /\ \A c \in Columns \ Touches(r) : u[c] = w[c]
              /\ Publishes(r) => u.pointer = r
              /\ Shares(r) => u.shared = tx[r].mine.shared \/ (u.shared = w.shared /\ tx[r].mine.shared = tx[r].read.shared)
<1>1. row' = IF tx[r].gone THEN {} ELSE IF Reads(r) THEN { Merged(r, w) : w \in row } ELSE row
  BY DEF Commit, Creates
<1>2. row = {} \/ \E w \in Rows : row = {w}  BY CommitFrame DEF Tables, RowIsOne
<1>3. CASE row = {}  BY <1>1, <1>3
<1>4. ASSUME NEW w \in Rows, row = {w}, Reads(r), row' = {Merged(r, w)}
      PROVE  \E u \in Rows :
              /\ row' = {u}
              /\ \A c \in Columns \ Touches(r) : u[c] = w[c]
              /\ Publishes(r) => u.pointer = r
              /\ Shares(r) => u.shared = tx[r].mine.shared \/ (u.shared = w.shared /\ tx[r].mine.shared = tx[r].read.shared)
  <2>1. Copy(r) /\ (Publishes(r) => Publication(r))
    BY <1>4, CommitFrame DEF OfRequest, Session
  <2>2. Written(r) \subseteq Touches(r) /\ Written(r) \subseteq Columns  BY <2>1, WrittenTouches
  <2> DEFINE mine == tx[r].mine
             u == Merged(r, w)
  <2>3. mine \in Rows /\ DOMAIN w = Columns /\ DOMAIN mine = Columns  BY <1>4, <2>1, RowColumns DEF Copy
  <2>4. /\ u = [c \in Columns |-> u[c]] /\ DOMAIN u = Columns
        /\ \A c \in Columns : u[c] = IF c \in Written(r) THEN mine[c] ELSE w[c]
    BY <2>3 DEF Merged
  <2> HIDE DEF u
  <2>5. u \in Rows
    <3>1. /\ u["definition"] \in Contents /\ u["trigger"] \in Triggers /\ u["config"] \in Config
          /\ u["active"] \in BOOLEAN /\ u["pointer"] \in Ids \cup {None} /\ u["shared"] \in SUBSET Companies
      BY <1>4, <2>3, <2>4, RowColumns DEF Columns
    <3> QED  BY <2>4, <3>1, RowOfColumns
  <2>6. \A c \in Columns \ Touches(r) : u[c] = w[c]  BY <2>2, <2>4
  <2>7. ASSUME Publishes(r) PROVE u.pointer = r
    <3>1. mine.pointer = r /\ "pointer" \in Columns  BY <2>1, <2>7, CommitFrame DEF Publication, Columns
    <3>2. tx[r].read.pointer # r
      <4>1. r # None  BY IdsAssumption DEF Ids
      <4>2. ~\E v \in versions : v.id = r  BY CommitFrame DEF Tables, VersionsOK
      <4> QED  BY <2>1, <4>1, <4>2 DEF Copy
    <3>3. "pointer" \in Written(r)  BY <2>3, <3>1, <3>2 DEF Written
    <3> QED  BY <2>4, <3>1, <3>3
  <2>8. u.shared = mine.shared \/ (u.shared = w.shared /\ mine.shared = tx[r].read.shared)
    <3>1. "shared" \in Columns  BY DEF Columns
    <3>2. CASE "shared" \in Written(r)  BY <2>4, <3>1, <3>2
    <3>3. CASE "shared" \notin Written(r)  BY <2>3, <2>4, <3>1, <3>3 DEF Written
    <3> QED  BY <3>2, <3>3
  <2> QED  BY <1>4, <2>5, <2>6, <2>7, <2>8 DEF u
<1>5. CASE row # {}
  <2>1. PICK w \in Rows : row = {w}  BY <1>2, <1>5
  <2>2. CASE Reads(r) /\ row' = {Merged(r, x) : x \in row}
    <3>1. row' = {Merged(r, w)}  BY <2>1, <2>2
    <3> QED  BY <1>4, <2>1, <2>2, <3>1
  <2>3. CASE ~Reads(r) /\ row' = row
    <3>1. ~Publishes(r) /\ ~Shares(r)  BY <2>3 DEF Reads, Publishes, Shares
    <3> QED  BY <2>1, <2>3, <3>1
  <2> QED  BY <1>1, <2>2, <2>3
<1> QED  BY <1>3, <1>5

\* What a request that does not publish leaves as it is.
LEMMA OthersTouch ==
  ASSUME NEW r \in Requests, IsOp(op[r])
  PROVE  /\ ~Publishes(r) => "pointer" \notin Touches(r)
         /\ ~Shares(r) => "shared" \notin Touches(r)
<1>1. op[r].do = "update" => DOMAIN op[r].set \subseteq {"definition", "trigger", "config", "active"}
  BY DEF IsOp, Editable
<1> QED  BY <1>1 DEF Touches, Publishes, Shares

\* Versions keep their ids, numbers and definitions; a publication adds one.
LEMMA ArchivedVersion ==
  ASSUME NEW v \in Versions, NEW ids, NEW u,
         u = IF v.id \in ids THEN [v EXCEPT !.status = "archived"] ELSE v
  PROVE  /\ u \in Versions /\ u.id = v.id /\ u.num = v.num /\ u.definition = v.definition
         /\ u.status = IF v.id \in ids THEN "archived" ELSE v.status
BY DEF Versions

LEMMA CommittedVersions ==
  ASSUME BookIInv, NEW r \in Requests, Commit(r), ~Creates(r)
  PROVE  /\ made' = made
         /\ withdrawn' = IF op[r].do = "unshare" THEN withdrawn \cup {op[r].company} ELSE withdrawn
         /\ \A v \in versions : \E u \in versions' :
              /\ u.id = v.id /\ u.num = v.num /\ u.definition = v.definition
         /\ \A u \in versions' :
              \/ \E v \in versions :
                   /\ u.id = v.id /\ u.num = v.num /\ u.definition = v.definition
                   /\ u.status = IF v.id \in tx[r].archived THEN "archived" ELSE v.status
              \/ Publishes(r) /\ u.id = r /\ u.num = tx[r].num
         /\ Publishes(r) => \E u \in versions' : u.id = r /\ u.status = "active"
         /\ ~Publishes(r) => versions' = versions
         /\ VersionsOK'
<1> DEFINE After(v) == IF v.id \in tx[r].archived THEN [v EXCEPT !.status = "archived"] ELSE v
<1>1. /\ versions' = { After(v) : v \in versions } \cup tx[r].new
      /\ made' = made
      /\ withdrawn' = IF op[r].do = "unshare" THEN withdrawn \cup {op[r].company} ELSE withdrawn
  BY DEF Commit, Creates
<1>2. VersionsOK /\ Session(r) /\ Numbered(r) /\ AtWork(r) /\ at[r] = "commit"
  BY CommitFrame DEF Tables, OfRequest
<1>3. \A v \in versions : /\ After(v) \in Versions /\ After(v).id = v.id /\ After(v).num = v.num
                          /\ After(v).definition = v.definition
                          /\ After(v).status = IF v.id \in tx[r].archived THEN "archived" ELSE v.status
  BY <1>2, ArchivedVersion DEF VersionsOK
<1>4. ASSUME ~Publishes(r) PROVE versions' = versions
  <2>1. tx[r].archived = {} /\ tx[r].new = {}  BY <1>2, <1>4 DEF Session
  <2> QED  BY <1>1, <2>1
<1>5. \A n \in tx[r].new : Publishes(r) /\ n \in Versions /\ n.id = r /\ n.status = "active" /\ n.num = tx[r].num
  BY <1>2 DEF Session, Publication
<1>6. Publishes(r) => \E n \in tx[r].new : n.id = r /\ n.status = "active"
  BY <1>2 DEF Session, Publication
<1> HIDE DEF After
<1>7. /\ \A v \in versions : After(v) \in versions'
      /\ \A u \in versions' : (\E v \in versions : u = After(v)) \/ u \in tx[r].new
  BY <1>1
<1>8. VersionsOK'
  <2>1. versions' \subseteq Versions  BY <1>3, <1>5, <1>7
  <2>2. \E b \in Nat : \A v \in versions' : v.num <= b
    <3>1. PICK b \in Nat : \A v \in versions : v.num <= b  BY <1>2 DEF VersionsOK
    <3>2. CASE Publishes(r)
      <4>1. tx[r].num \in Nat  BY <1>2, <3>2 DEF Numbered
      <4>2. \A u \in versions' : u.num \in Nat /\ (u.num <= b \/ u.num = tx[r].num)
        BY <1>3, <1>5, <1>7, <2>1, <3>1 DEF Versions
      <4>3. b + tx[r].num \in Nat /\ \A u \in versions' : u.num <= b + tx[r].num  BY <3>1, <4>1, <4>2
      <4> QED  BY <4>3
    <3>3. CASE ~Publishes(r)  BY <1>4, <3>1, <3>3
    <3> QED  BY <3>2, <3>3
  <2>3. ASSUME NEW u \in versions', NEW v \in versions', u.id = v.id PROVE u = v
    <3>1. \A x \in versions : x.id # r  BY <1>2 DEF VersionsOK
    <3>2. CASE u \in tx[r].new
      <4>1. v \in tx[r].new  BY <1>3, <1>5, <1>7, <2>3, <3>1, <3>2
      <4>2. \A x, y \in tx[r].new : x = y  BY <1>2, <1>5 DEF Session, Publication
      <4> QED  BY <3>2, <4>1, <4>2
    <3>3. CASE u \notin tx[r].new
      <4>1. PICK x \in versions : u = After(x)  BY <1>7, <3>3
      <4>2. v \notin tx[r].new  BY <1>3, <1>5, <2>3, <3>1, <4>1
      <4>3. PICK y \in versions : v = After(y)  BY <1>7, <4>2
      <4>4. x = y  BY <1>2, <1>3, <2>3, <4>1, <4>3 DEF VersionsOK
      <4> QED  BY <4>1, <4>3, <4>4
    <3> QED  BY <3>2, <3>3
  <2>4. ASSUME NEW s \in Requests, NEW u \in versions', u.id = s PROVE at'[s] = "done"
    <3>1. CASE s = r  BY <3>1, CommitFrame
    <3>2. CASE s # r
      <4>1. \E v \in versions : v.id = s  BY <1>3, <1>5, <1>7, <2>4, <3>2
      <4> QED  BY <1>2, <3>2, <4>1, CommitFrame DEF VersionsOK
    <3> QED  BY <3>1, <3>2
  <2> QED  BY <2>1, <2>2, <2>3, <2>4 DEF VersionsOK
<1>9. \A v \in versions : \E u \in versions' : u.id = v.id /\ u.num = v.num /\ u.definition = v.definition
  BY <1>3, <1>7
<1>10. ASSUME NEW u \in versions'
       PROVE  \/ \E v \in versions :
                   /\ u.id = v.id /\ u.num = v.num /\ u.definition = v.definition
                   /\ u.status = IF v.id \in tx[r].archived THEN "archived" ELSE v.status
              \/ Publishes(r) /\ u.id = r /\ u.num = tx[r].num
  BY <1>3, <1>5, <1>7
<1>11. Publishes(r) => \E u \in versions' : u.id = r /\ u.status = "active"
  BY <1>1, <1>6
<1> QED  BY <1>1, <1>4, <1>8, <1>9, <1>10, <1>11

\* The others have overlapped with whoever commits, and are told apart from
\* it by what they rely on.
LEMMA CommitBeside ==
  ASSUME BookIInv, NEW r \in Requests, Commit(r), ~Creates(r), NEW s \in Requests, s # r
  PROVE  OfRequest(s)'
<1>1. OfRequest(s) /\ Tables /\ IsOp(op[r])  BY CommitFrame DEF Tables, BookIInv
<1>2. Session(s)' /\ HoldsBefore(s)' /\ (AtWork(s)' <=> AtWork(s))
  <2>1. \A v \in versions : \E u \in versions' : u.id = v.id  BY CommittedVersions
  <2> QED  BY <1>1, <2>1, CommitFrame, StillSession DEF OfRequest
<1>3. /\ Publishes(s)' <=> Publishes(s)
      /\ Creates(s)' <=> Creates(s)
      /\ Shares(s)' <=> Shares(s)
      /\ NoRivals' <=> NoRivals
      /\ NoOtherShares' <=> NoOtherShares
      /\ at'[s] = at[s] /\ tx'[s] = tx[s] /\ op' = op
  BY CommitFrame DEF Publishes, Creates, Shares, NoRivals, NoOtherShares
<1>4. AtWork(s) => {r, s} \in overlapped /\ {s, r} \in overlapped  BY CommitFrame
<1>5. Numbered(s)'
  <2> SUFFICES ASSUME Publishes(s), at[s] \in {"archive", "insert", "point", "commit"}
               PROVE  /\ tx[s].num \in Nat
                      /\ \A u \in versions' : u.num < tx[s].num \/ {s, u.id} \in overlapped
    BY <1>3, CommitFrame DEF Numbered
  <2>1. AtWork(s)  BY DEF AtWork, Ended
  <2>2. /\ tx[s].num \in Nat
        /\ \A v \in versions : v.num < tx[s].num \/ {s, v.id} \in overlapped
    BY <1>1 DEF OfRequest, Numbered
  <2>3. ASSUME NEW u \in versions' PROVE u.num < tx[s].num \/ {s, u.id} \in overlapped
    <3>1. (\E v \in versions : u.id = v.id /\ u.num = v.num) \/ u.id = r  BY CommittedVersions
    <3> QED  BY <1>4, <2>1, <2>2, <3>1
  <2> QED  BY <2>2, <2>3
<1>6. row' = {} \/ \E w \in Rows, u \in Rows :
        row = {w} /\ row' = {u} /\ \A c \in Columns \ Touches(r) : u[c] = w[c]
  BY CommittedRow
<1>7. ReadsCurrent(s)'
  <2> SUFFICES ASSUME NoRivals, AtWork(s), Publishes(s) PROVE \A w \in row' : w.pointer = tx[s].read.pointer
    BY <1>2, <1>3 DEF ReadsCurrent
  <2>1. ~Publishes(r)  BY <1>4 DEF NoRivals
  <2>2. "pointer" \in Columns \ Touches(r)  BY <1>1, <2>1, OthersTouch DEF Columns
  <2>3. \A w \in row : w.pointer = tx[s].read.pointer  BY <1>1 DEF OfRequest, ReadsCurrent
  <2> QED  BY <1>6, <2>2, <2>3
<1>8. SharesCurrent(s)'
  <2> SUFFICES ASSUME NoOtherShares, AtWork(s), Shares(s) PROVE SharesCurrent(s)'
    BY <1>2, <1>3 DEF SharesCurrent
  <2>1. ~Shares(r)
    <3>1. PICK x \in {r, s} : op[x].do \notin {"share", "unshare"}  BY <1>4 DEF NoOtherShares
    <3> QED  BY <3>1 DEF Shares
  <2>2. "shared" \in Columns \ Touches(r)  BY <1>1, <2>1, OthersTouch DEF Columns
  <2>3. /\ \A w \in row : w.shared = tx[s].read.shared
        /\ tx[s].mine.shared = IF op[s].do = "share" THEN tx[s].read.shared \cup {op[s].company}
                                                     ELSE tx[s].read.shared \ {op[s].company}
        /\ at[s] = "commit" => IF op[s].do = "share" THEN op[s].company \notin withdrawn
                                                     ELSE op[s].company \in unsaid \/ op[s].company \notin grants
    BY <1>1 DEF OfRequest, SharesCurrent
  <2>4. \A w \in row' : w.shared = tx[s].read.shared  BY <1>6, <2>2, <2>3
  <2>5. withdrawn' = withdrawn /\ unsaid' = unsaid /\ grants' = grants
    BY <2>1, CommittedVersions, CommitFrame DEF Shares
  <2> QED  BY <1>3, <2>3, <2>4, <2>5 DEF SharesCurrent
<1>9. ClaimsOverlap(s)'
  BY <1>1, <1>2, <1>3, CommittedVersions, CommitFrame DEF OfRequest, ClaimsOverlap, Wider
<1> QED  BY <1>2, <1>5, <1>7, <1>8, <1>9 DEF OfRequest

\* The number that was drawn last is told apart, and so is the version that
\* is current.
LEMMA CommitOrders ==
  ASSUME BookIInv, NEW r \in Requests, Commit(r), ~Creates(r)
  PROVE  VersionsAreInOrder'
<1>1. /\ VersionsAreInOrder /\ VersionsOK /\ RowIsOne /\ OfRequest(r) /\ AtWork(r) /\ at[r] = "commit"
      /\ IsOp(op[r]) /\ op' = op /\ overlapped' = overlapped
  BY CommitFrame DEF BookIInv, Tables
<1>2. NoRivals' <=> NoRivals  BY <1>1 DEF NoRivals, Publishes
<1>3. ASSUME NEW u \in versions', NEW v \in versions', u # v, u.num = v.num
      PROVE  {u.id, v.id} \in overlapped
  <2>1. \A x, y \in versions : x # y /\ x.num = y.num => {x.id, y.id} \in overlapped
    BY <1>1 DEF VersionsAreInOrder
  <2>2. \A x, y \in versions' : x.id = y.id => x = y  BY CommittedVersions DEF VersionsOK
  <2>3. Publishes(r) => tx[r].num \in Nat /\ \A x \in versions : x.num < tx[r].num \/ {r, x.id} \in overlapped
    BY <1>1 DEF OfRequest, Numbered
  <2>4. \A x \in versions : x.num \in Nat  BY <1>1 DEF VersionsOK, Versions
  <2>5. \A x \in versions' : (\E y \in versions : x.id = y.id /\ x.num = y.num)
                               \/ (Publishes(r) /\ x.id = r /\ x.num = tx[r].num)
    BY CommittedVersions
  <2>6. CASE \E y \in versions : u.id = y.id /\ u.num = y.num
    <3>1. PICK y \in versions : u.id = y.id /\ u.num = y.num  BY <2>6
    <3>2. CASE \E z \in versions : v.id = z.id /\ v.num = z.num
      <4>1. PICK z \in versions : v.id = z.id /\ v.num = z.num  BY <3>2
      <4>2. y # z  BY <1>3, <2>2, <3>1, <4>1
      <4> QED  BY <1>3, <2>1, <3>1, <4>1, <4>2
    <3>3. CASE Publishes(r) /\ v.id = r /\ v.num = tx[r].num
      <4>1. y.num = tx[r].num /\ y.num \in Nat  BY <1>3, <2>4, <3>1, <3>3
      <4>2. {r, u.id} \in overlapped
        <5> DEFINE n == y.num
        <5>1. n \in Nat /\ tx[r].num = n  BY <4>1
        <5> HIDE DEF n
        <5>2. ~(n < n)  BY <5>1
        <5>3. ~(y.num < tx[r].num)  BY <4>1, <5>2 DEF n
        <5> QED  BY <2>3, <3>1, <3>3, <5>3
      <4>3. {r, u.id} = {u.id, v.id}  BY <3>3
      <4> QED  BY <4>2, <4>3
    <3> QED  BY <2>5, <3>2, <3>3
  <2>7. CASE Publishes(r) /\ u.id = r /\ u.num = tx[r].num
    <3>1. CASE \E z \in versions : v.id = z.id /\ v.num = z.num
      <4>1. PICK z \in versions : v.id = z.id /\ v.num = z.num  BY <3>1
      <4>2. z.num = tx[r].num /\ z.num \in Nat  BY <1>3, <2>4, <2>7, <4>1
      <4>3. ~(z.num < tx[r].num)
        <5> DEFINE n == z.num
        <5>1. n \in Nat /\ tx[r].num = n  BY <4>2
        <5> HIDE DEF n
        <5>2. ~(n < n)  BY <5>1
        <5> QED  BY <4>2, <5>2 DEF n
      <4> QED  BY <2>3, <2>7, <4>1, <4>3
    <3>2. CASE v.id = r  BY <1>3, <2>2, <2>7, <3>2
    <3> QED  BY <2>5, <3>1, <3>2
  <2> QED  BY <2>5, <2>6, <2>7
<1>4. ASSUME row' # {}, NoRivals
      PROVE  { v.id : v \in { x \in versions' : x.status = "active" } } = {Row'.pointer} \ {None}
  <2>1. PICK w \in Rows, u \in Rows :
          /\ row = {w} /\ row' = {u}
          /\ \A c \in Columns \ Touches(r) : u[c] = w[c]
          /\ Publishes(r) => u.pointer = r
    BY <1>4, CommittedRow
  <2>2. Row = w /\ Row' = u  BY <2>1 DEF Row
  <2>3. { v.id : v \in { x \in versions : x.status = "active" } } = {w.pointer} \ {None}
    BY <1>1, <1>4, <2>1, <2>2 DEF VersionsAreInOrder, NoRivals
  <2>4. CASE ~Publishes(r)
    <3>1. u.pointer = w.pointer  BY <1>1, <2>1, <2>4, OthersTouch DEF Columns
    <3>2. versions' = versions  BY <2>4, CommittedVersions
    <3> QED  BY <2>2, <2>3, <3>1, <3>2
  <2>5. CASE Publishes(r)
    <3>1. tx[r].archived = {w.pointer} \ {None}
      BY <1>1, <1>4, <2>1, <2>5 DEF OfRequest, Session, Publication, ReadsCurrent
    <3>2. \A v \in versions : v.status = "active" => v.id \in tx[r].archived  BY <2>3, <3>1
    <3>3. \A x \in versions' : x.status = "active" => x.id = r
      <4>1. ASSUME NEW x \in versions', x.status = "active" PROVE x.id = r
        <5>1. (\E v \in versions : x.status = IF v.id \in tx[r].archived THEN "archived" ELSE v.status) \/ x.id = r
          BY CommittedVersions
        <5> QED  BY <3>2, <4>1, <5>1
      <4> QED  BY <4>1
    <3>4. \E x \in versions' : x.id = r /\ x.status = "active"  BY <2>5, CommittedVersions
    <3>5. r # None  BY IdsAssumption DEF Ids
    <3> QED  BY <2>1, <2>2, <2>5, <3>3, <3>4, <3>5
  <2> QED  BY <2>4, <2>5
<1> QED  BY <1>1, <1>2, <1>3, <1>4 DEF VersionsAreInOrder, NoRivals

\* A share that is withdrawn is out of both lists.
LEMMA CommitWithdraws ==
  ASSUME BookIInv, NEW r \in Requests, Commit(r), ~Creates(r)
  PROVE  WithdrawnIsOut'
<1>1. /\ WithdrawnIsOut /\ OfRequest(r) /\ AtWork(r) /\ at[r] = "commit" /\ IsOp(op[r])
      /\ UNCHANGED <<op, overlapped, grants, unsaid>>
      /\ withdrawn' = IF op[r].do = "unshare" THEN withdrawn \cup {op[r].company} ELSE withdrawn
  BY CommitFrame, CommittedVersions DEF BookIInv, Tables
<1> SUFFICES ASSUME NoOtherShares, NEW c \in withdrawn', c \notin unsaid
             PROVE  c \notin grants /\ \A w \in row' : c \notin w.shared
  BY <1>1 DEF WithdrawnIsOut, NoOtherShares
<1>2. \A d \in withdrawn \ unsaid : d \notin grants /\ \A w \in row : d \notin w.shared
  BY <1>1 DEF WithdrawnIsOut, NoOtherShares
<1>3. CASE ~Shares(r)
  <2>1. withdrawn' = withdrawn  BY <1>1, <1>3 DEF Shares
  <2>2. "shared" \in Columns \ Touches(r)  BY <1>1, <1>3, OthersTouch DEF Columns
  <2>3. row' = {} \/ \E w \in Rows, u \in Rows : row = {w} /\ row' = {u} /\ u["shared"] = w["shared"]
    BY <2>2, CommittedRow
  <2> QED  BY <1>2, <2>1, <2>3
<1>4. CASE Shares(r)
  <2>1. /\ \A w \in row : w.shared = tx[r].read.shared
        /\ tx[r].mine.shared = IF op[r].do = "share" THEN tx[r].read.shared \cup {op[r].company}
                                                     ELSE tx[r].read.shared \ {op[r].company}
        /\ IF op[r].do = "share" THEN op[r].company \notin withdrawn
                                 ELSE op[r].company \in unsaid \/ op[r].company \notin grants
    BY <1>1, <1>4 DEF OfRequest, SharesCurrent
  <2>2. c \notin grants  BY <1>1, <1>2, <2>1
  <2>3. row' = {} \/ \E w \in row, u \in Rows : row' = {u} /\ u.shared = tx[r].mine.shared
    BY <1>4, <2>1, CommittedRow
  <2>4. \A w \in row : c \notin tx[r].mine.shared
    <3> SUFFICES ASSUME NEW w \in row PROVE c \notin tx[r].mine.shared  OBVIOUS
    <3>1. CASE op[r].do = "share"
      <4>1. c \in withdrawn  BY <1>1, <3>1
      <4> QED  BY <1>2, <2>1, <3>1, <4>1
    <3>2. CASE op[r].do # "share"
      <4>1. c \in withdrawn \/ c = op[r].company  BY <1>1
      <4> QED  BY <1>2, <2>1, <3>2, <4>1
    <3> QED  BY <3>1, <3>2
  <2> QED  BY <2>2, <2>3, <2>4
<1> QED  BY <1>3, <1>4

LEMMA CommitWrites ==
  ASSUME BookIInv, NEW r \in Requests, Commit(r), ~Creates(r)
  PROVE  BookIInv'
<1>1. \A s \in Requests : OfRequest(s)'  BY CommitBeside, CommitFrame
<1>2. Tables'
  <2>1. VersionsOK'  BY CommittedVersions
  <2>2. RowIsOne'
    <3>1. CASE row' = {}  BY <3>1 DEF RowIsOne
    <3>2. ASSUME row' # {} PROVE RowIsOne'
      <4>1. PICK w \in Rows, u \in Rows :
              /\ row = {w} /\ row' = {u}
              /\ \A c \in Columns \ Touches(r) : u[c] = w[c]
              /\ Publishes(r) => u.pointer = r
        BY <3>2, CommittedRow
      <4>2. u.pointer # None => \E v \in versions' : v.id = u.pointer
        <5>1. CASE Publishes(r)  BY <4>1, <5>1, CommittedVersions
        <5>2. CASE ~Publishes(r)
          <6>1. IsOp(op[r])  BY CommitFrame DEF Tables
          <6>2. u.pointer = w.pointer  BY <4>1, <5>2, <6>1, OthersTouch DEF Columns
          <6>3. w.pointer # None => \E v \in versions : v.id = w.pointer
            BY <4>1, CommitFrame DEF Tables, RowIsOne
          <6> QED  BY <6>2, <6>3, CommittedVersions
        <5> QED  BY <5>1, <5>2
      <4> QED  BY <4>1, <4>2 DEF RowIsOne
    <3> QED  BY <3>1, <3>2
  <2>3. RunsOK'
    <3>1. \A v \in versions : \E u \in versions' : u.id = v.id /\ u.definition = v.definition
      BY CommittedVersions
    <3> QED  BY <3>1, CommitFrame DEF Tables, RunsOK
  <2>4. \A s \in Requests : IsOp(op[s])'  BY CommitFrame DEF Tables, IsOp
  <2> QED  BY <2>1, <2>2, <2>3, <2>4, CommittedVersions, CommitFrame DEF Tables
<1>3. RunsWhatWasChecked'  BY CommitFrame DEF BookIInv, RunsWhatWasChecked
<1>4. MandatesAreHonoured'
  BY CommitFrame, CommittedVersions DEF BookIInv, MandatesAreHonoured, Wider
<1> QED  BY <1>1, <1>2, <1>3, <1>4, CommitOrders, CommitWithdraws DEF BookIInv

LEMMA CommitStep ==
  ASSUME BookIInv, NEW r \in Requests, Commit(r)
  PROVE  BookIInv'
BY CommitAdds, CommitWrites

-----------------------------------------------------------------------------
LEMMA BookStarts ==
  ASSUME PollerInit
  PROVE  BookIInv
<1>1. PICK b \in Books : row = {b.row} /\ versions = b.versions /\ grants = b.row.shared
  BY DEF PollerInit, BookInit
<1>2. /\ made = <<>> /\ runs = {} /\ overlapped = {} /\ withdrawn = {} /\ unsaid = {}
      /\ at = [r \in Requests |-> "idle"]
      /\ tx = [r \in Requests |-> NoTx]
  BY DEF PollerInit, BookInit
<1>3. IsBook(b)  BY <1>1, BooksAssumption
<1>4. \A r \in Requests : IsOp(op[r])  BY OpsAssumption DEF PollerInit
<1>5. /\ \A v \in versions : v.id \in Earlier /\ v.num \in 1 .. Cardinality(versions)
      /\ \A u, v \in versions : u.id = v.id \/ u.num = v.num => u = v
      /\ IsFiniteSet(versions) /\ versions \subseteq Versions
  BY <1>1, <1>3 DEF IsBook
<1>6. VersionsOK
  <2>1. \E n \in Nat : \A v \in versions : v.num <= n
    <3>1. Cardinality(versions) \in Nat  BY <1>5, FS_CardinalityType
    <3>2. \A v \in versions : v.num <= Cardinality(versions)  BY <1>5, <3>1
    <3> QED  BY <3>1, <3>2
  <2>2. ~\E r \in Requests : \E v \in versions : v.id = r  BY <1>5, BookAssumption
  <2> QED  BY <1>5, <2>1, <2>2 DEF VersionsOK
<1>7. { v.id : v \in { x \in versions : x.status = "active" } } = {Row.pointer} \ {None} /\ Row = b.row
  BY <1>1, <1>3 DEF IsBook, Row
<1>8. RowIsOne
  <2>1. b.row.pointer # None => \E v \in versions : v.id = b.row.pointer
    <3>1. b.row.pointer # None => b.row.pointer \in { v.id : v \in { x \in versions : x.status = "active" } }
      BY <1>7
    <3> QED  BY <3>1
  <2> QED  BY <1>1, <1>3, <2>1 DEF RowIsOne, IsBook
<1>9. grants \subseteq Companies  BY <1>1, <1>3 DEF IsBook, Rows
<1>10. Together
  <2>1. \A r \in Requests : ~AtWork(r)  BY <1>2 DEF AtWork
  <2> QED  BY <2>1 DEF Together
<1>11. RunsOK /\ RunsWhatWasChecked  BY <1>2 DEF RunsOK, RunsWhatWasChecked
<1>12. made \in Seq(NewRows) /\ DOMAIN made = {}
  <2>1. <<>> \in Seq(NewRows) /\ DOMAIN <<>> = {}  OBVIOUS
  <2> QED  BY <1>2, <2>1
<1>13. Tables  BY <1>2, <1>4, <1>6, <1>8, <1>9, <1>10, <1>11, <1>12 DEF Tables
<1>14. ASSUME NEW r \in Requests PROVE OfRequest(r)
  <2>1. at[r] = "idle" /\ tx[r] = NoTx /\ ~AtWork(r)  BY <1>2 DEF AtWork
  <2>2. DOMAIN tx[r] = Fields /\ tx[r].archived = {} /\ tx[r].new = {}  BY <2>1 DEF NoTx, Fields
  <2>3. Session(r)  BY <2>1, <2>2 DEF Session
  <2> QED  BY <2>1, <2>3 DEF OfRequest, HoldsBefore, Numbered, ReadsCurrent, SharesCurrent, ClaimsOverlap
<1>15. VersionsAreInOrder
  <2>1. \A u, v \in versions : u # v => u.num # v.num  BY <1>5
  <2> QED  BY <1>7, <2>1 DEF VersionsAreInOrder
<1>16. WithdrawnIsOut  BY <1>2 DEF WithdrawnIsOut
<1>17. MandatesAreHonoured  BY <1>12 DEF MandatesAreHonoured
<1> QED  BY <1>11, <1>13, <1>14, <1>15, <1>16, <1>17 DEF BookIInv

\* Mails, and the poller's own steps, are not about the workflow's tables.
LEMMA BookUntouched ==
  ASSUME BookIInv, UNCHANGED bookVars
  PROVE  BookIInv'
<1>1. UNCHANGED <<row, versions, made, grants, op, at, tx, runs, overlapped, withdrawn, unsaid>>
  BY DEF bookVars
<1>2. \A s \in Requests : OfRequest(s)'  BY <1>1, StillRequest DEF BookIInv
<1>3. VersionsAreInOrder' /\ WithdrawnIsOut' /\ MandatesAreHonoured'  BY <1>1, StillHistory
<1>4. RunsWhatWasChecked'  BY <1>1 DEF BookIInv, RunsWhatWasChecked
<1>5. VersionsOK' /\ RowIsOne' /\ RunsOK'  BY <1>1 DEF BookIInv, Tables, VersionsOK, RowIsOne, RunsOK
<1>6. Together'  BY <1>1 DEF BookIInv, Tables, Together, AtWork
<1>7. \A s \in Requests : IsOp(op[s])'  BY <1>1 DEF BookIInv, Tables, IsOp
<1> QED  BY <1>1, <1>2, <1>3, <1>4, <1>5, <1>6, <1>7 DEF BookIInv, Tables

LEMMA StatementStep ==
  ASSUME BookIInv, NEW r \in Requests, Statement(r)
  PROVE  BookIInv'
BY FlushStep, GrantStep, NumberStep, ArchiveStep, InsertStep, PointStep, DeletingStep, KeepStep, CommitStep DEF Statement

LEMMA BookStep ==
  ASSUME BookIInv, [PollerNext]_allVars
  PROVE  BookIInv'
<1>1. CASE UNCHANGED allVars  BY <1>1, BookUntouched DEF allVars
<1>2. CASE \E r \in Requests : Start(r)  BY <1>2, StartStep
<1>3. CASE \E r \in Requests : Statement(r)  BY <1>3, StatementStep
<1>4. CASE \E r \in Requests : Fail(r) \/ Victim(r)  BY <1>4, FailureStep
<1>5. CASE \E x \in runs : Load(x)  BY <1>5, LoadStep
<1>6. CASE \E r \in Requests : Tells(r)  BY <1>6, PollerCallStep
<1>7. CASE MailArrives \/ (\E u \in 1 .. arrived : ReadElsewhere(u)) \/ Tick \/ Fetches \/ LoseAttempt
             \/ SearchLate \/ (\E f \in late : StoreLate(f)) \/ FetchCancelled \/ Answers \/ LoseRecord \/ LoopCancelled
  <2>1. UNCHANGED bookVars
    BY <1>7 DEF MailArrives, ReadElsewhere, Tick, Fetches, Search, Fetch, StoreCursor, SearchLate, HandOver, LoseAttempt, StoreLate,
                FetchCancelled, Answers, Record, StartRun, LoseRecord, LoopCancelled, Cron
  <2> QED  BY <2>1, BookUntouched
<1> QED  BY <1>1, <1>2, <1>3, <1>4, <1>5, <1>6, <1>7 DEF PollerNext, Works

-----------------------------------------------------------------------------
(* Deadlocks.                                                              *)

\* Updates and changes of shares wait with nothing in their hands, and a
\* publication with nothing another publication waits for.
LEMMA DeadlockOrder ==
  ASSUME BookIInv
  PROVE  DeadlocksNeedTheOtherOrder
<1> DEFINE Orderly(r) == op[r].do \notin {"rollback", "delete"}
<1>1. ASSUME NEW r \in Requests, Needs(r) # {}, Orderly(r)
      PROVE  \/ tx[r].locks = {}
             \/ Needs(r) \subseteq {"key", "row"} /\ tx[r].locks \subseteq Ids \cup {"key"}
  <2>1. at[r] \in {"flush", "archive", "insert", "point", "erase", "detach"}  BY <1>1 DEF Needs
  <2>2. AtWork(r)  BY <2>1 DEF AtWork, Ended
  <2>3. at[r] \in Way(op[r].do) /\ HoldsBefore(r)  BY <2>2, AtStatement DEF OfRequest
  <2>4. CASE at[r] = "flush"
    <3>1. op[r].do \in {"update", "share", "unshare"}  BY <1>1, <2>3, <2>4 DEF Way
    <3> QED  BY <2>3, <2>4, <3>1 DEF HoldsBefore
  <2>5. CASE at[r] \in {"archive", "insert", "point"}
    <3>1. op[r].do = "publish"  BY <1>1, <2>3, <2>5 DEF Way
    <3>2. CASE at[r] = "archive"  BY <2>3, <3>1, <3>2 DEF HoldsBefore
    <3>3. CASE at[r] \in {"insert", "point"}
      <4>1. Needs(r) \subseteq {"key", "row"}  BY <3>3 DEF Needs
      <4> QED  BY <2>3, <3>1, <3>3, <4>1 DEF HoldsBefore
    <3> QED  BY <2>5, <3>2, <3>3
  <2>6. CASE at[r] \in {"erase", "detach"}  BY <1>1, <2>3, <2>6 DEF Way
  <2> QED  BY <2>1, <2>4, <2>5, <2>6
<1>2. \A l \in {"key", "row"} : Clashes(l) \subseteq {"row", "all"}  BY DEF Clashes
<1>3. (Ids \cup {"key"}) \cap {"row", "all"} = {}  BY IdsAssumption DEF Ids
<1>4. ASSUME NEW r \in Requests, NEW s \in Requests, WaitsFor(r, s), WaitsFor(s, r)
      PROVE  ~Orderly(r) \/ ~Orderly(s)
  <2> SUFFICES ASSUME Orderly(r), Orderly(s) PROVE FALSE  OBVIOUS
  <2>1. PICK l \in Needs(r) : Clashes(l) \cap tx[s].locks # {}  BY <1>4 DEF WaitsFor
  <2>2. PICK k \in Needs(s) : Clashes(k) \cap tx[r].locks # {}  BY <1>4 DEF WaitsFor
  <2>3. tx[r].locks # {} /\ tx[s].locks # {}  BY <2>1, <2>2
  <2>4. Needs(r) \subseteq {"key", "row"} /\ tx[s].locks \subseteq Ids \cup {"key"}
    BY <1>1, <2>1, <2>2, <2>3
  <2> QED  BY <1>2, <1>3, <2>1, <2>4
<1>5. ASSUME NEW r \in Requests, InDeadlock(r)
      PROVE  \E s \in Requests : InDeadlock(s) /\ op[s].do \in {"rollback", "delete"}
  <2>1. PICK s \in Requests : WaitsFor(r, s) /\ WaitsFor(s, r)  BY <1>5 DEF InDeadlock
  <2>2. InDeadlock(s)  BY <2>1 DEF InDeadlock
  <2> QED  BY <1>4, <1>5, <2>1, <2>2
<1> QED  BY <1>5 DEF DeadlocksNeedTheOtherOrder

LEMMA BookTypes ==
  ASSUME BookIInv
  PROVE  BookTypeOK
<1>1. VersionsOK /\ RowIsOne /\ grants \subseteq Companies  BY DEF BookIInv, Tables
<1>2. row \subseteq Rows /\ Cardinality(row) <= 1
  <2>1. CASE row = {}
    <3>1. Cardinality({}) = 0  BY FS_EmptySet
    <3> QED  BY <2>1, <3>1
  <2>2. ASSUME NEW w \in Rows, row = {w} PROVE row \subseteq Rows /\ Cardinality(row) <= 1
    <3>1. Cardinality({w}) = 1  BY FS_Singleton
    <3> QED  BY <2>2, <3>1
  <2> QED  BY <1>1, <2>1, <2>2 DEF RowIsOne
<1>3. row # {} /\ Row.pointer # None => \E v \in versions : v.id = Row.pointer  BY <1>1, RowIs
<1> QED  BY <1>1, <1>2, <1>3 DEF BookTypeOK, VersionsOK

\* However requests overlap on a workflow, its versions and its shares: runs
\* load what was checked, and two publications never wait for each other; but
\* for what requests of the same kind do together, the versions have their own
\* numbers and the current one is the active one, withdrawn shares are out and
\* mandates are honoured (api/routers/workflows.py).
THEOREM BookIsKept == PollerSpec => []BookInvariant
<1>1. PollerInit => BookIInv  BY BookStarts
<1>2. BookIInv /\ [PollerNext]_allVars => BookIInv'  BY BookStep
<1>3. BookIInv => BookInvariant
  <2> SUFFICES ASSUME BookIInv PROVE BookInvariant  OBVIOUS
  <2>1. VersionsAreInOrder /\ RunsWhatWasChecked /\ WithdrawnIsOut /\ MandatesAreHonoured  BY DEF BookIInv
  <2> QED  BY <2>1, BookTypes, DeadlockOrder DEF BookInvariant
<1> QED  BY <1>1, <1>2, <1>3, PTL DEF PollerSpec

-----------------------------------------------------------------------------
(* The columns of others.                                                  *)

LEMMA CommitTouches ==
  ASSUME BookIInv, NEW r \in Requests, Commit(r), NEW v \in row, NEW w \in row', NEW c \in DOMAIN v, v[c] # w[c]
  PROVE  at[r] = "commit" /\ at'[r] = "done" /\ c \in Touches(r)
<1>1. at[r] = "commit" /\ at'[r] = "done" /\ RowIsOne  BY CommitFrame DEF Tables
<1>2. CASE Creates(r)
  <2>1. row' = row  BY <1>2 DEF Commit, Creates
  <2> QED  BY <1>1, <2>1 DEF RowIsOne
<1>3. CASE ~Creates(r)
  <2>1. PICK x \in Rows, u \in Rows : row = {x} /\ row' = {u} /\ \A d \in Columns \ Touches(r) : u[d] = x[d]
    BY <1>3, CommittedRow
  <2>2. v = x /\ w = u /\ c \in Columns  BY <2>1, RowColumns
  <2> QED  BY <1>1, <2>1, <2>2
<1> QED  BY <1>2, <1>3

LEMMA OnlyCommitsWrite ==
  ASSUME BookIInv, [PollerNext]_allVars
  PROVE  row' = row \/ \E r \in Requests : Commit(r)
<1>1. CASE UNCHANGED allVars  BY <1>1 DEF allVars, bookVars
<1>2. ASSUME NEW r \in Requests, Start(r) PROVE row' = row
  <2>1. Begins(r)  BY <1>2, StartCases DEF BookIInv
  <2> QED  BY <2>1 DEF Begins
<1>3. ASSUME NEW r \in Requests, Statement(r), ~Commit(r) PROVE row' = row
  BY <1>3 DEF Statement, Flush, Grant, Number, Archive, Insert, Point, Erase, Detach, Keep, Locks
<1>4. ASSUME NEW r \in Requests, Fail(r) \/ Victim(r) PROVE row' = row
  BY <1>4 DEF Fail, Victim, Locks
<1>5. ASSUME NEW x \in runs, Load(x) PROVE row' = row
  BY <1>5 DEF Load
<1>6. ASSUME NEW r \in Requests, Tells(r) PROVE row' = row
  BY <1>6 DEF Tells, Stop, StartPoller, StartOther, NoBook
<1>7. CASE MailArrives \/ (\E u \in 1 .. arrived : ReadElsewhere(u)) \/ Tick \/ Fetches \/ LoseAttempt
             \/ SearchLate \/ (\E f \in late : StoreLate(f)) \/ FetchCancelled \/ Answers \/ LoseRecord \/ LoopCancelled
  BY <1>7 DEF MailArrives, ReadElsewhere, Tick, Fetches, Search, Fetch, StoreCursor, SearchLate, HandOver, LoseAttempt, StoreLate,
              FetchCancelled, Answers, Record, StartRun, LoseRecord, LoopCancelled, Cron, bookVars
<1> QED  BY <1>1, <1>2, <1>3, <1>4, <1>5, <1>6, <1>7 DEF PollerNext, Works

\* A request changes no column of the workflow that it is not about, whatever
\* others have written since it read the row (update_workflow, share_workflow,
\* publish_workflow, rollback_version).
THEOREM OthersKeepTheirColumns == PollerSpec => OthersAreLeftAlone
<1> DEFINE Leaves == \A v \in row, w \in row' : \A c \in DOMAIN v :
                       v[c] # w[c] => \E r \in Requests : at[r] = "commit" /\ at'[r] = "done" /\ c \in Touches(r)
<1>1. PollerInit => BookIInv  BY BookStarts
<1>2. BookIInv /\ [PollerNext]_allVars => BookIInv'  BY BookStep
<1>3. BookIInv /\ [PollerNext]_allVars => Leaves
  <2> SUFFICES ASSUME BookIInv, [PollerNext]_allVars, NEW v \in row, NEW w \in row', NEW c \in DOMAIN v, v[c] # w[c]
               PROVE  \E r \in Requests : at[r] = "commit" /\ at'[r] = "done" /\ c \in Touches(r)
    OBVIOUS
  <2>1. RowIsOne  BY DEF BookIInv, Tables
  <2>2. row' # row  BY <2>1 DEF RowIsOne
  <2> QED  BY <2>2, CommitTouches, OnlyCommitsWrite
<1>4. Leaves => [Leaves]_bookVars  OBVIOUS
<1> QED  BY <1>1, <1>2, <1>3, <1>4, PTL DEF PollerSpec, OthersAreLeftAlone
=============================================================================
