--------------------------- MODULE NodeCalls_proofs ---------------------------
(***************************************************************************)
(* Proofs about one node and the browser session that NodeCalls runs       *)
(* beside it, for every plan, number of attempts, logins and scrapes.      *)
(*                                                                         *)
(* Of the session: a job saves what it read or captured long before, so    *)
(* the invariant says of the cookies that each job holds what is to be     *)
(* shown of the session.  Of the record: while no attempt at it is given   *)
(* up, the attempts at work are the one that is awaited.  Of the calls:    *)
(* for each stage, which attempt is at work and what it may have done.     *)
(***************************************************************************)
EXTENDS NodeCalls, SequenceTheorems, Integers, TLAPS

\* What cookies say of their history, and of the session they are for.
Sound(c) == ~c.acted /\ c.of = None => c.login = "none"
Explained(c, t) ==
  /\ c.by = "login" /\ c.login = "half" => HalfLogin(t)
  /\ c.by = "login" /\ t.proves => c.login = "full"
  /\ t.secret \in {"none", "incomplete"} => c.of = None

ForTheSession(j) ==
  /\ job[j] = "at_site" =>
       /\ held[j] \in Templates /\ held[j].secret \in {"password", "password_and_seed"}
       /\ session # None
       /\ Exists => held[j] = session.made
  /\ job[j] = "captured" =>
       /\ held[j] \in Cookies /\ Sound(held[j]) /\ held[j].of = j
       /\ session # None
       /\ Exists => Explained(held[j], session.made)
  /\ job[j] \in {"locking", "browsing"} /\ held[j] # None =>
       /\ held[j] \in Cookies /\ Sound(held[j])
       /\ session # None
       /\ Exists => Explained(held[j], session.made)
  /\ job[j] = "scraped" =>
       /\ held[j] \in Cookies /\ Sound(held[j]) /\ held[j].by = "scrape"
       /\ held[j].of = None \/ session # None
       /\ Exists => Explained(held[j], session.made)

SessionIInv ==
  /\ SessionTypeOK
  /\ Exists /\ session.cookies # None => Sound(session.cookies) /\ Explained(session.cookies, session.made)
  /\ \A j \in Jobs : ForTheSession(j)

SessionChange == SessionStep \/ \E j \in Scrapes : StartScrape(j)

-----------------------------------------------------------------------------
LEMMA SessionStarts ==
  ASSUME SessionInit
  PROVE  SessionIInv
  BY DEF SessionInit, SessionIInv, SessionTypeOK, Exists, ForTheSession, Jobs, JobEnds

LEMMA SessionImplies ==
  ASSUME SessionIInv
  PROVE  SessionInvariant
  BY DEF SessionIInv, SessionInvariant, CookiesAreExplained, Sound, Explained

\* The row of a session that exists.
LEMMA SessionRow ==
  ASSUME SessionTypeOK, Exists
  PROVE  session \in Rows /\ session.made \in Templates /\ session.cookies \in Cookies \cup {None}
  BY DEF SessionTypeOK, Exists, Rows

\* A job takes one step, the session stays as it is.
LEMMA JobStep ==
  ASSUME SessionIInv, NEW j \in Jobs, SessionTypeOK', session' = session,
         \A k \in Jobs \ {j} : job'[k] = job[k] /\ held'[k] = held[k],
         ForTheSession(j)'
  PROVE  SessionIInv'
<1>1. ASSUME NEW k \in Jobs PROVE ForTheSession(k)'
  BY DEF SessionIInv, ForTheSession, Exists
<1> QED  BY <1>1 DEF SessionIInv, Exists

\* Cookies are saved: the session stays the one it was, or stays away.
LEMMA SaveStep ==
  ASSUME SessionIInv, NEW j \in Jobs, held[j] \in Cookies, session' = Saved(j),
         Sound(held[j]), Exists => Explained(held[j], session.made), SessionTypeOK',
         \A k \in Jobs \ {j} : job'[k] = job[k] /\ held'[k] = held[k],
         ForTheSession(j)'
  PROVE  SessionIInv'
<1>1. CASE ~Exists
  BY <1>1, JobStep DEF Saved
<1>2. CASE Exists
  <2>1. /\ session' \in Rows /\ session'.made = session.made /\ session'.cookies = held[j]
        /\ Exists' /\ session' # None
    BY <1>2, SessionRow, SessionAssumption DEF SessionIInv, Saved, Rows, Exists
  <2>2. ASSUME NEW k \in Jobs PROVE ForTheSession(k)'
    BY <1>2, <2>1 DEF SessionIInv, ForTheSession, Exists
  <2> QED  BY <1>2, <2>1, <2>2 DEF SessionIInv
<1> QED  BY <1>1, <1>2
\* The end of a job: it holds nothing any more.
LEMMA EndedJob ==
  ASSUME NEW j \in Jobs, job'[j] \notin {"at_site", "captured", "locking", "browsing", "scraped"}
  PROVE  ForTheSession(j)'
  BY DEF ForTheSession

\* A session is made: nobody holds anything that a session is needed for.
LEMMA MakeSession ==
  ASSUME SessionIInv, NEW t \in Templates, Connect(t) \/ CreateSession(t)
  PROVE  SessionIInv'
<1>1. /\ session = None /\ session' = [made |-> t, cookies |-> None]
      /\ UNCHANGED <<refreshing, job, held, latest, crossed>>
  BY DEF Connect, CreateSession, savedVars
<1>2. session' \in Rows /\ session'.made = t /\ session'.cookies = None
  BY <1>1 DEF Rows
<1>3. SessionTypeOK'  BY <1>1, <1>2 DEF SessionIInv, SessionTypeOK
<1>4. ASSUME NEW j \in Jobs PROVE ForTheSession(j)'
  BY <1>1, <1>2, SessionAssumption DEF SessionIInv, ForTheSession, Explained
<1> QED  BY <1>2, <1>3, <1>4 DEF SessionIInv

LEMMA DeleteStep ==
  ASSUME SessionIInv, DeleteSession
  PROVE  SessionIInv'
<1>1. ~Exists' /\ session' # None /\ UNCHANGED <<refreshing, job, held, latest, crossed>>
  BY SessionAssumption DEF DeleteSession, Exists, savedVars
<1>2. SessionTypeOK'  BY <1>1 DEF DeleteSession, SessionIInv, SessionTypeOK
<1>3. session # None  BY DEF DeleteSession, Exists
<1>4. ASSUME NEW j \in Jobs PROVE ForTheSession(j)'
  BY <1>1, <1>3 DEF SessionIInv, ForTheSession
<1> QED  BY <1>1, <1>2, <1>4 DEF SessionIInv

\* Steps that move only the workflow of a login.
LEMMA OtherStep ==
  ASSUME SessionIInv, UNCHANGED <<session, job, held>>, SessionTypeOK'
  PROVE  SessionIInv'
  BY DEF SessionIInv, Exists, ForTheSession

LEMMA LoginSteps ==
  ASSUME SessionIInv, NEW l \in Logins, RefreshSession(l) \/ LoginStep(l) \/ GiveUpLogin(l)
  PROVE  SessionIInv'
<1> USE DEF Moves, Holds, Ends, savedVars
<1>1. l \in Jobs /\ ForTheSession(l) /\ SessionTypeOK  BY DEF Jobs, SessionIInv
<1>2. CASE RefreshSession(l)
  <2>1. SessionTypeOK'  BY <1>1, <1>2 DEF RefreshSession, SessionTypeOK
  <2>2. job'[l] = "queued" /\ \A k \in Jobs \ {l} : job'[k] = job[k] /\ held'[k] = held[k]
    BY <1>1, <1>2 DEF RefreshSession, SessionTypeOK
  <2> QED  BY <1>1, <1>2, <2>1, <2>2, JobStep, EndedJob DEF RefreshSession
<1>3. CASE LoadLogin(l)
  <2>1. SessionTypeOK'
    BY <1>1, <1>3, SessionRow DEF LoadLogin, SessionTypeOK, JobEnds
  <2>2. session' = session /\ \A k \in Jobs \ {l} : job'[k] = job[k] /\ held'[k] = held[k]
    BY <1>1, <1>3 DEF LoadLogin, SessionTypeOK
  <2>3. ForTheSession(l)'
    <3>1. CASE Ends(l, "failed")
      BY <1>1, <3>1, EndedJob DEF SessionTypeOK
    <3>2. CASE /\ Exists /\ session.made.secret \in {"password", "password_and_seed"}
               /\ Moves(l, "at_site") /\ Holds(l, session.made)
      BY <1>1, <2>2, <3>2, SessionRow DEF ForTheSession, SessionTypeOK, Exists
    <3> QED  BY <1>3, <3>1, <3>2 DEF LoadLogin
  <2> QED  BY <1>1, <2>1, <2>2, <2>3, JobStep
<1>4. CASE LogIn(l)
  <2>1. session' = session /\ \A k \in Jobs \ {l} : job'[k] = job[k] /\ held'[k] = held[k]
    BY <1>1, <1>4 DEF LogIn, SessionTypeOK
  <2>2. CASE Ends(l, "failed") /\ UNCHANGED savedVars
    <3>1. SessionTypeOK'  BY <1>1, <2>1, <2>2 DEF SessionTypeOK, JobEnds
    <3>2. ForTheSession(l)'  BY <1>1, <2>2, EndedJob DEF SessionTypeOK
    <3> QED  BY <1>1, <2>1, <3>1, <3>2, JobStep
  <2>3. ASSUME NEW first \in Pages, NEW page \in Completed(held[l], first), Verified(held[l], page),
               job[l] = "at_site", UNCHANGED <<refreshing, latest, crossed>>,
               Moves(l, "captured"), Holds(l, [NoCookies EXCEPT !.login = LoginOn(page), !.by = "login", !.of = l])
        PROVE  SessionIInv'
    <3> DEFINE t == held[l]  c == [NoCookies EXCEPT !.login = LoginOn(page), !.by = "login", !.of = l]
    <3>1. page \in Pages  BY <2>3 DEF Completed, Pages
    <3>2. c \in Cookies /\ c.by = "login" /\ c.login = LoginOn(page) /\ c.of = l /\ Sound(c)
      BY SessionAssumption DEF LoginOn, Cookies, NoCookies, Levels, Sound
    <3>3. t.secret \in {"password", "password_and_seed"} /\ session # None /\ (Exists => t = session.made)
      BY <1>1, <2>3 DEF ForTheSession
    <3>4. Explained(c, t)
      <4>1. page \in {"code", "other"} => HalfLogin(t)
        BY <2>3 DEF Verified, HalfLogin, Completed, ChallengeSeen, CodeFieldSeen
      <4>2. t.proves => page = "inside"  BY <2>3 DEF Verified
      <4> QED  BY <3>1, <3>2, <3>3, <4>1, <4>2 DEF Explained, LoginOn, Pages
    <3>5. job'[l] = "captured" /\ held'[l] = c  BY <1>1, <2>3 DEF SessionTypeOK
    <3>6. SessionTypeOK'  BY <1>1, <2>1, <2>3, <3>2 DEF SessionTypeOK
    <3>7. ForTheSession(l)'
      <4> HIDE DEF t, c
      <4> QED  BY <2>1, <3>2, <3>3, <3>4, <3>5 DEF ForTheSession, Exists
    <3> QED  BY <1>1, <2>1, <3>6, <3>7, JobStep
  <2> QED  BY <1>4, <2>2, <2>3 DEF LogIn
<1>5. CASE SaveLogin(l)
  <2>1. /\ \A k \in Jobs \ {l} : job'[k] = job[k] /\ held'[k] = held[k]
        /\ job'[l] \in JobEnds /\ job[l] = "captured"
        /\ latest' \in Logins \cup {None} /\ crossed' \subseteq Scrapes
    BY <1>1, <1>5 DEF SaveLogin, SessionTypeOK, JobEnds, Between
  <2>2. ForTheSession(l)'  BY <1>1, <2>1, EndedJob DEF JobEnds
  <2>3. held[l] \in Cookies /\ Sound(held[l]) /\ (Exists => Explained(held[l], session.made))
    BY <1>1, <2>1 DEF ForTheSession
  <2>4. SessionTypeOK'
    <3>1. Saved(l) \in {None, Deleted} \cup Rows
      BY <1>1, <2>3, SessionRow DEF Saved, Rows, SessionTypeOK
    <3> QED  BY <1>1, <1>5, <2>1, <3>1 DEF SaveLogin, SessionTypeOK, JobEnds
  <2>5. session' = Saved(l) \/ session' = session  BY <1>5 DEF SaveLogin
  <2> QED  BY <1>1, <2>1, <2>2, <2>3, <2>4, <2>5, SaveStep, JobStep
<1>6. CASE GiveUpLogin(l)
  BY <1>1, <1>6, OtherStep DEF GiveUpLogin, SessionTypeOK
<1> QED  BY <1>2, <1>3, <1>4, <1>5, <1>6 DEF LoginStep

LEMMA ScrapeSteps ==
  ASSUME SessionIInv, NEW j \in Scrapes, ScrapeStep(j) \/ StartScrape(j)
  PROVE  SessionIInv'
<1> USE DEF Moves, Holds, savedVars
<1>1. j \in Jobs /\ ForTheSession(j) /\ SessionTypeOK  BY DEF Jobs, SessionIInv
<1>2. CASE StartScrape(j)
  <2>1. SessionTypeOK'  BY <1>1, <1>2 DEF StartScrape, SessionTypeOK
  <2>2. job'[j] = "loading" /\ \A k \in Jobs \ {j} : job'[k] = job[k] /\ held'[k] = held[k]
    BY <1>1, <1>2 DEF StartScrape, SessionTypeOK
  <2> QED  BY <1>1, <1>2, <2>1, <2>2, JobStep, EndedJob DEF StartScrape
<1>3. CASE LoadScrape(j)
  <2>1. SessionTypeOK'
    BY <1>1, <1>3, SessionRow DEF LoadScrape, SessionTypeOK, JobEnds
  <2>2. session' = session /\ \A k \in Jobs \ {j} : job'[k] = job[k] /\ held'[k] = held[k]
    BY <1>1, <1>3 DEF LoadScrape, SessionTypeOK
  <2>3. ForTheSession(j)'
    <3>1. CASE job' = [job EXCEPT ![j] = "failed"]
      BY <1>1, <3>1, EndedJob DEF SessionTypeOK
    <3>2. CASE Moves(j, "locking") /\ Holds(j, IF Exists THEN session.cookies ELSE None)
      <4>1. job'[j] = "locking" /\ held'[j] = IF Exists THEN session.cookies ELSE None
        BY <1>1, <3>2 DEF SessionTypeOK
      <4>2. held'[j] # None => /\ Exists /\ held'[j] \in Cookies
                               /\ Explained(held'[j], session.made)
                               /\ Sound(held'[j])
        BY <1>1, <4>1, SessionRow DEF SessionIInv
      <4> QED  BY <2>2, <4>1, <4>2 DEF ForTheSession, Exists
    <3> QED  BY <1>3, <3>1, <3>2 DEF LoadScrape
  <2> QED  BY <1>1, <2>1, <2>2, <2>3, JobStep
<1>4. CASE SetLock(j)
  <2>1. SessionTypeOK'  BY <1>1, <1>4 DEF SetLock, SessionTypeOK, JobEnds
  <2>2. /\ session' = session /\ \A k \in Jobs \ {j} : job'[k] = job[k] /\ held'[k] = held[k]
        /\ job[j] = "locking"
        /\ \/ job'[j] = "browsing" /\ held'[j] = held[j]
           \/ job'[j] = "failed"
    BY <1>1, <1>4 DEF SetLock, SessionTypeOK
  <2>3. ForTheSession(j)'  BY <1>1, <2>2 DEF ForTheSession, Exists
  <2> QED  BY <1>1, <2>1, <2>2, <2>3, JobStep
<1>5. CASE Browse(j)
  <2>1. /\ session' = session /\ \A k \in Jobs \ {j} : job'[k] = job[k] /\ held'[k] = held[k]
        /\ job[j] = "browsing" /\ UNCHANGED <<refreshing, latest, crossed>>
    BY <1>1, <1>5 DEF Browse, SessionTypeOK
  <2>2. CASE Moves(j, "unlocking_failed") /\ Holds(j, None)
    <3>1. SessionTypeOK'  BY <1>1, <2>1, <2>2 DEF SessionTypeOK
    <3>2. ForTheSession(j)'  BY <1>1, <2>2, EndedJob DEF SessionTypeOK
    <3> QED  BY <1>1, <2>1, <3>1, <3>2, JobStep
  <2>3. ASSUME NEW login \in IF j \in Acting THEN Levels ELSE Below(Had(j).login),
               Moves(j, "scraped"),
               Holds(j, [login |-> login, by |-> "scrape", of |-> Had(j).of,
                         acted |-> Had(j).acted \/ j \in Acting])
        PROVE  SessionIInv'
    <3> DEFINE h == Had(j)
               c == [login |-> login, by |-> "scrape", of |-> h.of, acted |-> h.acted \/ j \in Acting]
    <3>1. /\ h \in Cookies /\ Sound(h) /\ (h.of = None \/ session # None)
          /\ Exists /\ session.made.secret \in {"none", "incomplete"} => h.of = None
      BY <1>1, <2>1 DEF ForTheSession, Explained, Had, NoCookies, Cookies, Levels, Sound
    <3>2. /\ c \in Cookies /\ c.login = login /\ c.by = "scrape" /\ c.of = h.of
          /\ c.acted = (h.acted \/ j \in Acting)
      <4>1. login \in Levels  BY <2>3, <3>1 DEF Below, Levels, Cookies
      <4> HIDE DEF h
      <4> QED  BY <3>1, <4>1 DEF Cookies
    <3>3. Sound(c)
      <4>1. j \notin Acting /\ h.login = "none" => login = "none"  BY <2>3 DEF Below
      <4> HIDE DEF h, c
      <4> QED  BY <3>1, <3>2, <4>1 DEF Sound
    <3>4. job'[j] = "scraped" /\ held'[j] = c  BY <1>1, <2>3 DEF SessionTypeOK
    <3>5. SessionTypeOK'  BY <1>1, <2>1, <2>3, <3>2 DEF SessionTypeOK
    <3>6. ForTheSession(j)'
      <4> HIDE DEF h, c
      <4> QED  BY <2>1, <3>1, <3>2, <3>3, <3>4 DEF ForTheSession, Exists, Explained
    <3> QED  BY <1>1, <2>1, <3>5, <3>6, JobStep
  <2> QED  BY <1>5, <2>2, <2>3 DEF Browse
<1>6. CASE SaveScrape(j)
  <2>1. /\ \A k \in Jobs \ {j} : job'[k] = job[k] /\ held'[k] = held[k]
        /\ job'[j] \in {"unlocking_succeeded", "unlocking_failed"} /\ job[j] = "scraped"
    BY <1>1, <1>6 DEF SaveScrape, SessionTypeOK
  <2>2. ForTheSession(j)'  BY <1>1, <2>1, EndedJob
  <2>3. held[j] \in Cookies /\ Sound(held[j]) /\ (Exists => Explained(held[j], session.made))
    BY <1>1, <2>1 DEF ForTheSession
  <2>4. SessionTypeOK'
    <3>1. Saved(j) \in {None, Deleted} \cup Rows
      BY <1>1, <2>3, SessionRow DEF Saved, Rows, SessionTypeOK
    <3> QED  BY <1>1, <1>6, <3>1 DEF SaveScrape, SessionTypeOK
  <2>5. session' = Saved(j) \/ session' = session  BY <1>6 DEF SaveScrape
  <2> QED  BY <1>1, <2>1, <2>2, <2>3, <2>4, <2>5, SaveStep, JobStep
<1>7. CASE Unlock(j)
  <2>1. SessionTypeOK'  BY <1>1, <1>7 DEF Unlock, SessionTypeOK, JobEnds
  <2>2. /\ session' = session /\ \A k \in Jobs \ {j} : job'[k] = job[k] /\ held'[k] = held[k]
        /\ job'[j] \in {"succeeded", "failed"}
    BY <1>1, <1>7 DEF Unlock, SessionTypeOK
  <2> QED  BY <1>1, <2>1, <2>2, JobStep, EndedJob
<1> QED  BY <1>2, <1>3, <1>4, <1>5, <1>6, <1>7 DEF ScrapeStep

LEMMA DieStep ==
  ASSUME SessionIInv, NEW j \in Jobs, Die(j)
  PROVE  SessionIInv'
<1>1. SessionTypeOK'  BY DEF Die, savedVars, Moves, Holds, SessionIInv, SessionTypeOK, JobEnds
<1>2. /\ session' = session /\ \A k \in Jobs \ {j} : job'[k] = job[k] /\ held'[k] = held[k]
      /\ job'[j] = "dead"
  BY DEF Die, savedVars, Moves, Holds, SessionIInv, SessionTypeOK
<1> QED  BY <1>1, <1>2, JobStep, EndedJob

LEMMA SessionKeeps ==
  ASSUME SessionIInv, [SessionChange]_sessionVars
  PROVE  SessionIInv'
<1>1. CASE SessionStep
  BY <1>1, MakeSession, DeleteStep, LoginSteps, ScrapeSteps, DieStep DEF SessionStep
<1>2. CASE \E j \in Scrapes : StartScrape(j)
  BY <1>2, ScrapeSteps
<1>3. CASE UNCHANGED sessionVars
  BY <1>3, OtherStep DEF sessionVars, SessionIInv, SessionTypeOK
<1> QED  BY <1>1, <1>2, <1>3 DEF SessionChange

-----------------------------------------------------------------------------
\* What the node, its child and the attempts to record it do leaves the
\* session alone, except that a web_scraper starts a scrape.
LEMMA NodeMapsToSession ==
  ASSUME [NodeNext]_nodeVars
  PROVE  [SessionChange]_sessionVars
<1>1. CASE BeginWrite \/ WriteRow \/ FailWrite \/ GiveUpWrite \/ WriteLate
  BY <1>1 DEF BeginWrite, WriteRow, FailWrite, GiveUpWrite, WriteLate
<1>2. CASE NodeStep
  BY <1>2 DEF NodeStep, EmitStarted, BadConfig, CallActivity, Delay, UnknownType, CallScraper, AwaitScrape,
     NextOfBody, NextItem, EndItems, InsertChild, StartChild, AwaitChild, SessionChange
<1>3. CASE ChildStep \/ BesideTheChild \/ LoseChild
  BY <1>3 DEF ChildStep, BesideTheChild, LoseChild
<1>4. CASE SessionMoves
  BY <1>4 DEF SessionMoves, SessionChange
<1>5. CASE UNCHANGED nodeVars
  BY <1>5 DEF nodeVars
<1> QED  BY <1>1, <1>2, <1>3, <1>4, <1>5 DEF NodeNext

\* However many logins and scrapes of a site overlap, are given up or lose
\* their worker, and whenever its session is made or deleted: a login leaves
\* half a login in the session only if nothing in its login_config could have
\* told, and a full one where something proves it; without a login nothing is
\* logged in but by the actions of a scrape; and no login leaves anything where
\* there is no password (scraper_activity.py, api/routers/scraper.py).
THEOREM SessionsAreSound == NodeSpec => []SessionInvariant
<1>1. NodeInit => SessionIInv  BY SessionStarts DEF NodeInit
<1>2. SessionIInv /\ [NodeNext]_nodeVars => SessionIInv'  BY SessionKeeps, NodeMapsToSession
<1>3. SessionIInv => SessionInvariant  BY SessionImplies
<1> QED  BY <1>1, <1>2, <1>3, PTL DEF NodeSpec

\* While no scrape that loaded older cookies is still to save, all that is held
\* or stored descends from the latest login.
KeptIInv ==
  /\ session = None => latest = None
  /\ Exists /\ session.cookies = None => latest = None
  /\ LoginsAreKept
  /\ crossed = {} /\ session # Deleted => \A j \in Between : Had(j).of = latest

\* Steps after which no more is held, and nothing else is stored.
LEMMA LessIsHeld ==
  ASSUME KeptIInv, UNCHANGED <<session, latest, crossed>>,
         \A j \in Between' : j \in Between /\ held'[j] = held[j]
  PROVE  KeptIInv'
  BY DEF KeptIInv, LoginsAreKept, Exists, Had

LEMMA LoginsKeep ==
  ASSUME SessionIInv, KeptIInv, NEW l \in Logins, RefreshSession(l) \/ LoginStep(l) \/ GiveUpLogin(l)
  PROVE  KeptIInv'
<1> USE DEF Moves, Holds, Ends
<1>1. /\ DOMAIN job = Jobs /\ DOMAIN held = Jobs /\ l \in Jobs
      /\ \A j \in Scrapes : j # l /\ j \in Jobs
  BY JobsAssumption DEF SessionIInv, SessionTypeOK, Jobs
<1>2. \A j \in Scrapes : job'[j] = job[j] /\ held'[j] = held[j]
  BY <1>1 DEF RefreshSession, LoginStep, LoadLogin, LogIn, SaveLogin, GiveUpLogin
<1>3. CASE UNCHANGED <<session, latest, crossed>>
  BY <1>2, <1>3, LessIsHeld DEF Between
<1>4. ASSUME SaveLogin(l), session' = Saved(l), latest' = IF Exists THEN l ELSE latest,
             crossed' = IF Exists THEN Between ELSE crossed
      PROVE  KeptIInv'
  <2>1. held[l] \in Cookies /\ held[l].of = l /\ held[l] # None
    <3>1. ForTheSession(l) /\ job[l] = "captured"  BY <1>1, <1>4 DEF SessionIInv, SaveLogin
    <3> QED  BY <3>1, SessionAssumption DEF ForTheSession
  <2>2. CASE ~Exists
    BY <1>2, <1>4, <2>2, LessIsHeld DEF Saved, Between
  <2>3. CASE Exists
    <3>1. session' \in Rows /\ session'.cookies = held[l]
      BY <1>4, <2>1, <2>3, SessionRow DEF SessionIInv, Saved, Rows
    <3>2. Between' = Between /\ crossed' = Between
      BY <1>2, <1>4, <2>3 DEF Between
    <3> QED  BY <1>4, <2>1, <2>3, <3>1, <3>2, SessionAssumption DEF KeptIInv, LoginsAreKept
  <2> QED  BY <2>2, <2>3
<1> QED
  BY <1>3, <1>4 DEF RefreshSession, LoginStep, LoadLogin, LogIn, SaveLogin, GiveUpLogin, savedVars

LEMMA ScrapesKeep ==
  ASSUME SessionIInv, KeptIInv, NEW j \in Scrapes, ScrapeStep(j) \/ StartScrape(j)
  PROVE  KeptIInv'
<1> USE DEF Moves, Holds
<1>1. j \in Jobs /\ DOMAIN job = Jobs /\ DOMAIN held = Jobs /\ ForTheSession(j)
  BY DEF SessionIInv, SessionTypeOK, Jobs
<1>2. \A k \in Scrapes \ {j} : job'[k] = job[k] /\ held'[k] = held[k]
  <2>1. CASE StartScrape(j) \/ LoadScrape(j) \/ SetLock(j)
    BY <1>1, <2>1 DEF StartScrape, LoadScrape, SetLock, Jobs
  <2>2. CASE Browse(j)
    BY <1>1, <2>2 DEF Browse, Jobs
  <2>3. CASE SaveScrape(j) \/ Unlock(j)
    BY <1>1, <2>3 DEF SaveScrape, Unlock, Jobs
  <2> QED  BY <2>1, <2>2, <2>3 DEF ScrapeStep
<1>3. UNCHANGED <<latest, crossed>>
  BY DEF ScrapeStep, StartScrape, LoadScrape, SetLock, Browse, SaveScrape, Unlock, savedVars
<1>4. CASE session' = session /\ job'[j] \notin {"locking", "browsing", "scraped"}
  <2>1. \A k \in Between' : k \in Between /\ held'[k] = held[k]
    BY <1>2, <1>4 DEF Between
  <2> QED  BY <1>3, <1>4, <2>1, LessIsHeld
<1>5. ASSUME session' = session, crossed = {} /\ session # Deleted => Had(j)'.of = latest
      PROVE  KeptIInv'
  <2>1. crossed = {} /\ session # Deleted => \A k \in Between' : Had(k)'.of = latest
    <3>1. ASSUME NEW k \in Between', k # j, crossed = {}, session # Deleted PROVE Had(k)'.of = latest
      <4>1. k \in Between /\ Had(k)' = Had(k)  BY <1>2, <3>1 DEF Between, Had
      <4> QED  BY <3>1, <4>1 DEF KeptIInv
    <3> QED  BY <1>5, <3>1
  <2> QED  BY <1>3, <1>5, <2>1 DEF KeptIInv, LoginsAreKept, Exists
<1>6. CASE StartScrape(j)
  BY <1>1, <1>4, <1>6 DEF StartScrape
<1>7. CASE LoadScrape(j)
  <2>1. session' = session  BY <1>7 DEF LoadScrape
  <2>2. CASE job'[j] = "failed"
    BY <1>4, <2>1, <2>2
  <2>3. CASE held'[j] = IF Exists THEN session.cookies ELSE None
    <3>1. crossed = {} /\ session # Deleted => Had(j)'.of = latest
      BY <2>3 DEF KeptIInv, LoginsAreKept, Exists, Had, NoCookies
    <3> QED  BY <1>5, <2>1, <3>1
  <2> QED  BY <1>1, <1>7, <2>2, <2>3 DEF LoadScrape
<1>8. CASE SetLock(j)
  <2>1. session' = session  BY <1>8 DEF SetLock, savedVars
  <2>2. CASE job'[j] = "failed"
    BY <1>4, <2>1, <2>2
  <2>3. CASE job[j] = "locking" /\ held' = held
    <3>1. crossed = {} /\ session # Deleted => Had(j)'.of = latest
      BY <2>3 DEF KeptIInv, Between, Had
    <3> QED  BY <1>5, <2>1, <3>1
  <2> QED  BY <1>1, <1>8, <2>2, <2>3 DEF SetLock
<1>9. CASE Browse(j)
  <2>1. session' = session /\ job[j] = "browsing"  BY <1>9 DEF Browse
  <2>2. CASE job'[j] = "unlocking_failed"
    BY <1>4, <2>1, <2>2
  <2>3. ASSUME NEW login, job'[j] = "scraped",
               Holds(j, [login |-> login, by |-> "scrape", of |-> Had(j).of,
                         acted |-> Had(j).acted \/ j \in Acting])
        PROVE  KeptIInv'
    <3>1. ForTheSession(j)'  BY <1>1, <1>9, ScrapeSteps DEF ScrapeStep, SessionIInv
    <3>2. held'[j] # None  BY <2>3, <3>1, SessionAssumption DEF ForTheSession
    <3>3. Had(j)'.of = Had(j).of  BY <1>1, <2>3, <3>2 DEF Had
    <3>4. j \in Between  BY <2>1 DEF Between
    <3> QED  BY <1>5, <2>1, <3>3, <3>4 DEF KeptIInv
  <2> QED  BY <1>1, <1>9, <2>2, <2>3 DEF Browse
<1>10. CASE SaveScrape(j)
  <2>1. job[j] = "scraped" /\ job'[j] \in {"unlocking_succeeded", "unlocking_failed"}
    BY <1>1, <1>10 DEF SaveScrape
  <2>2. held[j] \in Cookies /\ held[j] # None /\ Had(j) = held[j] /\ j \in Between
    BY <1>1, <2>1, SessionAssumption DEF ForTheSession, Had, Between
  <2>3. CASE session' = session
    BY <1>4, <2>1, <2>3
  <2>4. CASE Exists /\ session' = Saved(j)
    <3>1. session' \in Rows /\ session'.cookies = held[j]
      BY <2>2, <2>4, SessionRow DEF SessionIInv, Saved, Rows
    <3>2. session' \notin {None, Deleted} /\ session \notin {None, Deleted}
      BY <2>4, <3>1, SessionAssumption DEF Exists
    <3>3. crossed = {} => session'.cookies.of = latest
      BY <2>2, <3>1, <3>2 DEF KeptIInv
    <3>4. \A k \in Between' : k \in Between /\ Had(k)' = Had(k)
      BY <1>2, <2>1 DEF Between, Had
    <3> QED  BY <1>3, <2>2, <3>1, <3>2, <3>3, <3>4 DEF KeptIInv, LoginsAreKept
  <2> QED  BY <1>10, <2>3, <2>4 DEF SaveScrape, Saved
<1>11. CASE Unlock(j)
  BY <1>1, <1>4, <1>11 DEF Unlock
<1> QED  BY <1>6, <1>7, <1>8, <1>9, <1>10, <1>11 DEF ScrapeStep

LEMMA KeptStays ==
  ASSUME SessionIInv, KeptIInv, [SessionChange]_sessionVars
  PROVE  KeptIInv'
<1>1. ASSUME NEW t \in Templates, Connect(t) \/ CreateSession(t) PROVE KeptIInv'
  <2>1. /\ session = None /\ session' = [made |-> t, cookies |-> None]
        /\ UNCHANGED <<job, held, latest, crossed>>
    BY <1>1 DEF Connect, CreateSession, savedVars
  <2>2. session # Deleted  BY <2>1, SessionAssumption
  <2> QED  BY <2>1, <2>2 DEF KeptIInv, LoginsAreKept, Between, Had
<1>2. CASE DeleteSession
  BY <1>2, SessionAssumption DEF DeleteSession, savedVars, KeptIInv, LoginsAreKept, Exists
<1>3. ASSUME NEW j \in Jobs, Die(j) PROVE KeptIInv'
  <2>1. /\ UNCHANGED <<session, latest, crossed>> /\ job'[j] = "dead"
        /\ \A k \in Jobs \ {j} : job'[k] = job[k] /\ held'[k] = held[k]
    BY <1>3 DEF Die, Moves, Holds, savedVars, SessionIInv, SessionTypeOK
  <2>2. \A k \in Between' : k \in Between /\ held'[k] = held[k]
    BY <2>1 DEF Between, Jobs
  <2> QED  BY <2>1, <2>2, LessIsHeld
<1>4. CASE UNCHANGED sessionVars
  BY <1>4, LessIsHeld DEF sessionVars, Between
<1> QED  BY <1>1, <1>2, <1>3, <1>4, LoginsKeep, ScrapesKeep DEF SessionChange, SessionStep

\* However many logins and scrapes of a site overlap, end in the middle or are
\* repeated: once a login was saved, what is in the session descends from it
\* until the next, unless a scrape had loaded before it and saves after it
\* (scrape_page, _save_session; nothing reads the key that is called a lock).
THEOREM LoginsStay == NodeSpec => []LoginsAreKept
<1>1. NodeInit => SessionIInv /\ KeptIInv
  <2> SUFFICES ASSUME NodeInit PROVE SessionIInv /\ KeptIInv  OBVIOUS
  <2>1. SessionInit /\ Between = {} /\ ~Exists
    BY DEF NodeInit, SessionInit, Exists, Between, Jobs
  <2> QED  BY <2>1, SessionStarts DEF SessionInit, KeptIInv, LoginsAreKept
<1>2. SessionIInv /\ KeptIInv /\ [NodeNext]_nodeVars => (SessionIInv /\ KeptIInv)'
  BY SessionKeeps, KeptStays, NodeMapsToSession
<1>3. KeptIInv => LoginsAreKept  BY DEF KeptIInv
<1> QED  BY <1>1, <1>2, <1>3, PTL DEF NodeSpec

-----------------------------------------------------------------------------
(* The rows of the node.  Without an attempt that was given up while it    *)
(* inserted, there is one row, which every later attempt reads and at most *)
(* updates; so the last attempt that is waited for leaves its status.      *)

Attempt == [id : Nat, status : RowStatuses, step : WriteSteps]
Middle == {"log", "call", "scraping", "items", "insert_child", "start_child", "waiting"}
Stages == Middle \cup {"record_start", "record_end", "done"}
Ending == stage \in {"record_end", "done"}

\* Facts about sequences.
Only(r, s) == Len(r) = 1 /\ r[1] = s

LEMMA EmptyRows ==
  ASSUME NEW S, NEW r \in Seq(S)
  PROVE  /\ Len(r) \in Nat
         /\ r = <<>> <=> Len(r) = 0
<1>1. Len(<<>>) = 0  BY EmptySeq, Zenon
<1>2. r # <<>> => Len(r) \in Nat \ {0}  BY EmptySeq
<1>3. ASSUME r = <<>> PROVE Len(r) = 0  BY <1>1, <1>3, Zenon
<1> QED  BY <1>2, <1>3

LEMMA Lengths ==
  ASSUME NEW S, NEW r \in Seq(S)
  PROVE  /\ Len(r) < 2 => Len(r) \in {0, 1}
         /\ Len(r) # 0 => 1 \in 1 .. Len(r)
         /\ Len(r) + 1 # 0
<1> DEFINE n == Len(r)
<1>1. n \in Nat  OBVIOUS
<1> HIDE DEF n
<1>2. (n < 2 => n \in {0, 1}) /\ (n # 0 => 1 \in 1 .. n) /\ n + 1 # 0  BY <1>1
<1> QED  BY <1>2 DEF n

LEMMA OneRowIs ==
  ASSUME NEW S, NEW r \in Seq(S), NEW s \in S
  PROVE  Only(r, s) <=> r = <<s>>
<1>1. <<s>> \in Seq(S) /\ Len(<<s>>) = 1 /\ <<s>>[1] = s  OBVIOUS
<1>2. ASSUME Only(r, s) PROVE r = <<s>>  BY <1>1, <1>2, SeqEqual DEF Only
<1>3. ASSUME r = <<s>> PROVE Only(r, s)
  <2>1. Len(r) = 1 /\ r[1] = s  BY <1>1, <1>3, Zenon
  <2> QED  BY <2>1 DEF Only
<1> QED  BY <1>2, <1>3

RowTypeOK ==
  /\ stage \in Stages
  /\ hiccups \in Nat
  /\ rows \in Seq(RowStatuses)
  /\ writing = None \/ writing \in Attempt
  /\ late \in SUBSET Attempt

\* Whose attempts there are.
AttemptsOK ==
  /\ writing # None => /\ Recording
                       /\ writing.step # "over"
                       /\ writing.status = IF stage = "record_start" THEN "running" ELSE RowStatus(outcome)
                       /\ writing.step \in {"update", "keep"} => Len(rows) # 0
  /\ \A a \in late : /\ a.status = "running" \/ (Ending /\ a.status = RowStatus(outcome))
                     /\ a.step \in {"update", "keep"} => Len(rows) # 0

\* As long as nothing was given up, whatever it was, only the first insert inserts.
AloneOK ==
  late = {} => /\ Len(rows) \in {0, 1}
               /\ writing # None /\ writing.step = "insert" => Len(rows) = 0

OneRow ==
  node.type # "skipped" /\ ~GivenUp("running") =>
    /\ stage = "record_start" =>
         /\ Len(rows) = 0 \/ Only(rows, "running")
         /\ writing # None => writing.step # "update"
         /\ writing # None /\ writing.step = "keep" => Only(rows, "running")
    /\ stage \in Middle => Only(rows, "running")
    /\ Ending =>
         /\ Only(rows, "running") \/ Only(rows, RowStatus(outcome))
         /\ writing # None => writing.step # "insert"
         /\ writing # None /\ writing.step = "keep" => Only(rows, RowStatus(outcome))
         /\ \A a \in late : a.step # "insert"
    /\ stage = "done" => Only(rows, RowStatus(outcome))

RowIInv ==
  /\ RowTypeOK
  /\ AttemptsOK
  /\ AloneOK
  /\ OneRow
  /\ stage = "done" => Len(rows) # 0
  /\ node.type = "skipped" => Ending

LEMMA RowStatusType == RowStatus(outcome) \in RowStatuses /\ RowStatus(outcome) # "running"
  BY DEF RowStatus, RowStatuses

LEMMA RowStarts ==
  ASSUME NodeInit
  PROVE  RowIInv
<1>1. /\ rows \in Seq(RowStatuses) /\ Len(rows) = 0
      /\ writing = None /\ late = {} /\ hiccups = 0
      /\ stage = IF node.type = "skipped" THEN "record_end" ELSE "record_start"
  <2>1. rows = <<>>  BY DEF NodeInit
  <2>2. rows \in Seq(RowStatuses)  BY <2>1
  <2> QED  BY <2>1, <2>2, EmptyRows DEF NodeInit
<1>2. RowTypeOK  BY <1>1 DEF RowTypeOK, Stages
<1>3. AttemptsOK  BY <1>1 DEF AttemptsOK
<1>4. AloneOK  BY <1>1 DEF AloneOK
<1>5. OneRow  BY <1>1 DEF OneRow, Middle, Ending
<1> QED  BY <1>1, <1>2, <1>3, <1>4, <1>5 DEF RowIInv, Ending

\* An attempt begins.
LEMMA BeginWriteStep ==
  ASSUME RowIInv, BeginWrite
  PROVE  RowIInv'
<1>1. /\ Recording /\ UNCHANGED <<node, stage, outcome, rows, late, hiccups>>
      /\ writing' = [id |-> hiccups, status |-> IF stage = "record_start" THEN "running" ELSE RowStatus(outcome),
                     step |-> "read"]
  BY DEF BeginWrite, callVars
<1>2. writing' \in Attempt /\ writing' # None
  <2>1. writing' \in Attempt  BY <1>1, RowStatusType DEF RowIInv, RowTypeOK, Attempt, RowStatuses, WriteSteps
  <2> QED  BY <2>1, CallAssumption DEF Attempt
<1>3. writing'.step = "read"
      /\ writing'.status = IF stage = "record_start" THEN "running" ELSE RowStatus(outcome)
  BY <1>1
<1>4. RowTypeOK'  BY <1>1, <1>2 DEF RowIInv, RowTypeOK
<1>5. AttemptsOK'  BY <1>1, <1>2, <1>3 DEF RowIInv, AttemptsOK, Recording, Ending, RowStatus
<1>6. AloneOK' /\ OneRow'
  BY <1>1, <1>2, <1>3 DEF RowIInv, AloneOK, OneRow, Ending, RowStatus, GivenUp
<1> QED  BY <1>1, <1>4, <1>5, <1>6 DEF RowIInv, Ending

\* What a write leaves.
LEMMA WrittenRows ==
  ASSUME RowTypeOK, NEW a \in Attempt, a.step \in {"update", "keep"} => Len(rows) # 0
  PROVE  /\ Written(a) \in Seq(RowStatuses)
         /\ Len(rows) # 0 => Len(Written(a)) # 0
         /\ a.step \in {"insert", "update", "keep"} => Len(Written(a)) # 0
         /\ a.step = "insert" /\ Len(rows) = 0 => Only(Written(a), a.status)
         /\ a.step = "update" /\ Len(rows) = 1 => Only(Written(a), a.status)
         /\ a.step # "insert" => Len(Written(a)) = Len(rows)
         /\ a.step \notin {"insert", "update"} => Written(a) = rows
<1>1. a.status \in RowStatuses /\ rows \in Seq(RowStatuses) /\ Len(rows) \in Nat
  BY EmptyRows DEF Attempt, RowTypeOK
<1>2. CASE a.step = "insert"
  <2>1. Written(a) = Append(rows, a.status)  BY <1>2 DEF Written
  <2>2. /\ Written(a) \in Seq(RowStatuses) /\ Len(Written(a)) = Len(rows) + 1
        /\ Written(a)[Len(rows) + 1] = a.status
    BY <1>1, <2>1, AppendProperties
  <2>3. Len(rows) + 1 # 0  BY <1>1, Lengths
  <2> QED  BY <1>2, <2>2, <2>3 DEF Only
<1>3. CASE a.step = "update"
  <2>1. Written(a) = [rows EXCEPT ![1] = a.status]  BY <1>3 DEF Written
  <2>2. 1 \in 1 .. Len(rows)  BY <1>1, <1>3, Lengths
  <2>3. /\ Written(a) \in Seq(RowStatuses) /\ Len(Written(a)) = Len(rows)
        /\ Written(a)[1] = a.status
    BY <1>1, <2>1, <2>2, ExceptSeq
  <2> QED  BY <1>3, <2>3 DEF Only
<1>4. CASE a.step \notin {"insert", "update"}
  <2>1. Written(a) = rows  BY <1>4 DEF Written
  <2> QED  BY <1>1, <1>4, <2>1
<1> QED  BY <1>2, <1>3, <1>4

\* What a read leaves: the attempt goes on with what it found.
LEMMA ReadsRows ==
  ASSUME RowTypeOK, NEW a \in Attempt, Reading(a)
  PROVE  /\ ReadsAs(a) \in Attempt /\ ReadsAs(a).status = a.status
         /\ ReadsAs(a).step \in {"insert", "keep", "update"}
         /\ Len(rows) = 0 => ReadsAs(a).step = "insert"
         /\ Len(rows) # 0 => /\ ReadsAs(a).step # "insert"
                             /\ ReadsAs(a).step = "keep" <=> Only(rows, a.status)
         /\ Len(rows) \in {0, 1}
<1>1. rows \in Seq(RowStatuses) /\ Len(rows) \in {0, 1} /\ (rows = <<>> <=> Len(rows) = 0)
  BY EmptyRows, Lengths DEF RowTypeOK, Reading
<1>2. ReadsAs(a).step = IF Len(rows) = 0 THEN "insert" ELSE IF rows[1] = a.status THEN "keep" ELSE "update"
  <2>1. ReadsAs(a).step = IF rows = <<>> THEN "insert" ELSE IF rows[1] = a.status THEN "keep" ELSE "update"
    BY DEF ReadsAs, Attempt
  <2> QED  BY <1>1, <2>1, Zenon
<1>3. ReadsAs(a) \in Attempt /\ ReadsAs(a).status = a.status
  BY DEF ReadsAs, Attempt, WriteSteps
<1> QED
  <2>1. CASE Len(rows) = 0  BY <1>2, <1>3, <2>1
  <2>2. CASE Len(rows) = 1  BY <1>2, <1>3, <2>2 DEF Only
  <2> QED  BY <1>1, <2>1, <2>2

\* The steps of the attempt that is waited for.
LEMMA ReadStep ==
  ASSUME RowIInv, writing # None, Reading(writing), writing' = ReadsAs(writing),
         UNCHANGED <<node, stage, outcome, rows, late, hiccups>>
  PROVE  RowIInv'
<1>1. writing \in Attempt /\ RowTypeOK  BY DEF RowIInv, RowTypeOK
<1>2. writing' # None  BY <1>1, ReadsRows, CallAssumption DEF Attempt
<1>3. RowTypeOK'  BY <1>1, ReadsRows DEF RowTypeOK
<1>4. AttemptsOK'
  BY <1>1, <1>2, ReadsRows DEF RowIInv, AttemptsOK, Recording, Ending, RowStatus
<1>5. AloneOK'  BY <1>1, ReadsRows DEF RowIInv, AloneOK
<1>6. OneRow'
  <2>1. SUFFICES ASSUME node.type # "skipped", ~GivenUp("running") PROVE OneRow'
    BY DEF OneRow, GivenUp
  <2>2. writing.status = IF stage = "record_start" THEN "running" ELSE RowStatus(outcome)
    BY DEF RowIInv, AttemptsOK
  <2>3. Recording  BY DEF RowIInv, AttemptsOK
  <2>4. CASE stage = "record_start"
    <3>1. Len(rows) = 0 \/ Only(rows, "running")  BY <2>1, <2>4 DEF RowIInv, OneRow
    <3> QED  BY <1>1, <2>2, <2>4, <3>1, ReadsRows DEF OneRow, Middle, Ending
  <2>5. CASE stage = "record_end"
    <3>1. Len(rows) # 0 /\ (Only(rows, "running") \/ Only(rows, RowStatus(outcome)))
      <4>1. Only(rows, "running") \/ Only(rows, RowStatus(outcome))
        BY <2>1, <2>5 DEF RowIInv, OneRow, Ending
      <4> QED  BY <4>1 DEF Only
    <3>2. \A a \in late : a.step # "insert"  BY <2>1, <2>5 DEF RowIInv, OneRow, Ending
    <3> QED  BY <1>1, <2>2, <2>5, <3>1, <3>2, ReadsRows DEF OneRow, Middle, Ending, RowStatus
  <2> QED  BY <2>3, <2>4, <2>5 DEF Recording
<1> QED  BY <1>3, <1>4, <1>5, <1>6 DEF RowIInv, Ending

\* The rows after the attempt that is waited for has written.
LEMMA WaitedWrite ==
  ASSUME RowIInv, writing # None, writing.step # "read"
  PROVE  /\ Written(writing) \in Seq(RowStatuses) /\ Len(Written(writing)) # 0
         /\ late = {} => Len(Written(writing)) \in {0, 1}
         /\ node.type # "skipped" /\ ~GivenUp("running") => Only(Written(writing), writing.status)
<1>1. writing \in Attempt /\ RowTypeOK /\ writing.step \in {"insert", "update", "keep"}
  BY DEF RowIInv, RowTypeOK, AttemptsOK, Attempt, WriteSteps
<1>2. writing.step \in {"update", "keep"} => Len(rows) # 0  BY DEF RowIInv, AttemptsOK
<1>3. Written(writing) \in Seq(RowStatuses) /\ Len(Written(writing)) # 0
  BY <1>1, <1>2, WrittenRows
<1>4. ASSUME late = {} PROVE Len(Written(writing)) \in {0, 1}
  <2>1. CASE writing.step = "insert"
    <3>1. Len(rows) = 0  BY <1>4, <2>1 DEF RowIInv, AloneOK
    <3>2. Only(Written(writing), writing.status)  BY <1>1, <1>2, <2>1, <3>1, WrittenRows
    <3> QED  BY <3>2 DEF Only
  <2>2. CASE writing.step # "insert"
    BY <1>1, <1>2, <1>4, <2>2, WrittenRows DEF RowIInv, AloneOK
  <2> QED  BY <2>1, <2>2
<1>5. ASSUME node.type # "skipped", ~GivenUp("running") PROVE Only(Written(writing), writing.status)
  <2>1. writing.status = IF stage = "record_start" THEN "running" ELSE RowStatus(outcome)
    BY DEF RowIInv, AttemptsOK
  <2>2. CASE stage = "record_start"
    <3>1. /\ Len(rows) = 0 \/ Only(rows, "running")
          /\ writing.step # "update" /\ (writing.step = "keep" => Only(rows, "running"))
      BY <1>5, <2>2 DEF RowIInv, OneRow
    <3>2. writing.step = "insert" => Len(rows) = 0
      <4>1. late = {}
        BY <1>5, <2>2 DEF RowIInv, AttemptsOK, GivenUp, Ending
      <4> QED  BY <4>1 DEF RowIInv, AloneOK
    <3> QED  BY <1>1, <1>2, <2>1, <2>2, <3>1, <3>2, WrittenRows
  <2>3. CASE stage = "record_end"
    <3>1. /\ Only(rows, "running") \/ Only(rows, RowStatus(outcome))
          /\ writing.step # "insert" /\ (writing.step = "keep" => Only(rows, RowStatus(outcome)))
      BY <1>5, <2>3 DEF RowIInv, OneRow, Ending
    <3>2. Len(rows) = 1  BY <3>1 DEF Only
    <3> QED  BY <1>1, <1>2, <2>1, <2>3, <3>1, <3>2, WrittenRows
  <2> QED  BY <2>2, <2>3 DEF RowIInv, AttemptsOK, Recording
<1> QED  BY <1>3, <1>4, <1>5

LEMMA WriteRowStep ==
  ASSUME RowIInv, WriteRow
  PROVE  RowIInv'
<1>1. CASE Reading(writing) /\ writing' = ReadsAs(writing) /\ UNCHANGED <<rows, stage>>
  BY <1>1, ReadStep DEF WriteRow
<1>2. CASE /\ writing.step # "read"
           /\ rows' = Written(writing)
           /\ writing' = None
           /\ stage' = IF stage = "record_end" THEN "done"
                       ELSE CASE node.type = "for_each" -> "items" [] node.type = "call_workflow" -> "insert_child"
                              [] OTHER -> "log"
  <2>1. /\ writing # None /\ UNCHANGED <<node, outcome, late, hiccups>>
        /\ Recording
        /\ writing.status = IF stage = "record_start" THEN "running" ELSE RowStatus(outcome)
    BY DEF WriteRow, RowIInv, AttemptsOK
  <2>2. /\ rows' \in Seq(RowStatuses) /\ Len(rows') # 0
        /\ late = {} => Len(rows') \in {0, 1}
        /\ node.type # "skipped" /\ ~GivenUp("running") => Only(rows', writing.status)
    BY <1>2, <2>1, WaitedWrite
  <2>3. /\ stage = "record_end" => stage' = "done"
        /\ stage = "record_start" => stage' \in Middle
    BY <1>2 DEF Middle
  <2>4. RowTypeOK'  BY <1>2, <2>1, <2>2, <2>3 DEF RowIInv, RowTypeOK, Stages, Recording
  <2>5. AttemptsOK'  BY <1>2, <2>1, <2>2, <2>3 DEF RowIInv, AttemptsOK, Ending, Recording, RowStatus
  <2>6. AloneOK'  BY <1>2, <2>1, <2>2 DEF AloneOK
  <2>7. OneRow'
    <3>1. node.type # "skipped" /\ ~GivenUp("running") /\ stage = "record_end" => \A a \in late : a.step # "insert"
      BY DEF RowIInv, OneRow, Ending
    <3> QED
      BY <1>2, <2>1, <2>2, <2>3, <3>1 DEF OneRow, GivenUp, Ending, Middle, Recording, RowStatus
  <2> QED  BY <2>1, <2>2, <2>3, <2>4, <2>5, <2>6, <2>7 DEF RowIInv, Ending, Recording
<1> QED  BY <1>1, <1>2 DEF WriteRow

LEMMA FailWriteStep ==
  ASSUME RowIInv, FailWrite
  PROVE  RowIInv'
<1>1. /\ writing # None /\ writing' = None /\ UNCHANGED <<node, stage, outcome, late>>
      /\ hiccups' \in {hiccups, hiccups + 1}
      /\ rows' = rows \/ (writing.step # "read" /\ rows' = Written(writing))
  BY DEF FailWrite, callVars
<1>2. CASE rows' = rows
  <2>1. RowTypeOK'  BY <1>1, <1>2 DEF RowIInv, RowTypeOK
  <2>2. AttemptsOK' /\ AloneOK'  BY <1>1, <1>2 DEF RowIInv, AttemptsOK, AloneOK, Ending, RowStatus
  <2>3. OneRow'  BY <1>1, <1>2 DEF RowIInv, OneRow, Ending, GivenUp, RowStatus, Middle
  <2> QED  BY <1>1, <1>2, <2>1, <2>2, <2>3 DEF RowIInv, Ending
<1>3. CASE writing.step # "read" /\ rows' = Written(writing)
  <2>1. /\ Recording
        /\ writing.status = IF stage = "record_start" THEN "running" ELSE RowStatus(outcome)
    BY <1>1 DEF RowIInv, AttemptsOK
  <2>2. /\ rows' \in Seq(RowStatuses) /\ Len(rows') # 0
        /\ late = {} => Len(rows') \in {0, 1}
        /\ node.type # "skipped" /\ ~GivenUp("running") => Only(rows', writing.status)
    BY <1>1, <1>3, WaitedWrite
  <2>3. RowTypeOK' /\ AttemptsOK' /\ AloneOK'
    <3>1. RowTypeOK'  BY <1>1, <2>2 DEF RowIInv, RowTypeOK
    <3>2. AttemptsOK'  BY <1>1, <2>2 DEF RowIInv, AttemptsOK, Ending, RowStatus
    <3>3. AloneOK'  BY <1>1, <2>2 DEF AloneOK
    <3> QED  BY <3>1, <3>2, <3>3
  <2>4. OneRow'
    <3>1. node.type # "skipped" /\ ~GivenUp("running") /\ stage = "record_end" => \A a \in late : a.step # "insert"
      BY DEF RowIInv, OneRow, Ending
    <3> QED
      BY <1>1, <2>1, <2>2, <3>1 DEF OneRow, GivenUp, Ending, Middle, Recording, RowStatus
  <2> QED  BY <1>1, <2>2, <2>3, <2>4 DEF RowIInv, Ending
<1> QED  BY <1>1, <1>2, <1>3

LEMMA GiveUpWriteStep ==
  ASSUME RowIInv, GiveUpWrite
  PROVE  RowIInv'
<1>1. /\ writing # None /\ writing' = None /\ UNCHANGED <<node, stage, outcome, rows>>
      /\ hiccups' = hiccups + 1 /\ late' = late \cup {writing} /\ late' # {}
      /\ writing \in Attempt
  BY DEF GiveUpWrite, callVars, RowIInv, RowTypeOK
<1>2. RowTypeOK'  BY <1>1 DEF RowIInv, RowTypeOK
<1>3. AttemptsOK'  BY <1>1 DEF RowIInv, AttemptsOK, Ending, Recording, RowStatus
<1>4. AloneOK'  BY <1>1 DEF AloneOK
<1>5. OneRow'
  <2>1. ~GivenUp("running")' => ~GivenUp("running") /\ writing.status # "running"
    BY <1>1 DEF GivenUp
  <2>2. writing.status # "running" => stage = "record_end"
    BY <1>1 DEF RowIInv, AttemptsOK, Recording
  <2> QED  BY <1>1, <2>1, <2>2 DEF RowIInv, OneRow, Ending, Middle, RowStatus
<1> QED  BY <1>1, <1>2, <1>3, <1>4, <1>5 DEF RowIInv, Ending

LEMMA WriteLateStep ==
  ASSUME RowIInv, WriteLate
  PROVE  RowIInv'
<1>1. PICK a \in late :
        \/ Reading(a) /\ late' = (late \ {a}) \cup {ReadsAs(a)} /\ UNCHANGED rows
        \/ /\ a.step \notin {"read", "over"}
           /\ rows' = Written(a)
           /\ late' = (late \ {a}) \cup {[a EXCEPT !.step = "over"]}
  BY DEF WriteLate
<1>2. /\ UNCHANGED <<node, stage, outcome, writing, hiccups>> /\ a \in Attempt /\ RowTypeOK
      /\ a.status = "running" \/ (Ending /\ a.status = RowStatus(outcome))
      /\ a.step \in {"update", "keep"} => Len(rows) # 0
  BY DEF WriteLate, callVars, RowIInv, RowTypeOK, AttemptsOK
<1>3. ASSUME NEW b \in Attempt, late' = (late \ {a}) \cup {b}, b.status = a.status,
             rows' \in Seq(RowStatuses), Len(rows) # 0 => Len(rows') # 0,
             b.step \in {"update", "keep"} => Len(rows') # 0,
             node.type # "skipped" /\ ~GivenUp("running") /\ Ending =>
               /\ rows' = rows \/ Only(rows', RowStatus(outcome))
               /\ b.step # "insert"
      PROVE  RowIInv'
  <2>1. RowTypeOK'  BY <1>2, <1>3 DEF RowTypeOK
  <2>2. AttemptsOK'
    <3>1. writing # None =>
            /\ Recording
            /\ writing.step # "over"
            /\ writing.status = IF stage = "record_start" THEN "running" ELSE RowStatus(outcome)
            /\ writing.step \in {"update", "keep"} => Len(rows') # 0
      BY <1>3 DEF RowIInv, AttemptsOK
    <3>2. ASSUME NEW c \in late'
          PROVE  /\ c.status = "running" \/ (Ending /\ c.status = RowStatus(outcome))
                 /\ c.step \in {"update", "keep"} => Len(rows') # 0
      BY <1>2, <1>3, <3>2 DEF RowIInv, AttemptsOK
    <3> QED  BY <1>2, <3>1, <3>2 DEF AttemptsOK, RowStatus, Recording, Ending
  <2>3. AloneOK'  BY <1>3 DEF AloneOK
  <2>4. OneRow'
    <3>1. ~GivenUp("running")' => ~GivenUp("running") /\ a.status # "running"
      BY <1>3 DEF GivenUp
    <3> QED  BY <1>2, <1>3, <3>1 DEF RowIInv, OneRow, Ending, Middle, RowStatus
  <2> QED  BY <1>2, <1>3, <2>1, <2>2, <2>3, <2>4 DEF RowIInv, Ending
<1>4. CASE Reading(a) /\ late' = (late \ {a}) \cup {ReadsAs(a)} /\ UNCHANGED rows
  <2>1. ASSUME node.type # "skipped", ~GivenUp("running"), Ending PROVE Len(rows) # 0
    <3>1. Only(rows, "running") \/ Only(rows, RowStatus(outcome))
      BY <2>1 DEF RowIInv, OneRow, Ending
    <3> QED  BY <3>1 DEF Only
  <2> QED  BY <1>2, <1>3, <1>4, <2>1, ReadsRows DEF RowTypeOK
<1>5. CASE /\ a.step \notin {"read", "over"}
           /\ rows' = Written(a)
           /\ late' = (late \ {a}) \cup {[a EXCEPT !.step = "over"]}
  <2> DEFINE b == [a EXCEPT !.step = "over"]
  <2>1. b \in Attempt /\ b.status = a.status /\ b.step = "over"
    BY <1>2 DEF Attempt, WriteSteps
  <2>2. rows' \in Seq(RowStatuses) /\ (Len(rows) # 0 => Len(rows') # 0)
    BY <1>2, <1>5, WrittenRows
  <2>3. ASSUME node.type # "skipped", ~GivenUp("running"), Ending
        PROVE  rows' = rows \/ Only(rows', RowStatus(outcome))
    <3>1. /\ a.step # "insert" /\ a.status = RowStatus(outcome)
          /\ Only(rows, "running") \/ Only(rows, RowStatus(outcome))
      BY <1>2, <2>3 DEF RowIInv, OneRow, GivenUp
    <3>2. Len(rows) = 1  BY <3>1 DEF Only
    <3> QED  BY <1>2, <1>5, <3>1, <3>2, WrittenRows
  <2> HIDE DEF b
  <2> QED  BY <1>3, <1>5, <2>1, <2>2, <2>3 DEF b
<1> QED  BY <1>1, <1>4, <1>5
\* The node goes on between its two records.
LEMMA MiddleStep ==
  ASSUME RowIInv, UNCHANGED <<node, rows, writing, late, hiccups>>,
         stage \in Middle, stage' \in Middle \/ stage' = "record_end"
  PROVE  RowIInv'
<1>1. writing = None /\ ~Ending /\ node.type # "skipped"
  BY DEF RowIInv, AttemptsOK, Recording, Ending, Middle
<1>2. RowTypeOK'  BY DEF RowIInv, RowTypeOK, Stages
<1>3. AttemptsOK'  BY <1>1 DEF RowIInv, AttemptsOK
<1>4. AloneOK'  BY <1>1 DEF RowIInv, AloneOK
<1>5. OneRow'
  <2>1. ~GivenUp("running") => late = {}  BY <1>1 DEF RowIInv, AttemptsOK, GivenUp
  <2> QED  BY <1>1, <2>1 DEF RowIInv, OneRow, Ending, Middle, GivenUp
<1> QED  BY <1>1, <1>2, <1>3, <1>4, <1>5 DEF RowIInv, Ending, Middle

LEMMA RowStutter ==
  ASSUME RowIInv, UNCHANGED <<node, stage, outcome, rows, writing, late, hiccups>>
  PROVE  RowIInv'
<1>1. RowTypeOK' /\ AttemptsOK' /\ AloneOK'
  BY DEF RowIInv, RowTypeOK, AttemptsOK, AloneOK, Recording, Ending, RowStatus
<1>2. OneRow'  BY DEF RowIInv, OneRow, Ending, GivenUp, RowStatus, Middle
<1> QED  BY <1>1, <1>2 DEF RowIInv, Ending

LEMMA NodeStepInMiddle ==
  ASSUME NodeStep \/ LoseChild
  PROVE  /\ UNCHANGED <<node, rows, writing, late, hiccups>>
         /\ stage \in Middle
         /\ stage' \in Middle \/ stage' = "record_end"
<1> USE DEF Middle, Goes, Over, Returns, Raises, rowVars
<1>1. CASE EmitStarted  BY <1>1 DEF EmitStarted
<1>2. CASE BadConfig \/ Delay \/ UnknownType  BY <1>2 DEF BadConfig, Delay, UnknownType
<1>3. CASE CallActivity  BY <1>3 DEF CallActivity
<1>4. CASE CallScraper \/ AwaitScrape  BY <1>4 DEF CallScraper, AwaitScrape
<1>5. CASE NextOfBody \/ NextItem \/ EndItems  BY <1>5 DEF NextOfBody, NextItem, EndItems
<1>6. CASE InsertChild \/ StartChild \/ AwaitChild \/ LoseChild
  BY <1>6 DEF InsertChild, StartChild, AwaitChild, LoseChild
<1> QED  BY <1>1, <1>2, <1>3, <1>4, <1>5, <1>6 DEF NodeStep

LEMMA RowKeeps ==
  ASSUME RowIInv, [NodeNext]_nodeVars
  PROVE  RowIInv'
<1>1. CASE BeginWrite \/ WriteRow \/ FailWrite \/ GiveUpWrite \/ WriteLate
  BY <1>1, BeginWriteStep, WriteRowStep, FailWriteStep, GiveUpWriteStep, WriteLateStep
<1>2. CASE NodeStep \/ LoseChild
  BY <1>2, NodeStepInMiddle, MiddleStep
<1>3. CASE ChildStep \/ BesideTheChild \/ SessionMoves \/ UNCHANGED nodeVars
  BY <1>3, RowStutter DEF ChildStep, BesideTheChild, SessionMoves, nodeVars, callVars, rowVars
<1> QED  BY <1>1, <1>2, <1>3 DEF NodeNext

LEMMA RowImplies ==
  ASSUME RowIInv
  PROVE  RowShowsTheEnd
<1>1. rows \in Seq(RowStatuses)  BY DEF RowIInv, RowTypeOK
<1>2. stage = "done" /\ ~GivenUp("running") /\ node.type # "skipped" => rows = <<RowStatus(outcome)>>
  BY <1>1, RowStatusType, OneRowIs DEF RowIInv, OneRow
<1>3. stage = "done" => rows # <<>>
  BY <1>1, EmptyRows DEF RowIInv
<1>4. Len(rows) > 1 => late # {}
  BY DEF RowIInv, AloneOK
<1> QED  BY <1>2, <1>3, <1>4 DEF RowShowsTheEnd

\* However often the record of a node is attempted, fails after it was written,
\* or is given up while it is being written: the row of a node that is done
\* says how it ended, unless an attempt to record its start was given up, and a
\* node has two rows only after an attempt was (update_node_execution).
THEOREM RowsShowTheEnd == NodeSpec => []RowShowsTheEnd
<1>1. NodeInit => RowIInv  BY RowStarts
<1>2. RowIInv /\ [NodeNext]_nodeVars => RowIInv'  BY RowKeeps
<1>3. RowIInv => RowShowsTheEnd  BY RowImplies
<1> QED  BY <1>1, <1>2, <1>3, PTL DEF NodeSpec
-----------------------------------------------------------------------------
(* How often the work of each site is done.                                *)

Order == node.body.order
SiteAt(i, j) == <<i, Order[j]>>

\* Where the node is in its body: the sites it is over with, and those it has
\* not come to.
Passed(i, j) == i < item \/ (i = item /\ j < at)
Ahead(i, j) == i > item \/ (i = item /\ j > at)

Ordered(n) == \E j \in 1 .. Len(Order) : Order[j] = n

BodyPlace ==
  /\ item \in 1 .. node.items + 1 /\ at \in 1 .. Len(Order) + 1
  /\ item > node.items => at = 1
  /\ stage \in {"log", "call"} => item <= node.items /\ at <= Len(Order) /\ ~Skipped(BodyNode)
  /\ outcome = "success" => item > node.items

\* The status of a node of the body that was passed is whether its work was
\* done.
BodyStatus ==
  /\ DOMAIN body_status = node.body.nodes
  /\ \A j \in 1 .. at - 1 :
       body_status[Order[j]] = IF effects[SiteAt(item, j)] > 0 THEN "success" ELSE "skipped"

\* What was asked for is done where it was passed; nothing is done ahead, nor
\* where the order does not lead.
BodyEffects ==
  /\ \A i \in 1 .. node.items : \A j \in 1 .. Len(Order) :
       Passed(i, j) => (effects[SiteAt(i, j)] > 0 <=> Runs(SiteAt(i, j)))
  /\ \A i \in 1 .. node.items : \A j \in 1 .. Len(Order) :
       Ahead(i, j) => effects[SiteAt(i, j)] = 0
  /\ item <= node.items /\ at <= Len(Order) /\ stage \in {"record_start", "items", "log"} =>
       effects[SiteAt(item, at)] = 0
  /\ \A s \in Sites(node) : ~Ordered(s[2]) => effects[s] = 0

BodyInv == BodyPlace /\ BodyStatus /\ BodyEffects

SingleInv ==
  /\ stage \in {"record_start", "log"} => effects[NoSite] = 0
  /\ node.type \in Once => effects[NoSite] <= 1
  /\ ~node.configured /\ node.type \in Retried \ NeedNoConfig => effects[NoSite] = 0
  /\ outcome = "success" /\ node.type \in Retried \cup Once => effects[NoSite] >= 1

EffectInv ==
  /\ effects \in [Sites(node) -> 0 .. 3] /\ tries \in 0 .. 3
  /\ stage = "call" => effects[Site] <= tries /\ tries < Attempts(Type)
  /\ IF Bodied(node) THEN BodyInv ELSE SingleInv

\* Which stages a node comes through.
StageInv ==
  /\ node \in Plans /\ stage \in Stages
  /\ stage = "items" => Bodied(node)
  /\ stage \in {"log", "call"} => node.type # "call_workflow"
  /\ stage = "scraping" => node.type = "web_scraper"
  /\ stage \in {"insert_child", "start_child", "waiting"} => node.type = "call_workflow"
  /\ outcome \in {None, "success", "error", "skipped"} /\ (outcome # None => Ending)
  /\ mine \in Scrapes \cup {None} /\ (mine # None => stage \in {"scraping", "record_end", "done"})
  /\ stage = "scraping" => mine # None

\* How far the child is, and what its row can say.
ChildInv ==
  /\ child \in {None, "started", "running", "marked", "failing", "raised", "stopped"} \cup ChildEnds
  /\ sub_row \in {None, Deleted, "pending", "running"} \cup ChildEnds
  /\ child_late \subseteq {"running"} \cup ChildEnds
  /\ stage \in {"record_start", "insert_child"} => sub_row = None /\ child = None
  /\ stage = "start_child" => sub_row \in {"pending", Deleted} /\ child = None
  /\ child = None => child_late = {}
  /\ child \in ChildEnds => sub_row \in {child, Deleted} \cup child_late
  /\ child = "marked" => sub_row \in {"completed", Deleted} \cup child_late
  /\ ChildIsOver

\* The inductive invariant, beside those of the session and of the rows.
CallIInv == StageInv /\ EffectInv /\ ChildInv /\ ScrapeIsOver /\ RowIInv /\ SessionIInv

LEMMA BodyFacts ==
  ASSUME node \in Plans, Bodied(node)
  PROVE  /\ node.items \in Nat /\ Len(Order) \in Nat /\ DOMAIN Order = 1 .. Len(Order)
         /\ \A j \in 1 .. Len(Order) : Order[j] \in node.body.nodes
         /\ \A i, j \in 1 .. Len(Order) : Order[i] = Order[j] => i = j
         /\ \A j \in 1 .. Len(Order) : \A p \in Parents(node.body, Order[j]) :
              \E i \in 1 .. Len(Order) : i < j /\ Order[i] = p
         /\ Sites(node) = (1 .. node.items) \X node.body.nodes
         /\ \A i \in 1 .. node.items, j \in 1 .. Len(Order) : SiteAt(i, j) \in Sites(node)
<1>1. node.items \in Nat /\ IsBody(node.body)
  BY PlansAssumption
<1>2. Order \in Seq(node.body.nodes)
  BY <1>1 DEF IsBody, Order
<1>3. Len(Order) \in Nat /\ DOMAIN Order = 1 .. Len(Order)
      /\ \A j \in 1 .. Len(Order) : Order[j] \in node.body.nodes
  BY <1>2
<1>4. /\ \A i, j \in 1 .. Len(Order) : Order[i] = Order[j] => i = j
      /\ \A j \in 1 .. Len(Order) : \A p \in Parents(node.body, Order[j]) :
           \E i \in 1 .. Len(Order) : i < j /\ Order[i] = p
  BY <1>1, <1>3 DEF IsBody, Order
<1>5. Sites(node) = (1 .. node.items) \X node.body.nodes
  BY DEF Sites
<1> QED  BY <1>1, <1>3, <1>4, <1>5 DEF SiteAt

LEMMA CallStarts ==
  ASSUME NodeInit
  PROVE  CallIInv
<1>1. StageInv  BY CallAssumption DEF NodeInit, StageInv, Stages, Ending
<1>2. ChildInv /\ ScrapeIsOver
  BY CallAssumption DEF NodeInit, ChildInv, ChildIsOver, ChildEnds, ScrapeIsOver
<1>3. EffectInv
  <2>1. /\ effects = [s \in Sites(node) |-> 0] /\ tries = 0 /\ item = 1 /\ at = 1
        /\ stage \in {"record_start", "record_end"} /\ outcome # "success"
    BY CallAssumption DEF NodeInit
  <2>2. /\ effects \in [Sites(node) -> 0 .. 3] /\ tries \in 0 .. 3 /\ stage # "call"
        /\ \A s \in Sites(node) : effects[s] = 0
    BY <2>1
  <2>3. CASE Bodied(node)
    <3>1. /\ node.items \in Nat /\ Len(Order) \in Nat
          /\ \A i \in 1 .. node.items, j \in 1 .. Len(Order) : SiteAt(i, j) \in Sites(node)
      BY <2>3, BodyFacts DEF NodeInit
    <3>2. \A i \in 1 .. node.items : \A j \in 1 .. Len(Order) : effects[SiteAt(i, j)] = 0 /\ ~Passed(i, j)
      BY <2>1, <2>2, <3>1 DEF Passed
    <3>3. BodyPlace  BY <2>1, <3>1 DEF BodyPlace
    <3>4. BodyStatus
      <4>1. DOMAIN body_status = node.body.nodes  BY <2>3 DEF NodeInit
      <4> QED  BY <2>1, <4>1 DEF BodyStatus
    <3>5. BodyEffects
      <4>1. item <= node.items /\ at <= Len(Order) => effects[SiteAt(item, at)] = 0
        BY <2>1, <3>1, <3>2
      <4> QED  BY <2>2, <3>2, <4>1 DEF BodyEffects
    <3> QED  BY <2>2, <2>3, <3>3, <3>4, <3>5 DEF EffectInv, BodyInv
  <2>4. CASE ~Bodied(node)
    <3>1. effects[NoSite] = 0  BY <2>1, <2>4 DEF Sites
    <3> QED  BY <2>1, <2>2, <2>4, <3>1 DEF EffectInv, SingleInv
  <2> QED  BY <2>3, <2>4
<1>4. SessionIInv  BY SessionStarts DEF NodeInit
<1> QED  BY <1>1, <1>2, <1>3, <1>4, RowStarts DEF CallIInv

LEMMA CallImplies ==
  ASSUME CallIInv
  PROVE  CallInvariant
<1>1. RowShowsTheEnd /\ ChildIsOver /\ ScrapeIsOver
  BY RowImplies DEF CallIInv, ChildInv
<1>2. CallTypeOK
  <2>1. \A i \in DOMAIN rows : rows[i] \in RowStatuses
    BY DEF CallIInv, RowIInv, RowTypeOK
  <2> QED  BY <2>1 DEF CallIInv, CallTypeOK, StageInv, ChildInv, EffectInv, Stages, Middle
<1>3. EffectsAreBounded
  <2>1. \A s \in DOMAIN effects : effects[s] \in 0 .. 3  BY DEF CallIInv, EffectInv
  <2>2. CASE ~Bodied(node)
    BY <2>1, <2>2 DEF CallIInv, EffectInv, SingleInv, EffectsAreBounded
  <2>3. CASE Bodied(node)
    <3>1. /\ BodyPlace /\ BodyEffects /\ DOMAIN effects = Sites(node)
          /\ node.type = "for_each"
      BY <2>3 DEF CallIInv, EffectInv, BodyInv, Bodied
    <3>2. /\ node.items \in Nat /\ Len(Order) \in Nat /\ DOMAIN Order = 1 .. Len(Order)
          /\ \A i, j \in 1 .. Len(Order) : Order[i] = Order[j] => i = j
          /\ Sites(node) = (1 .. node.items) \X node.body.nodes
      BY <2>3, BodyFacts DEF CallIInv, StageInv
    <3>3. item \in Nat /\ at \in Nat  BY <3>1, <3>2 DEF BodyPlace
    <3>4. ASSUME NEW s \in DOMAIN effects, ~Ordered(s[2]) PROVE effects[s] = 0 /\ ~Runs(s)
      <4>1. effects[s] = 0  BY <3>1, <3>4 DEF BodyEffects
      <4>2. ~Runs(s)  BY <3>2, <3>4 DEF Runs, Order, Ordered
      <4> QED  BY <4>1, <4>2
    <3>5. ASSUME NEW s \in DOMAIN effects, Ordered(s[2])
          PROVE  \E j \in 1 .. Len(Order) : s = SiteAt(s[1], j) /\ s[1] \in 1 .. node.items
      <4>1. s[1] \in 1 .. node.items /\ s = <<s[1], s[2]>>
        BY <3>1, <3>2
      <4> QED  BY <3>5, <4>1 DEF SiteAt, Ordered
    <3>6. ASSUME NEW s \in DOMAIN effects, NEW t \in DOMAIN effects, Before(s, t), effects[t] > 0
          PROVE  effects[s] > 0 <=> Runs(s)
      <4>1. CASE ~Ordered(s[2])
        BY <2>1, <3>4, <4>1
      <4>2. CASE Ordered(s[2])
        <5>1. PICK i \in 1 .. Len(Order) : s = SiteAt(s[1], i) /\ s[1] \in 1 .. node.items
          BY <3>5, <4>2
        <5>2. PICK j \in 1 .. Len(Order) : t = SiteAt(t[1], j) /\ t[1] \in 1 .. node.items
          BY <2>1, <3>4, <3>5, <3>6
        <5>3. ~Ahead(t[1], j)
          <6>1. effects[SiteAt(t[1], j)] # 0  BY <2>1, <3>6, <5>2
          <6> QED  BY <3>1, <5>2, <6>1 DEF BodyEffects
        <5>4. s[1] < t[1] \/ (s[1] = t[1] /\ i < j)
          <6>1. s[2] = Order[i] /\ t[2] = Order[j]  BY <5>1, <5>2 DEF SiteAt
          <6> QED  BY <3>2, <3>6, <5>1, <5>2, <6>1 DEF Before, Order
        <5>5. Passed(s[1], i)
          BY <3>2, <3>3, <5>1, <5>2, <5>3, <5>4 DEF Passed, Ahead
        <5>6. effects[SiteAt(s[1], i)] > 0 <=> Runs(SiteAt(s[1], i))
          BY <3>1, <5>1, <5>5 DEF BodyEffects
        <5> QED  BY <5>1, <5>6
      <4> QED  BY <4>1, <4>2
    <3>7. ASSUME outcome = "success", NEW s \in DOMAIN effects PROVE effects[s] > 0 <=> Runs(s)
      <4>1. CASE ~Ordered(s[2])
        BY <2>1, <3>4, <4>1
      <4>2. CASE Ordered(s[2])
        <5>1. PICK i \in 1 .. Len(Order) : s = SiteAt(s[1], i) /\ s[1] \in 1 .. node.items
          BY <3>5, <4>2
        <5>2. Passed(s[1], i)  BY <3>1, <3>2, <3>3, <3>7, <5>1 DEF BodyPlace, Passed
        <5>3. effects[SiteAt(s[1], i)] > 0 <=> Runs(SiteAt(s[1], i))
          BY <3>1, <5>1, <5>2 DEF BodyEffects
        <5> QED  BY <5>1, <5>3
      <4> QED  BY <4>1, <4>2
    <3>8. node.type \notin Retried \cup Once
      BY <3>1 DEF Retried, Once, WebCalls, DataCalls, ServiceCalls, ModelCalls, FileCalls, MailCalls, CodeCalls, SheetCalls
    <3> QED  BY <2>1, <3>6, <3>7, <3>8 DEF EffectsAreBounded
  <2> QED  BY <2>2, <2>3
<1> QED  BY <1>1, <1>2, <1>3 DEF CallInvariant

\* What a site asks for depends on the sites before it for the same item.
LEMMA RunsElsewhere ==
  ASSUME node \in Plans, Bodied(node), UNCHANGED node,
         NEW i \in 1 .. node.items, NEW j \in 1 .. Len(Order),
         \A k \in 1 .. Len(Order) : k < j => effects'[SiteAt(i, k)] = effects[SiteAt(i, k)]
  PROVE  Runs(SiteAt(i, j))' <=> Runs(SiteAt(i, j))
<1> DEFINE b == node.body  n == Order[j]
<1>1. \A p \in Parents(b, n) : effects'[<<i, p>>] = effects[<<i, p>>]
  <2> SUFFICES ASSUME NEW p \in Parents(b, n) PROVE effects'[<<i, p>>] = effects[<<i, p>>]
    OBVIOUS
  <2>1. PICK k \in 1 .. Len(Order) : k < j /\ Order[k] = p
    BY BodyFacts
  <2> QED  BY <2>1 DEF SiteAt
<1>2. /\ SiteAt(i, j)[1] = i /\ SiteAt(i, j)[2] = n
      /\ SiteAt(i, j)'[1] = i /\ SiteAt(i, j)'[2] = n
  BY DEF SiteAt, Order
<1>3. Runs(SiteAt(i, j)) <=>
        /\ \E k \in DOMAIN b.order : b.order[k] = n
        /\ b.type[n] = "action"
        /\ \/ Parents(b, n) = {}
           \/ \E p \in Parents(b, n) : effects[<<i, p>>] > 0 /\ IsEdgeLive(b.branch[<<p, n>>], "success")
  BY <1>2 DEF Runs
<1>4. Runs(SiteAt(i, j))' <=>
        /\ \E k \in DOMAIN b.order : b.order[k] = n
        /\ b.type[n] = "action"
        /\ \/ Parents(b, n) = {}
           \/ \E p \in Parents(b, n) : effects'[<<i, p>>] > 0 /\ IsEdgeLive(b.branch[<<p, n>>], "success")
  BY <1>2 DEF Runs
<1> HIDE DEF b, n
<1> QED  BY <1>1, <1>3, <1>4

\* Nothing follows a node that was skipped.
LEMMA SkippedIsNotLive ==
  ASSUME NEW label \in Labels \cup {Unlabelled}
  PROVE  ~IsEdgeLive(label, "skipped")
<1>1. "skipped" \notin SwitchStatuses
  BY SwitchStatusesAssumption
<1>2. label \notin Reserved => label \in Labels
  BY DEF Reserved
<1>3. label \in Labels => SwitchStatus(label) # "skipped"
  BY <1>1 DEF SwitchStatuses
<1> QED  BY <1>1, <1>2, <1>3 DEF IsEdgeLive, Succeeded

\* The node of the body whose turn it is runs if it is an activity that was
\* not skipped.
LEMMA RunsHere ==
  ASSUME node \in Plans, Bodied(node), BodyPlace, BodyStatus, item <= node.items, at <= Len(Order)
  PROVE  /\ Runs(SiteAt(item, at)) <=> node.body.type[BodyNode] = "action" /\ ~Skipped(BodyNode)
         /\ BodyNode = Order[at] /\ SiteAt(item, at) = Site
         /\ item \in 1 .. node.items /\ at \in 1 .. Len(Order)
<1> DEFINE b == node.body
<1>1. item \in 1 .. node.items /\ at \in 1 .. Len(Order)
  BY BodyFacts DEF BodyPlace
<1>2. BodyNode = Order[at] /\ SiteAt(item, at) = <<item, BodyNode>> /\ SiteAt(item, at) = Site
  BY DEF BodyNode, Order, SiteAt, Site
<1>3. ASSUME NEW p \in Parents(b, BodyNode)
      PROVE  IsEdgeLive(b.branch[<<p, BodyNode>>], StatusOr(body_status, p))
               <=> effects[<<item, p>>] > 0 /\ IsEdgeLive(b.branch[<<p, BodyNode>>], "success")
  <2>1. PICK k \in 1 .. Len(Order) : k < at /\ Order[k] = p
    BY <1>1, <1>2, BodyFacts
  <2>2. body_status[p] = IF effects[<<item, p>>] > 0 THEN "success" ELSE "skipped"
    BY <1>1, <2>1, BodyFacts DEF BodyStatus, SiteAt
  <2>3. StatusOr(body_status, p) = IF effects[<<item, p>>] > 0 THEN "success" ELSE "skipped"
    BY <2>2 DEF StatusOr, Undecided
  <2>4. b.branch[<<p, BodyNode>>] \in Labels \cup {Unlabelled}
    BY PlansAssumption DEF IsBody, Parents
  <2>5. ~IsEdgeLive(b.branch[<<p, BodyNode>>], "skipped")
    BY <2>4, SkippedIsNotLive
  <2>6. CASE effects[<<item, p>>] > 0  BY <2>3, <2>6
  <2>7. CASE ~(effects[<<item, p>>] > 0)  BY <2>3, <2>5, <2>7
  <2> QED  BY <2>6, <2>7
<1>4. \E k \in DOMAIN b.order : b.order[k] = BodyNode
  BY <1>1, BodyFacts DEF Order, BodyNode
<1>5. SiteAt(item, at)[1] = item /\ SiteAt(item, at)[2] = BodyNode
  BY <1>2
<1>6. Runs(SiteAt(item, at)) <=>
        /\ b.type[BodyNode] = "action"
        /\ \/ Parents(b, BodyNode) = {}
           \/ \E p \in Parents(b, BodyNode) :
                effects[<<item, p>>] > 0 /\ IsEdgeLive(b.branch[<<p, BodyNode>>], "success")
  BY <1>4, <1>5 DEF Runs
<1>7. ~Skipped(BodyNode) <=>
        \/ Parents(b, BodyNode) = {}
        \/ \E p \in Parents(b, BodyNode) : IsEdgeLive(b.branch[<<p, BodyNode>>], StatusOr(body_status, p))
  BY DEF Skipped, ShouldExecute
<1> HIDE DEF b
<1> QED  BY <1>1, <1>2, <1>3, <1>6, <1>7 DEF b

\* The node goes on, and nothing is done.
LEMMA EffectMoves ==
  ASSUME StageInv, EffectInv, UNCHANGED <<node, effects, item, at, body_status>>, tries' \in 0 .. 3,
         stage' = "call" => stage = "log" /\ tries' = 0,
         stage' = "log" =>
           IF Bodied(node) THEN stage = "items" /\ item <= node.items /\ at <= Len(Order) /\ ~Skipped(BodyNode)
                           ELSE stage = "record_start",
         stage' = "items" => stage = "record_start",
         stage' # "record_start",
         outcome' = "success" /\ outcome # "success" =>
           IF Bodied(node) THEN item > node.items ELSE node.type \notin Retried \cup Once
  PROVE  EffectInv'
<1>1. node \in Plans /\ effects \in [Sites(node) -> 0 .. 3]
  BY DEF StageInv, EffectInv
<1>2. Order' = Order /\ (Bodied(node)' <=> Bodied(node)) /\ Site' = Site /\ Type' = Type /\ Sites(node)' = Sites(node)
  BY DEF Order, Bodied, Site, Type, BodyNode, Sites
<1>3. Attempts(Type) \in {1, 3}
  BY DEF Attempts
<1>4. CASE Bodied(node)
  <2>1. BodyPlace /\ BodyStatus /\ BodyEffects
    BY <1>4 DEF EffectInv, BodyInv
  <2>2. BodyPlace'
    BY <1>2, <1>4, <2>1 DEF BodyPlace, Skipped, BodyNode
  <2>3. BodyStatus'
    BY <1>2, <2>1 DEF BodyStatus, SiteAt
  <2>4. BodyEffects'
    <3>1. ASSUME NEW i \in 1 .. node.items, NEW j \in 1 .. Len(Order), Passed(i, j)'
          PROVE  effects'[SiteAt(i, j)] > 0 <=> Runs(SiteAt(i, j))'
      BY <1>1, <1>4, <2>1, <3>1, RunsElsewhere DEF BodyEffects, Passed
    <3>2. \A i, j : SiteAt(i, j)' = SiteAt(i, j)
      BY <1>2 DEF SiteAt
    <3>3. \A i, j : Ahead(i, j)' <=> Ahead(i, j)
      BY DEF Ahead
    <3>4. \A s \in Sites(node) : ~Ordered(s[2])' => effects'[s] = 0
      BY <1>2, <2>1 DEF BodyEffects, Ordered
    <3>5. item <= node.items /\ at <= Len(Order) /\ stage' \in {"record_start", "items", "log"} =>
            effects'[SiteAt(item, at)] = 0
      BY <1>4, <2>1 DEF BodyEffects
    <3>6. \A i \in 1 .. node.items : \A j \in 1 .. Len(Order) : Ahead(i, j)' => effects'[SiteAt(i, j)] = 0
      BY <2>1, <3>3 DEF BodyEffects
    <3> QED  BY <1>2, <3>1, <3>2, <3>4, <3>5, <3>6 DEF BodyEffects
  <2>5. stage' = "call" => effects[Site] <= 0
    <3> SUFFICES ASSUME stage' = "call" PROVE effects[Site] = 0
      OBVIOUS
    <3>1. item <= node.items /\ at <= Len(Order)
      BY <2>1 DEF BodyPlace
    <3>2. SiteAt(item, at) = Site
      BY <1>1, <1>4, <2>1, <3>1, RunsHere
    <3> QED  BY <2>1, <3>1, <3>2 DEF BodyEffects
  <2> QED  BY <1>1, <1>2, <1>3, <1>4, <2>2, <2>3, <2>4, <2>5 DEF EffectInv, BodyInv
<1>5. CASE ~Bodied(node)
  <2>1. SingleInv  BY <1>5 DEF EffectInv
  <2>2. SingleInv'  BY <1>5, <2>1 DEF SingleInv
  <2>3. stage' = "call" => effects[Site] <= 0  BY <1>5, <2>1 DEF SingleInv, Site
  <2> QED  BY <1>1, <1>2, <1>3, <1>5, <2>2, <2>3 DEF EffectInv
<1> QED  BY <1>4, <1>5

LEMMA EffectKept ==
  ASSUME EffectInv, UNCHANGED <<node, stage, outcome, tries, effects, item, at, body_status>>
  PROVE  EffectInv'
<1>1. /\ Order' = Order /\ (Bodied(node)' <=> Bodied(node)) /\ Site' = Site /\ Type' = Type
      /\ Sites(node)' = Sites(node) /\ Attempts(Type)' = Attempts(Type)
  BY DEF Order, Bodied, Site, Type, BodyNode, Sites, Attempts
<1>2. BodyPlace => BodyPlace'
  BY <1>1 DEF BodyPlace, Skipped, BodyNode
<1>3. BodyStatus => BodyStatus'
  BY <1>1 DEF BodyStatus, SiteAt
<1>4. BodyEffects => BodyEffects'
  <2>1. \A i, j : /\ SiteAt(i, j)' = SiteAt(i, j) /\ (Ahead(i, j)' <=> Ahead(i, j))
                  /\ (Passed(i, j)' <=> Passed(i, j)) /\ (Runs(SiteAt(i, j))' <=> Runs(SiteAt(i, j)))
    BY <1>1 DEF SiteAt, Ahead, Passed, Runs
  <2>2. \A s \in Sites(node) : Ordered(s[2])' <=> Ordered(s[2])
    BY <1>1 DEF Ordered
  <2> QED  BY <1>1, <2>1, <2>2 DEF BodyEffects
<1>5. SingleInv => SingleInv'
  BY DEF SingleInv
<1> QED  BY <1>1, <1>2, <1>3, <1>4, <1>5 DEF EffectInv, BodyInv

\* The activity of a node without a body is attempted.
LEMMA SingleCall ==
  ASSUME StageInv, EffectInv, ~Bodied(node), CallActivity
  PROVE  EffectInv'
<1>1. /\ stage = "call" /\ Type \in Retried \cup Once /\ Ready /\ tries' = tries + 1 /\ UNCHANGED node
      /\ \/ effects' = [effects EXCEPT ![Site] = @ + 1] /\ Over("success")
         \/ /\ effects' \in {effects, [effects EXCEPT ![Site] = @ + 1]}
            /\ \/ tries' < Attempts(Type) /\ UNCHANGED <<stage, outcome>>
               \/ Over("error")
  BY DEF CallActivity, Returns, Raises
<1>2. /\ Site = NoSite /\ Type = node.type /\ Sites(node) = {NoSite}
      /\ Site' = NoSite /\ Type' = Type /\ Sites(node)' = {NoSite} /\ ~Bodied(node)'
  BY <1>1 DEF Site, Type, Sites, Bodied
<1>3. /\ effects \in [{NoSite} -> 0 .. 3] /\ tries \in 0 .. 3 /\ effects[NoSite] <= tries
      /\ tries < Attempts(Type) /\ SingleInv
  BY <1>1, <1>2 DEF EffectInv
<1>4. /\ Attempts(Type) \in {1, 3}
      /\ node.type \in Once => Attempts(Type) = 1
  BY <1>2 DEF Attempts, Once, Retried, WebCalls, DataCalls, ServiceCalls, ModelCalls, FileCalls, MailCalls,
     CodeCalls, SheetCalls
<1>5. ~(~node.configured /\ node.type \in Retried \ NeedNoConfig)
  BY <1>1, <1>2 DEF Ready
<1>6. /\ effects' \in [{NoSite} -> 0 .. 3] /\ tries' \in 0 .. 3 /\ effects'[NoSite] <= tries'
      /\ node.type \in Once => effects'[NoSite] <= 1
  BY <1>1, <1>2, <1>3, <1>4
<1>7. Attempts(Type)' = Attempts(Type)
  BY <1>2 DEF Attempts
<1>8. stage' = "call" => tries' < Attempts(Type)
  BY <1>1 DEF Over, Goes
<1>9. outcome' = "success" => effects'[NoSite] >= 1
  <2>1. CASE effects' = [effects EXCEPT ![Site] = @ + 1] /\ Over("success")
    BY <1>2, <1>3, <2>1
  <2>2. CASE outcome' = outcome
    BY <1>1, <2>2, CallAssumption DEF StageInv, Ending
  <2> QED  BY <1>1, <2>1, <2>2 DEF Over
<1>10. stage' \notin {"record_start", "log"}
  BY <1>1 DEF Over, Goes
<1>11. SingleInv'
  BY <1>1, <1>5, <1>6, <1>9, <1>10 DEF SingleInv
<1> QED  BY <1>2, <1>6, <1>7, <1>8, <1>11 DEF EffectInv

\* An attempt at the site whose turn it is leaves all others alone.
LEMMA OtherSites ==
  ASSUME node \in Plans, Bodied(node), UNCHANGED node, BodyPlace, BodyStatus, BodyEffects,
         item <= node.items, at <= Len(Order), effects \in [Sites(node) -> 0 .. 3],
         effects' \in {effects, [effects EXCEPT ![Site] = @ + 1]}, effects[Site] < 3
  PROVE  /\ effects' \in [Sites(node) -> 0 .. 3] /\ effects'[Site] \in {effects[Site], effects[Site] + 1}
         /\ \A i \in 1 .. node.items : \A j \in 1 .. Len(Order) :
              i # item \/ j # at => effects'[SiteAt(i, j)] = effects[SiteAt(i, j)]
         /\ \A i \in 1 .. node.items : \A j \in 1 .. Len(Order) :
              Passed(i, j) \/ (i = item /\ j = at) => (Runs(SiteAt(i, j))' <=> Runs(SiteAt(i, j)))
         /\ \A s \in Sites(node) : ~Ordered(s[2]) => effects'[s] = 0
<1>1. /\ SiteAt(item, at) = Site /\ item \in 1 .. node.items /\ at \in 1 .. Len(Order)
  BY RunsHere
<1>2. SiteAt(item, at) \in Sites(node) /\ \A i \in 1 .. node.items, j \in 1 .. Len(Order) : SiteAt(i, j) \in Sites(node)
  BY <1>1, BodyFacts
<1>3. ASSUME NEW i \in 1 .. node.items, NEW j \in 1 .. Len(Order), SiteAt(i, j) = SiteAt(item, at)
      PROVE  i = item /\ j = at
  BY <1>1, <1>3, BodyFacts DEF SiteAt
<1>4. /\ effects' \in [Sites(node) -> 0 .. 3] /\ effects'[Site] \in {effects[Site], effects[Site] + 1}
      /\ \A s \in Sites(node) : s # Site => effects'[s] = effects[s]
  BY <1>1, <1>2
<1>5. ASSUME NEW i \in 1 .. node.items, NEW j \in 1 .. Len(Order), i # item \/ j # at
      PROVE  effects'[SiteAt(i, j)] = effects[SiteAt(i, j)]
  <2>1. SiteAt(i, j) # Site  BY <1>1, <1>3, <1>5
  <2> QED  BY <1>2, <1>4, <2>1
<1>6. ASSUME NEW i \in 1 .. node.items, NEW j \in 1 .. Len(Order), Passed(i, j) \/ (i = item /\ j = at)
      PROVE  Runs(SiteAt(i, j))' <=> Runs(SiteAt(i, j))
  <2>1. \A k \in 1 .. Len(Order) : k < j => effects'[SiteAt(i, k)] = effects[SiteAt(i, k)]
    <3> SUFFICES ASSUME NEW k \in 1 .. Len(Order), k < j PROVE i # item \/ k # at
      BY <1>5
    <3>1. j \in Nat /\ k \in Nat /\ i \in Nat /\ item \in Nat /\ at \in Nat
      BY <1>1, BodyFacts
    <3> QED  BY <1>6, <3>1 DEF Passed
  <2> QED  BY <2>1, RunsElsewhere
<1>7. \A s \in Sites(node) : ~Ordered(s[2]) => effects'[s] = 0
  <2> SUFFICES ASSUME NEW s \in Sites(node), ~Ordered(s[2]) PROVE effects'[s] = 0
    OBVIOUS
  <2>1. Site[2] = Order[at]  BY <1>1 DEF SiteAt
  <2>2. s # Site  BY <1>1, <2>1 DEF Ordered
  <2> QED  BY <1>4, <2>2 DEF BodyEffects
<1> QED  BY <1>4, <1>5, <1>6, <1>7

\* The activity of a node of the body is attempted.
LEMMA BodyCall ==
  ASSUME StageInv, EffectInv, Bodied(node), CallActivity
  PROVE  EffectInv'
<1>1. /\ stage = "call" /\ Type \in Retried \cup Once /\ tries' = tries + 1 /\ UNCHANGED node
      /\ \/ /\ effects' = [effects EXCEPT ![Site] = @ + 1]
            /\ body_status' = [body_status EXCEPT ![BodyNode] = "success"]
            /\ at' = at + 1 /\ stage' = "items" /\ UNCHANGED <<outcome, item>>
         \/ /\ effects' \in {effects, [effects EXCEPT ![Site] = @ + 1]}
            /\ UNCHANGED <<item, at, body_status>>
            /\ \/ tries' < Attempts(Type) /\ UNCHANGED <<stage, outcome>>
               \/ stage' = "record_end" /\ outcome' = "error"
  BY DEF CallActivity, Returns, Raises, Over, Goes
<1>2. /\ node \in Plans /\ BodyPlace /\ BodyStatus /\ BodyEffects /\ effects \in [Sites(node) -> 0 .. 3]
      /\ effects[Site] <= tries /\ tries < Attempts(Type) /\ tries \in 0 .. 3
      /\ item <= node.items /\ at <= Len(Order) /\ ~Skipped(BodyNode)
  BY <1>1 DEF StageInv, EffectInv, BodyInv, BodyPlace
<1>3. /\ Runs(Site) <=> node.body.type[BodyNode] = "action" /\ ~Skipped(BodyNode)
      /\ BodyNode = Order[at] /\ SiteAt(item, at) = Site
      /\ item \in 1 .. node.items /\ at \in 1 .. Len(Order)
  BY <1>2, RunsHere
<1>4. Runs(Site) /\ Attempts(Type) = 3
  BY <1>1, <1>2, <1>3 DEF Type, Attempts, Once, Retried, WebCalls, DataCalls, ServiceCalls, ModelCalls, FileCalls,
     MailCalls, CodeCalls, SheetCalls
<1>5. /\ node.items \in Nat /\ Len(Order) \in Nat /\ Site \in Sites(node)
      /\ \A i, j \in 1 .. Len(Order) : Order[i] = Order[j] => i = j
      /\ \A j \in 1 .. Len(Order) : Order[j] \in node.body.nodes
  BY <1>2, <1>3, BodyFacts
<1>6. effects[Site] \in Nat /\ effects[Site] < 3 /\ tries' \in 0 .. 3
  BY <1>1, <1>2, <1>4, <1>5
<1>7. /\ effects' \in [Sites(node) -> 0 .. 3] /\ effects'[Site] \in {effects[Site], effects[Site] + 1}
      /\ \A i \in 1 .. node.items : \A j \in 1 .. Len(Order) :
           i # item \/ j # at => effects'[SiteAt(i, j)] = effects[SiteAt(i, j)]
      /\ \A i \in 1 .. node.items : \A j \in 1 .. Len(Order) :
           Passed(i, j) \/ (i = item /\ j = at) => (Runs(SiteAt(i, j))' <=> Runs(SiteAt(i, j)))
      /\ \A s \in Sites(node) : ~Ordered(s[2]) => effects'[s] = 0
  BY <1>1, <1>2, <1>6, OtherSites
<1>8. /\ Order' = Order /\ Bodied(node)' /\ Sites(node)' = Sites(node)
      /\ \A i, j : SiteAt(i, j)' = SiteAt(i, j)
      /\ \A n : Ordered(n)' <=> Ordered(n)
  BY <1>1 DEF Order, Bodied, Sites, SiteAt, Ordered
<1>9. CASE /\ effects' = [effects EXCEPT ![Site] = @ + 1]
           /\ body_status' = [body_status EXCEPT ![BodyNode] = "success"]
           /\ at' = at + 1 /\ stage' = "items" /\ UNCHANGED <<outcome, item>>
  <2>1. effects'[Site] > 0  BY <1>5, <1>6, <1>9, <1>2
  <2>2. BodyPlace'
    <3>1. item' = item /\ node' = node /\ outcome' = outcome /\ at' = at + 1 /\ stage' = "items"
      BY <1>1, <1>9
    <3>2. item \in 1 .. node.items + 1 /\ at + 1 \in 1 .. Len(Order) + 1 /\ ~(item > node.items)
      BY <1>3, <1>5
    <3>3. outcome # "success"
      BY <1>2, <3>2 DEF BodyPlace
    <3> QED  BY <1>8, <3>1, <3>2, <3>3 DEF BodyPlace
  <2>3. BodyStatus'
    <3>1. DOMAIN body_status' = node.body.nodes
      BY <1>2, <1>9 DEF BodyStatus
    <3>2. ASSUME NEW j \in 1 .. at
          PROVE  body_status'[Order[j]] = IF effects'[SiteAt(item, j)] > 0 THEN "success" ELSE "skipped"
      <4>0. j \in 1 .. Len(Order)  BY <1>3, <1>5
      <4>1. CASE j = at
        BY <1>2, <1>3, <1>5, <1>9, <2>1, <4>1 DEF BodyStatus
      <4>2. CASE j # at
        <5>1. j \in 1 .. at - 1 /\ Order[j] # Order[at]  BY <1>3, <1>5, <4>0, <4>2
        <5>2. effects'[SiteAt(item, j)] = effects[SiteAt(item, j)]  BY <1>3, <1>7, <4>0, <4>2
        <5> QED  BY <1>2, <1>3, <1>9, <5>1, <5>2 DEF BodyStatus
      <4> QED  BY <4>1, <4>2
    <3>3. at' - 1 = at  BY <1>3, <1>9
    <3> QED  BY <1>1, <1>8, <1>9, <3>1, <3>2, <3>3 DEF BodyStatus
  <2>4. ASSUME NEW i \in 1 .. node.items, NEW j \in 1 .. Len(Order), Passed(i, j)'
        PROVE  effects'[SiteAt(i, j)] > 0 <=> Runs(SiteAt(i, j))'
    <3>1. Passed(i, j) \/ (i = item /\ j = at)
      BY <1>3, <1>5, <1>9, <2>4 DEF Passed
    <3>2. Runs(SiteAt(i, j))' <=> Runs(SiteAt(i, j))
      BY <1>7, <3>1
    <3>3. CASE i = item /\ j = at
      BY <1>3, <1>4, <2>1, <3>2, <3>3
    <3>4. CASE i # item \/ j # at
      BY <1>2, <1>7, <3>1, <3>2, <3>4 DEF BodyEffects
    <3> QED  BY <3>3, <3>4
  <2>5. ASSUME NEW i \in 1 .. node.items, NEW j \in 1 .. Len(Order), Ahead(i, j)' \/ (i = item /\ j = at + 1)
        PROVE  effects'[SiteAt(i, j)] = 0
    <3>1. Ahead(i, j) /\ (i # item \/ j # at)
      BY <1>3, <1>5, <1>9, <2>5 DEF Ahead
    <3> QED  BY <1>2, <1>7, <3>1 DEF BodyEffects
  <2>6. item <= node.items /\ at' <= Len(Order) => effects'[SiteAt(item, at')] = 0
    BY <1>3, <1>5, <1>9, <2>5
  <2>7. BodyEffects'
    BY <1>1, <1>7, <1>8, <1>9, <2>4, <2>5, <2>6 DEF BodyEffects
  <2> QED  BY <1>1, <1>6, <1>7, <1>8, <1>9, <2>2, <2>3, <2>7 DEF EffectInv, BodyInv
<1>10. CASE /\ effects' \in {effects, [effects EXCEPT ![Site] = @ + 1]}
            /\ UNCHANGED <<item, at, body_status>>
            /\ \/ tries' < Attempts(Type) /\ UNCHANGED <<stage, outcome>>
               \/ stage' = "record_end" /\ outcome' = "error"
  <2>1. BodyPlace'
    BY <1>1, <1>2, <1>8, <1>10 DEF BodyPlace, Skipped, BodyNode
  <2>2. BodyStatus'
    <3>1. \A j \in 1 .. at - 1 : effects'[SiteAt(item, j)] = effects[SiteAt(item, j)]
      BY <1>3, <1>5, <1>7
    <3> QED  BY <1>1, <1>2, <1>8, <1>10, <3>1 DEF BodyStatus
  <2>3. ASSUME NEW i \in 1 .. node.items, NEW j \in 1 .. Len(Order), Passed(i, j)'
        PROVE  effects'[SiteAt(i, j)] > 0 <=> Runs(SiteAt(i, j))'
    <3>1. Passed(i, j) /\ (i # item \/ j # at)
      BY <1>3, <1>5, <1>10, <2>3 DEF Passed
    <3> QED  BY <1>2, <1>7, <3>1 DEF BodyEffects
  <2>4. ASSUME NEW i \in 1 .. node.items, NEW j \in 1 .. Len(Order), Ahead(i, j)'
        PROVE  effects'[SiteAt(i, j)] = 0
    <3>1. Ahead(i, j) /\ (i # item \/ j # at)
      BY <1>3, <1>5, <1>10, <2>4 DEF Ahead
    <3> QED  BY <1>2, <1>7, <3>1 DEF BodyEffects
  <2>5. stage' \notin {"record_start", "items", "log"}
    BY <1>1, <1>10
  <2>6. BodyEffects'
    BY <1>1, <1>7, <1>8, <2>3, <2>4, <2>5 DEF BodyEffects
  <2>7. /\ Site' = Site /\ Attempts(Type)' = Attempts(Type)
        /\ effects'[Site] <= tries' /\ (stage' = "call" => tries' < Attempts(Type))
    <3>1. Site' = Site /\ Type' = Type
      BY <1>1, <1>10 DEF Site, Type, BodyNode, Bodied
    <3>2. effects'[Site] <= tries'
      BY <1>1, <1>2, <1>6, <1>7
    <3> QED  BY <1>10, <3>1, <3>2 DEF Attempts
  <2> QED  BY <1>6, <1>7, <1>8, <2>1, <2>2, <2>6, <2>7 DEF EffectInv, BodyInv
<1> QED  BY <1>1, <1>9, <1>10

\* A node of the body is passed over.
LEMMA BodySkip ==
  ASSUME StageInv, EffectInv, NextOfBody, Skipped(BodyNode), tries' = tries
  PROVE  EffectInv'
<1>1. /\ stage = "items" /\ stage' = "items" /\ item <= node.items /\ at <= Len(Order) /\ at' = at + 1
      /\ body_status' = [body_status EXCEPT ![BodyNode] = "skipped"]
      /\ UNCHANGED <<node, outcome, tries, effects, item>>
  BY DEF NextOfBody, Order
<1>2. /\ node \in Plans /\ Bodied(node) /\ BodyPlace /\ BodyStatus /\ BodyEffects
      /\ effects \in [Sites(node) -> 0 .. 3] /\ tries \in 0 .. 3
  BY <1>1 DEF StageInv, EffectInv, BodyInv
<1>3. /\ ~Runs(Site) /\ BodyNode = Order[at] /\ SiteAt(item, at) = Site
      /\ item \in 1 .. node.items /\ at \in 1 .. Len(Order)
  BY <1>1, <1>2, RunsHere
<1>4. /\ node.items \in Nat /\ Len(Order) \in Nat
      /\ \A i, j \in 1 .. Len(Order) : Order[i] = Order[j] => i = j
      /\ \A j \in 1 .. Len(Order) : Order[j] \in node.body.nodes
  BY <1>2, BodyFacts
<1>5. /\ Order' = Order /\ Bodied(node)' /\ Sites(node)' = Sites(node)
      /\ \A i, j : SiteAt(i, j)' = SiteAt(i, j) /\ (Runs(SiteAt(i, j))' <=> Runs(SiteAt(i, j)))
      /\ \A n : Ordered(n)' <=> Ordered(n)
  BY <1>1, <1>2 DEF Order, Bodied, Sites, SiteAt, Ordered, Runs
<1>6. effects[SiteAt(item, at)] = 0
  BY <1>1, <1>2 DEF BodyEffects
<1>7. BodyPlace'
  <2>1. item \in 1 .. node.items + 1 /\ at + 1 \in 1 .. Len(Order) + 1 /\ ~(item > node.items)
    BY <1>3, <1>4
  <2>2. outcome # "success"
    BY <1>2, <2>1 DEF BodyPlace
  <2> QED  BY <1>1, <1>5, <2>1, <2>2 DEF BodyPlace
<1>8. BodyStatus'
  <2>1. DOMAIN body_status' = node.body.nodes
    BY <1>1, <1>2 DEF BodyStatus
  <2>2. ASSUME NEW j \in 1 .. at
        PROVE  body_status'[Order[j]] = IF effects[SiteAt(item, j)] > 0 THEN "success" ELSE "skipped"
    <3>0. j \in 1 .. Len(Order)  BY <1>3, <1>4
    <3>1. CASE j = at
      BY <1>1, <1>2, <1>3, <1>4, <1>6, <3>1 DEF BodyStatus
    <3>2. CASE j # at
      <4>1. j \in 1 .. at - 1 /\ Order[j] # Order[at]  BY <1>3, <1>4, <3>0, <3>2
      <4> QED  BY <1>1, <1>2, <1>3, <4>1 DEF BodyStatus
    <3> QED  BY <3>1, <3>2
  <2>3. at' - 1 = at  BY <1>1, <1>3
  <2> QED  BY <1>1, <1>5, <2>1, <2>2, <2>3 DEF BodyStatus
<1>9. BodyEffects'
  <2>1. ASSUME NEW i \in 1 .. node.items, NEW j \in 1 .. Len(Order), Passed(i, j)'
        PROVE  effects[SiteAt(i, j)] > 0 <=> Runs(SiteAt(i, j))
    <3>1. Passed(i, j) \/ (i = item /\ j = at)
      BY <1>1, <1>3, <1>4, <2>1 DEF Passed
    <3>2. CASE i = item /\ j = at  BY <1>3, <1>6, <3>2
    <3> QED  BY <1>2, <3>1, <3>2 DEF BodyEffects
  <2>2. ASSUME NEW i \in 1 .. node.items, NEW j \in 1 .. Len(Order), Ahead(i, j)' \/ (i = item /\ j = at + 1)
        PROVE  effects[SiteAt(i, j)] = 0
    <3>1. Ahead(i, j)
      BY <1>1, <1>3, <1>4, <2>2 DEF Ahead
    <3> QED  BY <1>2, <3>1 DEF BodyEffects
  <2>3. item <= node.items /\ at' <= Len(Order) => effects[SiteAt(item, at')] = 0
    BY <1>1, <1>3, <1>4, <2>2
  <2> QED  BY <1>1, <1>2, <1>5, <2>1, <2>2, <2>3 DEF BodyEffects
<1> QED  BY <1>1, <1>2, <1>5, <1>7, <1>8, <1>9 DEF EffectInv, BodyInv

\* The next item.
LEMMA BodyNext ==
  ASSUME StageInv, EffectInv, NextItem
  PROVE  EffectInv'
<1>1. /\ stage = "items" /\ item <= node.items /\ at > Len(Order) /\ item' = item + 1 /\ at' = 1
      /\ body_status' = [n \in node.body.nodes |-> Undecided]
      /\ UNCHANGED <<node, stage, outcome, tries, effects>>
  BY DEF NextItem, Order
<1>2. /\ node \in Plans /\ Bodied(node) /\ BodyPlace /\ BodyStatus /\ BodyEffects
      /\ effects \in [Sites(node) -> 0 .. 3] /\ tries \in 0 .. 3
  BY <1>1 DEF StageInv, EffectInv, BodyInv
<1>3. node.items \in Nat /\ Len(Order) \in Nat /\ item \in 1 .. node.items /\ at \in Nat /\ at > Len(Order)
  BY <1>1, <1>2, BodyFacts DEF BodyPlace
<1>4. /\ Order' = Order /\ Bodied(node)' /\ Sites(node)' = Sites(node)
      /\ \A i, j : SiteAt(i, j)' = SiteAt(i, j) /\ (Runs(SiteAt(i, j))' <=> Runs(SiteAt(i, j)))
      /\ \A n : Ordered(n)' <=> Ordered(n)
  BY <1>1, <1>2 DEF Order, Bodied, Sites, SiteAt, Ordered, Runs
<1>5. BodyPlace'
  <2>1. item + 1 \in 1 .. node.items + 1 /\ 1 \in 1 .. Len(Order) + 1 /\ outcome # "success"
    BY <1>2, <1>3 DEF BodyPlace
  <2> QED  BY <1>1, <1>4, <2>1 DEF BodyPlace
<1>6. BodyStatus'
  BY <1>1, <1>4 DEF BodyStatus
<1>7. BodyEffects'
  <2>1. ASSUME NEW i \in 1 .. node.items, NEW j \in 1 .. Len(Order), Passed(i, j)'
        PROVE  effects[SiteAt(i, j)] > 0 <=> Runs(SiteAt(i, j))
    <3>1. Passed(i, j)
      BY <1>1, <1>3, <2>1 DEF Passed
    <3> QED  BY <1>2, <3>1 DEF BodyEffects
  <2>2. ASSUME NEW i \in 1 .. node.items, NEW j \in 1 .. Len(Order), Ahead(i, j)' \/ i = item + 1
        PROVE  effects[SiteAt(i, j)] = 0
    <3>1. Ahead(i, j)
      BY <1>1, <1>3, <2>2 DEF Ahead
    <3> QED  BY <1>2, <3>1 DEF BodyEffects
  <2>3. item' <= node.items /\ at' <= Len(Order) => effects[SiteAt(item', at')] = 0
    BY <1>1, <1>3, <2>2
  <2> QED  BY <1>1, <1>2, <1>4, <2>1, <2>2, <2>3 DEF BodyEffects
<1> QED  BY <1>1, <1>2, <1>4, <1>5, <1>6, <1>7 DEF EffectInv, BodyInv

\* What the steps of the node itself leave to be shown of its stages.
LEMMA StageKeeps ==
  ASSUME StageInv, RowIInv, [NodeNext]_nodeVars
  PROVE  StageInv'
<1>0. None \notin {"success", "error", "skipped"} /\ None \notin Scrapes
  BY CallAssumption
<1>1. CASE BeginWrite \/ FailWrite \/ GiveUpWrite \/ WriteLate \/ ChildStep \/ BesideTheChild \/ SessionMoves \/ UNCHANGED nodeVars
  BY <1>1 DEF BeginWrite, FailWrite, GiveUpWrite, WriteLate, ChildStep, BesideTheChild, SessionMoves, nodeVars, callVars,
     StageInv, Bodied, Ending
<1>2. CASE WriteRow
  <2>1. Recording  BY <1>2 DEF WriteRow, RowIInv, AttemptsOK
  <2>2. /\ UNCHANGED <<node, outcome, mine>>
        /\ \/ stage' = stage
           \/ stage' = IF stage = "record_end" THEN "done"
                       ELSE CASE node.type = "for_each" -> "items" [] node.type = "call_workflow" -> "insert_child"
                              [] OTHER -> "log"
    BY <1>2 DEF WriteRow
  <2>3. CASE stage' = stage
    BY <2>2, <2>3 DEF StageInv, Bodied, Ending
  <2>4. CASE stage = "record_end" /\ stage' = "done"
    BY <2>2, <2>4 DEF StageInv, Stages, Ending
  <2>5. CASE stage = "record_start" /\ node.type = "for_each" /\ stage' = "items"
    BY <2>2, <2>5 DEF StageInv, Stages, Middle, Ending, Bodied
  <2>6. CASE stage = "record_start" /\ node.type = "call_workflow" /\ stage' = "insert_child"
    BY <2>2, <2>6 DEF StageInv, Stages, Middle, Ending
  <2>7. CASE stage = "record_start" /\ node.type # "call_workflow" /\ stage' = "log"
    BY <2>2, <2>7 DEF StageInv, Stages, Middle, Ending
  <2> QED  BY <2>1, <2>2, <2>3, <2>4, <2>5, <2>6, <2>7 DEF Recording
<1>3. ASSUME UNCHANGED <<node, mine>>, stage # "record_start", stage' = "record_end",
             outcome' \in {"success", "error"}
      PROVE  StageInv'
  BY <1>0, <1>3 DEF StageInv, Stages, Ending
<1>4. ASSUME UNCHANGED <<node, mine, outcome>>, stage \in Middle, stage' \in Middle,
             mine # None => stage = "scraping" /\ stage' = "scraping",
             stage' = "scraping" => stage = "scraping",
             stage' = "items" => Bodied(node),
             stage' \in {"log", "call"} => node.type # "call_workflow",
             stage' \in {"insert_child", "start_child", "waiting"} => node.type = "call_workflow"
      PROVE  StageInv'
  BY <1>0, <1>4 DEF StageInv, Stages, Middle, Ending, Bodied
<1>5. ASSUME StageInv PROVE mine # None => stage \in {"scraping", "record_end", "done"}
  BY <1>5 DEF StageInv
<1> USE DEF Over, Goes
<1>6. CASE EmitStarted
  <2>1. /\ UNCHANGED <<node, mine>> /\ stage = "log" /\ node.type # "call_workflow"
        /\ \/ stage' = "call" /\ outcome' = outcome
           \/ stage' = "record_end" /\ outcome' = "error"
    BY <1>6 DEF EmitStarted, Raises, StageInv
  <2> QED  BY <1>3, <1>4, <1>5, <2>1 DEF Middle
<1>7. CASE CallActivity \/ Delay \/ BadConfig \/ UnknownType
  <2>1. /\ UNCHANGED <<node, mine>> /\ stage = "call" /\ node.type # "call_workflow"
        /\ \/ stage' = "call" /\ outcome' = outcome
           \/ stage' = "items" /\ outcome' = outcome /\ Bodied(node)
           \/ stage' = "record_end" /\ outcome' \in {"success", "error"}
    BY <1>7 DEF CallActivity, Delay, BadConfig, UnknownType, Returns, Raises, StageInv
  <2> QED  BY <1>3, <1>4, <1>5, <2>1 DEF Middle
<1>8. CASE CallScraper
  <2>1. /\ Type = "web_scraper" /\ stage = "call" /\ stage' = "scraping" /\ mine' \in Scrapes
        /\ UNCHANGED <<node, outcome>>
    BY <1>8 DEF CallScraper
  <2>2. node.type = "web_scraper"  BY <2>1 DEF Type
  <2> QED  BY <1>0, <2>1, <2>2 DEF StageInv, Stages, Middle, Ending
<1>9. CASE AwaitScrape
  <2>1. /\ UNCHANGED <<node, mine>> /\ stage = "scraping" /\ ~Bodied(node)
    BY <1>9 DEF AwaitScrape, StageInv, Bodied
  <2>2. stage' = "record_end" /\ outcome' \in {"success", "error"}
    BY <1>9, <2>1 DEF AwaitScrape, Returns, Raises
  <2> QED  BY <1>3, <2>1, <2>2
<1>10. CASE NextOfBody \/ NextItem \/ EndItems
  <2>1. /\ UNCHANGED <<node, mine>> /\ stage = "items" /\ Bodied(node) /\ node.type # "call_workflow"
        /\ \/ stage' \in {"items", "log"} /\ outcome' = outcome
           \/ stage' = "record_end" /\ outcome' \in {"success", "error"}
    BY <1>10 DEF NextOfBody, NextItem, EndItems, StageInv, Bodied
  <2> QED  BY <1>3, <1>4, <1>5, <2>1 DEF Middle
<1>11. CASE InsertChild \/ StartChild \/ AwaitChild \/ LoseChild
  <2>1. /\ UNCHANGED <<node, mine>> /\ stage \in {"insert_child", "start_child", "waiting"}
        /\ node.type = "call_workflow"
        /\ \/ stage' \in {"start_child", "waiting"} /\ outcome' = outcome
           \/ stage' = "record_end" /\ outcome' \in {"success", "error"}
    BY <1>11 DEF InsertChild, StartChild, AwaitChild, LoseChild, StageInv
  <2> QED  BY <1>3, <1>4, <1>5, <2>1 DEF Middle
<1> QED  BY <1>1, <1>2, <1>6, <1>7, <1>8, <1>9, <1>10, <1>11 DEF NodeNext, NodeStep

LEMMA EffectKeeps ==
  ASSUME StageInv, RowIInv, EffectInv, [NodeNext]_nodeVars
  PROVE  EffectInv'
<1>0. tries \in 0 .. 3  BY DEF EffectInv
<1>1. CASE BeginWrite \/ FailWrite \/ GiveUpWrite \/ WriteLate \/ ChildStep \/ BesideTheChild \/ SessionMoves \/ UNCHANGED nodeVars
  <2>1. UNCHANGED <<node, stage, outcome, tries, effects, item, at, body_status>>
    BY <1>1 DEF BeginWrite, FailWrite, GiveUpWrite, WriteLate, ChildStep, BesideTheChild, SessionMoves, nodeVars, callVars
  <2> QED  BY <2>1, EffectKept
<1>2. CASE WriteRow
  <2>1. Recording  BY <1>2 DEF WriteRow, RowIInv, AttemptsOK
  <2>2. /\ UNCHANGED <<node, outcome, tries, effects, item, at, body_status>>
        /\ \/ stage' = stage
           \/ stage' = IF stage = "record_end" THEN "done"
                       ELSE CASE node.type = "for_each" -> "items" [] node.type = "call_workflow" -> "insert_child"
                              [] OTHER -> "log"
    BY <1>2 DEF WriteRow
  <2>3. CASE stage' = stage
    BY <2>2, <2>3, EffectKept
  <2>4. CASE stage' # stage
    <3>1. CASE stage = "record_end" /\ stage' = "done"
      BY <1>0, <2>2, <3>1, EffectMoves
    <3>2. CASE stage = "record_start" /\ stage' \in {"items", "insert_child"}
      BY <1>0, <2>2, <3>2, EffectMoves
    <3>3. CASE stage = "record_start" /\ ~Bodied(node) /\ stage' = "log"
      BY <1>0, <2>2, <3>3, EffectMoves
    <3> QED  BY <2>1, <2>2, <2>4, <3>1, <3>2, <3>3 DEF Recording, Bodied
  <2> QED  BY <2>3, <2>4
<1> USE DEF Over, Goes
<1>3. CASE EmitStarted
  <2>1. /\ UNCHANGED <<node, effects, item, at, body_status>> /\ stage = "log" /\ tries' = 0
        /\ \/ stage' = "call" /\ outcome' = outcome
           \/ stage' = "record_end" /\ outcome' = "error"
    BY <1>3 DEF EmitStarted, Raises
  <2> QED  BY <2>1, EffectMoves
<1>4. CASE CallActivity
  BY <1>4, SingleCall, BodyCall
<1>5. CASE Delay
  <2>1. ~Bodied(node) /\ node.type = "delay"  BY <1>5 DEF Delay, Type, Bodied
  <2>2. node.type \notin Retried \cup Once
    BY <2>1 DEF Once, Retried, WebCalls, DataCalls, ServiceCalls, ModelCalls, FileCalls, MailCalls, CodeCalls, SheetCalls
  <2>3. UNCHANGED <<node, tries, effects, item, at, body_status>> /\ stage' = "record_end"
    BY <1>5, <2>1 DEF Delay, Returns, Raises
  <2> QED  BY <1>0, <2>1, <2>2, <2>3, EffectMoves
<1>6. CASE BadConfig \/ UnknownType
  <2>1. UNCHANGED <<node, tries, effects, item, at, body_status>> /\ stage' = "record_end" /\ outcome' = "error"
    BY <1>6 DEF BadConfig, UnknownType, Raises
  <2> QED  BY <1>0, <2>1, EffectMoves
<1>7. CASE CallScraper
  <2>1. UNCHANGED <<node, tries, effects, item, at, body_status, outcome>> /\ stage' = "scraping"
    BY <1>7 DEF CallScraper
  <2> QED  BY <1>0, <2>1, EffectMoves
<1>8. CASE AwaitScrape
  <2>1. ~Bodied(node) /\ node.type = "web_scraper"  BY <1>8 DEF AwaitScrape, StageInv, Bodied
  <2>2. node.type \notin Retried \cup Once
    BY <2>1 DEF Once, Retried, WebCalls, DataCalls, ServiceCalls, ModelCalls, FileCalls, MailCalls, CodeCalls, SheetCalls
  <2>3. UNCHANGED <<node, tries, effects, item, at, body_status>> /\ stage' = "record_end"
    BY <1>8, <2>1 DEF AwaitScrape, Returns, Raises
  <2> QED  BY <1>0, <2>1, <2>2, <2>3, EffectMoves
<1>9. CASE NextOfBody
  <2>1. CASE Skipped(BodyNode)
    BY <1>9, <2>1, BodySkip DEF NextOfBody
  <2>2. CASE ~Skipped(BodyNode)
    <3>1. /\ UNCHANGED <<node, tries, effects, item, at, body_status, outcome>> /\ stage = "items" /\ stage' = "log"
          /\ item <= node.items /\ at <= Len(Order) /\ Bodied(node)
      BY <1>9, <2>2 DEF NextOfBody, Order, StageInv
    <3> QED  BY <1>0, <2>2, <3>1, EffectMoves
  <2> QED  BY <2>1, <2>2
<1>10. CASE NextItem
  BY <1>10, BodyNext
<1>11. CASE EndItems
  <2>1. /\ UNCHANGED <<node, tries, effects, item, at, body_status>> /\ Bodied(node) /\ stage' = "record_end"
        /\ outcome' = "success" => item > node.items
    BY <1>11 DEF EndItems, StageInv
  <2> QED  BY <1>0, <2>1, EffectMoves
<1>12. CASE InsertChild \/ StartChild \/ AwaitChild \/ LoseChild
  <2>1. /\ UNCHANGED <<node, tries, effects, item, at, body_status>>
        /\ stage' \in {"start_child", "waiting", "record_end"}
        /\ node.type = "call_workflow" /\ ~Bodied(node)
    BY <1>12 DEF InsertChild, StartChild, AwaitChild, LoseChild, StageInv, Bodied
  <2>2. node.type \notin Retried \cup Once
    BY <2>1 DEF Once, Retried, WebCalls, DataCalls, ServiceCalls, ModelCalls, FileCalls, MailCalls, CodeCalls, SheetCalls
  <2> QED  BY <1>0, <2>1, <2>2, EffectMoves
<1> QED  BY <1>1, <1>2, <1>3, <1>4, <1>5, <1>6, <1>7, <1>8, <1>9, <1>10, <1>11, <1>12 DEF NodeNext, NodeStep

-----------------------------------------------------------------------------
(* The child, and the scrape.                                              *)

LEMMA ChildKeeps ==
  ASSUME StageInv, RowIInv, ChildInv, [NodeNext]_nodeVars
  PROVE  ChildInv'
<1>0. /\ {None, Deleted} \cap {"success", "error", "skipped", "pending", "started", "running", "marked",
                              "completed", "failing", "failed", "raised", "stopped"} = {}
      /\ None # Deleted
  BY CallAssumption, SessionAssumption
<1>1. ASSUME UNCHANGED <<node, child, sub_row, child_late>>, stage' \notin {"record_start", "insert_child", "start_child"},
             outcome' = "success" /\ node.type = "call_workflow" => outcome = "success" \/ child \in ChildEnds
      PROVE  ChildInv'
  BY <1>1 DEF ChildInv, ChildIsOver
<1>2. ASSUME UNCHANGED <<node, child, sub_row, child_late, stage, outcome>> PROVE ChildInv'
  BY <1>2 DEF ChildInv, ChildIsOver
<1>3. CASE BeginWrite \/ FailWrite \/ GiveUpWrite \/ WriteLate \/ SessionMoves \/ UNCHANGED nodeVars
  BY <1>2, <1>3 DEF BeginWrite, FailWrite, GiveUpWrite, WriteLate, SessionMoves, nodeVars, callVars, childVars
<1>4. CASE WriteRow
  <2>1. Recording  BY <1>4 DEF WriteRow, RowIInv, AttemptsOK
  <2>2. /\ UNCHANGED <<node, outcome, child, sub_row, child_late>>
        /\ \/ stage' = stage
           \/ stage' = IF stage = "record_end" THEN "done"
                       ELSE CASE node.type = "for_each" -> "items" [] node.type = "call_workflow" -> "insert_child"
                              [] OTHER -> "log"
    BY <1>4 DEF WriteRow, childVars
  <2>3. CASE stage' = stage
    BY <1>2, <2>2, <2>3
  <2>4. CASE stage' \in {"done", "items", "log"}
    BY <1>1, <2>2, <2>4
  <2>5. CASE stage = "record_start" /\ stage' = "insert_child"
    BY <2>2, <2>5 DEF ChildInv, ChildIsOver
  <2> QED  BY <2>1, <2>2, <2>3, <2>4, <2>5 DEF Recording
<1> USE DEF Over, Goes
<1>5. CASE NodeStep /\ ~(InsertChild \/ StartChild \/ AwaitChild)
  <2>1. /\ UNCHANGED <<node, child, sub_row, child_late>> /\ stage' \notin {"record_start", "insert_child", "start_child"}
        /\ node.type # "call_workflow"
    <3>1. CASE EmitStarted
      BY <3>1 DEF EmitStarted, Raises, StageInv, childVars
    <3>2. CASE CallActivity \/ Delay \/ BadConfig \/ UnknownType
      BY <3>2 DEF CallActivity, Delay, BadConfig, UnknownType, Returns, Raises, StageInv, childVars
    <3>3. CASE CallScraper \/ AwaitScrape
      <4>1. CASE CallScraper  BY <4>1 DEF CallScraper, StageInv, childVars
      <4>2. CASE AwaitScrape  BY <4>2 DEF AwaitScrape, Returns, Raises, StageInv, childVars
      <4> QED  BY <3>3, <4>1, <4>2
    <3>4. CASE NextOfBody \/ NextItem \/ EndItems
      BY <3>4 DEF NextOfBody, NextItem, EndItems, StageInv, Bodied, childVars
    <3> QED  BY <1>5, <3>1, <3>2, <3>3, <3>4 DEF NodeStep
  <2> QED  BY <1>1, <2>1
<1>6. CASE InsertChild
  <2>1. /\ stage = "insert_child" /\ UNCHANGED <<node, child, child_late>> /\ child = None
        /\ \/ sub_row' = "pending" /\ stage' = "start_child" /\ outcome' = outcome
           \/ sub_row' \in {None, "pending"} /\ stage' = "record_end" /\ outcome' = "error"
    BY <1>6 DEF InsertChild, ChildInv
  <2>2. outcome # "success"
    BY <1>0, <2>1 DEF StageInv, Ending
  <2> QED  BY <1>0, <2>1, <2>2 DEF ChildInv, ChildIsOver, ChildEnds
<1>7. CASE StartChild
  <2>1. /\ stage = "start_child" /\ UNCHANGED <<node, sub_row, child_late>> /\ sub_row \in {"pending", Deleted}
        /\ \/ child' = "started" /\ stage' = "waiting" /\ outcome' = outcome
           \/ child' \in {None, "started"} /\ stage' = "record_end" /\ outcome' = "error"
    BY <1>7 DEF StartChild, ChildInv
  <2>2. outcome # "success"
    BY <1>0, <2>1 DEF StageInv, Ending
  <2> QED  BY <1>0, <2>1, <2>2 DEF ChildInv, ChildIsOver, ChildEnds
<1>8. CASE AwaitChild \/ LoseChild
  BY <1>1, <1>8 DEF AwaitChild, LoseChild, Returned, childVars
<1>9. CASE ChildStep
  <2>1. /\ UNCHANGED <<node, stage, outcome>> /\ child \in {"started", "running", "marked", "failing"}
        /\ child' \in {"running", "marked", "failing", "raised", "stopped"} \cup ChildEnds
        /\ sub_row' \in {sub_row, "running"} \cup ChildEnds
        /\ child_late \subseteq child_late' /\ child_late' \subseteq child_late \cup {"running"} \cup ChildEnds
    <3>1. CASE LoadAndMark
      BY <1>0, <1>9, <3>1 DEF ChildStep, LoadAndMark, Update, Tried, TimesOut, callVars, ChildEnds
    <3>2. CASE MarkCompleted
      BY <1>0, <1>9, <3>2 DEF ChildStep, MarkCompleted, Update, Tried, TimesOut, callVars, ChildEnds
    <3>3. CASE MarkFailed
      BY <1>0, <1>9, <3>3 DEF ChildStep, MarkFailed, Update, TimesOut, callVars, ChildEnds
    <3>4. CASE Stop
      BY <1>0, <1>9, <3>4 DEF ChildStep, Stop, TimesOut, callVars, ChildEnds
    <3>5. CASE FailNodes \/ Notify
      BY <1>0, <1>9, <3>5 DEF ChildStep, FailNodes, Notify, callVars, ChildEnds
    <3> QED  BY <1>9, <3>1, <3>2, <3>3, <3>4, <3>5 DEF ChildStep
  <2>2. child # None /\ child \notin ChildEnds /\ sub_row # None /\ child' # None /\ sub_row' # None
    BY <1>0, <2>1 DEF ChildInv, ChildIsOver, ChildEnds
  <2>3. ~(node.type = "call_workflow" /\ outcome = "success")
    BY <2>2 DEF ChildInv, ChildIsOver
  <2>4. stage \notin {"record_start", "insert_child", "start_child"}
    BY <2>2 DEF ChildInv
  <2>5. child' = "marked" => sub_row' \in {"completed", Deleted}
    <3>1. child' = "marked" => MarkCompleted /\ Update("completed")
      BY <1>0, <1>9 DEF ChildStep, LoadAndMark, FailNodes, MarkCompleted, Notify, MarkFailed, Stop
    <3> QED  BY <2>2, <3>1 DEF Update
  <2>6. child' \in ChildEnds => sub_row' \in {child', Deleted} \cup child_late'
    <3>1. CASE Notify
      BY <1>0, <3>1 DEF Notify, ChildInv, ChildEnds
    <3>2. CASE MarkFailed
      BY <1>0, <2>2, <3>2 DEF MarkFailed, Update, ChildEnds
    <3>3. CASE LoadAndMark \/ FailNodes \/ MarkCompleted \/ Stop
      BY <1>0, <3>3 DEF LoadAndMark, FailNodes, MarkCompleted, Stop, ChildEnds
    <3> QED  BY <1>9, <3>1, <3>2, <3>3 DEF ChildStep
  <2>7. sub_row' \in {Deleted, "pending", "running"} \cup ChildEnds /\ child_late' \subseteq {"running"} \cup ChildEnds
    BY <2>1, <2>2 DEF ChildInv
  <2> QED  BY <2>1, <2>2, <2>3, <2>4, <2>5, <2>6, <2>7 DEF ChildInv, ChildIsOver
<1>10. CASE BesideTheChild
  <2>1. UNCHANGED <<node, stage, outcome, child, child_late>>
    BY <1>10 DEF BesideTheChild, callVars
  <2>2. /\ sub_row' # None <=> sub_row # None
        /\ sub_row' \in {sub_row, Deleted} \/ (sub_row # Deleted /\ sub_row' \in child_late)
    BY <1>0, <1>10 DEF BesideTheChild, Update, ChildInv, ChildEnds
  <2>3. stage \in {"record_start", "insert_child", "start_child"} \/ child = None => child_late = {}
    BY DEF ChildInv
  <2> QED  BY <1>0, <2>1, <2>2, <2>3 DEF ChildInv, ChildIsOver
<1> QED  BY <1>3, <1>4, <1>5, <1>6, <1>7, <1>8, <1>9, <1>10 DEF NodeNext

\* A job that succeeded has.
LEMMA SucceededStays ==
  ASSUME SessionTypeOK, [SessionChange]_sessionVars, NEW j \in Jobs, job[j] = "succeeded"
  PROVE  job'[j] = "succeeded"
<1> USE DEF Moves, Ends
<1>0. DOMAIN job = Jobs  BY DEF SessionTypeOK
<1>1. ASSUME NEW k, NEW place, Moves(k, place), job[k] # "succeeded" PROVE job'[j] = "succeeded"
  BY <1>0, <1>1
<1>2. ASSUME NEW k, Die(k) PROVE job'[j] = "succeeded"
  <2>1. Moves(k, "dead") /\ job[k] # "succeeded"  BY <1>2 DEF Die, Working, JobEnds
  <2> QED  BY <1>1, <2>1
<1>3. ASSUME NEW l, RefreshSession(l) \/ LoginStep(l) \/ GiveUpLogin(l) PROVE job'[j] = "succeeded"
  BY <1>0, <1>3 DEF RefreshSession, LoginStep, LoadLogin, LogIn, SaveLogin, GiveUpLogin
<1>4. ASSUME NEW k, ScrapeStep(k) \/ StartScrape(k) PROVE job'[j] = "succeeded"
  BY <1>0, <1>4 DEF ScrapeStep, StartScrape, LoadScrape, SetLock, Browse, SaveScrape, Unlock
<1>5. ASSUME NEW t, Connect(t) \/ CreateSession(t) PROVE job'[j] = "succeeded"
  BY <1>5 DEF Connect, CreateSession
<1>6. CASE DeleteSession \/ UNCHANGED sessionVars
  BY <1>6 DEF DeleteSession, sessionVars
<1> QED  BY <1>2, <1>3, <1>4, <1>5, <1>6 DEF SessionChange, SessionStep

LEMMA ScrapeKeeps ==
  ASSUME StageInv, ScrapeIsOver, SessionIInv, [NodeNext]_nodeVars
  PROVE  ScrapeIsOver'
<1>0. None \notin {"success", "error", "skipped"} /\ None \notin Scrapes
  BY CallAssumption
<1>1. \A j \in Jobs : job[j] = "succeeded" => job'[j] = "succeeded"
  BY NodeMapsToSession, SucceededStays DEF SessionIInv
<1>2. mine # None => mine \in Jobs
  BY DEF StageInv, Jobs
<1>3. ASSUME mine' = mine, outcome' = "success" => outcome = "success" PROVE ScrapeIsOver'
  BY <1>1, <1>2, <1>3 DEF ScrapeIsOver
<1>4. ASSUME mine' = mine, stage \notin {"scraping", "record_end", "done"} PROVE ScrapeIsOver'
  BY <1>4 DEF ScrapeIsOver, StageInv
<1> USE DEF Over, Goes
<1>5. CASE \/ BeginWrite \/ WriteRow \/ FailWrite \/ GiveUpWrite \/ WriteLate \/ ChildStep \/ BesideTheChild \/ SessionMoves
           \/ UNCHANGED nodeVars
  BY <1>3, <1>5 DEF BeginWrite, WriteRow, FailWrite, GiveUpWrite, WriteLate, ChildStep, BesideTheChild, SessionMoves, nodeVars, callVars
<1>6. CASE EmitStarted \/ CallActivity \/ Delay \/ BadConfig \/ UnknownType
  BY <1>4, <1>6 DEF EmitStarted, CallActivity, Delay, BadConfig, UnknownType
<1>7. CASE NextOfBody \/ NextItem \/ EndItems \/ InsertChild \/ StartChild \/ AwaitChild \/ LoseChild
  BY <1>4, <1>7 DEF NextOfBody, NextItem, EndItems, InsertChild, StartChild, AwaitChild, LoseChild
<1>8. CASE CallScraper
  <2>1. outcome' = outcome /\ stage = "call"  BY <1>8 DEF CallScraper
  <2>2. outcome' # "success"  BY <1>0, <2>1 DEF StageInv, Ending
  <2> QED  BY <2>2 DEF ScrapeIsOver
<1>9. CASE AwaitScrape
  <2>1. ~Bodied(node) /\ mine' = mine /\ UNCHANGED job
    BY <1>9 DEF AwaitScrape, StageInv, Bodied, sessionVars
  <2>2. \/ job[mine] = "succeeded"
        \/ outcome' = "error"
    BY <1>9 DEF AwaitScrape, Raises
  <2> QED  BY <2>1, <2>2 DEF ScrapeIsOver
<1> QED  BY <1>5, <1>6, <1>7, <1>8, <1>9 DEF NodeNext, NodeStep

LEMMA CallKeeps ==
  ASSUME CallIInv, [NodeNext]_nodeVars
  PROVE  CallIInv'
<1>1. SessionIInv'  BY SessionKeeps, NodeMapsToSession DEF CallIInv
<1> QED  BY <1>1, StageKeeps, EffectKeeps, ChildKeeps, ScrapeKeeps, RowKeeps DEF CallIInv

\* However often the activities of a node are tried, whatever its body is, and
\* whatever becomes of its child and its scrape: its work is done at most as
\* often as it is tried, that of a body where its items ask for it, in their
\* order and entirely if the node succeeds; and a success stands for a child,
\* or a scrape, that ended so (_execute_node, _run_for_each_body,
\* call_sub_workflow).
THEOREM CallsAreBounded == NodeSpec => []CallInvariant
<1>1. NodeInit => CallIInv  BY CallStarts
<1>2. CallIInv /\ [NodeNext]_nodeVars => CallIInv'  BY CallKeeps
<1>3. CallIInv => CallInvariant  BY CallImplies
<1> QED  BY <1>1, <1>2, <1>3, PTL DEF NodeSpec
=============================================================================
