---------------------------- MODULE ScraperSession ----------------------------
(***************************************************************************)
(* A browser session that is kept for a site: the requests that make,      *)
(* refresh and delete it (api/routers/scraper.py), the headless logins     *)
(* that fill it and the scrapes that use it and save it again              *)
(* (temporal/activities/scraper_activity.py).                              *)
(*                                                                         *)
(* Nothing stops an activity that is given up: it goes on in its worker,   *)
(* and saves what it has when it gets there.  Nothing reads the key that a *)
(* scrape writes to Redis as its lock either, so that it is not modelled.  *)
(* Cookies are kept as how far they are logged in, the kind of job that    *)
(* captured them, and what they descend from.                              *)
(***************************************************************************)
EXTENDS FiniteSets

CONSTANTS
  Scrapes,     \* runs of scrape_page, all of them with the session
  Acting,      \* those whose actions fill or click
  Logins,      \* runs of refresh_scraper_session
  Templates,   \* what a session may be made with
  None,
  Deleted

ASSUME JobsAssumption == Scrapes \cap Logins = {} /\ Acting \subseteq Scrapes

VARIABLES
  session,     \* the row: None before it is made, Deleted after it was deleted
  refreshing,  \* the login whose workflow runs under the id of the session
  job,         \* where each job is
  held,        \* the cookies, or the row, that each job holds
  latest,      \* the login whose cookies were saved last
  crossed      \* the scrapes that were between their load and their save then

sessionVars == <<session, refreshing, job, held, latest, crossed>>
savedVars == <<latest, crossed>>

Jobs == Scrapes \cup Logins
JobEnds == {"succeeded", "failed", "dead"}
Working(j) == job[j] \notin JobEnds \cup {"idle"}

\* secret: what the linked credential holds ("none": no credential).
\* mfa: which of the code field and the challenge URL login_config.mfa names.
\* totp: whether the login gets as far as _maybe_complete_totp (always, without
\* login_steps).  proves: whether the URL and the selector that login_config
\* names tell the inside of the site from every other page; a failure URL that
\* only some pages have, or an assertion amid the steps, proves nothing.
IsTemplate(t) ==
  /\ t.secret \in {"none", "incomplete", "password", "password_and_seed"}
  /\ t.login_url \in BOOLEAN
  /\ t.mfa \subseteq {"code", "url"}
  /\ t.totp \in BOOLEAN
  /\ t.proves \in BOOLEAN

ASSUME TemplatesAssumption == \A t \in Templates : IsTemplate(t)

\* of: the login they descend from.  acted: whether a scrape on the way from
\* there filled or clicked.
Levels == {"none", "half", "full"}
Cookies == [login : Levels, by : {"login", "scrape"}, of : Logins \cup {None}, acted : BOOLEAN]
NoCookies == [login |-> "none", by |-> "scrape", of |-> None, acted |-> FALSE]
Rows == [made : Templates, cookies : Cookies \cup {None}]
Exists == session \notin {None, Deleted}

\* What is not a row is none, and a session that is gone was one.
ASSUME SessionAssumption == None # Deleted /\ None \notin Rows \cup Cookies \cup Logins /\ Deleted \notin Rows

SessionInit ==
  /\ session = None
  /\ refreshing = None
  /\ job = [j \in Jobs |-> "idle"]
  /\ held = [j \in Jobs |-> None]
  /\ latest = None /\ crossed = {}

-----------------------------------------------------------------------------
(* Requests.                                                               *)

\* A session from the connector of a pack: the credential, the session and
\* the workflows of its targets are inserted by one transaction.
Connect(t) ==
  /\ session = None
  /\ t.secret # "none"
  /\ session' = [made |-> t, cookies |-> None]
  /\ UNCHANGED <<refreshing, job, held, savedVars>>

\* A session by hand; its credential, if any, must be of the organisation.
CreateSession(t) ==
  /\ session = None
  /\ session' = [made |-> t, cookies |-> None]
  /\ UNCHANGED <<refreshing, job, held, savedVars>>

\* The workflow id is that of the session, so a second start is refused.
RefreshSession(l) ==
  /\ Exists
  /\ job[l] = "idle"
  /\ refreshing = None
  /\ refreshing' = l
  /\ job' = [job EXCEPT ![l] = "queued"]
  /\ UNCHANGED <<session, held, savedVars>>

DeleteSession ==
  /\ Exists
  /\ session' = Deleted
  /\ UNCHANGED <<refreshing, job, held, savedVars>>

-----------------------------------------------------------------------------
(* What both kinds of job do.                                              *)

Moves(j, place) == job' = [job EXCEPT ![j] = place]
Holds(j, x) == held' = [held EXCEPT ![j] = x]

\* The workflow around a login ends with it.
Ends(j, how) ==
  /\ Moves(j, how) /\ Holds(j, None)
  /\ refreshing' = IF refreshing = j THEN None ELSE refreshing

\* _save_session: a session that is gone is not made again.
Saved(j) == IF Exists THEN [session EXCEPT !.cookies = held[j]] ELSE session

\* The worker dies, or the event loop is gone: no except or finally runs.
Die(j) ==
  /\ Working(j)
  /\ Moves(j, "dead") /\ Holds(j, None)
  /\ UNCHANGED <<session, refreshing, savedVars>>

-----------------------------------------------------------------------------
(* A login.                                                                *)

LoadLogin(l) ==
  /\ job[l] = "queued"
  /\ \/ /\ Exists
        /\ session.made.secret \in {"password", "password_and_seed"}
        /\ session.made.login_url
        /\ Moves(l, "at_site") /\ Holds(l, session.made)
        /\ UNCHANGED refreshing
     \/ Ends(l, "failed")
  /\ UNCHANGED <<session, savedVars>>

\* What the site shows after user name and password: the inside, its login
\* page again, a field for a code, or another challenge.
Pages == {"inside", "login", "code", "other"}

CodeFieldSeen(t, page) == "code" \in t.mfa /\ page = "code"
ChallengeSeen(t, page) == CodeFieldSeen(t, page) \/ ("url" \in t.mfa /\ page \in {"code", "other"})

\* The pages that _maybe_complete_totp leaves the browser on; none if it
\* raises.  It submits up to two codes and leaves the judgement to its caller.
Completed(t, page) ==
  IF ~t.totp \/ ~ChallengeSeen(t, page) THEN {page}
  ELSE IF t.secret = "password_and_seed" /\ CodeFieldSeen(t, page) THEN {"inside", "code", "login"}
  ELSE {}

\* _login_succeeded and the success selector: whether a page may pass.
VerifiedAlways(t, page) == TRUE
Verified(t, page) == t.proves => page = "inside"

LoginOn(page) == IF page = "inside" THEN "full" ELSE IF page = "login" THEN "none" ELSE "half"

\* login_and_capture_session, as far as the captured state.
LogIn(l) ==
  /\ job[l] = "at_site"
  /\ \/ \E first \in Pages : \E page \in Completed(held[l], first) :
          /\ Verified(held[l], page)
          /\ Moves(l, "captured") /\ Holds(l, [NoCookies EXCEPT !.login = LoginOn(page), !.by = "login", !.of = l])
          /\ UNCHANGED refreshing
     \/ Ends(l, "failed")
  /\ UNCHANGED <<session, savedVars>>

\* The commit may have happened although it is reported as failed.
Between == {j \in Scrapes : job[j] \in {"locking", "browsing", "scraped"}}
SaveLogin(l) ==
  /\ job[l] = "captured"
  /\ \/ /\ session' = Saved(l)
        /\ latest' = IF Exists THEN l ELSE latest
        /\ crossed' = IF Exists THEN Between ELSE crossed
        /\ \E how \in {"succeeded", "failed"} : Ends(l, how)
     \/ Ends(l, "failed") /\ UNCHANGED <<session, savedVars>>

\* Three minutes: the workflow fails, the login goes on.
GiveUpLogin(l) ==
  /\ refreshing = l
  /\ refreshing' = None
  /\ UNCHANGED <<session, job, held, savedVars>>

-----------------------------------------------------------------------------
(* A scrape.                                                               *)

StartScrape(j) ==
  /\ job[j] = "idle"
  /\ Moves(j, "loading")
  /\ UNCHANGED <<session, refreshing, held, savedVars>>

LoadScrape(j) ==
  /\ job[j] = "loading"
  /\ \/ Moves(j, "locking") /\ Holds(j, IF Exists THEN session.cookies ELSE None)
     \/ Moves(j, "failed") /\ UNCHANGED held
  /\ UNCHANGED <<session, refreshing, savedVars>>

\* SETEX writes the key whether or not it is there, and so keeps nobody out:
\* all it can do is fail.
SetLock(j) ==
  /\ job[j] = "locking"
  /\ \/ Moves(j, "browsing") /\ UNCHANGED held
     \/ Moves(j, "failed") /\ Holds(j, None)
  /\ UNCHANGED <<session, refreshing, savedVars>>

\* The browser starts with what was loaded.  The site may have forgotten the
\* login, or ask for a code again; actions may log in, or half of it, or out.
\* A failing selector, action or navigation saves nothing.
FreshContext(j) == NoCookies
Had(j) == IF held[j] = None THEN NoCookies ELSE held[j]
Below(login) == IF login = "full" THEN Levels ELSE {"none", login}

Browse(j) ==
  /\ job[j] = "browsing"
  /\ \/ \E login \in IF j \in Acting THEN Levels ELSE Below(Had(j).login) :
          /\ Moves(j, "scraped")
          /\ Holds(j, [login |-> login, by |-> "scrape", of |-> Had(j).of, acted |-> Had(j).acted \/ j \in Acting])
     \/ Moves(j, "unlocking_failed") /\ Holds(j, None)
  /\ UNCHANGED <<session, refreshing, savedVars>>

SaveScrape(j) ==
  /\ job[j] = "scraped"
  /\ \/ session' = Saved(j) /\ \E how \in {"unlocking_succeeded", "unlocking_failed"} : Moves(j, how)
     \/ UNCHANGED session /\ Moves(j, "unlocking_failed")
  /\ Holds(j, None)
  /\ UNCHANGED <<refreshing, savedVars>>

\* The finally clause; that it cannot delete the key is ignored.
Unlock(j) ==
  /\ \/ job[j] = "unlocking_succeeded" /\ Moves(j, "succeeded")
     \/ job[j] = "unlocking_failed" /\ Moves(j, "failed")
  /\ UNCHANGED <<session, refreshing, held, savedVars>>

-----------------------------------------------------------------------------
LoginStep(l) == LoadLogin(l) \/ LogIn(l) \/ SaveLogin(l)
ScrapeStep(j) == LoadScrape(j) \/ SetLock(j) \/ Browse(j) \/ SaveScrape(j) \/ Unlock(j)

SessionStep ==
  \/ \E t \in Templates : Connect(t) \/ CreateSession(t)
  \/ DeleteSession
  \/ \E l \in Logins : RefreshSession(l) \/ LoginStep(l) \/ GiveUpLogin(l)
  \/ \E j \in Scrapes : ScrapeStep(j)
  \/ \E j \in Jobs : Die(j)

\* A job ends unless its worker dies, and the timer of the workflow fires.
SessionFairness ==
  /\ \A l \in Logins : WF_sessionVars(LoginStep(l)) /\ WF_sessionVars(GiveUpLogin(l))
  /\ \A j \in Scrapes : WF_sessionVars(ScrapeStep(j))

-----------------------------------------------------------------------------
SessionTypeOK ==
  /\ session \in {None, Deleted} \cup Rows
  /\ refreshing \in Logins \cup {None}
  /\ job \in [Jobs -> JobEnds \cup {"idle", "queued", "at_site", "captured", "loading", "locking", "browsing",
                                    "scraped", "unlocking_succeeded", "unlocking_failed"}]
  /\ held \in [Jobs -> Cookies \cup Templates \cup {None}]
  /\ latest \in Logins \cup {None}
  /\ crossed \subseteq Scrapes

\* What is stored is what its history explains.  A login stores cookies from the
\* middle of a challenge only if its login_config names nothing that proves the
\* inside, and the challenge went unseen or its codes were refused; where it
\* names something, what a login stored is logged in.  Cookies that descend from
\* no login are not logged in unless the actions of a scrape did that, and none
\* descend from a login where the credential has no password.
HalfLogin(t) == ~t.proves /\ (t.totp /\ "url" \in t.mfa => "code" \in t.mfa /\ t.secret = "password_and_seed")

CookiesAreExplained ==
  Exists /\ session.cookies # None =>
    LET c == session.cookies
        t == session.made
    IN /\ c.by = "login" /\ c.login = "half" => HalfLogin(t)
       /\ c.by = "login" /\ t.proves => c.login = "full"
       /\ ~c.acted /\ c.of = None => c.login = "none"
       /\ t.secret \in {"none", "incomplete"} => c.of = None

\* What logins, scrapes, refreshes and deletions of one session keep, however
\* they overlap (refresh_scraper_session, scrape_page, _save_session).
SessionInvariant == SessionTypeOK /\ CookiesAreExplained

\* The scrapes and the logins that come and go leave the latest login in the
\* session: its cookies descend from it unless a scrape had loaded older ones
\* before it was saved and was still to save, which no lock prevents
\* (scrape_page saves the state of a browser that began with what it loaded).
LoginsAreKept == Exists /\ session.cookies # None /\ crossed = {} => session.cookies.of = latest
=============================================================================
