---------------------------- MODULE MC_MailPoller ----------------------------
(***************************************************************************)
(* Every pair of the requests below on a workflow that was published or    *)
(* not, without mail; and a request alone with mails and faults, for TLC.  *)
(***************************************************************************)
EXTENDS MailPoller, TLC

MCEventOf(c) == IF c = "event" THEN "created" ELSE None
MCConditionsOf(c) == IF c = "event" THEN "big" ELSE None
MCPrivileged(c) == c = "risky"

Bare == [conditions |-> None, mailbox |-> None]
Mail == [Bare EXCEPT !.mailbox = "m"]

\* The operations, by the owner's administrator unless they say otherwise.
By(x) == [org |-> "a", admin |-> TRUE] @@ x
Edit(set) == By([do |-> "update", set |-> set])
Sharing(do, c) == By([do |-> do, company |-> c])
Member(x) == [x EXCEPT !.admin = FALSE]

OpList == <<
  Edit([definition |-> "event"]), Member(Edit([definition |-> "risky"])), Edit([definition |-> "risky"]),
  Edit([active |-> FALSE]), Edit([config |-> Mail]), Edit([config |-> Mail, trigger |-> "imap_trigger"]),
  By([do |-> "publish"]), Member(By([do |-> "publish"])), By([do |-> "rollback", version |-> "v0"]),
  By([do |-> "delete"]),
  Sharing("share", "b"), Sharing("unshare", "b"), Sharing("unshare", "c"),
  Member(By([do |-> "execute"])), [By([do |-> "execute"]) EXCEPT !.org = "b"],
  By([do |-> "webhook"]),
  By([do |-> "create", scope |-> "company", mandated |-> TRUE, federated |-> TRUE, definition |-> "event", trigger |-> "manual"]),
  Member(By([do |-> "create", scope |-> "company", mandated |-> TRUE, federated |-> FALSE, definition |-> "plain", trigger |-> "webhook"])),
  Member(By([do |-> "create", scope |-> "personal", mandated |-> FALSE, federated |-> FALSE, definition |-> "event", trigger |-> "imap_trigger"])),
  Member(By([do |-> "create", scope |-> "personal", mandated |-> FALSE, federated |-> TRUE, definition |-> "plain", trigger |-> "imap_trigger"])),
  Member(By([do |-> "import", scope |-> "personal", mandated |-> FALSE, federated |-> FALSE, definition |-> "event", trigger |-> "created"])) >>

Pairs == { [r \in Requests |-> OpList[IF r = "r1" THEN i ELSE j]] : i \in DOMAIN OpList, j \in DOMAIN OpList }
Kinds == { p \in Pairs : \E i, j \in DOMAIN OpList : i <= j /\ p["r1"] = OpList[i] /\ p["r2"] = OpList[j] }

Draft == [definition |-> "plain", trigger |-> "manual", config |-> Bare, active |-> TRUE, pointer |-> None, shared |-> {"b", "c"}]
Version0 == [id |-> "v0", num |-> 1, status |-> "active", definition |-> "plain", trigger |-> "manual", config |-> Bare]
Version1 == [Version0 EXCEPT !.id = "v1", !.num = 2, !.definition = "event"]
Published == [row |-> [Draft EXCEPT !.pointer = "v1", !.definition = "event", !.config = [Bare EXCEPT !.conditions = "big"]],
              versions |-> {[Version0 EXCEPT !.status = "archived"], Version1}]
Hooked == [row |-> [Draft EXCEPT !.trigger = "webhook", !.shared = {"c"}], versions |-> {}]
Mailed == [row |-> [Draft EXCEPT !.trigger = "imap_trigger", !.config = Mail, !.pointer = "v0"],
           versions |-> {[Version0 EXCEPT !.trigger = "imap_trigger", !.config = Mail]}]
MCBooks == {Published, Hooked, Mailed}

\* One request, and mails.
Alone(o) == [r \in Requests |-> IF r = "r1" THEN o ELSE By([do |-> "none"])]

MCPlans == {
  [ops |-> Kinds, books |-> MCBooks, mails |-> 0, faults |-> 0],
  [ops |-> {Alone(Edit([config |-> Mail])), Alone(By([do |-> "delete"]))}, books |-> {Mailed}, mails |-> 3, faults |-> 1],
  [ops |-> {Alone(Edit([config |-> Mail]))}, books |-> {Mailed}, mails |-> 1, faults |-> 2] }
=============================================================================
