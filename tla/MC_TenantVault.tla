---------------------------- MODULE MC_TenantVault ----------------------------
(***************************************************************************)
(* Two requests with every pair of tokens of interest, two callbacks, one  *)
(* credential and one rotation for TLC, and what the code says of tenants. *)
(***************************************************************************)
EXTENDS TenantVault, Sequences

Um(id, slug, email) == [via |-> "platform", sub |-> id, company |-> slug, email |-> email, role |-> "user"]

Native == [Um("u1", "b", "m1") EXCEPT !.via = "native"]

\* A move of u1 from a to b, a change of its role alone, the same person under
\* two identities, an administrator and a user without a company, and the other
\* ways in.
TokenList == <<
  [Um("u1", "a", "m1") EXCEPT !.role = "company_admin"], Um("u1", "b", "m1"), Um("u2", "b", "m1"), Um("u2", Nobody, "m2"),
  [Um("u2", Nobody, "m2") EXCEPT !.role = "platform_admin"],
  Native, [Native EXCEPT !.via = "native_socket"], [Um("u1", "b", "m1") EXCEPT !.via = "socket"],
  [Um("u2", "b", "m1") EXCEPT !.via = "register"], [Um("u1", "b", "m1") EXCEPT !.via = "login"],
  [Um("u2", "a", "m2") EXCEPT !.via = "dev"] >>
MCTokens == { TokenList[i] : i \in DOMAIN TokenList }

\* The requests are alike: each pair once.
Pair(t, u) == [r \in Requests |-> IF r = "r1" THEN t ELSE u]
Pairs == UNION { { Pair(TokenList[i], TokenList[j]) : j \in i .. Len(TokenList) } : i \in DOMAIN TokenList }

User(id, email, org, active) == [id |-> id, email |-> email, org |-> org, role |-> "member", active |-> active]
MCPopulations == {
  [orgs |-> {"platform"}, users |-> {}],
  [orgs |-> {"a"}, users |-> {User("u1", "m1", "a", TRUE)}],
  [orgs |-> {"a", "b"}, users |-> {User("u1", "m1", "a", FALSE), User("u2", "m2", "b", TRUE)}],
  [orgs |-> {"a"}, users |-> {User("u2", "m1", "a", TRUE)}] }

Plan(tokens, callbacks, rotating, on) == [tokens |-> tokens, callbacks |-> callbacks, rotating |-> rotating, enforced |-> on]
MCPlans ==
  { Plan(Pairs, {}, FALSE, on) : on \in BOOLEAN }
  \cup { Plan({Pair(Native, Native)}, Callbacks, FALSE, on) : on \in BOOLEAN }
  \cup { Plan({Pair(Native, Um("u2", Nobody, "m2"))}, {"c1"}, TRUE, on) : on \in BOOLEAN }

\* shared/db.py, "the auth dependency stamps from the verified JWT org_id":
\* whoever lists the credentials of an organisation gets all it has.
OwnRowsAreListed ==
  [][\A r \in Requests : op[r] # "list" /\ op'[r] = "list" =>
       \A c \in creds : Owns(r, c) => <<c.org, c>> \in seen']_allVars

MCStateOf(c) == "state"
MCCodeOf(c) == c
=============================================================================
