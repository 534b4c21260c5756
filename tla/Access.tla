-------------------------------- MODULE Access --------------------------------
(***************************************************************************)
(* Who may call what: the checks every handler makes before it acts.  A    *)
(* caller is a user who came in through the browser (Web) or with an API   *)
(* token, which is bound to one project.  Users, memberships and tokens    *)
(* change in Identity; here they are given.                                *)
(***************************************************************************)
CONSTANTS
  User,
  Admin,      \* instance administrators
  Project,
  Member,     \* pairs <<user, project>>: at least one role there
  Web,        \* a session cookie, no token
  NoProject   \* a request that names no project

ASSUME AccessAssumption ==
  /\ Admin \subseteq User
  /\ Member \subseteq User \X Project
  /\ Web \notin Project
  /\ NoProject \notin Project \cup {Web}

Caller == [user : User, via : Project \cup {Web}]

\* The callers of the MCP endpoint: it takes no cookie.
Agent == {c \in Caller : c.via # Web}

RequireProjectScope(c, p) == c.via \in {Web, p}

RequireGlobalWrite(c) == c.user \in Admin /\ c.via = Web

requireProjectAccess(c, p) ==
  /\ p \in Project
  /\ RequireProjectScope(c, p)
  /\ c.user \in Admin \/ <<c.user, p>> \in Member
=============================================================================
