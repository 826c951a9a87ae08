------------------------------- MODULE Accounts -------------------------------
(***************************************************************************)
(* Accounts and login sessions: requireAuth (internal/gateway/api.go), the *)
(* handlers of auth_api.go, the repositories of sessions and users, the    *)
(* first admin made at start-up and the purge of expired sessions.         *)
(*                                                                         *)
(* Resolve and login are two statements each, without a transaction: the   *)
(* session is looked at, then the account.  Between them a logout, an      *)
(* expiry or a change of the account may happen.  A request may carry any  *)
(* cookie that was ever issued: browsers keep copies.                      *)
(***************************************************************************)
EXTENDS Naturals, FiniteSets

CONSTANTS
  Processes,   \* control planes that start on one database
  Users,       \* usernames
  AdminUser,   \* ADMIN_USER
  Roles,       \* role strings a client may send; nothing validates them
  Sids,        \* bound: sessions issued; a session id is never used twice
  Requests,    \* requests in progress at the same time
  NoSid,       \* no cookie
  Nobody,      \* no account: before authentication
  Service      \* the principal of the API token, an admin

NoRole == ""

ASSUME AccountsAssumption ==
  /\ {"admin", "operator"} \subseteq Roles /\ NoRole \notin Roles
  /\ AdminUser \in Users /\ Nobody \notin Users /\ Service \notin Users
  /\ Nobody # Service /\ NoSid \notin Sids

VARIABLES
  process,   \* control planes: "count", "create", "serving" or "exited"
  account,   \* rows of users: role, and whether they exist or are disabled
  session,   \* rows of sessions: the user, and "unused", "live", "expired" or "gone"
  req        \* requests: step, cookie, API token sent?, principal; and as history whether,
             \* since it began, the session was live and the account enabled

vars == <<process, account, session, req>>

Idle == [pc |-> "idle", sid |-> NoSid, token |-> FALSE, who |-> Nobody,
         sawSession |-> FALSE, sawAccount |-> FALSE]

NoAccount == [state |-> "absent", role |-> NoRole]

Init ==
  /\ process = [c \in Processes |-> "count"]
  /\ account = [u \in Users |-> NoAccount]
  /\ session = [s \in Sids |-> [state |-> "unused", user |-> Nobody]]
  /\ req = [r \in Requests |-> Idle]

Enabled(u) == u \in Users /\ account[u].state = "enabled"

\* Request r once account u is enabled.
Noted(r, u) ==
  [req[r] EXCEPT !.sawAccount = @ \/ (req[r].sid # NoSid /\ session[req[r].sid].user = u)]

Serving == \E c \in Processes : process[c] = "serving"

-----------------------------------------------------------------------------
(* bootstrapAdmin.                                                          *)

\* Faulty: the admin is created whatever the count.
CountUsers_Ignored(c) ==
  /\ process[c] = "count"
  /\ process' = [process EXCEPT ![c] = "create"]
  /\ UNCHANGED <<account, session, req>>

\* Nothing is created once there is an account.
CountUsers(c) ==
  /\ process[c] = "count"
  /\ process' = [process EXCEPT ![c] = IF \E u \in Users : account[u].state # "absent"
                                         THEN "serving" ELSE "create"]
  /\ UNCHANGED <<account, session, req>>

\* Faulty: no default.
DefaultRole_None(role) == role

\* The handler puts operator for an empty role, and so does UserRepo.Create.
DefaultRole(role) == IF role = NoRole THEN "operator" ELSE role

\* UserRepo.Create: usernames are unique, roles are text.
Create(u, role) ==
  /\ account[u].state = "absent"
  /\ account' = [account EXCEPT ![u] = [state |-> "enabled", role |-> DefaultRole(role)]]

\* The process exits when the name is taken meanwhile.
CreateAdmin(c) ==
  /\ process[c] = "create"
  /\ \/ Create(AdminUser, "admin") /\ process' = [process EXCEPT ![c] = "serving"]
     \/ /\ account[AdminUser].state # "absent"
        /\ process' = [process EXCEPT ![c] = "exited"]
        /\ UNCHANGED account
  /\ UNCHANGED <<session, req>>

\* The service manager starts it again (Restart=on-failure).
Restart(c) ==
  /\ process[c] = "exited"
  /\ process' = [process EXCEPT ![c] = "count"]
  /\ UNCHANGED <<account, session, req>>

-----------------------------------------------------------------------------
(* Login.                                                                   *)

Goto(r, pc) == req' = [req EXCEPT ![r].pc = pc]

Respond(r) == req' = [req EXCEPT ![r] = Idle]

\* The rate limiter let the attempt pass, or failed.
LoginBegins(r) == \E u \in Users :
  /\ Serving /\ req[r] = Idle
  /\ req' = [req EXCEPT ![r] = [Idle EXCEPT !.pc = "lookup", !.who = u]]
  /\ UNCHANGED <<process, account, session>>

\* ByUsername, the disabled flag and the password.
LoginLooksUp(r) ==
  /\ req[r].pc = "lookup"
  /\ \/ Enabled(req[r].who) /\ Goto(r, "create")
     \/ Respond(r)
  /\ UNCHANGED <<process, account, session>>

\* Sessions.Create, the cookie and the answer.
LoginCreates(r) == \E s \in Sids :
  /\ req[r].pc = "create" /\ session[s].state = "unused"
  /\ session' = [session EXCEPT ![s] = [state |-> "live", user |-> req[r].who]]
  /\ Respond(r)
  /\ UNCHANGED <<process, account>>

LoginFails(r) ==
  /\ req[r].pc = "create"
  /\ Respond(r)
  /\ UNCHANGED <<process, account, session>>

-----------------------------------------------------------------------------
(* requireAuth.                                                             *)

\* A request with a cookie, an API token or both.
RequestBegins(r) == \E s \in Sids \cup {NoSid}, t \in BOOLEAN :
  /\ Serving /\ req[r] = Idle
  /\ s # NoSid => session[s].state # "unused"
  /\ req' = [req EXCEPT ![r] =
       [pc |-> IF s = NoSid THEN "token" ELSE "resolve", sid |-> s, token |-> t, who |-> Nobody,
        sawSession |-> s # NoSid /\ session[s].state = "live",
        sawAccount |-> s # NoSid /\ Enabled(session[s].user)]]
  /\ UNCHANGED <<process, account, session>>

\* Faulty: the expiry is not compared.
ResolveSession_Expired(r) ==
  /\ req[r].pc = "resolve"
  /\ LET s == req[r].sid IN
       IF session[s].state \in {"live", "expired"}
         THEN req' = [req EXCEPT ![r].pc = "check", ![r].who = session[s].user]
         ELSE Goto(r, "token")
  /\ UNCHANGED <<process, account, session>>

\* The first statement of Resolve.  When it finds no row or fails, the token is next.
ResolveSession(r) ==
  /\ req[r].pc = "resolve"
  /\ \/ /\ session[req[r].sid].state = "live"
        /\ req' = [req EXCEPT ![r].pc = "check", ![r].who = session[req[r].sid].user]
     \/ Goto(r, "token")
  /\ UNCHANGED <<process, account, session>>

\* The second one.
ResolveUser(r) ==
  /\ req[r].pc = "check"
  /\ \/ Enabled(req[r].who) /\ Goto(r, "serving")
     \/ req' = [req EXCEPT ![r].pc = "token", ![r].who = Nobody]
  /\ UNCHANGED <<process, account, session>>

\* There is a session backend, so without a valid token the answer is 401.
CheckToken(r) ==
  /\ req[r].pc = "token"
  /\ IF req[r].token THEN req' = [req EXCEPT ![r].pc = "serving", ![r].who = Service]
                     ELSE Respond(r)
  /\ UNCHANGED <<process, account, session>>

-----------------------------------------------------------------------------
(* Handlers.                                                                *)

\* Principal.IsAdmin, by the role read when the session was resolved.
IsAdmin(p) == p = Service \/ (p \in Users /\ account[p].role = "admin")

\* Any handler returns, the terminal's when its WebSocket closes.
Returns(r) ==
  /\ req[r].pc = "serving"
  /\ Respond(r)
  /\ UNCHANGED <<process, account, session>>

\* Revoke of the cookie the request carries.  When the statement fails the cookie is
\* cleared all the same, as by Returns.
Logout(r) ==
  /\ req[r].pc = "serving" /\ req[r].sid # NoSid
  /\ session' = [session EXCEPT ![req[r].sid].state = "gone"]
  /\ Respond(r)
  /\ UNCHANGED <<process, account>>

\* Any role is taken as it is, an empty one becomes operator.
CreateUser(r) == \E u \in Users, role \in Roles \cup {NoRole} :
  /\ req[r].pc = "serving" /\ IsAdmin(req[r].who)
  /\ Create(u, DefaultRole(role))
  /\ req' = [q \in Requests |-> IF q = r THEN Idle ELSE Noted(q, u)]
  /\ UNCHANGED <<process, session>>

-----------------------------------------------------------------------------
(* Accounts and sessions change under way.                                  *)

\* UserRepo.SetDisabled, which no handler calls: an operator at the database.
SetDisabled(u) ==
  /\ account[u].state # "absent"
  /\ account' = [account EXCEPT ![u].state = IF @ = "enabled" THEN "disabled" ELSE "enabled"]
  /\ req' = [r \in Requests |-> IF account[u].state = "disabled" THEN Noted(r, u) ELSE req[r]]
  /\ UNCHANGED <<process, session>>

\* expires_at passes.
Expires(s) ==
  /\ session[s].state = "live"
  /\ session' = [session EXCEPT ![s].state = "expired"]
  /\ UNCHANGED <<process, account, req>>

\* DeleteExpired, every 15 minutes.
DeleteExpired ==
  /\ Serving /\ \E s \in Sids : session[s].state = "expired"
  /\ session' = [s \in Sids |-> IF session[s].state = "expired"
                                  THEN [session[s] EXCEPT !.state = "gone"] ELSE session[s]]
  /\ UNCHANGED <<process, account, req>>

-----------------------------------------------------------------------------
bootstrapAdmin(c) == CountUsers(c) \/ CreateAdmin(c) \/ Restart(c)
login(r) == LoginBegins(r) \/ LoginLooksUp(r) \/ LoginCreates(r) \/ LoginFails(r)
requireAuth(r) == RequestBegins(r) \/ ResolveSession(r) \/ ResolveUser(r) \/ CheckToken(r)
handler(r) == Returns(r) \/ Logout(r) \/ CreateUser(r)

Next ==
  \/ \E c \in Processes : bootstrapAdmin(c)
  \/ \E r \in Requests : login(r) \/ requireAuth(r) \/ handler(r)
  \/ \E u \in Users : SetDisabled(u)
  \/ \E s \in Sids : Expires(s)
  \/ DeleteExpired

Spec == Init /\ [][Next]_vars

\* A process runs on and is restarted when it fails; no request is owed.
Fairness == \A c \in Processes : WF_vars(bootstrapAdmin(c))

FairSpec == Spec /\ Fairness

-----------------------------------------------------------------------------
(* Properties.                                                              *)

\* Every variable has its type; every account has a role, whichever a client sent, never an
\* empty one.
TypeOK ==
  /\ process \in [Processes -> {"count", "create", "serving", "exited"}]
  /\ account \in [Users -> [state : {"enabled", "disabled"}, role : Roles] \cup {NoAccount}]
  /\ session \in [Sids -> [state : {"unused", "live", "expired", "gone"},
                           user : Users \cup {Nobody}]]
  /\ req \in [Requests -> [pc : {"idle", "lookup", "create", "resolve", "check",
                                 "token", "serving"},
                           sid : Sids \cup {NoSid}, token : BOOLEAN,
                           who : Users \cup {Nobody, Service},
                           sawSession : BOOLEAN, sawAccount : BOOLEAN]]

\* sessions.go:34, "a deactivated account is locked out immediately": a request served for
\* a user began while that session was neither logged out nor expired, and the account was
\* enabled when it began or since; no cookie of another user's session lets it in.
ServedWasValid ==
  \A r \in Requests :
    req[r].pc = "serving" /\ req[r].who # Service =>
      /\ req[r].sawSession /\ req[r].sawAccount
      /\ session[req[r].sid].user = req[r].who

\* Two control planes that both find no account and both create the admin end up serving:
\* the one that loses exits, and its next start finds the account.
EveryStartServes == \A c \in Processes : <>[](process[c] = "serving")
=============================================================================
