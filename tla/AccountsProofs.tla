---------------------------- MODULE AccountsProofs -----------------------------
(***************************************************************************)
(* Whom a request is served for, for any number of control planes,         *)
(* accounts, sessions and requests in progress.                            *)
(*                                                                         *)
(* ServedWasValid speaks of the end of requireAuth; what makes it true is  *)
(* collected on the way.  A session that was issued keeps its user, who    *)
(* has an account (Issued); a session that is live, or an account that is  *)
(* enabled, at any time while a request is in progress was seen so since   *)
(* it began (Carries); and each step of login and requireAuth rests on     *)
(* what the steps before it found (Reached).                               *)
(***************************************************************************)
EXTENDS Accounts, TLAPS

Pcs == {"idle", "lookup", "create", "resolve", "check", "token", "serving"}
States == {"enabled", "disabled"}
Known == {"unused", "live", "expired", "gone"}

Rows == [state : States, role : Roles] \cup {NoAccount}
Logins == [state : Known, user : Users \cup {Nobody}]
InProgress == [pc : Pcs, sid : Sids \cup {NoSid}, token : BOOLEAN,
               who : Users \cup {Nobody, Service}, sawSession : BOOLEAN, sawAccount : BOOLEAN]

\* Accounts that exist: a session that was issued has one.
Exists(u) == u \in Users /\ account[u].state # "absent"

Issued == \A s \in Sids : session[s].state # "unused" => Exists(session[s].user)

\* A cookie the request carries was issued.  If its session is live now, or its account
\* enabled, that was seen since the request began.
Carries(q) ==
  q.sid # NoSid =>
    /\ session[q.sid].state # "unused"
    /\ session[q.sid].state = "live" => q.sawSession
    /\ Enabled(session[q.sid].user) => q.sawAccount

\* What login and requireAuth have found out by the step they are at.
Reached(q) ==
  /\ q.pc = "lookup" => q.who \in Users
  /\ q.pc = "create" => Exists(q.who)
  /\ q.pc = "resolve" => q.sid # NoSid
  /\ q.pc = "check" => q.who # Service
  /\ q.pc \in {"check", "serving"} /\ q.who # Service =>
       q.sid # NoSid /\ q.sawSession /\ session[q.sid].user = q.who
  /\ q.pc = "serving" /\ q.who # Service => q.sawAccount

Witnessed == \A r \in Requests : Carries(req[r]) /\ Reached(req[r])

Typed ==
  /\ process \in [Processes -> {"count", "create", "serving", "exited"}]
  /\ account \in [Users -> Rows]
  /\ session \in [Sids -> Logins]
  /\ req \in [Requests -> InProgress]

AInv == Typed /\ Issued /\ Witnessed

-----------------------------------------------------------------------------
LEMMA TypedIsTypeOK == Typed <=> TypeOK
BY Zenon DEF Typed, TypeOK, Rows, Logins, InProgress, Pcs, States, Known

\* What the types say about one session and one request.
LEMMA Fields ==
  ASSUME Typed
  PROVE  /\ \A s \in Sids : session[s].state \in Known /\ session[s].user \in Users \cup {Nobody}
         /\ \A r \in Requests : /\ req[r].pc \in Pcs /\ req[r].sid \in Sids \cup {NoSid}
                                /\ req[r].who \in Users \cup {Nobody, Service}
BY DEF Typed, Rows, Logins, InProgress

LEMMA IdleIsInProgress == Idle \in InProgress
BY DEF Idle, InProgress, Pcs

LEMMA InitAInv == Init => AInv
<1> SUFFICES ASSUME Init PROVE AInv OBVIOUS
<1>1. Typed
  BY IdleIsInProgress DEF Init, Typed, Rows, Logins, NoAccount, States, Known
<1>2. Issued /\ Witnessed
  BY DEF Init, Issued, Witnessed, Carries, Reached, Idle
<1>3. QED BY <1>1, <1>2 DEF AInv

-----------------------------------------------------------------------------
(* The steps.                                                               *)

\* A step of one request that changes neither accounts nor sessions.
LEMMA RequestSteps ==
  ASSUME AInv, NEW r \in Requests, NEW q \in InProgress, Carries(q), Reached(q),
         req' = [req EXCEPT ![r] = q], UNCHANGED <<process, account, session>>
  PROVE  AInv'
<1>1. Typed' BY DEF AInv, Typed
<1>2. Issued' BY DEF AInv, Issued, Exists
<1>3. ASSUME NEW k \in Requests PROVE (Carries(req[k]) /\ Reached(req[k]))'
  <2>1. req'[k] = IF k = r THEN q ELSE req[k] BY DEF AInv, Typed
  <2>2. Carries(req[k]) /\ Reached(req[k]) BY DEF AInv, Witnessed
  <2>3. Carries(req'[k]) /\ Reached(req'[k]) BY <2>1, <2>2
  <2>4. QED BY <2>3 DEF Carries, Reached, Exists, Enabled
<1>4. QED BY <1>1, <1>2, <1>3 DEF AInv, Witnessed

\* A step that changes accounts or sessions, one request aside.
LEMMA OthersKeep ==
  ASSUME AInv, NEW k \in Requests, req'[k] = req[k],
         \A u \in Users : Enabled(u)' => Enabled(u),
         \A u \in Users : Exists(u) => Exists(u)',
         \A s \in Sids : session[s].state # "unused" =>
           /\ session'[s].user = session[s].user /\ session'[s].state # "unused"
           /\ session'[s].state = "live" => session[s].state = "live"
  PROVE  (Carries(req[k]) /\ Reached(req[k]))'
<1>1. Carries(req[k]) /\ Reached(req[k]) BY DEF AInv, Witnessed
<1>2. req[k].sid \in Sids \cup {NoSid} BY Fields DEF AInv
<1>3. req[k].sid # NoSid => session[req[k].sid].user \in Users
  BY <1>1, <1>2 DEF AInv, Issued, Exists, Carries
<1>4. Carries(req[k])' BY <1>1, <1>2, <1>3 DEF Carries
<1>5. Reached(req[k])' BY <1>1, <1>2 DEF Reached, Carries, Exists
<1>6. QED BY <1>4, <1>5

LEMMA IdleIsFine == Carries(Idle) /\ Reached(Idle)
BY DEF Idle, Carries, Reached

LEMMA RespondKeeps ==
  ASSUME AInv, NEW r \in Requests, Respond(r), UNCHANGED <<process, account, session>>
  PROVE  AInv'
BY IdleIsFine, IdleIsInProgress, RequestSteps DEF Respond

\* A control plane starts: only CreateAdmin touches an account, one that nobody can have
\* a session of yet.
LEMMA BootstrapKeeps ==
  ASSUME AInv, NEW c \in Processes, bootstrapAdmin(c)
  PROVE  AInv'
<1> USE AccountsAssumption
<1>1. CASE CountUsers(c)
  BY <1>1 DEF AInv, CountUsers, Typed, Issued, Exists, Carries, Enabled, Witnessed, Reached
<1>2. CASE Restart(c)
  BY <1>2 DEF AInv, Restart, Typed, Issued, Exists, Carries, Enabled, Witnessed, Reached
<1>3. CASE CreateAdmin(c)
  <2>1. UNCHANGED <<session, req>> BY <1>3 DEF CreateAdmin
  <2>2. /\ process' \in [Processes -> {"count", "create", "serving", "exited"}]
        /\ account' \in [Users -> Rows]
    BY <1>3 DEF AInv, CreateAdmin, Create, Typed, Rows, States, DefaultRole
  <2>3. \A u \in Users : account[u].state # "absent" => account'[u] = account[u]
    BY <1>3 DEF AInv, CreateAdmin, Create, Typed
  <2>4. Typed' BY <2>1, <2>2 DEF AInv, Typed
  <2>5. Issued' BY <2>1, <2>3 DEF AInv, Issued, Exists
  <2>6. ASSUME NEW r \in Requests PROVE (Carries(req[r]) /\ Reached(req[r]))'
    <3>1. Carries(req[r]) /\ Reached(req[r]) BY DEF AInv, Witnessed
    <3>2. req[r].sid \in Sids \cup {NoSid} BY Fields DEF AInv
    <3>3. req[r].sid # NoSid => Exists(session[req[r].sid].user)
      BY <3>1, <3>2 DEF AInv, Issued, Carries
    <3>4. Carries(req[r])' BY <2>1, <2>3, <3>1, <3>3 DEF Carries, Enabled, Exists
    <3>5. Reached(req[r])' BY <2>1, <2>3, <3>1 DEF Reached, Exists
    <3>6. QED BY <3>4, <3>5
  <2>7. QED BY <2>4, <2>5, <2>6 DEF AInv, Witnessed
<1>4. QED BY <1>1, <1>2, <1>3 DEF bootstrapAdmin

LEMMA LoginKeeps ==
  ASSUME AInv, NEW r \in Requests, login(r)
  PROVE  AInv'
<1> USE AccountsAssumption
<1>0. req[r] \in InProgress /\ Carries(req[r]) /\ Reached(req[r])
  BY DEF AInv, Typed, Witnessed
<1>1. CASE LoginBegins(r)
  <2>1. PICK u \in Users : req' = [req EXCEPT ![r] = [Idle EXCEPT !.pc = "lookup", !.who = u]]
    BY <1>1 DEF LoginBegins
  <2> DEFINE q == [Idle EXCEPT !.pc = "lookup", !.who = u]
  <2>2. q \in InProgress BY DEF Idle, InProgress, Pcs
  <2>3. Carries(q) /\ Reached(q) BY DEF Idle, Carries, Reached
  <2>4. QED BY <1>1, <2>1, <2>2, <2>3, RequestSteps DEF LoginBegins
<1>2. CASE LoginLooksUp(r)
  <2>1. UNCHANGED <<process, account, session>> BY <1>2 DEF LoginLooksUp
  <2>2. CASE Enabled(req[r].who) /\ Goto(r, "create")
    <3> DEFINE q == [req[r] EXCEPT !.pc = "create"]
    <3>1. req' = [req EXCEPT ![r] = q] BY <2>2 DEF Goto
    <3>2. q \in InProgress BY <1>0 DEF InProgress, Pcs
    <3>3. Exists(q.who) BY <1>0, <2>2, <3>2 DEF Enabled, Exists, InProgress
    <3>4. q.pc = "create" /\ q.sid = req[r].sid /\ q.sawSession = req[r].sawSession
          /\ q.sawAccount = req[r].sawAccount
      BY <1>0 DEF InProgress
    <3>5. Carries(q) /\ Reached(q) BY <1>0, <3>3, <3>4 DEF Carries, Reached
    <3> HIDE DEF q
    <3>6. QED BY <2>1, <3>1, <3>2, <3>5, RequestSteps
  <2>3. CASE Respond(r) BY <2>1, <2>3, RespondKeeps
  <2>4. QED BY <1>2, <2>2, <2>3 DEF LoginLooksUp
<1>3. CASE LoginCreates(r)
  <2>1. PICK s \in Sids :
          /\ session[s].state = "unused"
          /\ session' = [session EXCEPT ![s] = [state |-> "live", user |-> req[r].who]]
    BY <1>3 DEF LoginCreates
  <2>2. UNCHANGED <<process, account>> /\ req[r].pc = "create" /\ Respond(r)
    BY <1>3 DEF LoginCreates
  <2>3. Exists(req[r].who) BY <1>0, <2>2 DEF Reached
  <2>4. session' \in [Sids -> Logins]
    BY <2>1, <2>3 DEF AInv, Typed, Logins, Known, Exists
  <2>5. req' \in [Requests -> InProgress]
    BY <2>2, IdleIsInProgress DEF AInv, Typed, Respond
  <2>6. \A t \in Sids : t # s => session'[t] = session[t] BY <2>1 DEF AInv, Typed
  <2>7. session'[s] = [state |-> "live", user |-> req[r].who] BY <2>1 DEF AInv, Typed
  <2>8. Issued' BY <2>2, <2>3, <2>6, <2>7 DEF AInv, Issued, Exists
  <2>9. ASSUME NEW k \in Requests PROVE (Carries(req[k]) /\ Reached(req[k]))'
    <3>1. CASE k = r
      <4>1. req'[k] = Idle BY <2>2, <3>1 DEF AInv, Typed, Respond
      <4>2. QED BY <4>1 DEF Idle, Carries, Reached
    <3>2. CASE k # r
      <4>1. req'[k] = req[k] BY <2>2, <3>2 DEF AInv, Typed, Respond
      <4>2. \A t \in Sids : session[t].state # "unused" => session'[t] = session[t]
        BY <2>1, <2>6
      <4>3. \A u \in Users : (Enabled(u)' => Enabled(u)) /\ (Exists(u) => Exists(u)')
        BY <2>2 DEF Enabled, Exists
      <4>4. QED BY <4>1, <4>2, <4>3, OthersKeep
    <3>3. QED BY <3>1, <3>2
  <2>10. QED BY <2>2, <2>4, <2>5, <2>8, <2>9 DEF AInv, Typed, Witnessed
<1>4. CASE LoginFails(r) BY <1>4, RespondKeeps DEF LoginFails
<1>5. QED BY <1>1, <1>2, <1>3, <1>4 DEF login

LEMMA RequireAuthKeeps ==
  ASSUME AInv, NEW r \in Requests, requireAuth(r)
  PROVE  AInv'
<1> USE AccountsAssumption
<1>0. req[r] \in InProgress /\ Carries(req[r]) /\ Reached(req[r])
  BY DEF AInv, Typed, Witnessed
<1>1. UNCHANGED <<process, account, session>>
  BY DEF requireAuth, RequestBegins, ResolveSession, ResolveUser, CheckToken
<1>2. CASE RequestBegins(r)
  <2>1. PICK s \in Sids \cup {NoSid}, t \in BOOLEAN :
          /\ s # NoSid => session[s].state # "unused"
          /\ req' = [req EXCEPT ![r] =
               [pc |-> IF s = NoSid THEN "token" ELSE "resolve", sid |-> s, token |-> t,
                who |-> Nobody, sawSession |-> s # NoSid /\ session[s].state = "live",
                sawAccount |-> s # NoSid /\ Enabled(session[s].user)]]
    BY <1>2 DEF RequestBegins
  <2> DEFINE q == [pc |-> IF s = NoSid THEN "token" ELSE "resolve", sid |-> s, token |-> t,
                   who |-> Nobody, sawSession |-> s # NoSid /\ session[s].state = "live",
                   sawAccount |-> s # NoSid /\ Enabled(session[s].user)]
  <2>2. q \in InProgress BY DEF InProgress, Pcs, Enabled
  <2>3. Carries(q) /\ Reached(q) BY <2>1 DEF Carries, Reached
  <2>4. req' = [req EXCEPT ![r] = q] BY <2>1
  <2> HIDE DEF q
  <2>5. QED BY <1>1, <2>2, <2>3, <2>4, RequestSteps
<1>3. ASSUME Goto(r, "token") PROVE AInv'
  <2> DEFINE q == [req[r] EXCEPT !.pc = "token"]
  <2>1. req' = [req EXCEPT ![r] = q] BY <1>3 DEF Goto
  <2>2. q \in InProgress BY <1>0 DEF InProgress, Pcs
  <2>3. Carries(q) /\ Reached(q) BY <1>0 DEF Carries, Reached, InProgress
  <2> HIDE DEF q
  <2>4. QED BY <1>1, <2>1, <2>2, <2>3, RequestSteps
<1>4. CASE ResolveSession(r)
  <2>1. CASE /\ session[req[r].sid].state = "live"
             /\ req' = [req EXCEPT ![r].pc = "check", ![r].who = session[req[r].sid].user]
    <3> DEFINE q == [req[r] EXCEPT !.pc = "check", !.who = session[req[r].sid].user]
    <3>1. req' = [req EXCEPT ![r] = q] BY <2>1 DEF AInv, Typed
    <3>2. req[r].sid \in Sids /\ req[r].sid # NoSid
      BY <1>0, <1>4, Fields DEF AInv, ResolveSession, Reached
    <3>3. session[req[r].sid].user \in Users
      BY <2>1, <3>2 DEF AInv, Issued, Exists
    <3>4. q \in InProgress BY <1>0, <3>3 DEF InProgress, Pcs
    <3>5. q.pc = "check" /\ q.who = session[req[r].sid].user /\ q.sid = req[r].sid
          /\ q.sawSession = req[r].sawSession /\ q.sawAccount = req[r].sawAccount
      BY <1>0 DEF InProgress
    <3>6. Carries(q) /\ Reached(q)
      BY <1>0, <2>1, <3>2, <3>3, <3>5 DEF Carries, Reached
    <3> HIDE DEF q
    <3>7. QED BY <1>1, <3>1, <3>4, <3>6, RequestSteps
  <2>2. QED BY <1>3, <1>4, <2>1 DEF ResolveSession
<1>5. CASE ResolveUser(r)
  <2>1. CASE Enabled(req[r].who) /\ Goto(r, "serving")
    <3> DEFINE q == [req[r] EXCEPT !.pc = "serving"]
    <3>1. req' = [req EXCEPT ![r] = q] BY <2>1 DEF Goto
    <3>2. q \in InProgress BY <1>0 DEF InProgress, Pcs
    <3>3. q.pc = "serving" /\ q.who = req[r].who /\ q.sid = req[r].sid
          /\ q.sawSession = req[r].sawSession /\ q.sawAccount = req[r].sawAccount
      BY <1>0 DEF InProgress
    <3>4. req[r].pc = "check" BY <1>5 DEF ResolveUser
    <3>5. Carries(q) /\ Reached(q) BY <1>0, <2>1, <3>3, <3>4 DEF Carries, Reached
    <3> HIDE DEF q
    <3>6. QED BY <1>1, <3>1, <3>2, <3>5, RequestSteps
  <2>2. CASE req' = [req EXCEPT ![r].pc = "token", ![r].who = Nobody]
    <3> DEFINE q == [req[r] EXCEPT !.pc = "token", !.who = Nobody]
    <3>1. req' = [req EXCEPT ![r] = q] BY <2>2 DEF AInv, Typed
    <3>2. q \in InProgress BY <1>0 DEF InProgress, Pcs
    <3>3. Carries(q) /\ Reached(q) BY <1>0 DEF Carries, Reached, InProgress
    <3> HIDE DEF q
    <3>4. QED BY <1>1, <3>1, <3>2, <3>3, RequestSteps
  <2>3. QED BY <1>5, <2>1, <2>2 DEF ResolveUser
<1>6. CASE CheckToken(r)
  <2>1. CASE req' = [req EXCEPT ![r].pc = "serving", ![r].who = Service]
    <3> DEFINE q == [req[r] EXCEPT !.pc = "serving", !.who = Service]
    <3>1. req' = [req EXCEPT ![r] = q] BY <2>1 DEF AInv, Typed
    <3>2. q \in InProgress BY <1>0 DEF InProgress, Pcs
    <3>3. Carries(q) /\ Reached(q) BY <1>0 DEF Carries, Reached, InProgress
    <3> HIDE DEF q
    <3>4. QED BY <1>1, <3>1, <3>2, <3>3, RequestSteps
  <2>2. QED BY <1>1, <1>6, <2>1, RespondKeeps DEF CheckToken
<1>7. QED BY <1>2, <1>4, <1>5, <1>6 DEF requireAuth

\* Every request but r, once account u may be enabled.
LEMMA NotedKeeps ==
  ASSUME AInv, NEW k \in Requests, NEW u \in Users, req'[k] = Noted(k, u),
         \A v \in Users : v # u => account'[v] = account[v], Exists(u)',
         UNCHANGED session
  PROVE  /\ req'[k] \in InProgress
         /\ (Carries(req[k]) /\ Reached(req[k]))'
<1> USE AccountsAssumption
<1>1. req[k] \in InProgress /\ Carries(req[k]) /\ Reached(req[k])
  BY DEF AInv, Typed, Witnessed
<1>2. /\ req'[k].pc = req[k].pc /\ req'[k].sid = req[k].sid /\ req'[k].who = req[k].who
      /\ req'[k].sawSession = req[k].sawSession
      /\ req'[k].sawAccount = (\/ req[k].sawAccount
                               \/ req[k].sid # NoSid /\ session[req[k].sid].user = u)
      /\ req'[k] \in InProgress
  BY <1>1 DEF Noted, InProgress
<1>3. req[k].sid # NoSid => session[req[k].sid].user \in Users
  BY <1>1 DEF AInv, Issued, Exists, Carries, InProgress
<1>4. Carries(req[k])' BY <1>1, <1>2, <1>3 DEF Carries, Enabled
<1>5. Reached(req[k])' BY <1>1, <1>2 DEF Reached, Exists
<1>6. QED BY <1>2, <1>4, <1>5

LEMMA HandlerKeeps ==
  ASSUME AInv, NEW r \in Requests, handler(r)
  PROVE  AInv'
<1> USE AccountsAssumption
<1>1. CASE Returns(r) BY <1>1, RespondKeeps DEF Returns
<1>2. CASE Logout(r)
  <2>1. /\ req[r].sid \in Sids /\ UNCHANGED <<process, account>> /\ Respond(r)
        /\ session' = [session EXCEPT ![req[r].sid].state = "gone"]
    BY <1>2, Fields DEF AInv, Logout
  <2>2. session' \in [Sids -> Logins] BY <2>1 DEF AInv, Typed, Logins, Known
  <2>3. req' \in [Requests -> InProgress]
    BY <2>1, IdleIsInProgress DEF AInv, Typed, Respond
  <2>4. session[req[r].sid].state # "unused"
    BY <1>2 DEF AInv, Witnessed, Carries, Logout
  <2>5. \A t \in Sids :
          /\ t # req[r].sid => session'[t] = session[t]
          /\ session'[req[r].sid].state = "gone"
          /\ session'[t].user = session[t].user
    BY <2>1 DEF AInv, Typed, Logins
  <2>6. Issued' BY <2>1, <2>4, <2>5 DEF AInv, Issued, Exists
  <2>7. ASSUME NEW k \in Requests PROVE (Carries(req[k]) /\ Reached(req[k]))'
    <3>1. CASE k = r
      <4>1. req'[k] = Idle BY <2>1, <3>1 DEF AInv, Typed, Respond
      <4>2. QED BY <4>1 DEF Idle, Carries, Reached
    <3>2. CASE k # r
      <4>1. req'[k] = req[k] BY <2>1, <3>2 DEF AInv, Typed, Respond
      <4>2. \A u \in Users : (Enabled(u)' => Enabled(u)) /\ (Exists(u) => Exists(u)')
        BY <2>1 DEF Enabled, Exists
      <4>3. QED BY <2>5, <4>1, <4>2, OthersKeep
    <3>3. QED BY <3>1, <3>2
  <2>8. QED BY <2>1, <2>2, <2>3, <2>6, <2>7 DEF AInv, Typed, Witnessed
<1>3. CASE CreateUser(r)
  <2>1. PICK u \in Users, role \in Roles \cup {NoRole} :
          /\ Create(u, DefaultRole(role))
          /\ req' = [q \in Requests |-> IF q = r THEN Idle ELSE Noted(q, u)]
    BY <1>3 DEF CreateUser
  <2>2. UNCHANGED <<process, session>> BY <1>3 DEF CreateUser
  <2>3. /\ account' \in [Users -> Rows]
        /\ \A v \in Users : v # u => account'[v] = account[v]
        /\ Exists(u)'
    BY <2>1 DEF AInv, Typed, Create, Rows, States, Exists, DefaultRole
  <2>4. ASSUME NEW k \in Requests
        PROVE  req'[k] \in InProgress /\ (Carries(req[k]) /\ Reached(req[k]))'
    <3>1. CASE k = r
      <4>1. req'[k] = Idle BY <2>1, <3>1
      <4>2. QED BY <4>1, IdleIsInProgress DEF Idle, Carries, Reached
    <3>2. CASE k # r
      <4>1. req'[k] = Noted(k, u) BY <2>1, <3>2
      <4>2. QED BY <2>2, <2>3, <4>1, NotedKeeps
    <3>3. QED BY <3>1, <3>2
  <2>5. req' \in [Requests -> InProgress] BY <2>1, <2>4
  <2>6. Issued' BY <2>2, <2>3 DEF AInv, Issued, Exists
  <2>7. QED BY <2>2, <2>3, <2>4, <2>5, <2>6 DEF AInv, Typed, Witnessed
<1>4. QED BY <1>1, <1>2, <1>3 DEF handler

LEMMA SetDisabledKeeps ==
  ASSUME AInv, NEW u \in Users, SetDisabled(u)
  PROVE  AInv'
<1> USE AccountsAssumption
<1>1. UNCHANGED <<process, session>> BY DEF SetDisabled
<1>2. account[u] \in Rows BY DEF AInv, Typed
<1>3. /\ account' \in [Users -> Rows]
      /\ \A v \in Users : v # u => account'[v] = account[v]
      /\ account'[u].state # "absent"
      /\ account[u].state # "disabled" => account'[u].state = "disabled"
  BY <1>2 DEF AInv, Typed, SetDisabled, Rows, States, NoAccount
<1>4. ASSUME NEW k \in Requests
      PROVE  req'[k] \in InProgress /\ (Carries(req[k]) /\ Reached(req[k]))'
  <2>1. CASE account[u].state = "disabled"
    <3>1. req'[k] = Noted(k, u) BY <2>1 DEF SetDisabled
    <3>2. Exists(u)' BY <1>3 DEF Exists
    <3>3. QED BY <1>1, <1>3, <3>1, <3>2, NotedKeeps
  <2>2. CASE account[u].state # "disabled"
    <3>1. req'[k] = req[k] BY <2>2 DEF SetDisabled
    <3>2. \A v \in Users : (Enabled(v)' => Enabled(v)) /\ (Exists(v) => Exists(v)')
      BY <1>3, <2>2 DEF Enabled, Exists
    <3>3. req[k] \in InProgress BY DEF AInv, Typed
    <3>4. QED BY <1>1, <3>1, <3>2, <3>3, OthersKeep
  <2>3. QED BY <2>1, <2>2
<1>5. req' \in [Requests -> InProgress] BY <1>4 DEF SetDisabled
<1>6. Issued' BY <1>1, <1>3 DEF AInv, Issued, Exists
<1>7. QED BY <1>1, <1>3, <1>4, <1>5, <1>6 DEF AInv, Typed, Witnessed

\* Sessions end, by themselves and in the database, and none comes back.
LEMMA ExpiryKeeps ==
  ASSUME AInv, (\E s \in Sids : Expires(s)) \/ DeleteExpired
  PROVE  AInv'
<1>1. UNCHANGED <<process, account, req>> BY DEF Expires, DeleteExpired
<1>2. /\ session' \in [Sids -> Logins]
      /\ \A t \in Sids :
           /\ session'[t].user = session[t].user
           /\ session'[t].state = "unused" <=> session[t].state = "unused"
           /\ session'[t].state = "live" => session[t].state = "live"
  <2>1. ASSUME NEW s \in Sids, Expires(s) PROVE <1>2
    BY <2>1 DEF AInv, Typed, Expires, Logins, Known
  <2>2. ASSUME DeleteExpired PROVE <1>2
    BY <2>2 DEF AInv, Typed, DeleteExpired, Logins, Known
  <2>3. QED BY <2>1, <2>2
<1>3. Issued' BY <1>1, <1>2 DEF AInv, Issued, Exists
<1>4. ASSUME NEW k \in Requests PROVE (Carries(req[k]) /\ Reached(req[k]))'
  <2>1. \A u \in Users : (Enabled(u)' => Enabled(u)) /\ (Exists(u) => Exists(u)')
    BY <1>1 DEF Enabled, Exists
  <2>2. QED BY <1>1, <1>2, <2>1, OthersKeep
<1>5. QED BY <1>1, <1>2, <1>3, <1>4 DEF AInv, Typed, Witnessed

LEMMA NextAInv == AInv /\ [Next]_vars => AInv'
<1>1. ASSUME AInv, Next PROVE AInv'
  BY <1>1, BootstrapKeeps, LoginKeeps, RequireAuthKeeps, HandlerKeeps, SetDisabledKeeps,
     ExpiryKeeps DEF Next
<1>2. ASSUME AInv, UNCHANGED vars PROVE AInv'
  BY <1>2 DEF vars, AInv, Typed, Issued, Exists, Witnessed, Carries, Enabled, Reached
<1>3. QED BY <1>1, <1>2

-----------------------------------------------------------------------------
\* Accounts, sessions and requests keep their types; who a request is served for is an
\* account or the API token's principal, never anything else, and whatever role strings
\* clients send, no account is without a role.
THEOREM AccountsTyped == Spec => []TypeOK
<1>1. AInv => TypeOK BY TypedIsTypeOK DEF AInv
<1>2. QED BY <1>1, InitAInv, NextAInv, PTL DEF Spec

\* Whatever happens between the two statements of Resolve (a logout, an expiry, an account
\* disabled and enabled, a second control plane), a request served for a user carries the
\* cookie of that user's session, and session and account were valid since it began.
THEOREM OnlyValidSessionsServed == Spec => []ServedWasValid
<1>1. AInv => ServedWasValid BY DEF AInv, Witnessed, Reached, ServedWasValid
<1>2. QED BY <1>1, InitAInv, NextAInv, PTL DEF Spec
=============================================================================
