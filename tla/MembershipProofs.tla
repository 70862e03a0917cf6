-------------------------- MODULE MembershipProofs --------------------------
(***************************************************************************)
(* The safety properties of Membership, for any number of accounts, teams, *)
(* invites and concurrent requests.                                        *)
(***************************************************************************)
EXTENDS Membership, TLAPS

(* The steps at which a request names an account, a team, an invite.       *)
OnAccount ==
    {"session", "convert", "set_password", "revoke", "approve", "delete", "set_role",
     "delete_count", "role_count", "approve_write", "delete_write", "role_write",
     "add_member", "set_member_role", "remove_member", "add_check", "set_check",
     "remove_check", "add_write", "set_write", "remove_write"}

OnTeam ==
    {"add_member", "set_member_role", "remove_member", "add_check", "set_check",
     "remove_check", "add_write", "set_write", "remove_write", "invite",
     "revoke_invite", "invite_write", "revoke_write", "delete_team"}

(* What the rest of a handler relies on: the request names what it is      *)
(* about; only setup creates an owner; a session is opened for an account  *)
(* that is past approval and whose id was used; and what was checked about *)
(* ADMIN_USERS, which no request can change, still holds at the write.     *)
Held(q) ==
    /\ q.pc \in OnAccount => q.target \in UserIds
    /\ q.pc \in OnTeam => q.team \in TeamIds
    /\ q.pc = "join" => q.caller \in UserIds /\ q.token \in Tokens
    /\ q.pc \in {"create", "provision"} => q.role = "member"
    /\ q.pc = "session" => q.target \in spent /\ users[q.target].status # "pending"
    /\ q.pc \in {"delete_count", "delete_write"} /\ EmailOf[q.target] \in AdminUsers
          => q.rank = "owner"
    /\ q.pc \in {"role_count", "role_write"} => EmailOf[q.target] \notin AdminUsers

InFlight == \A r \in Requests : Held(req[r])

(* An id or a token that was not generated yet names nothing.              *)
Fresh ==
    /\ \A a \in UserIds : Exists(a) => a \in spent
    /\ \A k \in Tokens : invites[k].state # "absent" \/ joined[k] # {} => k \in spent

Inv ==
    /\ TypeOK
    /\ InFlight
    /\ Fresh
    /\ NoDangling
    /\ InviteUsedOnce
    /\ PendingHoldsNoSession

-----------------------------------------------------------------------------
(* Requests.                                                               *)

(* Setting one field of a request.                                         *)
LEMMA GotoIsUpdate ==
    ASSUME NEW r \in Requests, NEW pc, req \in [Requests -> Request], Goto(r, pc)
    PROVE  req' = [req EXCEPT ![r] = [req[r] EXCEPT !.pc = pc]]
BY DEF Goto

(* The empty request has its type and promises nothing.                    *)
LEMMA NoRequestHeld == NoRequest \in Request /\ Held(NoRequest) /\ Held(NoRequest)'
<1>1. NoRequest \in Request
  BY DEF NoRequest, Request, InstanceRoles, TeamRoles, Steps
<1>2. NoRequest.pc = "idle"
  BY DEF NoRequest
<1>3. Held(NoRequest)
  BY <1>2 DEF Held, OnAccount, OnTeam
<1>4. Held(NoRequest)'
  <2>1. (NoRequest.pc = "idle")'
    BY DEF NoRequest
  <2>2. QED
    BY <2>1 DEF Held, OnAccount, OnTeam
<1>5. QED
  BY <1>1, <1>3, <1>4

(* What an authenticated call holds has its type.                          *)
LEMMA ByTyped ==
    ASSUME TypeOK, NEW a \in UserIds, NEW pc \in Steps
    PROVE  /\ By(a, pc) \in Request
           /\ By(a, pc) = [NoRequest EXCEPT !.pc = pc, !.caller = a, !.rank = Effective(a)]
           /\ Effective(a) \in InstanceRoles
<1>1. Effective(a) \in InstanceRoles
  BY DEF TypeOK, User, Effective, InstanceRoles
<1>2. QED
  BY <1>1, NoRequestHeld DEF By, Request

NobodySuspended ==
    \A a \in UserIds :
        a \in spent /\ users[a].status # "pending" => users'[a].status # "pending"

(* What other requests hold stays true as long as ids are only used up and *)
(* nobody's account goes back to pending.                                  *)
LEMMA OthersHold ==
    ASSUME InFlight, spent \subseteq spent',
           NobodySuspended,
           NEW r \in Requests, NEW q, Held(q)',
           req \in [Requests -> Request], req' = [req EXCEPT ![r] = q]
    PROVE  InFlight'
<1>1. SUFFICES ASSUME NEW s \in Requests PROVE Held(req[s])'
  BY DEF InFlight
<1>2. CASE s = r
  <2>1. req'[s] = q
    BY <1>2
  <2>2. QED
    BY <2>1 DEF Held
<1>3. CASE s # r
  <2>1. req'[s] = req[s]
    BY <1>3
  <2>2. Held(req[s])
    BY DEF InFlight
  <2>3. QED
    BY <2>1, <2>2 DEF Held, NobodySuspended, OnAccount
<1>4. QED
  BY <1>2, <1>3
-----------------------------------------------------------------------------
(* Every step of a request leaves it with something it may hold.           *)

Moves(r) == \E q \in Request : Held(q)' /\ req' = [req EXCEPT ![r] = q]

(* A request that ends.                                                    *)
LEMMA FinishMoves == ASSUME NEW r \in Requests, Finish(r) PROVE Moves(r)
BY NoRequestHeld DEF Finish, Moves

(* A request that goes to a step which promises no more than the names it  *)
(* already held.                                                           *)
LEMMA GotoMoves ==
    ASSUME TypeOK, InFlight, NEW r \in Requests, NEW pc \in Steps, Goto(r, pc),
           pc \in OnAccount => req[r].pc \in OnAccount,
           pc \in OnTeam => req[r].pc \in OnTeam,
           pc \notin {"join", "create", "provision", "session"},
           pc \in {"delete_count", "delete_write"} /\ EmailOf[req[r].target] \in AdminUsers
              => req[r].rank = "owner",
           pc \in {"role_count", "role_write"} => EmailOf[req[r].target] \notin AdminUsers
    PROVE  Moves(r)
<1>1. req[r] \in Request /\ Held(req[r])
  BY DEF TypeOK, InFlight
<1>2. PICK q \in Request : q = [req[r] EXCEPT !.pc = pc]
  BY <1>1 DEF Request
<1>3. /\ q.pc = pc /\ q.target = req[r].target /\ q.team = req[r].team
      /\ q.rank = req[r].rank
  BY <1>1, <1>2 DEF Request
<1>4. Held(q)'
  BY <1>1, <1>3 DEF Held
<1>5. req' = [req EXCEPT ![r] = q]
  BY <1>2, GotoIsUpdate DEF TypeOK
<1>6. QED
  BY <1>4, <1>5 DEF Moves

(* Requests of callers who are not signed in.                              *)
LEMMA AnonymousMoves ==
    ASSUME Inv, NEW r \in Requests,
           Setup(r) \/ Register(r) \/ Login(r) \/ OidcCallback(r) \/ AcceptAnonymous(r)
    PROVE  Moves(r)
<1>0. TypeOK /\ Fresh /\ NoRequest \in Request
  BY NoRequestHeld DEF Inv
<1>1. CASE Setup(r)
  <2>1. PICK e \in Emails, p \in Passwords :
          req' = [req EXCEPT ![r] = [NoRequest EXCEPT !.pc = "setup", !.email = e,
                                        !.role = "owner", !.password = p]]
    BY <1>1 DEF Setup, Begin
  <2>2. PICK q \in Request : q = [NoRequest EXCEPT !.pc = "setup", !.email = e,
                                        !.role = "owner", !.password = p]
    BY <1>0 DEF Request, InstanceRoles, Steps
  <2>3. q.pc = "setup"
    BY <2>2, <1>0 DEF Request
  <2>4. QED
    BY <2>1, <2>2, <2>3 DEF Moves, Held, OnAccount, OnTeam
<1>2. CASE Register(r)
  <2>1. PICK e \in Emails, p \in Passwords :
          req' = [req EXCEPT ![r] = [NoRequest EXCEPT !.pc = "create", !.email = e,
                                        !.password = p]]
    BY <1>2 DEF Register, Begin
  <2>2. PICK q \in Request : q = [NoRequest EXCEPT !.pc = "create", !.email = e,
                                        !.password = p]
    BY <1>0 DEF Request, Steps
  <2>3. q.pc = "create" /\ q.role = "member"
    BY <2>2 DEF NoRequest
  <2>4. QED
    BY <2>1, <2>2, <2>3 DEF Moves, Held, OnAccount, OnTeam
<1>3. CASE Login(r)
  <2>1. PICK a \in UserIds, p \in Passwords :
          /\ users[a].status = "active"
          /\ req' = [req EXCEPT ![r] = [NoRequest EXCEPT !.pc = "session", !.target = a,
                                          !.password = p]]
          /\ UNCHANGED <<tables, joined, spent>>
    BY <1>3 DEF Login, Begin
  <2>2. PICK q \in Request : q = [NoRequest EXCEPT !.pc = "session", !.target = a,
                                        !.password = p]
    BY <1>0 DEF Request, Steps
  <2>3. q.pc = "session" /\ q.target = a
    BY <2>2 DEF NoRequest
  <2>4. a \in spent
    BY <1>0, <2>1 DEF Fresh, Exists
  <2>5. spent' = spent /\ users' = users
    BY <2>1 DEF tables
  <2>6. Held(q)'
    BY <2>1, <2>3, <2>4, <2>5 DEF Held, OnAccount, OnTeam
  <2>7. QED
    BY <2>1, <2>2, <2>6 DEF Moves
<1>4. CASE OidcCallback(r)
  <2>0. spent' = spent /\ users' = users
    BY <1>4 DEF OidcCallback, tables
  <2>1. \/ \E e \in Emails : req' = [req EXCEPT ![r] =
                                   [NoRequest EXCEPT !.pc = "provision", !.email = e]]
        \/ \E a \in UserIds : req' = [req EXCEPT ![r] =
                                   [NoRequest EXCEPT !.pc = "convert", !.target = a]]
        \/ \E a \in UserIds : Admitted(a) /\ req' = [req EXCEPT ![r] =
                                   [NoRequest EXCEPT !.pc = "session", !.target = a]]
    BY <1>4 DEF OidcCallback, Begin
  <2>2. ASSUME NEW e \in Emails,
               req' = [req EXCEPT ![r] = [NoRequest EXCEPT !.pc = "provision", !.email = e]]
        PROVE  Moves(r)
    <3>1. PICK q \in Request : q = [NoRequest EXCEPT !.pc = "provision", !.email = e]
      BY <1>0 DEF Request, Steps
    <3>2. q.pc = "provision" /\ q.role = "member"
      BY <3>1 DEF NoRequest
    <3>3. QED
      BY <2>2, <3>1, <3>2 DEF Moves, Held, OnAccount, OnTeam
  <2>3. ASSUME NEW a \in UserIds,
               req' = [req EXCEPT ![r] = [NoRequest EXCEPT !.pc = "convert", !.target = a]]
        PROVE  Moves(r)
    <3>1. PICK q \in Request : q = [NoRequest EXCEPT !.pc = "convert", !.target = a]
      BY <1>0 DEF Request, Steps
    <3>2. q.pc = "convert" /\ q.target = a
      BY <3>1 DEF NoRequest
    <3>3. QED
      BY <2>3, <3>1, <3>2 DEF Moves, Held, OnAccount, OnTeam
  <2>4. ASSUME NEW a \in UserIds, Admitted(a),
               req' = [req EXCEPT ![r] = [NoRequest EXCEPT !.pc = "session", !.target = a]]
        PROVE  Moves(r)
    <3>1. PICK q \in Request : q = [NoRequest EXCEPT !.pc = "session", !.target = a]
      BY <1>0 DEF Request, Steps
    <3>2. q.pc = "session" /\ q.target = a
      BY <3>1 DEF NoRequest
    <3>3. a \in spent /\ users[a].status # "pending"
      BY <1>0, <2>4 DEF Fresh, Exists, Admitted
    <3>4. Held(q)'
      BY <2>0, <3>2, <3>3 DEF Held, OnAccount, OnTeam
    <3>5. QED
      BY <2>4, <3>1, <3>4 DEF Moves
  <2>5. QED
    BY <2>1, <2>2, <2>3, <2>4
<1>5. CASE AcceptAnonymous(r)
  <2>0. spent' = spent /\ users' = users
    BY <1>5 DEF AcceptAnonymous, tables
  <2>1. PICK e \in Emails, k \in Tokens, p \in Passwords :
          \/ \E a \in UserIds :
                /\ users[a].status = "active"
                /\ req' = [req EXCEPT ![r] = [NoRequest EXCEPT !.pc = "session",
                               !.target = a, !.password = p, !.token = k]]
          \/ req' = [req EXCEPT ![r] = [NoRequest EXCEPT !.pc = "create", !.email = e,
                               !.password = p, !.token = k]]
    BY <1>5 DEF AcceptAnonymous, Begin
  <2>2. ASSUME NEW a \in UserIds, users[a].status = "active",
               req' = [req EXCEPT ![r] = [NoRequest EXCEPT !.pc = "session",
                               !.target = a, !.password = p, !.token = k]]
        PROVE  Moves(r)
    <3>1. PICK q \in Request : q = [NoRequest EXCEPT !.pc = "session", !.target = a,
                                        !.password = p, !.token = k]
      BY <1>0 DEF Request, Steps
    <3>2. q.pc = "session" /\ q.target = a
      BY <3>1 DEF NoRequest
    <3>3. a \in spent
      BY <1>0, <2>2 DEF Fresh, Exists
    <3>4. Held(q)'
      BY <2>0, <2>2, <3>2, <3>3 DEF Held, OnAccount, OnTeam
    <3>5. QED
      BY <2>2, <3>1, <3>4 DEF Moves
  <2>3. ASSUME req' = [req EXCEPT ![r] = [NoRequest EXCEPT !.pc = "create", !.email = e,
                               !.password = p, !.token = k]]
        PROVE  Moves(r)
    <3>1. PICK q \in Request : q = [NoRequest EXCEPT !.pc = "create", !.email = e,
                               !.password = p, !.token = k]
      BY <1>0 DEF Request, Steps
    <3>2. q.pc = "create" /\ q.role = "member"
      BY <3>1 DEF NoRequest
    <3>3. QED
      BY <2>3, <3>1, <3>2 DEF Moves, Held, OnAccount, OnTeam
  <2>4. QED
    BY <2>1, <2>2, <2>3
<1>6. QED
  BY <1>1, <1>2, <1>3, <1>4, <1>5

(* Requests of callers who are signed in.                                  *)
LEMMA SignedInMoves ==
    ASSUME Inv, NEW r \in Requests,
           \/ ChangePassword(r) \/ AdminCall(r) \/ ManagerCall(r) \/ DeleteTeamCall(r)
           \/ TeamCall(r) \/ InviteCall(r) \/ AcceptSignedIn(r)
    PROVE  Moves(r)
<1>0. TypeOK /\ NoRequest \in Request
  BY NoRequestHeld DEF Inv
<1>1. CASE ChangePassword(r)
  <2>1. PICK a \in UserIds, p \in Passwords :
          req' = [req EXCEPT ![r] =
                    [By(a, "set_password") EXCEPT !.target = a, !.password = p]]
    BY <1>1 DEF ChangePassword, Begin
  <2>2. By(a, "set_password") \in Request /\ By(a, "set_password").pc = "set_password"
    BY <1>0, ByTyped DEF Steps, By, NoRequest
  <2>3. PICK q \in Request :
          q = [By(a, "set_password") EXCEPT !.target = a, !.password = p]
    BY <2>2 DEF Request
  <2>4. q.pc = "set_password" /\ q.target = a
    BY <2>2, <2>3 DEF Request
  <2>5. QED
    BY <2>1, <2>3, <2>4 DEF Moves, Held, OnAccount, OnTeam
<1>2. CASE AdminCall(r)
  <2>1. PICK a, u \in UserIds, role \in InstanceRoles,
             op \in {"approve", "delete", "set_role"} :
          /\ Authenticated(a) /\ CanManageInstance(Effective(a))
          /\ op = "delete" => u # a
          /\ op # "set_role" => role = "member"
          /\ Begin(r, op, [By(a, op) EXCEPT !.target = u, !.role = role])
          /\ UNCHANGED <<tables, joined, spent>>
    BY <1>2, Zenon DEF AdminCall
  <2>2. By(a, op) \in Request /\ By(a, op).pc = op
    BY <1>0, ByTyped DEF Steps, By, NoRequest
  <2>3. PICK q \in Request : q = [By(a, op) EXCEPT !.target = u, !.role = role]
    BY <2>2 DEF Request
  <2>4. q.pc = op /\ q.target = u
    BY <2>2, <2>3 DEF Request
  <2>5. QED
    BY <2>1, <2>3, <2>4 DEF Moves, Held, OnAccount, OnTeam, Begin
<1>3. CASE ManagerCall(r)
  <2>1. PICK a \in UserIds, op \in {"create_team", "settings"} :
          req' = [req EXCEPT ![r] = By(a, op)]
    BY <1>3 DEF ManagerCall, Begin
  <2>2. By(a, op) \in Request /\ By(a, op).pc = op
    BY <1>0, ByTyped DEF Steps, By, NoRequest
  <2>3. PICK q \in Request : q = By(a, op)
    BY <2>2
  <2>4. QED
    BY <2>1, <2>2, <2>3 DEF Moves, Held, OnAccount, OnTeam
<1>4. CASE DeleteTeamCall(r)
  <2>1. PICK a \in UserIds, t \in teams :
          req' = [req EXCEPT ![r] = [By(a, "delete_team") EXCEPT !.team = t]]
    BY <1>4 DEF DeleteTeamCall, Begin
  <2>2. By(a, "delete_team") \in Request /\ By(a, "delete_team").pc = "delete_team"
    BY <1>0, ByTyped DEF Steps, By, NoRequest
  <2>3. t \in TeamIds
    BY <1>0, <2>1 DEF TypeOK
  <2>4. PICK q \in Request : q = [By(a, "delete_team") EXCEPT !.team = t]
    BY <2>2, <2>3 DEF Request
  <2>5. q.pc = "delete_team" /\ q.team = t
    BY <2>2, <2>4 DEF Request
  <2>6. QED
    BY <2>1, <2>3, <2>4, <2>5 DEF Moves, Held, OnAccount, OnTeam
<1>5. CASE TeamCall(r)
  <2>1. PICK a, u \in UserIds, t \in teams, grant \in TeamRoles,
             op \in {"add_member", "set_member_role", "remove_member"} :
          /\ Authenticated(a)
          /\ op = "remove_member" => grant = "contributor"
          /\ Begin(r, op, [By(a, op) EXCEPT !.team = t, !.target = u, !.grant = grant])
          /\ UNCHANGED <<tables, joined, spent>>
    BY <1>5, Zenon DEF TeamCall
  <2>2. By(a, op) \in Request /\ By(a, op).pc = op
    BY <1>0, ByTyped DEF Steps, By, NoRequest
  <2>3. t \in TeamIds
    BY <1>0, <2>1 DEF TypeOK
  <2>4. PICK q \in Request :
          q = [By(a, op) EXCEPT !.team = t, !.target = u, !.grant = grant]
    BY <2>2, <2>3 DEF Request
  <2>5. q.pc = op /\ q.team = t /\ q.target = u
    BY <2>2, <2>4 DEF Request
  <2>6. QED
    BY <2>1, <2>3, <2>4, <2>5 DEF Moves, Held, OnAccount, OnTeam, Begin
<1>6. CASE InviteCall(r)
  <2>1. PICK a \in UserIds, t \in teams, op \in {"invite", "revoke_invite"} :
          req' = [req EXCEPT ![r] = [By(a, op) EXCEPT !.team = t]]
    BY <1>6 DEF InviteCall, Begin
  <2>2. By(a, op) \in Request /\ By(a, op).pc = op
    BY <1>0, ByTyped DEF Steps, By, NoRequest
  <2>3. t \in TeamIds
    BY <1>0, <2>1 DEF TypeOK
  <2>4. PICK q \in Request : q = [By(a, op) EXCEPT !.team = t]
    BY <2>2, <2>3 DEF Request
  <2>5. q.pc = op /\ q.team = t
    BY <2>2, <2>4 DEF Request
  <2>6. QED
    BY <2>1, <2>3, <2>4, <2>5 DEF Moves, Held, OnAccount, OnTeam
<1>7. CASE AcceptSignedIn(r)
  <2>1. PICK a \in UserIds, k \in Tokens :
          req' = [req EXCEPT ![r] = [By(a, "join") EXCEPT !.token = k]]
    BY <1>7 DEF AcceptSignedIn, Begin
  <2>2. By(a, "join") \in Request /\ By(a, "join").pc = "join" /\ By(a, "join").caller = a
    BY <1>0, ByTyped DEF Steps, By, NoRequest
  <2>3. PICK q \in Request : q = [By(a, "join") EXCEPT !.token = k]
    BY <2>2 DEF Request
  <2>4. q.pc = "join" /\ q.caller = a /\ q.token = k
    BY <2>2, <2>3 DEF Request
  <2>5. QED
    BY <2>1, <2>3, <2>4 DEF Moves, Held, OnAccount, OnTeam
<1>8. QED
  BY <1>1, <1>2, <1>3, <1>4, <1>5, <1>6, <1>7

(* The steps of a request after its first.                                 *)
LEMMA ContinueMoves ==
    ASSUME Inv, NEW r \in Requests,
           \/ CreateAccount(r) \/ ConvertToSso(r) \/ StartSession(r) \/ SetPassword(r)
           \/ ReadTarget(r) \/ CountOwners(r) \/ SetDefaultTeams(r)
           \/ RequireTeamManager(r) \/ ReadMembers(r)
    PROVE  Moves(r)
<1>0. TypeOK /\ InFlight /\ Fresh /\ req[r] \in Request /\ Held(req[r])
  BY DEF Inv, InFlight, TypeOK
<1>1. CASE CreateAccount(r)
  <2>1. PICK a \in UserIds :
          /\ users' = [users EXCEPT ![a] = NewAccount(r)]
          /\ spent' = spent \cup {a}
          /\ \/ Finish(r)
             \/ /\ NewAccount(r).status # "pending"
                /\ req' = [req EXCEPT ![r].pc = "session", ![r].target = a]
    BY <1>1 DEF CreateAccount
  <2>2. CASE Finish(r)
    BY <2>2, FinishMoves
  <2>3. CASE /\ NewAccount(r).status # "pending"
             /\ req' = [req EXCEPT ![r].pc = "session", ![r].target = a]
    <3>1. PICK q \in Request : q = [req[r] EXCEPT !.pc = "session", !.target = a]
      BY <1>0 DEF Request, Steps
    <3>2. q.pc = "session" /\ q.target = a
      BY <1>0, <3>1 DEF Request
    <3>3. users'[a].status # "pending" /\ a \in spent'
      BY <1>0, <2>1, <2>3 DEF TypeOK
    <3>4. Held(q)'
      BY <3>2, <3>3 DEF Held, OnAccount, OnTeam
    <3>5. req' = [req EXCEPT ![r] = q]
      BY <1>0, <2>3, <3>1 DEF TypeOK
    <3>6. QED
      BY <3>4, <3>5 DEF Moves
  <2>4. QED
    BY <2>1, <2>2, <2>3
<1>2. CASE ConvertToSso(r)
  <2>1. CASE Finish(r)
    BY <2>1, FinishMoves
  <2>2. CASE ~Finish(r)
    <3>1. PICK a \in UserIds : a = req[r].target
      BY <1>0, <1>2 DEF ConvertToSso, Held, OnAccount
    <3>2. /\ Exists(a) /\ Admitted(a) /\ Goto(r, "session") /\ spent' = spent
          /\ users' = [users EXCEPT ![a].provider = "oidc", ![a].password = None]
      BY <1>2, <2>2, <3>1 DEF ConvertToSso
    <3>3. users'[a].status = "active" /\ a \in spent'
      BY <1>0, <3>2 DEF TypeOK, User, Fresh, Admitted
    <3>4. PICK q \in Request : q = [req[r] EXCEPT !.pc = "session"]
      BY <1>0 DEF Request, Steps
    <3>5. q.pc = "session" /\ q.target = a
      BY <1>0, <3>1, <3>4 DEF Request
    <3>6. Held(q)'
      BY <3>3, <3>5 DEF Held, OnAccount, OnTeam
    <3>7. req' = [req EXCEPT ![r] = q]
      BY <1>0, <3>2, <3>4, GotoIsUpdate DEF TypeOK
    <3>8. QED
      BY <3>6, <3>7 DEF Moves
  <2>3. QED
    BY <2>1, <2>2
<1>3. CASE StartSession(r)
  <2>1. CASE Finish(r)
    BY <2>1, FinishMoves
  <2>2. CASE ~Finish(r)
    <3>1. PICK a \in UserIds : a = req[r].target
      BY <1>0, <1>3 DEF StartSession, Held, OnAccount
    <3>2. /\ req[r].token # None
          /\ req' = [req EXCEPT ![r].pc = "join", ![r].caller = a]
      BY <1>3, <2>2, <3>1 DEF StartSession
    <3>3. PICK q \in Request : q = [req[r] EXCEPT !.pc = "join", !.caller = a]
      BY <1>0 DEF Request, Steps
    <3>4. q.pc = "join" /\ q.caller = a /\ q.token \in Tokens
      BY <1>0, <3>2, <3>3 DEF Request
    <3>5. Held(q)'
      BY <3>4 DEF Held, OnAccount, OnTeam
    <3>6. req' = [req EXCEPT ![r] = q]
      BY <1>0, <3>2, <3>3 DEF TypeOK
    <3>7. QED
      BY <3>5, <3>6 DEF Moves
  <2>3. QED
    BY <2>1, <2>2
<1>4. CASE SetPassword(r)
  <2>1. Finish(r) \/ (Goto(r, "revoke") /\ req[r].pc \in OnAccount)
    BY <1>4 DEF SetPassword, OnAccount
  <2>2. QED
    BY <1>0, <2>1, FinishMoves, GotoMoves DEF Steps, OnTeam
<1>5. CASE ReadTarget(r)
  <2>1. PICK u \in UserIds : u = req[r].target
    BY <1>0, <1>5 DEF ReadTarget, Held, OnAccount
  <2>2. CASE Finish(r)
    BY <2>2, FinishMoves
  <2>3. CASE ~Finish(r)
    <3>1. AdminMay(r) /\ req[r].pc \in {"approve", "delete", "set_role"}
      BY <1>5, <2>3 DEF ReadTarget
    <3>2. CASE req[r].pc = "approve"
      <4>1. Goto(r, "approve_write")
        BY <1>5, <2>3, <3>2 DEF ReadTarget, OwnerAtStake, WriteOf
      <4>2. QED
        BY <1>0, <3>2, <4>1, GotoMoves DEF Steps, OnAccount, OnTeam
    <3>3. CASE req[r].pc = "delete"
      <4>1. EmailOf[u] \in AdminUsers => req[r].rank = "owner"
        BY <2>1, <3>1, <3>3 DEF AdminMay, Effective
      <4>2. Goto(r, "delete_count") \/ Goto(r, "delete_write")
        BY <1>5, <2>3, <3>3 DEF ReadTarget, WriteOf
      <4>3. QED
        BY <1>0, <2>1, <3>3, <4>1, <4>2, GotoMoves DEF Steps, OnAccount, OnTeam
    <3>4. CASE req[r].pc = "set_role"
      <4>1. EmailOf[u] \notin AdminUsers
        BY <2>1, <3>1, <3>4 DEF AdminMay
      <4>2. Goto(r, "role_count") \/ Goto(r, "role_write")
        BY <1>5, <2>3, <3>4 DEF ReadTarget, WriteOf
      <4>3. QED
        BY <1>0, <2>1, <3>4, <4>1, <4>2, GotoMoves DEF Steps, OnAccount, OnTeam
    <3>5. QED
      BY <3>1, <3>2, <3>3, <3>4
  <2>4. QED
    BY <2>2, <2>3
<1>6. CASE CountOwners(r)
  <2>1. CASE req[r].pc = "delete_count"
    <3>1. Finish(r) \/ Goto(r, "delete_write")
      BY <1>6, <2>1 DEF CountOwners, WriteOf
    <3>2. EmailOf[req[r].target] \in AdminUsers => req[r].rank = "owner"
      BY <1>0, <2>1 DEF Held
    <3>3. QED
      BY <1>0, <2>1, <3>1, <3>2, FinishMoves, GotoMoves DEF Steps, OnAccount, OnTeam
  <2>2. CASE req[r].pc = "role_count"
    <3>1. Finish(r) \/ Goto(r, "role_write")
      BY <1>6, <2>2 DEF CountOwners, WriteOf
    <3>2. EmailOf[req[r].target] \notin AdminUsers
      BY <1>0, <2>2 DEF Held
    <3>3. QED
      BY <1>0, <2>2, <3>1, <3>2, FinishMoves, GotoMoves DEF Steps, OnAccount, OnTeam
  <2>3. QED
    BY <1>6, <2>1, <2>2 DEF CountOwners
<1>7. CASE SetDefaultTeams(r)
  <2>1. Finish(r) \/ Goto(r, "signup")
    BY <1>7 DEF SetDefaultTeams
  <2>2. QED
    BY <1>0, <2>1, FinishMoves, GotoMoves DEF Steps, OnAccount, OnTeam
<1>8. CASE RequireTeamManager(r)
  <2>1. CASE Finish(r)
    BY <2>1, FinishMoves
  <2>2. CASE req[r].pc \in {"add_member", "set_member_role", "remove_member"} /\ ~Finish(r)
    <3>1. PICK pc \in {"add_check", "set_check", "remove_check"} : Goto(r, pc)
      BY <1>8, <2>2 DEF RequireTeamManager, Authorized
    <3>2. QED
      BY <1>0, <2>2, <3>1, GotoMoves DEF Steps, OnAccount, OnTeam
  <2>3. CASE req[r].pc \in {"invite", "revoke_invite"} /\ ~Finish(r)
    <3>1. PICK pc \in {"invite_write", "revoke_write"} : Goto(r, pc)
      BY <1>8, <2>3 DEF RequireTeamManager, Authorized
    <3>2. QED
      BY <1>0, <2>3, <3>1, GotoMoves DEF Steps, OnAccount, OnTeam
  <2>4. QED
    BY <1>8, <2>1, <2>2, <2>3 DEF RequireTeamManager
<1>9. CASE ReadMembers(r)
  <2>1. CASE Finish(r)
    BY <2>1, FinishMoves
  <2>2. CASE ~Finish(r)
    <3>1. PICK pc \in {"add_write", "set_write", "remove_write"} : Goto(r, pc)
      BY <1>9, <2>2 DEF ReadMembers, Checked
    <3>2. req[r].pc \in {"add_check", "set_check", "remove_check"}
      BY <1>9 DEF ReadMembers
    <3>3. QED
      BY <1>0, <3>1, <3>2, GotoMoves DEF Steps, OnAccount, OnTeam
  <2>3. QED
    BY <2>1, <2>2
<1>10. QED
  BY <1>1, <1>2, <1>3, <1>4, <1>5, <1>6, <1>7, <1>8, <1>9

(* So does every step of a request.                                        *)
LEMMA StepMoves ==
    ASSUME Inv, NEW r \in Requests, AccountStep(r) \/ TeamStep(r)
    PROVE  Moves(r)
<1>1. CASE \/ CreateRefused(r) \/ RevokeSessions(r) \/ Approve(r) \/ SetInstanceRole(r)
           \/ DeleteUser(r) \/ Cancel(r)
  BY <1>1, FinishMoves
     DEF CreateRefused, RevokeSessions, Approve, SetInstanceRole, DeleteUser, Cancel
<1>2. CASE \/ CreateTeam(r) \/ DeleteTeam(r) \/ SetAllowSignup(r) \/ WriteMember(r)
           \/ CreateInvite(r) \/ RevokeInvite(r) \/ AcceptInvite(r)
  BY <1>2, FinishMoves
     DEF CreateTeam, DeleteTeam, SetAllowSignup, WriteMember, CreateInvite, RevokeInvite,
         AcceptInvite
<1>3. QED
  BY <1>1, <1>2, AnonymousMoves, SignedInMoves, ContinueMoves DEF AccountStep, TeamStep

-----------------------------------------------------------------------------
(* The tables.                                                             *)

(* The invariant without the requests.                                     *)
Data ==
    /\ users \in [UserIds -> User]
    /\ sessions \subseteq Session
    /\ signup \in BOOLEAN
    /\ teams \subseteq TeamIds /\ defaults \subseteq TeamIds
    /\ members \in [TeamIds -> [UserIds -> TeamRoles \cup {None}]]
    /\ invites \in [Tokens -> Invite]
    /\ joined \in [Tokens -> SUBSET UserIds]
    /\ spent \subseteq UserIds \cup TeamIds \cup Tokens
    /\ Fresh
    /\ NoDangling
    /\ InviteUsedOnce
    /\ PendingHoldsNoSession

Kept == Data' /\ spent \subseteq spent' /\ NobodySuspended

(* The steps that only read.                                               *)
ReadStep(r) ==
    \/ Setup(r) \/ Register(r) \/ CreateRefused(r) \/ Login(r) \/ OidcCallback(r)
    \/ ChangePassword(r) \/ AdminCall(r) \/ ReadTarget(r) \/ CountOwners(r) \/ Cancel(r)
    \/ ManagerCall(r) \/ DeleteTeamCall(r) \/ TeamCall(r) \/ InviteCall(r)
    \/ RequireTeamManager(r) \/ ReadMembers(r) \/ AcceptSignedIn(r) \/ AcceptAnonymous(r)

(* They leave the tables alone.                                            *)
LEMMA ReadsChangeNothing ==
    ASSUME NEW r \in Requests, ReadStep(r)
    PROVE  UNCHANGED <<tables, joined, spent>>
BY DEF ReadStep, Setup, Register, CreateRefused, Login, OidcCallback, ChangePassword,
       AdminCall, ReadTarget, CountOwners, Cancel, ManagerCall, DeleteTeamCall, TeamCall,
       InviteCall, RequireTeamManager, ReadMembers, AcceptSignedIn, AcceptAnonymous

(* Unchanged tables keep everything.                                       *)
LEMMA UnchangedKeeps ==
    ASSUME Data, UNCHANGED <<tables, joined, spent>>
    PROVE  Kept
<1>1. /\ users' = users /\ sessions' = sessions /\ signup' = signup /\ teams' = teams
      /\ members' = members /\ defaults' = defaults /\ invites' = invites
      /\ joined' = joined /\ spent' = spent
  BY DEF tables
<1>2. QED
  BY <1>1 DEF Data, Kept, Fresh, NoDangling, InviteUsedOnce, PendingHoldsNoSession,
              NobodySuspended, Exists

(* Sessions that go away.                                                  *)
LEMMA FewerSessionsKeep ==
    ASSUME Data, sessions' \subseteq sessions,
           UNCHANGED <<users, signup, teams, members, defaults, invites, joined, spent>>
    PROVE  Kept
BY DEF Data, Kept, Fresh, NoDangling, InviteUsedOnce, PendingHoldsNoSession,
       NobodySuspended, Exists

(* A row of users that changes without coming, going or being suspended.   *)
LEMMA UpdateKeeps ==
    ASSUME Data, NEW u \in UserIds, NEW row \in User,
           users' = [users EXCEPT ![u] = row],
           row.status = "absent" <=> users[u].status = "absent",
           row.status = "pending" => users[u].status = "pending",
           sessions' \subseteq sessions,
           UNCHANGED <<signup, teams, members, defaults, invites, joined, spent>>
    PROVE  Kept
<1>1. \A a \in UserIds : /\ Exists(a)' <=> Exists(a)
                         /\ users'[a].status = "pending" => users[a].status = "pending"
  BY DEF Data, Exists
<1>2. users' \in [UserIds -> User]
  BY DEF Data
<1>3. Fresh'
  BY <1>1 DEF Data, Fresh
<1>4. NoDangling'
  BY <1>1 DEF Data, NoDangling, Session
<1>5. PendingHoldsNoSession'
  BY <1>1 DEF Data, PendingHoldsNoSession, Session
<1>6. InviteUsedOnce'
  BY DEF Data, InviteUsedOnce
<1>7. QED
  BY <1>1, <1>2, <1>3, <1>4, <1>5, <1>6 DEF Data, Kept, NobodySuspended

(* A new account: its id was free, so nothing refers to it yet.            *)
LEMMA CreateKeeps ==
    ASSUME Inv, Data, NEW r \in Requests, CreateAccount(r)
    PROVE  Kept
<1>1. PICK a \in UserIds \ spent :
        /\ users' = [users EXCEPT ![a] = NewAccount(r)]
        /\ members' = [t \in TeamIds |->
              IF t \in defaults THEN [members[t] EXCEPT ![a] = "contributor"]
                                ELSE members[t]]
        /\ spent' = spent \cup {a}
  BY DEF CreateAccount
<1>2. UNCHANGED <<sessions, signup, teams, defaults, invites, joined>>
  BY DEF CreateAccount
<1>3. NewAccount(r) \in User /\ NewAccount(r).status # "absent"
  BY DEF NewAccount, User, Inv, TypeOK, Request
<1>4. ~Exists(a)
  BY DEF Data, Fresh
<1>5. \A b \in UserIds : b # a => users'[b] = users[b]
  BY <1>1 DEF Data
<1>6. Exists(a)' /\ \A b \in UserIds : b # a => (Exists(b)' <=> Exists(b))
  BY <1>1, <1>3, <1>5 DEF Data, Exists
<1>7. users' \in [UserIds -> User] /\ spent' \subseteq UserIds \cup TeamIds \cup Tokens
  BY <1>1, <1>3 DEF Data
<1>8. members' \in [TeamIds -> [UserIds -> TeamRoles \cup {None}]]
  BY <1>1 DEF Data, TeamRoles
<1>9. Fresh'
  BY <1>1, <1>2, <1>6 DEF Data, Fresh
<1>10. NoDangling'
  <2>1. \A s \in sessions : s.user \in UserIds /\ Exists(s.user)'
    BY <1>6 DEF Data, NoDangling, Session
  <2>2. \A t \in TeamIds, b \in UserIds :
            members'[t][b] # None => t \in teams /\ Exists(b)'
    <3>1. SUFFICES ASSUME NEW t \in TeamIds, NEW b \in UserIds, members'[t][b] # None
                   PROVE  t \in teams /\ Exists(b)'
      OBVIOUS
    <3>2. CASE b = a
      <4>1. members[t][a] = None
        BY <1>4 DEF Data, NoDangling
      <4>2. t \in defaults
        BY <1>1, <3>1, <3>2, <4>1
      <4>3. QED
        BY <1>6, <3>2, <4>2 DEF Data, NoDangling
    <3>3. CASE b # a
      <4>1. members'[t][b] = members[t][b]
        BY <1>1, <3>3 DEF Data
      <4>2. QED
        BY <1>6, <3>1, <3>3, <4>1 DEF Data, NoDangling
    <3>4. QED
      BY <3>2, <3>3
  <2>3. QED
    BY <1>2, <2>1, <2>2 DEF Data, NoDangling
<1>11. InviteUsedOnce'
  BY <1>2 DEF Data, InviteUsedOnce
<1>12. PendingHoldsNoSession'
  <2>1. \A s \in sessions : s.user \in UserIds /\ s.user # a
    BY <1>4 DEF Data, NoDangling, Session
  <2>2. QED
    BY <1>2, <1>5, <2>1 DEF Data, PendingHoldsNoSession
<1>13. NobodySuspended
  BY <1>5 DEF NobodySuspended
<1>14. QED
  BY <1>1, <1>2, <1>7, <1>8, <1>9, <1>10, <1>11, <1>12, <1>13 DEF Data, Kept

(* A deleted account: the cascades take everything that refers to it.      *)
LEMMA DeleteKeeps ==
    ASSUME Inv, Data, NEW r \in Requests, DeleteUser(r)
    PROVE  Kept
<1>1. PICK u \in UserIds : u = req[r].target
  BY DEF Inv, InFlight, Held, DeleteUser, OnAccount
<1>2. UNCHANGED <<signup, teams, defaults, invites, joined, spent>>
  BY DEF DeleteUser
<1>3. CASE UNCHANGED <<users, sessions, members>>
  BY <1>2, <1>3, UnchangedKeeps DEF tables
<1>4. CASE /\ users' = [users EXCEPT ![u] = NoUser]
           /\ sessions' = {s \in sessions : s.user # u}
           /\ members' = [t \in TeamIds |-> [members[t] EXCEPT ![u] = None]]
  <2>1. NoUser \in User /\ NoUser.status = "absent"
    BY DEF NoUser, User, InstanceRoles
  <2>2. \A b \in UserIds : b # u => users'[b] = users[b]
    BY <1>4 DEF Data
  <2>3. ~Exists(u)' /\ \A b \in UserIds : b # u => (Exists(b)' <=> Exists(b))
    BY <1>4, <2>1, <2>2 DEF Data, Exists
  <2>4. /\ users' \in [UserIds -> User]
        /\ members' \in [TeamIds -> [UserIds -> TeamRoles \cup {None}]]
    BY <1>4, <2>1 DEF Data
  <2>5. Fresh'
    BY <1>2, <2>3 DEF Data, Fresh
  <2>6. \A t \in TeamIds, b \in UserIds :
            members'[t][b] = IF b = u THEN None ELSE members[t][b]
    BY <1>4 DEF Data
  <2>7. NoDangling'
    BY <1>2, <1>4, <2>3, <2>6 DEF Data, NoDangling, Session
  <2>8. InviteUsedOnce'
    BY <1>2 DEF Data, InviteUsedOnce
  <2>9. PendingHoldsNoSession'
    BY <1>4, <2>2 DEF Data, PendingHoldsNoSession, Session
  <2>10. NobodySuspended
    BY <1>4, <2>1, <2>2 DEF NobodySuspended, Data
  <2>11. QED
    BY <1>2, <1>4, <2>4, <2>5, <2>7, <2>8, <2>9, <2>10 DEF Data, Kept
<1>5. QED
  BY <1>1, <1>3, <1>4 DEF DeleteUser

(* The other writes of the account endpoints.                              *)
LEMMA AccountWritesKeep ==
    ASSUME Inv, Data, NEW r \in Requests,
           \/ ConvertToSso(r) \/ StartSession(r) \/ SetPassword(r) \/ RevokeSessions(r)
           \/ Approve(r) \/ SetInstanceRole(r)
    PROVE  Kept
<1>0. req[r] \in Request /\ Held(req[r])
  BY DEF Inv, InFlight, TypeOK
<1>1. CASE ConvertToSso(r)
  <2>1. PICK u \in UserIds : u = req[r].target
    BY <1>0, <1>1 DEF Held, ConvertToSso, OnAccount
  <2>2. CASE UNCHANGED <<users, sessions>>
    BY <1>1, <2>2, UnchangedKeeps DEF tables, ConvertToSso
  <2>3. CASE /\ users' = [users EXCEPT ![u].provider = "oidc", ![u].password = None]
             /\ sessions' = {s \in sessions : s.user # u}
    <3>1. PICK row : row = [users[u] EXCEPT !.provider = "oidc", !.password = None]
      OBVIOUS
    <3>2. row \in User /\ row.status = users[u].status
      BY <3>1 DEF Data, User
    <3>3. users' = [users EXCEPT ![u] = row]
      BY <2>3, <3>1 DEF Data
    <3>4. QED
      BY <1>1, <2>3, <3>2, <3>3, UpdateKeeps DEF ConvertToSso
  <2>4. QED
    BY <1>1, <2>1, <2>2, <2>3 DEF ConvertToSso
<1>2. CASE StartSession(r)
  <2>1. PICK a \in UserIds : a = req[r].target /\ users[a].status # "pending"
    BY <1>0, <1>2 DEF Held, StartSession, OnAccount
  <2>2. UNCHANGED <<users, signup, teams, members, defaults, invites, joined, spent>>
    BY <1>2 DEF StartSession
  <2>3. CASE UNCHANGED sessions
    BY <2>2, <2>3, UnchangedKeeps DEF tables
  <2>4. CASE /\ Exists(a)
             /\ sessions' = sessions \cup {[user |-> a, password |-> req[r].password]}
    <3>1. PICK s \in Session : s = [user |-> a, password |-> req[r].password]
      BY <1>0 DEF Session, Request
    <3>2. s.user = a /\ sessions' = sessions \cup {s}
      BY <2>4, <3>1
    <3>3. NoDangling'
      BY <2>2, <2>4, <3>2 DEF Data, NoDangling, Exists
    <3>4. PendingHoldsNoSession'
      BY <2>1, <2>2, <3>2 DEF Data, PendingHoldsNoSession
    <3>5. Fresh' /\ InviteUsedOnce' /\ NobodySuspended
      BY <2>2 DEF Data, Fresh, InviteUsedOnce, NobodySuspended, Exists
    <3>6. QED
      BY <2>2, <3>2, <3>3, <3>4, <3>5 DEF Data, Kept
  <2>5. QED
    BY <1>2, <2>1, <2>3, <2>4 DEF StartSession, ForeignKey
<1>3. CASE SetPassword(r)
  <2>1. PICK u \in UserIds : u = req[r].target
    BY <1>0, <1>3 DEF Held, SetPassword, OnAccount
  <2>2. CASE UNCHANGED users
    BY <1>3, <2>2, UnchangedKeeps DEF tables, SetPassword
  <2>3. CASE users' = [users EXCEPT ![u].password = req[r].password]
    <3>1. PICK row : row = [users[u] EXCEPT !.password = req[r].password]
      OBVIOUS
    <3>2. row \in User /\ row.status = users[u].status
      BY <1>0, <3>1 DEF Data, User, Request
    <3>3. users' = [users EXCEPT ![u] = row]
      BY <2>3, <3>1 DEF Data
    <3>4. QED
      BY <1>3, <3>2, <3>3, UpdateKeeps DEF SetPassword
  <2>4. QED
    BY <1>3, <2>1, <2>2, <2>3 DEF SetPassword
<1>4. CASE RevokeSessions(r)
  BY <1>4, FewerSessionsKeep DEF RevokeSessions
<1>5. CASE Approve(r)
  <2>1. PICK u \in UserIds : u = req[r].target
    BY <1>0, <1>5 DEF Held, Approve, OnAccount
  <2>2. CASE UNCHANGED users
    BY <1>5, <2>2, UnchangedKeeps DEF tables, Approve
  <2>3. CASE Exists(u) /\ users' = [users EXCEPT ![u].status = "active"]
    <3>1. PICK row : row = [users[u] EXCEPT !.status = "active"]
      OBVIOUS
    <3>2. row \in User /\ row.status = "active"
      BY <3>1 DEF Data, User
    <3>3. users' = [users EXCEPT ![u] = row]
      BY <2>3, <3>1 DEF Data
    <3>4. QED
      BY <1>5, <2>3, <3>2, <3>3, UpdateKeeps DEF Approve, Exists
  <2>4. QED
    BY <1>5, <2>1, <2>2, <2>3 DEF Approve
<1>6. CASE SetInstanceRole(r)
  <2>1. PICK u \in UserIds : u = req[r].target
    BY <1>0, <1>6 DEF Held, SetInstanceRole, OnAccount
  <2>2. CASE UNCHANGED users
    BY <1>6, <2>2, UnchangedKeeps DEF tables, SetInstanceRole
  <2>3. CASE users' = [users EXCEPT ![u].role = req[r].role]
    <3>1. PICK row : row = [users[u] EXCEPT !.role = req[r].role]
      OBVIOUS
    <3>2. row \in User /\ row.status = users[u].status
      BY <1>0, <3>1 DEF Data, User, Request
    <3>3. users' = [users EXCEPT ![u] = row]
      BY <2>3, <3>1 DEF Data
    <3>4. QED
      BY <1>6, <3>2, <3>3, UpdateKeeps DEF SetInstanceRole
  <2>4. QED
    BY <1>6, <2>1, <2>2, <2>3 DEF SetInstanceRole
<1>7. QED
  BY <1>1, <1>2, <1>3, <1>4, <1>5, <1>6

(* The writes of the team and settings endpoints.                          *)
LEMMA TeamWritesKeep ==
    ASSUME Inv, Data, NEW r \in Requests,
           \/ CreateTeam(r) \/ DeleteTeam(r) \/ SetDefaultTeams(r) \/ SetAllowSignup(r)
           \/ WriteMember(r)
    PROVE  Kept
<1>0. req[r] \in Request /\ Held(req[r])
  BY DEF Inv, InFlight, TypeOK
<1>1. CASE CreateTeam(r)
  <2>1. PICK t \in TeamIds : teams' = teams \cup {t} /\ spent' = spent \cup {t}
    BY <1>1 DEF CreateTeam
  <2>2. UNCHANGED <<users, sessions, signup, members, defaults, invites, joined>>
    BY <1>1 DEF CreateTeam
  <2>3. QED
    BY <2>1, <2>2 DEF Data, Kept, Fresh, NoDangling, InviteUsedOnce,
                      PendingHoldsNoSession, NobodySuspended, Exists
<1>2. CASE DeleteTeam(r)
  <2>1. PICK t \in TeamIds : t = req[r].team
    BY <1>0, <1>2 DEF Held, DeleteTeam, OnTeam
  <2>2. UNCHANGED <<users, sessions, signup, joined, spent>>
    BY <1>2 DEF DeleteTeam
  <2>3. CASE UNCHANGED <<teams, members, defaults, invites>>
    BY <2>2, <2>3, UnchangedKeeps DEF tables
  <2>4. CASE /\ teams' = teams \ {t}
             /\ defaults' = defaults \ {t}
             /\ members' = [members EXCEPT ![t] = [a \in UserIds |-> None]]
             /\ invites' = [k \in Tokens |->
                   IF invites[k].team = t THEN NoInvite ELSE invites[k]]
    <3>1. NoInvite \in Invite /\ NoInvite.state = "absent" /\ NoInvite.email = None
      BY DEF NoInvite, Invite, TeamRoles
    <3>2. /\ invites' \in [Tokens -> Invite]
          /\ members' \in [TeamIds -> [UserIds -> TeamRoles \cup {None}]]
      BY <2>4, <3>1 DEF Data
    <3>3. \A k \in Tokens : \/ invites'[k] = invites[k] /\ invites[k].team # t
                            \/ invites'[k] = NoInvite
      BY <2>4
    <3>4. \A s \in TeamIds, a \in UserIds :
              members'[s][a] = IF s = t THEN None ELSE members[s][a]
      BY <2>4 DEF Data
    <3>5. Fresh'
      BY <2>2, <3>1, <3>3 DEF Data, Fresh, Exists
    <3>6. NoDangling'
      BY <2>2, <2>4, <3>1, <3>3, <3>4 DEF Data, NoDangling, Exists
    <3>7. InviteUsedOnce'
      BY <2>2, <3>1, <3>3 DEF Data, InviteUsedOnce
    <3>8. QED
      BY <2>2, <2>4, <3>2, <3>5, <3>6, <3>7
         DEF Data, Kept, PendingHoldsNoSession, NobodySuspended
  <2>5. QED
    BY <1>2, <2>1, <2>3, <2>4 DEF DeleteTeam
<1>3. CASE SetDefaultTeams(r)
  <2>1. defaults' = defaults \/ defaults' \subseteq teams
    BY <1>3 DEF SetDefaultTeams
  <2>2. UNCHANGED <<users, sessions, signup, teams, members, invites, joined, spent>>
    BY <1>3 DEF SetDefaultTeams
  <2>3. QED
    BY <2>1, <2>2 DEF Data, Kept, Fresh, NoDangling, InviteUsedOnce,
                      PendingHoldsNoSession, NobodySuspended, Exists
<1>4. CASE SetAllowSignup(r)
  BY <1>4 DEF SetAllowSignup, Data, Kept, Fresh, NoDangling, InviteUsedOnce,
              PendingHoldsNoSession, NobodySuspended, Exists
<1>5. CASE WriteMember(r)
  <2>1. PICK t \in TeamIds, u \in UserIds : t = req[r].team /\ u = req[r].target
    BY <1>0, <1>5 DEF Held, WriteMember, OnTeam, OnAccount
  <2>2. UNCHANGED <<users, sessions, signup, teams, defaults, invites, joined, spent>>
    BY <1>5 DEF WriteMember
  <2>3. CASE UNCHANGED members
    BY <2>2, <2>3, UnchangedKeeps DEF tables
  <2>4. CASE members' # members
    <3>1. PICK role \in TeamRoles \cup {None} :
            /\ members' = [members EXCEPT ![t][u] = role]
            /\ role # None => \/ t \in teams /\ Exists(u)
                              \/ members[t][u] # None
      BY <1>0, <1>5, <2>1, <2>4 DEF WriteMember, Request
    <3>2. (t \in teams /\ Exists(u)) \/ role = None
      BY <3>1 DEF Data, NoDangling
    <3>3. members' \in [TeamIds -> [UserIds -> TeamRoles \cup {None}]]
      BY <3>1 DEF Data
    <3>4. \A s \in TeamIds, a \in UserIds :
              members'[s][a] = IF s = t /\ a = u THEN role ELSE members[s][a]
      BY <3>1 DEF Data
    <3>5. NoDangling'
      BY <2>2, <3>2, <3>4 DEF Data, NoDangling, Exists
    <3>6. QED
      BY <2>2, <3>3, <3>5 DEF Data, Kept, Fresh, InviteUsedOnce,
                              PendingHoldsNoSession, NobodySuspended, Exists
  <2>5. QED
    BY <2>3, <2>4
<1>6. QED
  BY <1>1, <1>2, <1>3, <1>4, <1>5

(* The writes of the invite endpoints.  Accepting finds the invite open,   *)
(* so nobody has used it; a new token has never been used.                 *)
LEMMA InviteWritesKeep ==
    ASSUME Inv, Data, NEW r \in Requests,
           CreateInvite(r) \/ RevokeInvite(r) \/ AcceptInvite(r)
    PROVE  Kept
<1>0. req[r] \in Request /\ Held(req[r])
  BY DEF Inv, InFlight, TypeOK
<1>1. CASE CreateInvite(r)
  <2>1. UNCHANGED <<users, sessions, signup, teams, members, defaults, joined>>
    BY <1>1 DEF CreateInvite
  <2>2. CASE UNCHANGED <<invites, spent>>
    BY <2>1, <2>2, UnchangedKeeps DEF tables
  <2>3. CASE \E k \in Tokens \ spent, role \in TeamRoles, e \in Emails \cup {None} :
               /\ req[r].team \in teams
               /\ invites' = [invites EXCEPT ![k] =
                     [state |-> "open", team |-> req[r].team, role |-> role, email |-> e]]
               /\ spent' = spent \cup {k}
    <3>1. PICK k \in Tokens \ spent, role \in TeamRoles, e \in Emails \cup {None} :
               /\ req[r].team \in teams
               /\ invites' = [invites EXCEPT ![k] =
                     [state |-> "open", team |-> req[r].team, role |-> role, email |-> e]]
               /\ spent' = spent \cup {k}
      BY <2>3
    <3>2. PICK row \in Invite :
            row = [state |-> "open", team |-> req[r].team, role |-> role, email |-> e]
      BY <3>1 DEF Invite, Data
    <3>3. row.team \in teams /\ invites' = [invites EXCEPT ![k] = row]
      BY <3>1, <3>2
    <3>4. \A j \in Tokens : invites'[j] = IF j = k THEN row ELSE invites[j]
      BY <3>3 DEF Data
    <3>5. joined[k] = {}
      BY DEF Data, Fresh
    <3>6. Fresh'
      BY <2>1, <3>1, <3>4 DEF Data, Fresh, Exists
    <3>7. NoDangling'
      BY <2>1, <3>3, <3>4 DEF Data, NoDangling, Exists
    <3>8. InviteUsedOnce'
      BY <2>1, <3>4, <3>5 DEF Data, InviteUsedOnce
    <3>9. invites' \in [Tokens -> Invite]
      BY <3>3 DEF Data
    <3>10. QED
      BY <2>1, <3>1, <3>6, <3>7, <3>8, <3>9
         DEF Data, Kept, PendingHoldsNoSession, NobodySuspended
  <2>4. QED
    BY <1>1, <2>2, <2>3 DEF CreateInvite
<1>2. CASE RevokeInvite(r)
  <2>1. UNCHANGED <<users, sessions, signup, teams, members, defaults, joined, spent>>
    BY <1>2 DEF RevokeInvite
  <2>2. PICK k \in Tokens : invites' = invites \/ invites' = [invites EXCEPT ![k] = NoInvite]
    BY <1>2 DEF RevokeInvite
  <2>3. NoInvite \in Invite /\ NoInvite.state = "absent" /\ NoInvite.email = None
    BY DEF NoInvite, Invite, TeamRoles
  <2>4. \A j \in Tokens : invites'[j] = invites[j] \/ invites'[j] = NoInvite
    BY <2>2 DEF Data
  <2>5. invites' \in [Tokens -> Invite]
    BY <2>2, <2>3 DEF Data
  <2>6. Fresh' /\ NoDangling'
    BY <2>1, <2>3, <2>4 DEF Data, Fresh, NoDangling, Exists
  <2>7. InviteUsedOnce'
    BY <2>1, <2>3, <2>4 DEF Data, InviteUsedOnce
  <2>8. QED
    BY <2>1, <2>5, <2>6, <2>7 DEF Data, Kept, PendingHoldsNoSession, NobodySuspended
<1>3. CASE AcceptInvite(r)
  <2>1. PICK k \in Tokens, a \in UserIds : k = req[r].token /\ a = req[r].caller
    BY <1>0, <1>3 DEF Held, AcceptInvite
  <2>2. UNCHANGED <<users, sessions, signup, teams, defaults, spent>>
    BY <1>3 DEF AcceptInvite
  <2>3. CASE UNCHANGED <<invites, members, joined>>
    BY <2>2, <2>3, UnchangedKeeps DEF tables
  <2>4. CASE Acceptable(k, a) /\ ~UNCHANGED <<invites, members, joined>>
    <3>1. PICK t : t = invites[k].team
      OBVIOUS
    <3>2. /\ invites[k].state = "open" /\ invites[k].email \in {None, EmailOf[a]}
          /\ Exists(a)
      BY <2>4 DEF Acceptable, Usable, Exists
    <3>3. t \in teams /\ t \in TeamIds
      BY <3>1, <3>2 DEF Data, NoDangling
    <3>4. PICK role \in TeamRoles :
            /\ invites' = [invites EXCEPT ![k].state = "accepted"]
            /\ members' = [members EXCEPT ![t][a] = role]
            /\ joined' = [joined EXCEPT ![k] = @ \cup {a}]
      <4>1. invites[k].role \in TeamRoles /\ "admin" \in TeamRoles
        BY DEF Data, Invite, TeamRoles
      <4>2. /\ invites' = [invites EXCEPT ![k].state = "accepted"]
            /\ members' = [members EXCEPT ![t][a] =
                  IF @ = "admin" THEN "admin" ELSE invites[k].role]
            /\ joined' = [joined EXCEPT ![k] = @ \cup {a}]
        BY <1>3, <2>1, <2>4, <3>1 DEF AcceptInvite
      <4>3. CASE members[t][a] = "admin"
        BY <4>1, <4>2, <4>3, <3>3 DEF Data
      <4>4. CASE members[t][a] # "admin"
        BY <4>1, <4>2, <4>4, <3>3 DEF Data
      <4>5. QED
        BY <4>3, <4>4
    <3>5. joined[k] = {} /\ k \in spent
      BY <3>2 DEF Data, InviteUsedOnce, Fresh
    <3>6. \A j \in Tokens : joined'[j] = IF j = k THEN {a} ELSE joined[j]
      BY <3>4, <3>5 DEF Data
    <3>7. \A j \in Tokens : /\ invites'[j].email = invites[j].email
                            /\ invites'[j].team = invites[j].team
                            /\ j # k => invites'[j] = invites[j]
      BY <3>4 DEF Data, Invite
    <3>8. invites'[k].state = "accepted" /\ invites' \in [Tokens -> Invite]
      BY <3>4 DEF Data, Invite
    <3>9. /\ members' \in [TeamIds -> [UserIds -> TeamRoles \cup {None}]]
          /\ joined' \in [Tokens -> SUBSET UserIds]
      BY <3>3, <3>4, <3>6 DEF Data
    <3>10. \A s \in TeamIds, b \in UserIds :
              members'[s][b] = IF s = t /\ b = a THEN role ELSE members[s][b]
      BY <3>3, <3>4 DEF Data
    <3>11. Fresh'
      BY <2>2, <3>5, <3>6, <3>7 DEF Data, Fresh, Exists
    <3>12. NoDangling'
      <4>1. \A j \in Tokens : invites'[j].state # "absent" => invites[j].state # "absent"
        BY <3>2, <3>7
      <4>2. QED
        BY <2>2, <3>2, <3>3, <3>7, <3>10, <4>1 DEF Data, NoDangling, Exists
    <3>13. InviteUsedOnce'
      BY <3>2, <3>6, <3>7, <3>8 DEF Data, InviteUsedOnce
    <3>14. QED
      BY <2>2, <3>8, <3>9, <3>11, <3>12, <3>13
         DEF Data, Kept, PendingHoldsNoSession, NobodySuspended
  <2>5. QED
    BY <1>3, <2>1, <2>3, <2>4 DEF AcceptInvite
<1>4. QED
  BY <1>1, <1>2, <1>3

-----------------------------------------------------------------------------
(* The invariant.                                                          *)

(* It is the tables' part and the requests' part.                          *)
LEMMA InvParts == Inv <=> Data /\ req \in [Requests -> Request] /\ InFlight
BY DEF Inv, Data, TypeOK

(* It holds of a database with nothing but accounts.                       *)
LEMMA InvInit == Init => Inv
<1>1. SUFFICES ASSUME Init PROVE Inv
  OBVIOUS
<1>2. users \in [UserIds -> User]
  BY <1>1, WorkloadsAssumption DEF Init
<1>3. NoInvite \in Invite /\ NoInvite.state = "absent"
  BY DEF NoInvite, Invite, TeamRoles
<1>4. Data
  BY <1>1, <1>2, <1>3 DEF Init, Data, Fresh, NoDangling, InviteUsedOnce,
                          PendingHoldsNoSession, Exists
<1>5. req \in [Requests -> Request] /\ InFlight
  BY <1>1, NoRequestHeld DEF Init, InFlight
<1>6. QED
  BY <1>4, <1>5, InvParts

(* Every step of a request keeps the tables' part.                         *)
LEMMA StepKeeps ==
    ASSUME Inv, NEW r \in Requests, AccountStep(r) \/ TeamStep(r)
    PROVE  Kept
<1>1. Data
  BY InvParts
<1>2. CASE ReadStep(r)
  BY <1>1, <1>2, ReadsChangeNothing, UnchangedKeeps
<1>3. CASE ~ReadStep(r)
  BY <1>1, <1>3, CreateKeeps, DeleteKeeps, AccountWritesKeep, TeamWritesKeep,
     InviteWritesKeep DEF AccountStep, TeamStep, ReadStep
<1>4. QED
  BY <1>2, <1>3

(* So does the end of a session or of an invite, which leaves the requests *)
(* alone.                                                                  *)
LEMMA ExpiryKeeps ==
    ASSUME Data, EndSession \/ \E k \in Tokens : InviteExpires(k)
    PROVE  Kept /\ req' = req
<1>1. CASE EndSession
  <2>1. /\ sessions' \subseteq sessions
        /\ UNCHANGED <<users, signup, teams, members, defaults, invites, joined, spent, req>>
    BY <1>1 DEF EndSession
  <2>2. QED
    BY <2>1, FewerSessionsKeep
<1>2. CASE \E k \in Tokens : InviteExpires(k)
  <2>1. PICK k \in Tokens :
          /\ invites[k].state = "open"
          /\ invites' = [invites EXCEPT ![k].state = "expired"]
          /\ UNCHANGED <<users, sessions, signup, teams, members, defaults, joined, spent, req>>
    BY <1>2 DEF InviteExpires
  <2>2. invites' \in [Tokens -> Invite] /\ invites'[k].state = "expired"
    BY <2>1 DEF Data, Invite
  <2>3. \A j \in Tokens : /\ invites'[j].email = invites[j].email
                          /\ invites'[j].team = invites[j].team
                          /\ invites'[j].state # "absent" => invites[j].state # "absent"
                          /\ invites'[j].state = "open" => invites[j].state = "open"
    BY <2>1, <2>2 DEF Data, Invite
  <2>4. Fresh' /\ NoDangling' /\ InviteUsedOnce'
    BY <2>1, <2>3 DEF Data, Fresh, NoDangling, InviteUsedOnce, Exists
  <2>5. QED
    BY <2>1, <2>2, <2>4 DEF Data, Kept, PendingHoldsNoSession, NobodySuspended
<1>3. QED
  BY <1>1, <1>2

(* It is inductive.                                                        *)
LEMMA InvStep == ASSUME Inv, [Next]_vars PROVE Inv'
<1>0. Data /\ req \in [Requests -> Request] /\ InFlight
  BY InvParts
<1>1. ASSUME NEW r \in Requests, AccountStep(r) \/ TeamStep(r)
      PROVE  Inv'
  <2>1. Kept
    BY <1>1, StepKeeps
  <2>2. PICK q \in Request : Held(q)' /\ req' = [req EXCEPT ![r] = q]
    BY <1>1, StepMoves DEF Moves
  <2>3. InFlight'
    BY <1>0, <2>1, <2>2, OthersHold DEF Kept
  <2>4. req' \in [Requests -> Request]
    BY <1>0, <2>2
  <2>5. QED
    BY <2>1, <2>3, <2>4 DEF Kept, Inv, Data, TypeOK
<1>2. CASE EndSession \/ \E k \in Tokens : InviteExpires(k)
  <2>1. Kept /\ req' = req
    BY <1>0, <1>2, ExpiryKeeps
  <2>2. InFlight'
    BY <1>0, <2>1 DEF Kept, InFlight, Held, NobodySuspended, OnAccount
  <2>3. QED
    BY <1>0, <2>1, <2>2 DEF Kept, Inv, Data, TypeOK
<1>3. CASE UNCHANGED vars
  <2>1. Kept /\ req' = req
    BY <1>0, <1>3, UnchangedKeeps DEF vars
  <2>2. InFlight'
    BY <1>0, <2>1 DEF Kept, InFlight, Held, NobodySuspended, OnAccount
  <2>3. QED
    BY <1>0, <2>1, <2>2 DEF Kept, Inv, Data, TypeOK
<1>4. QED
  BY <1>1, <1>2, <1>3 DEF Next

(* The invariant holds throughout, whatever requests overlap and whichever *)
(* are cancelled.                                                          *)
THEOREM AccountsInvariant == Spec => []Inv
BY InvInit, InvStep, PTL DEF Spec

(* The tables and the requests keep their types.                           *)
THEOREM MembershipTypeCorrect == Spec => []TypeOK
<1>1. Inv => TypeOK
  BY DEF Inv
<1>2. QED
  BY <1>1, AccountsInvariant, PTL

(* No row refers to a deleted account or team, whatever was in flight when *)
(* it was deleted.                                                         *)
THEOREM NothingDangles == Spec => []NoDangling
<1>1. Inv => NoDangling
  BY DEF Inv
<1>2. QED
  BY <1>1, AccountsInvariant, PTL

(* An invite admits at most one account, the one it is addressed to.       *)
THEOREM InvitesAdmitOnce == Spec => []InviteUsedOnce
<1>1. Inv => InviteUsedOnce
  BY DEF Inv
<1>2. QED
  BY <1>1, AccountsInvariant, PTL

(* An account that awaits approval holds no session.                       *)
THEOREM NoSessionBeforeApproval == Spec => []PendingHoldsNoSession
<1>1. Inv => PendingHoldsNoSession
  BY DEF Inv
<1>2. QED
  BY <1>1, AccountsInvariant, PTL

-----------------------------------------------------------------------------
(* Who may come, go and change rank.                                       *)

RolesKept ==
    \A a \in UserIds :
        /\ users'[a].role = users[a].role
        /\ users'[a].status = "absent" <=> users[a].status = "absent"

(* Only three transactions add an account, remove one or change its role.  *)
LEMMA RolesWritten ==
    ASSUME Inv, [Next]_vars
    PROVE  \/ RolesKept
           \/ \E r \in Requests : CreateAccount(r) \/ SetInstanceRole(r) \/ DeleteUser(r)
<1>1. CASE users' = users
  BY <1>1 DEF RolesKept
<1>2. ASSUME NEW r \in Requests, ConvertToSso(r) \/ SetPassword(r) \/ Approve(r)
      PROVE  RolesKept
  <2>1. PICK u \in UserIds : u = req[r].target
    BY <1>2 DEF Inv, InFlight, Held, ConvertToSso, SetPassword, Approve, OnAccount
  <2>2. users \in [UserIds -> User]
    BY DEF Inv, TypeOK
  <2>3. CASE ConvertToSso(r)
    BY <2>1, <2>2, <2>3 DEF ConvertToSso, RolesKept, User
  <2>4. CASE SetPassword(r)
    BY <2>1, <2>2, <2>4 DEF SetPassword, RolesKept, User
  <2>5. CASE Approve(r)
    BY <2>1, <2>2, <2>5 DEF Approve, RolesKept, User, Exists
  <2>6. QED
    BY <1>2, <2>3, <2>4, <2>5
<1>3. ASSUME NEW r \in Requests, AccountStep(r) \/ TeamStep(r)
      PROVE  \/ users' = users
             \/ ConvertToSso(r) \/ SetPassword(r) \/ Approve(r)
             \/ CreateAccount(r) \/ SetInstanceRole(r) \/ DeleteUser(r)
  <2>1. CASE ReadStep(r)
    BY <2>1, ReadsChangeNothing DEF tables
  <2>2. CASE \/ StartSession(r) \/ RevokeSessions(r) \/ CreateTeam(r) \/ DeleteTeam(r)
             \/ SetDefaultTeams(r) \/ SetAllowSignup(r) \/ WriteMember(r)
             \/ CreateInvite(r) \/ RevokeInvite(r) \/ AcceptInvite(r)
    BY <2>2 DEF StartSession, RevokeSessions, CreateTeam, DeleteTeam, SetDefaultTeams,
                SetAllowSignup, WriteMember, CreateInvite, RevokeInvite, AcceptInvite
  <2>3. QED
    BY <1>3, <2>1, <2>2 DEF AccountStep, TeamStep, ReadStep
<1>4. CASE \/ EndSession \/ UNCHANGED vars
           \/ \E k \in Tokens : InviteExpires(k)
  BY <1>1, <1>4 DEF EndSession, InviteExpires, vars, tables
<1>5. QED
  BY <1>1, <1>2, <1>3, <1>4 DEF Next

(* What each of the three does to the rows.                                *)
LEMMA Created ==
    ASSUME Inv, NEW r \in Requests, CreateAccount(r)
    PROVE  \E a \in UserIds :
              /\ a \notin spent /\ ~Exists(a) /\ Exists(a)'
              /\ (a \in Owners)' => Owners = {}
              /\ \A b \in UserIds : b # a => users'[b] = users[b]
<1>1. PICK a \in UserIds \ spent : users' = [users EXCEPT ![a] = NewAccount(r)]
  BY DEF CreateAccount
<1>2. users \in [UserIds -> User] /\ req[r] \in Request /\ Held(req[r])
  BY DEF Inv, TypeOK, InFlight
<1>3. users'[a] = NewAccount(r) /\ \A b \in UserIds : b # a => users'[b] = users[b]
  BY <1>1, <1>2
<1>4. NewAccount(r).status # "absent" /\ NewAccount(r).role = req[r].role
  BY DEF NewAccount
<1>5. req[r].role = "owner" => Owners = {}
  BY <1>2 DEF Held, CreateAccount, MayCreate
<1>6. ~Exists(a)
  BY DEF Inv, Fresh
<1>7. QED
  BY <1>3, <1>4, <1>5, <1>6 DEF Exists, Owners

LEMMA RoleSet ==
    ASSUME Inv, NEW r \in Requests, SetInstanceRole(r)
    PROVE  \/ users' = users
           \/ \E u \in UserIds :
                 /\ EmailOf[u] \notin AdminUsers
                 /\ Exists(u) /\ Exists(u)'
                 /\ users'[u].role = "owner" \/ Owners # {u}
                 /\ \A b \in UserIds : b # u => users'[b] = users[b]
<1>1. PICK u \in UserIds : u = req[r].target /\ EmailOf[u] \notin AdminUsers
  BY DEF Inv, InFlight, Held, SetInstanceRole, OnAccount
<1>2. users \in [UserIds -> User]
  BY DEF Inv, TypeOK
<1>3. CASE /\ Exists(u) /\ (req[r].role # "owner" => ~LastOwner(u))
           /\ users' = [users EXCEPT ![u].role = req[r].role]
  <2>1. /\ users'[u].role = req[r].role /\ users'[u].status = users[u].status
        /\ \A b \in UserIds : b # u => users'[b] = users[b]
    BY <1>2, <1>3 DEF User
  <2>2. QED
    BY <1>1, <1>3, <2>1 DEF Exists, LastOwner
<1>4. QED
  BY <1>1, <1>3 DEF SetInstanceRole

LEMMA Deleted ==
    ASSUME Inv, NEW r \in Requests, DeleteUser(r)
    PROVE  \/ users' = users
           \/ \E u \in UserIds :
                 /\ u = req[r].target /\ req[r].pc = "delete_write"
                 /\ req'[r].pc = "idle"
                 /\ EmailOf[u] \in AdminUsers => req[r].rank = "owner"
                 /\ Owners # {u} /\ ~Exists(u)'
                 /\ \A b \in UserIds : b # u => users'[b] = users[b]
<1>1. PICK u \in UserIds : u = req[r].target
  BY DEF Inv, InFlight, Held, DeleteUser, OnAccount
<1>2. users \in [UserIds -> User] /\ req \in [Requests -> Request] /\ Held(req[r])
  BY DEF Inv, TypeOK, InFlight
<1>3. CASE users' # users
  <2>1. ~LastOwner(u) /\ users' = [users EXCEPT ![u] = NoUser]
    BY <1>1, <1>3 DEF DeleteUser
  <2>2. users'[u].status = "absent" /\ \A b \in UserIds : b # u => users'[b] = users[b]
    BY <1>2, <2>1 DEF NoUser
  <2>3. req'[r].pc = "idle"
    BY <1>2 DEF DeleteUser, Finish, NoRequest
  <2>4. EmailOf[u] \in AdminUsers => req[r].rank = "owner"
    BY <1>1, <1>2 DEF Held, DeleteUser
  <2>5. QED
    BY <1>1, <2>1, <2>2, <2>3, <2>4 DEF DeleteUser, LastOwner, Exists
<1>4. QED
  BY <1>3

(* Whichever demotions and deletions race, the last owner stays: each      *)
(* transaction looks at the owners again.                                  *)
THEOREM LastOwnerStays == Spec => OwnerRemains
<1>1. ASSUME Inv, [Next]_vars
      PROVE  Owners # {} => (Owners # {})'
  <2>1. CASE RolesKept \/ users' = users
    BY <2>1 DEF RolesKept, Owners, Exists
  <2>2. ASSUME NEW r \in Requests, CreateAccount(r)
        PROVE  Owners # {} => (Owners # {})'
    BY <1>1, <2>2, Created DEF Owners, Exists
  <2>3. ASSUME NEW r \in Requests, SetInstanceRole(r)
        PROVE  Owners # {} => (Owners # {})'
    BY <1>1, <2>1, <2>3, RoleSet DEF Owners, Exists
  <2>4. ASSUME NEW r \in Requests, DeleteUser(r)
        PROVE  Owners # {} => (Owners # {})'
    BY <1>1, <2>1, <2>4, Deleted DEF Owners, Exists
  <2>5. QED
    BY <1>1, <2>1, <2>2, <2>3, <2>4, RolesWritten
<1>2. QED
  BY <1>1, AccountsInvariant, PTL DEF Spec, OwnerRemains

(* However many setup requests passed the first check, one makes an owner. *)
THEOREM SetupMakesOneOwner == Spec => OneInitialOwner
<1>1. ASSUME Inv, [Next]_vars
      PROVE  \A a \in UserIds : ~Exists(a) /\ (a \in Owners)' => Owners = {}
  <2>1. CASE RolesKept \/ users' = users
    BY <2>1 DEF RolesKept, Owners, Exists
  <2>2. ASSUME NEW r \in Requests, CreateAccount(r)
        PROVE  \A a \in UserIds : ~Exists(a) /\ (a \in Owners)' => Owners = {}
    BY <1>1, <2>2, Created DEF Owners, Exists
  <2>3. ASSUME NEW r \in Requests, SetInstanceRole(r)
        PROVE  \A a \in UserIds : ~Exists(a) /\ (a \in Owners)' => Owners = {}
    BY <1>1, <2>1, <2>3, RoleSet DEF Owners, Exists
  <2>4. ASSUME NEW r \in Requests, DeleteUser(r)
        PROVE  \A a \in UserIds : ~Exists(a) /\ (a \in Owners)' => Owners = {}
    BY <1>1, <2>1, <2>4, Deleted DEF Owners, Exists
  <2>5. QED
    BY <1>1, <2>1, <2>2, <2>3, <2>4, RolesWritten
<1>2. QED
  BY <1>1, AccountsInvariant, PTL DEF Spec, OneInitialOwner

(* No request in flight brings a deleted account back.                     *)
THEOREM NoResurrection == Spec => DeletedStaysDeleted
<1>1. ASSUME Inv, [Next]_vars
      PROVE  \A a \in UserIds : a \in spent /\ ~Exists(a) => ~Exists(a)'
  <2>1. CASE RolesKept \/ users' = users
    BY <2>1 DEF RolesKept, Exists
  <2>2. ASSUME NEW r \in Requests, CreateAccount(r)
        PROVE  \A a \in UserIds : a \in spent /\ ~Exists(a) => ~Exists(a)'
    BY <1>1, <2>2, Created DEF Exists
  <2>3. ASSUME NEW r \in Requests, SetInstanceRole(r)
        PROVE  \A a \in UserIds : a \in spent /\ ~Exists(a) => ~Exists(a)'
    BY <1>1, <2>1, <2>3, RoleSet DEF Exists
  <2>4. ASSUME NEW r \in Requests, DeleteUser(r)
        PROVE  \A a \in UserIds : a \in spent /\ ~Exists(a) => ~Exists(a)'
    BY <1>1, <2>1, <2>4, Deleted DEF Exists
  <2>5. QED
    BY <1>1, <2>1, <2>2, <2>3, <2>4, RolesWritten
<1>2. QED
  BY <1>1, AccountsInvariant, PTL DEF Spec, DeletedStaysDeleted

(* An owner by environment is deleted by an owner only, and keeps its role *)
(* until then.                                                             *)
THEOREM EnvironmentOwnersSafe == Spec => ListedAccountsProtected
<1> DEFINE Safe(a) ==
        \/ Exists(a)' /\ users'[a].role = users[a].role
        \/ \E r \in Requests :
               /\ req[r].pc = "delete_write" /\ req'[r].pc = "idle"
               /\ req[r].target = a /\ req[r].rank = "owner"
<1>1. ASSUME Inv, [Next]_vars, NEW a \in UserIds, Exists(a), EmailOf[a] \in AdminUsers
      PROVE  Safe(a)
  <2>1. CASE RolesKept \/ users' = users
    BY <1>1, <2>1 DEF RolesKept, Exists
  <2>2. ASSUME NEW r \in Requests, CreateAccount(r)
        PROVE  Safe(a)
    BY <1>1, <2>2, Created DEF Exists
  <2>3. ASSUME NEW r \in Requests, SetInstanceRole(r)
        PROVE  Safe(a)
    BY <1>1, <2>1, <2>3, RoleSet DEF Exists
  <2>4. ASSUME NEW r \in Requests, DeleteUser(r)
        PROVE  Safe(a)
    BY <1>1, <2>1, <2>4, Deleted DEF Exists
  <2>5. QED
    BY <1>1, <2>1, <2>2, <2>3, <2>4, RolesWritten
<1>2. ASSUME Inv, [Next]_vars
      PROVE  \A a \in UserIds : Exists(a) /\ EmailOf[a] \in AdminUsers => Safe(a)
  BY <1>1, <1>2
<1>3. QED
  BY <1>2, AccountsInvariant, PTL DEF Spec, ListedAccountsProtected

-----------------------------------------------------------------------------
(* The admins of a team.                                                   *)

(* Every transaction that writes memberships leaves a team that stays with *)
(* an admin if it had one.                                                 *)
LEMMA AdminLeft ==
    ASSUME Inv, NEW r \in Requests, NEW t \in TeamIds, t \in teams',
           NEW b \in UserIds, members[t][b] = "admin",
           \/ CreateAccount(r) \/ DeleteUser(r) \/ DeleteTeam(r) \/ WriteMember(r)
           \/ AcceptInvite(r)
    PROVE  \E a \in UserIds : members'[t][a] = "admin"
<1>0. /\ req[r] \in Request /\ Held(req[r]) /\ None # "admin"
      /\ members \in [TeamIds -> [UserIds -> TeamRoles \cup {None}]]
      /\ Data
  BY AccountsAssumption, InvParts DEF Inv, TypeOK, InFlight
<1>1. CASE CreateAccount(r)
  <2>1. PICK a \in UserIds \ spent :
          members' = [s \in TeamIds |->
              IF s \in defaults THEN [members[s] EXCEPT ![a] = "contributor"]
                                ELSE members[s]]
    BY <1>1 DEF CreateAccount
  <2>2. b # a
    BY <1>0 DEF Data, Fresh, NoDangling
  <2>3. members'[t][b] = members[t][b]
    BY <1>0, <2>1, <2>2
  <2>4. QED
    BY <2>3
<1>2. CASE DeleteUser(r)
  <2>1. PICK u \in UserIds : u = req[r].target
    BY <1>0, <1>2 DEF Held, DeleteUser, OnAccount
  <2>2. CASE members' = members
    BY <2>2
  <2>3. CASE /\ ~LastAdmin(t, u)
             /\ members' = [s \in TeamIds |-> [members[s] EXCEPT ![u] = None]]
    <3>1. PICK a \in UserIds : a # u /\ members[t][a] = "admin"
      BY <2>3 DEF LastAdmin, Admins
    <3>2. QED
      BY <1>0, <2>3, <3>1
  <2>4. QED
    BY <1>2, <2>1, <2>2, <2>3 DEF DeleteUser
<1>3. CASE DeleteTeam(r)
  <2>1. members' = members \/ req[r].team # t
    BY <1>3 DEF DeleteTeam
  <2>2. members'[t] = members[t]
    BY <1>0, <1>3, <2>1 DEF DeleteTeam
  <2>3. QED
    BY <2>2
<1>4. CASE WriteMember(r)
  <2>1. PICK s \in TeamIds, u \in UserIds : s = req[r].team /\ u = req[r].target
    BY <1>0, <1>4 DEF Held, WriteMember, OnTeam, OnAccount
  <2>2. CASE members' = members
    BY <2>2
  <2>3. CASE members' # members
    <3>1. PICK role \in TeamRoles \cup {None} :
            /\ role # "admin" => ~LastAdmin(s, u)
            /\ members' = [members EXCEPT ![s][u] = role]
      BY <1>0, <1>4, <2>1, <2>3 DEF WriteMember, Request
    <3>2. \A v \in TeamIds, a \in UserIds :
              members'[v][a] = IF v = s /\ a = u THEN role ELSE members[v][a]
      BY <1>0, <3>1
    <3>3. CASE s = t /\ role # "admin"
      <4>1. PICK a \in UserIds : a # u /\ members[t][a] = "admin"
        BY <3>1, <3>3 DEF LastAdmin, Admins
      <4>2. QED
        BY <3>2, <4>1
    <3>4. QED
      BY <3>2, <3>3
  <2>4. QED
    BY <2>2, <2>3
<1>5. CASE AcceptInvite(r)
  <2>1. PICK a \in UserIds : a = req[r].caller
    BY <1>0, <1>5 DEF Held, AcceptInvite
  <2>2. CASE members' = members
    BY <2>2
  <2>3. CASE members' = [members EXCEPT ![invites[req[r].token].team][a] =
                  IF @ = "admin" THEN "admin" ELSE invites[req[r].token].role]
    <3>1. members'[t][b] = "admin"
      BY <1>0, <2>3
    <3>2. QED
      BY <3>1
  <2>4. QED
    BY <1>5, <2>1, <2>2, <2>3 DEF AcceptInvite
<1>6. QED
  BY <1>1, <1>2, <1>3, <1>4, <1>5

(* A team that has an admin keeps one, whichever changes of members,       *)
(* deletions of accounts and acceptances of invites race.                  *)
THEOREM TeamsKeepAdmins == Spec => TeamKeepsAdmin
<1>1. ASSUME Inv, [Next]_vars, NEW t \in TeamIds, Admins(t) # {}, t \in teams'
      PROVE  (Admins(t) # {})'
  <2>1. PICK b \in UserIds : members[t][b] = "admin"
    BY <1>1 DEF Admins
  <2>2. CASE members' = members
    BY <2>1, <2>2 DEF Admins
  <2>3. ASSUME NEW r \in Requests,
               \/ CreateAccount(r) \/ DeleteUser(r) \/ DeleteTeam(r) \/ WriteMember(r)
               \/ AcceptInvite(r)
        PROVE  (Admins(t) # {})'
    <3>1. \E a \in UserIds : members'[t][a] = "admin"
      BY <1>1, <2>1, <2>3, AdminLeft
    <3>2. QED
      BY <3>1 DEF Admins
  <2>4. ASSUME NEW r \in Requests, AccountStep(r) \/ TeamStep(r)
        PROVE  \/ members' = members
               \/ CreateAccount(r) \/ DeleteUser(r) \/ DeleteTeam(r) \/ WriteMember(r)
               \/ AcceptInvite(r)
    <3>1. CASE ReadStep(r)
      BY <3>1, ReadsChangeNothing DEF tables
    <3>2. CASE \/ ConvertToSso(r) \/ StartSession(r) \/ SetPassword(r)
               \/ RevokeSessions(r) \/ Approve(r) \/ SetInstanceRole(r)
               \/ CreateTeam(r) \/ SetDefaultTeams(r) \/ SetAllowSignup(r)
               \/ CreateInvite(r) \/ RevokeInvite(r)
      BY <3>2 DEF ConvertToSso, StartSession, SetPassword, RevokeSessions, Approve,
                  SetInstanceRole, CreateTeam, SetDefaultTeams, SetAllowSignup,
                  CreateInvite, RevokeInvite
    <3>3. QED
      BY <2>4, <3>1, <3>2 DEF AccountStep, TeamStep, ReadStep
  <2>5. CASE \/ EndSession \/ UNCHANGED vars
             \/ \E k \in Tokens : InviteExpires(k)
    BY <2>2, <2>5 DEF EndSession, InviteExpires, vars, tables
  <2>6. QED
    BY <1>1, <2>2, <2>3, <2>4, <2>5 DEF Next
<1>2. ASSUME Inv, [Next]_vars
      PROVE  \A t \in TeamIds : Admins(t) # {} /\ t \in teams' => (Admins(t) # {})'
  BY <1>1, <1>2
<1>3. QED
  BY <1>2, AccountsInvariant, PTL DEF Spec, TeamKeepsAdmin
=============================================================================
