------------------------------ MODULE Accounts ------------------------------
(***************************************************************************)
(* User accounts, their instance roles and their sessions: first-run       *)
(* setup, registration, password and SSO sign-in, password change, and the *)
(* administrators' approve, change-role and delete.  The team tables are   *)
(* declared here because creating and deleting an account writes them;     *)
(* their own endpoints are in module Membership.                           *)
(*                                                                         *)
(* Sources: src/auth/{handlers,session,oidc_handlers}.rs,                  *)
(* src/api/{settings,profile}.rs, src/adapters/sqlite/{user,session}.rs,   *)
(* src/domain/user.rs, AdminUsers in src/config.rs.                        *)
(*                                                                         *)
(* What is atomic.  An endpoint authenticates its caller, reads what it    *)
(* wants to check, and then runs one write transaction; what it read stays *)
(* in the request (`req`) while other requests run.  A write transaction   *)
(* (BEGIN IMMEDIATE) or a single statement is one action.  Reads whose     *)
(* result the transaction reads again are merged with the step before.     *)
(*                                                                         *)
(* Abstractions.  Ids are fresh UUIDs: an id is used once, and the e-mail  *)
(* address an id is going to have is the constant EmailOf.  A password     *)
(* hash is the password it verifies.  Sessions of one account that were    *)
(* opened with the same credential are one element of `sessions`.  Teams   *)
(* are managed in the UI and e-mail login is enabled.                      *)
(***************************************************************************)
EXTENDS Integers, FiniteSets

CONSTANTS
    UserIds,       \* UUIDs an account may get
    Emails,        \* e-mail addresses
    EmailOf,       \* the address each account id is created with
    TeamIds,       \* UUIDs a team may get
    Tokens,        \* invite tokens
    Passwords,     \* passwords people choose
    Requests,      \* requests in flight at one time
    AdminUsers,    \* addresses in ADMIN_USERS: effective owners
    OidcEnabled,   \* whether SSO is configured
    Workloads,     \* the endpoints called together ("cancel": clients hang up),
                   \* whether an account SSO provisions awaits approval, and the
                   \* accounts from before SSO or ADMIN_USERS were configured
    None           \* an SQL NULL or a Rust None

ASSUME AccountsAssumption ==
    /\ EmailOf \in [UserIds -> Emails]
    /\ AdminUsers \subseteq Emails
    /\ OidcEnabled \in BOOLEAN
    /\ \A w \in Workloads : w.endpoints \subseteq STRING /\ w.approval \in BOOLEAN
    /\ None \notin UserIds \cup Emails \cup TeamIds \cup Tokens \cup Passwords
    /\ None \notin {"admin", "contributor"}

VARIABLES
    users,      \* table users: id -> row; a row that is not there is NoUser
    sessions,   \* table sessions, each with the password that opened it
    signup,     \* service_settings.allow_signup
    teams,      \* table teams: the ids that exist
    members,    \* table team_members: role of each account in each team
    defaults,   \* table default_teams
    invites,    \* table invites: token -> row
    joined,     \* history: the accounts each invite has admitted
    spent,      \* ids and tokens already generated
    req,        \* what each request in flight holds
    workload    \* what is called

tables == <<users, sessions, signup, teams, members, defaults, invites>>
vars == <<tables, joined, spent, req, workload>>

-----------------------------------------------------------------------------
(* Rows.                                                                   *)

InstanceRoles == {"owner", "manager", "member"}

TeamRoles == {"admin", "contributor"}

User ==
    [role: InstanceRoles, status: {"active", "pending", "absent"},
     provider: {"local", "oidc"}, password: Passwords \cup {None}]

NoUser ==
    [role |-> "member", status |-> "absent", provider |-> "local", password |-> None]

ASSUME WorkloadsAssumption == \A w \in Workloads : w.accounts \in [UserIds -> User]

Session == [user: UserIds, password: Passwords \cup {None}]

Invite ==
    [state: {"absent", "open", "expired", "accepted"}, team: TeamIds \cup {None},
     role: TeamRoles, email: Emails \cup {None}]

NoInvite == [state |-> "absent", team |-> None, role |-> "contributor", email |-> None]

(* Where a request may stand: the endpoints' reads and writes to come.     *)
Steps ==
    {"idle", "setup", "create", "provision", "convert", "session", "join",
     "set_password", "revoke", "approve", "delete", "set_role", "delete_count",
     "role_count", "approve_write", "delete_write", "role_write",
     "create_team", "settings", "signup", "delete_team", "add_member",
     "set_member_role", "remove_member", "invite", "revoke_invite",
     "add_check", "set_check", "remove_check", "add_write", "set_write",
     "remove_write", "invite_write", "revoke_write"}

(* What a request holds: the caller as authenticated, the account, team or *)
(* invite it is about, and what is to be written.                          *)
Request ==
    [pc: Steps, caller: UserIds \cup {None}, rank: InstanceRoles,
     target: UserIds \cup {None}, email: Emails \cup {None},
     role: InstanceRoles, password: Passwords \cup {None},
     team: TeamIds \cup {None}, grant: TeamRoles, token: Tokens \cup {None}]

NoRequest ==
    [pc |-> "idle", caller |-> None, rank |-> "member", target |-> None,
     email |-> None, role |-> "member", password |-> None, team |-> None,
     grant |-> "contributor", token |-> None]

Exists(a) == users[a].status # "absent"

Owners == {a \in UserIds : Exists(a) /\ users[a].role = "owner"}

Admins(t) == {a \in UserIds : members[t][a] = "admin"}

(* AdminUsers::effective_role.                                             *)
Effective(a) == IF EmailOf[a] \in AdminUsers THEN "owner" ELSE users[a].role

CanManageInstance(role) == role \in {"owner", "manager"}

Init ==
    /\ workload \in Workloads
    /\ users = workload.accounts
    /\ sessions = {}
    /\ signup \in BOOLEAN
    /\ teams = {} /\ defaults = {}
    /\ members = [t \in TeamIds |-> [a \in UserIds |-> None]]
    /\ invites = [k \in Tokens |-> NoInvite]
    /\ joined = [k \in Tokens |-> {}]
    /\ spent = {a \in UserIds : Exists(a)}
    /\ req = [r \in Requests |-> NoRequest]

-----------------------------------------------------------------------------
(* Requests: beginning one, moving it to its next step, ending it.         *)

Begin(r, endpoint, held) ==
    /\ endpoint \in workload.endpoints
    /\ req[r] = NoRequest
    /\ req' = [req EXCEPT ![r] = held]

Goto(r, pc) == req' = [req EXCEPT ![r].pc = pc]

Finish(r) == req' = [req EXCEPT ![r] = NoRequest]

(* authenticate_user: a live session of an account that is not pending     *)
(* and, under SSO, is not a local account below owner.                     *)
Authenticated(a) ==
    /\ \E s \in sessions : s.user = a
    /\ users[a].status = "active"
    /\ OidcEnabled => users[a].provider = "oidc" \/ Effective(a) = "owner"

(* The request of an authenticated caller, who is remembered with the      *)
(* effective role of that moment.                                          *)
By(a, pc) == [NoRequest EXCEPT !.pc = pc, !.caller = a, !.rank = Effective(a)]

-----------------------------------------------------------------------------
(* Creating accounts.                                                      *)

EmailTaken(e) == \E a \in UserIds : Exists(a) /\ EmailOf[a] = e

(* POST /auth/setup, up to create_initial_owner.                           *)
Setup(r) ==
    \E e \in Emails, p \in Passwords :
        /\ AdminUsers = {}
        /\ Owners = {}
        /\ Begin(r, "setup", [NoRequest EXCEPT !.pc = "setup", !.email = e,
                                               !.role = "owner", !.password = p])
        /\ UNCHANGED <<tables, joined, spent, workload>>

(* POST /auth/register and create_user, up to the insert.                  *)
Register(r) ==
    \E e \in Emails \ AdminUsers, p \in Passwords :
        /\ ~OidcEnabled
        /\ signup
        /\ ~EmailTaken(e)
        /\ Begin(r, "register", [NoRequest EXCEPT !.pc = "create", !.email = e,
                                                  !.password = p])
        /\ UNCHANGED <<tables, joined, spent, workload>>

(* What create_account's transaction checks: the unique address and, for   *)
(* the initial owner, that there is none yet.                              *)
MayCreate(r) ==
    /\ req[r].pc = "setup" => Owners = {}
    /\ ~EmailTaken(req[r].email)

(* The new row, and where the request goes on: to opening a session, then  *)
(* perhaps to joining a team, or to the end for a pending account.         *)
NewAccount(r) ==
    [role |-> req[r].role, password |-> req[r].password,
     provider |-> IF req[r].pc = "provision" THEN "oidc" ELSE "local",
     status |-> IF req[r].pc = "provision" /\ workload.approval THEN "pending" ELSE "active"]

(* UserRepository::create_account: insert the account and make it a        *)
(* contributor of every default team.                                      *)
CreateAccount(r) ==
    /\ req[r].pc \in {"setup", "create", "provision"}
    /\ MayCreate(r)
    /\ \E a \in UserIds \ spent :
        /\ EmailOf[a] = req[r].email
        /\ users' = [users EXCEPT ![a] = NewAccount(r)]
        /\ members' = [t \in TeamIds |->
              IF t \in defaults THEN [members[t] EXCEPT ![a] = "contributor"]
                                ELSE members[t]]
        /\ spent' = spent \cup {a}
        /\ IF NewAccount(r).status = "pending"
             THEN Finish(r)
             ELSE req' = [req EXCEPT ![r].pc = "session", ![r].target = a]
    /\ UNCHANGED <<sessions, signup, teams, defaults, invites, joined, workload>>

CreateRefused(r) ==
    /\ req[r].pc \in {"setup", "create", "provision"}
    /\ ~MayCreate(r)
    /\ Finish(r)
    /\ UNCHANGED <<tables, joined, spent, workload>>

-----------------------------------------------------------------------------
(* Signing in and out.                                                     *)

(* verify_password: an empty hash verifies nothing.                        *)
Verifies(a, p) == p # None /\ users[a].password = p

(* POST /auth/login: the account and its password, read once.              *)
Login(r) ==
    \E a \in UserIds, p \in Passwords :
        /\ users[a].status = "active"
        /\ Verifies(a, p)
        /\ OidcEnabled => Effective(a) = "owner"
        /\ Begin(r, "login", [NoRequest EXCEPT !.pc = "session", !.target = a,
                                               !.password = p])
        /\ UNCHANGED <<tables, joined, spent, workload>>

(* Fault: a pending account gets a session like any other.                 *)
EvenPending(a) == Exists(a)

(* The account may hold a session.                                         *)
Admitted(a) == users[a].status = "active"

(* GET /auth/oidc/callback with verified claims for an address: find the   *)
(* account or go on to create it, convert a local one, turn the others     *)
(* away.  An owner the environment does not list keeps to its password.    *)
OidcCallback(r) ==
    \E e \in Emails :
        /\ OidcEnabled
        /\ \/ /\ ~EmailTaken(e)
              /\ Begin(r, "oidc", [NoRequest EXCEPT !.pc = "provision", !.email = e])
           \/ \E a \in UserIds :
                /\ Exists(a) /\ EmailOf[a] = e
                /\ users[a].role = "owner" => e \in AdminUsers
                /\ IF users[a].provider = "local" /\ Effective(a) # "owner"
                     THEN Begin(r, "oidc", [NoRequest EXCEPT !.pc = "convert", !.target = a])
                     ELSE /\ Admitted(a)
                          /\ Begin(r, "oidc", [NoRequest EXCEPT !.pc = "session", !.target = a])
        /\ UNCHANGED <<tables, joined, spent, workload>>

(* UserRepository::convert_to_sso: replace the password, drop the sessions *)
(* of the account; refused for a stored owner.  Its status is read back.   *)
ConvertToSso(r) ==
    LET a == req[r].target IN
    /\ req[r].pc = "convert"
    /\ IF Exists(a) /\ users[a].role # "owner"
         THEN /\ users' = [users EXCEPT ![a].provider = "oidc", ![a].password = None]
              /\ sessions' = {s \in sessions : s.user # a}
              /\ IF Admitted(a) THEN Goto(r, "session") ELSE Finish(r)
         ELSE UNCHANGED <<users, sessions>> /\ Finish(r)
    /\ UNCHANGED <<signup, teams, members, defaults, invites, joined, spent, workload>>

(* sessions.user_id REFERENCES users (id).                                 *)
ForeignKey(a) == Exists(a)

(* start_session: the last step of every sign-in, or the last before an    *)
(* invite is accepted.                                                     *)
StartSession(r) ==
    LET a == req[r].target IN
    /\ req[r].pc = "session"
    /\ IF ForeignKey(a)
         THEN /\ sessions' = sessions \cup {[user |-> a, password |-> req[r].password]}
              /\ IF req[r].token = None
                   THEN Finish(r)
                   ELSE req' = [req EXCEPT ![r].pc = "join", ![r].caller = a]
         ELSE UNCHANGED sessions /\ Finish(r)
    /\ UNCHANGED <<users, signup, teams, members, defaults, invites, joined, spent, workload>>

(* Logout, or the 30 days are over.                                        *)
EndSession ==
    \E s \in sessions :
        /\ "logout" \in workload.endpoints
        /\ sessions' = sessions \ {s}
        /\ UNCHANGED <<users, signup, teams, members, defaults, invites, joined, spent, req, workload>>

-----------------------------------------------------------------------------
(* PATCH /profile with a new password: verified against the caller's row   *)
(* as authenticated, then written, then the sessions are dropped.          *)

ChangePassword(r) ==
    \E a \in UserIds, p \in Passwords :
        /\ Authenticated(a)
        /\ users[a].password # None /\ p # users[a].password
        /\ Begin(r, "profile", [By(a, "set_password") EXCEPT !.target = a, !.password = p])
        /\ UNCHANGED <<tables, joined, spent, workload>>

SetPassword(r) ==
    LET a == req[r].target IN
    /\ req[r].pc = "set_password"
    /\ IF Exists(a)
         THEN users' = [users EXCEPT ![a].password = req[r].password] /\ Goto(r, "revoke")
         ELSE UNCHANGED users /\ Finish(r)
    /\ UNCHANGED <<sessions, signup, teams, members, defaults, invites, joined, spent, workload>>

RevokeSessions(r) ==
    /\ req[r].pc = "revoke"
    /\ sessions' = {s \in sessions : s.user # req[r].target}
    /\ Finish(r)
    /\ UNCHANGED <<users, signup, teams, members, defaults, invites, joined, spent, workload>>

-----------------------------------------------------------------------------
(* The administrators' endpoints: authenticate, read the target, perhaps   *)
(* count the owners, write.                                                *)

AdminCall(r) ==
    \E a, u \in UserIds, role \in InstanceRoles, op \in {"approve", "delete", "set_role"} :
        /\ Authenticated(a) /\ CanManageInstance(Effective(a))
        /\ op = "delete" => u # a
        /\ op # "set_role" => role = "member"
        /\ Begin(r, op, [By(a, op) EXCEPT !.target = u, !.role = role])
        /\ UNCHANGED <<tables, joined, spent, workload>>

(* Fault: the checks look at the stored role and miss ADMIN_USERS.         *)
StoredRoleOnly(r) ==
    LET u == req[r].target IN
    /\ Exists(u)
    /\ users[u].role = "owner" => req[r].rank = "owner"
    /\ req[r].pc = "set_role" /\ req[r].role = "owner" => req[r].rank = "owner"

(* approve_user, delete_user and set_user_role, on the target they read.   *)
AdminMay(r) ==
    LET u == req[r].target
        byOwner == req[r].rank = "owner"
    IN  /\ Exists(u)
        /\ req[r].pc \in {"approve", "delete"} /\ Effective(u) = "owner" => byOwner
        /\ req[r].pc = "set_role" =>
              /\ EmailOf[u] \notin AdminUsers
              /\ (users[u].role = "owner" \/ req[r].role = "owner") => byOwner

(* Whether the handler counts the owners before it writes.                 *)
OwnerAtStake(r) ==
    /\ users[req[r].target].role = "owner"
    /\ \/ req[r].pc = "delete"
       \/ req[r].pc = "set_role" /\ req[r].role # "owner"

WriteOf(pc) ==
    CASE pc = "approve" -> "approve_write"
      [] pc \in {"delete", "delete_count"} -> "delete_write"
      [] OTHER -> "role_write"

ReadTarget(r) ==
    /\ req[r].pc \in {"approve", "delete", "set_role"}
    /\ IF ~AdminMay(r) THEN Finish(r)
       ELSE IF OwnerAtStake(r)
              THEN Goto(r, IF req[r].pc = "delete" THEN "delete_count" ELSE "role_count")
              ELSE Goto(r, WriteOf(req[r].pc))
    /\ UNCHANGED <<tables, joined, spent, workload>>

CountOwners(r) ==
    /\ req[r].pc \in {"delete_count", "role_count"}
    /\ IF Cardinality(Owners) <= 1 THEN Finish(r) ELSE Goto(r, WriteOf(req[r].pc))
    /\ UNCHANGED <<tables, joined, spent, workload>>

(* Fault: the update is an upsert.                                         *)
UpsertActive(r) ==
    /\ req[r].pc = "approve_write"
    /\ users' = [users EXCEPT ![req[r].target].status = "active"]
    /\ Finish(r)
    /\ UNCHANGED <<sessions, signup, teams, members, defaults, invites, joined, spent, workload>>

(* UserRepository::update with status = active; no row, no update.         *)
Approve(r) ==
    LET u == req[r].target IN
    /\ req[r].pc = "approve_write"
    /\ users' = IF Exists(u) THEN [users EXCEPT ![u].status = "active"] ELSE users
    /\ Finish(r)
    /\ UNCHANGED <<sessions, signup, teams, members, defaults, invites, joined, spent, workload>>

(* Fault: only the handler's count protects the last owner.                *)
NotRechecked(u) == FALSE

(* The transactions' own guard.                                            *)
LastOwner(u) == Owners = {u}

(* UserRepository::set_instance_role.                                      *)
SetInstanceRole(r) ==
    LET u == req[r].target IN
    /\ req[r].pc = "role_write"
    /\ users' = IF Exists(u) /\ (req[r].role # "owner" => ~LastOwner(u))
                  THEN [users EXCEPT ![u].role = req[r].role]
                  ELSE users
    /\ Finish(r)
    /\ UNCHANGED <<sessions, signup, teams, members, defaults, invites, joined, spent, workload>>

(* Fault: only the handler looks at the other admins.                      *)
NotTheLast(t, u) == FALSE

(* require_another_admin, and the same query in UserRepository::delete.    *)
LastAdmin(t, u) == Admins(t) = {u}

(* UserRepository::delete, with the cascades to sessions and memberships.  *)
DeleteUser(r) ==
    LET u == req[r].target IN
    /\ req[r].pc = "delete_write"
    /\ IF LastOwner(u) \/ \E t \in TeamIds : LastAdmin(t, u)
         THEN UNCHANGED <<users, sessions, members>>
         ELSE /\ users' = [users EXCEPT ![u] = NoUser]
              /\ sessions' = {s \in sessions : s.user # u}
              /\ members' = [t \in TeamIds |-> [members[t] EXCEPT ![u] = None]]
    /\ Finish(r)
    /\ UNCHANGED <<signup, teams, defaults, invites, joined, spent, workload>>

(* The client disconnects, a statement fails or the process dies: what the *)
(* request did stays, what it would have done does not happen.             *)
Cancel(r) ==
    /\ "cancel" \in workload.endpoints
    /\ req[r] # NoRequest
    /\ Finish(r)
    /\ UNCHANGED <<tables, joined, spent, workload>>

AccountStep(r) ==
    \/ Setup(r) \/ Register(r) \/ CreateAccount(r) \/ CreateRefused(r)
    \/ Login(r) \/ OidcCallback(r) \/ ConvertToSso(r) \/ StartSession(r)
    \/ ChangePassword(r) \/ SetPassword(r) \/ RevokeSessions(r)
    \/ AdminCall(r) \/ ReadTarget(r) \/ CountOwners(r)
    \/ Approve(r) \/ SetInstanceRole(r) \/ DeleteUser(r)
    \/ Cancel(r)
=============================================================================
