----------------------------- MODULE Membership -----------------------------
(***************************************************************************)
(* Teams, their members and their invites, composed with the accounts they *)
(* are made of.                                                            *)
(*                                                                         *)
(* Sources: src/api/{teams,invites,settings}.rs, accept_invite in          *)
(* src/auth/handlers.rs, src/auth/invite_token.rs,                         *)
(* src/adapters/sqlite/{team,invite,settings}.rs.                          *)
(*                                                                         *)
(* Projects are another component: that a team still owns some, which      *)
(* refuses its deletion, is a free choice here.  Names never steer control *)
(* and renaming is left out.  An invite that has expired never becomes     *)
(* valid again, so its expiry is a step that changes its state.            *)
(***************************************************************************)
EXTENDS Accounts

-----------------------------------------------------------------------------
(* Teams and settings: instance managers only.                             *)

ManagerCall(r) ==
    \E a \in UserIds, op \in {"create_team", "settings"} :
        /\ Authenticated(a) /\ CanManageInstance(Effective(a))
        /\ Begin(r, op, By(a, op))
        /\ UNCHANGED <<tables, joined, spent, workload>>

DeleteTeamCall(r) ==
    \E a \in UserIds, t \in teams :
        /\ Authenticated(a) /\ CanManageInstance(Effective(a))
        /\ Begin(r, "delete_team", [By(a, "delete_team") EXCEPT !.team = t])
        /\ UNCHANGED <<tables, joined, spent, workload>>

(* A team begins without members.                                          *)
CreateTeam(r) ==
    /\ req[r].pc = "create_team"
    /\ \E t \in TeamIds \ spent : teams' = teams \cup {t} /\ spent' = spent \cup {t}
    /\ Finish(r)
    /\ UNCHANGED <<users, sessions, signup, members, defaults, invites, joined, workload>>

(* TeamRepository::delete, with its cascades; refused while the team owns  *)
(* projects that the call does not move to another team.                   *)
DeleteTeam(r) ==
    LET t == req[r].team IN
    /\ req[r].pc = "delete_team"
    /\ \E ownsProjects \in BOOLEAN :
        IF ownsProjects
          THEN UNCHANGED <<teams, members, defaults, invites>>
          ELSE /\ teams' = teams \ {t}
               /\ defaults' = defaults \ {t}
               /\ members' = [members EXCEPT ![t] = [a \in UserIds |-> None]]
               /\ invites' = [k \in Tokens |->
                     IF invites[k].team = t THEN NoInvite ELSE invites[k]]
    /\ Finish(r)
    /\ UNCHANGED <<users, sessions, signup, joined, spent, workload>>

(* PATCH /settings: the default teams in one transaction that checks them, *)
(* then sign-up.                                                           *)
SetDefaultTeams(r) ==
    /\ req[r].pc = "settings"
    /\ \E ids \in SUBSET TeamIds :
        IF ids \subseteq teams
          THEN defaults' = ids /\ Goto(r, "signup")
          ELSE UNCHANGED defaults /\ Finish(r)
    /\ UNCHANGED <<users, sessions, signup, teams, members, invites, joined, spent, workload>>

SetAllowSignup(r) ==
    /\ req[r].pc = "signup"
    /\ signup' \in BOOLEAN
    /\ Finish(r)
    /\ UNCHANGED <<users, sessions, teams, members, defaults, invites, joined, spent, workload>>

-----------------------------------------------------------------------------
(* The endpoints a team's own admin may call too.                          *)

TeamCall(r) ==
    \E a, u \in UserIds, t \in teams, grant \in TeamRoles,
       op \in {"add_member", "set_member_role", "remove_member"} :
        /\ Authenticated(a)
        /\ op = "remove_member" => grant = "contributor"
        /\ Begin(r, op, [By(a, op) EXCEPT !.team = t, !.target = u, !.grant = grant])
        /\ UNCHANGED <<tables, joined, spent, workload>>

InviteCall(r) ==
    \E a \in UserIds, t \in teams, op \in {"invite", "revoke_invite"} :
        /\ Authenticated(a)
        /\ Begin(r, op, [By(a, op) EXCEPT !.team = t])
        /\ UNCHANGED <<tables, joined, spent, workload>>

(* require_team_manager: the caller as authenticated manages the instance, *)
(* or is an admin of the team now.                                         *)
ManagesTeam(r) ==
    \/ CanManageInstance(req[r].rank)
    \/ members[req[r].team][req[r].caller] = "admin"

Authorized(pc) ==
    CASE pc = "add_member" -> "add_check"
      [] pc = "set_member_role" -> "set_check"
      [] pc = "remove_member" -> "remove_check"
      [] pc = "invite" -> "invite_write"
      [] OTHER -> "revoke_write"

RequireTeamManager(r) ==
    /\ req[r].pc \in {"add_member", "set_member_role", "remove_member",
                      "invite", "revoke_invite"}
    /\ IF ManagesTeam(r) THEN Goto(r, Authorized(req[r].pc)) ELSE Finish(r)
    /\ UNCHANGED <<tables, joined, spent, workload>>

(* What each handler checks on the members it reads: for an addition the   *)
(* team and the account exist; otherwise the change is of a member (for a  *)
(* removal it need not be) and, as read, leaves an admin.                  *)
MembersAllow(r) ==
    LET t == req[r].team
        current == members[t][req[r].target]
        leaves == current = "admin" => Cardinality(Admins(t)) > 1
    IN  CASE req[r].pc = "add_check" -> t \in teams /\ Exists(req[r].target)
          [] req[r].pc = "set_check" ->
                 /\ t \in teams
                 /\ current # None
                 /\ req[r].grant # "admin" => leaves
          [] OTHER -> leaves

Checked(pc) ==
    CASE pc = "add_check" -> "add_write"
      [] pc = "set_check" -> "set_write"
      [] OTHER -> "remove_write"

ReadMembers(r) ==
    /\ req[r].pc \in {"add_check", "set_check", "remove_check"}
    /\ IF MembersAllow(r) THEN Goto(r, Checked(req[r].pc)) ELSE Finish(r)
    /\ UNCHANGED <<tables, joined, spent, workload>>

(* TeamRepository::add_member, set_member_role and remove_member: each     *)
(* looks for another admin in its transaction unless it grants admin.      *)
(* Adding needs both rows (foreign keys), changing needs the membership.   *)
WriteMember(r) ==
    LET t == req[r].team
        u == req[r].target
        pc == req[r].pc
        role == IF pc = "remove_write" THEN None ELSE req[r].grant
    IN  /\ pc \in {"add_write", "set_write", "remove_write"}
        /\ members' =
              IF /\ role # "admin" => ~LastAdmin(t, u)
                 /\ pc = "add_write" => t \in teams /\ Exists(u)
                 /\ pc = "set_write" => members[t][u] # None
              THEN [members EXCEPT ![t][u] = role]
              ELSE members
        /\ Finish(r)
        /\ UNCHANGED <<users, sessions, signup, teams, defaults, invites, joined, spent, workload>>

-----------------------------------------------------------------------------
(* Invites.                                                                *)

(* POST /teams/{id}/invites: both foreign keys must hold at the insert.    *)
CreateInvite(r) ==
    LET t == req[r].team IN
    /\ req[r].pc = "invite_write"
    /\ \/ /\ t \in teams /\ Exists(req[r].caller)
          /\ \E k \in Tokens \ spent, role \in TeamRoles, e \in Emails \cup {None} :
              /\ invites' = [invites EXCEPT ![k] =
                    [state |-> "open", team |-> t, role |-> role, email |-> e]]
              /\ spent' = spent \cup {k}
       \/ /\ ~(t \in teams /\ Exists(req[r].caller))
          /\ UNCHANGED <<invites, spent, workload>>
    /\ Finish(r)
    /\ UNCHANGED <<users, sessions, signup, teams, members, defaults, joined, workload>>

(* DELETE /teams/{id}/invites/{token}: only an invite of this team.        *)
RevokeInvite(r) ==
    /\ req[r].pc = "revoke_write"
    /\ \E k \in Tokens :
        invites' = IF invites[k].team = req[r].team
                     THEN [invites EXCEPT ![k] = NoInvite]
                     ELSE invites
    /\ Finish(r)
    /\ UNCHANGED <<users, sessions, signup, teams, members, defaults, joined, spent, workload>>

(* Time passes expires_at.  A handler's reading of the clock and the check *)
(* it makes with it are one step.                                          *)
InviteExpires(k) ==
    /\ invites[k].state = "open"
    /\ invites' = [invites EXCEPT ![k].state = "expired"]
    /\ UNCHANGED <<users, sessions, signup, teams, members, defaults, joined, spent, req, workload>>

(* load_usable_invite and the recipient check of accept_invite.            *)
Usable(k, e) ==
    /\ invites[k].state = "open"
    /\ invites[k].email \in {None, e}

(* POST /invite/{token} by somebody who is signed in.                      *)
AcceptSignedIn(r) ==
    \E a \in UserIds, k \in Tokens :
        /\ Authenticated(a)
        /\ Usable(k, EmailOf[a])
        /\ Begin(r, "accept", [By(a, "join") EXCEPT !.token = k])
        /\ UNCHANGED <<tables, joined, spent, workload>>

(* The same by somebody who is not: resolve_or_register_invitee verifies   *)
(* the password of the account, or goes on to register one.                *)
AcceptAnonymous(r) ==
    \E e \in Emails, k \in Tokens, p \in Passwords :
        /\ Usable(k, e)
        /\ \/ \E a \in UserIds :
                /\ EmailOf[a] = e /\ users[a].status = "active"
                /\ OidcEnabled => Effective(a) = "owner"
                /\ Verifies(a, p)
                /\ Begin(r, "accept", [NoRequest EXCEPT !.pc = "session", !.target = a,
                                          !.password = p, !.token = k])
           \/ /\ ~EmailTaken(e)
              /\ ~OidcEnabled /\ e \notin AdminUsers
              /\ Begin(r, "accept", [NoRequest EXCEPT !.pc = "create", !.email = e,
                                        !.password = p, !.token = k])
        /\ UNCHANGED <<tables, joined, spent, workload>>

(* Fault: the transaction trusts the check made when the invite was read.  *)
ReadEarlier(k, a) ==
    /\ invites[k].state # "absent"
    /\ invites[k].email \in {None, EmailOf[a]}
    /\ users[a].status = "active"

(* What InviteRepository::accept checks in its transaction.                *)
Acceptable(k, a) ==
    /\ Usable(k, EmailOf[a])
    /\ users[a].status = "active"

(* InviteRepository::accept: an admin of the team stays one.               *)
AcceptInvite(r) ==
    LET k == req[r].token
        a == req[r].caller
        t == invites[k].team
    IN  /\ req[r].pc = "join"
        /\ IF Acceptable(k, a)
             THEN /\ invites' = [invites EXCEPT ![k].state = "accepted"]
                  /\ members' = [members EXCEPT ![t][a] =
                        IF @ = "admin" THEN "admin" ELSE invites[k].role]
                  /\ joined' = [joined EXCEPT ![k] = @ \cup {a}]
             ELSE UNCHANGED <<invites, members, joined>>
        /\ Finish(r)
        /\ UNCHANGED <<users, sessions, signup, teams, defaults, spent, workload>>

-----------------------------------------------------------------------------
TeamStep(r) ==
    \/ ManagerCall(r) \/ DeleteTeamCall(r) \/ CreateTeam(r) \/ DeleteTeam(r)
    \/ SetDefaultTeams(r) \/ SetAllowSignup(r)
    \/ TeamCall(r) \/ InviteCall(r) \/ RequireTeamManager(r) \/ ReadMembers(r)
    \/ WriteMember(r) \/ CreateInvite(r) \/ RevokeInvite(r)
    \/ AcceptSignedIn(r) \/ AcceptAnonymous(r) \/ AcceptInvite(r)

Next ==
    \/ \E r \in Requests : AccountStep(r) \/ TeamStep(r)
    \/ EndSession
    \/ \E k \in Tokens : InviteExpires(k)

Spec == Init /\ [][Next]_vars

-----------------------------------------------------------------------------
(* Properties.                                                             *)

(* The tables and the requests have their types.                           *)
TypeOK ==
    /\ users \in [UserIds -> User]
    /\ sessions \subseteq Session
    /\ signup \in BOOLEAN
    /\ teams \subseteq TeamIds /\ defaults \subseteq TeamIds
    /\ members \in [TeamIds -> [UserIds -> TeamRoles \cup {None}]]
    /\ invites \in [Tokens -> Invite]
    /\ joined \in [Tokens -> SUBSET UserIds]
    /\ spent \subseteq UserIds \cup TeamIds \cup Tokens
    /\ req \in [Requests -> Request]

(* Once there is an owner there is always one: demotions and deletions     *)
(* that race each other never take the last one away.                      *)
OwnerRemains == [][Owners # {} => (Owners # {})']_vars

(* POST /auth/setup makes at most one account: an account that is born     *)
(* owner is born into an instance without one, however many setup requests *)
(* passed the first check together.                                        *)
OneInitialOwner ==
    [][\A a \in UserIds : ~Exists(a) /\ (a \in Owners)' => Owners = {}]_vars

(* A team that has an admin keeps one until it is deleted, whichever of    *)
(* member change, removal, account deletion and invite acceptance race.    *)
TeamKeepsAdmin ==
    [][\A t \in TeamIds : Admins(t) # {} /\ t \in teams' => (Admins(t) # {})']_vars

(* An invite admits one account at most, and only the one it is addressed  *)
(* to, however many people accept it at the same time.                     *)
InviteUsedOnce ==
    \A k \in Tokens :
        /\ \A a, b \in joined[k] : a = b
        /\ invites[k].state = "open" => joined[k] = {}
        /\ \A a \in joined[k] : invites[k].email \in {None, EmailOf[a]}

(* No row refers to one that is gone: sessions and memberships have their  *)
(* account, memberships, invites and default teams their team, whatever    *)
(* was deleted while a request was on its way to write.                    *)
NoDangling ==
    /\ \A s \in sessions : Exists(s.user)
    /\ \A t \in TeamIds, a \in UserIds :
           members[t][a] # None => t \in teams /\ Exists(a)
    /\ \A k \in Tokens : invites[k].state # "absent" => invites[k].team \in teams
    /\ defaults \subseteq teams

(* Deleting an account is final: no request that was already on its way to *)
(* approve it, change its role or its password or convert it brings the    *)
(* row back.                                                               *)
DeletedStaysDeleted ==
    [][\A a \in UserIds : a \in spent /\ ~Exists(a) => ~Exists(a)']_vars

(* An account that awaits approval holds no session.                       *)
PendingHoldsNoSession ==
    \A s \in sessions : users[s.user].status # "pending"

(* An owner by environment is out of reach of everybody below: an account  *)
(* listed in ADMIN_USERS keeps its stored role and is deleted only by a    *)
(* request of an effective owner, even one overtaken by other requests.    *)
ListedAccountsProtected ==
    [][\A a \in UserIds : Exists(a) /\ EmailOf[a] \in AdminUsers =>
           \/ Exists(a)' /\ users'[a].role = users[a].role
           \/ \E r \in Requests :
                  /\ req[r].pc = "delete_write" /\ req'[r].pc = "idle"
                  /\ req[r].target = a /\ req[r].rank = "owner"]_vars

(* What the comment in profile.rs says of a password change: no session    *)
(* survives it.  A session opened with a password that is not the          *)
(* account's any more exists only while the change is still under way.     *)
PasswordChangeEndsSessions ==
    \A s \in sessions :
        \/ s.password \in {None, users[s.user].password}
        \/ \E r \in Requests : req[r].pc = "revoke" /\ req[r].target = s.user
=============================================================================
