------------------------------ MODULE Projects ------------------------------
(***************************************************************************)
(* Projects, their DSN keys, tag-mute rules and favorites: the handlers of *)
(* api/projects.rs and api/mute_rules.rs over the SQLite repositories.     *)
(* Every await of a handler is a step of its request, so that the rights   *)
(* and the row it read may be stale when it writes.  Who belongs to which  *)
(* team is changed by the requests of Membership; here each of those is    *)
(* one step of the environment.                                            *)
(***************************************************************************)
EXTENDS FiniteSets, Naturals

CONSTANTS ProjectIds, Slugs, Keys, Teams, Users, Rules, Requests,
          Managers,     \* the users whose instance role manages the instance
          Workloads     \* the kinds of clients a behaviour may be about

ASSUME ManagersAssumption == Managers \subseteq Users
\* There is a project of some team to begin with; "none" is no key and no team.
ASSUME ProjectsAssumption == /\ ProjectIds # {} /\ Keys # {} /\ Teams # {} /\ Slugs # {}
                             /\ "none" \notin Keys \cup Teams

VARIABLES teams,      \* team_members: the role of each user in each team
          projects,   \* projects
          spent,      \* ids and keys handed out: fresh ones are never reused
          favorites,  \* project_favorites
          rules,      \* tag_mute_rules: the project each rule belongs to
          req,        \* the requests in flight
          workload    \* the operations called, and the settings of the process

tables == <<teams, projects, spent, favorites, rules>>
pvars == <<tables, req, workload>>

None == "none"
Roles == {"admin", "contributor"}
NoTeam == [exists |-> FALSE, role |-> [u \in Users |-> None]]
Project == [team: Teams, slug: Slugs, key: Keys, muted: BOOLEAN,
            webhook: BOOLEAN, orphaned: BOOLEAN]
NoProject == [key |-> None]

\* A partial update: a new team, flags set or cleared, "keep" what is absent.
Keep == "keep"
Flags == {Keep, "set", "clear"}
Patch == [team: Teams \cup {Keep}, muted: Flags, webhook: Flags]
NoPatch == [team |-> Keep, muted |-> Keep, webhook |-> Keep]

ForAdmins == {"update", "mute", "regenerate", "delete"}
ForMembers == {"view", "favorite", "add_rule", "drop_rule"}
UiOnly == {"create", "update", "move", "delete"}
Ops == ForAdmins \cup ForMembers \cup {"create", "move"}

Request == [pc: {"resolve", "team", "role", "target", "state", "write"},
            op: Ops, user: Users, slug: Slugs, project: ProjectIds \cup {None},
            seen: BOOLEAN, team: Teams \cup {None}, body: Patch,
            wanted: Flags]
Idle == [pc |-> "idle"]

Exists(p) == projects[p] # NoProject
Live == {p \in ProjectIds : Exists(p)}
OwnedBy(t) == {p \in Live : projects[p].team = t}

-----------------------------------------------------------------------------
(* Who may do what.                                                        *)

\* resolve_role: a manager is admin everywhere, others by their team role.
resolve_role(user, role) ==
  IF user \in Managers THEN "admin"
  ELSE IF role = "contributor" THEN "member" ELSE role

member_role(t, u) == teams[t].role[u]

\* effective_role of u on project p, read at one moment.
effective_role(u, p) ==
  resolve_role(u, IF Exists(p) THEN member_role(projects[p].team, u) ELSE None)

\* Fault: the join asks for the admins of the team.
ListedToAdmins(u) ==
  {p \in Live : u \in Managers \/ member_role(projects[p].team, u) = "admin"}
\* The projects list and overviews show to u: all, or those of u's teams.
Visible(u) ==
  {p \in Live : u \in Managers \/ member_role(projects[p].team, u) # None}

-----------------------------------------------------------------------------
(* The requests.                                                           *)

Step(r, next) == req' = [req EXCEPT ![r] = next] /\ UNCHANGED tables

Reply(r) == req' = [req EXCEPT ![r] = Idle]

\* An answer that changes nothing: a refusal, an error or what was read.
Answer(r) == Reply(r) /\ UNCHANGED tables

\* What the body of an operation may ask for.
Bodies(op) ==
  CASE op = "update" -> {b \in Patch : /\ b.team = Keep
                                       /\ (b.muted = Keep) # (b.webhook = Keep)}
    [] op \in {"create", "move"} -> {[NoPatch EXCEPT !.team = t] : t \in Teams}
    [] OTHER -> {NoPatch}

Begin(r, u, op) ==
  /\ req[r] = Idle
  /\ r \in workload.requests /\ op \in workload.ops
  /\ op \in UiOnly => workload.ui                 \* require_ui_management
  /\ \E slug \in Slugs, body \in Bodies(op), wanted \in Flags :
       /\ op \notin {"mute", "favorite"} => wanted = Keep
       /\ op # "create" => slug \in {projects[p].slug : p \in Live}   \* a link shown
       /\ req' = [req EXCEPT ![r] =
            [pc |-> IF op = "create" THEN "role" ELSE "resolve", op |-> op,
             user |-> u, slug |-> slug, project |-> None, seen |-> FALSE,
             team |-> IF op = "create" THEN body.team ELSE None,
             body |-> body, wanted |-> wanted]]
  /\ UNCHANGED tables

Toggled(current) == IF current THEN "clear" ELSE "set"

\* What follows the authorization: reads answer, mute and favorite without a
\* wanted state flip the one that was, or is next, read.
Proceed(r) ==
  LET flip == req[r].wanted = Keep
  IN  CASE req[r].op = "view" -> Answer(r)
        [] req[r].op = "favorite" /\ flip -> Step(r, [req[r] EXCEPT !.pc = "state"])
        [] req[r].op = "mute" /\ flip ->
             Step(r, [req[r] EXCEPT !.pc = "write", !.wanted = Toggled(req[r].seen)])
        [] OTHER -> Step(r, [req[r] EXCEPT !.pc = "write"])

\* resolve_project: by slug; the flag of the row is what mute flips.
Resolve(r) ==
  /\ req[r].pc = "resolve"
  /\ LET found == {p \in Live : projects[p].slug = req[r].slug}
     IN  \/ found = {} /\ Answer(r)
         \/ \E p \in found :
              LET pc == IF req[r].op = "move" THEN "target" ELSE "team"
              IN  IF pc = "target" /\ req[r].user \notin Managers THEN Answer(r)
                  ELSE Step(r, [req[r] EXCEPT !.pc = pc, !.project = p,
                                              !.seen = projects[p].muted])

\* effective_role reads the owning team unless the caller manages the instance.
ReadTeam(r) ==
  /\ req[r].pc = "team"
  /\ CASE req[r].user \in Managers -> Proceed(r)
       [] req[r].user \notin Managers /\ ~Exists(req[r].project) -> Answer(r)
       [] OTHER -> Step(r, [req[r] EXCEPT !.pc = "role",
                                          !.team = projects[req[r].project].team])

\* Whether a role lets the operation through: require_admin or require_member.
Permits(op, role) == IF op \in ForMembers THEN role # None ELSE role = "admin"

\* ... and then the role in that team; create reads it for the target team.
ReadRole(r) ==
  /\ req[r].pc = "role"
  /\ LET role == resolve_role(req[r].user, member_role(req[r].team, req[r].user))
     IN  IF Permits(req[r].op, role) THEN Proceed(r) ELSE Answer(r)

\* change_team looks the target team up before it writes.
FindTarget(r) ==
  /\ req[r].pc = "target"
  /\ IF teams[req[r].body.team].exists THEN Proceed(r) ELSE Answer(r)

\* favorite reads the list of the caller's favorites to flip it.
ReadFavorites(r) ==
  /\ req[r].pc = "state"
  /\ Step(r, [req[r] EXCEPT !.pc = "write",
                !.wanted = Toggled(<<req[r].user, req[r].project>> \in favorites)])

-----------------------------------------------------------------------------
(* The writes: one statement each, so one step.                            *)

Coalesce(new, old) == IF new = Keep THEN old ELSE new
Flag(new, old) == IF new = Keep THEN old ELSE new = "set"

\* Fault: the update writes the columns back as the handler read them.
WholeRow(r, row, body) ==
  [row EXCEPT !.team = IF req[r].team \in {t \in Teams : teams[t].exists} THEN req[r].team
                       ELSE Coalesce(body.team, @),
              !.muted = Flag(body.muted, @),
              !.webhook = Flag(body.webhook, @)]
\* UPDATE projects SET column = COALESCE(?, column): absent fields stay.
Updated(r, row, body) ==
  [row EXCEPT !.team = Coalesce(body.team, @),
              !.muted = Flag(body.muted, @),
              !.webhook = Flag(body.webhook, @)]

\* INSERT INTO projects: the team must exist, slug and key be free.
Create(r) ==
  /\ req[r].pc = "write" /\ req[r].op = "create"
  /\ \E p \in ProjectIds \ spent, key \in Keys \ spent, webhook \in BOOLEAN :
       IF ~teams[req[r].team].exists \/ \E q \in Live : projects[q].slug = req[r].slug
       THEN UNCHANGED tables
       ELSE /\ projects' = [projects EXCEPT ![p] =
                 [team |-> req[r].team, slug |-> req[r].slug, key |-> key,
                  muted |-> FALSE, webhook |-> webhook, orphaned |-> FALSE]]
            /\ spent' = spent \cup {p, key}
            /\ UNCHANGED <<teams, favorites, rules>>
  /\ Reply(r)

\* The update of PATCH, mute and change_team; not found when the row is gone.
Update(r) ==
  /\ req[r].pc = "write" /\ req[r].op \in {"update", "mute", "move"}
  /\ LET p == req[r].project
         body == IF req[r].op = "mute" THEN [req[r].body EXCEPT !.muted = req[r].wanted]
                 ELSE req[r].body
     IN  projects' = IF Exists(p) /\ (body.team = Keep \/ teams[body.team].exists)
                     THEN [projects EXCEPT ![p] = Updated(r, @, body)]
                     ELSE projects
  /\ Reply(r)
  /\ UNCHANGED <<teams, spent, favorites, rules>>

Regenerate(r) ==
  /\ req[r].pc = "write" /\ req[r].op = "regenerate"
  /\ \E key \in Keys \ spent :
       IF Exists(req[r].project)
       THEN /\ projects' = [projects EXCEPT ![req[r].project].key = key]
            /\ spent' = spent \cup {key}
       ELSE UNCHANGED <<projects, spent>>
  /\ Reply(r)
  /\ UNCHANGED <<teams, favorites, rules>>

\* DELETE FROM projects: rules and favorites go with the row.
Delete(r) ==
  /\ req[r].pc = "write" /\ req[r].op = "delete"
  /\ projects' = [projects EXCEPT ![req[r].project] = NoProject]
  /\ favorites' = {f \in favorites : f[2] # req[r].project}
  /\ rules' = [k \in Rules |-> IF rules[k] = req[r].project THEN None ELSE rules[k]]
  /\ Reply(r)
  /\ UNCHANGED <<teams, spent>>

\* Fault: the tables refer to projects without a foreign key.
AnyProject(p) == TRUE
\* Rows that refer to a project are refused once it is gone.
ForeignKey(p) == Exists(p)

SetFavorite(r) ==
  /\ req[r].pc = "write" /\ req[r].op = "favorite"
  /\ LET f == <<req[r].user, req[r].project>>
     IN  favorites' = IF req[r].wanted = "clear" THEN favorites \ {f}
                      ELSE IF ForeignKey(f[2]) THEN favorites \cup {f} ELSE favorites
  /\ Reply(r)
  /\ UNCHANGED <<teams, projects, spent, rules>>

\* A rule gets a fresh id; delete is scoped to the project of the path.
WriteRule(r) ==
  /\ req[r].pc = "write" /\ req[r].op \in {"add_rule", "drop_rule"}
  /\ \E k \in Rules :
       IF req[r].op = "add_rule"
       THEN /\ k \notin spent
            /\ rules' = IF ForeignKey(req[r].project)
                        THEN [rules EXCEPT ![k] = req[r].project] ELSE rules
            /\ spent' = spent \cup {k}
       ELSE /\ rules' = IF rules[k] = req[r].project
                        THEN [rules EXCEPT ![k] = None] ELSE rules
            /\ UNCHANGED spent
  /\ Reply(r)
  /\ UNCHANGED <<teams, projects, favorites>>

-----------------------------------------------------------------------------
(* The environment: what the requests of Membership do to teams.           *)

SetMember(t, u, role) ==
  /\ "members" \in workload.ops
  /\ teams[t].exists /\ u \notin Managers
  /\ teams' = [teams EXCEPT ![t].role[u] = role]
  /\ UNCHANGED <<projects, spent, favorites, rules, req>>

\* DELETE /teams/{id}: one transaction.  With ?move_projects_to= the projects of
\* the team go to the target, without it a team that owns projects stays.
DeleteTeam(t, target) ==
  /\ "members" \in workload.ops
  /\ teams[t].exists
  /\ IF target = None THEN OwnedBy(t) = {}
     ELSE workload.ui /\ target # t /\ teams[target].exists
  /\ projects' = [p \in ProjectIds |-> IF p \in OwnedBy(t) THEN [projects[p] EXCEPT !.team = target]
                                       ELSE projects[p]]
  /\ teams' = [teams EXCEPT ![t] = NoTeam]
  /\ UNCHANGED <<spent, favorites, rules, req>>

-----------------------------------------------------------------------------

InitProjects ==
  /\ workload \in Workloads
  \* One project of one team to begin with, the users in any role there; its
  \* id, key and slug are immaterial.
  /\ LET p == CHOOSE id \in ProjectIds : TRUE
         k == CHOOSE key \in Keys : TRUE
         t == CHOOSE team \in Teams : TRUE
     IN  /\ \E role \in [Users -> Roles \cup {None}] :
              /\ \A u \in Managers : role[u] = "contributor"
              /\ teams = [x \in Teams |-> [exists |-> TRUE, role |->
                            IF x = t THEN role ELSE NoTeam.role]]
         /\ \E orphaned \in BOOLEAN :
              /\ orphaned => ~workload.ui
              /\ projects = [q \in ProjectIds |-> IF q # p THEN NoProject ELSE
                    [team |-> t, slug |-> CHOOSE s \in Slugs : TRUE, key |-> k,
                     muted |-> FALSE, webhook |-> TRUE, orphaned |-> orphaned]]
         /\ spent = {p, k}
  /\ favorites = {}
  /\ rules = [k \in Rules |-> None]
  /\ req = [r \in Requests |-> Idle]

HandlerStep(r) ==
  \/ \E u \in Users, op \in Ops : Begin(r, u, op)
  \/ Resolve(r) \/ ReadTeam(r) \/ ReadRole(r) \/ FindTarget(r) \/ ReadFavorites(r)
  \/ Create(r) \/ Update(r) \/ Regenerate(r) \/ Delete(r)
  \/ SetFavorite(r) \/ WriteRule(r)

TeamsChange ==
  \E t \in Teams :
    \/ \E u \in Users, role \in Roles \cup {None} : SetMember(t, u, role)
    \/ \E target \in Teams \cup {None} : DeleteTeam(t, target)

ProjectsNext == UNCHANGED workload /\ (TeamsChange \/ \E r \in Requests : HandlerStep(r))

=============================================================================
