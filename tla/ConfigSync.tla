----------------------------- MODULE ConfigSync -----------------------------
(***************************************************************************)
(* Declarative management: at every start the server brings the database  *)
(* in line with its environment and a YAML file before it serves requests. *)
(* Sources: config_sync.rs (synchronize), domain/config_file.rs (parse,    *)
(* validate_plan), adapters/config_sync.rs (apply_once, reconcile_user).   *)
(*                                                                         *)
(* What is atomic.  apply_once and reconcile_user_grants are transactions; *)
(* the settings taken from the environment are written one by one before   *)
(* and after apply.  Each of these is an action, and the process may die   *)
(* between any two and start again with another file or environment.       *)
(* While it serves, users sign in, and what is not managed by the file is  *)
(* edited in the UI (how those requests interleave: Projects, Membership). *)
(*                                                                         *)
(* Abstractions.  A team is its name, a project its slug (both unique);    *)
(* the DSN key of a project is the number of keys drawn for the slug.      *)
(* Name, retention, webhook and alert fields of a project are one value.   *)
(* The checks parse makes on single values are the flag `wellformed`.      *)
(***************************************************************************)
EXTENDS Integers, Sequences, FiniteSets, Functions

CONSTANTS Names, Slugs, Users, Groups, Values, None,
          MaxKeys,     \* bound: keys drawn for one slug
          Workloads    \* files, settings and operations that come together

ASSUME ConfigAssumption == /\ None \notin Names \cup Values
                           /\ MaxKeys \in Nat \ {0}

VARIABLES db,         \* the tables
          proc,       \* the process: where it stands, its file and settings
          late,       \* history: apply failed after its plan had been accepted
          workload

vars == <<db, proc, late, workload>>

Roles == {"admin", "contributor"}

\* Rows.  Grants are what a team block of the file says: the roles of some
\* addresses (one per user) and of some groups.
Project == [team: Names, fields: Values, key: 1..MaxKeys, muted: BOOLEAN, orphaned: BOOLEAN]
NoGrants == [emails |-> <<>>, groups |-> <<>>]
NoTeam == [orphaned |-> FALSE, grants |-> NoGrants, members |-> <<>>]
IsTeam(t) == /\ t.orphaned \in BOOLEAN
             /\ DOMAIN t.members \subseteq db.users /\ Range(t.members) \subseteq Roles
             /\ Range(t.grants.emails) \cup Range(t.grants.groups) \subseteq Roles

\* The single-row settings, in the order synchronize writes them.
Fields == <<"interval", "severity", "notifications", "org_name", "allow_signup">>

\* A file is [wellformed, notifications, teams, projects]: a section is None or
\* maps names to grants, slugs to [team, fields].  Settings, the environment,
\* say who manages `projects`, `teams`, `notify` ("ui" or "yaml") and `service`
\* ("ui" or "env"), whether what is left out is deleted, the service `value`
\* and whether it is `valid`, the `defaults`, and whether there is `oidc`.
Places == {"down", "read", "service", "apply", "defaults", "serving"}

Maps(X, Y) == UNION {[S -> Y] : S \in SUBSET X}
Grants == [emails: Maps(Users, Roles), groups: Maps(Groups, Roles)]
File == [wellformed: BOOLEAN, notifications: Values \cup {None}, teams: Maps(Names, Grants) \cup {None},
         projects: Maps(Slugs, [team: Names, fields: Values]) \cup {None}]
\* Service settings from the environment leave the notifications to the UI.
Settings ==
  {s \in [projects: {"ui", "yaml"}, teams: {"ui", "yaml"}, notify: {"ui", "yaml"},
          service: {"ui", "env"}, oidc: BOOLEAN, value: Values, valid: BOOLEAN,
          defaults: SUBSET Names, delete_projects: BOOLEAN, delete_teams: BOOLEAN] :
     s.service = "env" => s.notify = "ui"}

ASSUME WorkloadsAssumption ==
  \A w \in Workloads : w.files \subseteq File /\ w.settings \subseteq Settings

Extended(f, x, y) == [k \in DOMAIN f \cup {x} |-> IF k = x THEN y ELSE f[k]]
Without(f, x) == Restrict(f, DOMAIN f \ {x})

\* A user in a team, with a role or no longer.
Joined(team, u, role) == [team EXCEPT !.members = Extended(@, u, role)]
Left(team, u) == [team EXCEPT !.members = Without(@, u)]

-----------------------------------------------------------------------------
(* The file: domain/config_file.rs.                                        *)

\* parse and discard_ui_sections: what the UI manages is not looked at.
Section(source, part) == IF source = "ui" THEN None ELSE part
Desired(file, s) ==
  [file EXCEPT !.teams = Section(s.teams, @), !.projects = Section(s.projects, @),
               !.notifications = Section(s.notify, @)]

Nothing == [wellformed |-> TRUE, notifications |-> None, teams |-> None, projects |-> None]

\* A required section is missing, a value is wrong, or groups are granted
\* without a provider that reports them.
Refused(file, s) ==
  \/ ~file.wellformed
  \/ s.teams = "yaml" /\ file.teams = None
  \/ s.projects = "yaml" /\ file.projects = None
  \/ s.notify = "yaml" /\ file.notifications = None
  \/ /\ ~s.oidc /\ s.teams = "yaml" /\ file.teams # None
     /\ \E t \in DOMAIN file.teams : file.teams[t].groups # <<>>

References(d, teams) ==
  d.projects # None =>
    \A p \in DOMAIN d.projects :
      d.projects[p].team \in DOMAIN (IF d.teams # None THEN d.teams ELSE teams)

\* Fault: a project the file leaves out is taken for deleted.
LeftOutIsGone(d, s, p, current) ==
  IF d.projects = None THEN {current}
  ELSE IF p \in DOMAIN d.projects THEN {d.projects[p].team} ELSE {}
\* The team a project will belong to, if it stays.
FinalTeam(d, s, p, current) ==
  IF d.projects = None THEN {current}
  ELSE IF p \in DOMAIN d.projects THEN {d.projects[p].team}
  ELSE IF s.delete_projects THEN {} ELSE {current}

PlanValid(d, s) ==
  /\ References(d, db.teams)
  /\ d.teams # None /\ s.delete_teams =>
       \A t \in DOMAIN db.teams \ DOMAIN d.teams, p \in DOMAIN db.projects :
         t \notin FinalTeam(d, s, p, db.projects[p].team)

-----------------------------------------------------------------------------
(* The transaction: adapters/config_sync.rs.                               *)

\* Fault: the last of several grants wins.
LastGrant(roles) == IF "contributor" \in roles THEN "contributor" ELSE "admin"
\* reconcile_memberships: Admin before Contributor.
Best(roles) == IF "admin" \in roles THEN "admin" ELSE "contributor"

Granted(grants, u) ==
  {grants.emails[e] : e \in DOMAIN grants.emails \cap {u}} \cup
  {grants.groups[g] : g \in DOMAIN grants.groups \cap db.groups[u]}

\* Reconciling all users with a team's grants.
Members(grants) ==
  [u \in {v \in db.users : Granted(grants, v) # {}} |-> Best(Granted(grants, u))]

\* Fault: members are reconciled before the new grants are stored.
GrantsStoredLast(old, grants) ==
  [orphaned |-> FALSE, grants |-> grants, members |-> Members(old.grants)]
\* upsert_team and sync_team: a declared team is live, and its grants and
\* members are those of the file.
Synced(old, grants) ==
  [orphaned |-> FALSE, grants |-> grants, members |-> Members(grants)]

TeamOr(t) == IF t \in DOMAIN db.teams THEN db.teams[t] ELSE NoTeam

TeamsSynced(d, s) ==
  IF d.teams = None
  THEN [t \in DOMAIN db.teams |-> [db.teams[t] EXCEPT !.orphaned = @ /\ s.teams # "ui"]]
  ELSE [t \in DOMAIN db.teams \cup DOMAIN d.teams |->
          IF t \in DOMAIN d.teams THEN Synced(TeamOr(t), d.teams[t]) ELSE db.teams[t]]

\* Fault: a restored project is inserted anew.
Replaced(p, declared) ==
  [team |-> declared.team, fields |-> declared.fields, key |-> db.drawn[p] + 1,
   muted |-> FALSE, orphaned |-> FALSE]
\* Fault: a project that is declared again stays frozen.
StaysFrozen(p, declared) ==
  IF p \in DOMAIN db.projects
  THEN [db.projects[p] EXCEPT !.team = declared.team, !.fields = declared.fields]
  ELSE Replaced(p, declared)
\* sync_project: the row of a known slug keeps its key and its mute.
SyncProject(p, declared) ==
  IF p \in DOMAIN db.projects
  THEN [db.projects[p] EXCEPT !.team = declared.team, !.fields = declared.fields,
                              !.orphaned = FALSE]
  ELSE [team |-> declared.team, fields |-> declared.fields, key |-> db.drawn[p] + 1,
        muted |-> FALSE, orphaned |-> FALSE]

\* prune_project: what is not declared is frozen or deleted.
ProjectsSynced(d, s) ==
  IF d.projects = None
  THEN [p \in DOMAIN db.projects |-> [db.projects[p] EXCEPT !.orphaned = @ /\ s.projects # "ui"]]
  ELSE LET kept == IF s.delete_projects THEN {} ELSE DOMAIN db.projects
       IN  [p \in DOMAIN d.projects \cup kept |->
              IF p \in DOMAIN d.projects THEN SyncProject(p, d.projects[p])
              ELSE [db.projects[p] EXCEPT !.orphaned = TRUE]]

\* prune_team.
TeamsPruned(d, s, teams) ==
  IF d.teams = None THEN teams
  ELSE LET kept == IF s.delete_teams THEN {} ELSE DOMAIN teams
       IN  [t \in DOMAIN d.teams \cup kept |->
              IF t \in DOMAIN d.teams THEN teams[t] ELSE [teams[t] EXCEPT !.orphaned = TRUE]]

\* The errors apply_once can still meet once it has begun to write.
LateError(d, s, teams, projects) ==
  \/ \E p \in DOMAIN projects : projects[p].team \notin DOMAIN teams
  \/ \E p \in DOMAIN projects : projects[p].team \notin DOMAIN TeamsPruned(d, s, teams)

Applied(d, s) ==
  LET teams == TeamsSynced(d, s)
      projects == ProjectsSynced(d, s)
      pruned == TeamsPruned(d, s, teams)
  IN  [db EXCEPT !.teams = pruned, !.projects = projects,
                 !.fresh = IF d.teams = None THEN @ ELSE {},
                 !.drawn = [p \in Slugs |-> IF p \in DOMAIN projects /\ projects[p].key > @[p]
                                            THEN projects[p].key ELSE @[p]],
                 !.defaults = @ \cap DOMAIN pruned,
                 !.service["notifications"] =
                    IF s.notify = "yaml" THEN d.notifications ELSE @]

-----------------------------------------------------------------------------
(* The process.                                                            *)

At(place) == proc.at = place
Goto(place) == proc' = [proc EXCEPT !.at = place]
Stop == proc' = [proc EXCEPT !.at = "down"]

Start ==
  /\ At("down")
  /\ \E f \in workload.files, s \in workload.settings :
       proc' = [at |-> "read", file |-> f, settings |-> s, written |-> 0]
  /\ UNCHANGED <<db, late>>

\* read_configuration, when a section is managed by the file or, with service
\* settings from the environment, when there is a file.
Read ==
  /\ At("read")
  /\ LET s == proc.settings
         enabled == "yaml" \in {s.projects, s.teams, s.notify}
         next == IF s.service = "env" THEN "service" ELSE "apply"
         loaded == [proc EXCEPT !.at = next, !.file = Desired(@, s)]
     IN  \/ enabled /\ ~Refused(proc.file, s) /\ proc' = loaded
         \/ enabled /\ Refused(proc.file, s) /\ Stop
         \/ ~enabled /\ proc' = [loaded EXCEPT !.file = Nothing]
         \/ ~enabled /\ s.service = "env" /\ ~proc.file.wellformed /\ Stop
  /\ UNCHANGED <<db, late>>

\* One write at a time; the notification settings are validated between them.
WriteService ==
  /\ At("service")
  /\ LET i == proc.written + 1
         s == proc.settings
     IN  IF Fields[i] = "notifications" /\ ~s.valid
         THEN Stop /\ UNCHANGED db
         ELSE /\ db' = [db EXCEPT !.service[Fields[i]] = s.value]
              /\ proc' = [proc EXCEPT !.written = i,
                            !.at = IF i = Len(Fields) THEN "apply" ELSE "service"]
  /\ UNCHANGED late

\* apply_once: the plan is checked in the transaction that carries it out.
Apply ==
  /\ At("apply")
  /\ LET d == proc.file
         s == proc.settings
         next == IF s.service = "env" THEN "defaults" ELSE "serving"
         after == Applied(d, s)
     IN  IF ~PlanValid(d, s) THEN Stop /\ UNCHANGED <<db, late>>
         ELSE IF LateError(d, s, TeamsSynced(d, s), ProjectsSynced(d, s))
         THEN Stop /\ late' = TRUE /\ UNCHANGED db
         ELSE /\ \A p \in Slugs : after.drawn[p] <= MaxKeys
              /\ db' = after /\ Goto(next) /\ UNCHANGED late

\* set_default_team_ids: an id that no team has any more stops the start.
WriteDefaults ==
  /\ At("defaults")
  /\ \/ /\ proc.settings.defaults \subseteq DOMAIN db.teams
        /\ db' = [db EXCEPT !.defaults = proc.settings.defaults]
        /\ Goto("serving")
     \/ proc.settings.defaults # {} /\ Stop /\ UNCHANGED db
  /\ UNCHANGED late

\* A shutdown, a crash, or a write that failed for good.
Die == ~At("down") /\ Stop /\ UNCHANGED <<db, late>>

-----------------------------------------------------------------------------
(* While it serves.                                                        *)

Serving(op) == At("serving") /\ op \in workload.ops
Ui(source) == source = "ui"             \* require_ui_management

\* UserRepository::create; default teams are for teams managed in the UI.
CreateUser ==
  /\ Serving("users")
  /\ \E u \in Users \ db.users :
       db' = [db EXCEPT !.users = @ \cup {u}, !.fresh = @ \cup {u},
                !.teams = [t \in DOMAIN @ |->
                  IF Ui(proc.settings.teams) /\ t \in db.defaults
                  THEN Joined(@[t], u, "contributor") ELSE @[t]]]

DeleteUser ==
  /\ Serving("users")
  /\ \E u \in db.users :
       db' = [db EXCEPT !.users = @ \ {u}, !.fresh = @ \ {u}, !.groups[u] = {},
                !.teams = [t \in DOMAIN @ |-> Left(@[t], u)]]

\* Fault: an orphaned team is reconciled like the others.
AllTeams == DOMAIN db.teams
\* The teams reconcile_user_grants goes through.
Reconciled == {t \in DOMAIN db.teams : ~db.teams[t].orphaned}

\* An SSO sign-in while teams are in the file: the groups are replaced and the
\* user's memberships recomputed in one transaction.
SignIn ==
  /\ Serving("sign_in") /\ proc.settings.teams = "yaml"
  /\ \E u \in db.users, groups \in SUBSET Groups :
       LET roles(g) == {g.emails[e] : e \in DOMAIN g.emails \cap {u}} \cup
                       {g.groups[k] : k \in DOMAIN g.groups \cap groups}
           granted(t) == IF roles(t.grants) = {} THEN Left(t, u)
                         ELSE Joined(t, u, Best(roles(t.grants)))
       IN  db' = [db EXCEPT !.groups[u] = groups, !.fresh = @ \ {u},
                    !.teams = [t \in DOMAIN @ |->
                       IF t \in Reconciled THEN granted(@[t]) ELSE @[t]]]

EditTeams ==
  /\ Serving("teams") /\ Ui(proc.settings.teams)
  /\ \E t \in Names :
       \/ /\ t \notin DOMAIN db.teams
          /\ db' = [db EXCEPT !.teams = Extended(@, t, NoTeam)]
       \/ /\ t \in DOMAIN db.teams
          /\ \A p \in DOMAIN db.projects : db.projects[p].team # t
          /\ db' = [db EXCEPT !.teams = Without(@, t), !.defaults = @ \ {t}]
       \/ /\ t \in DOMAIN db.teams
          /\ \E u \in db.users :
               \/ \E role \in Roles : db' = [db EXCEPT !.teams[t] = Joined(@, u, role)]
               \/ db' = [db EXCEPT !.teams[t] = Left(@, u)]

EditProjects ==
  /\ Serving("projects") /\ Ui(proc.settings.projects)
  /\ \E p \in Slugs :
       \/ /\ p \notin DOMAIN db.projects /\ db.drawn[p] < MaxKeys
          /\ \E t \in DOMAIN db.teams, v \in Values :
               db' = [db EXCEPT !.drawn[p] = @ + 1,
                        !.projects = Extended(@, p, [team |-> t, fields |-> v,
                           key |-> db.drawn[p] + 1, muted |-> FALSE, orphaned |-> FALSE])]
       \/ /\ p \in DOMAIN db.projects
          /\ \/ \E v \in Values : db' = [db EXCEPT !.projects[p].fields = v]
             \/ \E t \in DOMAIN db.teams : db' = [db EXCEPT !.projects[p].team = t]
             \/ db' = [db EXCEPT !.projects = Without(@, p)]

\* Muting and rotating the key stay with the UI, whoever manages the project.
Operate ==
  /\ Serving("operate")
  /\ \E p \in DOMAIN db.projects :
       \/ db' = [db EXCEPT !.projects[p].muted = ~@]
       \/ /\ db.drawn[p] < MaxKeys
          /\ db' = [db EXCEPT !.projects[p].key = db.drawn[p] + 1, !.drawn[p] = @ + 1]

Request == /\ CreateUser \/ DeleteUser \/ SignIn \/ EditTeams \/ EditProjects \/ Operate
           /\ UNCHANGED <<proc, late>>

Init ==
  /\ db = [teams |-> <<>>, projects |-> <<>>, users |-> {}, fresh |-> {},
           groups |-> [u \in Users |-> {}], defaults |-> {},
           drawn |-> [p \in Slugs |-> 0],
           service |-> [i \in Range(Fields) |-> None]]
  /\ proc = [at |-> "down", file |-> Nothing, settings |-> None, written |-> 0]
  /\ late = FALSE
  /\ workload \in Workloads

Next == /\ Start \/ Read \/ WriteService \/ Apply \/ WriteDefaults \/ Die \/ Request
        /\ UNCHANGED workload

Spec == Init /\ [][Next]_vars

-----------------------------------------------------------------------------
(* Properties.                                                             *)

TypeOK ==
  /\ DOMAIN db.teams \subseteq Names /\ \A t \in DOMAIN db.teams : IsTeam(db.teams[t])
  /\ DOMAIN db.projects \subseteq Slugs /\ Range(db.projects) \subseteq Project
  /\ db.fresh \subseteq db.users /\ db.users \subseteq Users
  /\ db.groups \in [Users -> SUBSET Groups]
  /\ proc.at \in Places /\ late \in BOOLEAN

\* validate_plan sees every conflict: once it has accepted a plan, no project
\* misses its team and no team to be deleted still owns one, whatever the UI
\* and earlier files have left behind; at every moment each project belongs to a
\* team that exists, and each default team exists.
PlanSound ==
  /\ TypeOK /\ ~late
  /\ db.defaults \subseteq DOMAIN db.teams
  /\ \A p \in DOMAIN db.projects : db.projects[p].team \in DOMAIN db.teams

\* What a start has applied, the same start would apply again without changing
\* anything, whatever it found in the database (apply_once).
SyncIdempotent ==
  [][At("apply") /\ proc'.at # "down" => (Applied(proc.file, proc.settings) = db)']_vars

\* Whoever is served, the file and the environment are in force: declared teams
\* and projects are live and as declared, all others frozen or gone by policy,
\* nothing is frozen in what the UI manages, and no setting of the environment
\* was skipped, however many starts died on the way (synchronize).
Enforced ==
  At("serving") =>
    LET s == proc.settings
        d == proc.file
    IN  /\ s.teams = "ui" => \A t \in DOMAIN db.teams : ~db.teams[t].orphaned
        /\ s.teams = "yaml" =>
             /\ DOMAIN d.teams \subseteq DOMAIN db.teams
             /\ \A t \in DOMAIN db.teams :
                  /\ db.teams[t].orphaned <=> t \notin DOMAIN d.teams
                  /\ t \in DOMAIN d.teams => db.teams[t].grants = d.teams[t]
                  /\ db.teams[t].orphaned => ~s.delete_teams
        /\ s.projects = "ui" => \A p \in DOMAIN db.projects : ~db.projects[p].orphaned
        /\ s.projects = "yaml" =>
             /\ DOMAIN d.projects \subseteq DOMAIN db.projects
             /\ \A p \in DOMAIN db.projects :
                  /\ db.projects[p].orphaned <=> p \notin DOMAIN d.projects
                  /\ p \in DOMAIN d.projects =>
                       /\ db.projects[p].team = d.projects[p].team
                       /\ db.projects[p].fields = d.projects[p].fields
                  /\ db.projects[p].orphaned => ~s.delete_projects
        /\ s.notify = "yaml" => db.service["notifications"] = d.notifications
        /\ s.service = "env" => /\ db.defaults \subseteq s.defaults
                                /\ s.teams = "yaml" => db.defaults = s.defaults
                                /\ \A i \in Range(Fields) : db.service[i] = s.value

\* In a team of the file everybody has exactly the best role granted to their
\* address or groups; only an account that has not signed in since it was
\* created may still lack it (reconcile_memberships, reconcile_user_grants).
MembersMatchGrants ==
  At("serving") /\ proc.settings.teams = "yaml" =>
    \A t \in DOMAIN proc.file.teams, u \in db.users \ db.fresh :
      LET roles == Granted(db.teams[t].grants, u)
      IN  IF roles = {} THEN u \notin DOMAIN db.teams[t].members
          ELSE /\ u \in DOMAIN db.teams[t].members
               /\ db.teams[t].members[u] = "admin" <=> "admin" \in roles

\* A team that fell out of the file keeps its members until it is declared
\* again, handed back to the UI or deleted, except for deleted accounts: no
\* sign-in and no start touches them (mark_orphan, reconcile_user_grants).
OrphansFrozen ==
  [][\A t \in DOMAIN db.teams \cap DOMAIN db'.teams :
       db.teams[t].orphaned /\ db'.teams[t].orphaned =>
         db'.teams[t].members = Restrict(db.teams[t].members,
                                         DOMAIN db.teams[t].members \cap db'.users)]_vars

\* A project keeps its DSN key and its mute through every start, declared,
\* frozen or restored, and goes only where the policy or the UI says delete:
\* clients keep reporting (sync_project, prune_project).
ProjectsKeepIdentity ==
  [][\A p \in DOMAIN db.projects :
       IF p \in DOMAIN db'.projects
       THEN \/ /\ db'.projects[p].key = db.projects[p].key
               /\ db'.projects[p].muted = db.projects[p].muted
            \/ At("serving")
       ELSE \/ At("apply") /\ proc.settings.delete_projects /\ proc.settings.projects = "yaml"
            \/ At("serving") /\ proc.settings.projects = "ui"]_vars
=============================================================================
