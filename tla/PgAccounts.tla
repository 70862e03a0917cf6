---------------------------- MODULE PgAccounts ----------------------------
(***************************************************************************)
(* Accounts, teams, invites and the ownership of projects on PostgreSQL:   *)
(* adapters/postgres/{user,team,invite,project}.rs.  What one writer at a  *)
(* time gives on SQLite (Accounts, Membership) is obtained here from table *)
(* locks, row locks and the locks of foreign keys, in transactions that    *)
(* overlap under READ COMMITTED.                                           *)
(*                                                                         *)
(* A call is a program of statements.  A statement waits for its locks,    *)
(* looks at what is committed and may end the call; what the transaction   *)
(* writes shows at its commit, which releases the locks.  Table locks are  *)
(* SHARE ROW EXCLUSIVE ("SRE") or ROW EXCLUSIVE ("RE", every write); row   *)
(* locks are FOR UPDATE ("U", deletions and new keys too), FOR NO KEY      *)
(* UPDATE ("NKU", other updates) and FOR KEY SHARE ("KS", a foreign key    *)
(* that refers to the row).  The weaker ones block none of these.          *)
(*                                                                         *)
(* Composed with PgIssues: a behaviour is about the one or the other, as   *)
(* they share no table that either writes.                                 *)
(***************************************************************************)
EXTENDS PgIssues, Sequences, SequencesExt

CONSTANTS Users, Teams, Projects, Tokens,
          Batches     \* [about, db, calls]: the calls that overlap, the tables at first

VARIABLES db,        \* users, members, teams, defaults, projects, invites, as committed
          work,      \* the transaction of each call
          outcome,   \* what each call returned
          batch

avars == <<db, work, outcome, batch>>
vars == <<ivars, avars>>

Clients == IF batch.about = "accounts" THEN DOMAIN batch.calls ELSE {}

User == [role: {"owner", "member"}, provider: {"local", "oidc"}]
NoUser == [role |-> None, provider |-> None]
Invite == [team: Teams, role: {"admin", "contributor"}, by: Users \cup {None}, accepted: BOOLEAN]
NoInvite == [team |-> None, role |-> None, by |-> None, accepted |-> FALSE]

Tables ==
  [users: [Users -> User \cup {NoUser}], members: [Teams -> [Users -> {None, "contributor", "admin"}]],
   teams: SUBSET Teams, defaults: SUBSET Teams, projects: [Projects -> Teams \cup {None}],
   invites: [Tokens -> Invite \cup {NoInvite}]]

\* Nothing refers to a row that is not there.
NoDangling(d) ==
  /\ \A t \in Teams, u \in Users : d.members[t][u] # None => t \in d.teams /\ d.users[u] # NoUser
  /\ d.defaults \subseteq d.teams
  /\ \A k \in Tokens : d.invites[k] # NoInvite =>
       /\ d.invites[k].team \in d.teams
       /\ d.invites[k].by # None => d.users[d.invites[k].by] # NoUser
  /\ \A p \in Projects : d.projects[p] \in d.teams \cup {None}

\* The calls of the repositories.
AccountCalls ==
  [op: {"create"}, user: Users, initial: BOOLEAN]
  \cup [op: {"set_role"}, user: Users, role: {"owner", "member"}]
  \cup [op: {"delete_user", "convert"}, user: Users]
  \cup [op: {"add_member"}, team: Teams, user: Users, role: {"contributor", "admin"}]
  \cup [op: {"set_member"}, team: Teams, user: Users, role: {"contributor", "admin", None}]
  \cup [op: {"accept"}, token: Tokens, user: Users]
  \cup {c \in [op: {"delete_team"}, team: Teams, to: Teams \cup {None}] : c.to # c.team}
  \cup [op: {"project"}, project: Projects, team: Teams]

ASSUME BatchesAssumption ==
  /\ None \notin Teams
  /\ \A b \in Batches :
       /\ b.about \in {"issues", "accounts"}
       /\ b.db \in Tables /\ NoDangling(b.db)
       /\ b.about = "issues" => \A w \in Writers : b.calls[w] \in Calls
       /\ b.about = "accounts" => \A s \in DOMAIN b.calls : b.calls[s] \in AccountCalls

Registered == {u \in Users : db.users[u] # NoUser}
Owners == {u \in Registered : db.users[u].role = "owner"}
AdminsOf(t) == {u \in Users : db.members[t][u] = "admin"}

-----------------------------------------------------------------------------
(* Locks.                                                                  *)

Table(name, mode) == [on |-> <<name>>, mode |-> mode]
Row(name, key, mode) == [on |-> <<name, key>>, mode |-> mode]

Compatible(m, n) == {m, n} \in {{"RE"}, {"KS"}, {"KS", "NKU"}}

\* Whom a call waits for, to get what it needs.
Holding(s, needs) ==
  {v \in Clients \ {s} : \E a \in needs, b \in work[v].holds :
                            a.on = b.on /\ ~Compatible(a.mode, b.mode)}

-----------------------------------------------------------------------------
(* The statements of each call.                                            *)

create_account(c) ==
  IF c.initial THEN <<"lock_settings", "no_owner", "insert_user", "read_defaults", "join_defaults">>
  ELSE <<"insert_user", "read_defaults", "join_defaults">>

\* Fault: the count of owners is taken before the lock.
CountsFirst(c) == <<"last_owner", "lock_users", "lock_members", "update_user">>
set_instance_role(c) == <<"lock_users", "lock_members", "last_owner", "update_user">>

\* Fault: only the accounts are locked.
UsersOnly(c) == <<"lock_users", "last_owner", "last_admin", "delete_user", "cascade_user">>
delete_user(c) ==
  <<"lock_users", "lock_members", "last_owner", "last_admin", "delete_user", "cascade_user">>

\* Fault: the role is read without FOR UPDATE.
PlainSelect(c) == <<"convertible", "update_user">>
convert_to_sso(c) == <<"lock_user", "convertible", "update_user">>

change_member(c) ==
  <<"lock_members", "other_admin", IF c.role = None THEN "drop_member" ELSE "write_member">>

\* Fault: the invite is looked up first and marked at the end.
MarkedLast(c) == <<"still_open", "read_user", "write_member", "mark_invite">>
accept_invite(c) == <<"mark_invite", "still_open", "read_user", "write_member">>

\* Fault: creation of projects is not kept out.
TeamsOnly(c) == <<"lock_teams", "target", "move", "no_projects", "delete_team", "cascade_team">>
delete_team(c) ==
  <<"lock_teams", "lock_projects", "target", "move", "no_projects", "delete_team", "cascade_team">>

write_project(c) == <<"write_project">>

Program(c) ==
  CASE c.op = "create" -> create_account(c)
    [] c.op = "set_role" -> set_instance_role(c)
    [] c.op = "delete_user" -> delete_user(c)
    [] c.op = "convert" -> convert_to_sso(c)
    [] c.op \in {"add_member", "set_member"} -> change_member(c)
    [] c.op = "accept" -> accept_invite(c)
    [] c.op = "delete_team" -> delete_team(c)
    [] c.op = "project" -> write_project(c)

ProjectsOf(t) == {p \in Projects : db.projects[p] = t}
InvitesOf(t) == {k \in Tokens : db.invites[k].team = t}
InvitesBy(u) == {k \in Tokens : db.invites[k].by = u}

\* What a statement returns to the call: the default teams, the projects moved,
\* the team of an invite.
Returned(c, statement, seen) ==
  CASE statement = "read_defaults" -> db.defaults
    [] statement = "move" /\ c.to # None -> ProjectsOf(c.team)
    [] statement = "still_open" -> {db.invites[c.token].team}
    [] OTHER -> seen

TeamOf(c, seen) == IF c.op = "accept" THEN CHOOSE t \in seen : TRUE ELSE c.team

\* What a statement locks; a new reference locks the row it refers to.
Needs(c, statement, seen) ==
  CASE statement = "lock_settings" -> {Row("service_settings", "only", "U")}
    [] statement = "lock_users" -> {Table("users", "SRE")}
    [] statement = "lock_members" -> {Table("members", "SRE")}
    [] statement = "lock_teams" -> {Table("teams", "SRE")}
    [] statement = "lock_projects" -> {Table("projects", "SRE")}
    [] statement = "lock_user" -> {Row("users", c.user, "U")}
    [] statement = "insert_user" -> {Table("users", "RE"), Row("users", c.user, "U")}
    [] statement = "update_user" -> {Table("users", "RE"), Row("users", c.user, "NKU")}
    [] statement = "delete_user" -> {Table("users", "RE"), Row("users", c.user, "U")}
    [] statement = "cascade_user" ->
         {Table("members", "RE"), Table("invites", "RE")}
         \cup {Row("members", <<t, c.user>>, "U") : t \in Teams}
         \cup {Row("invites", k, "NKU") : k \in InvitesBy(c.user)}
    [] statement = "join_defaults" ->
         {Table("members", "RE")} \cup {Row("teams", t, "KS") : t \in seen}
    [] statement = "drop_member" -> {Table("members", "RE"), Row("members", <<c.team, c.user>>, "U")}
    [] statement = "write_member" ->
         {Table("members", "RE"), Row("members", <<TeamOf(c, seen), c.user>>, "U")}
         \cup IF db.members[TeamOf(c, seen)][c.user] # None THEN {}
              ELSE {Row("teams", TeamOf(c, seen), "KS"), Row("users", c.user, "KS")}
    [] statement = "mark_invite" -> {Table("invites", "RE"), Row("invites", c.token, "NKU")}
    [] statement = "move" /\ c.to # None ->
         {Table("projects", "RE"), Row("teams", c.to, "KS")}
         \cup {Row("projects", p, "NKU") : p \in ProjectsOf(c.team)}
    [] statement = "delete_team" -> {Table("teams", "RE"), Row("teams", c.team, "U")}
    [] statement = "cascade_team" ->
         {Table("members", "RE"), Table("invites", "RE")}
         \cup {Row("members", <<c.team, u>>, "U") : u \in Users}
         \cup {Row("invites", k, "U") : k \in InvitesOf(c.team)}
    [] statement = "write_project" ->
         {Table("projects", "RE"), Row("projects", c.project, "NKU"), Row("teams", c.team, "KS")}
    [] OTHER -> {}

\* Why a statement ends the call: the answer, or None to go on.
Refusal(c, statement, seen) ==
  LET When(condition, answered) == IF condition THEN answered ELSE None
  IN
  CASE statement = "no_owner" -> When(Owners # {}, "conflict")
    [] statement = "insert_user" -> When(c.user \in Registered, "conflict")
    [] statement = "join_defaults" -> When(~(seen \subseteq db.teams), "failed")
    [] statement = "last_owner" ->
         When((c.op = "delete_user" \/ c.role # "owner") /\ Owners = {c.user}, "conflict")
    [] statement = "last_admin" -> When(\E t \in Teams : AdminsOf(t) = {c.user}, "conflict")
    [] statement = "other_admin" -> When(c.role # "admin" /\ AdminsOf(c.team) = {c.user}, "conflict")
    [] statement = "update_user" -> When(c.op = "set_role" /\ c.user \notin Registered, "missing")
    [] statement = "convertible" /\ c.user \notin Registered -> "missing"
    [] statement = "convertible" /\ c.user \in Registered -> When(c.user \in Owners, "forbidden")
    [] statement = "read_user" -> When(c.user \notin Registered, "failed")
    [] statement = "still_open" ->
         When(db.invites[c.token] = NoInvite \/ db.invites[c.token].accepted, "used")
    [] statement = "write_member" ->
         IF c.op = "set_member" THEN When(db.members[c.team][c.user] = None, "missing")
         ELSE When(TeamOf(c, seen) \notin db.teams \/ c.user \notin Registered, "failed")
    [] statement = "target" -> When(c.to # None /\ c.to \notin db.teams, "missing")
    [] statement = "no_projects" ->
         When(~(ProjectsOf(c.team) \subseteq seen), "conflict")
    [] statement = "delete_team" ->               \* ON DELETE RESTRICT
         When(~(ProjectsOf(c.team) \subseteq seen), "failed")
    [] statement = "write_project" -> When(c.team \notin db.teams, "failed")
    [] OTHER -> None

-----------------------------------------------------------------------------
(* What the transaction has written when it commits.                       *)

\* The role an accepted invite leaves: it demotes no administrator.
InvitedRole(old, role) == IF old = "admin" THEN "admin" ELSE role

Written(c, seen) ==
  CASE c.op = "create" ->
         [db EXCEPT !.users[c.user] = [role |-> IF c.initial THEN "owner" ELSE "member",
                                       provider |-> "local"],
                    !.members = [t \in Teams |-> IF t \in seen THEN [@[t] EXCEPT ![c.user] = "contributor"]
                                                 ELSE @[t]]]
    [] c.op = "set_role" -> [db EXCEPT !.users[c.user].role = c.role]
    [] c.op = "delete_user" ->
         [db EXCEPT !.users[c.user] = NoUser,
                    !.members = [t \in Teams |-> [@[t] EXCEPT ![c.user] = None]],
                    !.invites = [k \in Tokens |->
                       IF k \in InvitesBy(c.user) THEN [@[k] EXCEPT !.by = None] ELSE @[k]]]
    [] c.op = "convert" -> [db EXCEPT !.users[c.user].provider = "oidc"]
    [] c.op \in {"add_member", "set_member"} -> [db EXCEPT !.members[c.team][c.user] = c.role]
    [] c.op = "accept" ->
         [db EXCEPT !.members[TeamOf(c, seen)][c.user] = InvitedRole(@, db.invites[c.token].role),
                    !.invites[c.token].accepted = TRUE]
    [] c.op = "delete_team" ->
         [db EXCEPT !.teams = @ \ {c.team}, !.defaults = @ \ {c.team},
                    !.members[c.team] = [u \in Users |-> None],
                    !.projects = [p \in Projects |-> IF p \in seen THEN c.to ELSE @[p]],
                    !.invites = [k \in Tokens |-> IF k \in InvitesOf(c.team) THEN NoInvite ELSE @[k]]]
    [] c.op = "project" -> [db EXCEPT !.projects[c.project] = c.team]

-----------------------------------------------------------------------------

Fresh(s, retries) == [rest |-> Program(batch.calls[s]), holds |-> {}, seen |-> {}, retries |-> retries]
Over == [rest |-> <<>>, holds |-> {}, seen |-> {}, retries |-> 0]

Answer(s, result) ==
  /\ outcome' = [outcome EXCEPT ![s] = result]
  /\ work' = [work EXCEPT ![s] = Over]

Needed(s) ==
  IF outcome[s] # None \/ work[s].rest = <<>> THEN {}
  ELSE Needs(batch.calls[s], Head(work[s].rest), work[s].seen)
WaitsFor(s) == Holding(s, Needed(s))

Execute(s) ==
  /\ outcome[s] = None /\ work[s].rest # <<>>
  /\ WaitsFor(s) = {}
  /\ LET c == batch.calls[s]
         statement == Head(work[s].rest)
         refusal == Refusal(c, statement, work[s].seen)
     IN  IF refusal # None THEN Answer(s, refusal)
         ELSE /\ work' = [work EXCEPT ![s].rest = Tail(@), ![s].holds = @ \cup Needed(s),
                                      ![s].seen = Returned(c, statement, @)]
              /\ UNCHANGED outcome
  /\ UNCHANGED <<db, batch>>

CommitAccount(s) ==
  /\ outcome[s] = None /\ work[s].rest = <<>>
  /\ db' = Written(batch.calls[s], work[s].seen)
  /\ Answer(s, "done")
  /\ UNCHANGED batch

\* The victim of a deadlock starts again under retry_write; the statements of
\* the project repository are not retried.
Victim(s) ==
  /\ InCycle(s, [v \in Clients |-> WaitsFor(v)])
  /\ IF work[s].retries < MaxRetries /\ batch.calls[s].op # "project"
     THEN work' = [work EXCEPT ![s] = Fresh(s, @.retries + 1)] /\ UNCHANGED outcome
     ELSE Answer(s, IF batch.calls[s].op = "project" THEN "failed" ELSE "busy")
  /\ UNCHANGED <<db, batch>>

ClientStep(s) == Execute(s) \/ CommitAccount(s) \/ Victim(s)

Init ==
  /\ InitIssues
  /\ batch \in Batches
  /\ batch.about = "accounts" => Live = {}
  /\ db = batch.db
  /\ work = [s \in Clients |-> Fresh(s, 0)]
  /\ outcome = [s \in Clients |-> None]

Next ==
  \/ /\ batch.about = "issues"
     /\ \E w \in Writers : WriterStep(w) \/ Invoke(w, batch.calls[w])
     /\ UNCHANGED avars
  \/ \E s \in Clients : ClientStep(s) /\ UNCHANGED ivars

\* The server runs a statement as long as there is one it can run.
Spec ==
  /\ Init /\ [][Next]_vars
  /\ WF_vars((\E w \in Writers : WriterStep(w)) /\ UNCHANGED avars)
  /\ WF_vars((\E s \in Clients : ClientStep(s)) /\ UNCHANGED ivars)

-----------------------------------------------------------------------------
(* Properties.                                                             *)

TypeOK == IssuesTypeOK /\ db \in Tables

\* Deletions that overlap what refers to the deleted row leave no reference
\* behind: members, invites, default teams and projects name accounts and teams
\* that exist, and the deletion of a team moves along a project that is being
\* created or moved there, or is refused with the reason, but never runs into
\* the foreign key ("Serialize transfers with concurrent project creation").
ReferencesHold ==
  /\ TypeOK /\ NoDangling(db)
  /\ \A s \in Clients : batch.calls[s].op = "delete_team" => outcome[s] # "failed"

\* Concurrent demotions, deletions, departures and conversions never leave the
\* instance without an owner or a team without its administrator, and the
\* account of an owner never becomes SSO-only (set_instance_role, delete,
\* require_another_admin, accept, convert_to_sso).
RolesGuarded ==
  [][/\ Owners # {} => Owners' # {}
     /\ \A t \in db.teams \cap db'.teams : AdminsOf(t) # {} => AdminsOf(t)' # {}
     /\ \A u \in Owners : u \in Registered' => db'.users[u].provider = db.users[u].provider]_vars

\* One set-up creates the owner and one account gets in with an invite, however
\* many try (create_initial_owner, accept).
GrantedOnce ==
  LET Done(op, x) == {s \in Clients : /\ batch.calls[s].op = op /\ outcome[s] = "done"
                                      /\ IF op = "accept" THEN batch.calls[s].token = x
                                         ELSE batch.calls[s].initial}
  IN  /\ Cardinality(Done("create", None)) <= 1
      /\ \A k \in Tokens : Cardinality(Done("accept", k)) <= 1

\* Every call is answered: locks are released, deadlocks broken and the retry
\* loops are bounded, so that again and again no call is under way.
EveryCallAnswered ==
  []<>(/\ \A w \in Writers : tx[w].pc = "idle"
       /\ \A s \in Clients : outcome[s] # None)
===========================================================================
