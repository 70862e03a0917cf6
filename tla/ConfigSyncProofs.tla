-------------------------- MODULE ConfigSyncProofs --------------------------
(***************************************************************************)
(* Proofs about ConfigSync, for all sets of names, slugs, users, groups    *)
(* and values, and for all files, settings and workloads.                  *)
(***************************************************************************)
EXTENDS ConfigSync, TLAPS

-----------------------------------------------------------------------------
(* The inductive invariant.                                                *)

Team == [orphaned: BOOLEAN, grants: Grants, members: Maps(Users, Roles)]

Db == [teams: Maps(Names, Team), projects: Maps(Slugs, Project), users: SUBSET Users,
       fresh: SUBSET Users, groups: [Users -> SUBSET Groups], defaults: SUBSET Names,
       drawn: [Slugs -> 0..MaxKeys], service: [Range(Fields) -> Values \cup {None}]]

Proc == [at: Places, file: File, settings: Settings \cup {None}, written: 0..5]

\* What holds between any two transactions: memberships are of users that exist,
\* a project has a team, a key that was drawn, a default team exists.
DbInv ==
  /\ db \in Db
  /\ db.fresh \subseteq db.users
  /\ \A t \in DOMAIN db.teams : DOMAIN db.teams[t].members \subseteq db.users
  /\ \A p \in DOMAIN db.projects : /\ db.projects[p].team \in DOMAIN db.teams
                                   /\ db.projects[p].key <= db.drawn[p]
  /\ db.defaults \subseteq DOMAIN db.teams

Loaded == {"service", "apply", "defaults", "serving"}

\* What the process has decided to go by, and how far it has come.
ProcInv ==
  /\ proc \in Proc /\ late = FALSE /\ workload \in Workloads
  /\ proc.at # "down" => proc.settings \in Settings
  /\ proc.at = "read" => proc.written = 0
  /\ proc.at \in Loaded =>
       LET s == proc.settings IN
       /\ s.teams = "ui" <=> proc.file.teams = None
       /\ s.projects = "ui" <=> proc.file.projects = None
       /\ s.service = "env" =>
            /\ proc.written = 5 <=> proc.at # "service"
            /\ \A i \in 1..proc.written : db.service[Fields[i]] = s.value
       /\ proc.at = "service" => s.service = "env"
       /\ s.service = "env" /\ proc.at = "serving" =>
            /\ db.defaults \subseteq s.defaults
            /\ s.teams = "yaml" => db.defaults = s.defaults

\* Since the transaction the tables are as the file and the policies say.
AppliedInv ==
  proc.at \in {"defaults", "serving"} =>
    LET s == proc.settings
        d == proc.file
    IN  /\ s.teams = "ui" => \A t \in DOMAIN db.teams : ~db.teams[t].orphaned
        /\ s.teams = "yaml" =>
             /\ DOMAIN d.teams \subseteq DOMAIN db.teams
             /\ \A t \in DOMAIN db.teams :
                  /\ db.teams[t].orphaned <=> t \notin DOMAIN d.teams
                  /\ t \in DOMAIN d.teams => db.teams[t].grants = d.teams[t]
                  /\ db.teams[t].orphaned => ~s.delete_teams
        /\ s.projects = "ui" => \A p \in DOMAIN db.projects : ~db.projects[p].orphaned
        /\ s.projects = "yaml" =>
             /\ DOMAIN d.projects \subseteq DOMAIN db.projects
             /\ \A p \in DOMAIN db.projects :
                  /\ db.projects[p].orphaned <=> p \notin DOMAIN d.projects
                  /\ p \in DOMAIN d.projects =>
                       /\ db.projects[p].team = d.projects[p].team
                       /\ db.projects[p].fields = d.projects[p].fields
                  /\ db.projects[p].orphaned => ~s.delete_projects
        /\ s.notify = "yaml" => db.service["notifications"] = d.notifications

\* The roles that grants give to user u, who is in these groups.
RolesOf(grants, u, groups) ==
  {grants.emails[e] : e \in DOMAIN grants.emails \cap {u}} \cup
  {grants.groups[g] : g \in DOMAIN grants.groups \cap groups}

\* User u has in team t what the grants say.
Matches(t, u, groups) ==
  LET roles == RolesOf(t.grants, u, groups)
  IN  IF roles = {} THEN u \notin DOMAIN t.members
      ELSE /\ u \in DOMAIN t.members
           /\ t.members[u] = "admin" <=> "admin" \in roles

MatchInv ==
  proc.at \in {"defaults", "serving"} /\ proc.settings.teams = "yaml" =>
    \A t \in DOMAIN proc.file.teams, u \in db.users \ db.fresh :
      Matches(db.teams[t], u, db.groups[u])

SyncInv == DbInv /\ ProcInv /\ AppliedInv /\ MatchInv
-----------------------------------------------------------------------------
(* Maps, and the rows of the tables.                                       *)

\* What a map is, and how one is made.
LEMMA MapFacts ==
  ASSUME NEW X, NEW Y, NEW f \in Maps(X, Y)
  PROVE  /\ DOMAIN f \subseteq X /\ \A x \in DOMAIN f : f[x] \in Y
         /\ f = [x \in DOMAIN f |-> f[x]]
BY DEF Maps

\* A function on some of the keys is a map.
LEMMA MapMade ==
  ASSUME NEW X, NEW Y, NEW S \in SUBSET X, NEW f \in [S -> Y]
  PROVE  f \in Maps(X, Y)
BY DEF Maps

\* One entry more.
LEMMA MapExtended ==
  ASSUME NEW X, NEW Y, NEW f \in Maps(X, Y), NEW x \in X, NEW y \in Y
  PROVE  Extended(f, x, y) \in Maps(X, Y)
<1>1. DOMAIN f \subseteq X /\ \A k \in DOMAIN f : f[k] \in Y
  BY MapFacts
<1> DEFINE S == DOMAIN f \cup {x}
<1>2. Extended(f, x, y) \in [S -> Y] /\ S \in SUBSET X
  BY <1>1 DEF Extended
<1> QED
  BY <1>2, MapMade

\* One entry fewer.
LEMMA MapWithout ==
  ASSUME NEW X, NEW Y, NEW f \in Maps(X, Y), NEW x
  PROVE  Without(f, x) \in Maps(X, Y)
<1>1. DOMAIN f \subseteq X /\ \A k \in DOMAIN f : f[k] \in Y
  BY MapFacts
<1> DEFINE S == DOMAIN f \ {x}
<1>2. Without(f, x) \in [S -> Y] /\ S \in SUBSET X
  BY <1>1 DEF Without, Restrict
<1> QED
  BY <1>2, MapMade

\* Its entries.
LEMMA WithoutEntries ==
  ASSUME NEW f, NEW x
  PROVE  /\ DOMAIN Without(f, x) = DOMAIN f \ {x}
         /\ \A k \in DOMAIN f \ {x} : Without(f, x)[k] = f[k]
BY DEF Without, Restrict

\* A map restricted to all that it has.
LEMMA RestrictedToAll ==
  ASSUME NEW X, NEW Y, NEW f \in Maps(X, Y), NEW S, DOMAIN f \subseteq S
  PROVE  Restrict(f, DOMAIN f \cap S) = f
<1>1. f = [x \in DOMAIN f |-> f[x]]
  BY MapFacts
<1>2. DOMAIN f \cap S = DOMAIN f
  OBVIOUS
<1> QED
  BY <1>1, <1>2 DEF Restrict

\* The empty map.
LEMMA NothingMapped == ASSUME NEW X, NEW Y PROVE <<>> \in Maps(X, Y) /\ DOMAIN <<>> = {}
<1>1. <<>> \in [{} -> Y]
  OBVIOUS
<1> QED
  BY <1>1, MapMade

\* The rows of the tables.
LEMMA Rows ==
  ASSUME DbInv
  PROVE  /\ DOMAIN db.teams \subseteq Names
         /\ \A t \in DOMAIN db.teams : /\ db.teams[t] \in Team
                                       /\ db.teams[t].members \in Maps(Users, Roles)
                                       /\ DOMAIN db.teams[t].members \subseteq db.users
         /\ DOMAIN db.projects \subseteq Slugs
         /\ \A p \in DOMAIN db.projects : db.projects[p] \in Project
         /\ db.teams \in Maps(Names, Team) /\ db.projects \in Maps(Slugs, Project)
<1>1. db.teams \in Maps(Names, Team) /\ db.projects \in Maps(Slugs, Project)
  BY DEF DbInv, Db
<1>2. \A t \in DOMAIN db.teams : db.teams[t] \in Team
  BY <1>1, MapFacts
<1> QED
  BY <1>1, <1>2, MapFacts DEF DbInv, Team

\* A user joins a team; nothing else in the row changes.
LEMMA JoinedTeam ==
  ASSUME NEW r \in Team, NEW u \in Users, NEW role \in Roles
  PROVE  /\ Joined(r, u, role) \in Team
         /\ Joined(r, u, role).orphaned = r.orphaned /\ Joined(r, u, role).grants = r.grants
         /\ DOMAIN Joined(r, u, role).members = DOMAIN r.members \cup {u}
         /\ Joined(r, u, role).members[u] = role
         /\ \A v \in DOMAIN r.members \ {u} : Joined(r, u, role).members[v] = r.members[v]
<1> DEFINE f == r.members
           m == Extended(f, u, role)
<1>1. f \in Maps(Users, Roles)
  BY DEF Team
<1> HIDE DEF f
<1>2. /\ m \in Maps(Users, Roles) /\ DOMAIN m = DOMAIN f \cup {u} /\ m[u] = role
      /\ \A v \in DOMAIN f \ {u} : m[v] = f[v]
  <2>1. m \in Maps(Users, Roles)
    BY <1>1, MapExtended
  <2>2. DOMAIN m = DOMAIN f \cup {u} /\ m[u] = role
    BY DEF Extended
  <2>3. \A v \in DOMAIN f \ {u} : m[v] = f[v]
    BY DEF Extended
  <2> QED
    BY <2>1, <2>2, <2>3
<1> HIDE DEF m
<1>3. Joined(r, u, role) = [r EXCEPT !.members = m]
  BY DEF Joined, m, f
<1>4. /\ Joined(r, u, role) \in Team /\ Joined(r, u, role).members = m
      /\ Joined(r, u, role).orphaned = r.orphaned /\ Joined(r, u, role).grants = r.grants
  BY <1>2, <1>3 DEF Team
<1> QED
  BY <1>2, <1>4 DEF f

\* A user leaves a team.
LEMMA LeftTeam ==
  ASSUME NEW r \in Team, NEW u
  PROVE  /\ Left(r, u) \in Team
         /\ Left(r, u).orphaned = r.orphaned /\ Left(r, u).grants = r.grants
         /\ Left(r, u).members = Without(r.members, u)
         /\ DOMAIN Left(r, u).members = DOMAIN r.members \ {u}
         /\ \A v \in DOMAIN r.members \ {u} : Left(r, u).members[v] = r.members[v]
<1> DEFINE f == r.members
           m == Without(f, u)
<1>1. f \in Maps(Users, Roles)
  BY DEF Team
<1> HIDE DEF f
<1>2. /\ m \in Maps(Users, Roles) /\ DOMAIN m = DOMAIN f \ {u}
      /\ \A v \in DOMAIN f \ {u} : m[v] = f[v]
  BY <1>1, MapWithout, WithoutEntries
<1> HIDE DEF m
<1>3. Left(r, u) = [r EXCEPT !.members = m]
  BY DEF Left, m, f
<1>4. /\ Left(r, u) \in Team /\ Left(r, u).members = m
      /\ Left(r, u).orphaned = r.orphaned /\ Left(r, u).grants = r.grants
  BY <1>2, <1>3 DEF Team
<1> QED
  BY <1>2, <1>4 DEF f, m

-----------------------------------------------------------------------------
(* What the action properties say of a step.                               *)

OrphansKept ==
  \A t \in DOMAIN db.teams \cap DOMAIN db'.teams :
    db.teams[t].orphaned /\ db'.teams[t].orphaned =>
      db'.teams[t].members = Restrict(db.teams[t].members,
                                      DOMAIN db.teams[t].members \cap db'.users)

IdentityKept ==
  \A p \in DOMAIN db.projects :
    IF p \in DOMAIN db'.projects
    THEN \/ /\ db'.projects[p].key = db.projects[p].key
            /\ db'.projects[p].muted = db.projects[p].muted
         \/ At("serving")
    ELSE \/ At("apply") /\ proc.settings.delete_projects /\ proc.settings.projects = "yaml"
         \/ At("serving") /\ proc.settings.projects = "ui"

\* Teams whose members stay, while nobody is deleted.
LEMMA OrphansUntouched ==
  ASSUME DbInv, db.users \subseteq db'.users,
         \A t \in DOMAIN db.teams \cap DOMAIN db'.teams :
           db.teams[t].orphaned /\ db'.teams[t].orphaned => db'.teams[t].members = db.teams[t].members
  PROVE  OrphansKept
<1> SUFFICES ASSUME NEW t \in DOMAIN db.teams \cap DOMAIN db'.teams, db.teams[t].orphaned, db'.teams[t].orphaned
             PROVE  db'.teams[t].members = Restrict(db.teams[t].members,
                                      DOMAIN db.teams[t].members \cap db'.users)
  BY DEF OrphansKept
<1> DEFINE m == db.teams[t].members
           S == db'.users
<1>1. m \in Maps(Users, Roles) /\ DOMAIN m \subseteq S
  BY Rows
<1> HIDE DEF m, S
<1>2. Restrict(m, DOMAIN m \cap S) = m
  BY <1>1, RestrictedToAll
<1> QED
  BY <1>2 DEF m, S

\* Projects that stay.
LEMMA ProjectsUntouched ==
  ASSUME db'.projects = db.projects
  PROVE  IdentityKept
BY DEF IdentityKept

\* Steps of the process that leave the tables alone.
LEMMA TablesUntouched ==
  ASSUME DbInv, UNCHANGED db
  PROVE  DbInv' /\ OrphansKept /\ IdentityKept
BY OrphansUntouched, ProjectsUntouched DEF DbInv

-----------------------------------------------------------------------------
(* The process, but for the transaction.                                   *)

\* What every step of the specification must keep.
Kept == SyncInv' /\ OrphansKept /\ IdentityKept

\* A process that stops leaves everything as it is.
LEMMA StopStep ==
  ASSUME SyncInv, Stop, UNCHANGED <<db, late, workload>>
  PROVE  Kept
<1>1. proc' = [proc EXCEPT !.at = "down"]
  BY DEF Stop
<1>2. proc' \in Proc /\ proc'.at = "down"
  BY <1>1 DEF SyncInv, ProcInv, Proc, Places
<1>3. ProcInv' /\ AppliedInv' /\ MatchInv'
  BY <1>2 DEF SyncInv, ProcInv, AppliedInv, MatchInv, Loaded
<1> QED
  BY <1>3, TablesUntouched DEF SyncInv, Kept

\* A process starts with a file and settings.
LEMMA StartStep ==
  ASSUME SyncInv, Start, UNCHANGED workload
  PROVE  Kept
<1>1. PICK f \in workload.files, s \in workload.settings :
        proc' = [at |-> "read", file |-> f, settings |-> s, written |-> 0]
  BY DEF Start
<1>2. f \in File /\ s \in Settings
  BY WorkloadsAssumption DEF SyncInv, ProcInv
<1>3. proc' \in Proc /\ proc'.at = "read" /\ proc'.settings \in Settings /\ proc'.written = 0
  BY <1>1, <1>2 DEF Proc, Places
<1>4. UNCHANGED <<db, late>>
  BY DEF Start
<1>5. ProcInv' /\ AppliedInv' /\ MatchInv'
  BY <1>3, <1>4 DEF SyncInv, ProcInv, AppliedInv, MatchInv, Loaded
<1> QED
  BY <1>4, <1>5, TablesUntouched DEF SyncInv, Kept

\* What the UI manages is discarded, and what the file manages is there.
LEMMA DesiredFile ==
  ASSUME NEW f \in File, NEW s \in Settings, ~Refused(f, s)
  PROVE  /\ Desired(f, s) \in File
         /\ s.teams = "ui" <=> Desired(f, s).teams = None
         /\ s.projects = "ui" <=> Desired(f, s).projects = None
<1>1. /\ s.teams \in {"ui", "yaml"} /\ s.projects \in {"ui", "yaml"} /\ s.notify \in {"ui", "yaml"}
  BY DEF Settings
<1> DEFINE a == Section(s.teams, f.teams)
           b == Section(s.projects, f.projects)
           c == Section(s.notify, f.notifications)
<1>2. /\ a \in Maps(Names, Grants) \cup {None} /\ c \in Values \cup {None}
      /\ b \in Maps(Slugs, [team: Names, fields: Values]) \cup {None}
      /\ s.teams = "ui" <=> a = None
      /\ s.projects = "ui" <=> b = None
  BY <1>1 DEF File, Section, Refused
<1>3. Desired(f, s) = [f EXCEPT !.teams = a, !.projects = b, !.notifications = c]
  BY DEF Desired
<1> HIDE DEF a, b, c
<1> QED
  BY <1>2, <1>3 DEF File

\* read_configuration: the file is refused, discarded section by section, or not
\* read at all.
LEMMA ReadStep ==
  ASSUME SyncInv, Read, UNCHANGED workload
  PROVE  Kept
<1> DEFINE s == proc.settings
           enabled == "yaml" \in {s.projects, s.teams, s.notify}
           next == IF s.service = "env" THEN "service" ELSE "apply"
           loaded == [proc EXCEPT !.at = next, !.file = Desired(@, s)]
<1>1. s \in Settings /\ proc \in Proc /\ UNCHANGED <<db, late>> /\ proc.file \in File
  BY DEF Read, At, SyncInv, ProcInv, Proc
<1>2. \/ enabled /\ ~Refused(proc.file, s) /\ proc' = loaded
      \/ Stop
      \/ ~enabled /\ proc' = [loaded EXCEPT !.file = Nothing]
  BY DEF Read
<1>3. proc.written \in 0..5
  BY <1>1 DEF Proc
<1>4. next \in {"service", "apply"} /\ next \in Places
  BY DEF Places
<1>5. ASSUME NEW d \in File, proc' = [proc EXCEPT !.at = next, !.file = d],
             s.teams = "ui" <=> d.teams = None, s.projects = "ui" <=> d.projects = None
      PROVE  Kept
  <2>1. /\ proc' \in Proc /\ proc'.at = next /\ proc'.file = d /\ proc'.settings = s
        /\ proc'.written = proc.written
    BY <1>1, <1>4, <1>5 DEF Proc
  <2>2. proc.at = "read" /\ proc.written = 0
    BY DEF Read, At, SyncInv, ProcInv
  <2>3. ProcInv'
    BY <1>1, <1>5, <2>1, <2>2 DEF SyncInv, ProcInv, Loaded
  <2>4. AppliedInv' /\ MatchInv'
    BY <1>4, <2>1 DEF AppliedInv, MatchInv
  <2> QED
    BY <1>1, <2>3, <2>4, TablesUntouched DEF SyncInv, Kept
<1>6. CASE enabled /\ ~Refused(proc.file, s) /\ proc' = loaded
  <2> DEFINE d == Desired(proc.file, s)
  <2>1. d \in File /\ (s.teams = "ui" <=> d.teams = None) /\ (s.projects = "ui" <=> d.projects = None)
    BY <1>1, <1>6, DesiredFile
  <2> QED
    BY <1>5, <1>6, <2>1
<1>7. CASE ~enabled /\ proc' = [loaded EXCEPT !.file = Nothing]
  <2>1. Nothing \in File /\ Nothing.teams = None /\ Nothing.projects = None
    BY DEF Nothing, File
  <2>2. s.teams = "ui" /\ s.projects = "ui"
    BY <1>1, <1>7 DEF Settings
  <2>3. proc' = [proc EXCEPT !.at = next, !.file = Nothing]
    BY <1>1, <1>7 DEF Proc
  <2> QED
    BY <1>5, <2>1, <2>2, <2>3
<1> QED
  BY <1>1, <1>2, <1>6, <1>7, StopStep

\* The single-row settings are five.
LEMMA FiveFields == Len(Fields) = 5 /\ DOMAIN Fields = 1..5 /\ \A i \in 1..5 : Fields[i] \in Range(Fields)
BY DEF Fields, Range

\* One setting of the environment is written.
LEMMA WriteServiceStep ==
  ASSUME SyncInv, WriteService, UNCHANGED workload
  PROVE  Kept
<1> DEFINE i == proc.written + 1
           s == proc.settings
           at == IF i = Len(Fields) THEN "apply" ELSE "service"
           service == [db.service EXCEPT ![Fields[i]] = s.value]
<1>1. /\ proc.at = "service" /\ UNCHANGED late /\ s \in Settings /\ proc \in Proc /\ db \in Db
      /\ s.service = "env"
  BY DEF WriteService, At, SyncInv, ProcInv, DbInv, Loaded
<1>2. proc.written \in 0..5 /\ proc.written # 5
  BY <1>1 DEF SyncInv, ProcInv, Proc, Loaded
<1>3. i \in 1..5 /\ (i = 5 <=> at = "apply") /\ at \in {"apply", "service"}
  BY <1>2, FiveFields
<1>4. CASE Fields[i] = "notifications" /\ ~s.valid
  <2>1. Stop /\ UNCHANGED db
    BY <1>4 DEF WriteService
  <2> QED
    BY <1>1, <2>1, StopStep
<1>5. CASE ~(Fields[i] = "notifications" /\ ~s.valid)
  <2>1. db' = [db EXCEPT !.service[Fields[i]] = s.value] /\ proc' = [proc EXCEPT !.written = i, !.at = at]
    BY <1>5 DEF WriteService
  <2>2. db' = [db EXCEPT !.service = service]
    BY <1>1, <2>1 DEF Db
  <2>3. db.service \in [Range(Fields) -> Values \cup {None}] /\ s.value \in Values /\ Fields[i] \in Range(Fields)
    BY <1>1, <1>3, FiveFields DEF Db, Settings
  <2>4. service \in [Range(Fields) -> Values \cup {None}]
    BY <2>3
  <2>5. \A j \in 1..i : service[Fields[j]] = s.value
    <3>1. \A j \in 1..proc.written : db.service[Fields[j]] = s.value
      BY <1>1 DEF SyncInv, ProcInv, Loaded
    <3>2. \A j \in 1..i : j = i \/ j \in 1..proc.written
      BY <1>2
    <3>3. \A j \in 1..i : Fields[j] \in Range(Fields)
      BY <1>3, FiveFields
    <3> QED
      BY <2>3, <3>1, <3>2, <3>3
  <2> HIDE DEF service, at, i
  <2>6. /\ db' \in Db /\ db'.service = service /\ db'.teams = db.teams /\ db'.projects = db.projects
        /\ db'.users = db.users /\ db'.fresh = db.fresh /\ db'.defaults = db.defaults
        /\ db'.drawn = db.drawn
    BY <1>1, <2>2, <2>4 DEF Db
  <2>7. /\ proc' \in Proc /\ proc'.at = at /\ proc'.written = i /\ proc'.file = proc.file
        /\ proc'.settings = s
    <3>1. i \in 0..5 /\ at \in Places
      BY <1>3 DEF Places
    <3> QED
      BY <1>1, <2>1, <3>1 DEF Proc
  <2>8. DbInv'
    BY <2>6 DEF SyncInv, DbInv
  <2>9. ProcInv'
    BY <1>1, <1>3, <2>5, <2>6, <2>7 DEF SyncInv, ProcInv, Loaded
  <2>10. AppliedInv' /\ MatchInv'
    BY <1>3, <2>7 DEF AppliedInv, MatchInv
  <2>11. OrphansKept /\ IdentityKept
    BY <2>6, OrphansUntouched, ProjectsUntouched DEF SyncInv
  <2> QED
    BY <2>8, <2>9, <2>10, <2>11 DEF SyncInv, Kept
<1> QED
  BY <1>4, <1>5

\* set_default_team_ids, the last step before the server serves.
LEMMA WriteDefaultsStep ==
  ASSUME SyncInv, WriteDefaults, UNCHANGED workload
  PROVE  Kept
<1> DEFINE s == proc.settings
<1>1. /\ proc.at = "defaults" /\ UNCHANGED late /\ s \in Settings /\ proc \in Proc /\ db \in Db
  BY DEF WriteDefaults, At, SyncInv, ProcInv, DbInv
<1>2. CASE Stop /\ UNCHANGED db
  BY <1>1, <1>2, StopStep
<1>3. CASE /\ s.defaults \subseteq DOMAIN db.teams
           /\ db' = [db EXCEPT !.defaults = s.defaults]
           /\ Goto("serving")
  <2>1. proc' = [proc EXCEPT !.at = "serving"]
    BY <1>3 DEF Goto
  <2>2. /\ proc' \in Proc /\ proc'.at = "serving" /\ proc'.written = proc.written
        /\ proc'.file = proc.file /\ proc'.settings = s
    BY <1>1, <2>1 DEF Proc, Places
  <2>3. s.defaults \in SUBSET Names
    BY <1>1 DEF Settings
  <2>4. /\ db' \in Db /\ db'.service = db.service /\ db'.teams = db.teams /\ db'.projects = db.projects
        /\ db'.users = db.users /\ db'.fresh = db.fresh /\ db'.defaults = s.defaults
        /\ db'.drawn = db.drawn /\ db'.groups = db.groups
    BY <1>1, <1>3, <2>3 DEF Db
  <2>5. DbInv'
    BY <1>3, <2>4 DEF SyncInv, DbInv
  <2>6. ProcInv'
    BY <1>1, <2>2, <2>4 DEF SyncInv, ProcInv, Loaded
  <2>7. AppliedInv'
    BY <1>1, <2>2, <2>4 DEF SyncInv, AppliedInv
  <2>8. MatchInv'
    BY <1>1, <2>2, <2>4 DEF SyncInv, MatchInv
  <2>9. OrphansKept /\ IdentityKept
    BY <2>4, OrphansUntouched, ProjectsUntouched DEF SyncInv
  <2> QED
    BY <2>5, <2>6, <2>7, <2>8, <2>9 DEF SyncInv, Kept
<1> QED
  BY <1>2, <1>3 DEF WriteDefaults

-----------------------------------------------------------------------------
(* While it serves.                                                        *)

\* The tables stay what the file says as long as requests change only what the
\* UI manages, and memberships only together with what grants them.
LEMMA ServingFrame ==
  ASSUME SyncInv, At("serving"), UNCHANGED <<proc, late, workload>>, DbInv',
         db'.service = db.service,
         \/ proc.settings.teams = "ui" /\ \A t \in DOMAIN db'.teams : ~db'.teams[t].orphaned
         \/ /\ DOMAIN db'.teams = DOMAIN db.teams
            /\ \A t \in DOMAIN db.teams : /\ db'.teams[t].orphaned = db.teams[t].orphaned
                                          /\ db'.teams[t].grants = db.teams[t].grants,
         \/ proc.settings.projects = "ui" /\ \A p \in DOMAIN db'.projects : ~db'.projects[p].orphaned
         \/ /\ DOMAIN db'.projects = DOMAIN db.projects
            /\ \A p \in DOMAIN db.projects : /\ db'.projects[p].orphaned = db.projects[p].orphaned
                                             /\ db'.projects[p].team = db.projects[p].team
                                             /\ db'.projects[p].fields = db.projects[p].fields,
         \/ db'.defaults = db.defaults
         \/ proc.settings.teams = "ui" /\ db'.defaults \subseteq db.defaults,
         proc.settings.teams = "yaml" =>
           \A t \in DOMAIN proc.file.teams, u \in db'.users \ db'.fresh :
             Matches(db'.teams[t], u, db'.groups[u])
  PROVE  SyncInv'
<1>1. proc.at = "serving" /\ proc.settings \in Settings
  BY DEF At, SyncInv, ProcInv
<1>2. ProcInv'
  BY <1>1 DEF SyncInv, ProcInv
<1>3. AppliedInv'
  BY <1>1 DEF SyncInv, AppliedInv
<1>4. MatchInv'
  BY DEF MatchInv
<1> QED
  BY <1>2, <1>3, <1>4 DEF SyncInv

\* What the fields of the tables are.
LEMMA DbFields ==
  ASSUME DbInv
  PROVE  /\ db \in Db /\ db.users \subseteq Users /\ db.fresh \subseteq db.users
         /\ db.groups \in [Users -> SUBSET Groups] /\ db.drawn \in [Slugs -> 0..MaxKeys]
         /\ db.defaults \subseteq Names
BY DEF DbInv, Db

\* What the teams file says of a team while the server serves.
LEMMA DeclaredTeams ==
  ASSUME SyncInv, At("serving")
  PROVE  /\ proc.settings.teams \in {"ui", "yaml"} /\ proc.settings.projects \in {"ui", "yaml"}
         /\ proc.settings.teams = "ui" => \A t \in DOMAIN db.teams : ~db.teams[t].orphaned
         /\ proc.settings.projects = "ui" => \A p \in DOMAIN db.projects : ~db.projects[p].orphaned
         /\ proc.settings.teams = "yaml" =>
              /\ \A t \in DOMAIN proc.file.teams : t \in DOMAIN db.teams /\ ~db.teams[t].orphaned
              /\ \A t \in DOMAIN proc.file.teams, u \in db.users \ db.fresh :
                   Matches(db.teams[t], u, db.groups[u])
BY DEF SyncInv, ProcInv, AppliedInv, MatchInv, At, Settings

\* An account is created, and joins the default teams that the UI manages.
LEMMA CreateUserStep ==
  ASSUME SyncInv, CreateUser, UNCHANGED <<proc, late, workload>>
  PROVE  Kept
<1>1. At("serving") /\ DbInv
  BY DEF CreateUser, Serving, SyncInv
<1> DEFINE ui == proc.settings.teams = "ui"
<1>2. PICK u \in Users \ db.users :
       db' = [db EXCEPT !.users = @ \cup {u}, !.fresh = @ \cup {u},
                !.teams = [t \in DOMAIN @ |->
                  IF ui /\ t \in db.defaults
                  THEN Joined(@[t], u, "contributor") ELSE @[t]]]
  BY DEF CreateUser, Ui
<1> DEFINE teams == [t \in DOMAIN db.teams |->
                       IF ui /\ t \in db.defaults THEN Joined(db.teams[t], u, "contributor")
                       ELSE db.teams[t]]
<1>3. /\ db \in Db /\ db.users \subseteq Users /\ db.fresh \subseteq db.users
      /\ DOMAIN db.teams \subseteq Names
  BY <1>1, DbFields, Rows
<1>4. db' = [db EXCEPT !.users = db.users \cup {u}, !.fresh = db.fresh \cup {u}, !.teams = teams]
  BY <1>2
<1>5. ASSUME NEW t \in DOMAIN db.teams
      PROVE  /\ teams[t] \in Team /\ teams[t].orphaned = db.teams[t].orphaned
             /\ teams[t].grants = db.teams[t].grants
             /\ DOMAIN teams[t].members \subseteq db.users \cup {u}
             /\ ~ui => teams[t] = db.teams[t]
  <2>1. /\ db.teams[t] \in Team /\ db.teams[t].members \in Maps(Users, Roles)
        /\ DOMAIN db.teams[t].members \subseteq db.users
    BY <1>1, Rows
  <2>2. CASE ui /\ t \in db.defaults
    <3>1. teams[t] = Joined(db.teams[t], u, "contributor") /\ "contributor" \in Roles /\ u \in Users
      BY <2>2 DEF Roles
    <3> HIDE DEF teams
    <3> QED
      BY <2>1, <2>2, <3>1, JoinedTeam
  <2>3. CASE ~(ui /\ t \in db.defaults)
    BY <2>1, <2>3
  <2> QED
    BY <2>2, <2>3
<1>6. DOMAIN teams = DOMAIN db.teams /\ teams \in [DOMAIN db.teams -> Team]
  BY <1>5
<1> HIDE DEF teams
<1>7. teams \in Maps(Names, Team)
  BY <1>3, <1>6, MapMade
<1>8. /\ db' \in Db /\ db'.users = db.users \cup {u} /\ db'.fresh = db.fresh \cup {u}
      /\ db'.teams = teams /\ db'.projects = db.projects /\ db'.service = db.service
      /\ db'.defaults = db.defaults /\ db'.groups = db.groups /\ db'.drawn = db.drawn
  BY <1>3, <1>4, <1>7 DEF Db
<1>9. DbInv'
  BY <1>1, <1>5, <1>6, <1>8 DEF DbInv
<1>10. proc.settings.teams = "yaml" =>
         \A t \in DOMAIN proc.file.teams, v \in db'.users \ db'.fresh :
           Matches(db'.teams[t], v, db'.groups[v])
  BY <1>1, <1>5, <1>8, DeclaredTeams
<1>11. SyncInv'
  BY <1>1, <1>5, <1>6, <1>8, <1>9, <1>10, ServingFrame
<1>12. OrphansKept
  <2>1. \A t \in DOMAIN db.teams : db.teams[t].orphaned => teams[t].members = db.teams[t].members
    BY <1>1, <1>5, DeclaredTeams
  <2> QED
    BY <1>1, <1>8, <2>1, OrphansUntouched
<1> QED
  BY <1>8, <1>11, <1>12, ProjectsUntouched DEF Kept

\* An account is deleted, with its memberships, frozen or not.
LEMMA DeleteUserStep ==
  ASSUME SyncInv, DeleteUser, UNCHANGED <<proc, late, workload>>
  PROVE  Kept
<1>1. At("serving") /\ DbInv
  BY DEF DeleteUser, Serving, SyncInv
<1>2. PICK u \in db.users :
       db' = [db EXCEPT !.users = @ \ {u}, !.fresh = @ \ {u}, !.groups[u] = {},
                !.teams = [t \in DOMAIN @ |-> Left(@[t], u)]]
  BY DEF DeleteUser
<1> DEFINE teams == [t \in DOMAIN db.teams |-> Left(db.teams[t], u)]
           groups == [db.groups EXCEPT ![u] = {}]
<1>3. /\ db \in Db /\ db.users \subseteq Users /\ db.fresh \subseteq db.users
      /\ DOMAIN db.teams \subseteq Names /\ db.groups \in [Users -> SUBSET Groups]
  BY <1>1, DbFields, Rows
<1>4. db' = [db EXCEPT !.users = db.users \ {u}, !.fresh = db.fresh \ {u}, !.groups = groups, !.teams = teams]
  BY <1>2
<1>5. ASSUME NEW t \in DOMAIN db.teams
      PROVE  /\ teams[t] \in Team /\ teams[t].orphaned = db.teams[t].orphaned
             /\ teams[t].grants = db.teams[t].grants
             /\ teams[t].members = Without(db.teams[t].members, u)
             /\ DOMAIN teams[t].members = DOMAIN db.teams[t].members \ {u}
             /\ \A v \in DOMAIN db.teams[t].members \ {u} : teams[t].members[v] = db.teams[t].members[v]
  <2>1. db.teams[t] \in Team /\ teams[t] = Left(db.teams[t], u)
    BY <1>1, Rows
  <2> HIDE DEF teams
  <2> QED
    BY <2>1, LeftTeam
<1>6. DOMAIN teams = DOMAIN db.teams /\ teams \in [DOMAIN db.teams -> Team]
  BY <1>5
<1>7. groups \in [Users -> SUBSET Groups] /\ \A v \in Users \ {u} : groups[v] = db.groups[v]
  BY <1>3
<1> HIDE DEF teams, groups
<1>8. teams \in Maps(Names, Team)
  BY <1>3, <1>6, MapMade
<1>9. /\ db' \in Db /\ db'.users = db.users \ {u} /\ db'.fresh = db.fresh \ {u}
      /\ db'.teams = teams /\ db'.projects = db.projects /\ db'.service = db.service
      /\ db'.defaults = db.defaults /\ db'.groups = groups /\ db'.drawn = db.drawn
  BY <1>3, <1>4, <1>7, <1>8 DEF Db
<1>10. \A t \in DOMAIN db.teams : DOMAIN db.teams[t].members \subseteq db.users
  BY <1>1, Rows
<1>11. DbInv'
  BY <1>1, <1>5, <1>6, <1>9, <1>10 DEF DbInv
<1>12. ASSUME NEW t \in DOMAIN db.teams, NEW v \in db.users \ db.fresh, v # u,
              Matches(db.teams[t], v, db.groups[v])
       PROVE  Matches(teams[t], v, groups[v])
  <2>1. v \in Users /\ groups[v] = db.groups[v]
    BY <1>3, <1>7, <1>12
  <2> QED
    BY <1>5, <1>12, <2>1 DEF Matches
<1>13. proc.settings.teams = "yaml" =>
         \A t \in DOMAIN proc.file.teams, v \in db'.users \ db'.fresh :
           Matches(db'.teams[t], v, db'.groups[v])
  BY <1>1, <1>9, <1>12, DeclaredTeams
<1>14. SyncInv'
  BY <1>1, <1>5, <1>6, <1>9, <1>11, <1>13, ServingFrame
<1>15. OrphansKept
  <2> SUFFICES ASSUME NEW t \in DOMAIN db.teams
               PROVE  teams[t].members = Restrict(db.teams[t].members,
                                                  DOMAIN db.teams[t].members \cap (db.users \ {u}))
    BY <1>6, <1>9 DEF OrphansKept
  <2>1. DOMAIN db.teams[t].members \cap (db.users \ {u}) = DOMAIN db.teams[t].members \ {u}
    BY <1>10
  <2> QED
    BY <1>5, <2>1 DEF Without
<1> QED
  BY <1>9, <1>14, <1>15, ProjectsUntouched DEF Kept

\* What reconcile_user_grants makes of a team's row.
Given(t, u, groups) ==
  IF RolesOf(t.grants, u, groups) = {} THEN Left(t, u)
  ELSE Joined(t, u, Best(RolesOf(t.grants, u, groups)))

\* The user then has what the grants say, and nobody else is touched.
LEMMA GivenTeam ==
  ASSUME NEW r \in Team, NEW u \in Users, NEW groups
  PROVE  /\ Given(r, u, groups) \in Team
         /\ Given(r, u, groups).orphaned = r.orphaned /\ Given(r, u, groups).grants = r.grants
         /\ DOMAIN Given(r, u, groups).members \ {u} = DOMAIN r.members \ {u}
         /\ \A v \in DOMAIN r.members \ {u} : Given(r, u, groups).members[v] = r.members[v]
         /\ Matches(Given(r, u, groups), u, groups)
<1> DEFINE roles == RolesOf(r.grants, u, groups)
<1>1. CASE roles = {}
  <2>1. Given(r, u, groups) = Left(r, u)
    BY <1>1 DEF Given
  <2> HIDE DEF roles
  <2>2. Matches(Left(r, u), u, groups)
    BY <1>1, LeftTeam DEF Matches, roles
  <2> QED
    BY <2>1, <2>2, LeftTeam
<1>2. CASE roles # {}
  <2>1. Given(r, u, groups) = Joined(r, u, Best(roles))
    BY <1>2 DEF Given
  <2>2. Best(roles) \in Roles /\ (Best(roles) = "admin" <=> "admin" \in roles)
    BY DEF Best, Roles
  <2> HIDE DEF roles
  <2> DEFINE b == Best(roles)
  <2> HIDE DEF b
  <2>3. b \in Roles /\ (b = "admin" <=> "admin" \in roles) /\ Given(r, u, groups) = Joined(r, u, b)
    BY <2>1, <2>2 DEF b
  <2>4. Matches(Joined(r, u, b), u, groups)
    BY <1>2, <2>3, JoinedTeam DEF Matches, roles
  <2> QED
    BY <2>3, <2>4, JoinedTeam
<1> QED
  BY <1>1, <1>2

\* An SSO sign-in: the user's roles are recomputed in all teams but the frozen.
LEMMA SignInStep ==
  ASSUME SyncInv, SignIn, UNCHANGED <<proc, late, workload>>
  PROVE  Kept
<1>1. At("serving") /\ DbInv /\ proc.settings.teams = "yaml"
  BY DEF SignIn, Serving, SyncInv
<1>2. PICK u \in db.users, gs \in SUBSET Groups :
        db' = [db EXCEPT !.groups[u] = gs, !.fresh = @ \ {u},
                 !.teams = [t \in DOMAIN @ |-> IF t \in Reconciled THEN Given(@[t], u, gs) ELSE @[t]]]
  BY DEF SignIn, Given, RolesOf
<1> DEFINE teams == [t \in DOMAIN db.teams |->
                       IF t \in Reconciled THEN Given(db.teams[t], u, gs) ELSE db.teams[t]]
           groups == [db.groups EXCEPT ![u] = gs]
<1>3. /\ db \in Db /\ db.users \subseteq Users /\ db.fresh \subseteq db.users
      /\ DOMAIN db.teams \subseteq Names /\ db.groups \in [Users -> SUBSET Groups]
      /\ u \in Users
  BY <1>1, DbFields, Rows
<1>4. db' = [db EXCEPT !.fresh = db.fresh \ {u}, !.groups = groups, !.teams = teams]
  BY <1>2, <1>3 DEF Db
<1>5. ASSUME NEW t \in DOMAIN db.teams
      PROVE  /\ teams[t] \in Team /\ teams[t].orphaned = db.teams[t].orphaned
             /\ teams[t].grants = db.teams[t].grants
             /\ DOMAIN teams[t].members \ {u} = DOMAIN db.teams[t].members \ {u}
             /\ \A v \in DOMAIN db.teams[t].members \ {u} : teams[t].members[v] = db.teams[t].members[v]
             /\ t \in Reconciled => Matches(teams[t], u, gs)
             /\ db.teams[t].orphaned => teams[t] = db.teams[t]
  <2>1. db.teams[t] \in Team
    BY <1>1, Rows
  <2>2. teams[t] = IF t \in Reconciled THEN Given(db.teams[t], u, gs) ELSE db.teams[t]
    OBVIOUS
  <2>3. db.teams[t].orphaned => t \notin Reconciled
    BY DEF Reconciled
  <2> HIDE DEF teams
  <2>4. CASE t \in Reconciled
    BY <1>3, <2>1, <2>2, <2>3, <2>4, GivenTeam
  <2>5. CASE t \notin Reconciled
    BY <2>1, <2>2, <2>5
  <2> QED
    BY <2>4, <2>5
<1>6. DOMAIN teams = DOMAIN db.teams /\ teams \in [DOMAIN db.teams -> Team]
  BY <1>5
<1>7. /\ groups \in [Users -> SUBSET Groups] /\ \A v \in Users \ {u} : groups[v] = db.groups[v]
      /\ groups[u] = gs
  BY <1>3
<1> HIDE DEF teams, groups
<1>8. teams \in Maps(Names, Team)
  BY <1>3, <1>6, MapMade
<1>9. /\ db' \in Db /\ db'.users = db.users /\ db'.fresh = db.fresh \ {u}
      /\ db'.teams = teams /\ db'.projects = db.projects /\ db'.service = db.service
      /\ db'.defaults = db.defaults /\ db'.groups = groups /\ db'.drawn = db.drawn
  BY <1>3, <1>4, <1>7, <1>8 DEF Db
<1>10. \A t \in DOMAIN db.teams : DOMAIN db.teams[t].members \subseteq db.users
  BY <1>1, Rows
<1>11. DbInv'
  <2>1. \A t \in DOMAIN db.teams : DOMAIN teams[t].members \subseteq db.users
    BY <1>5, <1>10
  <2> QED
    BY <1>1, <1>6, <1>9, <2>1 DEF DbInv
<1>12. ASSUME NEW t \in DOMAIN db.teams, NEW v \in db.users \ db.fresh, v # u,
              Matches(db.teams[t], v, db.groups[v])
       PROVE  Matches(teams[t], v, groups[v])
  <2>1. v \in Users /\ groups[v] = db.groups[v]
    BY <1>3, <1>7, <1>12
  <2> QED
    BY <1>5, <1>12, <2>1 DEF Matches
<1>13. ASSUME NEW t \in DOMAIN proc.file.teams, NEW v \in db'.users \ db'.fresh
       PROVE  Matches(db'.teams[t], v, db'.groups[v])
  <2>1. t \in DOMAIN db.teams /\ t \in Reconciled
    BY <1>1, DeclaredTeams DEF Reconciled
  <2>2. CASE v = u
    BY <1>5, <1>7, <1>9, <2>1, <2>2
  <2>3. CASE v # u
    <3>1. v \in db.users \ db.fresh
      BY <1>9, <2>3
    <3>2. Matches(db.teams[t], v, db.groups[v])
      BY <1>1, <3>1, DeclaredTeams
    <3> QED
      BY <1>9, <1>12, <2>1, <2>3, <3>1, <3>2
  <2> QED
    BY <2>2, <2>3
<1>14. SyncInv'
  BY <1>1, <1>5, <1>6, <1>9, <1>11, <1>13, ServingFrame
<1>15. OrphansKept
  BY <1>1, <1>5, <1>9, OrphansUntouched
<1> QED
  BY <1>9, <1>14, <1>15, ProjectsUntouched DEF Kept

\* Another value for a key of a map.
LEMMA MapReplaced ==
  ASSUME NEW X, NEW Y, NEW f \in Maps(X, Y), NEW x \in DOMAIN f, NEW y \in Y
  PROVE  [f EXCEPT ![x] = y] \in Maps(X, Y)
<1>1. DOMAIN f \subseteq X /\ \A k \in DOMAIN f : f[k] \in Y
  BY MapFacts
<1> DEFINE S == DOMAIN f
<1>2. f \in [S -> Y] /\ S \in SUBSET X
  BY <1>1, MapFacts
<1>3. [f EXCEPT ![x] = y] \in [S -> Y]
  BY <1>2
<1> QED
  BY <1>2, <1>3, MapMade

\* Teams edited in the UI: none is frozen, none that owns a project goes.
LEMMA TeamsEdited ==
  ASSUME SyncInv, At("serving"), UNCHANGED <<proc, late, workload>>, proc.settings.teams = "ui",
         NEW teams \in Maps(Names, Team), NEW defaults \in SUBSET Names,
         \A t \in DOMAIN teams : /\ ~teams[t].orphaned
                                 /\ DOMAIN teams[t].members \subseteq db.users,
         \A p \in DOMAIN db.projects : db.projects[p].team \in DOMAIN teams,
         defaults \subseteq DOMAIN teams, defaults \subseteq db.defaults,
         db' = [db EXCEPT !.teams = teams, !.defaults = defaults]
  PROVE  Kept
<1>1. db \in Db /\ DbInv
  BY DEF SyncInv, DbInv
<1>2. /\ db' \in Db /\ db'.users = db.users /\ db'.fresh = db.fresh
      /\ db'.teams = teams /\ db'.projects = db.projects /\ db'.service = db.service
      /\ db'.defaults = defaults /\ db'.groups = db.groups /\ db'.drawn = db.drawn
  BY <1>1 DEF Db
<1>3. DbInv'
  BY <1>1, <1>2 DEF DbInv
<1>4. SyncInv'
  BY <1>2, <1>3, ServingFrame
<1>5. OrphansKept
  BY <1>2 DEF OrphansKept
<1> QED
  BY <1>2, <1>4, <1>5, ProjectsUntouched DEF Kept

\* A team is created, deleted while it owns no project, or its members edited.
LEMMA EditTeamsStep ==
  ASSUME SyncInv, EditTeams, UNCHANGED <<proc, late, workload>>
  PROVE  Kept
<1>1. At("serving") /\ DbInv /\ proc.settings.teams = "ui"
  BY DEF EditTeams, Serving, Ui, SyncInv
<1>2. /\ \A t \in DOMAIN db.teams : /\ ~db.teams[t].orphaned /\ db.teams[t] \in Team
                                    /\ DOMAIN db.teams[t].members \subseteq db.users
      /\ \A p \in DOMAIN db.projects : db.projects[p].team \in DOMAIN db.teams
      /\ db.teams \in Maps(Names, Team) /\ db.defaults \subseteq DOMAIN db.teams
      /\ db.users \subseteq Users /\ db.defaults \in SUBSET Names /\ db \in Db
  BY <1>1, Rows, DbFields, DeclaredTeams DEF DbInv
<1>3. PICK t \in Names :
       \/ t \notin DOMAIN db.teams /\ db' = [db EXCEPT !.teams = Extended(@, t, NoTeam)]
       \/ /\ t \in DOMAIN db.teams
          /\ \A p \in DOMAIN db.projects : db.projects[p].team # t
          /\ db' = [db EXCEPT !.teams = Without(@, t), !.defaults = @ \ {t}]
       \/ /\ t \in DOMAIN db.teams
          /\ \E u \in db.users :
               \/ \E role \in Roles : db' = [db EXCEPT !.teams[t] = Joined(@, u, role)]
               \/ db' = [db EXCEPT !.teams[t] = Left(@, u)]
  BY DEF EditTeams
<1>4. CASE t \notin DOMAIN db.teams /\ db' = [db EXCEPT !.teams = Extended(@, t, NoTeam)]
  <2> DEFINE teams == Extended(db.teams, t, NoTeam)
             defaults == db.defaults
  <2>1. NoTeam \in Team /\ ~NoTeam.orphaned /\ DOMAIN NoTeam.members = {}
    BY NothingMapped DEF NoTeam, NoGrants, Team, Grants
  <2>2. teams \in Maps(Names, Team)
    BY <1>2, <2>1, MapExtended
  <2>3. /\ DOMAIN teams = DOMAIN db.teams \cup {t} /\ teams[t] = NoTeam
        /\ \A k \in DOMAIN db.teams \ {t} : teams[k] = db.teams[k]
    BY DEF Extended
  <2>4. db' = [db EXCEPT !.teams = teams, !.defaults = defaults]
    BY <1>2, <1>4 DEF Db
  <2> HIDE DEF teams, defaults
  <2>5. \A k \in DOMAIN teams : ~teams[k].orphaned /\ DOMAIN teams[k].members \subseteq db.users
    BY <1>2, <2>1, <2>3
  <2>6. defaults \subseteq DOMAIN teams /\ defaults \subseteq db.defaults /\ defaults \in SUBSET Names
    BY <1>2, <2>3 DEF defaults
  <2> QED
    BY <1>1, <1>2, <2>2, <2>3, <2>4, <2>5, <2>6, TeamsEdited
<1>5. CASE /\ \A p \in DOMAIN db.projects : db.projects[p].team # t
           /\ db' = [db EXCEPT !.teams = Without(@, t), !.defaults = @ \ {t}]
  <2> DEFINE teams == Without(db.teams, t)
             defaults == db.defaults \ {t}
  <2>1. teams \in Maps(Names, Team)
    BY <1>2, MapWithout
  <2>2. DOMAIN teams = DOMAIN db.teams \ {t} /\ \A k \in DOMAIN teams : teams[k] = db.teams[k]
    BY DEF Without, Restrict
  <2>3. db' = [db EXCEPT !.teams = teams, !.defaults = defaults]
    BY <1>5
  <2>4. defaults \subseteq db.defaults /\ defaults \subseteq DOMAIN teams /\ defaults \in SUBSET Names
    BY <1>2, <2>2
  <2> HIDE DEF teams, defaults
  <2>5. \A k \in DOMAIN teams : ~teams[k].orphaned /\ DOMAIN teams[k].members \subseteq db.users
    BY <1>2, <2>2
  <2>6. \A p \in DOMAIN db.projects : db.projects[p].team \in DOMAIN teams
    BY <1>2, <1>5, <2>2
  <2> QED
    BY <1>1, <2>1, <2>3, <2>4, <2>5, <2>6, TeamsEdited
<1>6. ASSUME t \in DOMAIN db.teams, NEW r \in Team, r.orphaned = FALSE,
             DOMAIN r.members \subseteq db.users, db' = [db EXCEPT !.teams[t] = r]
      PROVE  Kept
  <2> DEFINE teams == [db.teams EXCEPT ![t] = r]
             defaults == db.defaults
  <2>1. teams \in Maps(Names, Team)
    BY <1>2, <1>6, MapReplaced
  <2>2. DOMAIN teams = DOMAIN db.teams /\ \A k \in DOMAIN teams : teams[k] = IF k = t THEN r ELSE db.teams[k]
    OBVIOUS
  <2>3. db' = [db EXCEPT !.teams = teams, !.defaults = defaults]
    BY <1>2, <1>6 DEF Db
  <2> HIDE DEF teams, defaults
  <2>4. \A k \in DOMAIN teams : ~teams[k].orphaned /\ DOMAIN teams[k].members \subseteq db.users
    BY <1>2, <1>6, <2>2
  <2>5. defaults \subseteq DOMAIN teams /\ defaults \subseteq db.defaults /\ defaults \in SUBSET Names
    BY <1>2, <2>2 DEF defaults
  <2> QED
    BY <1>1, <1>2, <2>1, <2>2, <2>3, <2>4, <2>5, TeamsEdited
<1>7. ASSUME t \in DOMAIN db.teams, NEW u \in db.users, NEW role \in Roles,
             db' = [db EXCEPT !.teams[t] = Joined(@, u, role)]
      PROVE  Kept
  <2> DEFINE r == Joined(db.teams[t], u, role)
  <2>1. db.teams[t] \in Team /\ u \in Users
    BY <1>2, <1>7
  <2>2. r \in Team /\ r.orphaned = FALSE /\ DOMAIN r.members \subseteq db.users
    BY <1>2, <1>7, <2>1, JoinedTeam
  <2>3. db' = [db EXCEPT !.teams[t] = r]
    BY <1>7
  <2> HIDE DEF r
  <2> QED
    BY <1>6, <1>7, <2>2, <2>3
<1>8. ASSUME t \in DOMAIN db.teams, NEW u \in db.users, db' = [db EXCEPT !.teams[t] = Left(@, u)]
      PROVE  Kept
  <2> DEFINE r == Left(db.teams[t], u)
  <2>1. r \in Team /\ r.orphaned = FALSE /\ DOMAIN r.members \subseteq db.users
    BY <1>2, <1>8, LeftTeam
  <2>2. db' = [db EXCEPT !.teams[t] = r]
    BY <1>8
  <2> HIDE DEF r
  <2> QED
    BY <1>6, <1>8, <2>1, <2>2
<1> QED
  BY <1>3, <1>4, <1>5, <1>7, <1>8

\* Projects edited while the server serves: what the file declares of a project
\* is edited only where the UI manages projects.
LEMMA ProjectsEdited ==
  ASSUME SyncInv, At("serving"), UNCHANGED <<proc, late, workload>>,
         NEW projects \in Maps(Slugs, Project), NEW drawn \in [Slugs -> 0..MaxKeys],
         \A p \in DOMAIN projects : /\ projects[p].team \in DOMAIN db.teams
                                    /\ projects[p].key <= drawn[p],
         \/ proc.settings.projects = "ui" /\ \A p \in DOMAIN projects : ~projects[p].orphaned
         \/ /\ DOMAIN projects = DOMAIN db.projects
            /\ \A p \in DOMAIN db.projects : /\ projects[p].orphaned = db.projects[p].orphaned
                                             /\ projects[p].team = db.projects[p].team
                                             /\ projects[p].fields = db.projects[p].fields,
         db' = [db EXCEPT !.projects = projects, !.drawn = drawn]
  PROVE  Kept
<1>1. db \in Db /\ DbInv
  BY DEF SyncInv, DbInv
<1>2. /\ db' \in Db /\ db'.users = db.users /\ db'.fresh = db.fresh
      /\ db'.teams = db.teams /\ db'.projects = projects /\ db'.service = db.service
      /\ db'.defaults = db.defaults /\ db'.groups = db.groups /\ db'.drawn = drawn
  BY <1>1 DEF Db
<1>3. DbInv'
  BY <1>1, <1>2 DEF DbInv
<1>4. proc.settings.teams = "yaml" =>
        \A t \in DOMAIN proc.file.teams, u \in db'.users \ db'.fresh :
          Matches(db'.teams[t], u, db'.groups[u])
  BY <1>2, DeclaredTeams
<1>5. SyncInv'
  BY <1>2, <1>3, <1>4, ServingFrame
<1>6. OrphansKept
  BY <1>1, <1>2, OrphansUntouched
<1>7. IdentityKept
  BY <1>2 DEF IdentityKept
<1> QED
  BY <1>5, <1>6, <1>7 DEF Kept

\* What is known of the projects while the server serves.
LEMMA ServedProjects ==
  ASSUME SyncInv, At("serving")
  PROVE  /\ db \in Db /\ db.projects \in Maps(Slugs, Project) /\ DOMAIN db.projects \subseteq Slugs
         /\ db.drawn \in [Slugs -> 0..MaxKeys] /\ DOMAIN db.teams \subseteq Names
         /\ \A p \in DOMAIN db.projects : /\ db.projects[p] \in Project
                                          /\ db.projects[p].team \in DOMAIN db.teams
                                          /\ db.projects[p].key <= db.drawn[p]
         /\ proc.settings.projects = "ui" => \A p \in DOMAIN db.projects : ~db.projects[p].orphaned
<1>1. DbInv
  BY DEF SyncInv
<1> QED
  BY <1>1, Rows, DbFields, DeclaredTeams DEF DbInv

\* One row replaced, with no key drawn.
LEMMA RowReplaced ==
  ASSUME SyncInv, At("serving"), UNCHANGED <<proc, late, workload>>,
         NEW p \in DOMAIN db.projects, NEW r \in Project,
         r.team \in DOMAIN db.teams, r.key = db.projects[p].key, r.orphaned = db.projects[p].orphaned,
         \/ proc.settings.projects = "ui"
         \/ r.team = db.projects[p].team /\ r.fields = db.projects[p].fields,
         db' = [db EXCEPT !.projects = [db.projects EXCEPT ![p] = r], !.drawn = db.drawn]
  PROVE  Kept
<1> DEFINE projects == [db.projects EXCEPT ![p] = r]
           drawn == db.drawn
<1>1. projects \in Maps(Slugs, Project)
  BY ServedProjects, MapReplaced
<1>2. DOMAIN projects = DOMAIN db.projects /\ \A q \in DOMAIN db.projects :
        projects[q] = IF q = p THEN r ELSE db.projects[q]
  OBVIOUS
<1>3. drawn \in [Slugs -> 0..MaxKeys] /\ drawn = db.drawn
  BY ServedProjects
<1>4. db' = [db EXCEPT !.projects = projects, !.drawn = drawn]
  OBVIOUS
<1> HIDE DEF projects, drawn
<1>5. \A q \in DOMAIN projects : projects[q].team \in DOMAIN db.teams /\ projects[q].key <= drawn[q]
  BY <1>2, <1>3, ServedProjects
<1>6. \/ proc.settings.projects = "ui" /\ \A q \in DOMAIN projects : ~projects[q].orphaned
      \/ /\ DOMAIN projects = DOMAIN db.projects
         /\ \A q \in DOMAIN db.projects : /\ projects[q].orphaned = db.projects[q].orphaned
                                          /\ projects[q].team = db.projects[q].team
                                          /\ projects[q].fields = db.projects[q].fields
  BY <1>2, ServedProjects
<1> QED
  BY <1>1, <1>3, <1>4, <1>5, <1>6, ProjectsEdited

\* A project is created, changed, moved or deleted where the UI manages projects.
LEMMA EditProjectsStep ==
  ASSUME SyncInv, EditProjects, UNCHANGED <<proc, late, workload>>
  PROVE  Kept
<1>1. At("serving") /\ proc.settings.projects = "ui"
  BY DEF EditProjects, Serving, Ui
<1>2. PICK p \in Slugs :
       \/ /\ p \notin DOMAIN db.projects /\ db.drawn[p] < MaxKeys
          /\ \E t \in DOMAIN db.teams, v \in Values :
               db' = [db EXCEPT !.drawn[p] = @ + 1,
                        !.projects = Extended(@, p, [team |-> t, fields |-> v,
                           key |-> db.drawn[p] + 1, muted |-> FALSE, orphaned |-> FALSE])]
       \/ /\ p \in DOMAIN db.projects
          /\ \/ \E v \in Values : db' = [db EXCEPT !.projects[p].fields = v]
             \/ \E t \in DOMAIN db.teams : db' = [db EXCEPT !.projects[p].team = t]
             \/ db' = [db EXCEPT !.projects = Without(@, p)]
  BY DEF EditProjects
<1>3. ASSUME p \notin DOMAIN db.projects, db.drawn[p] < MaxKeys, NEW t \in DOMAIN db.teams, NEW v \in Values,
             db' = [db EXCEPT !.drawn[p] = @ + 1,
                      !.projects = Extended(@, p, [team |-> t, fields |-> v,
                         key |-> db.drawn[p] + 1, muted |-> FALSE, orphaned |-> FALSE])]
      PROVE  Kept
  <2> DEFINE n == db.drawn[p] + 1
             r == [team |-> t, fields |-> v, key |-> n, muted |-> FALSE, orphaned |-> FALSE]
             projects == Extended(db.projects, p, r)
             drawn == [db.drawn EXCEPT ![p] = n]
  <2>1. db.drawn[p] \in 0..MaxKeys /\ MaxKeys \in Nat
    BY <1>1, ServedProjects, ConfigAssumption
  <2>2. n \in 1..MaxKeys /\ n \in 0..MaxKeys
    BY <1>3, <2>1
  <2>3. db' = [db EXCEPT !.projects = projects, !.drawn = drawn]
    BY <1>1, <1>3, ServedProjects DEF Db
  <2>4. drawn \in [Slugs -> 0..MaxKeys] /\ \A q \in Slugs : drawn[q] = IF q = p THEN n ELSE db.drawn[q]
    BY <1>1, <2>2, ServedProjects
  <2> HIDE DEF n, drawn
  <2>5. r \in Project /\ r.team = t /\ r.key = n /\ r.orphaned = FALSE
    BY <1>1, <2>2, ServedProjects DEF Project
  <2> HIDE DEF r
  <2>6. projects \in Maps(Slugs, Project)
    BY <1>1, <2>5, ServedProjects, MapExtended
  <2>7. /\ DOMAIN projects = DOMAIN db.projects \cup {p} /\ projects[p] = r
        /\ \A q \in DOMAIN db.projects \ {p} : projects[q] = db.projects[q]
    BY DEF Extended
  <2> HIDE DEF projects
  <2>8. \A q \in DOMAIN projects : /\ projects[q].team \in DOMAIN db.teams /\ ~projects[q].orphaned
                                   /\ projects[q].key <= drawn[q]
    <3> TAKE q \in DOMAIN projects
    <3>1. CASE q = p
      BY <2>2, <2>4, <2>5, <2>7, <3>1
    <3>2. CASE q # p
      BY <1>1, <2>4, <2>7, <3>2, ServedProjects
    <3> QED
      BY <3>1, <3>2
  <2> QED
    BY <1>1, <2>3, <2>4, <2>6, <2>8, ProjectsEdited
<1>4. ASSUME p \in DOMAIN db.projects, NEW v \in Values, db' = [db EXCEPT !.projects[p].fields = v]
      PROVE  Kept
  <2> DEFINE r == [db.projects[p] EXCEPT !.fields = v]
  <2>1. db' = [db EXCEPT !.projects = [db.projects EXCEPT ![p] = r], !.drawn = db.drawn]
    BY <1>1, <1>4, ServedProjects DEF Db
  <2>2. /\ r \in Project /\ r.team = db.projects[p].team /\ r.key = db.projects[p].key
        /\ r.orphaned = db.projects[p].orphaned
    BY <1>1, <1>4, ServedProjects DEF Project
  <2>3. r.team \in DOMAIN db.teams
    BY <1>1, <1>4, <2>2, ServedProjects
  <2> HIDE DEF r
  <2> QED
    BY <1>1, <1>4, <2>1, <2>2, <2>3, RowReplaced
<1>5. ASSUME p \in DOMAIN db.projects, NEW t \in DOMAIN db.teams, db' = [db EXCEPT !.projects[p].team = t]
      PROVE  Kept
  <2> DEFINE r == [db.projects[p] EXCEPT !.team = t]
  <2>1. db' = [db EXCEPT !.projects = [db.projects EXCEPT ![p] = r], !.drawn = db.drawn]
    BY <1>1, <1>5, ServedProjects DEF Db
  <2>2. t \in Names
    BY <1>1, ServedProjects
  <2>3. /\ r \in Project /\ r.team = t /\ r.key = db.projects[p].key
        /\ r.orphaned = db.projects[p].orphaned
    BY <1>1, <1>5, <2>2, ServedProjects DEF Project
  <2> HIDE DEF r
  <2> QED
    BY <1>1, <1>5, <2>1, <2>3, RowReplaced
<1>6. ASSUME p \in DOMAIN db.projects, db' = [db EXCEPT !.projects = Without(@, p)]
      PROVE  Kept
  <2> DEFINE projects == Without(db.projects, p)
             drawn == db.drawn
  <2>1. db' = [db EXCEPT !.projects = projects, !.drawn = drawn]
    BY <1>1, <1>6, ServedProjects DEF Db
  <2>2. projects \in Maps(Slugs, Project)
    BY <1>1, ServedProjects, MapWithout
  <2>3. DOMAIN projects = DOMAIN db.projects \ {p} /\ \A q \in DOMAIN projects : projects[q] = db.projects[q]
    BY DEF Without, Restrict
  <2>4. drawn \in [Slugs -> 0..MaxKeys] /\ drawn = db.drawn
    BY <1>1, ServedProjects
  <2> HIDE DEF projects, drawn
  <2>5. \A q \in DOMAIN projects : /\ projects[q].team \in DOMAIN db.teams /\ ~projects[q].orphaned
                                   /\ projects[q].key <= drawn[q]
    BY <1>1, <2>3, <2>4, ServedProjects
  <2> QED
    BY <1>1, <2>1, <2>2, <2>4, <2>5, ProjectsEdited
<1> QED
  BY <1>2, <1>3, <1>4, <1>5, <1>6

\* A project is muted or its key rotated, whoever manages it.
LEMMA OperateStep ==
  ASSUME SyncInv, Operate, UNCHANGED <<proc, late, workload>>
  PROVE  Kept
<1>1. At("serving")
  BY DEF Operate, Serving
<1>2. PICK p \in DOMAIN db.projects :
       \/ db' = [db EXCEPT !.projects[p].muted = ~@]
       \/ /\ db.drawn[p] < MaxKeys
          /\ db' = [db EXCEPT !.projects[p].key = db.drawn[p] + 1, !.drawn[p] = @ + 1]
  BY DEF Operate
<1>3. db.projects[p] \in Project /\ p \in Slugs
  BY <1>1, ServedProjects
<1>4. CASE db' = [db EXCEPT !.projects[p].muted = ~@]
  <2> DEFINE r == [db.projects[p] EXCEPT !.muted = ~@]
  <2>1. db' = [db EXCEPT !.projects = [db.projects EXCEPT ![p] = r], !.drawn = db.drawn]
    BY <1>1, <1>4, ServedProjects DEF Db
  <2>2. db.projects[p].muted \in BOOLEAN
    BY <1>3 DEF Project
  <2>3. /\ r \in Project /\ r.team = db.projects[p].team /\ r.key = db.projects[p].key
        /\ r.orphaned = db.projects[p].orphaned /\ r.fields = db.projects[p].fields
    BY <1>3, <2>2 DEF Project
  <2>4. r.team \in DOMAIN db.teams
    BY <1>1, <2>3, ServedProjects
  <2> HIDE DEF r
  <2> QED
    BY <1>1, <2>1, <2>3, <2>4, RowReplaced
<1>5. CASE /\ db.drawn[p] < MaxKeys
           /\ db' = [db EXCEPT !.projects[p].key = db.drawn[p] + 1, !.drawn[p] = @ + 1]
  <2> DEFINE n == db.drawn[p] + 1
             r == [db.projects[p] EXCEPT !.key = n]
             projects == [db.projects EXCEPT ![p] = r]
             drawn == [db.drawn EXCEPT ![p] = n]
  <2>1. db.drawn[p] \in 0..MaxKeys /\ MaxKeys \in Nat
    BY <1>1, <1>3, ServedProjects, ConfigAssumption
  <2>2. n \in 1..MaxKeys /\ n \in 0..MaxKeys
    BY <1>5, <2>1
  <2>3. db' = [db EXCEPT !.projects = projects, !.drawn = drawn]
    BY <1>1, <1>5, ServedProjects DEF Db
  <2>4. drawn \in [Slugs -> 0..MaxKeys] /\ \A q \in Slugs : drawn[q] = IF q = p THEN n ELSE db.drawn[q]
    BY <1>1, <2>2, ServedProjects
  <2> HIDE DEF n, drawn
  <2>5. /\ r \in Project /\ r.team = db.projects[p].team /\ r.key = n
        /\ r.orphaned = db.projects[p].orphaned /\ r.fields = db.projects[p].fields
    BY <1>3, <2>2 DEF Project
  <2> HIDE DEF r
  <2>6. projects \in Maps(Slugs, Project)
    BY <1>1, <2>5, ServedProjects, MapReplaced
  <2>7. DOMAIN projects = DOMAIN db.projects /\ \A q \in DOMAIN db.projects :
          projects[q] = IF q = p THEN r ELSE db.projects[q]
    OBVIOUS
  <2> HIDE DEF projects
  <2>8. \A q \in DOMAIN projects : /\ projects[q].team \in DOMAIN db.teams
                                   /\ projects[q].key <= drawn[q]
    <3> TAKE q \in DOMAIN projects
    <3>1. CASE q = p
      BY <1>1, <1>3, <2>2, <2>4, <2>5, <2>7, <3>1, ServedProjects
    <3>2. CASE q # p
      BY <1>1, <2>4, <2>7, <3>2, ServedProjects
    <3> QED
      BY <3>1, <3>2
  <2>9. /\ DOMAIN projects = DOMAIN db.projects
        /\ \A q \in DOMAIN db.projects : /\ projects[q].orphaned = db.projects[q].orphaned
                                         /\ projects[q].team = db.projects[q].team
                                         /\ projects[q].fields = db.projects[q].fields
    BY <2>5, <2>7
  <2> QED
    BY <1>1, <2>3, <2>4, <2>6, <2>8, <2>9, ProjectsEdited
<1> QED
  BY <1>2, <1>4, <1>5

-----------------------------------------------------------------------------
(* The transaction.                                                        *)

\* What reconciling makes of a team's members, for users in these groups.
MembersOf(grants, users, groups) ==
  [u \in {v \in users : RolesOf(grants, v, groups[v]) # {}} |-> Best(RolesOf(grants, u, groups[u]))]

\* Reconciling all users of a team gives a map of existing users to roles.
LEMMA ReconciledMembers ==
  ASSUME DbInv, NEW grants
  PROVE  /\ Members(grants) = MembersOf(grants, db.users, db.groups)
         /\ Members(grants) \in Maps(Users, Roles) /\ DOMAIN Members(grants) \subseteq db.users
<1>1. \A u : Granted(grants, u) = RolesOf(grants, u, db.groups[u])
  BY DEF Granted, RolesOf
<1>2. \A roles : Best(roles) \in Roles
  BY DEF Best, Roles
<1>3. Members(grants) = MembersOf(grants, db.users, db.groups)
  BY <1>1 DEF Members, MembersOf
<1> DEFINE S == {v \in db.users : Granted(grants, v) # {}}
           m == Members(grants)
<1>4. S \in SUBSET Users /\ S \subseteq db.users
  BY DbFields
<1>5. m = [u \in S |-> Best(Granted(grants, u))]
  BY DEF Members
<1> HIDE DEF S
<1>6. m \in [S -> Roles] /\ DOMAIN m = S
  BY <1>2, <1>5
<1> HIDE DEF m
<1>7. m \in Maps(Users, Roles)
  BY <1>4, <1>6, MapMade
<1> QED
  BY <1>3, <1>4, <1>6, <1>7 DEF m

\* Members so made are what the grants say of every user.
LEMMA ReconciledMatch ==
  ASSUME NEW t, NEW users, NEW groups, NEW u \in users, t.members = MembersOf(t.grants, users, groups)
  PROVE  Matches(t, u, groups[u])
<1> DEFINE S == {v \in users : RolesOf(t.grants, v, groups[v]) # {}}
           m == MembersOf(t.grants, users, groups)
<1>1. DOMAIN m = S /\ \A v \in S : m[v] = Best(RolesOf(t.grants, v, groups[v]))
  BY DEF MembersOf
<1>2. u \in S <=> RolesOf(t.grants, u, groups[u]) # {}
  OBVIOUS
<1>3. \A roles : Best(roles) = "admin" <=> "admin" \in roles
  BY DEF Best
<1> HIDE DEF S, m
<1>4. t.members = m
  BY DEF m
<1> QED
  BY <1>1, <1>2, <1>3, <1>4 DEF Matches

\* What the file says, or says nothing about.
Says(d, s) == /\ d \in File /\ s \in Settings
              /\ s.teams = "ui" <=> d.teams = None
              /\ s.projects = "ui" <=> d.projects = None

\* What such a file and such settings consist of.
LEMMA SaidFile ==
  ASSUME NEW d, NEW s, Says(d, s)
  PROVE  /\ s.teams \in {"ui", "yaml"} /\ s.projects \in {"ui", "yaml"} /\ s.notify \in {"ui", "yaml"}
         /\ d.notifications \in Values \cup {None}
         /\ s.delete_teams \in BOOLEAN /\ s.delete_projects \in BOOLEAN
         /\ d.teams # None => /\ d.teams \in Maps(Names, Grants) /\ DOMAIN d.teams \subseteq Names
                              /\ \A t \in DOMAIN d.teams : d.teams[t] \in Grants
         /\ d.projects # None => /\ DOMAIN d.projects \subseteq Slugs
                                 /\ \A p \in DOMAIN d.projects : /\ d.projects[p].team \in Names
                                                                 /\ d.projects[p].fields \in Values
<1>1. d \in File /\ s \in Settings
  BY DEF Says
<1>2. d.teams # None => d.teams \in Maps(Names, Grants)
  BY <1>1 DEF File
<1>3. d.projects # None => d.projects \in Maps(Slugs, [team: Names, fields: Values])
  BY <1>1 DEF File
<1>4. d.projects # None => /\ DOMAIN d.projects \subseteq Slugs
                           /\ \A p \in DOMAIN d.projects : d.projects[p] \in [team: Names, fields: Values]
  <2> DEFINE Y == [team: Names, fields: Values]
             f == d.projects
  <2>1. f # None => f \in Maps(Slugs, Y)
    BY <1>3
  <2> HIDE DEF Y, f
  <2>2. f # None => DOMAIN f \subseteq Slugs /\ \A p \in DOMAIN f : f[p] \in Y
    BY <2>1, MapFacts
  <2> QED
    BY <2>2 DEF Y, f
<1>5. d.teams # None => DOMAIN d.teams \subseteq Names /\ \A t \in DOMAIN d.teams : d.teams[t] \in Grants
  BY <1>2, MapFacts
<1>6. d.notifications \in Values \cup {None}
  BY <1>1 DEF File
<1> QED
  BY <1>1, <1>2, <1>4, <1>5, <1>6 DEF Settings

\* upsert_team and sync_team: the rows of all teams before any is pruned.
LEMMA SyncedTeams ==
  ASSUME DbInv, NEW d, NEW s, Says(d, s)
  PROVE  /\ TeamsSynced(d, s) \in Maps(Names, Team)
         /\ \A t \in DOMAIN TeamsSynced(d, s) : DOMAIN TeamsSynced(d, s)[t].members \subseteq db.users
         /\ d.teams = None =>
              /\ DOMAIN TeamsSynced(d, s) = DOMAIN db.teams
              /\ \A t \in DOMAIN db.teams : ~TeamsSynced(d, s)[t].orphaned
         /\ d.teams # None =>
              /\ DOMAIN TeamsSynced(d, s) = DOMAIN db.teams \cup DOMAIN d.teams
              /\ \A t \in DOMAIN d.teams :
                   TeamsSynced(d, s)[t] = [orphaned |-> FALSE, grants |-> d.teams[t], members |-> Members(d.teams[t])]
              /\ \A t \in DOMAIN db.teams \ DOMAIN d.teams : TeamsSynced(d, s)[t] = db.teams[t]
<1> DEFINE teams == TeamsSynced(d, s)
<1>1. /\ DOMAIN db.teams \subseteq Names
      /\ \A t \in DOMAIN db.teams : db.teams[t] \in Team /\ DOMAIN db.teams[t].members \subseteq db.users
  BY Rows
<1>2. CASE d.teams = None
  <2>1. teams = [t \in DOMAIN db.teams |-> [db.teams[t] EXCEPT !.orphaned = @ /\ s.teams # "ui"]]
    BY <1>2 DEF TeamsSynced
  <2>2. s.teams = "ui"
    BY <1>2 DEF Says
  <2>3. /\ DOMAIN teams = DOMAIN db.teams
        /\ \A t \in DOMAIN db.teams : teams[t] = [db.teams[t] EXCEPT !.orphaned = FALSE]
    BY <2>1, <2>2
  <2> HIDE DEF teams
  <2>4. ASSUME NEW t \in DOMAIN db.teams
        PROVE  /\ teams[t] \in Team /\ ~teams[t].orphaned
               /\ DOMAIN teams[t].members \subseteq db.users
    BY <1>1, <2>3 DEF Team
  <2>5. teams \in [DOMAIN db.teams -> Team]
    <3>1. teams = [t \in DOMAIN db.teams |-> teams[t]]
      BY <2>1
    <3> QED
      BY <2>4, <3>1
  <2>6. teams \in Maps(Names, Team)
    BY <1>1, <2>5, MapMade
  <2> QED
    BY <1>2, <2>3, <2>4, <2>6 DEF teams
<1>3. CASE d.teams # None
  <2> DEFINE S == DOMAIN db.teams \cup DOMAIN d.teams
             row(t) == [orphaned |-> FALSE, grants |-> d.teams[t], members |-> Members(d.teams[t])]
  <2>1. teams = [t \in S |-> IF t \in DOMAIN d.teams THEN row(t) ELSE db.teams[t]]
    BY <1>3 DEF TeamsSynced, Synced
  <2>2. S \in SUBSET Names /\ \A t \in DOMAIN d.teams : d.teams[t] \in Grants
    BY <1>1, <1>3, SaidFile
  <2>3. /\ DOMAIN teams = S
        /\ \A t \in DOMAIN d.teams : teams[t] = row(t)
        /\ \A t \in DOMAIN db.teams \ DOMAIN d.teams : teams[t] = db.teams[t]
    BY <2>1
  <2>4. ASSUME NEW t \in DOMAIN d.teams
        PROVE  row(t) \in Team /\ DOMAIN row(t).members \subseteq db.users
    <3> DEFINE m == Members(d.teams[t])
    <3>1. m \in Maps(Users, Roles) /\ DOMAIN m \subseteq db.users
      BY ReconciledMembers
    <3> HIDE DEF m
    <3> QED
      BY <2>2, <3>1 DEF Team, m
  <2> HIDE DEF row, teams
  <2>5. \A t \in S : teams[t] \in Team /\ DOMAIN teams[t].members \subseteq db.users
    BY <1>1, <2>3, <2>4
  <2>6. teams \in [S -> Team]
    <3>1. teams = [t \in S |-> teams[t]]
      BY <2>1
    <3> QED
      BY <2>5, <3>1
  <2>7. teams \in Maps(Names, Team)
    BY <2>2, <2>6, MapMade
  <2> QED
    BY <1>3, <2>3, <2>5, <2>7 DEF teams, row
<1> QED
  BY <1>2, <1>3

\* The teams after the transaction: those declared are live with the grants and
\* members of the file, the others frozen, or gone by policy.
TeamsAs(d, s, teams) ==
  /\ teams \in Maps(Names, Team)
  /\ \A t \in DOMAIN teams : DOMAIN teams[t].members \subseteq db.users
  /\ d.teams = None => /\ DOMAIN teams = DOMAIN db.teams
                       /\ \A t \in DOMAIN db.teams : ~teams[t].orphaned
  /\ d.teams # None =>
       /\ DOMAIN teams = DOMAIN d.teams \cup (IF s.delete_teams THEN {} ELSE DOMAIN db.teams)
       /\ \A t \in DOMAIN d.teams : /\ ~teams[t].orphaned /\ teams[t].grants = d.teams[t]
                                    /\ teams[t].members = Members(d.teams[t])
       /\ \A t \in DOMAIN teams \ DOMAIN d.teams :
            t \in DOMAIN db.teams /\ teams[t].orphaned /\ teams[t].members = db.teams[t].members

\* prune_team brings them there.
LEMMA PrunedTeams ==
  ASSUME DbInv, NEW d, NEW s, Says(d, s)
  PROVE  TeamsAs(d, s, TeamsPruned(d, s, TeamsSynced(d, s)))
<1> DEFINE teams == TeamsSynced(d, s)
           pruned == TeamsPruned(d, s, teams)
<1>1. /\ teams \in Maps(Names, Team)
      /\ \A t \in DOMAIN teams : DOMAIN teams[t].members \subseteq db.users
      /\ d.teams = None =>
           DOMAIN teams = DOMAIN db.teams /\ \A t \in DOMAIN db.teams : ~teams[t].orphaned
      /\ d.teams # None =>
           /\ DOMAIN teams = DOMAIN db.teams \cup DOMAIN d.teams
           /\ \A t \in DOMAIN d.teams :
                teams[t] = [orphaned |-> FALSE, grants |-> d.teams[t], members |-> Members(d.teams[t])]
           /\ \A t \in DOMAIN db.teams \ DOMAIN d.teams : teams[t] = db.teams[t]
  BY SyncedTeams
<1> HIDE DEF teams
<1>2. CASE d.teams = None
  <2>1. pruned = teams
    BY <1>2 DEF TeamsPruned
  <2> QED
    BY <1>1, <1>2, <2>1 DEF TeamsAs, teams
<1>3. CASE d.teams # None
  <2> DEFINE D == DOMAIN d.teams
             S == D \cup (IF s.delete_teams THEN {} ELSE DOMAIN db.teams)
  <2>1. pruned = [t \in S |-> IF t \in D THEN teams[t] ELSE [teams[t] EXCEPT !.orphaned = TRUE]]
    <3>1. S = D \cup (IF s.delete_teams THEN {} ELSE DOMAIN teams)
      BY <1>1, <1>3
    <3> QED
      BY <1>3, <3>1 DEF TeamsPruned
  <2>2. DOMAIN teams \subseteq Names /\ \A t \in DOMAIN teams : teams[t] \in Team
    BY <1>1, MapFacts
  <2>3. S \subseteq DOMAIN teams /\ D \subseteq S /\ S \ D \subseteq DOMAIN db.teams
    BY <1>1, <1>3
  <2>4. \A t \in D : /\ ~teams[t].orphaned /\ teams[t].grants = d.teams[t]
                     /\ teams[t].members = Members(d.teams[t])
    <3> TAKE t \in D
    <3>1. teams[t] = [orphaned |-> FALSE, grants |-> d.teams[t], members |-> Members(d.teams[t])]
      BY <1>1, <1>3
    <3> QED
      BY <3>1
  <2>5. \A t \in S \ D : teams[t] = db.teams[t]
    BY <1>1, <1>3, <2>3
  <2> HIDE DEF S, D, pruned
  <2>6. /\ DOMAIN pruned = S /\ \A t \in D : pruned[t] = teams[t]
        /\ \A t \in S \ D : pruned[t] = [teams[t] EXCEPT !.orphaned = TRUE]
    BY <2>1, <2>3
  <2>7. \A t \in DOMAIN teams : /\ [teams[t] EXCEPT !.orphaned = TRUE] \in Team
                                /\ [teams[t] EXCEPT !.orphaned = TRUE].orphaned = TRUE
                                /\ [teams[t] EXCEPT !.orphaned = TRUE].members = teams[t].members
    BY <2>2 DEF Team
  <2>8. \A t \in S \ D : /\ pruned[t].orphaned /\ pruned[t].members = teams[t].members
                         /\ pruned[t] \in Team
    <3> TAKE t \in S \ D
    <3>1. t \in DOMAIN teams /\ pruned[t] = [teams[t] EXCEPT !.orphaned = TRUE]
      BY <2>3, <2>6
    <3> QED
      BY <2>7, <3>1
  <2>9. \A t \in S : pruned[t] \in Team /\ DOMAIN pruned[t].members \subseteq db.users
    BY <1>1, <2>2, <2>3, <2>6, <2>8
  <2>10. pruned \in [S -> Team] /\ S \in SUBSET Names
    <3>1. pruned = [t \in S |-> pruned[t]]
      BY <2>1
    <3> QED
      BY <2>2, <2>3, <2>9, <3>1
  <2>11. pruned \in Maps(Names, Team)
    BY <2>10, MapMade
  <2>12. \A t \in DOMAIN pruned \ D : /\ t \in DOMAIN db.teams /\ pruned[t].orphaned
                                      /\ pruned[t].members = db.teams[t].members
    BY <2>3, <2>5, <2>6, <2>8
  <2>13. \A t \in D : /\ ~pruned[t].orphaned /\ pruned[t].grants = d.teams[t]
                      /\ pruned[t].members = Members(d.teams[t])
    BY <2>4, <2>6
  <2> QED
    BY <1>3, <2>6, <2>9, <2>11, <2>12, <2>13 DEF TeamsAs, teams, pruned, S, D
<1> QED
  BY <1>2, <1>3

\* The keys drawn so far, with those of the projects that are new.
DrawnWith(projects) ==
  [p \in Slugs |-> IF p \in DOMAIN projects /\ projects[p].key > db.drawn[p]
                   THEN projects[p].key ELSE db.drawn[p]]

\* The projects after the transaction: those declared are live and as the file
\* says, the others frozen, or gone by policy; a row that was there keeps its key
\* and its mute.
ProjectsAs(d, s, projects) ==
  /\ projects \in Maps(Slugs, Project)
  /\ \A p \in DOMAIN projects \cap DOMAIN db.projects : /\ projects[p].key = db.projects[p].key
                                                       /\ projects[p].muted = db.projects[p].muted
  /\ d.projects = None => /\ DOMAIN projects = DOMAIN db.projects
                          /\ \A p \in DOMAIN db.projects : ~projects[p].orphaned
  /\ d.projects # None =>
       /\ DOMAIN projects = DOMAIN d.projects \cup (IF s.delete_projects THEN {} ELSE DOMAIN db.projects)
       /\ \A p \in DOMAIN d.projects : /\ ~projects[p].orphaned
                                       /\ projects[p].team = d.projects[p].team
                                       /\ projects[p].fields = d.projects[p].fields
       /\ \A p \in DOMAIN projects \ DOMAIN d.projects : projects[p].orphaned

\* sync_project and prune_project bring them there.
LEMMA SyncedProjects ==
  ASSUME DbInv, NEW d, NEW s, Says(d, s), \A p \in Slugs : DrawnWith(ProjectsSynced(d, s))[p] <= MaxKeys
  PROVE  ProjectsAs(d, s, ProjectsSynced(d, s))
<1> DEFINE projects == ProjectsSynced(d, s)
<1>1. /\ DOMAIN db.projects \subseteq Slugs /\ \A p \in DOMAIN db.projects : db.projects[p] \in Project
      /\ db.drawn \in [Slugs -> 0..MaxKeys] /\ MaxKeys \in Nat
  BY Rows, DbFields, ConfigAssumption
<1>2. CASE d.projects = None
  <2>1. projects = [p \in DOMAIN db.projects |-> [db.projects[p] EXCEPT !.orphaned = @ /\ s.projects # "ui"]]
    BY <1>2 DEF ProjectsSynced
  <2>2. s.projects = "ui"
    BY <1>2 DEF Says
  <2>3. DOMAIN projects = DOMAIN db.projects /\ \A p \in DOMAIN db.projects :
          projects[p] = [db.projects[p] EXCEPT !.orphaned = FALSE]
    BY <2>1, <2>2
  <2> HIDE DEF projects
  <2>4. ASSUME NEW p \in DOMAIN db.projects
        PROVE  /\ projects[p] \in Project /\ ~projects[p].orphaned /\ projects[p].team = db.projects[p].team
               /\ projects[p].key = db.projects[p].key /\ projects[p].muted = db.projects[p].muted
    BY <1>1, <2>3 DEF Project
  <2>5. projects \in [DOMAIN db.projects -> Project]
    <3>1. projects = [p \in DOMAIN db.projects |-> projects[p]]
      BY <2>1
    <3> QED
      BY <2>4, <3>1
  <2>6. projects \in Maps(Slugs, Project)
    BY <1>1, <2>5, MapMade
  <2> QED
    BY <1>2, <2>3, <2>4, <2>6 DEF ProjectsAs, projects
<1>3. CASE d.projects # None
  <2> DEFINE D == DOMAIN d.projects
             S == D \cup (IF s.delete_projects THEN {} ELSE DOMAIN db.projects)
  <2>1. projects = [p \in S |-> IF p \in D THEN SyncProject(p, d.projects[p])
                                ELSE [db.projects[p] EXCEPT !.orphaned = TRUE]]
    BY <1>3 DEF ProjectsSynced
  <2>2. /\ D \subseteq Slugs
        /\ \A p \in D : d.projects[p].team \in Names /\ d.projects[p].fields \in Values
    BY <1>3, SaidFile
  <2>3. S \in SUBSET Slugs /\ S \ D \subseteq DOMAIN db.projects /\ D \subseteq S
    BY <1>1, <2>2
  <2>4. \A p \in Slugs : DrawnWith(projects)[p] <= MaxKeys
    OBVIOUS
  <2> HIDE DEF D, S, projects
  <2>5. /\ DOMAIN projects = S /\ \A p \in D : projects[p] = SyncProject(p, d.projects[p])
        /\ \A p \in S \ D : projects[p] = [db.projects[p] EXCEPT !.orphaned = TRUE]
    BY <2>1, <2>3
  <2>6. ASSUME NEW p \in D, p \in DOMAIN db.projects
        PROVE  /\ projects[p] \in Project /\ ~projects[p].orphaned
               /\ projects[p].team = d.projects[p].team /\ projects[p].fields = d.projects[p].fields
               /\ projects[p].key = db.projects[p].key /\ projects[p].muted = db.projects[p].muted
    <3>1. projects[p] = [db.projects[p] EXCEPT !.team = d.projects[p].team, !.fields = d.projects[p].fields,
                                               !.orphaned = FALSE]
      BY <2>5, <2>6 DEF SyncProject
    <3> DEFINE r == db.projects[p]
               t == d.projects[p].team
               v == d.projects[p].fields
    <3>2. r \in Project /\ t \in Names /\ v \in Values
      BY <1>1, <2>2, <2>6
    <3> HIDE DEF r, t, v
    <3>3. projects[p] = [r EXCEPT !.team = t, !.fields = v, !.orphaned = FALSE]
      BY <3>1 DEF r, t, v
    <3>4. /\ projects[p] \in Project /\ ~projects[p].orphaned /\ projects[p].team = t
          /\ projects[p].fields = v /\ projects[p].key = r.key /\ projects[p].muted = r.muted
      BY <3>2, <3>3 DEF Project
    <3> QED
      BY <3>4 DEF r, t, v
  <2>7. ASSUME NEW p \in D, p \notin DOMAIN db.projects
        PROVE  /\ projects[p] \in Project /\ ~projects[p].orphaned
               /\ projects[p].team = d.projects[p].team /\ projects[p].fields = d.projects[p].fields
    <3> DEFINE t == d.projects[p].team
               v == d.projects[p].fields
               n == db.drawn[p] + 1
    <3>1. projects[p] = [team |-> t, fields |-> v, key |-> n, muted |-> FALSE, orphaned |-> FALSE]
      BY <2>5, <2>7 DEF SyncProject
    <3>2. t \in Names /\ v \in Values /\ p \in Slugs /\ db.drawn[p] \in 0..MaxKeys
      BY <1>1, <2>2
    <3>3. DrawnWith(projects)[p] = n
      <4>1. p \in DOMAIN projects /\ projects[p].key = n
        BY <2>3, <2>5, <3>1
      <4>2. n > db.drawn[p]
        BY <3>2
      <4> HIDE DEF n
      <4> QED
        BY <3>2, <4>1, <4>2 DEF DrawnWith
    <3>4. n \in 1..MaxKeys
      <4>1. n <= MaxKeys
        BY <2>4, <3>2, <3>3
      <4> QED
        BY <1>1, <3>2, <4>1
    <3> HIDE DEF t, v, n
    <3>5. /\ projects[p] \in Project /\ ~projects[p].orphaned /\ projects[p].team = t
          /\ projects[p].fields = v
      BY <3>1, <3>2, <3>4 DEF Project
    <3> QED
      BY <3>5 DEF t, v
  <2>8. ASSUME NEW p \in S \ D
        PROVE  /\ projects[p] \in Project /\ projects[p].orphaned /\ projects[p].team = db.projects[p].team
               /\ projects[p].key = db.projects[p].key /\ projects[p].muted = db.projects[p].muted
    <3> DEFINE r == db.projects[p]
    <3>1. r \in Project /\ projects[p] = [r EXCEPT !.orphaned = TRUE]
      BY <1>1, <2>3, <2>5
    <3> HIDE DEF r
    <3>2. /\ projects[p] \in Project /\ projects[p].orphaned /\ projects[p].team = r.team
          /\ projects[p].key = r.key /\ projects[p].muted = r.muted
      BY <3>1 DEF Project
    <3> QED
      BY <3>2 DEF r
  <2>9. \A p \in S : projects[p] \in Project
    BY <2>6, <2>7, <2>8
  <2>10. projects \in [S -> Project]
    <3>1. projects = [p \in S |-> projects[p]]
      BY <2>1
    <3> QED
      BY <2>9, <3>1
  <2>11. projects \in Maps(Slugs, Project)
    BY <2>3, <2>10, MapMade
  <2>12. \A p \in S \cap DOMAIN db.projects : /\ projects[p].key = db.projects[p].key
                                               /\ projects[p].muted = db.projects[p].muted
    BY <2>6, <2>8
  <2>13. \A p \in D : /\ ~projects[p].orphaned
                       /\ projects[p].team = d.projects[p].team /\ projects[p].fields = d.projects[p].fields
    BY <2>6, <2>7
  <2> QED
    BY <1>3, <2>5, <2>8, <2>11, <2>12, <2>13 DEF ProjectsAs, projects, D, S
<1> QED
  BY <1>2, <1>3

\* The team of every project there will be: the declared one, or for a project
\* that stays undeclared the one it has.
LEMMA ProjectTeams ==
  ASSUME DbInv, NEW d, NEW s, Says(d, s), NEW p \in DOMAIN ProjectsSynced(d, s)
  PROVE  \/ /\ d.projects # None /\ p \in DOMAIN d.projects
            /\ ProjectsSynced(d, s)[p].team = d.projects[p].team
         \/ /\ p \in DOMAIN db.projects /\ FinalTeam(d, s, p, db.projects[p].team) = {db.projects[p].team}
            /\ ProjectsSynced(d, s)[p].team = db.projects[p].team
<1> DEFINE projects == ProjectsSynced(d, s)
<1>1. \A q \in DOMAIN db.projects : db.projects[q] \in Project
  BY Rows
<1>2. CASE d.projects = None
  <2>1. p \in DOMAIN db.projects /\ projects[p] = [db.projects[p] EXCEPT !.orphaned = @ /\ s.projects # "ui"]
    BY <1>2 DEF ProjectsSynced
  <2> DEFINE r == db.projects[p]
  <2>2. r \in Project
    BY <1>1, <2>1
  <2>3. projects[p] = [r EXCEPT !.orphaned = @ /\ s.projects # "ui"]
    BY <2>1
  <2> HIDE DEF r, projects
  <2>4. projects[p].team = r.team
    BY <2>2, <2>3 DEF Project
  <2> QED
    BY <1>2, <2>1, <2>4 DEF r, projects, FinalTeam
<1>3. CASE d.projects # None /\ p \in DOMAIN d.projects
  <2>1. projects[p] = SyncProject(p, d.projects[p])
    BY <1>3 DEF ProjectsSynced
  <2> DEFINE r == db.projects[p]
             e == d.projects[p]
  <2>2. p \in DOMAIN db.projects =>
          r \in Project /\ projects[p] = [r EXCEPT !.team = e.team, !.fields = e.fields, !.orphaned = FALSE]
    BY <1>1, <2>1 DEF SyncProject
  <2>3. p \notin DOMAIN db.projects => projects[p].team = e.team
    BY <2>1 DEF SyncProject
  <2> HIDE DEF r, e, projects
  <2>4. p \in DOMAIN db.projects => projects[p].team = e.team
    BY <2>2 DEF Project
  <2> QED
    BY <1>3, <2>3, <2>4 DEF e, projects
<1>4. CASE d.projects # None /\ p \notin DOMAIN d.projects
  <2>1. /\ ~s.delete_projects /\ p \in DOMAIN db.projects
        /\ projects[p] = [db.projects[p] EXCEPT !.orphaned = TRUE]
    BY <1>4 DEF ProjectsSynced
  <2> DEFINE r == db.projects[p]
  <2>2. r \in Project /\ projects[p] = [r EXCEPT !.orphaned = TRUE]
    BY <1>1, <2>1
  <2> HIDE DEF r, projects
  <2>3. projects[p].team = r.team
    BY <2>2 DEF Project
  <2> QED
    BY <1>4, <2>1, <2>3 DEF r, projects, FinalTeam
<1> QED
  BY <1>2, <1>3, <1>4

\* validate_plan sees every conflict: a plan it accepts leaves no project
\* without its team, before or after teams are pruned.
LEMMA AcceptedPlan ==
  ASSUME DbInv, NEW d, NEW s, Says(d, s), PlanValid(d, s)
  PROVE  \A p \in DOMAIN ProjectsSynced(d, s) :
           /\ ProjectsSynced(d, s)[p].team \in DOMAIN TeamsSynced(d, s)
           /\ ProjectsSynced(d, s)[p].team \in DOMAIN TeamsPruned(d, s, TeamsSynced(d, s))
<1> DEFINE teams == TeamsSynced(d, s)
           pruned == TeamsPruned(d, s, teams)
<1>1. /\ teams \in Maps(Names, Team)
      /\ d.teams = None => DOMAIN teams = DOMAIN db.teams
      /\ d.teams # None => DOMAIN teams = DOMAIN db.teams \cup DOMAIN d.teams
  BY SyncedTeams
<1> HIDE DEF teams
<1>2. /\ d.teams = None => pruned = teams
      /\ d.teams # None => DOMAIN pruned = IF s.delete_teams THEN DOMAIN d.teams ELSE DOMAIN teams
  <2>1. d.teams # None => DOMAIN d.teams \subseteq DOMAIN teams
    BY <1>1
  <2> QED
    BY <2>1 DEF TeamsPruned
<1> HIDE DEF pruned
<1>3. DOMAIN (IF d.teams # None THEN d.teams ELSE db.teams) \subseteq DOMAIN teams \cap DOMAIN pruned
  BY <1>1, <1>2
<1> SUFFICES ASSUME NEW p \in DOMAIN ProjectsSynced(d, s)
             PROVE  ProjectsSynced(d, s)[p].team \in DOMAIN teams \cap DOMAIN pruned
  BY DEF teams, pruned
<1>4. CASE d.projects # None /\ p \in DOMAIN d.projects /\ ProjectsSynced(d, s)[p].team = d.projects[p].team
  BY <1>3, <1>4 DEF PlanValid, References
<1>5. CASE /\ p \in DOMAIN db.projects /\ FinalTeam(d, s, p, db.projects[p].team) = {db.projects[p].team}
           /\ ProjectsSynced(d, s)[p].team = db.projects[p].team
  <2> DEFINE t == db.projects[p].team
  <2>1. t \in DOMAIN db.teams
    BY <1>5 DEF DbInv
  <2>2. d.teams # None /\ s.delete_teams => t \in DOMAIN d.teams
    BY <1>5, <2>1 DEF PlanValid
  <2> HIDE DEF t
  <2>3. t \in DOMAIN teams \cap DOMAIN pruned
    BY <1>1, <1>2, <2>1, <2>2
  <2> QED
    BY <1>5, <2>3 DEF t
<1> QED
  BY <1>4, <1>5, ProjectTeams

\* The tables after the transaction.
LEMMA AppliedTables ==
  ASSUME DbInv, NEW d, NEW s, Says(d, s), \A p \in Slugs : DrawnWith(ProjectsSynced(d, s))[p] <= MaxKeys
  PROVE  /\ Applied(d, s) \in Db
         /\ Applied(d, s).teams = TeamsPruned(d, s, TeamsSynced(d, s))
         /\ Applied(d, s).projects = ProjectsSynced(d, s)
         /\ Applied(d, s).users = db.users /\ Applied(d, s).groups = db.groups
         /\ Applied(d, s).fresh = (IF d.teams = None THEN db.fresh ELSE {})
         /\ Applied(d, s).drawn = DrawnWith(ProjectsSynced(d, s))
         /\ Applied(d, s).defaults = db.defaults \cap DOMAIN Applied(d, s).teams
         /\ s.notify = "ui" => Applied(d, s).service = db.service
         /\ s.notify = "yaml" => Applied(d, s).service["notifications"] = d.notifications
<1> DEFINE teams == TeamsPruned(d, s, TeamsSynced(d, s))
           projects == ProjectsSynced(d, s)
           fresh == IF d.teams = None THEN db.fresh ELSE {}
           drawn == DrawnWith(projects)
           defaults == db.defaults \cap DOMAIN teams
           n == IF s.notify = "yaml" THEN d.notifications ELSE db.service["notifications"]
           service == [db.service EXCEPT !["notifications"] = n]
<1>1. db \in Db /\ db.fresh \subseteq db.users /\ db.users \subseteq Users
  BY DbFields
<1>2. Applied(d, s) = [db EXCEPT !.teams = teams, !.projects = projects, !.fresh = fresh,
                                 !.drawn = drawn, !.defaults = defaults, !.service = service]
  BY <1>1 DEF Applied, DrawnWith, Db
<1>3. teams \in Maps(Names, Team) /\ projects \in Maps(Slugs, Project)
  <2>1. TeamsAs(d, s, teams) /\ ProjectsAs(d, s, projects)
    BY PrunedTeams, SyncedProjects
  <2> HIDE DEF teams, projects
  <2> QED
    BY <2>1 DEF TeamsAs, ProjectsAs
<1>4. fresh \in SUBSET Users /\ defaults \in SUBSET Names
  BY <1>1 DEF Db
<1>5. drawn \in [Slugs -> 0..MaxKeys]
  <2>1. \A p \in DOMAIN projects : projects[p].key \in 1..MaxKeys
    <3>1. \A p \in DOMAIN projects : projects[p] \in Project
      BY <1>3, MapFacts
    <3> HIDE DEF projects
    <3> QED
      BY <3>1 DEF Project
  <2>2. db.drawn \in [Slugs -> 0..MaxKeys]
    BY DbFields
  <2> HIDE DEF projects
  <2>3. \A p \in Slugs : (IF p \in DOMAIN projects /\ projects[p].key > db.drawn[p]
                          THEN projects[p].key ELSE db.drawn[p]) \in 0..MaxKeys
    BY <2>1, <2>2, ConfigAssumption
  <2> QED
    BY <2>3 DEF DrawnWith
<1>6. /\ service \in [Range(Fields) -> Values \cup {None}]
      /\ s.notify = "ui" => service = db.service
      /\ s.notify = "yaml" => service["notifications"] = d.notifications
  <2>1. "notifications" \in Range(Fields)
    BY DEF Range, Fields
  <2>2. db.service \in [Range(Fields) -> Values \cup {None}]
    BY <1>1 DEF Db
  <2>3. n \in Values \cup {None} /\ (s.notify = "yaml" => n = d.notifications)
    BY <2>1, <2>2, SaidFile
  <2>4. s.notify = "ui" => n = db.service["notifications"]
    OBVIOUS
  <2> HIDE DEF n
  <2> QED
    BY <2>1, <2>2, <2>3, <2>4
<1> HIDE DEF teams, projects, fresh, drawn, defaults, service
<1>7. /\ Applied(d, s) \in Db /\ Applied(d, s).teams = teams /\ Applied(d, s).projects = projects
      /\ Applied(d, s).users = db.users /\ Applied(d, s).groups = db.groups
      /\ Applied(d, s).fresh = fresh /\ Applied(d, s).drawn = drawn
      /\ Applied(d, s).defaults = defaults /\ Applied(d, s).service = service
  BY <1>1, <1>2, <1>3, <1>4, <1>5, <1>6 DEF Db
<1> QED
  BY <1>6, <1>7 DEF teams, projects, fresh, drawn, defaults

\* What a transaction leaves behind: all memberships are reconciled.
JustApplied ==
  /\ proc.at \in {"defaults", "serving"}
  /\ proc.file.teams # None =>
       /\ db.fresh = {}
       /\ \A t \in DOMAIN proc.file.teams :
            db.teams[t].members = MembersOf(proc.file.teams[t], db.users, db.groups)

\* apply_once, when it commits.
LEMMA CommitStep ==
  ASSUME SyncInv, At("apply"), UNCHANGED <<late, workload>>,
         NEW d, d = proc.file, NEW s, s = proc.settings,
         db' = Applied(d, s), NEW next \in {"defaults", "serving"}, Goto(next),
         next = "defaults" <=> s.service = "env", PlanValid(d, s),
         \A p \in Slugs : Applied(d, s).drawn[p] <= MaxKeys
  PROVE  Kept /\ JustApplied'
<1> DEFINE projects == ProjectsSynced(d, s)
           teams == TeamsPruned(d, s, TeamsSynced(d, s))
<1>1. DbInv /\ ProcInv /\ proc.at = "apply" /\ proc \in Proc /\ s \in Settings
  BY DEF SyncInv, ProcInv, At
<1>2. Says(d, s)
  BY <1>1 DEF ProcInv, Loaded, Says, Proc
<1>3. Applied(d, s).drawn = DrawnWith(projects)
  BY DEF Applied, DrawnWith, SyncInv, DbInv, Db
<1>4. \A p \in Slugs : DrawnWith(projects)[p] <= MaxKeys
  BY <1>3
<1>5. /\ db' \in Db /\ db'.teams = teams /\ db'.projects = projects
      /\ db'.users = db.users /\ db'.groups = db.groups
      /\ db'.fresh = (IF d.teams = None THEN db.fresh ELSE {})
      /\ db'.drawn = DrawnWith(projects) /\ db'.defaults = db.defaults \cap DOMAIN teams
      /\ s.notify = "ui" => db'.service = db.service
      /\ s.notify = "yaml" => db'.service["notifications"] = d.notifications
  BY <1>1, <1>2, <1>4, AppliedTables
<1>6. /\ proc' \in Proc /\ proc'.at = next /\ proc'.file = d /\ proc'.settings = s
      /\ proc'.written = proc.written
  BY <1>1 DEF Goto, Proc, Places
<1>7. TeamsAs(d, s, teams)
  BY <1>1, <1>2, PrunedTeams
<1>8. \A p \in DOMAIN projects : projects[p].team \in DOMAIN teams
  BY <1>1, <1>2, AcceptedPlan
<1>9. ProjectsAs(d, s, projects)
  BY <1>1, <1>2, <1>4, SyncedProjects
<1>10. /\ s.teams \in {"ui", "yaml"} /\ s.projects \in {"ui", "yaml"} /\ s.notify \in {"ui", "yaml"}
       /\ s.service = "env" => s.notify = "ui"
       /\ s.teams = "ui" <=> d.teams = None
       /\ s.projects = "ui" <=> d.projects = None
       /\ DOMAIN projects \subseteq Slugs
  <2> HIDE DEF projects
  <2>1. projects \in Maps(Slugs, Project)
    BY <1>9 DEF ProjectsAs
  <2> QED
    BY <1>2, <2>1, MapFacts DEF Says, Settings
<1> HIDE DEF teams, projects
<1>11. \A p \in DOMAIN projects : projects[p].key <= DrawnWith(projects)[p]
  <2>1. \A p \in DOMAIN projects : projects[p] \in Project
    BY <1>9, MapFacts DEF ProjectsAs
  <2>2. \A p \in DOMAIN projects : projects[p].key \in 1..MaxKeys
    BY <2>1 DEF Project
  <2>3. db.drawn \in [Slugs -> 0..MaxKeys]
    BY <1>1, DbFields
  <2> QED
    BY <1>10, <2>2, <2>3, ConfigAssumption DEF DrawnWith
<1>12. DbInv'
  BY <1>1, <1>5, <1>7, <1>8, <1>11 DEF DbInv, TeamsAs
<1>13. ProcInv'
  <2>1. s.service = "env" => db'.service = db.service /\ next = "defaults"
    BY <1>5, <1>10
  <2> QED
    BY <1>1, <1>6, <1>10, <2>1 DEF ProcInv, Loaded
<1>14. AppliedInv'
  <2>1. s.teams = "ui" => \A t \in DOMAIN db'.teams : ~db'.teams[t].orphaned
    BY <1>5, <1>7, <1>10 DEF TeamsAs
  <2>2. s.teams = "yaml" =>
          /\ DOMAIN d.teams \subseteq DOMAIN db'.teams
          /\ \A t \in DOMAIN db'.teams :
               /\ db'.teams[t].orphaned <=> t \notin DOMAIN d.teams
               /\ t \in DOMAIN d.teams => db'.teams[t].grants = d.teams[t]
               /\ db'.teams[t].orphaned => ~s.delete_teams
    BY <1>5, <1>7, <1>10 DEF TeamsAs
  <2>3. s.projects = "ui" => \A p \in DOMAIN db'.projects : ~db'.projects[p].orphaned
    BY <1>5, <1>9, <1>10 DEF ProjectsAs
  <2>4. s.projects = "yaml" =>
          /\ DOMAIN d.projects \subseteq DOMAIN db'.projects
          /\ \A p \in DOMAIN db'.projects :
               /\ db'.projects[p].orphaned <=> p \notin DOMAIN d.projects
               /\ p \in DOMAIN d.projects =>
                    /\ db'.projects[p].team = d.projects[p].team
                    /\ db'.projects[p].fields = d.projects[p].fields
               /\ db'.projects[p].orphaned => ~s.delete_projects
    BY <1>5, <1>9, <1>10 DEF ProjectsAs
  <2> QED
    BY <1>5, <1>6, <2>1, <2>2, <2>3, <2>4 DEF AppliedInv
<1>15. d.teams # None => \A t \in DOMAIN d.teams :
         teams[t].members = MembersOf(d.teams[t], db.users, db.groups)
  BY <1>1, <1>7, ReconciledMembers DEF TeamsAs
<1>16. MatchInv'
  <2>1. ASSUME d.teams # None, NEW t \in DOMAIN d.teams, NEW u \in db.users
        PROVE  Matches(teams[t], u, db.groups[u])
    <3> DEFINE r == teams[t]
               gs == db.groups
               us == db.users
    <3>1. r.members = MembersOf(r.grants, us, gs)
      BY <1>7, <1>15, <2>1 DEF TeamsAs
    <3> HIDE DEF r, gs, us
    <3>2. \A v \in us : Matches(r, v, gs[v])
      BY <3>1, ReconciledMatch
    <3> QED
      BY <2>1, <3>2 DEF r, gs, us
  <2> QED
    BY <1>5, <1>6, <1>10, <2>1 DEF MatchInv
<1>17. JustApplied'
  <2> QED
    BY <1>5, <1>6, <1>15 DEF JustApplied
<1>18. OrphansKept
  <2>1. \A t \in DOMAIN db.teams \cap DOMAIN teams : teams[t].orphaned => teams[t].members = db.teams[t].members
    BY <1>7 DEF TeamsAs
  <2> QED
    BY <1>1, <1>5, <2>1, OrphansUntouched
<1>19. IdentityKept
  BY <1>1, <1>5, <1>9, <1>10 DEF IdentityKept, At, ProjectsAs
<1> QED
  BY <1>12, <1>13, <1>14, <1>16, <1>17, <1>18, <1>19 DEF Kept, SyncInv

\* apply_once: it refuses the plan, or commits; an accepted plan never fails late.
LEMMA ApplyStep ==
  ASSUME SyncInv, Apply, UNCHANGED workload
  PROVE  Kept /\ (proc'.at # "down" => JustApplied')
<1> DEFINE d == proc.file
           s == proc.settings
           next == IF s.service = "env" THEN "defaults" ELSE "serving"
<1>1. At("apply") /\ DbInv /\ proc.at = "apply" /\ proc \in Proc /\ s \in Settings
  BY DEF Apply, At, SyncInv, ProcInv
<1>2. Says(d, s)
  BY <1>1 DEF SyncInv, ProcInv, Loaded, Says, Proc
<1>3. CASE ~PlanValid(d, s)
  <2>1. Stop /\ UNCHANGED <<db, late>>
    BY <1>3 DEF Apply
  <2>2. proc'.at = "down"
    BY <1>1, <2>1 DEF Stop, Proc
  <2> QED
    BY <2>1, <2>2, StopStep
<1>4. CASE PlanValid(d, s)
  <2>1. ~LateError(d, s, TeamsSynced(d, s), ProjectsSynced(d, s))
    BY <1>1, <1>2, <1>4, AcceptedPlan DEF LateError
  <2>2. /\ \A p \in Slugs : Applied(d, s).drawn[p] <= MaxKeys
        /\ db' = Applied(d, s) /\ Goto(next) /\ UNCHANGED late
    BY <1>4, <2>1 DEF Apply
  <2>3. next \in {"defaults", "serving"} /\ (next = "defaults" <=> s.service = "env")
    OBVIOUS
  <2> HIDE DEF next
  <2> QED
    BY <1>1, <1>4, <2>2, <2>3, CommitStep
<1> QED
  BY <1>3, <1>4

\* Applying the same file and settings to the tables they left changes nothing.
LEMMA AppliedAgain ==
  SyncInv /\ JustApplied => Applied(proc.file, proc.settings) = db
<1> SUFFICES ASSUME SyncInv, JustApplied
             PROVE  Applied(proc.file, proc.settings) = db
  OBVIOUS
<1> DEFINE d == proc.file
           s == proc.settings
<1>1. /\ DbInv /\ db \in Db /\ proc.at \in {"defaults", "serving"} /\ proc.at \in Loaded
      /\ proc \in Proc /\ s \in Settings
  BY DEF SyncInv, DbInv, ProcInv, JustApplied, Loaded
<1>2. Says(d, s)
  BY <1>1 DEF SyncInv, ProcInv, Says, Proc
<1>3. /\ s.teams = "ui" <=> d.teams = None
      /\ s.projects = "ui" <=> d.projects = None
      /\ s.teams \in {"ui", "yaml"} /\ s.projects \in {"ui", "yaml"}
  BY <1>2 DEF Says, Settings
<1>4. /\ \A t \in DOMAIN db.teams : db.teams[t] \in Team
      /\ \A p \in DOMAIN db.projects : db.projects[p] \in Project
      /\ db.teams = [t \in DOMAIN db.teams |-> db.teams[t]]
      /\ db.projects = [p \in DOMAIN db.projects |-> db.projects[p]]
  BY <1>1, Rows, MapFacts
<1>5. TeamsSynced(d, s) = db.teams
  <2>1. CASE d.teams = None
    <3>1. ASSUME NEW t \in DOMAIN db.teams
          PROVE  [db.teams[t] EXCEPT !.orphaned = @ /\ s.teams # "ui"] = db.teams[t]
      <4> DEFINE r == db.teams[t]
      <4>1. r \in Team /\ r.orphaned = FALSE
        BY <1>1, <1>3, <1>4, <2>1 DEF SyncInv, AppliedInv, Team
      <4> HIDE DEF r
      <4>2. [r EXCEPT !.orphaned = FALSE] = r
        BY <4>1 DEF Team
      <4>3. (r.orphaned /\ s.teams # "ui") = FALSE
        BY <4>1
      <4> QED
        BY <4>2, <4>3 DEF r
    <3> QED
      BY <1>4, <2>1, <3>1 DEF TeamsSynced
  <2>2. CASE d.teams # None
    <3>1. DOMAIN d.teams \subseteq DOMAIN db.teams
      BY <1>1, <1>3, <2>2 DEF SyncInv, AppliedInv
    <3>2. ASSUME NEW t \in DOMAIN d.teams
          PROVE  Synced(TeamOr(t), d.teams[t]) = db.teams[t]
      <4> DEFINE r == db.teams[t]
                 g == d.teams[t]
                 m == Members(g)
      <4>1. r \in Team /\ r.orphaned = FALSE /\ r.grants = g
        BY <1>1, <1>3, <1>4, <2>2, <3>1 DEF SyncInv, AppliedInv, Team
      <4>2. r.members = MembersOf(g, db.users, db.groups)
        BY <2>2 DEF JustApplied
      <4> HIDE DEF r, g
      <4>3. m = MembersOf(g, db.users, db.groups)
        BY <1>1, ReconciledMembers
      <4> HIDE DEF m
      <4>4. r = [orphaned |-> FALSE, grants |-> g, members |-> m]
        BY <4>1, <4>2, <4>3 DEF Team
      <4> QED
        BY <4>4 DEF Synced, r, g, m
    <3>3. DOMAIN db.teams \cup DOMAIN d.teams = DOMAIN db.teams
      BY <3>1
    <3> QED
      BY <1>4, <2>2, <3>2, <3>3 DEF TeamsSynced
  <2> QED
    BY <2>1, <2>2
<1>6. TeamsPruned(d, s, db.teams) = db.teams
  <2>1. CASE d.teams = None
    BY <2>1 DEF TeamsPruned
  <2>2. CASE d.teams # None
    <3> DEFINE S == DOMAIN d.teams \cup (IF s.delete_teams THEN {} ELSE DOMAIN db.teams)
    <3>1. /\ DOMAIN d.teams \subseteq DOMAIN db.teams
          /\ \A t \in DOMAIN db.teams \ DOMAIN d.teams : db.teams[t].orphaned = TRUE /\ ~s.delete_teams
      <4>1. \A t \in DOMAIN db.teams : db.teams[t].orphaned \in BOOLEAN
        BY <1>4 DEF Team
      <4> QED
        BY <1>1, <1>3, <2>2, <4>1 DEF SyncInv, AppliedInv
    <3>2. S = DOMAIN db.teams
      BY <3>1
    <3>3. ASSUME NEW t \in DOMAIN db.teams \ DOMAIN d.teams
          PROVE  [db.teams[t] EXCEPT !.orphaned = TRUE] = db.teams[t]
      <4> DEFINE r == db.teams[t]
      <4>1. r \in Team /\ r.orphaned = TRUE
        BY <1>4, <3>1
      <4> HIDE DEF r
      <4>2. [r EXCEPT !.orphaned = TRUE] = r
        BY <4>1 DEF Team
      <4> QED
        BY <4>2 DEF r
    <3> QED
      BY <1>4, <2>2, <3>2, <3>3 DEF TeamsPruned
  <2> QED
    BY <2>1, <2>2
<1>7. ProjectsSynced(d, s) = db.projects
  <2>1. CASE d.projects = None
    <3>1. ASSUME NEW p \in DOMAIN db.projects
          PROVE  [db.projects[p] EXCEPT !.orphaned = @ /\ s.projects # "ui"] = db.projects[p]
      <4> DEFINE r == db.projects[p]
      <4>1. r \in Project /\ r.orphaned = FALSE
        BY <1>1, <1>3, <1>4, <2>1 DEF SyncInv, AppliedInv, Project
      <4> HIDE DEF r
      <4>2. [r EXCEPT !.orphaned = FALSE] = r
        BY <4>1 DEF Project
      <4>3. (r.orphaned /\ s.projects # "ui") = FALSE
        BY <4>1
      <4> QED
        BY <4>2, <4>3 DEF r
    <3> QED
      BY <1>4, <2>1, <3>1 DEF ProjectsSynced
  <2>2. CASE d.projects # None
    <3> DEFINE S == DOMAIN d.projects \cup (IF s.delete_projects THEN {} ELSE DOMAIN db.projects)
    <3>1. /\ DOMAIN d.projects \subseteq DOMAIN db.projects
          /\ \A p \in DOMAIN db.projects \ DOMAIN d.projects :
               db.projects[p].orphaned = TRUE /\ ~s.delete_projects
      <4>1. \A p \in DOMAIN db.projects : db.projects[p].orphaned \in BOOLEAN
        BY <1>4 DEF Project
      <4> QED
        BY <1>1, <1>3, <2>2, <4>1 DEF SyncInv, AppliedInv
    <3>2. S = DOMAIN db.projects
      BY <3>1
    <3>3. ASSUME NEW p \in DOMAIN db.projects \ DOMAIN d.projects
          PROVE  [db.projects[p] EXCEPT !.orphaned = TRUE] = db.projects[p]
      <4> DEFINE r == db.projects[p]
      <4>1. r \in Project /\ r.orphaned = TRUE
        BY <1>4, <3>1
      <4> HIDE DEF r
      <4>2. [r EXCEPT !.orphaned = TRUE] = r
        BY <4>1 DEF Project
      <4> QED
        BY <4>2 DEF r
    <3>4. ASSUME NEW p \in DOMAIN d.projects
          PROVE  SyncProject(p, d.projects[p]) = db.projects[p]
      <4> DEFINE r == db.projects[p]
                 t == d.projects[p].team
                 v == d.projects[p].fields
      <4>1. r \in Project /\ r.orphaned = FALSE /\ r.team = t /\ r.fields = v
        BY <1>1, <1>3, <1>4, <2>2, <3>1 DEF SyncInv, AppliedInv, Project
      <4>2. SyncProject(p, d.projects[p]) = [r EXCEPT !.team = t, !.fields = v, !.orphaned = FALSE]
        BY <3>1 DEF SyncProject
      <4> HIDE DEF r, t, v
      <4>3. [r EXCEPT !.team = t, !.fields = v, !.orphaned = FALSE] = r
        BY <4>1 DEF Project
      <4> QED
        BY <4>2, <4>3 DEF r
    <3> QED
      BY <1>4, <2>2, <3>2, <3>3, <3>4 DEF ProjectsSynced
  <2> QED
    BY <2>1, <2>2
<1>8. DrawnWith(db.projects) = db.drawn
  <2>1. db.drawn \in [Slugs -> 0..MaxKeys]
    BY <1>1, DbFields
  <2>2. \A p \in DOMAIN db.projects : db.projects[p].key \in 1..MaxKeys
    BY <1>4 DEF Project
  <2>3. \A p \in Slugs : ~(p \in DOMAIN db.projects /\ db.projects[p].key > db.drawn[p])
    BY <1>1, <2>1, <2>2, ConfigAssumption DEF DbInv
  <2> QED
    BY <2>1, <2>3 DEF DrawnWith
<1>9. \A p \in Slugs : DrawnWith(ProjectsSynced(d, s))[p] <= MaxKeys
  <2>1. db.drawn \in [Slugs -> 0..MaxKeys]
    BY <1>1, DbFields
  <2> QED
    BY <1>7, <1>8, <2>1, ConfigAssumption
<1>10. /\ (IF d.teams = None THEN db.fresh ELSE {}) = db.fresh
       /\ db.defaults \cap DOMAIN db.teams = db.defaults
       /\ s.notify = "yaml" => db.service["notifications"] = d.notifications
  BY <1>1 DEF JustApplied, DbInv, SyncInv, AppliedInv
<1> DEFINE n == IF s.notify = "yaml" THEN d.notifications ELSE db.service["notifications"]
<1>11. [db.service EXCEPT !["notifications"] = n] = db.service
  <2>1. db.service \in [Range(Fields) -> Values \cup {None}]
    BY <1>1 DEF Db
  <2>2. n = db.service["notifications"]
    BY <1>10
  <2> HIDE DEF n
  <2> QED
    BY <2>1, <2>2
<1>12. Applied(d, s) = [db EXCEPT !.teams = db.teams, !.projects = db.projects, !.fresh = db.fresh,
                                  !.drawn = db.drawn, !.defaults = db.defaults, !.service = db.service]
  <2> DEFINE teams == TeamsPruned(d, s, TeamsSynced(d, s))
             projects == ProjectsSynced(d, s)
             fresh == IF d.teams = None THEN db.fresh ELSE {}
             service == [db.service EXCEPT !["notifications"] = n]
  <2>1. Applied(d, s) = [db EXCEPT !.teams = teams, !.projects = projects, !.fresh = fresh,
                                   !.drawn = DrawnWith(projects),
                                   !.defaults = db.defaults \cap DOMAIN teams, !.service = service]
    BY <1>1 DEF Applied, DrawnWith, Db
  <2>2. teams = db.teams /\ projects = db.projects /\ fresh = db.fresh /\ service = db.service
    BY <1>5, <1>6, <1>7, <1>10, <1>11
  <2> HIDE DEF teams, projects, fresh, service
  <2>3. DrawnWith(projects) = db.drawn /\ db.defaults \cap DOMAIN teams = db.defaults
    BY <1>8, <1>10, <2>2
  <2> QED
    BY <2>1, <2>2, <2>3
<1> QED
  BY <1>1, <1>12 DEF Db

-----------------------------------------------------------------------------
(* The theorems.                                                           *)

\* An empty database of a process that is down satisfies the invariant.
LEMMA InitSync == Init => SyncInv
<1> SUFFICES ASSUME Init PROVE SyncInv
  OBVIOUS
<1>1. <<>> \in Maps(Names, Team) /\ <<>> \in Maps(Slugs, Project) /\ DOMAIN <<>> = {}
  BY NothingMapped
<1>2. Nothing \in File
  BY DEF Nothing, File
<1>3. DbInv
  <2>1. db.teams = <<>> /\ db.projects = <<>>
    BY DEF Init
  <2>2. db \in Db
    BY <1>1, ConfigAssumption DEF Init, Db
  <2> QED
    BY <1>1, <2>1, <2>2 DEF DbInv, Init
<1>4. proc \in Proc /\ proc.at = "down"
  BY <1>2 DEF Init, Proc, Places
<1> QED
  BY <1>3, <1>4 DEF SyncInv, ProcInv, AppliedInv, MatchInv, Loaded, Init

\* Every step keeps the invariant and what the action properties say.
LEMMA StepSync == SyncInv /\ Next => Kept
<1> SUFFICES ASSUME SyncInv, Next PROVE Kept
  OBVIOUS
<1>1. CASE Start
  BY <1>1, StartStep DEF Next
<1>2. CASE Read
  BY <1>2, ReadStep DEF Next
<1>3. CASE WriteService
  BY <1>3, WriteServiceStep DEF Next
<1>4. CASE Apply
  BY <1>4, ApplyStep DEF Next
<1>5. CASE WriteDefaults
  BY <1>5, WriteDefaultsStep DEF Next
<1>6. CASE Die
  BY <1>6, StopStep DEF Next, Die
<1>7. CASE Request
  BY <1>7, CreateUserStep, DeleteUserStep, SignInStep, EditTeamsStep, EditProjectsStep, OperateStep
     DEF Next, Request
<1> QED
  BY <1>1, <1>2, <1>3, <1>4, <1>5, <1>6, <1>7 DEF Next

\* What stays true of the tables and the process.
LEMMA SyncAlways == Spec => []SyncInv
<1>1. SyncInv /\ UNCHANGED vars => SyncInv'
  BY DEF vars, SyncInv, DbInv, ProcInv, AppliedInv, MatchInv
<1>2. SyncInv /\ [Next]_vars => SyncInv'
  BY <1>1, StepSync DEF Kept
<1> QED
  BY <1>2, InitSync, PTL DEF Spec

\* validate_plan sees every conflict: a plan that was accepted never fails while
\* it is carried out, each project always has its team, and each default team
\* exists.
THEOREM PlanAlwaysSound == Spec => []PlanSound
<1>1. SyncInv => PlanSound
  <2> SUFFICES ASSUME SyncInv PROVE PlanSound
    OBVIOUS
  <2>1. DbInv /\ late = FALSE /\ proc.at \in Places
    BY DEF SyncInv, ProcInv, Proc
  <2>2. /\ db.defaults \subseteq DOMAIN db.teams
        /\ \A p \in DOMAIN db.projects : db.projects[p].team \in DOMAIN db.teams
    BY <2>1 DEF DbInv
  <2>3. ASSUME NEW t \in DOMAIN db.teams PROVE IsTeam(db.teams[t])
    <3> DEFINE r == db.teams[t]
               m == r.members
               e == r.grants.emails
               g == r.grants.groups
    <3>1. r \in Team /\ m \in Maps(Users, Roles) /\ DOMAIN m \subseteq db.users
      BY <2>1, Rows
    <3>2. e \in Maps(Users, Roles) /\ g \in Maps(Groups, Roles) /\ r.orphaned \in BOOLEAN
      <4> HIDE DEF r
      <4> QED
        BY <3>1 DEF Team, Grants
    <3> HIDE DEF m, e, g
    <3>3. Range(m) \subseteq Roles /\ Range(e) \subseteq Roles /\ Range(g) \subseteq Roles
      BY <3>1, <3>2, MapFacts DEF Range
    <3> QED
      BY <3>1, <3>2, <3>3 DEF IsTeam, m, e, g
  <2>4. Range(db.projects) \subseteq Project /\ DOMAIN db.projects \subseteq Slugs /\ DOMAIN db.teams \subseteq Names
    BY <2>1, Rows DEF Range
  <2>5. TypeOK
    BY <2>1, <2>3, <2>4, DbFields DEF TypeOK
  <2> QED
    BY <2>1, <2>2, <2>5 DEF PlanSound
<1> QED
  BY <1>1, SyncAlways, PTL

\* Whoever is served, the file, the policies and the environment are in force.
THEOREM AlwaysEnforced == Spec => []Enforced
<1>1. SyncInv => Enforced
  <2> SUFFICES ASSUME SyncInv, At("serving") PROVE Enforced
    BY DEF Enforced
  <2>1. /\ proc.at = "serving" /\ AppliedInv /\ ProcInv /\ proc.at \in Loaded
    BY DEF At, SyncInv, Loaded
  <2>2. proc.settings.service = "env" =>
          /\ db.defaults \subseteq proc.settings.defaults
          /\ proc.settings.teams = "yaml" => db.defaults = proc.settings.defaults
          /\ \A i \in 1..5 : db.service[Fields[i]] = proc.settings.value
    BY <2>1 DEF ProcInv
  <2>3. \A x \in Range(Fields) : \E i \in 1..5 : x = Fields[i]
    BY FiveFields DEF Range
  <2>4. proc.settings.service = "env" => \A x \in Range(Fields) : db.service[x] = proc.settings.value
    BY <2>2, <2>3
  <2> QED
    BY <2>1, <2>2, <2>4 DEF Enforced, AppliedInv
<1> QED
  BY <1>1, SyncAlways, PTL

\* In a declared team everybody has the best role granted to their address or
\* groups, and nobody else is a member.
THEOREM MembersAlwaysMatchGrants == Spec => []MembersMatchGrants
<1>1. SyncInv => MembersMatchGrants
  <2>1. \A grants, u : Granted(grants, u) = RolesOf(grants, u, db.groups[u])
    BY DEF Granted, RolesOf
  <2> QED
    BY <2>1 DEF SyncInv, MatchInv, MembersMatchGrants, Matches, At
<1> QED
  BY <1>1, SyncAlways, PTL

\* A team that fell out of the file keeps its members, but for deleted accounts.
THEOREM OrphansAlwaysFrozen == Spec => OrphansFrozen
<1>1. SyncInv /\ [Next]_vars => [OrphansKept]_vars
  BY StepSync DEF Kept
<1> QED
  BY <1>1, SyncAlways, PTL DEF Spec, OrphansFrozen, OrphansKept

\* A project keeps its key and its mute through every start.
THEOREM ProjectsAlwaysKeepIdentity == Spec => ProjectsKeepIdentity
<1>1. SyncInv /\ [Next]_vars => [IdentityKept]_vars
  BY StepSync DEF Kept
<1> QED
  BY <1>1, SyncAlways, PTL DEF Spec, ProjectsKeepIdentity, IdentityKept

\* The only step from "apply" that does not stop is the transaction.
LEMMA OnlyApplyGoesOn ==
  SyncInv /\ Next /\ At("apply") /\ proc'.at # "down" => JustApplied'
<1> SUFFICES ASSUME SyncInv, Next, At("apply"), proc'.at # "down" PROVE JustApplied'
  OBVIOUS
<1>1. proc \in Proc /\ proc.at = "apply"
  BY DEF SyncInv, ProcInv, At
<1>2. Apply /\ UNCHANGED workload
  <2>1. ~Die
    BY <1>1 DEF Die, Stop, Proc
  <2>2. ~Start /\ ~Read /\ ~WriteService /\ ~WriteDefaults /\ ~Request
    BY <1>1 DEF Start, Read, WriteService, WriteDefaults, Request, At, Serving,
                CreateUser, DeleteUser, SignIn, EditTeams, EditProjects, Operate
  <2> QED
    BY <2>1, <2>2 DEF Next
<1> QED
  BY <1>2, ApplyStep

\* apply_once is idempotent: the start that has just been applied would not
\* change anything if it were applied again.
THEOREM SyncAlwaysIdempotent == Spec => SyncIdempotent
<1>1. SyncInv /\ [Next]_vars => [At("apply") /\ proc'.at # "down" => JustApplied']_vars
  BY OnlyApplyGoesOn
<1> QED
  BY <1>1, SyncAlways, AppliedAgain, PTL DEF Spec, SyncIdempotent

=============================================================================
