---------------------------- MODULE IngestProofs ----------------------------
(***************************************************************************)
(* Proofs about Projects and Ingest, for all sets of projects, keys, teams,*)
(* users, requests, clients and envelopes.                                 *)
(***************************************************************************)
EXTENDS Ingest, TLAPS

-----------------------------------------------------------------------------
(* The inductive invariant.                                                *)

\* The tables: their types, their foreign keys and unique indexes; an id or a
\* key in use was handed out, so that a fresh one cannot collide with it.
TablesInv ==
  /\ teams \in [Teams -> [exists: BOOLEAN, role: [Users -> Roles \cup {None}]]]
  /\ projects \in [ProjectIds -> Project \cup {NoProject}]
  /\ favorites \subseteq Users \X ProjectIds
  /\ rules \in [Rules -> ProjectIds \cup {None}]
  /\ \A p \in Live : teams[projects[p].team].exists
  /\ \A f \in favorites : Exists(f[2])
  /\ \A k \in Rules : rules[k] # None => Exists(rules[k])
  /\ \A p \in Live : p \in spent /\ projects[p].key \in spent
  /\ \A p, q \in Live : p # q => /\ projects[p].slug # projects[q].slug
                                 /\ projects[p].key # projects[q].key

\* What a request has read by each of its steps, and what was checked for it.
RequestOK(q) ==
  /\ q \in Request
  /\ q.pc = "resolve" => q.op # "create"
  /\ q.pc = "team" => q.op \notin {"create", "move"}
  /\ q.pc = "role" => q.op # "move" /\ q.team \in Teams
  /\ q.pc = "target" => q.op = "move"
  /\ q.pc = "state" => q.op = "favorite"
  /\ q.pc # "resolve" /\ q.op # "create" => q.project \in ProjectIds
  /\ q.op = "create" => q.team \in Teams
  /\ q.op \in {"update", "mute"} => q.body.team = Keep
  /\ q.op = "move" => /\ workload.ui /\ q.body.team \in Teams
                      /\ q.pc # "resolve" => q.user \in Managers

RequestsInv ==
  /\ req \in [Requests -> Request \cup {Idle}]
  /\ \A r \in Requests : req[r] # Idle => RequestOK(req[r])

IssuesInv ==
  /\ issues \subseteq ProjectIds \X {i.fingerprint : i \in Items}
  /\ \A i \in issues : Exists(i[1])

\* How far a submission has come: what lies before the current item is stored.
SubmissionOK(s) ==
  /\ s \in Submission
  /\ s.pc \in {"items", "insert", "rules"} =>
       /\ s.project \in ProjectIds
       /\ \A i \in DOMAIN s.body : i < s.at /\ Ingestible(s.body[i]) => i \in s.stored
  /\ s.pc \in {"insert", "rules"} => s.at <= Len(s.body)
  /\ s.pc = "rules" => s.at \in s.stored
  /\ s.pc # "answered" => s.answer = None
  /\ s.answer = "ok" => \A i \in DOMAIN s.body : Ingestible(s.body[i]) => i \in s.stored

SentInv == sent \in [Clients -> Submission] /\ \A c \in Clients : SubmissionOK(sent[c])

\* Which channels a notification has behind it.
TaskOK(k) ==
  /\ k \in Task
  /\ k.pc \in {"queued", "alertmanager", "webhook"} => "webhook" \notin k.tried
  /\ k.pc \in {"webhook", "members", "mail"} => "alertmanager" \in k.tried
  /\ k.pc \in {"members", "mail"} =>
       ("webhook" \in k.tried <=> workload.webhooks /\ k.row.webhook)
  /\ k.pc = "mail" => k.meant \subseteq k.todo \cup k.tried

TaskInv == task \in [Tasks -> Task] /\ \A t \in Tasks : TaskOK(task[t])

BodiesInv == workload.bodies \subseteq Envelopes

IngestInv == TablesInv /\ RequestsInv /\ IssuesInv /\ SentInv /\ TaskInv /\ BodiesInv

-----------------------------------------------------------------------------
(* Initial states.                                                         *)

\* Initially one project of one team, and nothing in flight.
LEMMA InitInv == Init => IngestInv
<1> SUFFICES ASSUME Init PROVE IngestInv
  OBVIOUS
<1> USE DEF Init, InitProjects
<1> DEFINE p == CHOOSE id \in ProjectIds : TRUE
           k == CHOOSE key \in Keys : TRUE
           t == CHOOSE team \in Teams : TRUE
           s == CHOOSE slug \in Slugs : TRUE
<1>1. p \in ProjectIds /\ k \in Keys /\ t \in Teams /\ s \in Slugs /\ None \notin Keys
  BY ProjectsAssumption DEF None
<1>2. PICK role \in [Users -> Roles \cup {None}] :
        teams = [x \in Teams |-> [exists |-> TRUE, role |-> IF x = t THEN role ELSE NoTeam.role]]
  OBVIOUS
<1>3. PICK orphaned \in BOOLEAN :
        projects = [q \in ProjectIds |-> IF q # p THEN NoProject ELSE
                      [team |-> t, slug |-> s, key |-> k,
                       muted |-> FALSE, webhook |-> TRUE, orphaned |-> orphaned]]
  OBVIOUS
<1>4. spent = {p, k}
  OBVIOUS
<1> HIDE DEF p, k, t, s
<1>5. TablesInv
  BY <1>1, <1>2, <1>3, <1>4 DEF TablesInv, Project, NoProject, Live, Exists, NoTeam, Roles
<1>6. RequestsInv
  BY DEF RequestsInv, Idle
<1>7. IssuesInv
  BY DEF IssuesInv
<1>8. NothingSent \in Submission
  BY IngestAssumption DEF NothingSent, Submission, Answers
<1>9. SentInv
  BY <1>8 DEF SentInv, SubmissionOK, NothingSent, None
<1>10. NoTask \in Task
  BY DEF NoTask, Task
<1>11. TaskInv
  BY <1>10 DEF TaskInv, TaskOK, NoTask
<1>12. BodiesInv
  BY IngestAssumption DEF BodiesInv
<1> QED
  BY <1>5, <1>6, <1>7, <1>9, <1>11, <1>12 DEF IngestInv

-----------------------------------------------------------------------------
(* Requests of the API.                                                    *)

\* An absent project is not a row: its key is none.
LEMMA LiveRow ==
  ASSUME TablesInv, NEW p \in ProjectIds
  PROVE  /\ Exists(p) <=> projects[p] \in Project
         /\ p \in Live <=> projects[p] \in Project
         /\ ~Exists(p) => projects[p] = NoProject
BY ProjectsAssumption DEF TablesInv, Exists, Live, Project, NoProject, None

\* The end of a request leaves the others as they were.
LEMMA ReplyRequests ==
  ASSUME RequestsInv, UNCHANGED workload, NEW r \in Requests, Reply(r)
  PROVE  RequestsInv'
BY DEF RequestsInv, RequestOK, Reply

\* A request that goes on must have read what its next step needs.
LEMMA StepRequests ==
  ASSUME RequestsInv, UNCHANGED workload, NEW r \in Requests, NEW next,
         Step(r, next), RequestOK(next)
  PROVE  RequestsInv'
BY DEF RequestsInv, RequestOK, Step

\* A request in flight, at the step its pc names.
LEMMA InFlight ==
  ASSUME RequestsInv, NEW r \in Requests, req[r].pc # "idle"
  PROVE  RequestOK(req[r])
BY DEF RequestsInv, Idle

\* What follows the authorization.
LEMMA ProceedRequests ==
  ASSUME RequestsInv, UNCHANGED workload, NEW r \in Requests, Proceed(r),
         req[r].pc \in {"team", "role", "target"}
  PROVE  RequestsInv' /\ UNCHANGED tables
<1>1. RequestOK(req[r])
  BY InFlight
<1>2. CASE Answer(r)
  BY <1>2, ReplyRequests DEF Answer
<1>3. CASE req[r].op = "favorite" /\ Step(r, [req[r] EXCEPT !.pc = "state"])
  <2>1. RequestOK([req[r] EXCEPT !.pc = "state"])
    BY <1>1, <1>3 DEF RequestOK, Request
  <2> QED
    BY <1>3, <2>1, StepRequests DEF Step
<1>4. CASE req[r].op = "mute" /\
           Step(r, [req[r] EXCEPT !.pc = "write", !.wanted = Toggled(req[r].seen)])
  <2>1. RequestOK([req[r] EXCEPT !.pc = "write", !.wanted = Toggled(req[r].seen)])
    BY <1>1, <1>4 DEF RequestOK, Request, Toggled, Flags
  <2> QED
    BY <1>4, <2>1, StepRequests DEF Step
<1>5. CASE Step(r, [req[r] EXCEPT !.pc = "write"])
  <2>1. RequestOK([req[r] EXCEPT !.pc = "write"])
    BY <1>1 DEF RequestOK, Request
  <2> QED
    BY <1>5, <2>1, StepRequests DEF Step
<1> QED
  BY <1>2, <1>3, <1>4, <1>5 DEF Proceed

\* The link of a project and the body of a request as the client sends them.
LEMMA BeginRequests ==
  ASSUME TablesInv, RequestsInv, UNCHANGED workload, NEW r \in Requests,
         NEW u \in Users, NEW op \in Ops, Begin(r, u, op)
  PROVE  RequestsInv' /\ UNCHANGED tables
<1>1. PICK slug \in Slugs, body \in Bodies(op), wanted \in Flags :
         req' = [req EXCEPT ![r] =
            [pc |-> IF op = "create" THEN "role" ELSE "resolve", op |-> op,
             user |-> u, slug |-> slug, project |-> None, seen |-> FALSE,
             team |-> IF op = "create" THEN body.team ELSE None,
             body |-> body, wanted |-> wanted]]
  BY DEF Begin
<1> DEFINE q == [pc |-> IF op = "create" THEN "role" ELSE "resolve", op |-> op,
             user |-> u, slug |-> slug, project |-> None, seen |-> FALSE,
             team |-> IF op = "create" THEN body.team ELSE None,
             body |-> body, wanted |-> wanted]
<1>2. body \in Patch
  BY DEF Bodies, Patch, NoPatch, Flags
<1>3. op \in {"create", "move"} => body.team \in Teams
  BY DEF Bodies, NoPatch
<1>4. op \in {"update", "mute"} => body.team = Keep
  BY DEF Bodies, NoPatch
<1>5. op = "move" => workload.ui
  BY DEF Begin, UiOnly
<1>6. q \in Request
  BY <1>2, <1>3 DEF Request
<1>7. RequestOK(q)
  BY <1>3, <1>4, <1>5, <1>6 DEF RequestOK
<1>8. Step(r, q)
  BY <1>1 DEF Step, Begin
<1> QED
  BY <1>7, <1>8, StepRequests DEF Step

\* The steps that only read: the tables stay and the request knows more.
LEMMA ReadSteps ==
  ASSUME TablesInv, RequestsInv, UNCHANGED workload, NEW r \in Requests,
         Resolve(r) \/ ReadTeam(r) \/ ReadRole(r) \/ FindTarget(r) \/ ReadFavorites(r)
  PROVE  RequestsInv' /\ UNCHANGED tables
<1>1. CASE Answer(r)
  BY <1>1, ReplyRequests DEF Answer
<1>2. CASE Resolve(r) /\ ~Answer(r)
  <2>1. PICK p \in ProjectIds, pc \in {"target", "team"} :
          /\ p \in Live
          /\ pc = (IF req[r].op = "move" THEN "target" ELSE "team")
          /\ ~(pc = "target" /\ req[r].user \notin Managers)
          /\ Step(r, [req[r] EXCEPT !.pc = pc, !.project = p, !.seen = projects[p].muted])
    BY <1>2 DEF Resolve, Live
  <2>2. RequestOK(req[r]) /\ req[r].pc = "resolve"
    BY <1>2, InFlight DEF Resolve
  <2>3. projects[p].muted \in BOOLEAN
    BY <2>1, LiveRow DEF Project
  <2>4. RequestOK([req[r] EXCEPT !.pc = pc, !.project = p, !.seen = projects[p].muted])
    BY <2>1, <2>2, <2>3 DEF RequestOK, Request
  <2> QED
    BY <2>1, <2>4, StepRequests DEF Step
<1>3. CASE Proceed(r) /\ req[r].pc \in {"team", "role", "target"}
  BY <1>3, ProceedRequests
<1>4. CASE ReadTeam(r) /\ ~Answer(r) /\ ~Proceed(r)
  <2>1. /\ Exists(req[r].project)
        /\ Step(r, [req[r] EXCEPT !.pc = "role", !.team = projects[req[r].project].team])
    BY <1>4 DEF ReadTeam
  <2>2. RequestOK(req[r]) /\ req[r].pc = "team"
    BY <1>4, InFlight DEF ReadTeam
  <2>3. projects[req[r].project].team \in Teams
    <3>1. req[r].project \in ProjectIds
      BY <2>2 DEF RequestOK
    <3> QED
      BY <2>1, <3>1, LiveRow DEF Project
  <2>4. RequestOK([req[r] EXCEPT !.pc = "role", !.team = projects[req[r].project].team])
    BY <2>2, <2>3 DEF RequestOK, Request
  <2> QED
    BY <2>1, <2>4, StepRequests DEF Step
<1>5. CASE ReadFavorites(r)
  <2> DEFINE wanted == Toggled(<<req[r].user, req[r].project>> \in favorites)
  <2>1. RequestOK(req[r]) /\ req[r].pc = "state"
    BY <1>5, InFlight DEF ReadFavorites
  <2>2. wanted \in Flags
    BY DEF Toggled, Flags
  <2> HIDE DEF wanted
  <2>3. RequestOK([req[r] EXCEPT !.pc = "write", !.wanted = wanted])
    BY <2>1, <2>2 DEF RequestOK, Request
  <2>4. Step(r, [req[r] EXCEPT !.pc = "write", !.wanted = wanted])
    BY <1>5 DEF ReadFavorites, wanted
  <2> QED
    BY <2>3, <2>4, StepRequests DEF Step
<1> QED
  BY <1>1, <1>2, <1>3, <1>4, <1>5 DEF ReadTeam, ReadRole, FindTarget

\* INSERT INTO projects keeps slugs, ids and keys apart.
LEMMA CreateTables ==
  ASSUME TablesInv, RequestsInv, NEW r \in Requests, Create(r)
  PROVE  TablesInv'
<1>1. PICK p \in ProjectIds \ spent, key \in Keys \ spent, webhook \in BOOLEAN :
       IF ~teams[req[r].team].exists \/ \E q \in Live : projects[q].slug = req[r].slug
       THEN UNCHANGED tables
       ELSE /\ projects' = [projects EXCEPT ![p] =
                 [team |-> req[r].team, slug |-> req[r].slug, key |-> key,
                  muted |-> FALSE, webhook |-> webhook, orphaned |-> FALSE]]
            /\ spent' = spent \cup {p, key}
            /\ UNCHANGED <<teams, favorites, rules>>
  BY DEF Create
<1>2. RequestOK(req[r]) /\ req[r].op = "create"
  BY InFlight DEF Create
<1>3. CASE UNCHANGED tables
  BY <1>3 DEF TablesInv, tables, Live, Exists
<1>4. CASE /\ teams[req[r].team].exists /\ \A q \in Live : projects[q].slug # req[r].slug
           /\ projects' = [projects EXCEPT ![p] =
                 [team |-> req[r].team, slug |-> req[r].slug, key |-> key,
                  muted |-> FALSE, webhook |-> webhook, orphaned |-> FALSE]]
           /\ spent' = spent \cup {p, key}
           /\ UNCHANGED <<teams, favorites, rules>>
  <2> DEFINE row == [team |-> req[r].team, slug |-> req[r].slug, key |-> key,
                     muted |-> FALSE, webhook |-> webhook, orphaned |-> FALSE]
  <2>1. /\ row \in Project /\ row # NoProject /\ row.team = req[r].team
        /\ row.slug = req[r].slug /\ row.key = key
    BY <1>2, ProjectsAssumption DEF RequestOK, Request, Project, NoProject, None
  <2>2. p \notin Live
    BY DEF TablesInv
  <2> HIDE DEF row
  <2>3. projects' = [projects EXCEPT ![p] = row]
    BY <1>4 DEF row
  <2>4. projects' \in [ProjectIds -> Project \cup {NoProject}]
    BY <2>1, <2>3 DEF TablesInv
  <2>5. Live' = Live \cup {p} /\ \A q \in ProjectIds \ {p} : projects'[q] = projects[q]
    BY <2>1, <2>3 DEF TablesInv, Live, Exists
  <2>6. projects'[p] = row
    BY <2>3 DEF TablesInv
  <2>7. \A q \in ProjectIds : Exists(q) => Exists(q)'
    BY <2>1, <2>5, <2>6 DEF Exists
  <2>8. \A q \in Live' : teams'[projects'[q].team].exists /\ q \in spent' /\ projects'[q].key \in spent'
    BY <1>4, <2>1, <2>5, <2>6 DEF TablesInv, Live
  <2>9. \A q \in Live : q \in ProjectIds \ {p} /\ projects[q].key # key /\ projects[q].slug # row.slug
    BY <1>4, <2>1, <2>2 DEF TablesInv, Live
  <2>10. ASSUME NEW x \in Live', NEW y \in Live', x # y
         PROVE  projects'[x].slug # projects'[y].slug /\ projects'[x].key # projects'[y].key
    BY <2>1, <2>5, <2>6, <2>9, <2>10 DEF TablesInv
  <2>11. /\ \A f \in favorites' : Exists(f[2])'
         /\ \A k \in Rules : rules'[k] # None => (rules'[k] \in ProjectIds /\ (Exists(rules[k]))')
    BY <1>4, <2>7 DEF TablesInv
  <2> QED
    BY <1>4, <2>4, <2>8, <2>10, <2>11 DEF TablesInv
<1> QED
  BY <1>1, <1>3, <1>4

\* An UPDATE of one row that keeps its slug, refers to a team that exists and
\* keeps its key or takes a fresh one.
LEMMA RowTables ==
  ASSUME TablesInv, NEW p \in Live, NEW row \in Project,
         projects' = [projects EXCEPT ![p] = row],
         row.slug = projects[p].slug, teams[row.team].exists,
         \/ row.key = projects[p].key /\ spent' = spent
         \/ row.key \notin spent /\ spent' = spent \cup {row.key},
         UNCHANGED <<teams, favorites, rules>>
  PROVE  TablesInv'
<1>1. p \in ProjectIds /\ row # NoProject
  BY ProjectsAssumption DEF Live, Project, NoProject, None
<1>2. projects' \in [ProjectIds -> Project \cup {NoProject}]
  BY <1>1 DEF TablesInv
<1>3. /\ Live' = Live /\ projects'[p] = row
      /\ \A q \in ProjectIds \ {p} : projects'[q] = projects[q]
      /\ \A q \in ProjectIds : Exists(q)' <=> Exists(q)
  BY <1>1 DEF TablesInv, Live, Exists
<1>4. \A q \in Live : teams'[projects'[q].team].exists /\ q \in spent' /\ projects'[q].key \in spent'
  BY <1>3 DEF TablesInv, Live
<1>5. ASSUME NEW x \in Live, NEW y \in Live, x # y
      PROVE  projects'[x].slug # projects'[y].slug /\ projects'[x].key # projects'[y].key
  <2>1. x \in ProjectIds /\ y \in ProjectIds /\ projects[x].key \in spent /\ projects[y].key \in spent
    BY DEF TablesInv, Live
  <2>2. projects[x].slug # projects[y].slug /\ projects[x].key # projects[y].key
    BY <1>5 DEF TablesInv
  <2> QED
    BY <1>3, <1>5, <2>1, <2>2
<1> QED
  BY <1>2, <1>3, <1>4, <1>5 DEF TablesInv

\* The update leaves a row of the table, with its slug and key.
LEMMA UpdatedRow ==
  ASSUME TablesInv, NEW p \in Live, NEW r, NEW body \in Patch
  PROVE  /\ Updated(r, projects[p], body) \in Project
         /\ Updated(r, projects[p], body).slug = projects[p].slug
         /\ Updated(r, projects[p], body).key = projects[p].key
         /\ Updated(r, projects[p], body).team =
              IF body.team = Keep THEN projects[p].team ELSE body.team
<1>1. projects[p] \in Project
  BY LiveRow DEF Live
<1>2. body.team = Keep \/ body.team \in Teams
  BY DEF Patch
<1> QED
  BY <1>1, <1>2 DEF Updated, Project, Coalesce, Flag

\* The body that an update applies: only change_team names a team.
UpdateBody(r) ==
  IF req[r].op = "mute" THEN [req[r].body EXCEPT !.muted = req[r].wanted] ELSE req[r].body

\* An update applies a patch, which names a team only in a move.
LEMMA UpdateBodyType ==
  ASSUME RequestsInv, NEW r \in Requests, Update(r)
  PROVE  /\ UpdateBody(r) \in Patch
         /\ RequestOK(req[r])
         /\ req[r].op # "move" => UpdateBody(r).team = Keep
<1>1. RequestOK(req[r]) /\ req[r].op \in {"update", "mute", "move"}
  BY InFlight DEF Update
<1> QED
  BY <1>1 DEF UpdateBody, RequestOK, Request, Patch

\* UPDATE projects with COALESCE.
LEMMA UpdateTables ==
  ASSUME TablesInv, RequestsInv, NEW r \in Requests, Update(r)
  PROVE  TablesInv'
<1> DEFINE p == req[r].project
           body == UpdateBody(r)
<1>1. body \in Patch /\ RequestOK(req[r])
  BY UpdateBodyType
<1>2. p \in ProjectIds
  BY <1>1 DEF RequestOK, Update
<1>3. projects' = IF Exists(p) /\ (body.team = Keep \/ teams[body.team].exists)
                  THEN [projects EXCEPT ![p] = Updated(r, projects[p], body)]
                  ELSE projects
  BY <1>2 DEF Update, UpdateBody, TablesInv
<1>4. UNCHANGED <<teams, spent, favorites, rules>>
  BY DEF Update
<1> HIDE DEF p, body
<1>5. CASE Exists(p) /\ (body.team = Keep \/ teams[body.team].exists)
  <2> DEFINE row == Updated(r, projects[p], body)
  <2>1. p \in Live
    BY <1>2, <1>5 DEF Live
  <2>2. /\ row \in Project /\ row.slug = projects[p].slug /\ row.key = projects[p].key
        /\ row.team = IF body.team = Keep THEN projects[p].team ELSE body.team
    BY <1>1, <2>1, UpdatedRow
  <2>3. teams[row.team].exists
    BY <1>5, <2>1, <2>2 DEF TablesInv
  <2>4. projects' = [projects EXCEPT ![p] = row]
    BY <1>3, <1>5
  <2> HIDE DEF row
  <2> QED
    BY <1>4, <2>1, <2>2, <2>3, <2>4, RowTables
<1>6. CASE projects' = projects
  BY <1>4, <1>6 DEF TablesInv, Live, Exists
<1> QED
  BY <1>3, <1>5, <1>6

\* regenerate-dsn: a fresh key.
LEMMA RegenerateTables ==
  ASSUME TablesInv, RequestsInv, NEW r \in Requests, Regenerate(r)
  PROVE  TablesInv'
<1> DEFINE p == req[r].project
<1>1. p \in ProjectIds
  BY InFlight DEF Regenerate, RequestOK
<1>2. UNCHANGED <<teams, favorites, rules>>
  BY DEF Regenerate
<1>3. CASE UNCHANGED <<projects, spent>>
  BY <1>2, <1>3 DEF TablesInv, Live, Exists
<1>4. CASE Exists(p)
  <2>1. PICK key \in Keys \ spent : /\ projects' = [projects EXCEPT ![p].key = key]
                                    /\ spent' = spent \cup {key}
    BY <1>4 DEF Regenerate
  <2> DEFINE row == [projects[p] EXCEPT !.key = key]
  <2>2. p \in Live /\ projects[p] \in Project
    BY <1>1, <1>4, LiveRow
  <2>3. /\ row \in Project /\ row.slug = projects[p].slug /\ row.key = key
        /\ row.team = projects[p].team
    BY <2>2 DEF Project
  <2>4. projects' = [projects EXCEPT ![p] = row]
    BY <2>1
  <2>5. teams[row.team].exists
    BY <2>2, <2>3 DEF TablesInv
  <2> HIDE DEF row
  <2> QED
    BY <1>2, <2>1, <2>2, <2>3, <2>4, <2>5, RowTables
<1> QED
  BY <1>3, <1>4 DEF Regenerate

\* DELETE FROM projects cascades to favorites and rules.
LEMMA DeleteTables ==
  ASSUME TablesInv, RequestsInv, NEW r \in Requests, Delete(r)
  PROVE  TablesInv'
<1> DEFINE p == req[r].project
<1>1. p \in ProjectIds
  BY InFlight DEF Delete, RequestOK
<1>2. /\ projects' = [projects EXCEPT ![p] = NoProject]
      /\ favorites' = {f \in favorites : f[2] # p}
      /\ rules' = [k \in Rules |-> IF rules[k] = p THEN None ELSE rules[k]]
      /\ UNCHANGED <<teams, spent>>
  BY DEF Delete
<1> HIDE DEF p
<1>3. projects' \in [ProjectIds -> Project \cup {NoProject}]
  BY <1>1, <1>2 DEF TablesInv
<1>4. /\ Live' = Live \ {p}
      /\ \A q \in ProjectIds \ {p} : projects'[q] = projects[q] /\ (Exists(q)' <=> Exists(q))
  BY <1>1, <1>2 DEF TablesInv, Live, Exists
<1>5. /\ favorites' \subseteq Users \X ProjectIds
      /\ rules' \in [Rules -> ProjectIds \cup {None}]
  BY <1>2 DEF TablesInv
<1>6. \A f \in favorites' : Exists(f[2])'
  BY <1>2, <1>4 DEF TablesInv
<1>7. \A k \in Rules : rules'[k] # None => (Exists(rules[k]))'
  BY <1>2, <1>4 DEF TablesInv
<1>8. \A q \in Live' : /\ q \in Live /\ projects'[q] = projects[q]
  BY <1>4 DEF Live
<1> QED
  BY <1>2, <1>3, <1>5, <1>6, <1>7, <1>8 DEF TablesInv

\* The tables that refer to projects.
LEMMA ReferenceTables ==
  ASSUME TablesInv, RequestsInv, NEW r \in Requests, SetFavorite(r) \/ WriteRule(r)
  PROVE  TablesInv' /\ UNCHANGED <<teams, projects>>
<1>1. RequestOK(req[r]) /\ req[r].project \in ProjectIds /\ req[r].user \in Users
  BY InFlight DEF SetFavorite, WriteRule, RequestOK, Request
<1>2. Live' = Live /\ \A q : Exists(q)' <=> Exists(q)
  BY DEF SetFavorite, WriteRule, Live, Exists
<1>3. CASE SetFavorite(r)
  <2> DEFINE f == <<req[r].user, req[r].project>>
  <2>1. /\ favorites' \subseteq favorites \cup {f}
        /\ f \in favorites' \ favorites => Exists(f[2])
        /\ UNCHANGED <<teams, projects, spent, rules>>
    BY <1>3 DEF SetFavorite, ForeignKey
  <2> QED
    BY <1>1, <1>2, <2>1 DEF TablesInv
<1>4. CASE WriteRule(r)
  <2>1. PICK k \in Rules :
          /\ \/ rules' = rules
             \/ rules' = [rules EXCEPT ![k] = req[r].project] /\ Exists(req[r].project)
             \/ rules' = [rules EXCEPT ![k] = None]
          /\ spent \subseteq spent'
          /\ UNCHANGED <<teams, projects, favorites>>
    BY <1>4 DEF WriteRule, ForeignKey
  <2>2. rules' \in [Rules -> ProjectIds \cup {None}]
    BY <1>1, <2>1 DEF TablesInv
  <2>3. \A j \in Rules : rules'[j] # None => Exists(rules'[j])
    BY <2>1 DEF TablesInv
  <2> QED
    BY <1>2, <2>1, <2>2, <2>3 DEF TablesInv
<1> QED
  BY <1>3, <1>4

\* A team is deleted with its projects moved to a team that exists, or without
\* any: the rows keep everything but their team.
LEMMA DeleteTeamTables ==
  ASSUME TablesInv, NEW t \in Teams, NEW target \in Teams \cup {None}, DeleteTeam(t, target)
  PROVE  TablesInv' /\ Live' = Live /\ UNCHANGED req
<1>1. /\ teams[t].exists
      /\ IF target = None THEN OwnedBy(t) = {}
         ELSE workload.ui /\ target # t /\ teams[target].exists
      /\ projects' = [p \in ProjectIds |-> IF p \in OwnedBy(t) THEN [projects[p] EXCEPT !.team = target]
                                           ELSE projects[p]]
      /\ teams' = [teams EXCEPT ![t] = NoTeam]
      /\ UNCHANGED <<spent, favorites, rules, req>>
  BY DEF DeleteTeam
<1>2. \A p \in OwnedBy(t) : p \in Live /\ projects[p].team = t /\ target \in Teams \ {t}
  BY <1>1, ProjectsAssumption DEF OwnedBy, None
<1>3. ASSUME NEW p \in OwnedBy(t)
      PROVE  LET row == [projects[p] EXCEPT !.team = target]
             IN  /\ row \in Project /\ row # NoProject /\ row.team = target
                 /\ row.slug = projects[p].slug /\ row.key = projects[p].key
  <2>1. projects[p] \in Project /\ target \in Teams
    BY <1>2, LiveRow DEF Live
  <2> QED
    BY <2>1, ProjectsAssumption DEF Project, NoProject, None
<1>4. projects' \in [ProjectIds -> Project \cup {NoProject}]
  BY <1>1, <1>3 DEF TablesInv
<1>5. /\ Live' = Live
      /\ \A q \in ProjectIds : Exists(q)' <=> Exists(q)
  BY <1>1, <1>2, <1>3 DEF Live, Exists
<1>6. \A p \in Live : projects'[p].slug = projects[p].slug /\ projects'[p].key = projects[p].key
  BY <1>1, <1>3 DEF Live
<1>7. teams' \in [Teams -> [exists: BOOLEAN, role: [Users -> Roles \cup {None}]]]
  BY <1>1 DEF TablesInv, NoTeam
<1>8. ASSUME NEW p \in Live PROVE teams'[projects'[p].team].exists
  <2>1. p \in ProjectIds /\ projects[p].team \in Teams /\ teams[projects[p].team].exists
    BY LiveRow DEF Live, Project, TablesInv
  <2>2. CASE p \in OwnedBy(t)
    <3>1. projects'[p].team = target /\ target \in Teams \ {t} /\ target # None
      BY <1>1, <1>2, <1>3, <2>1, <2>2, ProjectsAssumption DEF None
    <3>2. teams[target].exists
      BY <1>1, <3>1
    <3> QED
      BY <1>1, <3>1, <3>2 DEF TablesInv
  <2>3. CASE p \notin OwnedBy(t)
    <3>1. projects[p].team # t /\ projects'[p] = projects[p]
      BY <1>1, <2>1, <2>3 DEF OwnedBy
    <3> QED
      BY <1>1, <2>1, <3>1 DEF TablesInv
  <2> QED
    BY <2>2, <2>3
<1>9. UNCHANGED <<spent, favorites, rules, req>>
  BY <1>1
<1> QED
  BY <1>4, <1>5, <1>6, <1>7, <1>8, <1>9 DEF TablesInv, Live

\* Members come and go without touching projects.
LEMMA SetMemberTables ==
  ASSUME TablesInv, NEW t \in Teams, NEW u \in Users, NEW role \in Roles \cup {None},
         SetMember(t, u, role)
  PROVE  TablesInv' /\ UNCHANGED <<projects, req>>
<1>1. Live' = Live /\ (\A q : Exists(q)' <=> Exists(q))
      /\ UNCHANGED <<projects, spent, favorites, rules, req>>
  BY DEF SetMember, Live, Exists
<1>2. \A p \in Live : projects[p].team \in Teams
  BY LiveRow DEF Live, Project
<1>3. /\ teams' \in [Teams -> [exists: BOOLEAN, role: [Users -> Roles \cup {None}]]]
      /\ \A p \in Live : teams'[projects[p].team].exists
  BY <1>2 DEF SetMember, TablesInv
<1> QED
  BY <1>1, <1>3 DEF TablesInv

\* Teams come and go only as the foreign key of projects.team_id allows.
LEMMA TeamTables ==
  ASSUME TablesInv, TeamsChange
  PROVE  TablesInv' /\ UNCHANGED req
BY DeleteTeamTables, SetMemberTables DEF TeamsChange

\* Every step of a request keeps the tables consistent and the request sound.
LEMMA HandlerInv ==
  ASSUME TablesInv, RequestsInv, UNCHANGED workload, NEW r \in Requests, HandlerStep(r)
  PROVE  TablesInv' /\ RequestsInv'
<1>1. CASE UNCHANGED tables /\ RequestsInv'
  BY <1>1 DEF TablesInv, tables, Live, Exists
<1>2. CASE \E u \in Users, op \in Ops : Begin(r, u, op)
  BY <1>1, <1>2, BeginRequests
<1>3. CASE Resolve(r) \/ ReadTeam(r) \/ ReadRole(r) \/ FindTarget(r) \/ ReadFavorites(r)
  BY <1>1, <1>3, ReadSteps
<1>4. CASE Create(r)
  BY <1>4, CreateTables, ReplyRequests DEF Create
<1>5. CASE Update(r)
  BY <1>5, UpdateTables, ReplyRequests DEF Update
<1>6. CASE Regenerate(r)
  BY <1>6, RegenerateTables, ReplyRequests DEF Regenerate
<1>7. CASE Delete(r)
  BY <1>7, DeleteTables, ReplyRequests DEF Delete
<1>8. CASE SetFavorite(r) \/ WriteRule(r)
  BY <1>8, ReferenceTables, ReplyRequests DEF SetFavorite, WriteRule
<1> QED
  BY <1>2, <1>3, <1>4, <1>5, <1>6, <1>7, <1>8 DEF HandlerStep

-----------------------------------------------------------------------------
(* Submissions of the SDKs.                                                *)

\* An envelope is a sequence of at most MaxItems items.
LEMMA BodyType ==
  ASSUME NEW s \in Submission
  PROVE  /\ s.body \in Seq(Items) /\ Len(s.body) \in 0..MaxItems
         /\ DOMAIN s.body = 1..Len(s.body)
<1>1. s.body \in Envelopes \cup {<<>>}
  BY DEF Submission
<1>2. CASE s.body = <<>>
  BY <1>2, IngestAssumption
<1>3. CASE s.body \in Envelopes
  BY <1>3, IngestAssumption
<1> QED
  BY <1>1, <1>2, <1>3

\* A submission that changes leaves the others as they were.
LEMMA OneSubmission ==
  ASSUME SentInv, NEW c \in Clients, NEW s, SubmissionOK(s), sent' = [sent EXCEPT ![c] = s]
  PROVE  SentInv'
BY DEF SentInv, SubmissionOK

\* An answer other than 200 promises nothing about the items.
LEMMA AnsweredSent ==
  ASSUME SentInv, NEW c \in Clients, NEW code \in Answers, Answered(c, code),
         code = "ok" => \A i \in DOMAIN sent[c].body :
                          Ingestible(sent[c].body[i]) => i \in sent[c].stored
  PROVE  SentInv'
<1> DEFINE s == [sent[c] EXCEPT !.pc = "answered", !.answer = code, !.at = 1,
                                !.project = None, !.row = NoProject, !.new = FALSE]
<1>1. sent[c] \in Submission
  BY DEF SentInv
<1>2. s \in Submission
  <2>1. 1 \in 1..(MaxItems + 1)
    BY IngestAssumption
  <2> QED
    BY <1>1, <2>1 DEF Submission
<1>3. s.body = sent[c].body /\ s.stored = sent[c].stored /\ s.pc = "answered" /\ s.answer = code
  BY <1>1 DEF Submission
<1>4. sent' = [sent EXCEPT ![c] = s]
  BY DEF Answered, SentInv
<1> HIDE DEF s
<1>5. SubmissionOK(s)
  BY <1>2, <1>3 DEF SubmissionOK
<1> QED
  BY <1>4, <1>5, OneSubmission

\* The next item, when the one at hand is stored or need not be.
LEMMA AdvanceSent ==
  ASSUME SentInv, NEW c \in Clients, Advance(c),
         sent[c].pc \in {"items", "rules"}, ~Over(c),
         Ingestible(Item(c)) => sent[c].at \in sent[c].stored
  PROVE  SentInv'
<1> DEFINE n == sent[c].at + 1
           s == [sent[c] EXCEPT !.pc = "items", !.at = n]
<1>1. SubmissionOK(sent[c]) /\ sent[c] \in Submission
  BY DEF SentInv
<1>2. /\ Len(sent[c].body) \in 0..MaxItems /\ DOMAIN sent[c].body = 1..Len(sent[c].body)
      /\ sent[c].at \in 1..(MaxItems + 1)
  BY <1>1, BodyType DEF Submission
<1>3. sent[c].at <= Len(sent[c].body) /\ n \in 1..(MaxItems + 1)
  BY <1>2, IngestAssumption DEF Over
<1>4. s \in Submission
  <2> HIDE DEF n
  <2> QED
    BY <1>1, <1>3 DEF Submission
<1>5. /\ s.body = sent[c].body /\ s.stored = sent[c].stored /\ s.pc = "items"
      /\ s.answer = sent[c].answer /\ s.at = sent[c].at + 1 /\ s.project = sent[c].project
  BY <1>1 DEF Submission
<1>6. sent' = [sent EXCEPT ![c] = s]
  BY DEF Advance, SentInv
<1> HIDE DEF s
<1>7. \A i \in DOMAIN s.body : i < s.at /\ Ingestible(s.body[i]) => i \in s.stored
  BY <1>1, <1>2, <1>3, <1>5 DEF SubmissionOK, Item
<1>8. SubmissionOK(s)
  BY <1>1, <1>4, <1>5, <1>7 DEF SubmissionOK, None
<1> QED
  BY <1>6, <1>8, OneSubmission

\* The project of an unknown, orphaned or limited key never reaches the items.
LEMMA LookupSent ==
  ASSUME TablesInv, SentInv, NEW c \in Clients, Lookup(c)
  PROVE  SentInv'
<1>1. SubmissionOK(sent[c]) /\ sent[c] \in Submission /\ sent[c].pc = "lookup"
  BY DEF SentInv, Lookup
<1>2. CASE \E code \in Answers \ {"ok"} : Answered(c, code)
  BY <1>2, AnsweredSent
<1>3. CASE \E p \in Live :
             sent' = [sent EXCEPT ![c].pc = "items", ![c].project = p,
                                  ![c].row = projects[p], ![c].at = 1]
  <2>1. PICK p \in Live :
             sent' = [sent EXCEPT ![c].pc = "items", ![c].project = p,
                                  ![c].row = projects[p], ![c].at = 1]
    BY <1>3
  <2> DEFINE s == [sent[c] EXCEPT !.pc = "items", !.project = p, !.row = projects[p], !.at = 1]
  <2>2. p \in ProjectIds /\ projects[p] \in Project
    BY LiveRow DEF Live
  <2>3. 1 \in 1..(MaxItems + 1)
    BY IngestAssumption
  <2>4. s \in Submission
    BY <1>1, <2>2, <2>3 DEF Submission
  <2>5. /\ s.pc = "items" /\ s.project = p /\ s.at = 1 /\ s.answer = None
    BY <1>1 DEF Submission, SubmissionOK
  <2>6. sent' = [sent EXCEPT ![c] = s]
    BY <2>1 DEF SentInv
  <2> HIDE DEF s
  <2>7. \A i \in DOMAIN s.body : ~(i < s.at)
    BY <2>4, <2>5, BodyType
  <2>8. SubmissionOK(s)
    BY <2>2, <2>4, <2>5, <2>7 DEF SubmissionOK, None
  <2> QED
    BY <2>6, <2>8, OneSubmission
<1> QED
  BY <1>2, <1>3 DEF Lookup, Resolved, Undecodable, Malformed, Answers

\* The upsert refuses a project that is gone, so every issue has its project.
LEMMA UpsertInv ==
  ASSUME SentInv, IssuesInv, UNCHANGED projects, NEW c \in Clients, Upsert(c)
  PROVE  SentInv' /\ IssuesInv'
<1>1. /\ SubmissionOK(sent[c]) /\ sent[c] \in Submission /\ sent[c].pc = "items"
      /\ sent[c].project \in ProjectIds
  BY DEF SentInv, SubmissionOK, Upsert
<1>2. /\ Len(sent[c].body) \in 0..MaxItems /\ DOMAIN sent[c].body = 1..Len(sent[c].body)
      /\ sent[c].body \in Seq(Items) /\ sent[c].at \in 1..(MaxItems + 1)
  BY <1>1, BodyType DEF Submission
<1>3. sent[c].at \in DOMAIN sent[c].body /\ sent[c].at <= Len(sent[c].body)
  BY <1>2, IngestAssumption DEF Upsert, Over
<1>4. Item(c) \in Items
  BY <1>2, <1>3 DEF Item
<1> DEFINE key == <<sent[c].project, Item(c).fingerprint>>
<1>5. CASE ForeignKey(sent[c].project)
  <2> DEFINE new == key \notin issues
             s == [sent[c] EXCEPT !.pc = "insert", !.new = new]
  <2>1. issues' = issues \cup {key} /\ sent' = [sent EXCEPT ![c] = s]
    BY <1>5 DEF Upsert, SentInv
  <2>2. IssuesInv'
    BY <1>1, <1>4, <1>5, <2>1 DEF IssuesInv, ForeignKey, Exists
  <2>3. new \in BOOLEAN
    OBVIOUS
  <2> HIDE DEF new
  <2>4. /\ s \in Submission /\ s.pc = "insert" /\ s.body = sent[c].body /\ s.at = sent[c].at
        /\ s.stored = sent[c].stored /\ s.project = sent[c].project /\ s.answer = sent[c].answer
    BY <1>1, <2>3 DEF Submission
  <2> HIDE DEF s
  <2>5. SubmissionOK(s)
    BY <1>1, <1>3, <2>4 DEF SubmissionOK, None
  <2> QED
    BY <2>1, <2>2, <2>5, OneSubmission
<1>6. CASE ~ForeignKey(sent[c].project)
  BY <1>6, AnsweredSent DEF Upsert, Answers, IssuesInv, Exists
<1> QED
  BY <1>5, <1>6

\* The event insert marks the item stored.
LEMMA InsertSent ==
  ASSUME SentInv, NEW c \in Clients, Insert(c)
  PROVE  SentInv'
<1>1. SubmissionOK(sent[c]) /\ sent[c] \in Submission /\ sent[c].pc = "insert"
  BY DEF SentInv, Insert
<1>2. /\ Len(sent[c].body) \in 0..MaxItems /\ DOMAIN sent[c].body = 1..Len(sent[c].body)
      /\ sent[c].at \in 1..(MaxItems + 1) /\ sent[c].at <= Len(sent[c].body)
  BY <1>1, BodyType DEF Submission, SubmissionOK
<1>3. CASE Answered(c, "error")
  BY <1>3, AnsweredSent DEF Answers
<1>4. CASE \E pc \in {"items", "rules"}, n \in {sent[c].at, sent[c].at + 1} :
             /\ pc = "items" => n = sent[c].at + 1
             /\ pc = "rules" => n = sent[c].at
             /\ sent' = [sent EXCEPT ![c].stored = @ \cup {sent[c].at}, ![c].pc = pc, ![c].at = n]
  <2>1. PICK pc \in {"items", "rules"}, n \in {sent[c].at, sent[c].at + 1} :
             /\ pc = "items" => n = sent[c].at + 1
             /\ pc = "rules" => n = sent[c].at
             /\ sent' = [sent EXCEPT ![c].stored = @ \cup {sent[c].at}, ![c].pc = pc, ![c].at = n]
    BY <1>4
  <2> DEFINE stored == sent[c].stored \cup {sent[c].at}
             s == [sent[c] EXCEPT !.stored = stored, !.pc = pc, !.at = n]
  <2>2. n \in 1..(MaxItems + 1) /\ sent[c].at \in 1..MaxItems
    BY <1>2, IngestAssumption
  <2>3. stored \in SUBSET (1..MaxItems)
    BY <1>1, <2>2 DEF Submission
  <2>4. sent' = [sent EXCEPT ![c] = s]
    BY <2>1 DEF SentInv
  <2> HIDE DEF stored
  <2>5. /\ s \in Submission /\ s.pc = pc /\ s.body = sent[c].body /\ s.at = n
        /\ s.stored = stored /\ s.project = sent[c].project /\ s.answer = sent[c].answer
    BY <1>1, <2>2, <2>3 DEF Submission
  <2> HIDE DEF s
  <2>6. \A i \in DOMAIN s.body : i < s.at /\ Ingestible(s.body[i]) => i \in s.stored
    BY <1>1, <1>2, <2>1, <2>5 DEF SubmissionOK, stored
  <2>7. SubmissionOK(s)
    BY <1>1, <1>2, <2>1, <2>5, <2>6 DEF SubmissionOK, None, stored
  <2> QED
    BY <2>4, <2>7, OneSubmission
<1> QED
  BY <1>3, <1>4 DEF Insert

\* A task that changes leaves the others as they were.
LEMMA OneTask ==
  ASSUME TaskInv, UNCHANGED workload, NEW t \in Tasks, NEW k, TaskOK(k), task' = [task EXCEPT ![t] = k]
  PROVE  TaskInv'
BY DEF TaskInv, TaskOK

\* The end of an envelope, its rejected items and a body sent once more.
LEMMA OtherSent ==
  ASSUME SentInv, BodiesInv, NEW c \in Clients,
         Send(c) \/ Skip(c) \/ ItemFails(c) \/ CheckRules(c) \/ Finish(c) \/ Resend(c)
  PROVE  SentInv'
<1>1. SubmissionOK(sent[c]) /\ sent[c] \in Submission
  BY DEF SentInv
<1>2. /\ Len(sent[c].body) \in 0..MaxItems /\ DOMAIN sent[c].body = 1..Len(sent[c].body)
      /\ sent[c].at \in 1..(MaxItems + 1) /\ sent[c].attempts \in 0..MaxAttempts
  BY <1>1, BodyType DEF Submission
<1>3. CASE Send(c)
  <2>1. PICK key \in Keys \cup {None}, body \in Envelopes :
          sent' = [sent EXCEPT ![c] = [NothingSent EXCEPT !.pc = "lookup", !.key = key,
                                         !.body = body, !.attempts = 1]]
    BY <1>3 DEF Send, BodiesInv
  <2> DEFINE s == [NothingSent EXCEPT !.pc = "lookup", !.key = key,
                                      !.body = body, !.attempts = 1]
  <2>2. 1 \in 1..(MaxItems + 1) /\ 1 \in 0..MaxAttempts
    BY IngestAssumption
  <2>3. s \in Submission /\ s.pc = "lookup" /\ s.answer = None
    BY <2>2 DEF NothingSent, Submission, Answers
  <2> HIDE DEF s
  <2>4. SubmissionOK(s)
    BY <2>3 DEF SubmissionOK, None
  <2> QED
    BY <2>1, <2>4, OneSubmission DEF s
<1>4. CASE Skip(c)
  BY <1>4, AdvanceSent DEF Skip
<1>5. CASE ItemFails(c)
  BY <1>5, AnsweredSent DEF ItemFails, FailedResponse, Answers
<1>6. CASE CheckRules(c)
  <2>1. ~Over(c)
    BY <1>1, <1>2, <1>6 DEF CheckRules, SubmissionOK, Over
  <2> QED
    BY <1>1, <1>6, <2>1, AdvanceSent DEF CheckRules, SubmissionOK
<1>7. CASE Finish(c)
  <2>1. \A i \in DOMAIN sent[c].body : i < sent[c].at
    BY <1>2, <1>7 DEF Finish, Over
  <2>2. \A i \in DOMAIN sent[c].body : Ingestible(sent[c].body[i]) => i \in sent[c].stored
    BY <1>1, <1>7, <2>1 DEF Finish, SubmissionOK
  <2> QED
    BY <1>7, <2>2, AnsweredSent DEF Finish, Answers
<1>8. CASE Resend(c)
  <2> DEFINE n == sent[c].attempts + 1
             s == [sent[c] EXCEPT !.pc = "lookup", !.answer = None, !.attempts = n]
  <2>1. sent' = [sent EXCEPT ![c] = s]
    BY <1>8 DEF Resend, SentInv
  <2>2. n \in 0..MaxAttempts
    BY <1>2, <1>8, IngestAssumption DEF Resend
  <2> HIDE DEF n
  <2>3. s \in Submission /\ s.pc = "lookup" /\ s.answer = None
    BY <1>1, <2>2 DEF Submission
  <2> HIDE DEF s
  <2>4. SubmissionOK(s)
    BY <2>3 DEF SubmissionOK, None
  <2> QED
    BY <2>1, <2>4, OneSubmission
<1> QED
  BY <1>3, <1>4, <1>5, <1>6, <1>7, <1>8

\* The notification that CheckRules leaves behind has the row of the request.
LEMMA SpawnTask ==
  ASSUME SentInv, TaskInv, UNCHANGED workload, NEW c \in Clients, CheckRules(c)
  PROVE  TaskInv'
<1> DEFINE k == [NoTask EXCEPT !.pc = "queued", !.row = sent[c].row]
           t == <<c, sent[c].at>>
<1>1. CASE UNCHANGED task
  BY <1>1 DEF TaskInv, TaskOK
<1>2. CASE task' = [task EXCEPT ![t] = k]
  <2>1. SubmissionOK(sent[c]) /\ sent[c] \in Submission
    BY DEF SentInv
  <2>2. sent[c].at \in 1..MaxItems /\ sent[c].row \in Project \cup {NoProject}
    BY <2>1, BodyType, IngestAssumption DEF CheckRules, SubmissionOK, Submission
  <2>3. t \in Tasks
    BY <2>2 DEF Tasks
  <2>4. k \in Task /\ k.pc = "queued" /\ k.tried = {}
    BY <2>2 DEF NoTask, Task
  <2> HIDE DEF k, t
  <2>5. TaskOK(k)
    BY <2>4 DEF TaskOK
  <2> QED
    BY <1>2, <2>3, <2>5, OneTask
<1> QED
  BY <1>1, <1>2 DEF CheckRules

\* The steps of a submission.
LEMMA ClientInv ==
  ASSUME IngestInv, UNCHANGED <<tables, req, workload>>, NEW c \in Clients, ClientStep(c)
  PROVE  IngestInv'
<1>1. TablesInv' /\ RequestsInv' /\ BodiesInv'
  BY DEF IngestInv, TablesInv, RequestsInv, RequestOK, BodiesInv, tables, Live, Exists
<1>2. SentInv'
  BY LookupSent, UpsertInv, InsertSent, OtherSent DEF IngestInv, ClientStep, tables
<1>3. IssuesInv'
  <2>1. CASE Upsert(c)
    BY <2>1, UpsertInv DEF IngestInv, tables
  <2>2. CASE UNCHANGED issues
    BY <2>2 DEF IngestInv, IssuesInv, tables, Exists
  <2> QED
    BY <2>1, <2>2 DEF ClientStep, Send, Lookup, Skip, ItemFails, Insert, CheckRules, Finish, Resend
<1>4. TaskInv'
  <2>1. CASE CheckRules(c)
    BY <2>1, SpawnTask DEF IngestInv
  <2>2. CASE UNCHANGED task
    BY <2>2 DEF IngestInv, TaskInv, TaskOK
  <2> QED
    BY <2>1, <2>2 DEF ClientStep, Send, Lookup, Skip, Upsert, ItemFails, Insert, Finish, Resend
<1> QED
  BY <1>1, <1>2, <1>3, <1>4 DEF IngestInv

-----------------------------------------------------------------------------
(* Notifications, restarts and the whole system.                           *)

\* Each channel is behind the task before the next one is tried.
LEMMA TaskStepInv ==
  ASSUME TaskInv, UNCHANGED workload, NEW t \in Tasks, TaskStep(t)
  PROVE  TaskInv'
<1>1. TaskOK(task[t]) /\ task[t] \in Task
  BY DEF TaskInv
<1>2. ASSUME NEW k, TaskOK(k), To(t, k)
      PROVE  TaskInv'
  BY <1>2, OneTask DEF To
<1>3. CASE Ended(t)
  <2>1. [NoTask EXCEPT !.pc = "done"] \in Task
    BY DEF NoTask, Task
  <2>2. TaskOK([NoTask EXCEPT !.pc = "done"])
    BY <2>1 DEF TaskOK, NoTask
  <2> QED
    BY <1>3, <2>2, OneTask DEF Ended
<1>4. CASE Acquire(t) /\ ~Ended(t)
  <2>1. TaskOK([task[t] EXCEPT !.pc = "alertmanager"])
    BY <1>1, <1>4 DEF Acquire, TaskOK, Task
  <2> QED
    BY <1>2, <1>4, <2>1 DEF Acquire
<1>5. CASE TryAlertmanager(t)
  <2>1. TaskOK([task[t] EXCEPT !.pc = "webhook", !.tried = @ \cup {"alertmanager"}])
    BY <1>1, <1>5 DEF TryAlertmanager, TaskOK, Task, Channels
  <2> QED
    BY <1>2, <1>5, <2>1 DEF TryAlertmanager
<1>6. CASE SendWebhook(t)
  <2> DEFINE tried == IF WebhookOn(t) THEN task[t].tried \cup {"webhook"} ELSE task[t].tried
  <2>1. /\ tried \in SUBSET (Channels \cup Users) /\ task[t].tried \subseteq tried
        /\ "webhook" \in tried <=> workload.webhooks /\ task[t].row.webhook
    BY <1>1, <1>6 DEF TaskOK, Task, Channels, WebhookOn, SendWebhook
  <2>2. To(t, [task[t] EXCEPT !.pc = "members", !.tried = tried])
    BY <1>1, <1>6 DEF SendWebhook, Task
  <2>3. task[t].pc = "webhook"
    BY <1>6 DEF SendWebhook
  <2> HIDE DEF tried
  <2>4. TaskOK([task[t] EXCEPT !.pc = "members", !.tried = tried])
    BY <1>1, <2>1, <2>3 DEF TaskOK, Task
  <2> QED
    BY <1>2, <2>2, <2>4
<1>7. CASE ReadMembers(t) /\ ~Ended(t)
  <2>1. Recipients(t) \in SUBSET Users
    BY IngestAssumption DEF Recipients
  <2>2. TaskOK([task[t] EXCEPT !.pc = "mail", !.todo = Recipients(t), !.meant = Recipients(t)])
    BY <1>1, <1>7, <2>1 DEF ReadMembers, TaskOK, Task
  <2> QED
    BY <1>2, <1>7, <2>2 DEF ReadMembers
<1>8. CASE SendMail(t) /\ ~Ended(t)
  <2>1. PICK u \in task[t].todo :
          To(t, [task[t] EXCEPT !.todo = @ \ {u}, !.tried = @ \cup {u}])
    BY <1>8 DEF SendMail, AfterFailure, Unrendered
  <2>2. u \in Users /\ u # "webhook" /\ task[t].pc = "mail"
    BY <1>1, <1>8, IngestAssumption DEF Task, SendMail, Channels
  <2>3. TaskOK([task[t] EXCEPT !.todo = @ \ {u}, !.tried = @ \cup {u}])
    BY <1>1, <2>2 DEF TaskOK, Task
  <2> QED
    BY <1>2, <2>1, <2>3
<1> QED
  BY <1>3, <1>4, <1>5, <1>6, <1>7, <1>8 DEF TaskStep, EndTask

\* A restart forgets requests and tasks; the tables survive.
LEMMA CrashInv ==
  ASSUME IngestInv, UNCHANGED workload, Crash
  PROVE  IngestInv'
<1>1. TablesInv' /\ IssuesInv' /\ BodiesInv'
  BY DEF IngestInv, TablesInv, IssuesInv, BodiesInv, Crash, tables, Live, Exists
<1>2. RequestsInv'
  BY DEF RequestsInv, Crash
<1>3. SentInv'
  <2> DEFINE s == [NothingSent EXCEPT !.pc = "answered", !.answer = "lost"]
  <2>1. 1 \in 1..(MaxItems + 1) /\ 0 \in 0..MaxAttempts
    BY IngestAssumption
  <2>2. s \in Submission /\ s.pc = "answered" /\ s.answer = "lost"
    BY <2>1 DEF NothingSent, Submission, Answers
  <2> HIDE DEF s
  <2>3. SubmissionOK(s)
    BY <2>2 DEF SubmissionOK
  <2>4. sent' = [c \in Clients |-> IF sent[c].pc \in {"idle", "answered"} THEN sent[c] ELSE s]
    BY DEF Crash, s
  <2> QED
    BY <2>2, <2>3, <2>4 DEF IngestInv, SentInv, SubmissionOK
<1>4. TaskInv'
  <2> DEFINE k == [NoTask EXCEPT !.pc = "lost"]
  <2>1. k \in Task /\ k.pc = "lost"
    BY DEF NoTask, Task
  <2> HIDE DEF k
  <2>2. task' = [t \in Tasks |-> IF task[t].pc \in {"none", "done"} THEN task[t] ELSE k]
    BY DEF Crash, k
  <2> QED
    BY <2>1, <2>2 DEF IngestInv, TaskInv, TaskOK
<1> QED
  BY <1>1, <1>2, <1>3, <1>4 DEF IngestInv

\* Every step of the system preserves the invariant.
LEMMA StepInv ==
  ASSUME IngestInv, [Next]_vars
  PROVE  IngestInv'
<1>1. CASE UNCHANGED vars
  BY <1>1 DEF IngestInv, TablesInv, RequestsInv, RequestOK, IssuesInv, SentInv, SubmissionOK,
              TaskInv, TaskOK, BodiesInv, vars, pvars, ivars, tables, Live, Exists
<1>2. CASE /\ TeamsChange \/ \E r \in Requests : HandlerStep(r)
           /\ Cascade /\ UNCHANGED <<sent, task, workload>>
  <2>1. TablesInv' /\ RequestsInv'
    <3>1. CASE TeamsChange
      BY <1>2, <3>1, TeamTables DEF IngestInv, RequestsInv, RequestOK
    <3>2. CASE \E r \in Requests : HandlerStep(r)
      BY <1>2, <3>2, HandlerInv DEF IngestInv
    <3> QED
      BY <1>2, <3>1, <3>2
  <2>2. IssuesInv'
    BY <1>2 DEF IngestInv, IssuesInv, Cascade, Exists
  <2>3. SentInv' /\ TaskInv' /\ BodiesInv'
    BY <1>2 DEF IngestInv, SentInv, SubmissionOK, TaskInv, TaskOK, BodiesInv
  <2> QED
    BY <2>1, <2>2, <2>3 DEF IngestInv
<1>3. CASE (\E c \in Clients : ClientStep(c)) /\ UNCHANGED <<tables, req, workload>>
  BY <1>3, ClientInv
<1>4. CASE (\E t \in Tasks : TaskStep(t)) /\ UNCHANGED <<tables, req, workload>>
  <2>1. UNCHANGED <<issues, sent>>
    BY <1>4 DEF TaskStep, Acquire, TryAlertmanager, SendWebhook, ReadMembers, SendMail, EndTask,
                Unrendered, Ended, To
  <2>2. TaskInv'
    BY <1>4, TaskStepInv DEF IngestInv
  <2> QED
    BY <1>4, <2>1, <2>2 DEF IngestInv, TablesInv, RequestsInv, RequestOK, IssuesInv, SentInv,
                            SubmissionOK, BodiesInv, tables, Live, Exists
<1>5. CASE Crash /\ UNCHANGED workload
  BY <1>5, CrashInv
<1> QED
  BY <1>1, <1>2, <1>3, <1>4, <1>5 DEF Next

\* The list that a user gets is what effective_role lets that user open: the
\* join of the overviews and the checks of the handlers agree.
LEMMA ListsWhatOpens ==
  ASSUME TablesInv, NEW u \in Users
  PROVE  Visible(u) = {p \in Live : effective_role(u, p) # None}
<1>1. \A p \in Live : Exists(p) /\ member_role(projects[p].team, u) \in Roles \cup {None}
  <2>1. \A p \in Live : projects[p].team \in Teams /\ Exists(p)
    BY LiveRow DEF Live, Project
  <2> QED
    BY <2>1 DEF TablesInv, member_role
<1> QED
  BY <1>1 DEF Visible, effective_role, resolve_role, Roles, None

\* The invariant is an invariant of the specification.
LEMMA IngestInductive == Spec => []IngestInv
<1>1. Init => IngestInv
  BY InitInv
<1>2. IngestInv /\ [Next]_vars => IngestInv'
  BY StepInv
<1> QED
  BY <1>1, <1>2, PTL DEF Spec

\* Whatever creates, moves, deletes, key rotations, submissions and restarts
\* overlap, references between the tables hold, slugs and DSN keys identify a
\* project, and a user is listed exactly what that user may open.
THEOREM ProjectsAlwaysConsistent == Spec => []ProjectsConsistent
<1>1. IngestInv => ProjectsConsistent
  <2> SUFFICES ASSUME IngestInv PROVE ProjectsConsistent
    OBVIOUS
  <2>1. TypeOK
    BY DEF IngestInv, TablesInv, RequestsInv, IssuesInv, SentInv, TaskInv, TypeOK
  <2>2. \A u \in Users : Visible(u) = {p \in Live : effective_role(u, p) # None}
    BY ListsWhatOpens DEF IngestInv
  <2> QED
    BY <2>1, <2>2 DEF IngestInv, TablesInv, IssuesInv, ProjectsConsistent
<1> QED
  BY <1>1, IngestInductive, PTL

\* Whatever was answered 200 is stored, over all resends and crashes: the loop
\* over the items passes only what is stored or is no event.
THEOREM AcknowledgedAlwaysStored == Spec => []AcknowledgedIsStored
<1>1. IngestInv => AcknowledgedIsStored
  BY DEF IngestInv, SentInv, SubmissionOK, AcknowledgedIsStored
<1> QED
  BY <1>1, IngestInductive, PTL

\* Only a task that is past Alertmanager and the webhook ends by itself: the
\* mute check comes before both, a restart loses the task.
LEMMA EndsPastWebhook ==
  ASSUME Next, NEW t \in Tasks, t \in Running, task'[t].pc = "done", TaskInv
  PROVE  task[t].pc \in {"members", "mail"}
<1>1. task[t].pc \in {"alertmanager", "webhook", "members", "mail"} /\ task[t] \in Task
  BY DEF Running, TaskInv
<1>2. CASE UNCHANGED task
  BY <1>1, <1>2
<1>3. CASE \E c \in Clients : ClientStep(c)
  <2>1. \/ UNCHANGED task
        \/ \E c \in Clients : \E row : task' = [task EXCEPT ![<<c, sent[c].at>>] =
                                         [NoTask EXCEPT !.pc = "queued", !.row = row]]
    BY <1>3 DEF ClientStep, Send, Lookup, Skip, Upsert, ItemFails, Insert, CheckRules, Finish, Resend
  <2> QED
    BY <1>1, <1>2, <2>1 DEF TaskInv, NoTask
<1>4. CASE \E k \in Tasks : TaskStep(k)
  <2>1. PICK k \in Tasks : TaskStep(k)
    BY <1>4
  <2>2. CASE k # t
    <3>1. task'[t] = task[t]
      BY <2>1, <2>2 DEF TaskStep, Acquire, TryAlertmanager, SendWebhook, ReadMembers, SendMail,
                        EndTask, Unrendered, Ended, To, TaskInv
    <3> QED
      BY <1>1, <3>1
  <2>3. CASE k = t
    <3>1. ~Acquire(t)
      BY <1>1 DEF Acquire
    <3>2. ~TryAlertmanager(t) /\ ~SendWebhook(t)
      BY <1>1 DEF TryAlertmanager, SendWebhook, To, TaskInv, Task
    <3> QED
      BY <2>1, <2>3, <3>1, <3>2 DEF TaskStep, ReadMembers, SendMail, EndTask
  <2> QED
    BY <2>2, <2>3
<1>5. CASE Crash
  BY <1>1, <1>5 DEF Crash, NoTask
<1> QED
  BY <1>2, <1>3, <1>4, <1>5 DEF Next

\* dispatch ends only with both project channels behind it, the webhook as the
\* setting says, and comes to its end with every recipient behind it.
THEOREM EveryChannelAlwaysTried == Spec => EveryChannelTried
<1>1. IngestInv /\ [Next]_vars =>
        [\A t \in Tasks : t \in Running /\ task'[t].pc = "done" =>
           /\ "alertmanager" \in task[t].tried
           /\ "webhook" \in task[t].tried <=> WebhookOn(t)
           /\ EndTask(t) => task[t].meant \subseteq task[t].tried]_vars
  <2> SUFFICES ASSUME IngestInv, Next, NEW t \in Tasks, t \in Running, task'[t].pc = "done"
               PROVE  /\ "alertmanager" \in task[t].tried
                      /\ "webhook" \in task[t].tried <=> WebhookOn(t)
                      /\ EndTask(t) => task[t].meant \subseteq task[t].tried
    OBVIOUS
  <2>1. task[t].pc \in {"members", "mail"} /\ TaskOK(task[t])
    BY EndsPastWebhook DEF IngestInv, TaskInv
  <2> QED
    BY <2>1 DEF TaskOK, WebhookOn, EndTask
<1> QED
  BY <1>1, IngestInductive, PTL DEF Spec, EveryChannelTried

-----------------------------------------------------------------------------
(* What a step may do to the row of a project.                             *)

\* The row of p keeps its slug; a new team is the work of a move or of the
\* deletion of the old team, a new key of a regenerate.
Reassigned(p) ==
  projects'[p] # NoProject =>
    /\ projects'[p].team # projects[p].team =>
         workload.ui /\ (MovedByRequest(p) \/ MovedByDeletion(p))
    /\ projects'[p].key # projects[p].key =>
         \E r \in Requests : req[r] # Idle /\ req[r].op = "regenerate" /\ projects'[p].key \notin spent
    /\ projects'[p].slug = projects[p].slug

\* Four statements of a handler write projects: an INSERT takes an unused id, a DELETE
\* leaves no row, and the two UPDATEs set the columns they name.
LEMMA HandlerReassigns ==
  ASSUME TablesInv, RequestsInv, UNCHANGED workload, NEW r \in Requests, HandlerStep(r),
         NEW p \in Live
  PROVE  Reassigned(p)
<1>1. p \in ProjectIds /\ p \in spent
  BY DEF TablesInv, Live
<1>2. CASE projects'[p] = projects[p] \/ projects'[p] = NoProject
  BY <1>2 DEF Reassigned
<1>3. CASE Create(r)
  BY <1>1, <1>2, <1>3 DEF Create, tables, TablesInv
<1>4. CASE Update(r)
  <2> DEFINE q == req[r].project
             body == UpdateBody(r)
  <2>1. /\ body \in Patch /\ RequestOK(req[r]) /\ req[r].pc = "write"
        /\ req[r].op # "move" => body.team = Keep
        /\ req[r].op = "move" => body = req[r].body
    BY <1>4, UpdateBodyType DEF Update, UpdateBody
  <2>2. \/ projects' = projects
        \/ projects' = [projects EXCEPT ![q] = Updated(r, @, body)]
    BY <1>4 DEF Update, UpdateBody
  <2>4. q = req[r].project /\ req'[r] = Idle
    BY <1>4 DEF Update, Reply, RequestsInv
  <2> HIDE DEF q, body
  <2>3. CASE p = q /\ projects'[p] = Updated(r, projects[p], body)
    <3>1. /\ projects'[p].slug = projects[p].slug /\ projects'[p].key = projects[p].key
          /\ projects'[p].team # projects[p].team => /\ body.team # Keep
                                                    /\ projects'[p].team = body.team
      BY <2>1, <2>3, UpdatedRow
    <3>2. body.team # Keep => /\ req[r] # Idle /\ req[r].op = "move" /\ req[r].user \in Managers
                              /\ workload.ui /\ body = req[r].body
      BY <2>1 DEF RequestOK, Idle
    <3>3. projects'[p].team # projects[p].team => workload.ui /\ MovedByRequest(p)
      BY <2>3, <2>4, <3>1, <3>2 DEF MovedByRequest
    <3> QED
      BY <3>1, <3>3 DEF Reassigned
  <2> QED
    BY <1>1, <1>2, <2>2, <2>3 DEF TablesInv
<1>5. CASE Regenerate(r)
  <2>1. RequestOK(req[r]) /\ req[r].pc = "write" /\ req[r].op = "regenerate" /\ req[r] # Idle
    BY <1>5, InFlight DEF Regenerate, Idle
  <2>2. PICK key \in Keys \ spent : \/ projects' = projects
                                    \/ projects' = [projects EXCEPT ![req[r].project].key = key]
    BY <1>5 DEF Regenerate
  <2>3. projects[p] \in Project
    BY <1>1, LiveRow
  <2>4. CASE projects'[p] = [projects[p] EXCEPT !.key = key]
    BY <2>1, <2>3, <2>4 DEF Reassigned, Project
  <2> QED
    BY <1>1, <1>2, <2>2, <2>4 DEF TablesInv
<1>6. CASE Delete(r)
  BY <1>1, <1>2, <1>6 DEF Delete, TablesInv
<1>7. CASE SetFavorite(r) \/ WriteRule(r)
  BY <1>2, <1>7 DEF SetFavorite, WriteRule
<1>8. CASE \E u \in Users, op \in Ops : Begin(r, u, op)
  BY <1>2, <1>8 DEF Begin, tables
<1>9. CASE Resolve(r) \/ ReadTeam(r) \/ ReadRole(r) \/ FindTarget(r) \/ ReadFavorites(r)
  BY <1>2, <1>9, ReadSteps DEF tables
<1> QED
  BY <1>3, <1>4, <1>5, <1>6, <1>7, <1>8, <1>9 DEF HandlerStep

\* The deletion of a team moves all its projects to one team that exists.
LEMMA DeletionReassigns ==
  ASSUME TablesInv, NEW t \in Teams, NEW target \in Teams \cup {None}, DeleteTeam(t, target),
         NEW p \in Live
  PROVE  Reassigned(p)
<1>1. p \in ProjectIds /\ projects[p] \in Project
  BY LiveRow DEF Live
<1>2. projects' = [q \in ProjectIds |-> IF q \in OwnedBy(t) THEN [projects[q] EXCEPT !.team = target]
                                       ELSE projects[q]]
  BY DEF DeleteTeam
<1>3. CASE p \notin OwnedBy(t)
  BY <1>1, <1>2, <1>3 DEF Reassigned
<1>4. CASE p \in OwnedBy(t)
  <2>1. projects[p].team = t /\ target \in Teams \ {t} /\ workload.ui
    BY <1>4 DEF DeleteTeam, OwnedBy
  <2>2. /\ projects'[p].team = target /\ projects'[p].slug = projects[p].slug
        /\ projects'[p].key = projects[p].key
    BY <1>1, <1>2, <1>4 DEF Project
  <2>3. teams[t].exists /\ ~teams'[t].exists
    BY DEF DeleteTeam, TablesInv, NoTeam
  <2>4. teams'[target].exists
    <3>1. target # None
      BY <2>1, ProjectsAssumption DEF None
    <3> QED
      BY <2>1, <3>1 DEF DeleteTeam, TablesInv
  <2>5. \A q \in OwnedBy(t) : projects'[q] = [projects[q] EXCEPT !.team = target]
    BY <1>2 DEF OwnedBy, Live
  <2>6. MovedByDeletion(p)
    BY <2>1, <2>2, <2>3, <2>4, <2>5 DEF MovedByDeletion
  <2> QED
    BY <2>1, <2>2, <2>6 DEF Reassigned
<1> QED
  BY <1>3, <1>4

\* A stale PATCH or mute never moves a project back: a project is moved by a
\* manager's change_team to the team it names, or with all others of a team that
\* is deleted; keys change only to keys never used before.
THEOREM OnlyMoveEverReassigns == Spec => OnlyMoveReassigns
<1>1. IngestInv /\ [Next]_vars => [\A p \in Live : Reassigned(p)]_vars
  <2> SUFFICES ASSUME IngestInv, Next, NEW p \in Live PROVE Reassigned(p)
    OBVIOUS
  <2>1. CASE UNCHANGED projects
    BY <2>1 DEF Reassigned
  <2>2. CASE (\E r \in Requests : HandlerStep(r)) /\ UNCHANGED workload
    BY <2>2, HandlerReassigns DEF IngestInv
  <2>3. CASE TeamsChange
    BY <2>1, <2>3, DeletionReassigns, SetMemberTables DEF IngestInv, TeamsChange
  <2> QED
    BY <2>1, <2>2, <2>3 DEF Next, Crash, tables
<1> QED
  BY <1>1, IngestInductive, PTL DEF Spec, OnlyMoveReassigns, Reassigned

=============================================================================
