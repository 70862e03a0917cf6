------------------------------- MODULE Ingest -------------------------------
(***************************************************************************)
(* An SDK request from its DSN key to its answer, and the notification it  *)
(* leaves behind, beside the API requests of Projects that may rotate the  *)
(* key, mute, move or delete the project meanwhile: ingest/handlers.rs and *)
(* notify.rs.  The row found by key is a snapshot that the rest of the     *)
(* request and its background task use.  How an event is grouped is the    *)
(* subject of IssueTracker: here an issue is new or it is not; regressions *)
(* are announced by the same code as new issues.                           *)
(***************************************************************************)
EXTENDS Projects, Sequences, Functions

CONSTANTS Clients,      \* the SDKs, each with one request at a time
          Envelopes,    \* the bodies they send: sequences of items
          RuleTags,     \* the tag pairs of each mute rule
          OptedIn,      \* the users who want notifications
          Slots,        \* NOTIFY_CONCURRENCY
          MaxItems,     \* bound: items per envelope
          MaxAttempts   \* bound: how often a client sends the same body

Items == UNION {Range(b) : b \in Envelopes}

Channels == {"alertmanager", "webhook"}

ASSUME IngestAssumption == /\ Slots \in Nat \ {0} /\ MaxAttempts \in Nat \ {0}
                           /\ MaxItems \in Nat
                           /\ \A k \in Rules : RuleTags[k] # {}
                           /\ OptedIn \subseteq Users /\ Users \cap Channels = {}
                           /\ \A b \in Envelopes : b \in Seq(Items) /\ Len(b) <= MaxItems
                           /\ \A w \in Workloads : w.bodies \subseteq Envelopes

VARIABLES issues,   \* the issues: project and fingerprint
          sent,     \* the request of each client
          task      \* the notification tasks, by client and item

ivars == <<issues, sent, task>>
vars == <<pvars, ivars>>

Tasks == Clients \X (1..MaxItems)

Answers == {"ok", "unauthorized", "forbidden", "limited", "rejected", "busy",
            "error", "lost"}
Submission == [pc: {"idle", "lookup", "items", "insert", "rules", "answered"},
               key: Keys \cup {None}, body: Envelopes \cup {<<>>}, at: 1..(MaxItems + 1),
               project: ProjectIds \cup {None}, row: Project \cup {NoProject},
               new: BOOLEAN, stored: SUBSET (1..MaxItems),
               answer: Answers \cup {None}, attempts: 0..MaxAttempts]
NothingSent == [pc |-> "idle", key |-> None, body |-> <<>>, at |-> 1, project |-> None,
                row |-> NoProject, new |-> FALSE, stored |-> {}, answer |-> None,
                attempts |-> 0]

Task == [pc: {"none", "queued", "alertmanager", "webhook", "members", "mail", "done", "lost"},
         row: Project \cup {NoProject}, todo: SUBSET Users, tried: SUBSET (Channels \cup Users),
         meant: SUBSET Users]
NoTask == [pc |-> "none", row |-> NoProject, todo |-> {}, tried |-> {}, meant |-> {}]

Item(c) == sent[c].body[sent[c].at]
Over(c) == sent[c].at > Len(sent[c].body)

\* is_ingestible_event and a payload that parses; the rest is dropped, acked.
Ingestible(item) == item.event /\ item.valid

Advance(c) == sent' = [sent EXCEPT ![c].pc = "items", ![c].at = @ + 1]

\* The answer; what the request had read is gone.
Answered(c, code) ==
  sent' = [sent EXCEPT ![c].pc = "answered", ![c].answer = code, ![c].at = 1,
                       ![c].project = None, ![c].row = NoProject, ![c].new = FALSE]

-----------------------------------------------------------------------------
(* The request.                                                            *)

\* A client may still use a key that was rotated, or send none.
Send(c) ==
  /\ "send" \in workload.ops
  /\ sent[c].pc = "idle"
  /\ \E key \in (spent \cap Keys) \cup {None}, body \in workload.bodies :
       sent' = [sent EXCEPT ![c] = [NothingSent EXCEPT !.pc = "lookup", !.key = key,
                                      !.body = body, !.attempts = 1]]
  /\ UNCHANGED <<issues, task>>

\* The project a request is for: that of the key in its header or query.
Resolved(c) == {p \in Live : projects[p].key = sent[c].key}

\* A body that is corrupt or inflates too far, one that is no envelope.
Undecodable(c) == Answered(c, "rejected")
Malformed(c) == Answered(c, "rejected")

\* authorize_and_decode: unknown key or failed read, orphaned project, rate
\* limit (LoginGuard has the limiter), body.
Lookup(c) ==
  /\ sent[c].pc = "lookup"
  /\ \/ Resolved(c) = {} /\ Answered(c, "unauthorized")
     \/ Answered(c, "error")
     \/ \E p \in Resolved(c) :
          IF projects[p].orphaned THEN Answered(c, "forbidden")
          ELSE \/ Answered(c, "limited") \/ Undecodable(c) \/ Malformed(c)
               \/ sent' = [sent EXCEPT ![c].pc = "items", ![c].project = p,
                                       ![c].row = projects[p], ![c].at = 1]
  /\ UNCHANGED <<issues, task>>

Skip(c) ==
  /\ sent[c].pc = "items" /\ ~Over(c)
  /\ ~Ingestible(Item(c))
  /\ Advance(c)
  /\ UNCHANGED <<issues, task>>

\* The upsert of ingest_normalized; refused when the project is gone.
Upsert(c) ==
  /\ sent[c].pc = "items" /\ ~Over(c)
  /\ Ingestible(Item(c))
  /\ LET key == <<sent[c].project, Item(c).fingerprint>>
     IN  IF ForeignKey(sent[c].project)
         THEN /\ issues' = issues \cup {key}
              /\ sent' = [sent EXCEPT ![c].pc = "insert", ![c].new = key \notin issues]
         ELSE Answered(c, "error") /\ UNCHANGED issues
  /\ UNCHANGED task

\* Fault: a failed item is logged and the loop goes on.
GoOn(c, code) == sent' = [sent EXCEPT ![c].pc = "items", ![c].at = @ + 1]
\* failed_response ends the request at the first item that fails.
FailedResponse(c, code) == Answered(c, code)

\* A write that stays locked out through all retries answers 429, any other
\* failure 500; the items before it are stored.
ItemFails(c) ==
  /\ sent[c].pc \in {"items", "insert"} /\ ~Over(c)
  /\ Ingestible(Item(c))
  /\ \E code \in {"busy", "error"} : FailedResponse(c, code)
  /\ UNCHANGED <<issues, task>>

\* The event insert; then whether a notification is due.  The muted flag is
\* the one of the snapshot; an event without tags skips the rules.
Insert(c) ==
  /\ sent[c].pc = "insert"
  /\ LET stored == <<sent[c].project, Item(c).fingerprint>> \in issues
         quiet == ~sent[c].new \/ sent[c].row.muted
     IN  IF ~stored THEN Answered(c, "error")
         ELSE sent' = [sent EXCEPT ![c].stored = @ \cup {sent[c].at},
                                   ![c].pc = IF quiet THEN "items" ELSE "rules",
                                   ![c].at = IF quiet THEN @ + 1 ELSE @]
  /\ UNCHANGED <<issues, task>>

matches(k, tags) == RuleTags[k] \subseteq tags

\* tag_muted over the rules of the project; when they cannot be read the
\* notification goes out.  spawn_notification clones the snapshot.
CheckRules(c) ==
  /\ sent[c].pc = "rules"
  /\ LET spawned == [task EXCEPT ![<<c, sent[c].at>>] =
                       [NoTask EXCEPT !.pc = "queued", !.row = sent[c].row]]
         muted == \E k \in Rules : /\ rules[k] = sent[c].project
                                   /\ matches(k, Item(c).tags)
     IN  \/ muted /\ UNCHANGED task
         \/ ~muted /\ task' = spawned
         \/ muted /\ task' = spawned          \* the lookup failed
  /\ Advance(c)
  /\ UNCHANGED issues

Finish(c) ==
  /\ sent[c].pc = "items" /\ Over(c)
  /\ Answered(c, "ok")
  /\ UNCHANGED <<issues, task>>

\* The SDK holds what was answered 429 and sends the whole body again.
Resend(c) ==
  /\ sent[c].pc = "answered" /\ sent[c].answer \in {"limited", "busy"}
  /\ sent[c].attempts < MaxAttempts
  /\ sent' = [sent EXCEPT ![c].pc = "lookup", ![c].answer = None, ![c].attempts = @ + 1]
  /\ UNCHANGED <<issues, task>>

-----------------------------------------------------------------------------
(* The notification: dispatch, one channel after the other.                *)

\* Fault: a task that has ended keeps its permit.
NeverReleased == {t \in Tasks : task[t].pc \notin {"none", "queued"}}
\* The tasks that hold a permit of NOTIFY_SLOTS.
Running == {t \in Tasks : task[t].pc \in {"alertmanager", "webhook", "members", "mail"}}

Ended(t) == /\ task' = [task EXCEPT ![t] = [NoTask EXCEPT !.pc = "done"]]
            /\ UNCHANGED <<issues, sent>>

To(t, next) == task' = [task EXCEPT ![t] = next] /\ UNCHANGED <<issues, sent>>

\* is_suppressed looks at the snapshot.
Suppressed(t) == task[t].row.muted

\* A slot of the semaphore, then the mute check of dispatch.
Acquire(t) ==
  /\ task[t].pc = "queued"
  /\ Cardinality(Running) < Slots
  /\ IF Suppressed(t) THEN Ended(t)
     ELSE To(t, [task[t] EXCEPT !.pc = "alertmanager"])

\* alertmanager::notify, with its own tables in AlertLifecycle: whatever it
\* returns is logged and the next channel is tried.
TryAlertmanager(t) ==
  /\ task[t].pc = "alertmanager"
  /\ To(t, [task[t] EXCEPT !.pc = "webhook", !.tried = @ \cup {"alertmanager"}])

\* WEBHOOKS_ENABLED is off unless the process was started with it; the URL is
\* that of the snapshot.
WebhookOn(t) == workload.webhooks /\ task[t].row.webhook

\* send_webhook swallows every error; it ends by its timeout at the latest.
SendWebhook(t) ==
  /\ task[t].pc = "webhook"
  /\ To(t, [task[t] EXCEPT !.pc = "members",
              !.tried = IF WebhookOn(t) THEN @ \cup {"webhook"} ELSE @])

\* recipients: members of the team of the snapshot, without the opt-outs; a
\* disabled mailer or a failed read ends the task.
Recipients(t) ==
  LET team == teams[task[t].row.team]
  IN  {u \in OptedIn : team.exists /\ team.role[u] # None}

ReadMembers(t) ==
  /\ task[t].pc = "members"
  /\ \/ To(t, [task[t] EXCEPT !.pc = "mail", !.todo = Recipients(t), !.meant = Recipients(t)])
     \/ Ended(t)

\* Fault: the first address that is refused ends the delivery.
StopAtFailure(t, u) == [task[t] EXCEPT !.todo = {}, !.tried = @ \cup {u}]
\* The loop goes on after a delivery that failed.
AfterFailure(t, u) == [task[t] EXCEPT !.todo = @ \ {u}, !.tried = @ \cup {u}]

\* A template that does not render ends the loop.
Unrendered(t) == Ended(t)

\* One address after the other.
SendMail(t) ==
  /\ task[t].pc = "mail" /\ task[t].todo # {}
  /\ LET u == CHOOSE v \in task[t].todo : TRUE
     IN  \/ To(t, [task[t] EXCEPT !.todo = @ \ {u}, !.tried = @ \cup {u}])
         \/ To(t, AfterFailure(t, u))
         \/ Unrendered(t)

\* The end of the task releases its slot.
EndTask(t) == task[t].pc = "mail" /\ task[t].todo = {} /\ Ended(t)

\* A restart forgets requests and tasks; the tables survive.
Crash ==
  /\ "crash" \in workload.ops
  /\ sent' = [c \in Clients |-> IF sent[c].pc \in {"idle", "answered"} THEN sent[c]
                                ELSE [NothingSent EXCEPT !.pc = "answered", !.answer = "lost"]]
  /\ task' = [t \in Tasks |-> IF task[t].pc \in {"none", "done"} THEN task[t]
                              ELSE [NoTask EXCEPT !.pc = "lost"]]
  /\ req' = [r \in Requests |-> Idle]
  /\ UNCHANGED <<tables, issues>>

-----------------------------------------------------------------------------

Init ==
  /\ InitProjects
  /\ issues = {}
  /\ sent = [c \in Clients |-> NothingSent]
  /\ task = [t \in Tasks |-> NoTask]

ClientStep(c) ==
  \/ Send(c) \/ Lookup(c) \/ Skip(c) \/ Upsert(c) \/ ItemFails(c) \/ Insert(c)
  \/ CheckRules(c) \/ Finish(c) \/ Resend(c)

TaskStep(t) ==
  \/ Acquire(t) \/ TryAlertmanager(t) \/ SendWebhook(t) \/ ReadMembers(t) \/ SendMail(t)
  \/ EndTask(t)

\* issues.project_id REFERENCES projects ON DELETE CASCADE.
Cascade == issues' = {i \in issues : projects'[i[1]] # NoProject}

Next ==
  /\ UNCHANGED workload
  /\ \/ /\ TeamsChange \/ \E r \in Requests : HandlerStep(r)
        /\ Cascade
        /\ UNCHANGED <<sent, task>>
     \/ /\ \/ \E c \in Clients : ClientStep(c)
           \/ \E t \in Tasks : TaskStep(t)
        /\ UNCHANGED <<tables, req>>
     \/ Crash

\* The runtime polls every spawned task; the semaphore is fair, the webhook
\* and the mail transport have timeouts.
Spec == Init /\ [][Next]_vars /\ \A t \in Tasks : WF_vars(TaskStep(t) /\ UNCHANGED pvars)

-----------------------------------------------------------------------------
(* Properties.                                                             *)

TypeOK ==
  /\ teams \in [Teams -> [exists: BOOLEAN, role: [Users -> Roles \cup {None}]]]
  /\ projects \in [ProjectIds -> Project \cup {NoProject}]
  /\ favorites \subseteq Users \X ProjectIds
  /\ rules \in [Rules -> ProjectIds \cup {None}]
  /\ req \in [Requests -> Request \cup {Idle}]
  /\ issues \subseteq ProjectIds \X {i.fingerprint : i \in Items}
  /\ sent \in [Clients -> Submission]
  /\ task \in [Tasks -> Task]

\* Whatever creates, moves, deletes and submissions overlap: no project is without
\* its team, no favorite, rule or issue without its project, slugs and DSN keys
\* identify a project, and the list a user gets is exactly the set of projects
\* the handlers would let that user open (overviews, effective_role).
ProjectsConsistent ==
  /\ TypeOK
  /\ \A p \in Live : teams[projects[p].team].exists
  /\ \A f \in favorites : Exists(f[2])
  /\ \A k \in Rules : rules[k] # None => Exists(rules[k])
  /\ \A i \in issues : Exists(i[1])
  /\ \A p, q \in Live : p # q => /\ projects[p].slug # projects[q].slug
                                 /\ projects[p].key # projects[q].key
  /\ \A u \in Users : Visible(u) = {p \in Live : effective_role(u, p) # None}

\* A project changes its team only where projects are managed in the UI, and
\* then either by the write of a manager's change_team that names this project
\* and this team, or together with all projects of a team that is deleted in the
\* same step (move_projects_to).  It changes its key only by regenerate-dsn, to
\* one never used, and keeps its slug: an update that read the project before it
\* was moved does not move it back.  The configuration file is ConfigSync's.
MovedByRequest(p) ==
  \E r \in Requests : /\ req[r] # Idle /\ req'[r] = Idle
                      /\ req[r].op = "move" /\ req[r].user \in Managers
                      /\ req[r].project = p /\ req[r].body.team = projects'[p].team
MovedByDeletion(p) ==
  /\ teams[projects[p].team].exists /\ ~teams'[projects[p].team].exists
  /\ teams'[projects'[p].team].exists
  /\ \A q \in OwnedBy(projects[p].team) : projects'[q] = [projects[q] EXCEPT !.team = projects'[p].team]
OnlyMoveReassigns ==
  [][\A p \in Live : projects'[p] # NoProject =>
       /\ projects'[p].team # projects[p].team =>
            workload.ui /\ (MovedByRequest(p) \/ MovedByDeletion(p))
       /\ projects'[p].key # projects[p].key =>
            \E r \in Requests : req[r] # Idle /\ req[r].op = "regenerate" /\ projects'[p].key \notin spent
       /\ projects'[p].slug = projects[p].slug]_vars

\* A client that is told 200 has every event of its envelope stored, also
\* when earlier attempts stopped half-way.
AcknowledgedIsStored ==
  \A c \in Clients : sent[c].answer = "ok" =>
    \A i \in DOMAIN sent[c].body : Ingestible(sent[c].body[i]) => i \in sent[c].stored

\* A delivery that nothing suppressed ends, unless the process dies, only after
\* Alertmanager was tried, and the webhook exactly if webhooks are enabled and
\* the project had one; and when it comes to its end it has tried every
\* recipient, whichever delivery failed.
EveryChannelTried ==
  [][\A t \in Tasks : t \in Running /\ task'[t].pc = "done" =>
       /\ "alertmanager" \in task[t].tried
       /\ "webhook" \in task[t].tried <=> WebhookOn(t)
       /\ EndTask(t) => task[t].meant \subseteq task[t].tried]_vars

\* A queued notification is delivered unless the process dies: bursts wait for
\* a slot, and no slot is kept.
NotificationsEnd ==
  \A t \in Tasks : task[t].pc = "queued" ~> task[t].pc \in {"done", "lost"}

=============================================================================
