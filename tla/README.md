# Soika: a TLA+ model of its core

Soika is a self-hosted error tracker that speaks the Sentry wire protocol. SDKs
post events; Soika groups them into issues by fingerprint, stores them, notifies
teams (email, webhook, Alertmanager), and lets users triage. It is one Rust
process (axum, tokio) over SQLite or PostgreSQL.

This directory holds a model of the parts where concurrency, failure and time
meet, checked with TLC on small instances and proved with TLAPS where stated.
Paths below are relative to the repository root.

## Inventory

| Component | State | Operations | What is hard | What makes it correct |
|---|---|---|---|---|
| Ingest requests (`src/ingest/handlers.rs`) | none of its own; a request holds an issue snapshot between transactions | `envelope`, `store` -> `process_event` -> 200, 429 or 500 | upsert and insert are separate transactions; a 429 makes the SDK send the event again; a crash in between | counters cover what is stored; an issue is announced once |
| Grouping and issue store (`src/grouping/pipeline.rs`, `src/adapters/*/issue.rs`, `event.rs`) | tables `issues`, `events` | `upsert_by_fingerprint`, `insert`, `set_status`, `mute`, `override_fingerprint`, `count_in_window` | racing creation, merge under an in-flight insert, decisions on a stale snapshot | one issue per fingerprint, no orphan events, consistent mute columns |
| Triage API (`src/api/issues.rs`) | - | resolve, unresolve, mute (forever, until, event rate), fingerprint override | runs between any two steps of ingestion | a user's decision is not undone by something older |
| Scheduler (`src/scheduler.rs`) | next cron occurrence | retention by count and age in batches, mute expiry | batches release the lock, events arrive in between | deletes only what is over a limit, and eventually all of it; mutes end |
| Alertmanager delivery (`src/alertmanager.rs`) | table `notification_alerts`, one async mutex | `notify`, `refresh`, `reconcile` | HTTP calls that fail, time out, or succeed without saying so; crashes between call and write; leases against changing intervals | nothing fires untracked; closed issues go quiet; live alerts stay up |
| Email and webhooks (`src/notify.rs`, `src/mail.rs`) | eight delivery slots | `notify_new_issue`, `notify_regression` | queued tasks are lost in a crash; a recipient fails in the middle; a row read long before delivery | every enabled channel and every recipient is tried; no slot is kept |
| Ingest rate limiter (`src/ingest/ratelimit.rs`) | one window per key | `check_at` | the boundary of two windows | at most `limit` per window |
| Login lockout (`src/auth/lockout.rs`) | bounded map of entries | `check_at`, `record_failure_at`, `record_success` | concurrent attempts between check and record; the map at its limit | a key at its threshold is locked, for a growing time |
| Accounts and sessions (`src/auth/`, `src/adapters/*/user.rs`, `session.rs`) | `users`, `sessions` | setup, register, login, approve, promote, demote, delete, convert to SSO | two administrators acting at once | there is always an owner; pending users hold no session |
| Teams and invites (`src/api/teams.rs`, `invites.rs`) | `teams`, `team_members`, `invites` | membership, roles, invite, accept, revoke | double acceptance, last admin | an invite is used once; a team keeps an admin |
| SSO and passkeys (`src/auth/oidc*.rs`, `passkey*.rs`) | `auth_challenges`, `passkeys`, the state cookie | ceremonies, `oidc_login`, `run_callback` | answers that race or are repeated, redirects in another browser | a challenge is consumed at most once; a session belongs to its own flow |
| Projects, DSN keys, mute rules (`src/api/projects.rs`, `mute_rules.rs`) | `projects`, `tag_mute_rules`, `favorites` | create, update, move, mute, regenerate, delete | roles and teams read before the write; partial updates | an old read undoes nothing; list and access agree |
| Configuration sync (`src/config_sync.rs`, `src/adapters/config_sync.rs`) | all of the above | one transaction at startup | orphaning, restoring, pruning, frozen memberships | idempotent; never deletes what is not managed |
| PostgreSQL adapters (`src/adapters/postgres/`) | the same tables | the same calls | READ COMMITTED transactions that overlap; locks in different orders; bounded retries | each call as if alone; every call answered |
| Normalization, fingerprints, envelopes (`src/grouping/`, `src/ingest/`) | none | pure functions | - | stable grouping |

How they interact. `process_event` calls the pipeline, which makes up to four
transactions (upsert, insert, window count, status) and returns a snapshot; the
handler then spawns a notification task with that snapshot. The task takes one
of eight slots and, for Alertmanager, the mutex that the scheduler's refresh
also takes, row by row. Users and the scheduler write the same tables. Nothing
but the database and the mutex orders any of this.

`PROJECT.json` lists every component with its status and the hazards, each at
its line.

## Modules

### IssueTracker: ingestion, triage and retention

State: `issues` and `events` are the tables; `req` is what each submission holds
between its transactions (time read at parsing, issue snapshot, notification to
send); `notices` counts new-issue notifications, `unused` the fresh ids, `now`
the clock.

One transaction or statement is one action. The adapters make that true: writes
run as `BEGIN IMMEDIATE` under SQLite's single writer, and `retry_write` re-runs
a whole attempt or gives up (`Busy`, the 429 path).

| Action | Code |
|---|---|
| `Receive` | `envelope` / `store` up to reading the clock; a re-submission after a 429 |
| `UpsertExisting`, `UpsertNew` | `upsert_once` |
| `InsertEvent` | `EventRepository::insert`, with the foreign key |
| `CheckRate`, `Resurface` | `resurface_if_rate_exceeded`: the decision, then the write |
| `Dispatch` | mute checks, `spawn_notification`, the 200 |
| `Busy`, `Fail`, `Crash` | `failed_response` (429, 500) and loss of the process |
| `Resolve`, `Unresolve`, `Mute`, `Rename`, `Merge` | the handlers of `src/api/issues.rs` |
| `ClearExpiredMutes`, `PruneBatch`, `DeleteOlderThan` | the scheduler's sweeps, one batch each |

Abstracted: one project (every query but the expiry sweep is scoped by project
or issue id); title, culprit, level, environment and release; the event payload.
An event that is re-sent after it was stored is simply another submission,
because nothing deduplicates by `event_id`.

Definitions introduced by "Fault:" are not part of the system. Each is a
plausible bug of one definition, used to confirm that a property notices it.

### AlertLifecycle: Alertmanager delivery

State: `table` is `notification_alerts`; `worker` the mutex with its holder's
program counter and local variables; `sweep` the refresh loop with the settings
it read and its page; `am` what Alertmanager believes (external: an alert is
replaced by the last post with its labels and fires until `endsAt`); `wire` the
requests the client gave up on. `open` says whether an issue is live; `config`,
`labels` and `interval` are what administrators change.

`Notify` and `SweepVisit` take the mutex and read; `CloseOld`, `SaveAlert`,
`SendFiring`, `MarkSent`, `RemoveAlert` are the calls of `notify` and
`reconcile` in their order; `CallFails`, `WriteFails`, `ReadFails`, `Crash` are
their error paths. Time is relative (ticks to a deadline, ticks since the last
delivery), so leases run out and are renewed for ever in a finite state space.

### AlertTiming: leases under a punctual sweep

Composes `AlertLifecycle` with one history variable that allows a tick only
after a refresh that began since the last tick has ended.

### Accounts and Membership: users, sessions, teams, invites

`Accounts` declares the tables (`users`, `sessions`, `teams`, `members`,
`defaults`, `invites`, `signup`) and the requests in flight (`req`: the caller
as authenticated with the role of that moment, what the request is about, what
it is going to write). `spent` holds the ids generated so far and `joined`, a
history variable, whom each invite admitted. `Membership` adds the team and
invite endpoints and composes both in `Next`.

An endpoint authenticates, reads, checks, and then writes in one transaction;
between any two of these other requests run, and the request may be cancelled
(`Cancel`: a client that disconnects, a failing statement, a stopped process).

| Action | Code |
|---|---|
| `Setup`, `Register`, then `CreateAccount` or `CreateRefused` | `setup`, `register`, `create_user` up to the write; `create_account` with its count of owners, the unique address and the default teams |
| `Login`, `OidcCallback`, `ConvertToSso`, `StartSession`, `EndSession` | `login`, `run_callback`, `sso_account`, `convert_to_sso`, `start_session` (with the foreign key), `end_session` and expiry |
| `ChangePassword`, `SetPassword`, `RevokeSessions` | `PATCH /profile`: verify, write, drop the sessions |
| `AdminCall`, `ReadTarget`, `CountOwners`, then `Approve`, `SetInstanceRole` or `DeleteUser` | `approve_user`, `set_user_role`, `delete_user`: extractor, target, owner count, repository transaction |
| `ManagerCall`, `CreateTeam`, `DeleteTeamCall`, `DeleteTeam`, `SetDefaultTeams`, `SetAllowSignup` | `POST` and `DELETE /teams`, `PATCH /settings` |
| `TeamCall`, `RequireTeamManager`, `ReadMembers`, `WriteMember` | `add_member`, `set_member_role`, `remove_member` and their transactions with `require_another_admin` |
| `InviteCall`, `CreateInvite`, `RevokeInvite`, `InviteExpires` | the invite endpoints |
| `AcceptSignedIn`, `AcceptAnonymous`, `AcceptInvite` | `accept_invite`, `resolve_or_register_invitee`, `InviteRepository::accept` |

Abstracted: an id's address is fixed beforehand (`EmailOf`; no endpoint changes
an address, and a new id with an old address is a second id with that address);
a password hash is the password it verifies; sessions of one account opened with
the same password are one element; names, locales and mail. A first read that
the transaction repeats is merged with the step before it. Teams are managed in
the UI (`team_source`) and e-mail login is on. The transactions are those of
the SQLite adapters. Not here: grants of the configuration file, which may
activate a pending account at sign-in (`ConfigSync` has the grants).

### Projects and Ingest: project endpoints, envelopes, delivery

`Projects` declares the tables (`projects`, `teams` with their members,
`favorites`, `rules`) and the requests in flight. A handler resolves the
project (`Resolve`), reads team and role (`ReadTeam`, `ReadRole`), decides
(`Permits`) and writes (`Create`, `Update`, `Regenerate`, `Delete`,
`SetFavorite`, `WriteRule`); members, roles and teams change between any two of
these (`SetMember`, `DeleteTeam`). `DELETE /teams/{id}` is one transaction: with
`move_projects_to` it hands all projects of the team to another one, without it a
team that owns projects stays. `ForeignKey` is what the database adds.

So the team of a project changes in two ways, and `OnlyMoveReassigns` names both:
the write of a manager's `change_team`, for the project and the team of that
request, or the step that deletes the old team and moves everything it owns. Both
need projects to be managed in the UI. What it rules out is an update, a mute or a
rotation that writes back the team it had read.

`Ingest` composes it with SDKs (`sent`) and the delivery tasks (`task`).
`Send`, `Lookup`, `Skip`, `Upsert`, `ItemFails`, `Insert`, `CheckRules`, `Finish`
are `envelope` item by item, with `FailedResponse` and the SDK's `Resend`;
`Acquire`, `TryAlertmanager`, `SendWebhook`, `ReadMembers`, `SendMail`, `EndTask`
are `dispatch`: `Suppressed` is its mute check, and `WebhookOn` the condition for
the webhook, the setting of the process (`WEBHOOKS_ENABLED`, off by default) and
the URL of the snapshot. A restart forgets requests and tasks. What happens inside the
issue table is `IssueTracker`'s: here an issue is a project and a fingerprint.

### IssueStore, PgIssues and PgAccounts: PostgreSQL

`IssueStore` is what the port promises: each call takes effect at one moment.
`PgIssues` is what `src/adapters/postgres/issue.rs` does: statements under READ
COMMITTED, `FOR UPDATE` that re-evaluates its condition after a wait, unique
index entries of open transactions, the loops over `RACE_ATTEMPTS` and
`retry_write`. `ActsAtomically` is the refinement: `PgIssues` implements
`IssueStore` with the committed rows as its issues, so that a step of a
transaction is a stutter and its commit the effect of the whole call.

`PgAccounts` gives accounts, members, invites, team deletion and the ownership
of projects as programs of statements, each with the locks it needs (`Needs`:
`LOCK TABLE`, row locks, the key-share lock of a foreign key on the row it
refers to), the reason to end the call (`Refusal`) and the effect at commit
(`Written`). A deadlock is a cycle of `WaitsFor`; the victim starts again.
Abstracted: a cascade takes its row locks together. Left out: the expiry of an
invite, its recipient and the status of the account, which the calling handlers
and the transaction of `accept` check; each only ends that call earlier, with
nothing written.

### LoginGuard, Passkeys and SsoFlow: the sign-in surface

`LoginGuard` is the lockout map with its threshold, the overflow entry,
escalation and pruning, and the fixed-window limiter that ingestion and the
anonymous passkey options share. `Passkeys` adds password logins as two steps
(check, then verify and record) and the two ceremonies: options store a
challenge, verification takes it (`Take`, one `DELETE ... RETURNING`), looks the
credential up, and opens a session or inserts the passkey. `SsoFlow` adds the
redirect flow, where the server keeps nothing but a signed cookie: a flow stands
for state, nonce and PKCE verifier, and `Bound` is the difference between an
OIDC provider, which ties the code to the flow, and GitHub, which does not.

### ConfigSync: the configuration file

`proc` is the process: down, on its way through `synchronize`, or serving; `db`
what it manages. A start takes any file and settings (`Start`), reads and
validates (`Read`), writes the settings of the environment one by one
(`WriteService`), applies teams, projects and members in one transaction
(`Apply`: `TeamsSynced`, `ProjectsSynced`, `TeamsPruned`), then the default teams
(`WriteDefaults`); it may die before each. While it serves, users sign in, are
created and deleted, and the UI edits teams, their members and projects where it
manages them. Left out are renames of teams, which no decision reads; UI edits of
the service settings, which are refused while the environment or the file manages
them, the only time the properties speak of their values, and of default teams
(`Membership` has both); and the deletion of a team that moves its projects, which
here is moves followed by the deletion.

### MC modules

`MCIssueTracker` and `MCAlertLifecycle` add the symmetry of ids, fingerprints,
requests, destinations and label sets, `MCMembership` the addresses of its ids
and the symmetry of requests. Symmetry is not used with liveness. `MCIngest`,
`MCSignIn`, `MCConfigSync` and `MCMembership` give `Workloads`: each behaviour
picks one, a set of endpoints that are called in it, because all of them at once
are out of reach; `MCPgStores` gives `Batches`, the calls that overlap.

## Runs

| Run | Shows |
|---|---|
| `grouping` | two racing submissions with all failures, triage, merge and retention: `UniqueFingerprint`, `CountCoversStored`, `AnnouncedOnce`, `OnlyRetentionDeletes` |
| `sweeps` | all mute shapes against expiry and resurfacing: `MuteBookkeeping`; with both retention policies, under fairness `ExpiredMuteEnds`, `OverLimitIsPruned` |
| `leases` | two alerts on two pages, interval changes, a punctual sweep: `LeaseHolds` |
| `alert_progress` | with a fault anywhere in the delivery protocol and late requests: `NoUntrackedFiring`, `ClosedIsForgotten`, `TrackedAlertFires` |
| `accounts` | setups, registrations, role and password changes, deletions and two acceptances of an invite race: `OwnerRemains`, `InviteUsedOnce` |
| `sso` | SSO with approval and an address in `ADMIN_USERS`, for an instance with or without earlier local accounts; conversion, password login and change, approval, role and member changes, account and team deletion: `PendingHoldsNoSession`, `DeletedStaysDeleted`, `TeamKeepsAdmin`, `ListedAccountsProtected` |
| `projects` | two overlapping requests to the project endpoints, or one beside an SDK and its notifications: `ProjectsConsistent`, `OnlyMoveReassigns`, `AcknowledgedIsStored`, `EveryChannelTried`, and under fairness `NotificationsEnd` |
| `pg_stores` | every three overlapping calls of the PostgreSQL repositories: `ActsAtomically` (the refinement), `GrantedOnce`, `ReferencesHold`, `RolesGuarded`, and under fairness `EveryCallAnswered` |
| `sign_in_flows` | guard, limiter, passkeys and redirects: `TypeOK` (with the bound of the guard's map), `BurstBounded`, `LateGuessesBounded`, `LockHolds`, `ChallengeSpentOnce`, `QuotaNearlyKept`, `SessionOfOwnFlow` |
| `config_sync` | any sequence of starts, some refused or dying: `PlanSound`, `Enforced`, `MembersMatchGrants`, `SyncIdempotent`, `OrphansFrozen`, `ProjectsKeepIdentity` |
| `announce`, `password_change` | two statements of comments and documents that the code does not keep; see below |

The type invariants of `IssueTracker`, `AlertLifecycle` and `Membership`, and
`EventsReferToIssues`, `NoDangling` and `OneInitialOwner`, are proved for all
instances (below) and not run.

### Where the code and its documents disagree

* `announce`: "A new issue or regression sends a firing alert, unless the
  project or issue is muted" (`docs/NOTIFICATIONS.md:73`). When the upsert
  commits and the insert then runs out of retries, the SDK is told to re-send;
  the second time the issue exists and nobody is notified.
* `password_change`: "On password change, invalidate all sessions (forces
  re-login everywhere)" (`src/api/profile.rs:108`). A login that verified the old
  hash opens its session after the sessions were deleted.

Seven smaller disagreements showed while modelling. They are steps of the models,
and no property of a run forbids them:

* An indefinite mute "only ends when the user unmutes"
  (`src/domain/issue.rs:92`): a request that saw an event-rate mute calls
  `set_status` by id; if the user has muted the issue forever in between, that
  mute is cleared.
* "last_seen always advances" (`src/adapters/sqlite/issue.rs:67`): `seen_at` is
  read before the write lock and assigned unconditionally, so a slow request
  moves `last_seen` back.
* "Delivery failures are logged and retried on the next refresh"
  (`docs/NOTIFICATIONS.md:82`): a closing request in `notify` that took effect
  but reported an error leaves a row whose `last_sent_at` is recent, and the
  refresh skips it until the interval has passed.
* "Granting **or** revoking the `Owner` role is an Owner-only operation"
  (`src/api/settings.rs:427`, and line 373 for deletion): the role of the target
  is read before the transaction, which re-checks only the last owner, so a
  manager's request that read a member who is promoted meanwhile demotes or
  deletes an owner.
* `Oidc` accounts "carry an empty-string `password_hash` sentinel"
  (`src/domain/user.rs:25`): a password change authenticated before
  `convert_to_sso` writes its hash after it.
* The lockout level is "Reset only on a successful login"
  (`src/auth/lockout.rs:55`): pruning at the threshold drops an idle entry with
  its level, so that the next lock of that key is as short as a first one.
* `touch` does not notice that its row is gone: a passkey that is removed while
  an assertion with it is being verified still opens that one session.

### Bounds and why they are enough

* Two submissions, two ids and two fingerprints: every race in the code is
  between two writers, and a merge needs two issues. `MaxTries = 2` in
  `grouping`: an event deferred once and then accepted.
* `MaxTime` 2 or 3: one tick separates a mute from its expiry, an upsert from a
  later one, an event from the age limit.
* One issue for delivery: rows only interact through the mutex and the sweep's
  pages, which `leases` covers with two issues and a page of one.
* Leases of three ticks: renewal, expiry and a section interrupted by a
  tick all occur. `alert_progress` changes the labels and switches delivery off
  and on; the destination is the other part of the same identity. Its one
  interval can only be saved again: intervals that really change are for `leases`.
  `leases` uses intervals 1 and 3 with `MinLease = 3`, so that the shorter lease ends when the longer interval does.
* Two requests in flight for accounts and teams: the checks and writes that race
  are pairs. Two accounts, enough for two owners who demote each other, one team
  and one invite token. `sso` begins with no account, with a local owner from
  before `ADMIN_USERS` was set, or with two local members from before SSO. Each workload calls only some endpoints; together they
  are all of them. Cancellation is off where teams change under SSO, to keep the
  run short, and in `password_change`, where it would give the same result by
  stopping between the two writes.
* `projects`: two requests, because a lost update or a stale check needs two;
  two projects, so that slugs and keys may collide; one slot, so that tasks
  wait; an envelope with two events and an attachment, so that one of two fails.
  Two teams, so that one is deleted with its projects moved to the other while a
  move, a mute, a creation or an envelope is under way; webhooks enabled or not,
  for a project that has one and, after an update, for one that has none.
* `pg_stores`: three calls, because a deadlock of two and a bystander is the
  smallest case in which the loser of a race loses again. `RACE_ATTEMPTS` is two
  instead of three; that a call loses all its attempts takes more calls than
  that, so the error after the last attempt is not reached. `MaxRetries = 1`: a
  victim starts again, and a second deadlock makes it give up.
* `sign_in_flows`: a map of one entry and the overflow entry with three clients;
  a limit of two in windows of three ticks over four, so that two windows meet;
  two requests in flight, three handles and credentials, two browsers, flows and
  codes.
* `config_sync`: two teams, two projects, two accounts, one group; the files of
  `MCConfigSync` leave out, move and restore each of them, omit a section, or are
  broken. Starts are unbounded; the keys drawn for a project are `MaxKeys = 2`.
* `MaxFaults` is 1 under fairness, 0 where the property is about
  undisturbed operation.

Deadlock checking is off except in `config_sync`, whose process can always start
or stop: with bounded clocks and submissions the models come to
rest, and a tracker nobody writes to is at rest too.

### Fairness

`IssueTracker!FairSpec`: weak fairness of `ClearExpiredMutes` and `PruneBatch`.
`run_loop` runs every sweep for ever and logs the failure of one; nothing else
disables either step for good. SDKs and users owe nothing.

`AlertLifecycle!Fairness`: weak fairness of the holder's steps (each call ends,
by its five-second timeout at the latest), of the sweep's start and page reads
(`spawn` loops on an interval timer), and of time. Strong fairness of taking the
mutex, because tokio's mutex is FIFO. Faults are never fair and are bounded.

`Ingest!Spec`: weak fairness of each task's steps: tokio runs every spawned task,
its calls end by their timeouts, and the semaphore of slots is FIFO. SDKs, users
and restarts owe nothing.

`PgAccounts!Spec`: weak fairness of "some transaction takes a step", for issues
and for accounts: PostgreSQL runs a statement that waits for no lock, and breaks
a deadlock. No transaction in particular is favoured; that each call is answered
follows because the others run out of steps.

## Proofs

`IssueTrackerProofs` proves, for all values of the constants allowed by the
assumptions of `IssueTracker`:

| Theorem | Property | Inductive invariant |
|---|---|---|
| `TypeCorrect` | `TypeOK` | itself |
| `UniqueFingerprints` | `UniqueFingerprint` | with `TypeOK` and that unused ids name no issue |
| `EventsKeepTheirIssue` | `EventsReferToIssues` | with the above; the merge's case rests on re-pointing before deletion |
| `AnnouncedAtMostOnce` | `AnnouncedOnce` | `AnnouncingInv`: for each issue the notices sent plus the requests that still carry "new issue" are at most one |
| `MuteColumnsConsistent` | `MuteBookkeeping` | itself, by the shape of each row update |
| `CounterCoversEvents` | `CountCoversStored` | `CountInv`, with the finiteness of `events` |
| `RetentionAloneDeletes` | `OnlyRetentionDeletes` | the same: `OutsideMostRecent` counts what is as recent as a pruned event, `MergeKeepsRows` follows each row through a merge |

The assumptions are those of the constants (positive mute lengths, finite sets
of ids and requests); TLC evaluates them on every run.

`AlertLifecycleProofs` proves, for any number of issues, destinations, label
sets, intervals and faults:

| Theorem | Property | Inductive invariant |
|---|---|---|
| `AlertTypeCorrect` | `TypeOK` | itself; it says of the mutex holder that it works on an issue, with a valid row to write and, while closing, a valid row to close |
| `NothingFiresUntracked` | `NoUntrackedFiring` | `AlertInv`: adds `HolderKnows`, what the code at each of its calls relies on, and that no request is on its way |
| `LeasesAlwaysHold` | `LeaseHolds`, of `TimedSpec` | `LeaseInv`: how long each row's lease still runs, by how far the sweep has come since the last tick |

`NoUntrackedFiring` alone is not inductive: that `RemoveAlert` may drop a row
depends on the closing before it, and that `SendFiring` may start an alert on the
row saved before it. `HolderKnows` states this for each program counter; it is
stable because only the holder of the mutex writes the table.

`LeaseHolds` concerns two clocks, the row's lease and the pace of the sweep. A row
that is marked as delivered has two ticks left once the sweep has passed it since
the last tick, one tick before that (`RowHolds`): until then its renewal is still
`Owed`, because the sweep has not begun or the row is on its page or beyond it
(`Pending`). The lease that the holder of the mutex is about to write outlives its
critical section (`NewLease`), since a section spans one tick at most. The theorem
is about `TimedSpec`, in which a sweep ends between any two ticks: without that a
lease does run out.

`MembershipProofs` proves, for any number of accounts, teams, invites and
overlapping requests, with or without SSO, approval and cancellation, from any
table of accounts the instance had before (`WorkloadsAssumption`):

| Theorem | Property |
|---|---|
| `MembershipTypeCorrect` | `TypeOK` |
| `LastOwnerStays` | `OwnerRemains` |
| `SetupMakesOneOwner` | `OneInitialOwner` |
| `TeamsKeepAdmins` | `TeamKeepsAdmin` |
| `InvitesAdmitOnce` | `InviteUsedOnce` |
| `NothingDangles` | `NoDangling` |
| `NoSessionBeforeApproval` | `PendingHoldsNoSession` |
| `NoResurrection` | `DeletedStaysDeleted` |
| `EnvironmentOwnersSafe` | `ListedAccountsProtected` |

All rest on one inductive invariant, `Inv`. Besides the types and the three
state properties it has two parts. `InFlight` says what a request may still rely
on when it writes: only setup creates an owner; the account a session is about
to be opened for is past approval; what was checked about `ADMIN_USERS` still
holds, since no request changes it. `Fresh` says that ids not yet generated name
nothing, so that a new account finds no membership and a new token no user.
What `InFlight` can not say - that the target is still no owner, that the
password is still the one verified - is what the disagreements above are about.
The
proof shows that each step leaves its own request with something it may hold
(`StepMoves`), that others' promises survive as long as nobody goes back to
pending (`OthersHold`), and that each transaction keeps the tables' part. The
action properties then follow from the three transactions that change who
exists in which role, and the five that write memberships.

`IngestProofs` proves, for any users, projects, teams, keys, rules and
overlapping requests, any envelopes, numbers of retries, slots and faults:

| Theorem | Property | Inductive invariant |
|---|---|---|
| `ProjectsAlwaysConsistent` | `ProjectsConsistent` | `TypeOK` with what a request that is past its checks knows, and that every key of a project has been drawn |
| `OnlyMoveEverReassigns` | `OnlyMoveReassigns` | the same: an update applies a patch, and only the move's patch names a team; a deleted team's rows change in nothing but their team |
| `AcknowledgedAlwaysStored` | `AcknowledgedIsStored` | every ingestible item before `at` is stored |
| `EveryChannelAlwaysTried` | `EveryChannelTried` | what each task has tried, by its program counter and the setting; only a task that is past the webhook ends by itself (`EndsPastWebhook`) |

`SignInProofs` proves, for any keys, handles, credentials, users, requests,
flows and codes, any limit, threshold and quota:

| Theorem | Property | Inductive invariant |
|---|---|---|
| `TypeCorrect` | `TypeOK` | with the bound of the guard's map: it grows only below its threshold, or by the overflow entry |
| `LocksAlwaysHold` | `LockHolds` | with it: pruning drops idle entries only, and a lock never shortens |
| `LateGuessesAlwaysBounded` | `LateGuessesBounded` | late guesses and requests past the check of the key are together fewer than the requests |
| `ChallengeAlwaysSpentOnce` | `ChallengeSpentOnce` | a handle is stored, held by one request, or spent |
| `QuotaAlwaysNearlyKept` | `QuotaNearlyKept` | what is owned, with the registrations past the quota check |
| `BurstsAlwaysBounded` | `BurstBounded` | `LimiterInv`: the last `count` grants of a key are of its window, the others from before it began, and those before the previous `Limit` a whole window older |
| `SessionAlwaysOfOwnFlow` | `SessionOfOwnFlow` | a visit past the comparison of states is of its browser's flow; a code is redeemed by one visit |

`PgStoresProofs` proves of the PostgreSQL issue repository, for any number of
overlapping transactions, issues, fingerprints, attempts and retries:

| Theorem | Property |
|---|---|
| `IssuesActAtomically` | `ActsAtomically`: every step of `PgIssues` is a step of `IssueStore` or a stutter |
| `OneIssueEach` | types, and one issue for each fingerprint |

Both rest on `PgInv`: the committed rows are typed with unique fingerprints
(`RowsInv`); what a transaction read before its lock is true of the row it has
locked when it commits (`TxInv`); and row locks and uncommitted index entries
exclude each other (`ExclusiveInv`). The last is why the second is stable:
nobody changes a row that another has locked, and nobody takes a fingerprint
that another is about to insert. A merge's target is re-read under its lock, so
that a stale read only leads to another attempt.

`PgAccountsProofs` proves of the PostgreSQL account, team and project
repositories, for any number of clients, accounts, teams, projects and invites,
any calls and any tables they find:

| Theorem | Property |
|---|---|
| `RolesAlwaysGuarded` | `RolesGuarded` |
| `GrantedAtMostOnce` | `GrantedOnce` |
| `ReferencesAlwaysHold` | `ReferencesHold` |

The inductive invariant is `AccountsInv`: the committed tables are sound, each
call `Knows`, after each of its statements, what it relies on for those that are
left, the locks are `Exclusive`, and no result was granted twice (`Granted`).
What a call has read can go stale between its statements, because each statement
of READ COMMITTED has a snapshot of its own; it stays true where the call holds a
lock that every writer of those rows takes, and `Excluded` says which locks do.
The proof goes by statement: a statement leaves its own call with what the next
one needs (one `...Executes` lemma for each operation), a commit of one call
leaves the others what they know (`KeepsKnowing`) and the tables sound (one
`...Commits` lemma for each operation), and a deadlock's victim loses its
writes with its locks (`VictimStep`).

`ConfigSyncProofs` proves, for any names, slugs, accounts, groups, files,
settings and sequences of starts:

| Theorem | Property |
|---|---|
| `PlanAlwaysSound` | `PlanSound` |
| `AlwaysEnforced` | `Enforced` |
| `MembersAlwaysMatchGrants` | `MembersMatchGrants` |
| `OrphansAlwaysFrozen` | `OrphansFrozen` |
| `ProjectsAlwaysKeepIdentity` | `ProjectsKeepIdentity` |
| `SyncAlwaysIdempotent` | `SyncIdempotent` |

The inductive invariant is `SyncInv`: the tables refer only to what exists
(`DbInv`); the process goes by the file and settings it has read, and has written
the environment's values up to where it stands (`ProcInv`); after the transaction
the tables are as the file says (`AppliedInv`) and the members as the grants say
(`MatchInv`), which the operations of a serving process preserve, because each of
them is refused on what the file manages. The transaction is followed part by
part, teams, projects, pruning, with a lemma for what each leaves; `JustApplied`
is the state they leave together, and `AppliedAgain` shows that in it the
transaction is the identity.

Assumptions of these modules, each evaluated by TLC on the runs: constants are
not empty where the code picks a member of them (`ProjectsAssumption`,
`IngestAssumption`), bounds are natural numbers (`GuardAssumption`,
`PasskeysAssumption`, `SsoAssumption`, `PgAssumption`), null values are not
members of the sets they extend, and the inputs have the shape the types of the
code give them (`CallsAssumption`; `ConfigSync!WorkloadsAssumption`, which also
says that service settings from the environment leave the notifications to the
UI, as `management_from_env` does; `PgAccounts!BatchesAssumption`, which says of
the calls and the tables before them that they are typed, that nothing in these
tables dangles, as their foreign keys see to, and that a team is not moved to
itself when it is deleted, which `src/adapters/postgres/team.rs:164` rejects).

Only model-checked: the liveness properties (`ExpiredMuteEnds`,
`OverLimitIsPruned`, `ClosedIsForgotten`, `TrackedAlertFires`, `NotificationsEnd`,
`EveryCallAnswered`), which need fairness and `ENABLED`, out of the prover's reach.
All invariants and action properties of the passing runs are proved. The two
disagreements with `expect: violation` are counterexamples, found by TLC.

## Plan

All modules of the first plan exist and their safety is proved. What is left is
to extend the model.

Hazards that no property covers: `seen_at` is read before the write lock;
notifications die with the process; two toggles of a mute or a favorite without
a body may act as one; two assertions with one passkey may store the older
signature counter last; two processes with different configuration files during
a rolling update (`docs/DATABASE.md:211` asks for a single replica).

Smaller extensions of the model: the cron loop of the scheduler with failing
projects; a `Scheduler` that shares the project table with `Projects`.

## Not modelled

Parsing, normalization, fingerprints, enrichment and rendering (pure string
processing), cryptography and discovery of identity providers, HTTP routing and
static files, the web client, and read-only queries: they keep
no state that another actor can disturb.
