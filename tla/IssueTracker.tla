---------------------------- MODULE IssueTracker ----------------------------
(***************************************************************************)
(* Issues and events of one project: concurrent ingestion of SDK events,   *)
(* triage by users, the mute-expiry sweep and event retention, all over    *)
(* the two tables `issues` and `events`.                                   *)
(*                                                                         *)
(* Sources: src/ingest/handlers.rs (envelope/store, process_event),        *)
(* src/grouping/pipeline.rs (ingest_normalized), src/api/issues.rs,        *)
(* src/scheduler.rs, src/adapters/sqlite/{issue,event}.rs,                 *)
(* src/adapters/retry.rs.                                                  *)
(*                                                                         *)
(* What is atomic.  One database transaction or statement is one action:   *)
(* the adapters run each of them under SQLite's single write lock, and a   *)
(* lock conflict re-runs it as a whole (retry_write), so an attempt either *)
(* happened entirely or not at all.  The steps of one ingest request are   *)
(* SEPARATE transactions, and everybody else's run between them.           *)
(*                                                                         *)
(* Abstractions.  One project: every query of these tables but the expiry  *)
(* sweep is scoped by project_id or by an issue id.  Title, culprit,       *)
(* level, environment and release never steer control.  An SQL NULL, and   *)
(* a Rust None, is Null = 0; the clock starts at 1 and thresholds, windows *)
(* and durations are positive (MuteRequest::to_spec rejects the others).   *)
(***************************************************************************)
EXTENDS Integers, FiniteSets

CONSTANTS
    IssueIds,      \* UUIDs an issue row may get
    Fingerprints,  \* grouping hashes
    Requests,      \* events SDKs submit; one is re-submitted after a 429
    Silenced,      \* requests the project mute or a tag-mute rule silences
    Durations,     \* time-based mute lengths a user may pick
    Thresholds,    \* event-rate mute thresholds
    Windows,       \* event-rate mute windows
    Keep,          \* effective retention_events
    MaxAge,        \* effective retention_days; 0 disables the age policy
    Batch,         \* WritePolicy::delete_batch
    MaxTime,       \* bound on the clock
    MaxTries       \* bound on the submissions of one event

ASSUME BoundsAssumption ==
    /\ Keep \in Nat /\ MaxAge \in Nat /\ Batch \in Nat \ {0}
    /\ MaxTime \in Nat \ {0} /\ MaxTries \in Nat \ {0}

ASSUME MuteAssumption ==
    /\ Durations \subseteq Nat \ {0}
    /\ Thresholds \subseteq Nat \ {0}
    /\ Windows \subseteq Nat \ {0}

ASSUME NamesAssumption ==
    /\ Silenced \subseteq Requests
    /\ IsFiniteSet(IssueIds) /\ IsFiniteSet(Requests)

VARIABLES
    now,      \* the wall clock
    issues,   \* table issues: id -> row; a row that is not there is NoIssue
    unused,   \* ids Uuid::new_v4 has not produced yet
    events,   \* table events
    nextRow,  \* the next event row id
    req,      \* the state of each submission
    notices   \* new-issue notifications dispatched, per issue id

vars == <<now, issues, unused, events, nextRow, req, notices>>

-----------------------------------------------------------------------------
(* Rows and their nulls.                                                   *)

Null == 0

Statuses == {"unresolved", "resolved", "muted"}

NotifyKinds == {"None", "NewIssue", "Regression"}

Issue ==
    [status: Statuses \cup {"absent"}, fingerprint: Fingerprints \cup {Null},
     muted_at: Nat, muted_until: Nat, mute_threshold: Nat, mute_window: Nat,
     first_seen: Nat, last_seen: Nat, event_count: Nat]

NoIssue ==
    [status |-> "absent", fingerprint |-> Null,
     muted_at |-> Null, muted_until |-> Null,
     mute_threshold |-> Null, mute_window |-> Null,
     first_seen |-> Null, last_seen |-> Null, event_count |-> 0]

Event == [row: Nat, issue: IssueIds, received_at: Nat]

(* The three shapes a MuteSpec may take at time t.                         *)
MuteSpecs(t) ==
    {[until |-> Null, threshold |-> Null, window |-> Null]}
    \cup {[until |-> t + d, threshold |-> Null, window |-> Null] : d \in Durations}
    \cup {[until |-> Null, threshold |-> n, window |-> w] :
              n \in Thresholds, w \in Windows}

(* What a request holds between its transactions: the fingerprint, the     *)
(* time taken when the body was parsed, and the part of the returned issue *)
(* snapshot that later steps read.                                         *)
Request ==
    [pc: {"idle", "received", "upserted", "inserted", "unmuting", "decided",
          "done", "deferred", "failed"},
     fingerprint: Fingerprints \cup {Null}, seen_at: Nat,
     issue: IssueIds \cup {Null}, status: Statuses \cup {"absent"},
     muted_at: Nat, mute_threshold: Nat, mute_window: Nat,
     notify: NotifyKinds, tries: Nat]

NoRequest ==
    [pc |-> "idle", fingerprint |-> Null, seen_at |-> Null,
     issue |-> Null, status |-> "absent",
     muted_at |-> Null, mute_threshold |-> Null, mute_window |-> Null,
     notify |-> "None", tries |-> 0]

Exists(i) == issues[i].status # "absent"

Max2(a, b) == IF a >= b THEN a ELSE b

Min2(a, b) == IF a =< b THEN a ELSE b

EventsOf(i) == {e \in events : e.issue = i}

Init ==
    /\ now = 1
    /\ issues = [i \in IssueIds |-> NoIssue]
    /\ unused = IssueIds
    /\ events = {}
    /\ nextRow = 1
    /\ req = [r \in Requests |-> NoRequest]
    /\ notices = [i \in IssueIds |-> 0]

-----------------------------------------------------------------------------
(* Row updates: what each SQL statement leaves in the row.                 *)

WithoutMute(row) ==
    [row EXCEPT !.muted_at = Null, !.muted_until = Null,
                !.mute_threshold = Null, !.mute_window = Null]

(* Fault: leaving the muted state keeps the mute columns.                  *)
WithStatusOnly(row, s) == [row EXCEPT !.status = s]

WithStatus(row, s) == [WithoutMute(row) EXCEPT !.status = s]

Bumped(row, seen) ==
    [row EXCEPT !.status = IF row.status = "resolved" THEN "unresolved" ELSE row.status,
                !.last_seen = seen,
                !.event_count = row.event_count + 1]

Created(fp, seen) ==
    [NoIssue EXCEPT !.status = "unresolved", !.fingerprint = fp,
                    !.first_seen = seen, !.last_seen = seen, !.event_count = 1]

Muted(row, spec, t) ==
    [row EXCEPT !.status = "muted", !.muted_at = t, !.muted_until = spec.until,
                !.mute_threshold = spec.threshold, !.mute_window = spec.window]

(* Fault: a merge keeps the target's own counter.                          *)
MergedOwnCount(target, source, fp) ==
    [target EXCEPT !.fingerprint = fp,
                   !.first_seen = Min2(target.first_seen, source.first_seen),
                   !.last_seen = Max2(target.last_seen, source.last_seen)]

Merged(target, source, fp) ==
    [target EXCEPT !.fingerprint = fp,
                   !.event_count = target.event_count + source.event_count,
                   !.first_seen = Min2(target.first_seen, source.first_seen),
                   !.last_seen = Max2(target.last_seen, source.last_seen)]

Holder(fp) == {i \in IssueIds : Exists(i) /\ issues[i].fingerprint = fp}

-----------------------------------------------------------------------------
(* One ingest request.                                                     *)

(* The handler has parsed the body and read the clock.  A 429 makes the    *)
(* SDK submit the same event again.                                        *)
Receive(r, fp) ==
    /\ req[r].pc \in {"idle", "deferred"}
    /\ req[r].pc = "deferred" => fp = req[r].fingerprint
    /\ req[r].tries < MaxTries
    /\ req' = [req EXCEPT ![r] = [NoRequest EXCEPT !.pc = "received",
                                                   !.fingerprint = fp,
                                                   !.seen_at = now,
                                                   !.tries = req[r].tries + 1]]
    /\ UNCHANGED <<now, issues, unused, events, nextRow, notices>>

(* upsert_once: the existing row is bumped, and reopened if resolved; an   *)
(* unseen fingerprint gets a new row.  The outcome travels with the        *)
(* request.                                                                *)
Upserted(r, i, row, kind) ==
    /\ issues' = [issues EXCEPT ![i] = row]
    /\ req' = [req EXCEPT ![r].pc = "upserted", ![r].issue = i,
                          ![r].status = row.status,
                          ![r].muted_at = row.muted_at,
                          ![r].mute_threshold = row.mute_threshold,
                          ![r].mute_window = row.mute_window,
                          ![r].notify = kind]

(* Fault: every event that reopens nothing reports a new issue.            *)
UpsertExistingAsNew(r) ==
    /\ req[r].pc = "received"
    /\ \E i \in Holder(req[r].fingerprint) :
           Upserted(r, i, Bumped(issues[i], req[r].seen_at),
                    IF issues[i].status = "resolved" THEN "Regression" ELSE "NewIssue")
    /\ UNCHANGED <<now, unused, events, nextRow, notices>>

UpsertExisting(r) ==
    /\ req[r].pc = "received"
    /\ \E i \in Holder(req[r].fingerprint) :
           Upserted(r, i, Bumped(issues[i], req[r].seen_at),
                    IF issues[i].status = "resolved" THEN "Regression" ELSE "None")
    /\ UNCHANGED <<now, unused, events, nextRow, notices>>

UpsertNew(r) ==
    /\ req[r].pc = "received"
    /\ Holder(req[r].fingerprint) = {}
    /\ \E i \in unused :
           /\ Upserted(r, i, Created(req[r].fingerprint, req[r].seen_at), "NewIssue")
           /\ unused' = unused \ {i}
    /\ UNCHANGED <<now, events, nextRow, notices>>

(* events.insert; the foreign key makes it fail when the issue row is gone *)
(* (see Fail).                                                             *)
InsertEvent(r) ==
    /\ req[r].pc = "upserted"
    /\ Exists(req[r].issue)
    /\ events' = events \cup {[row |-> nextRow, issue |-> req[r].issue,
                               received_at |-> req[r].seen_at]}
    /\ nextRow' = nextRow + 1
    /\ req' = [req EXCEPT ![r].pc = "inserted"]
    /\ UNCHANGED <<now, issues, unused, notices>>

(* resurface_if_rate_exceeded, up to its decision: the snapshot says       *)
(* whether a rate mute is on, the table how many events fell in the window *)
(* that starts at max(muted_at, now - window).                             *)
RateExceeded(q) ==
    LET since == Max2(q.muted_at, q.seen_at - q.mute_window)
    IN  /\ q.status = "muted"
        /\ q.mute_threshold # Null
        /\ q.mute_window # Null
        /\ Cardinality({e \in EventsOf(q.issue) : e.received_at >= since})
               >= q.mute_threshold

CheckRate(r) ==
    /\ req[r].pc = "inserted"
    /\ req' = [req EXCEPT ![r].pc = IF RateExceeded(req[r])
                                    THEN "unmuting" ELSE "decided"]
    /\ UNCHANGED <<now, issues, unused, events, nextRow, notices>>

(* ... and its write: set_status(issue, Unresolved), by id alone.          *)
Resurface(r) ==
    /\ req[r].pc = "unmuting"
    /\ Exists(req[r].issue)
    /\ issues' = [issues EXCEPT ![req[r].issue] = WithStatus(@, "unresolved")]
    /\ req' = [req EXCEPT ![r].pc = "decided", ![r].status = "unresolved",
                          ![r].notify = "Regression"]
    /\ UNCHANGED <<now, unused, events, nextRow, notices>>

(* The 200 response and the background notification, which judges issue    *)
(* mute by the snapshot it was given.                                      *)
Dispatch(r) ==
    /\ req[r].pc = "decided"
    /\ notices' = IF /\ req[r].notify = "NewIssue"
                     /\ r \notin Silenced
                     /\ req[r].status # "muted"
                  THEN [notices EXCEPT ![req[r].issue] = @ + 1]
                  ELSE notices
    /\ req' = [req EXCEPT ![r] = [NoRequest EXCEPT !.pc = "done",
                                                   !.tries = req[r].tries]]
    /\ UNCHANGED <<now, issues, unused, events, nextRow>>

(* A write whose lock-conflict retries are spent: 429, with nothing        *)
(* undone.  set_status has no retry loop; its first conflict ends here.    *)
Busy(r) ==
    /\ req[r].pc \in {"received", "upserted", "unmuting"}
    /\ req' = [req EXCEPT ![r] = [NoRequest EXCEPT !.pc = "deferred",
                                                   !.fingerprint = req[r].fingerprint,
                                                   !.tries = req[r].tries]]
    /\ UNCHANGED <<now, issues, unused, events, nextRow, notices>>

(* Any other database error - a foreign key or a missing row included -    *)
(* answers 500; the SDK drops the event.                                   *)
Fail(r) ==
    /\ req[r].pc \in {"received", "upserted", "inserted", "unmuting"}
    /\ req' = [req EXCEPT ![r] = [NoRequest EXCEPT !.pc = "failed",
                                                   !.tries = req[r].tries]]
    /\ UNCHANGED <<now, issues, unused, events, nextRow, notices>>

(* The process dies: requests under way and queued notifications are gone, *)
(* the tables are not.                                                     *)
Crash ==
    /\ \E r \in Requests : req[r].pc \notin {"idle", "done", "deferred", "failed"}
    /\ req' = [r \in Requests |->
                  IF req[r].pc \in {"idle", "done", "deferred", "failed"} THEN req[r]
                  ELSE [NoRequest EXCEPT !.pc = "failed", !.tries = req[r].tries]]
    /\ UNCHANGED <<now, issues, unused, events, nextRow, notices>>

-----------------------------------------------------------------------------
(* Users.  A handler that finds no issue answers 404 and changes nothing.  *)

SetStatus(i, s) ==
    /\ Exists(i)
    /\ issues' = [issues EXCEPT ![i] = WithStatus(@, s)]
    /\ UNCHANGED <<now, unused, events, nextRow, req, notices>>

Resolve(i) == SetStatus(i, "resolved")

Unresolve(i) == SetStatus(i, "unresolved")

Mute(i, spec) ==
    /\ Exists(i)
    /\ issues' = [issues EXCEPT ![i] = Muted(@, spec, now)]
    /\ UNCHANGED <<now, unused, events, nextRow, req, notices>>

(* Fault: the rename skips the collision check.                            *)
RenameUnchecked(i, fp) ==
    /\ Exists(i)
    /\ issues[i].fingerprint # fp
    /\ issues' = [issues EXCEPT ![i].fingerprint = fp]
    /\ UNCHANGED <<now, unused, events, nextRow, req, notices>>

(* override_fingerprint_once: no other holder renames the row; another     *)
(* holder is merged into it - its events re-pointed, then the row deleted  *)
(* (which would cascade to any event still pointing at it).                *)
Rename(i, fp) ==
    /\ Exists(i)
    /\ issues[i].fingerprint # fp
    /\ Holder(fp) = {}
    /\ issues' = [issues EXCEPT ![i].fingerprint = fp]
    /\ UNCHANGED <<now, unused, events, nextRow, req, notices>>

(* Fault: the merged issue is deleted before its events are re-pointed.    *)
NotRepointed(i, j) == events

Repointed(i, j) == {IF e.issue = j THEN [e EXCEPT !.issue = i] ELSE e : e \in events}

Merge(i, j) ==
    /\ Exists(i) /\ Exists(j) /\ i # j
    /\ issues' = [issues EXCEPT ![i] = Merged(@, issues[j], issues[j].fingerprint),
                                ![j] = NoIssue]
    /\ events' = {e \in Repointed(i, j) : e.issue # j}
    /\ UNCHANGED <<now, unused, nextRow, req, notices>>

-----------------------------------------------------------------------------
(* The scheduler.                                                          *)

Expired(row) ==
    /\ row.status = "muted"
    /\ row.muted_until # Null
    /\ row.muted_until =< now

(* Fault: the sweep looks for a deadline on issues without one.            *)
ClearUndatedMutes ==
    /\ \E i \in IssueIds : Expired(issues[i]) /\ issues[i].muted_until = Null
    /\ issues' = [i \in IssueIds |->
                     IF Expired(issues[i]) THEN WithStatus(issues[i], "unresolved")
                     ELSE issues[i]]
    /\ UNCHANGED <<now, unused, events, nextRow, req, notices>>

ClearExpiredMutes ==
    /\ \E i \in IssueIds : Expired(issues[i])
    /\ issues' = [i \in IssueIds |->
                     IF Expired(issues[i]) THEN WithStatus(issues[i], "unresolved")
                     ELSE issues[i]]
    /\ UNCHANGED <<now, unused, events, nextRow, req, notices>>

(* The n most recent of a set of events; ties are broken by random ids.    *)
MostRecent(S, n) ==
    {K \in SUBSET S :
        /\ Cardinality(K) = Min2(n, Cardinality(S))
        /\ \A k \in K, d \in S \ K : k.received_at >= d.received_at}

(* Fault: the sweep stops when less than a full batch is left.             *)
PruneFullBatch ==
    /\ \E K \in MostRecent(events, Keep) :
           /\ Cardinality(events \ K) >= Batch
           /\ \E D \in MostRecent(events \ K, Batch) : events' = events \ D
    /\ UNCHANGED <<now, issues, unused, nextRow, req, notices>>

(* Fault: OFFSET is one too small.                                         *)
PruneOneMore ==
    /\ \E K \in MostRecent(events, Keep - 1) :
           /\ events # K
           /\ \E D \in MostRecent(events \ K, Batch) : events' = events \ D
    /\ UNCHANGED <<now, issues, unused, nextRow, req, notices>>

(* One batch of prune_events_over_retention: LIMIT batch OFFSET keep.      *)
PruneBatch ==
    /\ \E K \in MostRecent(events, Keep) :
           /\ events # K
           /\ \E D \in MostRecent(events \ K, Batch) : events' = events \ D
    /\ UNCHANGED <<now, issues, unused, nextRow, req, notices>>

(* One batch of delete_older_than, in no particular order.                 *)
TooOld(e) == MaxAge > 0 /\ e.received_at < now - MaxAge

DeleteOlderThan ==
    /\ \E D \in SUBSET {e \in events : TooOld(e)} :
           /\ D # {}
           /\ Cardinality(D) = Min2(Batch, Cardinality({e \in events : TooOld(e)}))
           /\ events' = events \ D
    /\ UNCHANGED <<now, issues, unused, nextRow, req, notices>>

Tick ==
    /\ now < MaxTime
    /\ now' = now + 1
    /\ UNCHANGED <<issues, unused, events, nextRow, req, notices>>

-----------------------------------------------------------------------------
UserStep ==
    \E i \in IssueIds :
        \/ Resolve(i)
        \/ Unresolve(i)
        \/ \E spec \in MuteSpecs(now) : Mute(i, spec)
        \/ \E fp \in Fingerprints : Rename(i, fp)
        \/ \E j \in IssueIds : Merge(i, j)

IngestStep(r) ==
    \/ \E fp \in Fingerprints : Receive(r, fp)
    \/ UpsertExisting(r)
    \/ UpsertNew(r)
    \/ InsertEvent(r)
    \/ CheckRate(r)
    \/ Resurface(r)
    \/ Dispatch(r)
    \/ Busy(r)
    \/ Fail(r)

Next ==
    \/ \E r \in Requests : IngestStep(r)
    \/ Crash
    \/ UserStep
    \/ ClearExpiredMutes
    \/ PruneBatch
    \/ DeleteOlderThan
    \/ Tick

Spec == Init /\ [][Next]_vars

(* run_loop sweeps forever, whatever one sweep returns; a user or an SDK   *)
(* owes nothing.                                                           *)
FairSpec == Spec /\ WF_vars(ClearExpiredMutes) /\ WF_vars(PruneBatch)
-----------------------------------------------------------------------------
(* Properties.                                                             *)

(* Every variable has its type, and what a request holds is consistent     *)
(* with how far it got.                                                    *)
TypeOK ==
    /\ now \in 1..MaxTime
    /\ issues \in [IssueIds -> Issue]
    /\ unused \in SUBSET IssueIds
    /\ events \in SUBSET Event
    /\ nextRow \in Nat \ {0}
    /\ req \in [Requests -> Request]
    /\ \A r \in Requests :
           /\ req[r].pc \in {"received", "upserted", "inserted", "unmuting", "decided", "deferred"}
                  => req[r].fingerprint \in Fingerprints
           /\ req[r].pc \in {"upserted", "inserted", "unmuting", "decided"}
                  => req[r].issue \in IssueIds
    /\ notices \in [IssueIds -> Nat]

(* One issue per fingerprint, whichever of ingestion, rename and merge     *)
(* wrote last (issues is unique per (project_id, fingerprint)).            *)
UniqueFingerprint ==
    \A i, j \in IssueIds :
        Exists(i) /\ Exists(j) /\ issues[i].fingerprint = issues[j].fingerprint
            => i = j

(* No event outlives its issue: a request that grouped into an issue which *)
(* a merge then deleted cannot store its event under the deleted row, and  *)
(* a merge leaves none behind.                                             *)
EventsReferToIssues == \A e \in events : Exists(e.issue)

(* The upsert is the single source of counter truth: an issue's            *)
(* event_count covers its stored events and the requests that were counted *)
(* and are about to store theirs, through merges, retention, failed and    *)
(* repeated submissions.                                                   *)
AboutToInsert(i) == {r \in Requests : req[r].pc = "upserted" /\ req[r].issue = i}

CountCoversStored ==
    \A i \in IssueIds :
        Exists(i) =>
            Cardinality(EventsOf(i)) + Cardinality(AboutToInsert(i))
                =< issues[i].event_count

(* Mute columns are set exactly while the issue is muted, and then in one  *)
(* of the three exclusive shapes of MuteSpec; a resolved, reopened or      *)
(* expired issue carries no stale expiry or threshold.                     *)
MuteColumns(row) == {row.muted_at, row.muted_until, row.mute_threshold, row.mute_window}

MuteBookkeeping ==
    \A i \in IssueIds :
        LET row == issues[i] IN
        /\ row.status # "muted" => MuteColumns(row) = {Null}
        /\ row.status = "muted" =>
               /\ row.muted_at # Null
               /\ row.mute_threshold = Null <=> row.mute_window = Null
               /\ row.muted_until # Null => row.mute_threshold = Null

(* An issue is announced as new at most once, however many events race to  *)
(* create it (docs/WEBHOOKS.md: a new issue sends one POST).               *)
AnnouncedOnce == \A i \in IssueIds : notices[i] =< 1

(* An event row disappears only by retention: it is older than the age     *)
(* limit or not among the Keep newest.  In particular a merge deletes none *)
(* although deleting the merged issue cascades, and a sweep deletes none   *)
(* of the events it is to keep while new ones arrive between its batches.  *)
OnlyRetentionDeletes ==
    [][\A e \in events :
          \/ \E f \in events' : f.row = e.row
          \/ TooOld(e)
          \/ Cardinality({f \in events : f.received_at >= e.received_at}) > Keep]_vars

(* A time-based mute that has run out ends: the sweep clears it, or a user *)
(* changed the issue first.                                                *)
ExpiredMuteEnds == \A i \in IssueIds : Expired(issues[i]) ~> ~Expired(issues[i])

(* A project over its event limit gets back to it: the sweep goes on until *)
(* nothing over the limit is left, the last partial batch included.        *)
OverLimitIsPruned == Cardinality(events) > Keep ~> Cardinality(events) =< Keep

(* docs/NOTIFICATIONS.md says a new issue sends an alert unless muted:     *)
(* once every submitted event has been acknowledged, every issue was       *)
(* announced.                                                              *)
NewIssuesAnnounced ==
    (\A r \in Requests : req[r].pc \in {"idle", "done"} /\ r \notin Silenced)
        => \A i \in IssueIds : Exists(i) => notices[i] >= 1
=============================================================================
