--------------------------- MODULE AlertLifecycle ---------------------------
(***************************************************************************)
(* Alertmanager delivery: the table notification_alerts of tracked alerts, *)
(* the notifications ingestion spawns, the ten-second refresh sweep, and   *)
(* the Alertmanager at the other end of an unreliable HTTP call.           *)
(*                                                                         *)
(* Sources: src/alertmanager.rs (notify, resolve, refresh, reconcile,      *)
(* alert_ttl), src/adapters/alertmanager.rs, src/adapters/sqlite/          *)
(* notifications.rs, src/scheduler.rs (spawn), src/ingest/handlers.rs      *)
(* (spawn_notification).                                                   *)
(*                                                                         *)
(* Both notify and reconcile run under one async mutex; `worker` is the    *)
(* holder.  Each database write and each HTTP call is one step, and users, *)
(* the clock and a crash come between any two of them.                     *)
(*                                                                         *)
(* Time is relative, so that leases run out without a bound on the clock:  *)
(* a deadline is the ticks left to it, last_sent_at the ticks since.       *)
(* An alert's identity is its endpoint and labels: what the notification   *)
(* settings give it (target) and what severity and project labels add      *)
(* (labels).  Trigger, annotations and startsAt steer nothing.  Whether an *)
(* issue is live (unresolved, its project neither muted nor orphaned nor   *)
(* gone) is one flag.                                                      *)
(***************************************************************************)
EXTENDS Integers, FiniteSetsExt

CONSTANTS
    Issues,      \* issue ids, in the order of the table's primary key
    Targets,     \* endpoint and label templates of the notification settings
    LabelSets,   \* severity and project labels
    Intervals,   \* refresh intervals an admin may choose
    MinLease,    \* ALERT_TTL
    Page,        \* rows per page of `active`
    MaxQueued,   \* bound on queued notifications per issue
    MaxFaults    \* bound on errors, timeouts and crashes

ASSUME AlertAssumption ==
    /\ Issues \subseteq Nat \ {0} /\ IsFiniteSet(Issues)
    /\ Intervals \subseteq Nat \ {0} /\ Intervals # {} /\ IsFiniteSet(Intervals)
    /\ MinLease \in Nat \ {0} /\ Page \in Nat \ {0}
    /\ "none" \notin Targets
    /\ MaxQueued \in Nat /\ MaxFaults \in Nat

VARIABLES
    open,      \* per issue: is it live?
    config,    \* saved notification settings
    labels,    \* severity and project labels
    interval,  \* effective refresh interval
    table,     \* notification_alerts
    queued,    \* notifications spawned and waiting for the mutex, per issue
    worker,    \* the mutex and what its holder is doing
    sweep,     \* the refresh loop
    am,        \* Alertmanager: ticks until each alert's endsAt
    wire,      \* requests the client gave up on, still on their way
    faults,    \* faults that may still happen
    late       \* history: a request has outlived its timeout

vars == <<open, config, labels, interval, table, queued, worker, sweep, am, wire, faults, late>>

-----------------------------------------------------------------------------
Identities == [target: Targets, labels: LabelSets]

Never == -1

(* alert_ttl *)
Lease(s) == IF 3 * s > MinLease THEN 3 * s ELSE MinLease

Config == [enabled: BOOLEAN, target: Targets]

(* A tracked alert: identity, ticks to its endsAt, ticks since the last    *)
(* successful delivery (Never when delivery is pending).                   *)
Row == [id: Identities, left: Nat, sent: {Never} \cup Nat]

NoRow == [id |-> [target |-> "none", labels |-> "none"], left |-> 0, sent |-> Never]

Post == [issue: Issues, id: Identities, left: Nat]

(* The mutex is free, or its holder - a notification or the sweep - is at  *)
(* one of the calls of notify or reconcile.  `next` is where it goes after *)
(* closing the old alert; `slow` that a tick came since it took the mutex. *)
Free == [by |-> "none", pc |-> "free", issue |-> 0, old |-> NoRow, new |-> NoRow,
         next |-> "free", slow |-> FALSE]

Removing(i, old) ==
    [by |-> "sweep", pc |-> "closing", issue |-> i, old |-> old, new |-> old,
     next |-> "removing", slow |-> FALSE]

Replacing(by, first, i, old, new) ==
    [by |-> by, pc |-> first, issue |-> i, old |-> old, new |-> new, next |-> "saving",
     slow |-> FALSE]

NoSweep == [running |-> FALSE, config |-> [enabled |-> FALSE, target |-> "none"],
            after |-> 0, page |-> {}]

Worker ==
    [by: {"none", "task", "sweep"},
     pc: {"free", "closing", "saving", "sending", "marking", "removing"},
     issue: Issues \cup {0}, old: Row \cup {NoRow}, new: Row \cup {NoRow},
     next: {"free", "saving", "removing"}, slow: BOOLEAN]

Sweep ==
    [running: BOOLEAN, config: Config \cup {NoSweep.config},
     after: Issues \cup {0}, page: SUBSET Issues]

Identity(c) == [target |-> c.target, labels |-> labels]

Fresh(c) == [id |-> Identity(c), left |-> Lease(interval), sent |-> Never]

Tracked(i) == table[i] # NoRow

Firing(i, id) == am[i][id] > 0

Init ==
    /\ open = [i \in Issues |-> FALSE]
    /\ config \in Config
    /\ labels \in LabelSets
    /\ interval \in Intervals
    /\ table = [i \in Issues |-> NoRow]
    /\ queued = [i \in Issues |-> 0]
    /\ worker = Free
    /\ sweep = NoSweep
    /\ am = [i \in Issues |-> [id \in Identities |-> 0]]
    /\ wire = {}
    /\ faults = MaxFaults
    /\ late = FALSE

-----------------------------------------------------------------------------
(* Users, administrators and ingestion.                                    *)

(* A new issue or a regression: the issue is live and a notification task  *)
(* is spawned.                                                             *)
Alerting(i) ==
    /\ ~open[i]
    /\ queued[i] < MaxQueued
    /\ open' = [open EXCEPT ![i] = TRUE]
    /\ queued' = [queued EXCEPT ![i] = @ + 1]
    /\ UNCHANGED <<config, labels, interval, table, worker, sweep, am, wire, faults, late>>

(* Unresolved or unmuted, by a user or by expiry: no notification.         *)
Reopen(i) ==
    /\ ~open[i]
    /\ open' = [open EXCEPT ![i] = TRUE]
    /\ UNCHANGED <<config, labels, interval, table, queued, worker, sweep, am, wire, faults, late>>

(* Resolved, muted or deleted; or its project muted, orphaned or deleted.  *)
Close(i) ==
    /\ open[i]
    /\ open' = [open EXCEPT ![i] = FALSE]
    /\ UNCHANGED <<config, labels, interval, table, queued, worker, sweep, am, wire, faults, late>>

SaveSettings ==
    /\ config' \in Config
    /\ UNCHANGED <<open, labels, interval, table, queued, worker, sweep, am, wire, faults, late>>

SaveLabels ==
    /\ labels' \in LabelSets
    /\ UNCHANGED <<open, config, interval, table, queued, worker, sweep, am, wire, faults, late>>

SetInterval ==
    /\ interval' \in Intervals
    /\ UNCHANGED <<open, config, labels, table, queued, worker, sweep, am, wire, faults, late>>

-----------------------------------------------------------------------------
(* The two critical sections.                                              *)

(* notify: the settings are read under the mutex; a tracked alert is       *)
(* closed first.                                                           *)
Notify(i) ==
    /\ worker = Free
    /\ queued[i] > 0
    /\ queued' = [queued EXCEPT ![i] = @ - 1]
    /\ worker' = IF ~config.enabled THEN Free
                 ELSE Replacing("task", IF Tracked(i) THEN "closing" ELSE "saving",
                                i, table[i], Fresh(config))
    /\ UNCHANGED <<open, config, labels, interval, table, sweep, am, wire, faults, late>>

(* refresh: the settings are read once, before any mutex.                  *)
SweepBegin ==
    /\ ~sweep.running
    /\ sweep' = [running |-> TRUE, config |-> config, after |-> 0, page |-> {}]
    /\ UNCHANGED <<open, config, labels, interval, table, queued, worker, am, wire, faults, late>>

(* One page of `active(after, 100)`, in key order.                         *)
Ahead == {i \in Issues : Tracked(i) /\ i > sweep.after}

FirstPage == {i \in Ahead : Cardinality({j \in Ahead : j < i}) < Page}

(* Fault: the sweep stops after one page.                                  *)
SweepPageOnce ==
    /\ sweep.running
    /\ worker.by # "sweep"
    /\ sweep.page = {}
    /\ sweep' = IF Ahead = {} \/ sweep.after # 0 THEN NoSweep
                ELSE [sweep EXCEPT !.page = FirstPage]
    /\ UNCHANGED <<open, config, labels, interval, table, queued, worker, am, wire, faults, late>>

SweepPage ==
    /\ sweep.running
    /\ worker.by # "sweep"
    /\ sweep.page = {}
    /\ sweep' = IF Ahead = {} THEN NoSweep ELSE [sweep EXCEPT !.page = FirstPage]
    /\ UNCHANGED <<open, config, labels, interval, table, queued, worker, am, wire, faults, late>>

(* Fault: the lease left is not compared with a raised interval.           *)
NotDueByAge(saved, c) ==
    /\ saved.id = Identity(c)
    /\ saved.sent # Never /\ saved.sent < interval

(* Fault: only a changed identity is sent again.                           *)
NotDueUnlessChanged(saved, c) == saved.id = Identity(c)

(* Nothing to send: same identity, sent less than an interval ago, and the *)
(* lease outlasts the interval.                                            *)
NotDue(saved, c) ==
    /\ saved.id = Identity(c)
    /\ saved.sent # Never /\ saved.sent < interval
    /\ saved.left > interval

(* Fault: a changed identity replaces the row without closing the old one. *)
ReconcileUnclosed(i, saved, c) ==
    IF ~(c.enabled /\ open[i])
    THEN Removing(i, saved)
    ELSE IF NotDue(saved, c) THEN Free
    ELSE Replacing("sweep", "saving", i, saved, Fresh(c))

(* Fault: a closed issue's alert is renewed like any other.                *)
ReconcileIgnoresStatus(i, saved, c) ==
    IF ~c.enabled THEN Removing(i, saved)
    ELSE IF NotDue(saved, c) THEN Free
    ELSE Replacing("sweep", IF saved.id # Identity(c) THEN "closing" ELSE "saving",
                   i, saved, Fresh(c))

(* reconcile, up to its first write or call: an alert that is not live is  *)
(* closed and removed; one whose identity changed is closed and replaced;  *)
(* one that is due is renewed.                                             *)
Reconcile(i, saved, c) ==
    IF ~(c.enabled /\ open[i])
    THEN Removing(i, saved)
    ELSE IF NotDue(saved, c) THEN Free
    ELSE Replacing("sweep", IF saved.id # Identity(c) THEN "closing" ELSE "saving",
                   i, saved, Fresh(c))

(* The sweep goes on to the next entry of its page.                        *)
Visiting(i) ==
    /\ i \in sweep.page
    /\ \A j \in sweep.page : i =< j
    /\ sweep' = [sweep EXCEPT !.after = i, !.page = @ \ {i}]

(* The next entry of the page: its row is read again under the mutex.      *)
SweepVisit ==
    /\ worker = Free
    /\ \E i \in Issues :
           /\ Visiting(i)
           /\ worker' = IF Tracked(i) THEN Reconcile(i, table[i], sweep.config) ELSE Free
    /\ UNCHANGED <<open, config, labels, interval, table, queued, am, wire, faults, late>>

-----------------------------------------------------------------------------
(* The steps of the holder.  Every error path returns from notify or from  *)
(* reconcile, which releases the mutex.                                    *)

Delivered(i, id, left) == am' = [am EXCEPT ![i][id] = left]

(* resolve: the old alert, with endsAt now.                                *)
CloseOld ==
    /\ worker.pc = "closing"
    /\ Delivered(worker.issue, worker.old.id, 0)
    /\ worker' = [worker EXCEPT !.pc = worker.next]
    /\ UNCHANGED <<open, config, labels, interval, table, queued, sweep, wire, faults, late>>

(* Fault: the row is written only once the alert was delivered.            *)
SaveAlertLater ==
    /\ worker.pc = "saving"
    /\ worker' = [worker EXCEPT !.pc = "sending"]
    /\ UNCHANGED <<open, config, labels, interval, table, queued, sweep, am, wire, faults, late>>

(* save_alert, delivery pending.                                           *)
SaveAlert ==
    /\ worker.pc = "saving"
    /\ table' = [table EXCEPT ![worker.issue] = worker.new]
    /\ worker' = [worker EXCEPT !.pc = "sending"]
    /\ UNCHANGED <<open, config, labels, interval, queued, sweep, am, wire, faults, late>>

SendFiring ==
    /\ worker.pc = "sending"
    /\ Delivered(worker.issue, worker.new.id, worker.new.left)
    /\ worker' = [worker EXCEPT !.pc = "marking"]
    /\ UNCHANGED <<open, config, labels, interval, table, queued, sweep, wire, faults, late>>

(* save_alert with last_sent_at = now.                                     *)
MarkSent ==
    /\ worker.pc = "marking"
    /\ table' = [table EXCEPT ![worker.issue] = [worker.new EXCEPT !.sent = 0]]
    /\ worker' = Free
    /\ UNCHANGED <<open, config, labels, interval, queued, sweep, am, wire, faults, late>>

RemoveAlert ==
    /\ worker.pc = "removing"
    /\ table' = [table EXCEPT ![worker.issue] = NoRow]
    /\ worker' = Free
    /\ UNCHANGED <<open, config, labels, interval, queued, sweep, am, wire, faults, late>>

(* What the holder was about to post.                                      *)
Outgoing ==
    [issue |-> worker.issue,
     id    |-> IF worker.pc = "closing" THEN worker.old.id ELSE worker.new.id,
     left  |-> IF worker.pc = "closing" THEN 0 ELSE worker.new.left]

(* An HTTP call that returns an error: refused, accepted although the      *)
(* answer was lost, or - after the client's timeout - still on its way.    *)
CallFails ==
    /\ worker.pc \in {"closing", "sending"}
    /\ faults > 0
    /\ \/ UNCHANGED <<am, wire, late>>
       \/ Delivered(Outgoing.issue, Outgoing.id, Outgoing.left) /\ UNCHANGED <<wire, late>>
       \/ wire' = wire \cup {Outgoing} /\ late' = TRUE /\ UNCHANGED am
    /\ faults' = faults - 1
    /\ worker' = Free
    /\ UNCHANGED <<open, config, labels, interval, table, queued, sweep>>

DeliverLate ==
    /\ \E p \in wire : Delivered(p.issue, p.id, p.left) /\ wire' = wire \ {p}
    /\ UNCHANGED <<open, config, labels, interval, table, queued, worker, sweep, faults, late>>

(* A database error.  A failed write ends the holder's critical section; a *)
(* failed read loses the notification, ends the sweep, or - inside         *)
(* reconcile - skips one entry.                                            *)
WriteFails ==
    /\ worker.pc \in {"saving", "marking", "removing"}
    /\ faults > 0
    /\ faults' = faults - 1
    /\ worker' = Free
    /\ UNCHANGED <<open, config, labels, interval, table, queued, sweep, am, wire, late>>

ReadFails ==
    /\ worker = Free
    /\ faults > 0
    /\ faults' = faults - 1
    /\ \/ \E i \in Issues : /\ queued[i] > 0
                            /\ queued' = [queued EXCEPT ![i] = @ - 1]
                            /\ UNCHANGED sweep
       \/ sweep.running /\ sweep' = NoSweep /\ UNCHANGED queued
       \/ (\E i \in Issues : Visiting(i)) /\ UNCHANGED queued
    /\ UNCHANGED <<open, config, labels, interval, table, worker, am, wire, late>>

(* The process dies and restarts with its tables.                          *)
Crash ==
    /\ faults > 0
    /\ faults' = faults - 1
    /\ worker' = Free
    /\ sweep' = NoSweep
    /\ queued' = [i \in Issues |-> 0]
    /\ UNCHANGED <<open, config, labels, interval, table, am, wire, late>>

-----------------------------------------------------------------------------
(* Time.                                                                   *)

Down(n) == IF n > 0 THEN n - 1 ELSE 0

Aged(row) ==
    [row EXCEPT !.left = Down(@),
                !.sent = IF @ = Never THEN Never
                         ELSE IF @ < Max(Intervals) THEN @ + 1 ELSE @]

(* A tick is the period of the refresh loop, REFRESH_INTERVAL.  A critical *)
(* section has at most two HTTP calls, each timing out after half a tick,  *)
(* so it ends well within a lease: here it sees at most one tick.          *)
Tick ==
    /\ ~worker.slow
    /\ table' = [i \in Issues |-> Aged(table[i])]
    /\ worker' = [worker EXCEPT !.old = Aged(@), !.new = Aged(@), !.slow = worker # Free]
    /\ am' = [i \in Issues |-> [id \in Identities |-> Down(am[i][id])]]
    /\ wire' = {[p EXCEPT !.left = Down(@)] : p \in wire}
    /\ UNCHANGED <<open, config, labels, interval, queued, sweep, faults, late>>

-----------------------------------------------------------------------------
UserStep ==
    \/ \E i \in Issues : Alerting(i) \/ Reopen(i) \/ Close(i)
    \/ SaveSettings
    \/ SaveLabels
    \/ SetInterval

HolderStep == CloseOld \/ SaveAlert \/ SendFiring \/ MarkSent \/ RemoveAlert

SweepStep == SweepBegin \/ SweepPage \/ SweepVisit

FaultStep == CallFails \/ WriteFails \/ ReadFails \/ Crash

Next ==
    \/ UserStep
    \/ \E i \in Issues : Notify(i)
    \/ HolderStep
    \/ SweepStep
    \/ FaultStep
    \/ DeliverLate
    \/ Tick

Spec == Init /\ [][Next]_vars

(* The scheduler's interval loop and the spawned tasks run, and time       *)
(* passes.  The mutex is FIFO: who waits for it gets it, though others     *)
(* take it in between.                                                     *)
Fairness ==
    /\ WF_vars(HolderStep)
    /\ WF_vars(SweepBegin) /\ WF_vars(SweepPage) /\ SF_vars(SweepVisit)
    /\ \A i \in Issues : SF_vars(Notify(i))
    /\ WF_vars(Tick)

FairSpec == Spec /\ Fairness

-----------------------------------------------------------------------------
TypeOK ==
    /\ open \in [Issues -> BOOLEAN]
    /\ config \in Config /\ labels \in LabelSets /\ interval \in Intervals
    /\ table \in [Issues -> Row \cup {NoRow}]
    /\ queued \in [Issues -> 0..MaxQueued]
    /\ worker \in Worker
    /\ worker.pc = "free" => worker = Free
    /\ worker.pc # "free" => worker.issue \in Issues /\ worker.new \in Row
    /\ worker.pc = "closing" => worker.old \in Row /\ worker.next # "free"
    /\ sweep \in Sweep
    /\ sweep.running => sweep.config \in Config
    /\ sweep.page # {} => sweep.running
    /\ am \in [Issues -> [Identities -> Nat]]
    /\ wire \subseteq Post
    /\ faults \in 0..MaxFaults
    /\ late \in BOOLEAN

(* Saved identities survive restarts, and records are removed only after   *)
(* delivery: whatever fails between two calls, no alert fires at the       *)
(* Alertmanager that the table does not track under that identity.  This   *)
(* is the purpose of persisting before HTTP in notify and reconcile and of *)
(* closing the old identity first.  (For requests that do not outlive      *)
(* their timeout: a late one is an orphan that only its lease ends.)       *)
NoUntrackedFiring ==
    \A i \in Issues, id \in Identities :
        ~late /\ Firing(i, id) => Tracked(i) /\ table[i].id = id

(* Resolving, muting or deleting an issue ends its alerts: unless it is    *)
(* reopened, the sweep removes the row and nothing keeps firing, late      *)
(* requests, notifications still queued and failed closings included.      *)
ClosedIsForgotten ==
    \A i \in Issues :
        ~open[i] ~> \/ open[i]
                    \/ ~Tracked(i) /\ \A id \in Identities : ~Firing(i, id)

(* A tracked alert of a live issue is not lost: it fires, now or again     *)
(* after an outage, unless the issue or the channel is closed first.       *)
TrackedAlertFires ==
    \A i \in Issues :
        Tracked(i) ~> \/ ~Tracked(i) \/ ~open[i] \/ ~config.enabled
                      \/ Firing(i, table[i].id)
=============================================================================
