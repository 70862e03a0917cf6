----------------------------- MODULE PgIssues -----------------------------
(***************************************************************************)
(* The PostgreSQL issue repository: adapters/postgres/issue.rs.  SQLite    *)
(* has one writer at a time; here transactions overlap under READ          *)
(* COMMITTED.  SELECT ... FOR UPDATE finds a row in the snapshot of its    *)
(* statement, waits for the row lock and then looks again at that row      *)
(* only; an insert or rename waits for a transaction that has an           *)
(* uncommitted change of the same unique key.  Writes show at commit.      *)
(* The store is shown to implement IssueStore.                             *)
(***************************************************************************)
EXTENDS Naturals, FiniteSets

CONSTANTS Writers, Ids, Fingerprints,
          Calls,          \* the calls on issues
          RaceAttempts,   \* RACE_ATTEMPTS
          MaxRetries      \* WritePolicy::max_retries

None == "none"

\* 0 stands for no id.
ASSUME PgAssumption == /\ RaceAttempts \in Nat \ {0} /\ MaxRetries \in Nat
                       /\ IsFiniteSet(Ids) /\ 0 \notin Ids
                       /\ None \notin Fingerprints

VARIABLES row,      \* issues, as committed
          born,     \* the ids ever given to an issue
          tx,       \* the transaction of each writer
          answer    \* what the last call of a writer returned

ivars == <<row, born, tx, answer>>

Statuses == {"unresolved", "resolved", "muted"}
Issue == [fingerprint: Fingerprints, status: Statuses, event_count: Nat]
NoIssue == [fingerprint |-> None]
NoCall == [op |-> None]
Answers == {"new", "seen", "regression", "done", "missing", "failed", None}

\* The statement a transaction is at.  "read" starts a locking select, "lock"
\* waits for the row it found; which select it is says the stage.
Steps == {"idle", "read", "lock", "insert", "rename", "statement", "commit"}
Stages == {"first", "again", "target", "collision", None}
Tx == [pc: Steps, call: Calls \cup {NoCall}, stage: Stages, at: Ids \cup {0},
       holds: SUBSET Ids, source: Ids \cup {0}, result: Answers,
       races: 0..RaceAttempts, retries: 0..MaxRetries]
NoTx == [pc |-> "idle", call |-> NoCall, stage |-> None, at |-> 0, holds |-> {},
         source |-> 0, result |-> None, races |-> 0, retries |-> 0]

Live == {i \in Ids : row[i] # NoIssue}
Holders(f) == {i \in Live : row[i].fingerprint = f}

Started(c) ==
  [pc |-> IF c.op \in {"upsert", "override"} THEN "read" ELSE "statement",
   stage |-> IF c.op = "upsert" THEN "first" ELSE IF c.op = "override" THEN "target" ELSE None]

\* A fresh attempt of the same call; its locks are gone.
Restarted(t, races, retries) ==
  [NoTx EXCEPT !.pc = Started(t.call).pc, !.call = t.call, !.stage = Started(t.call).stage,
               !.races = races, !.retries = retries]

To(w, next) == tx' = [tx EXCEPT ![w] = next] /\ UNCHANGED <<row, born, answer>>

\* Fault: the connection goes back to the pool with its transaction open.
LeftOpen(t) == [NoTx EXCEPT !.holds = t.holds]
\* Commit or rollback releases the locks.
Ended(t) == NoTx

Return(w, result) ==
  /\ tx' = [tx EXCEPT ![w] = Ended(@)]
  /\ answer' = [answer EXCEPT ![w] = result]

Quit(w, result) == Return(w, result) /\ UNCHANGED <<row, born>>

-----------------------------------------------------------------------------
(* Locks.                                                                  *)

\* The other transactions that hold the lock of row i.
LockedBy(w, i) == {v \in Writers \ {w} : i \in tx[v].holds}

\* The unique keys a transaction ready to commit changes: of a new row, of a
\* renamed one before and after, of the row a merge removes.
Claims(v) ==
  LET t == tx[v]
  IN  CASE t.pc # "commit" -> {}
        [] t.result = "new" -> {t.call.fingerprint}
        [] t.call.op = "override" -> {t.call.fingerprint, row[t.call.id].fingerprint}
        [] OTHER -> {}
ClaimedBy(w, f) == {v \in Writers \ {w} : f \in Claims(v)}

\* Whom a writer waits for.
Blockers(w) ==
  CASE tx[w].pc = "lock" -> LockedBy(w, tx[w].at)
    [] tx[w].pc = "statement" -> LockedBy(w, tx[w].call.id)
    [] tx[w].pc \in {"insert", "rename"} -> ClaimedBy(w, tx[w].call.fingerprint)
    [] OTHER -> {}

-----------------------------------------------------------------------------
(* One attempt: upsert_once, override_fingerprint_once.                    *)

Invoke(w, c) ==
  /\ tx[w] = NoTx /\ answer[w] = None          \* bound: one call per writer
  /\ To(w, [NoTx EXCEPT !.pc = Started(c).pc, !.call = c, !.stage = Started(c).stage])

\* The rows that satisfy the WHERE of the select.
Matching(t) ==
  CASE t.stage = "target" -> {t.call.id} \cap Live
    [] t.stage = "collision" -> Holders(t.call.fingerprint) \ {t.call.id}
    [] OTHER -> Holders(t.call.fingerprint)

\* The race is lost: the transaction is dropped, which rolls it back, for
\* another round, or for the error after RACE_ATTEMPTS.
Lost(w) ==
  IF tx[w].races + 1 < RaceAttempts THEN To(w, Restarted(tx[w], tx[w].races + 1, 0)) ELSE Quit(w, "failed")

\* The select finds nothing.
Missing(w) ==
  CASE tx[w].stage = "first" -> To(w, [tx[w] EXCEPT !.pc = "insert"])
    [] tx[w].stage = "again" -> Lost(w)
    [] tx[w].stage = "target" -> Quit(w, "missing")
    [] OTHER -> To(w, [tx[w] EXCEPT !.pc = "rename"])

\* The select has locked row i.
Found(w, i) ==
  LET t == [tx[w] EXCEPT !.holds = @ \cup {i}, !.at = 0]
  IN  CASE t.stage \in {"first", "again"} ->
             To(w, [t EXCEPT !.pc = "commit", !.at = i,
                      !.result = IF row[i].status = "resolved" THEN "regression" ELSE "seen"])
        [] t.stage = "target" /\ row[i].fingerprint = t.call.fingerprint -> Quit(w, "done")
        [] t.stage = "target" /\ row[i].fingerprint # t.call.fingerprint ->
             To(w, [t EXCEPT !.pc = "read", !.stage = "collision"])
        [] OTHER -> To(w, [t EXCEPT !.pc = "commit", !.source = i, !.result = "done"])

Read(w) ==
  /\ tx[w].pc = "read"
  /\ IF Matching(tx[w]) = {} THEN Missing(w)
     ELSE \E i \in Matching(tx[w]) : To(w, [tx[w] EXCEPT !.pc = "lock", !.at = i])

\* Fault: the row is used as found as long as it exists.
AsFound(w) == tx[w].at \in Live
\* FOR UPDATE looks at the row again once it holds the lock.
StillMatches(w) == tx[w].at \in Matching(tx[w])

Lock(w) ==
  /\ tx[w].pc = "lock" /\ Blockers(w) = {}
  /\ IF StillMatches(w) THEN Found(w, tx[w].at) ELSE Missing(w)

\* INSERT ... ON CONFLICT DO NOTHING, then a second look if it did nothing.
Insert(w) ==
  /\ tx[w].pc = "insert" /\ Blockers(w) = {}
  /\ IF Holders(tx[w].call.fingerprint) # {}
     THEN To(w, [tx[w] EXCEPT !.pc = "read", !.stage = "again"])
     ELSE LET i == CHOOSE j \in Ids : j \notin born
          IN  /\ born # Ids                       \* bound: the ids
              /\ tx' = [tx EXCEPT ![w].pc = "commit", ![w].at = i, ![w].result = "new"]
              /\ born' = born \cup {i}
              /\ UNCHANGED <<row, answer>>

\* The rename of the locked target: a unique violation is a lost race.
Rename(w) ==
  /\ tx[w].pc = "rename" /\ Blockers(w) = {}
  /\ IF Holders(tx[w].call.fingerprint) # {} THEN Lost(w)
     ELSE To(w, [tx[w] EXCEPT !.pc = "commit", !.result = "done"])

bump_existing(issue) ==
  [issue EXCEPT !.event_count = @ + 1,
                !.status = IF @ = "resolved" THEN "unresolved" ELSE @]

\* Fault: the merge drops the row before it folds its count.
Dropped(target, source) == target.event_count
\* Aggregates of a merge are folded onto the surviving target.
Folded(target, source) == target.event_count + source.event_count

\* What the transaction leaves in the table.
Outcome(t) ==
  CASE t.result = "new" ->
         [row EXCEPT ![t.at] = [fingerprint |-> t.call.fingerprint,
                                status |-> "unresolved", event_count |-> 1]]
    [] t.call.op = "upsert" /\ t.result # "new" -> [row EXCEPT ![t.at] = bump_existing(@)]
    [] t.call.op = "override" /\ t.source = 0 ->
         [row EXCEPT ![t.call.id].fingerprint = t.call.fingerprint]
    [] OTHER ->
         [row EXCEPT ![t.source] = NoIssue,
            ![t.call.id].fingerprint = t.call.fingerprint,
            ![t.call.id].event_count = Folded(row[t.call.id], row[t.source])]

Commit(w) ==
  /\ tx[w].pc = "commit"
  /\ row' = Outcome(tx[w])
  /\ Return(w, tx[w].result)
  /\ UNCHANGED born

\* set_status, mute and delete: one statement that waits for the row lock.
Statement(w) ==
  /\ tx[w].pc = "statement" /\ Blockers(w) = {}
  /\ LET i == tx[w].call.id
     IN  IF i \notin Live
         THEN Quit(w, IF tx[w].call.op = "delete" THEN "done" ELSE "missing")
         ELSE /\ row' = IF tx[w].call.op = "delete" THEN [row EXCEPT ![i] = NoIssue]
                        ELSE [row EXCEPT ![i].status = tx[w].call.status]
              /\ Return(w, "done")
              /\ UNCHANGED born

\* The server breaks a cycle of waiting transactions by failing one of them;
\* retry_write starts that attempt again, up to max_retries times.
InCycle(w, waitsFor) ==
  \E S \in SUBSET DOMAIN waitsFor :
    w \in S /\ \A v \in S : waitsFor[v] \cap S # {} /\ \E u \in S : v \in waitsFor[u]

DeadlockDetected(w) ==
  /\ InCycle(w, [v \in Writers |-> Blockers(v)])
  /\ IF tx[w].retries < MaxRetries /\ tx[w].stage # None
     THEN To(w, Restarted(tx[w], tx[w].races, tx[w].retries + 1))
     ELSE Quit(w, "failed")

-----------------------------------------------------------------------------

InitIssues ==
  \* A muted issue is bumped as an unresolved one.
  /\ row \in [Ids -> {NoIssue} \cup [fingerprint: Fingerprints, event_count: {1},
                                     status: {"unresolved", "resolved"}]]
  /\ Live = 1..Cardinality(Live)
  /\ \A f \in Fingerprints : Cardinality(Holders(f)) <= 1
  \* Which fingerprint the first one has is immaterial.
  /\ 1 \in Live => row[1].fingerprint = CHOOSE f \in Fingerprints : TRUE
  /\ born = Live
  /\ tx = [w \in Writers |-> NoTx]
  /\ answer = [w \in Writers |-> None]

WriterStep(w) ==
  \/ Read(w) \/ Lock(w) \/ Insert(w) \/ Rename(w) \/ Commit(w) \/ Statement(w)
  \/ DeadlockDetected(w)

-----------------------------------------------------------------------------
(* Properties.                                                             *)

\* The tables and the transactions keep their types.
IssuesTypeOK ==
  /\ \A i \in Ids : row[i] \in Issue \cup {NoIssue}
  /\ Live \subseteq born /\ born \subseteq Ids
  /\ \A w \in Writers : tx[w] \in Tx
  /\ answer \in [Writers -> Answers]

\* Overlapping transactions behave as the atomic store: a fingerprint has one
\* issue, one caller is told that it is new, a regression is reported to the
\* caller whose event reopened the issue, a merge loses nothing.
Store == INSTANCE IssueStore WITH
  issues <- row, call <- [w \in Writers |-> tx[w].call]
ActsAtomically == Store!Spec

ASSUME CallsAssumption == Calls \subseteq Store!AllCalls

===========================================================================
