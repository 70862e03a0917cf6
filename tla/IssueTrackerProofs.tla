------------------------- MODULE IssueTrackerProofs -------------------------
(***************************************************************************)
(* Proofs about IssueTracker, for every number of issues, fingerprints and *)
(* requests, every retention limit and every bound on time and retries.    *)
(***************************************************************************)
EXTENDS IssueTracker, FiniteSetTheorems, TLAPS

-----------------------------------------------------------------------------
(* Type correctness.                                                       *)

(* Every row update used on `issues` yields a row of the table.            *)
LEMMA RowTypes ==
    ASSUME NEW row \in Issue
    PROVE  /\ WithoutMute(row) \in Issue
           /\ \A s \in Statuses : WithStatus(row, s) \in Issue
           /\ \A t \in Nat : Bumped(row, t) \in Issue
           /\ \A f \in Fingerprints, t \in Nat : Created(f, t) \in Issue
           /\ \A t \in Nat : \A spec \in MuteSpecs(t) : Muted(row, spec, t) \in Issue
           /\ \A f \in Fingerprints : \A src \in Issue : Merged(row, src, f) \in Issue
  <1>1. WithoutMute(row) \in Issue
    BY DEF WithoutMute, Issue, Null
  <1>2. \A s \in Statuses : WithStatus(row, s) \in Issue
    BY DEF WithStatus, WithoutMute, Issue, Null
  <1>3. \A t \in Nat : Bumped(row, t) \in Issue
    <2>1. row.status \in Statuses \cup {"absent"} /\ row.event_count + 1 \in Nat
      BY DEF Issue
    <2>2. (IF row.status = "resolved" THEN "unresolved" ELSE row.status)
              \in Statuses \cup {"absent"}
      BY <2>1 DEF Statuses
    <2> QED
      BY <2>1, <2>2 DEF Bumped, Issue
  <1>4. \A f \in Fingerprints, t \in Nat : Created(f, t) \in Issue
    BY DEF Created, NoIssue, Issue, Statuses, Null
  <1>5. \A t \in Nat : \A spec \in MuteSpecs(t) : Muted(row, spec, t) \in Issue
    <2> SUFFICES ASSUME NEW t \in Nat, NEW spec \in MuteSpecs(t)
                 PROVE  Muted(row, spec, t) \in Issue
      OBVIOUS
    <2>1. spec.until \in Nat /\ spec.threshold \in Nat /\ spec.window \in Nat
      BY MuteAssumption DEF MuteSpecs, Null
    <2> QED
      BY <2>1 DEF Muted, Issue, Statuses
  <1>6. \A f \in Fingerprints : \A src \in Issue : Merged(row, src, f) \in Issue
    <2> SUFFICES ASSUME NEW f \in Fingerprints, NEW src \in Issue
                 PROVE  Merged(row, src, f) \in Issue
      OBVIOUS
    <2>1. row.event_count + src.event_count \in Nat
      BY DEF Issue
    <2>2. Min2(row.first_seen, src.first_seen) \in Nat
      BY DEF Issue, Min2
    <2>3. Max2(row.last_seen, src.last_seen) \in Nat
      BY DEF Issue, Max2
    <2> QED
      BY <2>1, <2>2, <2>3 DEF Merged, Issue
  <1> QED
    BY <1>1, <1>2, <1>3, <1>4, <1>5, <1>6

(* The issues table keeps its type when one row is replaced.               *)
LEMMA RowUpdate ==
    ASSUME issues \in [IssueIds -> Issue], NEW i \in IssueIds, NEW row \in Issue
    PROVE  [issues EXCEPT ![i] = row] \in [IssueIds -> Issue]
  OBVIOUS

(* What a request holds at each stage (the conjunct of TypeOK).            *)
HoldsByStage(q) ==
    /\ q.pc \in {"received", "upserted", "inserted", "unmuting", "decided", "deferred"}
           => q.fingerprint \in Fingerprints
    /\ q.pc \in {"upserted", "inserted", "unmuting", "decided"} => q.issue \in IssueIds

(* The requests keep their type when one of them is replaced.              *)
LEMMA RequestUpdate ==
    ASSUME TypeOK, NEW r \in Requests, NEW q \in Request, HoldsByStage(q),
           req' = [req EXCEPT ![r] = q]
    PROVE  /\ req' \in [Requests -> Request]
           /\ \A s \in Requests : HoldsByStage(req'[s])
  <1>1. req \in [Requests -> Request] /\ \A s \in Requests : HoldsByStage(req[s])
    BY DEF TypeOK, HoldsByStage
  <1>2. req' \in [Requests -> Request]
    BY <1>1
  <1>3. \A s \in Requests : req'[s] = IF s = r THEN q ELSE req[s]
    BY <1>1
  <1> QED
    BY <1>1, <1>2, <1>3

(* TypeOK in the next state follows from its parts.                        *)
LEMMA TypeParts ==
    ASSUME now' \in 1..MaxTime, issues' \in [IssueIds -> Issue],
           unused' \in SUBSET IssueIds, events' \in SUBSET Event,
           nextRow' \in Nat \ {0}, req' \in [Requests -> Request],
           \A s \in Requests : HoldsByStage(req'[s]),
           notices' \in [IssueIds -> Nat]
    PROVE  TypeOK'
  BY DEF TypeOK, HoldsByStage

(* A reset request: NoRequest with a stage, a fingerprint and a time.      *)
LEMMA ResetRequest ==
    ASSUME NEW p \in {"received", "deferred", "done", "failed"},
           NEW f \in Fingerprints \cup {Null}, NEW t \in Nat, NEW k \in Nat,
           p \in {"received", "deferred"} => f \in Fingerprints
    PROVE  LET q == [NoRequest EXCEPT !.pc = p, !.fingerprint = f,
                                      !.seen_at = t, !.tries = k]
           IN  q \in Request /\ HoldsByStage(q)
  BY DEF NoRequest, Request, HoldsByStage, Null, NotifyKinds

-----------------------------------------------------------------------------
(* An upsert leaves a well-typed row and a well-typed request.             *)
LEMMA TypeUpserted ==
    ASSUME TypeOK, NEW r \in Requests, NEW i \in IssueIds, NEW row \in Issue,
           row.status \in Statuses, NEW kind \in NotifyKinds,
           req[r].pc = "received",
           Upserted(r, i, row, kind)
    PROVE  /\ issues' \in [IssueIds -> Issue]
           /\ req' \in [Requests -> Request]
           /\ \A s \in Requests : HoldsByStage(req'[s])
  <1> DEFINE q == [req[r] EXCEPT !.pc = "upserted", !.issue = i,
                          !.status = row.status,
                          !.muted_at = row.muted_at,
                          !.mute_threshold = row.mute_threshold,
                          !.mute_window = row.mute_window,
                          !.notify = kind]
  <1>1. req[r] \in Request /\ req[r].fingerprint \in Fingerprints
    BY DEF TypeOK
  <1>2. q \in Request /\ HoldsByStage(q)
    BY <1>1 DEF Request, Issue, HoldsByStage
  <1>3. req' = [req EXCEPT ![r] = q]
    BY DEF Upserted, TypeOK
  <1>4. issues' \in [IssueIds -> Issue]
    BY RowUpdate DEF Upserted, TypeOK
  <1> HIDE DEF q
  <1> QED
    BY <1>2, <1>3, <1>4, RequestUpdate

(* A request that moves to a later stage and keeps what it holds.          *)
LEMMA NextStage ==
    ASSUME TypeOK, NEW r \in Requests,
           req[r].pc \in {"upserted", "inserted", "unmuting"},
           NEW p \in {"inserted", "unmuting", "decided"},
           req' = [req EXCEPT ![r].pc = p]
    PROVE  /\ req' \in [Requests -> Request]
           /\ \A s \in Requests : HoldsByStage(req'[s])
  <1> DEFINE q == [req[r] EXCEPT !.pc = p]
  <1>1. req[r] \in Request /\ HoldsByStage(req[r])
    BY DEF TypeOK, HoldsByStage
  <1>2. q \in Request /\ HoldsByStage(q)
    BY <1>1 DEF Request, HoldsByStage
  <1>3. req' = [req EXCEPT ![r] = q]
    BY DEF TypeOK
  <1> HIDE DEF q
  <1> QED
    BY <1>2, <1>3, RequestUpdate

(* Init establishes the type invariant.                                    *)
LEMMA TypeInit == Init => TypeOK
  <1> SUFFICES ASSUME Init PROVE TypeOK
    OBVIOUS
  <1>1. NoIssue \in Issue
    BY DEF NoIssue, Issue, Null
  <1>2. NoRequest \in Request /\ HoldsByStage(NoRequest)
    BY DEF NoRequest, Request, HoldsByStage, Null, NotifyKinds
  <1>3. issues \in [IssueIds -> Issue] /\ notices \in [IssueIds -> Nat]
    BY <1>1 DEF Init
  <1>4. req \in [Requests -> Request] /\ \A r \in Requests : HoldsByStage(req[r])
    BY <1>2 DEF Init
  <1> QED
    BY <1>3, <1>4, BoundsAssumption DEF Init, TypeOK, HoldsByStage

(* Every step of an ingest request keeps it.                               *)
LEMMA TypeIngest ==
    ASSUME TypeOK, NEW r \in Requests, IngestStep(r)
    PROVE  TypeOK'
  <1> USE DEF TypeOK
  <1>0. req[r] \in Request /\ HoldsByStage(req[r])
    BY DEF HoldsByStage
  <1>1. ASSUME NEW fp \in Fingerprints, Receive(r, fp) PROVE TypeOK'
    <2> DEFINE q == [NoRequest EXCEPT !.pc = "received", !.fingerprint = fp,
                                      !.seen_at = now, !.tries = req[r].tries + 1]
    <2>1. now \in Nat /\ req[r].tries + 1 \in Nat
      BY <1>0 DEF Request
    <2>2. q \in Request /\ HoldsByStage(q)
      BY <2>1, ResetRequest
    <2>3. req' = [req EXCEPT ![r] = q]
      BY <1>1 DEF Receive
    <2> HIDE DEF q
    <2>4. req' \in [Requests -> Request] /\ \A s \in Requests : HoldsByStage(req'[s])
      BY <2>2, <2>3, RequestUpdate
    <2> QED
      BY <1>1, <2>4, TypeParts DEF Receive
  <1>2. CASE UpsertExisting(r)
    <2>1. PICK i \in Holder(req[r].fingerprint) :
              Upserted(r, i, Bumped(issues[i], req[r].seen_at),
                  IF issues[i].status = "resolved" THEN "Regression" ELSE "None")
      BY <1>2 DEF UpsertExisting
    <2>2. i \in IssueIds /\ issues[i] \in Issue /\ issues[i].status # "absent"
      BY DEF Holder, Exists
    <2>3. Bumped(issues[i], req[r].seen_at) \in Issue
      BY <1>0, <2>2, RowTypes DEF Request
    <2>4. Bumped(issues[i], req[r].seen_at).status \in Statuses
      BY <2>2 DEF Bumped, Issue, Statuses
    <2>5. (IF issues[i].status = "resolved" THEN "Regression" ELSE "None") \in NotifyKinds
      BY DEF NotifyKinds
    <2>6. req[r].pc = "received"
      BY <1>2 DEF UpsertExisting
    <2>7. /\ issues' \in [IssueIds -> Issue]
          /\ req' \in [Requests -> Request] /\ \A s \in Requests : HoldsByStage(req'[s])
      BY <2>1, <2>2, <2>3, <2>4, <2>5, <2>6, TypeUpserted
    <2> QED
      BY <1>2, <2>7, TypeParts DEF UpsertExisting
  <1>3. CASE UpsertNew(r)
    <2>1. PICK i \in unused :
              /\ Upserted(r, i, Created(req[r].fingerprint, req[r].seen_at), "NewIssue")
              /\ unused' = unused \ {i}
      BY <1>3 DEF UpsertNew
    <2>2. i \in IssueIds /\ req[r].fingerprint \in Fingerprints
      BY <1>3 DEF UpsertNew
    <2>3. Created(req[r].fingerprint, req[r].seen_at) \in Issue
      BY <1>0, <2>2, RowTypes DEF Request
    <2>4. Created(req[r].fingerprint, req[r].seen_at).status \in Statuses
      BY DEF Created, NoIssue, Statuses
    <2>5. req[r].pc = "received" /\ "NewIssue" \in NotifyKinds
      BY <1>3 DEF UpsertNew, NotifyKinds
    <2>6. /\ issues' \in [IssueIds -> Issue]
          /\ req' \in [Requests -> Request] /\ \A s \in Requests : HoldsByStage(req'[s])
      BY <2>1, <2>2, <2>3, <2>4, <2>5, TypeUpserted
    <2> QED
      BY <1>3, <2>1, <2>6, TypeParts DEF UpsertNew
  <1>4. CASE InsertEvent(r)
    <2>1. req[r].issue \in IssueIds /\ req[r].seen_at \in Nat
      BY <1>0, <1>4 DEF InsertEvent, HoldsByStage, Request
    <2>2. events' \in SUBSET Event /\ nextRow' \in Nat \ {0}
      BY <1>4, <2>1 DEF InsertEvent, Event
    <2>3. req' \in [Requests -> Request] /\ \A s \in Requests : HoldsByStage(req'[s])
      BY <1>4, NextStage DEF InsertEvent
    <2> QED
      BY <1>4, <2>2, <2>3, TypeParts DEF InsertEvent
  <1>5. CASE CheckRate(r)
    <2>1. req' \in [Requests -> Request] /\ \A s \in Requests : HoldsByStage(req'[s])
      BY <1>5, NextStage DEF CheckRate
    <2> QED
      BY <1>5, <2>1, TypeParts DEF CheckRate
  <1>6. CASE Resurface(r)
    <2> DEFINE q == [req[r] EXCEPT !.pc = "decided", !.status = "unresolved",
                                   !.notify = "Regression"]
    <2>1. req[r].issue \in IssueIds /\ issues[req[r].issue] \in Issue
      BY <1>0, <1>6 DEF Resurface, HoldsByStage
    <2>2. WithStatus(issues[req[r].issue], "unresolved") \in Issue
      BY <2>1, RowTypes DEF Statuses
    <2>3. issues' \in [IssueIds -> Issue]
      BY <1>6, <2>1, <2>2, RowUpdate DEF Resurface
    <2>4. q \in Request /\ HoldsByStage(q)
      BY <1>0, <1>6 DEF Resurface, Request, HoldsByStage, Statuses, NotifyKinds
    <2>5. req' = [req EXCEPT ![r] = q]
      BY <1>6 DEF Resurface
    <2> HIDE DEF q
    <2>6. req' \in [Requests -> Request] /\ \A s \in Requests : HoldsByStage(req'[s])
      BY <2>4, <2>5, RequestUpdate
    <2> QED
      BY <1>6, <2>3, <2>6, TypeParts DEF Resurface
  <1>7. CASE Dispatch(r)
    <2> DEFINE q == [NoRequest EXCEPT !.pc = "done", !.tries = req[r].tries]
    <2>1. q \in Request /\ HoldsByStage(q)
      BY <1>0 DEF NoRequest, Request, HoldsByStage, Null, NotifyKinds
    <2>2. req' = [req EXCEPT ![r] = q]
      BY <1>7 DEF Dispatch
    <2> HIDE DEF q
    <2>3. req' \in [Requests -> Request] /\ \A s \in Requests : HoldsByStage(req'[s])
      BY <2>1, <2>2, RequestUpdate
    <2>4. notices' \in [IssueIds -> Nat]
      BY <1>7 DEF Dispatch
    <2> QED
      BY <1>7, <2>3, <2>4, TypeParts DEF Dispatch
  <1>8. CASE Busy(r)
    <2> DEFINE q == [NoRequest EXCEPT !.pc = "deferred",
                                      !.fingerprint = req[r].fingerprint,
                                      !.tries = req[r].tries]
    <2>1. q \in Request /\ HoldsByStage(q)
      BY <1>0, <1>8 DEF Busy, NoRequest, Request, HoldsByStage, Null, NotifyKinds
    <2>2. req' = [req EXCEPT ![r] = q]
      BY <1>8 DEF Busy
    <2> HIDE DEF q
    <2>3. req' \in [Requests -> Request] /\ \A s \in Requests : HoldsByStage(req'[s])
      BY <2>1, <2>2, RequestUpdate
    <2> QED
      BY <1>8, <2>3, TypeParts DEF Busy
  <1>9. CASE Fail(r)
    <2> DEFINE q == [NoRequest EXCEPT !.pc = "failed", !.tries = req[r].tries]
    <2>1. q \in Request /\ HoldsByStage(q)
      BY <1>0 DEF NoRequest, Request, HoldsByStage, Null, NotifyKinds
    <2>2. req' = [req EXCEPT ![r] = q]
      BY <1>9 DEF Fail
    <2> HIDE DEF q
    <2>3. req' \in [Requests -> Request] /\ \A s \in Requests : HoldsByStage(req'[s])
      BY <2>1, <2>2, RequestUpdate
    <2> QED
      BY <1>9, <2>3, TypeParts DEF Fail
  <1> QED
    BY <1>1, <1>2, <1>3, <1>4, <1>5, <1>6, <1>7, <1>8, <1>9 DEF IngestStep

(* The users' actions keep it: one row changes, or two in a merge.         *)
LEMMA TypeUser ==
    ASSUME TypeOK, UserStep
    PROVE  TypeOK'
  <1> USE DEF TypeOK
  <1>0. PICK i \in IssueIds :
            \/ Resolve(i)
            \/ Unresolve(i)
            \/ \E spec \in MuteSpecs(now) : Mute(i, spec)
            \/ \E fp \in Fingerprints : Rename(i, fp)
            \/ \E j \in IssueIds : Merge(i, j)
    BY DEF UserStep
  <1>1. issues[i] \in Issue /\ now \in Nat
    OBVIOUS
  <1>2. ASSUME NEW s \in Statuses, SetStatus(i, s) PROVE TypeOK'
    <2>1. issues' \in [IssueIds -> Issue]
      BY <1>1, <1>2, RowTypes, RowUpdate DEF SetStatus
    <2> QED
      BY <1>2, <2>1, TypeParts DEF SetStatus, HoldsByStage
  <1>3. ASSUME NEW spec \in MuteSpecs(now), Mute(i, spec) PROVE TypeOK'
    <2>1. issues' \in [IssueIds -> Issue]
      BY <1>1, <1>3, RowTypes, RowUpdate DEF Mute
    <2> QED
      BY <1>3, <2>1, TypeParts DEF Mute, HoldsByStage
  <1>4. ASSUME NEW fp \in Fingerprints, Rename(i, fp) PROVE TypeOK'
    <2>1. [issues[i] EXCEPT !.fingerprint = fp] \in Issue
      BY <1>1 DEF Issue
    <2>2. issues' = [issues EXCEPT ![i] = [issues[i] EXCEPT !.fingerprint = fp]]
      BY <1>4 DEF Rename
    <2>3. issues' \in [IssueIds -> Issue]
      BY <2>1, <2>2, RowUpdate
    <2> QED
      BY <1>4, <2>3, TypeParts DEF Rename, HoldsByStage
  <1>5. ASSUME NEW j \in IssueIds, Merge(i, j) PROVE TypeOK'
    <2>1. issues[j] \in Issue /\ NoIssue \in Issue
      BY DEF NoIssue, Issue, Null
    <2>2. issues[j].fingerprint \in Fingerprints \cup {Null}
      BY <2>1 DEF Issue
    <2>3. Merged(issues[i], issues[j], issues[j].fingerprint) \in Issue
      <3>1. issues[i].event_count + issues[j].event_count \in Nat
        BY <1>1, <2>1 DEF Issue
      <3>2. Min2(issues[i].first_seen, issues[j].first_seen) \in Nat
        BY <1>1, <2>1 DEF Issue, Min2
      <3>3. Max2(issues[i].last_seen, issues[j].last_seen) \in Nat
        BY <1>1, <2>1 DEF Issue, Max2
      <3> QED
        BY <1>1, <2>2, <3>1, <3>2, <3>3 DEF Merged, Issue
    <2>4. issues' \in [IssueIds -> Issue]
      BY <1>5, <2>1, <2>3 DEF Merge
    <2>5. events' \in SUBSET Event
      BY <1>5 DEF Merge, Repointed, Event
    <2> QED
      BY <1>5, <2>4, <2>5, TypeParts DEF Merge, HoldsByStage
  <1> QED
    BY <1>0, <1>2, <1>3, <1>4, <1>5 DEF Resolve, Unresolve, Statuses

(* So do the scheduler's sweeps, the clock and a crash.                    *)
LEMMA TypeSystem ==
    ASSUME TypeOK, Crash \/ ClearExpiredMutes \/ PruneBatch \/ DeleteOlderThan \/ Tick
    PROVE  TypeOK'
  <1> USE DEF TypeOK
  <1>1. CASE Crash
    <2>1. ASSUME NEW r \in Requests
          PROVE  LET q == [NoRequest EXCEPT !.pc = "failed", !.tries = req[r].tries]
                 IN  q \in Request /\ HoldsByStage(q)
      <3>1. req[r].tries \in Nat
        BY DEF Request
      <3> QED
        BY <3>1 DEF NoRequest, Request, HoldsByStage, Null, NotifyKinds
    <2>2. \A r \in Requests : req[r] \in Request /\ HoldsByStage(req[r])
      BY DEF HoldsByStage
    <2>3. \A r \in Requests : req'[r] \in Request /\ HoldsByStage(req'[r])
      BY <1>1, <2>1, <2>2 DEF Crash
    <2>4. req' \in [Requests -> Request]
      BY <1>1, <2>3 DEF Crash
    <2> QED
      BY <1>1, <2>3, <2>4, TypeParts DEF Crash
  <1>2. CASE ClearExpiredMutes
    <2>1. \A i \in IssueIds : WithStatus(issues[i], "unresolved") \in Issue
      BY RowTypes DEF Statuses
    <2>2. issues' \in [IssueIds -> Issue]
      BY <1>2, <2>1 DEF ClearExpiredMutes
    <2> QED
      BY <1>2, <2>2, TypeParts DEF ClearExpiredMutes, HoldsByStage
  <1>3. CASE PruneBatch
    <2>1. events' \in SUBSET Event
      BY <1>3 DEF PruneBatch
    <2> QED
      BY <1>3, <2>1, TypeParts DEF PruneBatch, HoldsByStage
  <1>4. CASE DeleteOlderThan
    <2>1. events' \in SUBSET Event
      BY <1>4 DEF DeleteOlderThan
    <2> QED
      BY <1>4, <2>1, TypeParts DEF DeleteOlderThan, HoldsByStage
  <1>5. CASE Tick
    <2>1. now' \in 1..MaxTime
      BY <1>5, BoundsAssumption DEF Tick
    <2> QED
      BY <1>5, <2>1, TypeParts DEF Tick, HoldsByStage
  <1> QED
    BY <1>1, <1>2, <1>3, <1>4, <1>5

(* The type invariant is inductive.                                        *)
LEMMA TypeNext == TypeOK /\ [Next]_vars => TypeOK'
  <1> SUFFICES ASSUME TypeOK, [Next]_vars PROVE TypeOK'
    OBVIOUS
  <1>1. CASE UNCHANGED vars
    BY <1>1 DEF vars, TypeOK
  <1>2. CASE Next
    BY <1>2, TypeIngest, TypeUser, TypeSystem DEF Next
  <1> QED
    BY <1>1, <1>2

(* Every reachable state is well typed, and what a request holds between   *)
(* its transactions fits the stage it reached (ingest_normalized).         *)
THEOREM TypeCorrect == Spec => []TypeOK
  <1> QED
    BY TypeInit, TypeNext, PTL DEF Spec

-----------------------------------------------------------------------------
(* What the row updates leave alone.                                       *)
LEMMA RowEffects ==
    ASSUME NEW row \in Issue
    PROVE  /\ \A s \in Statuses : /\ WithStatus(row, s).status = s
                                  /\ WithStatus(row, s).fingerprint = row.fingerprint
           /\ \A t \in Nat : /\ Bumped(row, t).fingerprint = row.fingerprint
                             /\ Bumped(row, t).status = "absent" <=> row.status = "absent"
           /\ \A f, t : /\ Created(f, t).status = "unresolved"
                        /\ Created(f, t).fingerprint = f
           /\ \A spec, t : /\ Muted(row, spec, t).status = "muted"
                           /\ Muted(row, spec, t).fingerprint = row.fingerprint
           /\ \A src, f : /\ Merged(row, src, f).status = row.status
                          /\ Merged(row, src, f).fingerprint = f
  <1>1. \A s \in Statuses : /\ WithStatus(row, s).status = s
                            /\ WithStatus(row, s).fingerprint = row.fingerprint
    BY DEF WithStatus, WithoutMute, Issue
  <1>2. \A t \in Nat : /\ Bumped(row, t).fingerprint = row.fingerprint
                       /\ Bumped(row, t).status = "absent" <=> row.status = "absent"
    BY DEF Bumped, Issue
  <1>3. \A f, t : Created(f, t).status = "unresolved" /\ Created(f, t).fingerprint = f
    BY DEF Created, NoIssue
  <1>4. \A spec, t : /\ Muted(row, spec, t).status = "muted"
                     /\ Muted(row, spec, t).fingerprint = row.fingerprint
    BY DEF Muted, Issue
  <1>5. \A src, f : /\ Merged(row, src, f).status = row.status
                    /\ Merged(row, src, f).fingerprint = f
    BY DEF Merged, Issue
  <1> QED
    BY <1>1, <1>2, <1>3, <1>4, <1>5

(* A step creates one row under a fingerprint nobody holds, or renames one *)
(* to such a fingerprint, or moves a deleted row's fingerprint to another, *)
(* or leaves every row its fingerprint.                                    *)
KeepsNames == \A k \in IssueIds : /\ Exists(k)' <=> Exists(k)
                                  /\ issues'[k].fingerprint = issues[k].fingerprint

Takes(i, fp) ==
    /\ Holder(fp) = {}
    /\ Exists(i)' /\ issues'[i].fingerprint = fp
    /\ \A k \in IssueIds \ {i} : issues'[k] = issues[k]

Absorbs(i, j) ==
    /\ i # j /\ Exists(i) /\ Exists(j)
    /\ Exists(i)' /\ issues'[i].fingerprint = issues[j].fingerprint /\ ~Exists(j)'
    /\ \A k \in IssueIds \ {i, j} : issues'[k] = issues[k]

(* How a step may change which issue has which fingerprint: not at all,    *)
(* one issue takes a free fingerprint, or a merge passes one on.           *)
LEMMA NamingSteps ==
    ASSUME TypeOK, [Next]_vars
    PROVE  \/ KeepsNames
           \/ \E i \in IssueIds, fp \in Fingerprints : Takes(i, fp)
           \/ \E i, j \in IssueIds : Merge(i, j) /\ Absorbs(i, j)
  <1> USE DEF TypeOK
  <1>0. \A i \in IssueIds : issues[i] \in Issue
    OBVIOUS
  <1>1. CASE UNCHANGED issues
    BY <1>1 DEF KeepsNames, Exists
  <1>2. ASSUME NEW r \in Requests, UpsertExisting(r) PROVE KeepsNames
    <2>1. PICK i \in Holder(req[r].fingerprint) :
              Upserted(r, i, Bumped(issues[i], req[r].seen_at),
                  IF issues[i].status = "resolved" THEN "Regression" ELSE "None")
      BY <1>2 DEF UpsertExisting
    <2>2. i \in IssueIds /\ req[r].seen_at \in Nat
      BY DEF Holder, Request
    <2>3. issues' = [issues EXCEPT ![i] = Bumped(issues[i], req[r].seen_at)]
      BY <2>1 DEF Upserted
    <2> QED
      BY <1>0, <2>2, <2>3, RowEffects DEF KeepsNames, Exists
  <1>3. ASSUME NEW r \in Requests, UpsertNew(r)
        PROVE  \E i \in IssueIds, fp \in Fingerprints : Takes(i, fp)
    <2>1. PICK i \in unused :
              Upserted(r, i, Created(req[r].fingerprint, req[r].seen_at), "NewIssue")
      BY <1>3 DEF UpsertNew
    <2>2. /\ req[r].fingerprint \in Fingerprints /\ Holder(req[r].fingerprint) = {}
          /\ issues' = [issues EXCEPT ![i] = Created(req[r].fingerprint, req[r].seen_at)]
      BY <1>3, <2>1 DEF UpsertNew, Upserted
    <2>3. /\ Created(req[r].fingerprint, req[r].seen_at).status = "unresolved"
          /\ Created(req[r].fingerprint, req[r].seen_at).fingerprint = req[r].fingerprint
      BY <1>0, RowEffects DEF Created, NoIssue
    <2>4. Takes(i, req[r].fingerprint)
      BY <2>2, <2>3 DEF Takes, Exists
    <2> QED
      BY <2>2, <2>4
  <1>4. ASSUME NEW r \in Requests, Resurface(r) PROVE KeepsNames
    <2>1. req[r].issue \in IssueIds /\ Exists(req[r].issue)
      BY <1>4 DEF Resurface
    <2>2. issues' = [issues EXCEPT ![req[r].issue] =
                                       WithStatus(issues[req[r].issue], "unresolved")]
      BY <1>4 DEF Resurface
    <2> QED
      BY <1>0, <2>1, <2>2, RowEffects DEF KeepsNames, Exists, Statuses
  <1>5. ASSUME NEW i \in IssueIds, NEW s \in Statuses, SetStatus(i, s) PROVE KeepsNames
    BY <1>0, <1>5, RowEffects DEF SetStatus, KeepsNames, Exists, Statuses
  <1>6. ASSUME NEW i \in IssueIds, NEW spec \in MuteSpecs(now), Mute(i, spec)
        PROVE  KeepsNames
    BY <1>0, <1>6, RowEffects DEF Mute, KeepsNames, Exists
  <1>7. ASSUME NEW i \in IssueIds, NEW fp \in Fingerprints, Rename(i, fp)
        PROVE  Takes(i, fp)
    <2>1. issues' = [issues EXCEPT ![i] = [issues[i] EXCEPT !.fingerprint = fp]]
      BY <1>7 DEF Rename
    <2>2. issues'[i].fingerprint = fp /\ issues'[i].status = issues[i].status
      BY <1>0, <2>1 DEF Issue
    <2> QED
      BY <1>7, <2>1, <2>2 DEF Rename, Takes, Exists
  <1>8. ASSUME NEW i \in IssueIds, NEW j \in IssueIds, Merge(i, j) PROVE Absorbs(i, j)
    <2>1. issues'[i] = Merged(issues[i], issues[j], issues[j].fingerprint)
      BY <1>8 DEF Merge
    <2>2. issues'[j] = NoIssue /\ \A k \in IssueIds \ {i, j} : issues'[k] = issues[k]
      BY <1>8 DEF Merge
    <2> QED
      BY <1>0, <1>8, <2>1, <2>2, RowEffects DEF Merge, Absorbs, Exists, NoIssue
  <1>9. CASE ClearExpiredMutes
    BY <1>0, <1>9, RowEffects DEF ClearExpiredMutes, Expired, KeepsNames, Exists, Statuses
  <1> QED
    BY <1>1, <1>2, <1>3, <1>4, <1>5, <1>6, <1>7, <1>8, <1>9
       DEF Next, vars, IngestStep, UserStep, Receive, InsertEvent, CheckRate, Dispatch,
           Busy, Fail, Crash, Resolve, Unresolve, Statuses, PruneBatch,
           DeleteOlderThan, Tick

(* No two issues of the project share a fingerprint, however ingestion,    *)
(* renames and merges interleave: the upsert's and the rename's check and  *)
(* write are one transaction, and a merge frees the name it takes over.    *)
THEOREM UniqueFingerprints == Spec => []UniqueFingerprint
  <1>1. Init => UniqueFingerprint
    BY DEF Init, UniqueFingerprint, Exists, NoIssue
  <1>2. TypeOK /\ UniqueFingerprint /\ [Next]_vars => UniqueFingerprint'
    <2> SUFFICES ASSUME TypeOK, UniqueFingerprint, [Next]_vars
                 PROVE  UniqueFingerprint'
      OBVIOUS
    <2>1. CASE KeepsNames
      BY <2>1 DEF KeepsNames, UniqueFingerprint
    <2>2. ASSUME NEW i \in IssueIds, NEW fp \in Fingerprints, Takes(i, fp)
          PROVE  UniqueFingerprint'
      BY <2>2 DEF Takes, UniqueFingerprint, Holder, Exists
    <2>3. ASSUME NEW i \in IssueIds, NEW j \in IssueIds, Absorbs(i, j)
          PROVE  UniqueFingerprint'
      BY <2>3 DEF Absorbs, UniqueFingerprint, Exists
    <2> QED
      BY <2>1, <2>2, <2>3, NamingSteps
  <1> QED
    BY <1>1, <1>2, TypeCorrect, PTL DEF Spec

-----------------------------------------------------------------------------
(* The events table changes by an insert, by a merge, or by a deletion.    *)
LEMMA EventSteps ==
    ASSUME [Next]_vars
    PROVE  \/ events' \subseteq events
           \/ \E r \in Requests : InsertEvent(r)
           \/ \E i, j \in IssueIds : Merge(i, j)
  BY DEF Next, vars, IngestStep, UserStep, Receive, UpsertExisting, UpsertNew, CheckRate,
         Resurface, Dispatch, Busy, Fail, Crash, Resolve, Unresolve, SetStatus, Mute,
         Rename, ClearExpiredMutes, PruneBatch, DeleteOlderThan, Tick

(* Only a merge deletes an issue.                                          *)
LEMMA IssuesStay ==
    ASSUME TypeOK, [Next]_vars
    PROVE  \/ \A k \in IssueIds : Exists(k) => Exists(k)'
           \/ \E i, j \in IssueIds : Merge(i, j) /\ Absorbs(i, j)
  BY NamingSteps DEF KeepsNames, Takes, Exists

(* The invariant is inductive.                                             *)
LEMMA EventsReferNext ==
    TypeOK /\ EventsReferToIssues /\ [Next]_vars => EventsReferToIssues'
  <1> SUFFICES ASSUME TypeOK, EventsReferToIssues, [Next]_vars
               PROVE  EventsReferToIssues'
    OBVIOUS
  <1>0. \A e \in events : e.issue \in IssueIds /\ Exists(e.issue)
    BY DEF TypeOK, Event, EventsReferToIssues
  <1>1. ASSUME NEW i \in IssueIds, NEW j \in IssueIds, Merge(i, j)
        PROVE  EventsReferToIssues'
    <2>1. \A e \in events' : e.issue # j /\ (e.issue = i \/ e \in events)
      BY <1>1 DEF Merge, Repointed, TypeOK, Event
    <2>2. Exists(i)' /\ \A k \in IssueIds \ {i, j} : issues'[k] = issues[k]
      BY <1>1, RowEffects DEF Merge, Exists, TypeOK
    <2> QED
      BY <1>0, <2>1, <2>2 DEF EventsReferToIssues, Exists
  <1>2. ASSUME \A k \in IssueIds : Exists(k) => Exists(k)',
               NEW r \in Requests, InsertEvent(r)
        PROVE  EventsReferToIssues'
    <2>1. Exists(req[r].issue) /\ req[r].issue \in IssueIds
      BY <1>2 DEF InsertEvent, TypeOK
    <2>2. \A e \in events' : e \in events \/ e.issue = req[r].issue
      BY <1>2 DEF InsertEvent
    <2> QED
      BY <1>0, <1>2, <2>1, <2>2 DEF EventsReferToIssues
  <1>3. ASSUME \A k \in IssueIds : Exists(k) => Exists(k)', events' \subseteq events
        PROVE  EventsReferToIssues'
    BY <1>0, <1>3 DEF EventsReferToIssues
  <1> QED
    BY <1>1, <1>2, <1>3, IssuesStay, EventSteps

(* Every stored event belongs to an issue that is there: the request whose *)
(* issue was merged away between its upsert and its insert stores nothing, *)
(* and a merge re-points every event before the row goes.                  *)
THEOREM EventsKeepTheirIssue == Spec => []EventsReferToIssues
  <1>1. Init => EventsReferToIssues
    BY DEF Init, EventsReferToIssues
  <1> QED
    BY <1>1, EventsReferNext, TypeCorrect, PTL DEF Spec

-----------------------------------------------------------------------------
(* Announcements.  A request announces an issue while it holds the         *)
(* NewIssue outcome.  At most one does, only for an id already taken, and  *)
(* none any more once the notice went out.                                 *)
Announcing(r, i) == req[r].notify = "NewIssue" /\ req[r].issue = i

AnnouncingInv ==
    /\ AnnouncedOnce
    /\ \A i \in unused : notices[i] = 0
    /\ \A r \in Requests, i \in IssueIds :
           Announcing(r, i) => i \notin unused /\ notices[i] = 0
    /\ \A r, q \in Requests, i \in IssueIds :
           Announcing(r, i) /\ Announcing(q, i) => r = q

(* A step in which nobody starts announcing and no notice goes out.        *)
LEMMA QuietStep ==
    ASSUME TypeOK, AnnouncingInv,
           \A r \in Requests, i \in IssueIds : Announcing(r, i)' => Announcing(r, i),
           UNCHANGED <<unused, notices>>
    PROVE  AnnouncingInv'
  BY DEF AnnouncingInv, AnnouncedOnce, TypeOK

(* Every step keeps AnnouncingInv.                                         *)
LEMMA AnnouncingNext == TypeOK /\ AnnouncingInv /\ [Next]_vars => AnnouncingInv'
  <1> SUFFICES ASSUME TypeOK, AnnouncingInv, [Next]_vars PROVE AnnouncingInv'
    OBVIOUS
  <1>0. \A r \in Requests : req[r] \in Request
    BY DEF TypeOK
  <1>1. CASE UNCHANGED req /\ UNCHANGED <<unused, notices>>
    BY <1>1, QuietStep DEF Announcing
  <1>2. ASSUME NEW r \in Requests, NEW q, q.notify # "NewIssue",
               req' = [req EXCEPT ![r] = q], UNCHANGED <<unused, notices>>
        PROVE  AnnouncingInv'
    BY <1>2, QuietStep DEF Announcing, TypeOK
  <1>3. ASSUME NEW r \in Requests, NEW p, req' = [req EXCEPT ![r].pc = p],
               UNCHANGED <<unused, notices>>
        PROVE  AnnouncingInv'
    <2>1. \A s \in Requests : /\ req'[s].notify = req[s].notify
                              /\ req'[s].issue = req[s].issue
      BY <1>0, <1>3 DEF Request, TypeOK
    <2> QED
      BY <1>3, <2>1, QuietStep DEF Announcing
  <1>4. ASSUME NEW r \in Requests, NEW fp \in Fingerprints, Receive(r, fp)
        PROVE  AnnouncingInv'
    <2> DEFINE q == [NoRequest EXCEPT !.pc = "received", !.fingerprint = fp,
                                      !.seen_at = now, !.tries = req[r].tries + 1]
    <2>1. q.notify # "NewIssue"
      BY DEF NoRequest
    <2> QED
      BY <1>2, <1>4, <2>1 DEF Receive
  <1>5. ASSUME NEW r \in Requests, UpsertExisting(r) PROVE AnnouncingInv'
    <2>1. PICK i \in Holder(req[r].fingerprint) :
              Upserted(r, i, Bumped(issues[i], req[r].seen_at),
                  IF issues[i].status = "resolved" THEN "Regression" ELSE "None")
      BY <1>5 DEF UpsertExisting
    <2>2. req'[r].notify # "NewIssue" /\ \A s \in Requests \ {r} : req'[s] = req[s]
      BY <1>0, <2>1 DEF Upserted, Request, TypeOK
    <2> QED
      BY <1>5, <2>2, QuietStep DEF UpsertExisting, Announcing
  <1>6. ASSUME NEW r \in Requests, UpsertNew(r) PROVE AnnouncingInv'
    <2>1. PICK i \in unused :
              /\ Upserted(r, i, Created(req[r].fingerprint, req[r].seen_at), "NewIssue")
              /\ unused' = unused \ {i}
      BY <1>6 DEF UpsertNew
    <2>2. req'[r].issue = i /\ \A s \in Requests \ {r} : req'[s] = req[s]
      BY <1>0, <2>1 DEF Upserted, Request, TypeOK
    <2>3. UNCHANGED notices
      BY <1>6 DEF UpsertNew
    <2> QED
      BY <2>1, <2>2, <2>3 DEF AnnouncingInv, AnnouncedOnce, Announcing, TypeOK
  <1>7. ASSUME NEW r \in Requests, InsertEvent(r) PROVE AnnouncingInv'
    BY <1>3, <1>7 DEF InsertEvent
  <1>8. ASSUME NEW r \in Requests, CheckRate(r) PROVE AnnouncingInv'
    BY <1>3, <1>8 DEF CheckRate
  <1>9. ASSUME NEW r \in Requests, Resurface(r) PROVE AnnouncingInv'
    <2>1. req'[r].notify # "NewIssue" /\ \A s \in Requests \ {r} : req'[s] = req[s]
      BY <1>0, <1>9 DEF Resurface, Request, TypeOK
    <2> QED
      BY <1>9, <2>1, QuietStep DEF Resurface, Announcing
  <1>10. ASSUME NEW r \in Requests, Dispatch(r) PROVE AnnouncingInv'
    <2>1. req'[r].notify = "None" /\ \A s \in Requests \ {r} : req'[s] = req[s]
      BY <1>10 DEF Dispatch, NoRequest, TypeOK
    <2>2. UNCHANGED unused
      BY <1>10 DEF Dispatch
    <2>3. CASE UNCHANGED notices
      BY <2>1, <2>2, <2>3, QuietStep DEF Announcing
    <2>4. CASE /\ req[r].notify = "NewIssue"
               /\ notices' = [notices EXCEPT ![req[r].issue] = @ + 1]
      <3>1. PICK i \in IssueIds : i = req[r].issue
        BY <1>10 DEF Dispatch, TypeOK
      <3>2. Announcing(r, i) /\ notices[i] = 0
        BY <2>4, <3>1 DEF AnnouncingInv, Announcing
      <3>3. notices'[i] = 1
        BY <2>4, <3>1, <3>2 DEF TypeOK
      <3>4. \A k \in IssueIds \ {i} : notices'[k] = notices[k]
        BY <2>4, <3>1 DEF TypeOK
      <3>5. \A s \in Requests : ~Announcing(s, i)'
        BY <2>1, <3>2 DEF AnnouncingInv, Announcing
      <3>6. i \notin unused
        BY <3>2 DEF AnnouncingInv
      <3>7. \A s \in Requests, k \in IssueIds : Announcing(s, k)' => Announcing(s, k)
        BY <2>1 DEF Announcing
      <3>8. AnnouncedOnce'
        BY <3>3, <3>4 DEF AnnouncingInv, AnnouncedOnce
      <3>9. \A k \in unused' : notices'[k] = 0
        BY <2>2, <3>4, <3>6 DEF AnnouncingInv, TypeOK
      <3>10. \A s \in Requests, k \in IssueIds :
                 Announcing(s, k)' => k \notin unused' /\ notices'[k] = 0
        BY <2>2, <3>4, <3>5, <3>7 DEF AnnouncingInv
      <3>11. \A s, q \in Requests, k \in IssueIds :
                 Announcing(s, k)' /\ Announcing(q, k)' => s = q
        BY <3>7 DEF AnnouncingInv
      <3> QED
        BY <3>8, <3>9, <3>10, <3>11 DEF AnnouncingInv
    <2> QED
      BY <1>10, <2>3, <2>4 DEF Dispatch
  <1>11. ASSUME NEW r \in Requests, Busy(r) \/ Fail(r) PROVE AnnouncingInv'
    <2>1. req'[r].notify = "None" /\ \A s \in Requests \ {r} : req'[s] = req[s]
      BY <1>11 DEF Busy, Fail, NoRequest, TypeOK
    <2> QED
      BY <1>11, <2>1, QuietStep DEF Busy, Fail, Announcing
  <1>12. CASE Crash
    <2>1. \A s \in Requests : req'[s] = req[s] \/ req'[s].notify = "None"
      BY <1>12 DEF Crash, NoRequest
    <2> QED
      BY <1>12, <2>1, QuietStep DEF Crash, Announcing
  <1> QED
    BY <1>1, <1>4, <1>5, <1>6, <1>7, <1>8, <1>9, <1>10, <1>11, <1>12
       DEF Next, vars, IngestStep, UserStep, Resolve, Unresolve, SetStatus, Mute,
           Rename, Merge, ClearExpiredMutes, PruneBatch, DeleteOlderThan, Tick

(* An issue is announced as new at most once, whatever races, retries,     *)
(* merges and restarts happen between its creation and the notification.   *)
THEOREM AnnouncedAtMostOnce == Spec => []AnnouncedOnce
  <1>1. Init => AnnouncingInv
    BY DEF Init, AnnouncingInv, AnnouncedOnce, Announcing, NoRequest
  <1>2. AnnouncingInv => AnnouncedOnce
    BY DEF AnnouncingInv
  <1> QED
    BY <1>1, <1>2, AnnouncingNext, TypeCorrect, PTL DEF Spec

-----------------------------------------------------------------------------
(* Mute columns, row by row.                                               *)
MuteOK(row) ==
    /\ row.status # "muted" => MuteColumns(row) = {Null}
    /\ row.status = "muted" =>
           /\ row.muted_at # Null
           /\ row.mute_threshold = Null <=> row.mute_window = Null
           /\ row.muted_until # Null => row.mute_threshold = Null

(* Each update of an issue row keeps its mute columns consistent.          *)
LEMMA MuteRows ==
    ASSUME NEW row \in Issue, MuteOK(row)
    PROVE  /\ \A s \in {"unresolved", "resolved"} : MuteOK(WithStatus(row, s))
           /\ \A t \in Nat : MuteOK(Bumped(row, t))
           /\ \A f, t : MuteOK(Created(f, t))
           /\ \A t \in Nat \ {0} : \A spec \in MuteSpecs(t) : MuteOK(Muted(row, spec, t))
           /\ \A src, f : MuteOK(Merged(row, src, f))
           /\ \A f : MuteOK([row EXCEPT !.fingerprint = f])
           /\ MuteOK(NoIssue)
  <1> USE DEF MuteOK, MuteColumns
  <1>1. \A s \in {"unresolved", "resolved"} : MuteOK(WithStatus(row, s))
    BY DEF WithStatus, WithoutMute, Issue
  <1>2. \A t \in Nat : MuteOK(Bumped(row, t))
    BY DEF Bumped, Issue
  <1>3. \A f, t : MuteOK(Created(f, t))
    BY DEF Created, NoIssue
  <1>4. \A t \in Nat \ {0} : \A spec \in MuteSpecs(t) : MuteOK(Muted(row, spec, t))
    <2> SUFFICES ASSUME NEW t \in Nat \ {0}, NEW spec \in MuteSpecs(t)
                 PROVE  MuteOK(Muted(row, spec, t))
      OBVIOUS
    <2>1. /\ spec.threshold = Null <=> spec.window = Null
          /\ spec.until # Null => spec.threshold = Null
      BY MuteAssumption DEF MuteSpecs, Null
    <2> QED
      BY <2>1 DEF Muted, Issue, Null
  <1>5. \A src, f : MuteOK(Merged(row, src, f))
    BY DEF Merged, Issue
  <1>6. \A f : MuteOK([row EXCEPT !.fingerprint = f])
    BY DEF Issue
  <1>7. MuteOK(NoIssue)
    BY DEF NoIssue
  <1> QED
    BY <1>1, <1>2, <1>3, <1>4, <1>5, <1>6, <1>7

(* Mute state is never half there: leaving the muted state by a user, by   *)
(* the sweep or by the rate check clears every mute column, and entering   *)
(* it sets exactly one of the three kinds of mute.                         *)
THEOREM MuteColumnsConsistent == Spec => []MuteBookkeeping
  <1>1. Init => MuteBookkeeping
    BY DEF Init, MuteBookkeeping, MuteColumns, NoIssue
  <1>2. TypeOK /\ MuteBookkeeping /\ [Next]_vars => MuteBookkeeping'
    <2> SUFFICES ASSUME TypeOK, MuteBookkeeping, [Next]_vars
                 PROVE  \A k \in IssueIds : MuteOK(issues'[k])
      BY DEF MuteBookkeeping, MuteOK, MuteColumns
    <2>0. \A k \in IssueIds : issues[k] \in Issue /\ MuteOK(issues[k])
      BY DEF TypeOK, MuteBookkeeping, MuteOK
    <2>a. issues \in [IssueIds -> Issue] /\ now \in Nat \ {0}
      BY DEF TypeOK
    <2>1. CASE UNCHANGED issues
      BY <2>0, <2>1
    <2>2. ASSUME NEW i \in IssueIds, NEW row, MuteOK(row),
                 issues' = [issues EXCEPT ![i] = row]
          PROVE  \A k \in IssueIds : MuteOK(issues'[k])
      BY <2>0, <2>a, <2>2
    <2>3. ASSUME NEW r \in Requests, UpsertExisting(r)
          PROVE  \A k \in IssueIds : MuteOK(issues'[k])
      <3>1. PICK i \in Holder(req[r].fingerprint) :
                issues' = [issues EXCEPT ![i] = Bumped(issues[i], req[r].seen_at)]
        BY <2>3 DEF UpsertExisting, Upserted
      <3>2. i \in IssueIds /\ req[r].seen_at \in Nat
        BY DEF Holder, TypeOK, Request
      <3>3. MuteOK(Bumped(issues[i], req[r].seen_at))
        BY <2>0, <3>2, MuteRows
      <3> QED
        BY <2>2, <3>1, <3>2, <3>3
    <2>4. ASSUME NEW r \in Requests, UpsertNew(r)
          PROVE  \A k \in IssueIds : MuteOK(issues'[k])
      <3>1. PICK i \in unused :
                issues' = [issues EXCEPT ![i] = Created(req[r].fingerprint, req[r].seen_at)]
        BY <2>4 DEF UpsertNew, Upserted
      <3>2. i \in IssueIds
        BY DEF TypeOK
      <3>3. MuteOK(Created(req[r].fingerprint, req[r].seen_at))
        BY <2>0, <3>2, MuteRows
      <3> QED
        BY <2>2, <3>1, <3>2, <3>3
    <2>5. ASSUME NEW r \in Requests, Resurface(r)
          PROVE  \A k \in IssueIds : MuteOK(issues'[k])
      <3>1. req[r].issue \in IssueIds
        BY <2>5 DEF Resurface, TypeOK
      <3>2. MuteOK(WithStatus(issues[req[r].issue], "unresolved"))
        BY <2>0, <3>1, MuteRows
      <3> QED
        BY <2>2, <2>5, <3>1, <3>2 DEF Resurface
    <2>6. ASSUME NEW i \in IssueIds, Resolve(i) \/ Unresolve(i)
          PROVE  \A k \in IssueIds : MuteOK(issues'[k])
      <3>1. /\ MuteOK(WithStatus(issues[i], "resolved"))
            /\ MuteOK(WithStatus(issues[i], "unresolved"))
        BY <2>0, MuteRows
      <3> QED
        BY <2>2, <2>6, <3>1 DEF Resolve, Unresolve, SetStatus
    <2>7. ASSUME NEW i \in IssueIds, NEW spec \in MuteSpecs(now), Mute(i, spec)
          PROVE  \A k \in IssueIds : MuteOK(issues'[k])
      <3>1. MuteOK(Muted(issues[i], spec, now))
        BY <2>0, <2>a, MuteRows
      <3> QED
        BY <2>2, <2>7, <3>1 DEF Mute
    <2>8. ASSUME NEW i \in IssueIds, NEW fp \in Fingerprints, Rename(i, fp)
          PROVE  \A k \in IssueIds : MuteOK(issues'[k])
      <3>1. MuteOK([issues[i] EXCEPT !.fingerprint = fp])
        BY <2>0, MuteRows
      <3>2. issues' = [issues EXCEPT ![i] = [issues[i] EXCEPT !.fingerprint = fp]]
        BY <2>8 DEF Rename
      <3> QED
        BY <2>2, <3>1, <3>2
    <2>9. ASSUME NEW i \in IssueIds, NEW j \in IssueIds, Merge(i, j)
          PROVE  \A k \in IssueIds : MuteOK(issues'[k])
      <3>1. /\ MuteOK(Merged(issues[i], issues[j], issues[j].fingerprint))
            /\ MuteOK(NoIssue)
        BY <2>0, MuteRows
      <3> QED
        BY <2>0, <2>9, <2>a, <3>1 DEF Merge
    <2>10. CASE ClearExpiredMutes
      <3>1. \A k \in IssueIds : MuteOK(WithStatus(issues[k], "unresolved"))
        BY <2>0, MuteRows
      <3> QED
        BY <2>0, <2>10, <3>1 DEF ClearExpiredMutes
    <2> QED
      BY <2>1, <2>3, <2>4, <2>5, <2>6, <2>7, <2>8, <2>9, <2>10
         DEF Next, vars, IngestStep, UserStep, Receive, InsertEvent, CheckRate, Dispatch,
             Busy, Fail, Crash, PruneBatch, DeleteOlderThan, Tick
  <1> QED
    BY <1>1, <1>2, TypeCorrect, PTL DEF Spec

-----------------------------------------------------------------------------
(* The event counter.  To show that a new issue starts from nothing, the   *)
(* invariant adds that an id not yet drawn has no row and no request on    *)
(* its way to it; the events table is finite.                              *)
CountInv ==
    /\ CountCoversStored
    /\ EventsReferToIssues
    /\ IsFiniteSet(events)
    /\ \A i \in unused : ~Exists(i) /\ AboutToInsert(i) = {}

(* The counted sets are finite, so their sizes are natural numbers.        *)
LEMMA CountFinite ==
    ASSUME IsFiniteSet(events), NEW i
    PROVE  /\ IsFiniteSet(EventsOf(i)) /\ Cardinality(EventsOf(i)) \in Nat
           /\ IsFiniteSet(AboutToInsert(i)) /\ Cardinality(AboutToInsert(i)) \in Nat
  <1>1. EventsOf(i) \in SUBSET events /\ AboutToInsert(i) \in SUBSET Requests
    BY DEF EventsOf, AboutToInsert
  <1>2. IsFiniteSet(EventsOf(i)) /\ IsFiniteSet(AboutToInsert(i))
    BY <1>1, NamesAssumption, FS_Subset
  <1> QED
    BY <1>2, FS_CardinalityType

(* The image of a finite set of events under a map is no larger.           *)
LEMMA ImageBound ==
    ASSUME NEW S, IsFiniteSet(S), NEW f, f = [x \in S |-> f[x]]
    PROVE  LET T == {f[x] : x \in S}
           IN  IsFiniteSet(T) /\ Cardinality(T) =< Cardinality(S)
  <1> DEFINE T == {f[x] : x \in S}
  <1>1. f \in Surjection(S, T)
    BY DEF Surjection
  <1> HIDE DEF T
  <1>2. IsFiniteSet(T) /\ Cardinality(T) =< Cardinality(S)
    BY <1>1, FS_Surjection
  <1> QED
    BY <1>2 DEF T

(* Two sets that shrink keep their sizes below a bound that does not.      *)
LEMMA Shrinking ==
    ASSUME NEW A, NEW B, IsFiniteSet(A), IsFiniteSet(B),
           NEW A1 \in SUBSET A, NEW B1 \in SUBSET B,
           NEW c \in Nat, NEW c1 \in Nat, c =< c1,
           Cardinality(A) + Cardinality(B) =< c
    PROVE  Cardinality(A1) + Cardinality(B1) =< c1
  <1>1. /\ Cardinality(A1) =< Cardinality(A) /\ IsFiniteSet(A1)
        /\ Cardinality(B1) =< Cardinality(B) /\ IsFiniteSet(B1)
    BY FS_Subset
  <1>2. /\ Cardinality(A) \in Nat /\ Cardinality(A1) \in Nat
        /\ Cardinality(B) \in Nat /\ Cardinality(B1) \in Nat
    BY <1>1, FS_CardinalityType
  <1> QED
    BY <1>1, <1>2

(* Covered(k): issue k is fine in the next state.                          *)
Covered(k) ==
    Exists(k) => Cardinality(EventsOf(k)) + Cardinality(AboutToInsert(k))
                     =< issues[k].event_count

(* A counter still covers its events when neither the events nor the       *)
(* pending insertions grow and it does not fall.                           *)
LEMMA StaysCovered ==
    ASSUME TypeOK, TypeOK', CountInv, NEW k \in IssueIds,
           Exists(k)' => Exists(k), EventsOf(k)' \subseteq EventsOf(k),
           AboutToInsert(k)' \subseteq AboutToInsert(k),
           issues'[k].event_count >= issues[k].event_count
    PROVE  Covered(k)'
  <1> SUFFICES ASSUME Exists(k)'
               PROVE  Cardinality(EventsOf(k)') + Cardinality(AboutToInsert(k)')
                          =< issues'[k].event_count
    BY DEF Covered
  <1>1. /\ IsFiniteSet(EventsOf(k)) /\ IsFiniteSet(AboutToInsert(k))
        /\ Cardinality(EventsOf(k)) + Cardinality(AboutToInsert(k)) =< issues[k].event_count
    BY CountFinite DEF CountInv, CountCoversStored
  <1>2. issues[k].event_count \in Nat /\ issues'[k].event_count \in Nat
    BY DEF TypeOK, Issue
  <1> QED
    BY <1>1, <1>2, Shrinking

(* Upserts: issue i gains one on the counter and one request.              *)
LEMMA CountUpsert ==
    ASSUME TypeOK, TypeOK', CountInv, NEW r \in Requests, NEW i \in IssueIds, NEW row, NEW kind,
           req[r].pc = "received", Upserted(r, i, row, kind), events' = events,
           \/ Exists(i) /\ row.event_count = issues[i].event_count + 1
           \/ i \in unused /\ row.event_count = 1
    PROVE  \A k \in IssueIds : Covered(k)'
  <1>0. issues \in [IssueIds -> Issue] /\ req \in [Requests -> Request]
    BY DEF TypeOK
  <1>1. \A s \in Requests \ {r} : req'[s] = req[s]
    BY <1>0 DEF Upserted
  <1>2. req'[r].issue = i /\ req'[r].pc = "upserted"
    BY <1>0 DEF Upserted, Request
  <1>3. ASSUME NEW k \in IssueIds, k # i PROVE Covered(k)'
    <2>1. issues'[k] = issues[k]
      BY <1>0, <1>3 DEF Upserted
    <2>2. EventsOf(k)' = EventsOf(k)
      BY DEF EventsOf
    <2>3. AboutToInsert(k)' \subseteq AboutToInsert(k)
      BY <1>1, <1>2, <1>3 DEF AboutToInsert
    <2>4. issues[k].event_count \in Nat
      BY <1>0 DEF Issue
    <2> QED
      BY <2>1, <2>2, <2>3, <2>4, StaysCovered DEF Exists
  <1>4. Covered(i)'
    <2>1. issues'[i].event_count = row.event_count
      BY <1>0 DEF Upserted
    <2>2. EventsOf(i)' = EventsOf(i)
      BY DEF EventsOf
    <2>3. AboutToInsert(i)' = AboutToInsert(i) \cup {r} /\ r \notin AboutToInsert(i)
      BY <1>1, <1>2 DEF AboutToInsert
    <2>4. /\ IsFiniteSet(EventsOf(i)) /\ IsFiniteSet(AboutToInsert(i))
          /\ Cardinality(EventsOf(i)) \in Nat /\ Cardinality(AboutToInsert(i)) \in Nat
      BY CountFinite DEF CountInv
    <2>5. Cardinality(AboutToInsert(i)') = Cardinality(AboutToInsert(i)) + 1
      BY <2>3, <2>4, FS_AddElement
    <2>6. CASE Exists(i) /\ row.event_count = issues[i].event_count + 1
      <3>1. Cardinality(EventsOf(i)) + Cardinality(AboutToInsert(i)) =< issues[i].event_count
        BY <2>6 DEF CountInv, CountCoversStored
      <3>2. issues[i].event_count \in Nat
        BY <1>0 DEF Issue
      <3> QED
        BY <2>1, <2>2, <2>4, <2>5, <2>6, <3>1, <3>2 DEF Covered
    <2>7. CASE i \in unused /\ row.event_count = 1
      <3>1. EventsOf(i) = {} /\ AboutToInsert(i) = {}
        BY <2>7 DEF CountInv, EventsReferToIssues, EventsOf
      <3> QED
        BY <2>1, <2>2, <2>5, <2>7, <3>1, FS_EmptySet DEF Covered
    <2> QED
      BY <2>6, <2>7
  <1> QED
    BY <1>3, <1>4

(* An insert: issue i gains one event and loses one request.               *)
LEMMA CountInsert ==
    ASSUME TypeOK, TypeOK', CountInv, NEW r \in Requests, InsertEvent(r)
    PROVE  \A k \in IssueIds : Covered(k)'
  <1>0. /\ req \in [Requests -> Request] /\ UNCHANGED issues
        /\ \A k \in IssueIds : issues[k].event_count \in Nat
    BY DEF TypeOK, InsertEvent, Issue
  <1>1. PICK i \in IssueIds : i = req[r].issue
    BY DEF TypeOK, InsertEvent
  <1> DEFINE e == [row |-> nextRow, issue |-> i, received_at |-> req[r].seen_at]
  <1>2. events' = events \cup {e} /\ e.issue = i
    BY <1>1 DEF InsertEvent
  <1>3. \A s \in Requests \ {r} : req'[s] = req[s]
    BY <1>0 DEF InsertEvent
  <1>4. req'[r].pc = "inserted" /\ req[r].pc = "upserted"
    BY <1>0 DEF InsertEvent, Request
  <1> HIDE DEF e
  <1>5. ASSUME NEW k \in IssueIds, k # i PROVE Covered(k)'
    <2>1. EventsOf(k)' \subseteq EventsOf(k)
      BY <1>2, <1>5 DEF EventsOf
    <2>2. AboutToInsert(k)' \subseteq AboutToInsert(k)
      BY <1>3, <1>4 DEF AboutToInsert
    <2> QED
      BY <1>0, <2>1, <2>2, StaysCovered DEF Exists
  <1>6. Covered(i)'
    <2>1. EventsOf(i)' = EventsOf(i) \cup {e}
      BY <1>2 DEF EventsOf
    <2>2. AboutToInsert(i)' = AboutToInsert(i) \ {r} /\ r \in AboutToInsert(i)
      BY <1>1, <1>3, <1>4 DEF AboutToInsert
    <2>3. /\ IsFiniteSet(EventsOf(i)) /\ IsFiniteSet(AboutToInsert(i))
          /\ Cardinality(EventsOf(i)) \in Nat /\ Cardinality(AboutToInsert(i)) \in Nat
      BY CountFinite DEF CountInv
    <2>4. Cardinality(EventsOf(i)') =< Cardinality(EventsOf(i)) + 1
          /\ Cardinality(EventsOf(i)') \in Nat
      <3>1. Cardinality(EventsOf(i) \cup {e}) =
                IF e \in EventsOf(i) THEN Cardinality(EventsOf(i))
                ELSE Cardinality(EventsOf(i)) + 1
        BY <2>3, FS_AddElement
      <3> QED
        BY <2>1, <2>3, <3>1
    <2>5. Cardinality(AboutToInsert(i)') = Cardinality(AboutToInsert(i)) - 1
      BY <2>2, <2>3, FS_RemoveElement
    <2>6. Exists(i)' => Cardinality(EventsOf(i)) + Cardinality(AboutToInsert(i))
                            =< issues[i].event_count
      BY <1>0 DEF CountInv, CountCoversStored, Exists
    <2> QED
      BY <1>0, <2>3, <2>4, <2>5, <2>6 DEF Covered
  <1> QED
    BY <1>5, <1>6

(* A merge: the target takes over the source's counter and its events; the *)
(* source's requests are left with no row to insert under.                 *)
LEMMA CountMerge ==
    ASSUME TypeOK, TypeOK', CountInv, NEW i \in IssueIds, NEW j \in IssueIds, Merge(i, j)
    PROVE  /\ \A k \in IssueIds : Covered(k)'
           /\ IsFiniteSet(events')
  <1> DEFINE f == [e \in events |-> IF e.issue = j THEN [e EXCEPT !.issue = i] ELSE e]
             g == [e \in EventsOf(j) |-> f[e]]
             G == {g[e] : e \in EventsOf(j)}
  <1>0. /\ i # j /\ Exists(i) /\ Exists(j) /\ UNCHANGED req
        /\ issues[i] \in Issue /\ issues[j] \in Issue
        /\ \A e \in events : e \in Event
    BY DEF Merge, TypeOK
  <1>1. /\ issues'[i] = Merged(issues[i], issues[j], issues[j].fingerprint)
        /\ issues'[j] = NoIssue
        /\ \A k \in IssueIds \ {i, j} : issues'[k] = issues[k]
    BY DEF Merge, TypeOK
  <1>2. events' \subseteq {f[e] : e \in events} /\ \A e \in events' : e.issue # j
    BY DEF Merge, Repointed
  <1>3. \A e \in events : e.issue # j => f[e] = e
    OBVIOUS
  <1>4. \A e \in events : e.issue = j => f[e].issue = i
    BY <1>0 DEF Event
  <1>5. IsFiniteSet(events')
    <2> HIDE DEF f
    <2>1. f = [x \in events |-> f[x]]
      BY DEF f
    <2>2. IsFiniteSet({f[e] : e \in events})
      BY <2>1, ImageBound DEF CountInv
    <2> QED
      BY <1>2, <2>2, FS_Subset
  <1>6. AboutToInsert(i)' = AboutToInsert(i) /\ \A k : AboutToInsert(k)' = AboutToInsert(k)
    BY <1>0 DEF AboutToInsert
  <1>7. ASSUME NEW k \in IssueIds \ {i, j} PROVE Covered(k)'
    <2>1. EventsOf(k)' \subseteq EventsOf(k)
      <3> HIDE DEF f
      <3>1. \A d \in events' : \E e \in events : d = f[e]
        BY <1>2
      <3> QED
        BY <1>3, <1>4, <1>7, <3>1 DEF EventsOf
    <2>2. issues'[k] = issues[k] /\ issues[k].event_count \in Nat
      BY <1>1 DEF TypeOK, Issue
    <2> QED
      BY <1>6, <2>1, <2>2, StaysCovered DEF Exists
  <1>8. Covered(j)'
    BY <1>1 DEF Covered, Exists, NoIssue
  <1>9. Covered(i)'
    <2>1. EventsOf(i)' \subseteq EventsOf(i) \cup G
      <3> SUFFICES ASSUME NEW d \in EventsOf(i)'
                   PROVE  d \in EventsOf(i) \cup G
        OBVIOUS
      <3>1. PICK e \in events : d = f[e]
        BY <1>2 DEF EventsOf
      <3>2. CASE e.issue = j
        BY <3>1, <3>2 DEF EventsOf
      <3>3. CASE e.issue # j
        BY <1>3, <3>1, <3>3 DEF EventsOf
      <3> QED
        BY <3>2, <3>3
    <2>2. /\ IsFiniteSet(EventsOf(i)) /\ Cardinality(EventsOf(i)) \in Nat
          /\ IsFiniteSet(EventsOf(j)) /\ Cardinality(EventsOf(j)) \in Nat
          /\ Cardinality(AboutToInsert(i)) \in Nat /\ Cardinality(AboutToInsert(j)) \in Nat
      BY CountFinite DEF CountInv
    <2>3. IsFiniteSet(G) /\ Cardinality(G) =< Cardinality(EventsOf(j))
      <3> HIDE DEF f
      <3>1. g = [x \in EventsOf(j) |-> g[x]]
        OBVIOUS
      <3> HIDE DEF g
      <3> QED
        BY <2>2, <3>1, ImageBound
    <2> HIDE DEF G
    <2>4. /\ IsFiniteSet(EventsOf(i) \cup G)
          /\ Cardinality(EventsOf(i) \cup G) =< Cardinality(EventsOf(i)) + Cardinality(G)
      <3>1. IsFiniteSet(EventsOf(i) \cap G)
        BY <2>2, FS_Intersection
      <3>2. Cardinality(EventsOf(i) \cap G) \in Nat /\ Cardinality(G) \in Nat
        BY <2>3, <3>1, FS_CardinalityType
      <3>3. /\ IsFiniteSet(EventsOf(i) \cup G)
            /\ Cardinality(EventsOf(i) \cup G) = Cardinality(EventsOf(i)) + Cardinality(G)
                                                   - Cardinality(EventsOf(i) \cap G)
        BY <2>2, <2>3, FS_Union
      <3> QED
        BY <2>2, <3>2, <3>3
    <2>5. Cardinality(EventsOf(i)') =< Cardinality(EventsOf(i) \cup G)
          /\ IsFiniteSet(EventsOf(i)')
      BY <2>1, <2>4, FS_Subset
    <2>6. /\ Cardinality(EventsOf(i)') \in Nat /\ Cardinality(EventsOf(i) \cup G) \in Nat
          /\ Cardinality(G) \in Nat
      BY <2>3, <2>4, <2>5, FS_CardinalityType
    <2>7. /\ Cardinality(EventsOf(i)) + Cardinality(AboutToInsert(i)) =< issues[i].event_count
          /\ Cardinality(EventsOf(j)) + Cardinality(AboutToInsert(j)) =< issues[j].event_count
      BY <1>0 DEF CountInv, CountCoversStored
    <2>8. /\ issues[i].event_count \in Nat /\ issues[j].event_count \in Nat
          /\ issues'[i].event_count = issues[i].event_count + issues[j].event_count
      BY <1>0, <1>1 DEF Merged, Issue
    <2>9. Cardinality(EventsOf(i)') + Cardinality(AboutToInsert(i)') =< issues'[i].event_count
      BY <1>6, <2>2, <2>3, <2>4, <2>5, <2>6, <2>7, <2>8
    <2> QED
      BY <2>9 DEF Covered
  <1> QED
    BY <1>5, <1>7, <1>8, <1>9

(* Every other step leaves the counters alone and adds neither events nor  *)
(* requests about to insert.                                               *)
LEMMA CountOther ==
    ASSUME TypeOK, TypeOK', CountInv, [Next]_vars,
           \A r \in Requests : ~UpsertExisting(r) /\ ~UpsertNew(r) /\ ~InsertEvent(r),
           \A i, j \in IssueIds : ~Merge(i, j)
    PROVE  /\ \A k \in IssueIds : Covered(k)'
           /\ \A k \in IssueIds : /\ Exists(k)' => Exists(k)
                                  /\ AboutToInsert(k)' \subseteq AboutToInsert(k)
           /\ UNCHANGED unused
  <1>0. /\ \A k \in IssueIds : issues[k] \in Issue
        /\ \A r \in Requests : req[r] \in Request
        /\ req \in [Requests -> Request]
    BY DEF TypeOK
  <1>1. events' \subseteq events
    BY EventSteps
  <1>2. \A k \in IssueIds : /\ Exists(k)' => Exists(k)
                            /\ issues'[k].event_count = issues[k].event_count
    <2>1. CASE UNCHANGED issues
      BY <2>1 DEF Exists
    <2>2. ASSUME NEW r \in Requests, Resurface(r)
          PROVE  \A k \in IssueIds : /\ Exists(k)' => Exists(k)
                                     /\ issues'[k].event_count = issues[k].event_count
      <3>1. req[r].issue \in IssueIds
        BY <2>2 DEF Resurface, TypeOK
      <3> QED
        BY <1>0, <2>2, <3>1 DEF Resurface, Exists, WithStatus, WithoutMute, Issue, TypeOK
    <2>3. ASSUME NEW i \in IssueIds, NEW s \in Statuses, SetStatus(i, s)
          PROVE  \A k \in IssueIds : /\ Exists(k)' => Exists(k)
                                     /\ issues'[k].event_count = issues[k].event_count
      BY <1>0, <2>3 DEF SetStatus, Exists, WithStatus, WithoutMute, Issue, TypeOK
    <2>4. ASSUME NEW i \in IssueIds, NEW spec \in MuteSpecs(now), Mute(i, spec)
          PROVE  \A k \in IssueIds : /\ Exists(k)' => Exists(k)
                                     /\ issues'[k].event_count = issues[k].event_count
      BY <1>0, <2>4 DEF Mute, Exists, Muted, Issue, TypeOK
    <2>5. ASSUME NEW i \in IssueIds, NEW fp \in Fingerprints, Rename(i, fp)
          PROVE  \A k \in IssueIds : /\ Exists(k)' => Exists(k)
                                     /\ issues'[k].event_count = issues[k].event_count
      BY <1>0, <2>5 DEF Rename, Exists, Issue, TypeOK
    <2>6. CASE ClearExpiredMutes
      BY <1>0, <2>6 DEF ClearExpiredMutes, Expired, Exists, WithStatus, WithoutMute, Issue
    <2> QED
      BY <2>1, <2>2, <2>3, <2>4, <2>5, <2>6
         DEF Next, vars, IngestStep, UserStep, Receive, CheckRate, Dispatch, Busy, Fail,
             Crash, Resolve, Unresolve, Statuses, PruneBatch, DeleteOlderThan, Tick
  <1>3. \A r \in Requests : req'[r].pc = "upserted" => req'[r] = req[r]
    <2>1. CASE UNCHANGED req
      BY <2>1
    <2>2. ASSUME NEW r \in Requests, NEW fp \in Fingerprints, Receive(r, fp)
          PROVE  req'[r].pc # "upserted" /\ \A s \in Requests \ {r} : req'[s] = req[s]
      BY <1>0, <2>2 DEF Receive, NoRequest
    <2>3. ASSUME NEW r \in Requests, CheckRate(r) \/ Resurface(r)
          PROVE  req'[r].pc # "upserted" /\ \A s \in Requests \ {r} : req'[s] = req[s]
      BY <1>0, <2>3 DEF CheckRate, Resurface, Request
    <2>4. ASSUME NEW r \in Requests, Dispatch(r) \/ Busy(r) \/ Fail(r)
          PROVE  req'[r].pc # "upserted" /\ \A s \in Requests \ {r} : req'[s] = req[s]
      BY <1>0, <2>4 DEF Dispatch, Busy, Fail, NoRequest
    <2>5. CASE Crash
      BY <1>0, <2>5 DEF Crash, NoRequest
    <2> QED
      BY <2>1, <2>2, <2>3, <2>4, <2>5
         DEF Next, vars, IngestStep, UserStep, Resolve, Unresolve, SetStatus, Mute, Rename,
             ClearExpiredMutes, PruneBatch, DeleteOlderThan, Tick
  <1>4. \A k \in IssueIds : /\ AboutToInsert(k)' \subseteq AboutToInsert(k)
                            /\ EventsOf(k)' \subseteq EventsOf(k)
    BY <1>1, <1>3 DEF AboutToInsert, EventsOf
  <1>5. UNCHANGED unused
    BY DEF Next, vars, IngestStep, UserStep, Receive, CheckRate, Resurface, Dispatch,
           Busy, Fail, Crash, Resolve, Unresolve, SetStatus, Mute, Rename,
           ClearExpiredMutes, PruneBatch, DeleteOlderThan, Tick
  <1>6. \A k \in IssueIds : issues[k].event_count \in Nat
    BY <1>0 DEF Issue
  <1> QED
    BY <1>2, <1>4, <1>5, <1>6, StaysCovered

(* Every step keeps CountInv.                                              *)
LEMMA CountNext == TypeOK /\ TypeOK' /\ CountInv /\ [Next]_vars => CountInv'
  <1> SUFFICES ASSUME TypeOK, TypeOK', CountInv, [Next]_vars PROVE CountInv'
    OBVIOUS
  <1> DEFINE Fresh == \A i \in unused : ~Exists(i) /\ AboutToInsert(i) = {}
  <1>0. EventsReferToIssues'
    BY EventsReferNext DEF CountInv
  <1>1. SUFFICES (\A k \in IssueIds : Covered(k)') /\ IsFiniteSet(events') /\ Fresh'
    BY <1>0 DEF CountInv, CountCoversStored, Covered
  <1>a. /\ issues \in [IssueIds -> Issue] /\ req \in [Requests -> Request]
        /\ unused \subseteq IssueIds
    BY DEF TypeOK
  <1>2. ASSUME NEW r \in Requests, UpsertExisting(r)
        PROVE  (\A k \in IssueIds : Covered(k)') /\ IsFiniteSet(events') /\ Fresh'
    <2>1. PICK i \in Holder(req[r].fingerprint) :
              Upserted(r, i, Bumped(issues[i], req[r].seen_at),
                  IF issues[i].status = "resolved" THEN "Regression" ELSE "None")
      BY <1>2 DEF UpsertExisting
    <2>2. i \in IssueIds /\ Exists(i) /\ i \notin unused
      BY <2>1 DEF Holder, CountInv
    <2>3. Bumped(issues[i], req[r].seen_at).event_count = issues[i].event_count + 1
      BY <1>a, <2>2 DEF Bumped, Issue
    <2>4. req[r].pc = "received" /\ UNCHANGED <<events, unused>>
      BY <1>2 DEF UpsertExisting
    <2>5. \A k \in IssueIds : Covered(k)'
      BY <2>1, <2>2, <2>3, <2>4, CountUpsert
    <2>6. /\ \A k \in IssueIds \ {i} : issues'[k] = issues[k]
          /\ req'[r].issue = i /\ \A s \in Requests \ {r} : req'[s] = req[s]
      BY <1>a, <2>1 DEF Upserted, Request
    <2>7. Fresh'
      BY <1>a, <2>2, <2>4, <2>6 DEF CountInv, Exists, AboutToInsert
    <2> QED
      BY <2>4, <2>5, <2>7 DEF CountInv
  <1>3. ASSUME NEW r \in Requests, UpsertNew(r)
        PROVE  (\A k \in IssueIds : Covered(k)') /\ IsFiniteSet(events') /\ Fresh'
    <2>1. PICK i \in unused :
              /\ Upserted(r, i, Created(req[r].fingerprint, req[r].seen_at), "NewIssue")
              /\ unused' = unused \ {i}
      BY <1>3 DEF UpsertNew
    <2>2. i \in IssueIds
      BY <1>a
    <2>3. Created(req[r].fingerprint, req[r].seen_at).event_count = 1
      BY DEF Created, NoIssue
    <2>4. req[r].pc = "received" /\ UNCHANGED events
      BY <1>3 DEF UpsertNew
    <2>5. \A k \in IssueIds : Covered(k)'
      BY <2>1, <2>2, <2>3, <2>4, CountUpsert
    <2>6. /\ \A k \in IssueIds \ {i} : issues'[k] = issues[k]
          /\ req'[r].issue = i /\ \A s \in Requests \ {r} : req'[s] = req[s]
      BY <1>a, <2>1 DEF Upserted, Request
    <2>7. Fresh'
      BY <1>a, <2>1, <2>6 DEF CountInv, Exists, AboutToInsert
    <2> QED
      BY <2>4, <2>5, <2>7 DEF CountInv
  <1>4. ASSUME NEW r \in Requests, InsertEvent(r)
        PROVE  (\A k \in IssueIds : Covered(k)') /\ IsFiniteSet(events') /\ Fresh'
    <2>1. \A k \in IssueIds : Covered(k)'
      BY <1>4, CountInsert
    <2>2. IsFiniteSet(events')
      BY <1>4, FS_AddElement DEF InsertEvent, CountInv
    <2>3. req'[r].pc = "inserted" /\ \A s \in Requests \ {r} : req'[s] = req[s]
      BY <1>4, <1>a DEF InsertEvent, Request
    <2>4. UNCHANGED <<issues, unused>>
      BY <1>4 DEF InsertEvent
    <2>5. Fresh'
      BY <2>3, <2>4 DEF CountInv, Exists, AboutToInsert
    <2> QED
      BY <2>1, <2>2, <2>5
  <1>5. ASSUME NEW i \in IssueIds, NEW j \in IssueIds, Merge(i, j)
        PROVE  (\A k \in IssueIds : Covered(k)') /\ IsFiniteSet(events') /\ Fresh'
    <2>1. (\A k \in IssueIds : Covered(k)') /\ IsFiniteSet(events')
      BY <1>5, CountMerge
    <2>2. /\ Exists(i) /\ ~Exists(j)' /\ \A k \in IssueIds \ {i, j} : issues'[k] = issues[k]
          /\ UNCHANGED <<unused, req>>
      BY <1>5, <1>a DEF Merge, Exists, NoIssue
    <2>3. Fresh'
      BY <1>a, <2>2 DEF CountInv, Exists, AboutToInsert
    <2> QED
      BY <2>1, <2>3
  <1>6. CASE /\ \A r \in Requests : ~UpsertExisting(r) /\ ~UpsertNew(r) /\ ~InsertEvent(r)
             /\ \A i, j \in IssueIds : ~Merge(i, j)
    <2>1. events' \subseteq events
      BY <1>6, EventSteps
    <2>2. IsFiniteSet(events')
      BY <2>1, FS_Subset DEF CountInv
    <2>3. /\ \A k \in IssueIds : Covered(k)'
          /\ \A k \in IssueIds : /\ Exists(k)' => Exists(k)
                                 /\ AboutToInsert(k)' \subseteq AboutToInsert(k)
          /\ UNCHANGED unused
      BY <1>6, CountOther
    <2>4. Fresh'
      BY <1>a, <2>3 DEF CountInv
    <2> QED
      BY <2>2, <2>3, <2>4
  <1> QED
    BY <1>2, <1>3, <1>4, <1>5, <1>6

(* The tables start empty.                                                 *)
LEMMA CountInit == Init => CountInv
  <1> SUFFICES ASSUME Init PROVE CountInv
    OBVIOUS
  <1>1. \A i \in IssueIds : ~Exists(i) /\ AboutToInsert(i) = {}
    BY DEF Init, Exists, NoIssue, AboutToInsert, NoRequest
  <1> QED
    BY <1>1, FS_EmptySet DEF Init, CountInv, CountCoversStored, EventsReferToIssues

(* event_count never falls below what is stored and what is about to be    *)
(* stored, for any number of concurrent requests: counting happens only in *)
(* the upsert, a merge adds the counters, and retention, failed inserts    *)
(* and re-sent events only ever leave the counter above the table.         *)
THEOREM CounterCoversEvents == Spec => []CountCoversStored
  <1>1. CountInv => CountCoversStored
    BY DEF CountInv
  <1> QED
    BY <1>1, CountInit, CountNext, TypeCorrect, PTL DEF Spec
-----------------------------------------------------------------------------
(* Retention.                                                              *)

(* MayGo(e): what OnlyRetentionDeletes asks of one event in a step.        *)
MayGo(e) ==
    \/ \E f \in events' : f.row = e.row
    \/ TooOld(e)
    \/ Cardinality({f \in events : f.received_at >= e.received_at}) > Keep

(* Of the events that are not among the n most recent ones kept, each has  *)
(* more than n that are as recent: those kept and itself.                  *)
LEMMA OutsideMostRecent ==
    ASSUME NEW S \in SUBSET Event, IsFiniteSet(S), NEW n \in Nat,
           NEW K \in MostRecent(S, n), NEW e \in S \ K
    PROVE  Cardinality({f \in S : f.received_at >= e.received_at}) > n
  <1> DEFINE Later == {f \in S : f.received_at >= e.received_at}
  <1>1. /\ K \subseteq S /\ Cardinality(K) = Min2(n, Cardinality(S))
        /\ \A k \in K : k.received_at >= e.received_at
    BY DEF MostRecent
  <1>2. /\ IsFiniteSet(K) /\ Cardinality(K) \in Nat /\ Cardinality(S) \in Nat
        /\ Cardinality(K) # Cardinality(S)
    BY <1>1, FS_Subset, FS_CardinalityType
  <1>3. Cardinality(K) = n
    BY <1>1, <1>2 DEF Min2
  <1>4. IsFiniteSet(K \cup {e}) /\ Cardinality(K \cup {e}) = n + 1
    BY <1>2, <1>3, FS_AddElement
  <1>5. e.received_at >= e.received_at
    BY DEF Event
  <1>6. K \cup {e} \subseteq Later
    BY <1>1, <1>5
  <1>7. IsFiniteSet(Later)
    BY FS_Subset
  <1> HIDE DEF Later
  <1>8. Cardinality(Later) \in Nat /\ n + 1 =< Cardinality(Later)
    BY <1>4, <1>6, <1>7, FS_Subset, FS_CardinalityType
  <1> QED
    BY <1>8 DEF Later

(* A merge re-points the events of the issue it deletes to the other one,  *)
(* each under its own row id, so that the cascade finds none.              *)
LEMMA MergeKeepsRows ==
    ASSUME TypeOK, NEW i \in IssueIds, NEW j \in IssueIds, Merge(i, j), NEW e \in events
    PROVE  \E f \in events' : f.row = e.row
  <1> DEFINE f == IF e.issue = j THEN [e EXCEPT !.issue = i] ELSE e
  <1>1. i # j /\ events' = {g \in Repointed(i, j) : g.issue # j}
    BY DEF Merge
  <1>2. f \in Repointed(i, j)
    BY DEF Repointed
  <1>3. f.issue # j /\ f.row = e.row
    BY <1>1 DEF TypeOK, Event
  <1> QED
    BY <1>1, <1>2, <1>3

(* Which steps make the table smaller.                                     *)
LEMMA DeletingSteps ==
    ASSUME [Next]_vars
    PROVE  \/ events \subseteq events'
           \/ PruneBatch \/ DeleteOlderThan
           \/ \E i, j \in IssueIds : Merge(i, j)
  BY DEF Next, vars, IngestStep, UserStep, Receive, UpsertExisting, UpsertNew, InsertEvent,
         CheckRate, Resurface, Dispatch, Busy, Fail, Crash, Resolve, Unresolve, SetStatus,
         Mute, Rename, ClearExpiredMutes, Tick

(* No step takes an event that retention does not give up.                 *)
LEMMA RetentionStep ==
    ASSUME TypeOK, IsFiniteSet(events), [Next]_vars, NEW e \in events
    PROVE  MayGo(e)
  <1>1. CASE e \in events'
    BY <1>1 DEF MayGo
  <1>2. ASSUME PruneBatch, e \notin events'
        PROVE  MayGo(e)
    <2>1. PICK K \in MostRecent(events, Keep) :
              \E D \in MostRecent(events \ K, Batch) : events' = events \ D
      BY <1>2 DEF PruneBatch
    <2>2. e \in events \ K
      BY <1>2, <2>1 DEF MostRecent
    <2>3. events \in SUBSET Event /\ Keep \in Nat
      BY BoundsAssumption DEF TypeOK
    <2>4. Cardinality({f \in events : f.received_at >= e.received_at}) > Keep
      BY <2>1, <2>2, <2>3, OutsideMostRecent
    <2> QED
      BY <2>4 DEF MayGo
  <1>3. ASSUME DeleteOlderThan, e \notin events'
        PROVE  MayGo(e)
    BY <1>3 DEF DeleteOlderThan, MayGo
  <1>4. ASSUME NEW i \in IssueIds, NEW j \in IssueIds, Merge(i, j)
        PROVE  MayGo(e)
    BY <1>4, MergeKeepsRows DEF MayGo
  <1> QED
    BY <1>1, <1>2, <1>3, <1>4, DeletingSteps

(* No event row disappears but by retention, for any limits and batches:   *)
(* what arrives between the batches of a sweep only makes the others less  *)
(* recent, and a merge deletes none.                                       *)
THEOREM RetentionAloneDeletes == Spec => OnlyRetentionDeletes
  <1>1. TypeOK /\ CountInv /\ [Next]_vars => [\A e \in events : MayGo(e)]_vars
    BY RetentionStep DEF CountInv
  <1>2. [\A e \in events : MayGo(e)]_vars =>
            [\A e \in events :
                \/ \E f \in events' : f.row = e.row
                \/ TooOld(e)
                \/ Cardinality({f \in events : f.received_at >= e.received_at}) > Keep]_vars
    BY DEF MayGo
  <1> QED
    BY <1>1, <1>2, CountInit, CountNext, TypeCorrect, PTL DEF Spec, OnlyRetentionDeletes
=============================================================================
