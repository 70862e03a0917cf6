---------------------------- MODULE IssueStore ----------------------------
(***************************************************************************)
(* What the port IssueRepository promises of its writes (ports/issue.rs),  *)
(* whatever the database: each call takes effect at one moment, between    *)
(* the call and its answer, or not at all.                                 *)
(***************************************************************************)
EXTENDS Naturals

CONSTANTS Writers, Ids, Fingerprints

VARIABLES issues,   \* the issues by id
          call,     \* the call each writer has in flight
          answer    \* the last answer each writer got

vars == <<issues, call, answer>>

None == "none"
Statuses == {"unresolved", "resolved", "muted"}
Issue == [fingerprint: Fingerprints, status: Statuses, event_count: Nat]
NoIssue == [fingerprint |-> None]

AllCalls == [op: {"upsert"}, fingerprint: Fingerprints]
         \cup [op: {"override"}, id: Ids, fingerprint: Fingerprints]
         \cup [op: {"set_status"}, id: Ids, status: Statuses]
         \cup [op: {"delete"}, id: Ids]
NoCall == [op |-> None]
Answers == {"new", "seen", "regression", "done", "missing", "failed", None}

Live == {i \in Ids : issues[i] # NoIssue}
Holders(f) == {i \in Live : issues[i].fingerprint = f}

\* One more event: a resolved issue regresses, any other keeps its status.
Bumped(issue) ==
  [issue EXCEPT !.event_count = @ + 1,
                !.status = IF @ = "resolved" THEN "unresolved" ELSE @]

NewIssue(f) == [fingerprint |-> f, status |-> "unresolved", event_count |-> 1]

Return(w, result) ==
  /\ call' = [call EXCEPT ![w] = NoCall]
  /\ answer' = [answer EXCEPT ![w] = result]

Invoke(w, c) ==
  /\ call[w] = NoCall
  /\ call' = [call EXCEPT ![w] = c]
  /\ UNCHANGED <<issues, answer>>

\* upsert_by_fingerprint: a new issue is announced to exactly one caller.
Upsert(w) ==
  /\ call[w].op = "upsert"
  /\ LET f == call[w].fingerprint
     IN  \/ \E i \in Holders(f) :
              /\ issues' = [issues EXCEPT ![i] = Bumped(@)]
              /\ Return(w, IF issues[i].status = "resolved" THEN "regression" ELSE "seen")
         \/ /\ Holders(f) = {}
            /\ \E i \in Ids \ Live : issues' = [issues EXCEPT ![i] = NewIssue(f)]
            /\ Return(w, "new")

\* override_fingerprint: rename, or merge with the issue that has it.
Override(w) ==
  /\ call[w].op = "override"
  /\ LET i == call[w].id
         f == call[w].fingerprint
     IN  \/ i \notin Live /\ UNCHANGED issues /\ Return(w, "missing")
         \/ /\ i \in Live
            /\ issues' = [j \in Ids |->
                 IF j = i THEN [issues[i] EXCEPT !.fingerprint = f, !.event_count =
                      IF Holders(f) \ {i} = {} THEN @
                      ELSE @ + issues[CHOOSE k \in Holders(f) \ {i} : TRUE].event_count]
                 ELSE IF j \in Holders(f) THEN NoIssue ELSE issues[j]]
            /\ Return(w, "done")

SetStatus(w) ==
  /\ call[w].op = "set_status"
  /\ IF call[w].id \in Live
     THEN /\ issues' = [issues EXCEPT ![call[w].id].status = call[w].status]
          /\ Return(w, "done")
     ELSE UNCHANGED issues /\ Return(w, "missing")

Delete(w) ==
  /\ call[w].op = "delete"
  /\ issues' = [issues EXCEPT ![call[w].id] = NoIssue]
  /\ Return(w, "done")

\* An error leaves no trace.
Fail(w) == call[w] # NoCall /\ UNCHANGED issues /\ Return(w, "failed")

Init ==
  /\ issues \in [Ids -> Issue \cup {NoIssue}]
  /\ \A i, j \in Live : issues[i].fingerprint = issues[j].fingerprint => i = j
  /\ call = [w \in Writers |-> NoCall]
  /\ answer = [w \in Writers |-> None]

Next ==
  \E w \in Writers :
    \/ \E c \in AllCalls : Invoke(w, c)
    \/ Upsert(w) \/ Override(w) \/ SetStatus(w) \/ Delete(w) \/ Fail(w)

Spec == Init /\ [][Next]_vars

===========================================================================
