--------------------------- MODULE PgStoresProofs ---------------------------
(***************************************************************************)
(* Proofs about PgIssues: the transactions of adapters/postgres/issue.rs   *)
(* implement the atomic store of IssueStore, for all sets of writers, ids, *)
(* fingerprints and calls, and all numbers of attempts and retries.        *)
(***************************************************************************)
EXTENDS PgAccounts, FiniteSetTheorems, TLAPS

-----------------------------------------------------------------------------
(* The inductive invariant.                                                *)

\* A transaction at its commit whose fingerprint no committed issue may have
\* yet: it inserts a row, or renames one.
Taking(t) == t.pc = "commit" /\ (t.result = "new" \/ (t.call.op = "override" /\ t.source = 0))

\* What transaction t may rely on, whatever the others do.  The rows it has
\* locked exist, and at the commit they are as they were when it looked.
TxOK(t) ==
  /\ t \in Tx /\ t.holds \subseteq Live
  /\ IF t.pc = "idle" THEN t.call = NoCall ELSE t.call \in Calls
  /\ t.pc \in {"read", "lock"} => t.stage # None
  /\ t.pc = "lock" => t.at \in Ids
  /\ t.pc = "insert" => t.call.op = "upsert"
  /\ t.pc = "rename" => t.stage = "collision"
  /\ t.pc = "statement" => t.call.op \in {"set_status", "delete"}
  /\ t.pc # "commit" => t.source = 0
  /\ t.stage \in {"first", "again"} => t.call.op = "upsert"
  /\ t.stage = "target" => t.call.op = "override" /\ (t.pc = "lock" => t.at = t.call.id)
  /\ t.stage = "collision" =>
       /\ t.call.op = "override" /\ t.call.id \in t.holds
       /\ row[t.call.id].fingerprint # t.call.fingerprint
  /\ t.pc = "commit" =>
       \/ /\ t.call.op = "upsert" /\ t.result = "new" /\ t.at \in born \ Live
       \/ /\ t.call.op = "upsert" /\ t.result = (IF row[t.at].status = "resolved" THEN "regression" ELSE "seen")
          /\ t.at \in t.holds /\ row[t.at].fingerprint = t.call.fingerprint
       \/ /\ t.call.op = "override" /\ t.stage = "collision" /\ t.result = "done"
          /\ t.source # 0 => /\ t.source \in t.holds \ {t.call.id}
                             /\ row[t.source].fingerprint = t.call.fingerprint

RowsInv ==
  /\ row \in [Ids -> Issue \cup {NoIssue}]
  /\ Live \subseteq born /\ born \subseteq Ids
  /\ \A i, j \in Live : row[i].fingerprint = row[j].fingerprint => i = j

TxInv ==
  /\ DOMAIN tx = Writers
  /\ answer \in [Writers -> Answers]
  /\ \A w \in Writers : TxOK(tx[w])

\* A row is locked by one transaction, a new id is drawn by one, and what one is
\* about to take no issue has and no other is about to take.
ExclusiveInv ==
  /\ \A v, w \in Writers : v # w => tx[v].holds \cap tx[w].holds = {}
  /\ \A v, w \in Writers : v # w /\ Taking(tx[v]) /\ Taking(tx[w]) =>
       /\ tx[v].call.fingerprint # tx[w].call.fingerprint
       /\ tx[v].result = "new" /\ tx[w].result = "new" => tx[v].at # tx[w].at
  /\ \A w \in Writers : Taking(tx[w]) => Holders(tx[w].call.fingerprint) = {}

PgInv == RowsInv /\ TxInv /\ ExclusiveInv

\* The batches on issues are the only ones in which a writer does anything.
BatchInv == batch \in Batches
-----------------------------------------------------------------------------
(* One transaction moves.                                                  *)

\* Neither a transaction that is over nor the calls are ever mistaken for
\* something else.
LEMMA Calling ==
  /\ NoCall \notin Calls /\ TxOK(NoTx)
  /\ \A c \in Calls : c \in Store!AllCalls /\ c # NoCall
                      /\ c.op \in {"upsert", "override", "set_status", "delete"}
                      /\ (c.op \in {"upsert", "override"} => c.fingerprint \in Fingerprints)
                      /\ (c.op # "upsert" => c.id \in Ids)
                      /\ (c.op = "set_status" => c.status \in Statuses)
<1>1. \A c \in Calls : c \in Store!AllCalls /\ c # NoCall
                       /\ c.op \in {"upsert", "override", "set_status", "delete"}
                       /\ (c.op \in {"upsert", "override"} => c.fingerprint \in Fingerprints)
                       /\ (c.op # "upsert" => c.id \in Ids)
                       /\ (c.op = "set_status" => c.status \in Statuses)
  BY CallsAssumption DEF Store!AllCalls, NoCall, None, Store!Statuses, Statuses
<1>2. NoTx \in Tx
  BY PgAssumption DEF NoTx, Tx, Steps, Stages, Answers, None
<1>3. NoTx.pc = "idle" /\ NoTx.call = NoCall /\ NoTx.holds = {} /\ NoTx.stage = None /\ NoTx.source = 0
  BY DEF NoTx
<1>4. TxOK(NoTx)
  BY <1>2, <1>3 DEF TxOK, None
<1> QED
  BY <1>1, <1>4

\* A transaction that only moves on, locking what is free, leaves the table of
\* the store and the calls in flight alone.
LEMMA ToStep ==
  ASSUME PgInv, NEW w \in Writers, NEW next, To(w, next), TxOK(next),
         next.call = tx[w].call,
         \A v \in Writers \ {w} : next.holds \cap tx[v].holds = {},
         Taking(next) => /\ Holders(next.call.fingerprint) = {}
                         /\ next.result # "new"
                         /\ \A v \in Writers \ {w} : Taking(tx[v]) =>
                              tx[v].call.fingerprint # next.call.fingerprint
  PROVE  PgInv' /\ UNCHANGED Store!vars
<1>1. tx' = [tx EXCEPT ![w] = next] /\ UNCHANGED <<row, born, answer>> /\ DOMAIN tx = Writers
  BY DEF To, PgInv, TxInv
<1>2. tx'[w] = next /\ \A v \in Writers \ {w} : tx'[v] = tx[v]
  BY <1>1
<1>3. \A v \in Writers : TxOK(tx'[v])
  BY <1>2 DEF PgInv, TxInv
<1>4. TxInv'
  BY <1>1, <1>3 DEF PgInv, TxInv, TxOK, Live
<1>5. RowsInv'
  BY <1>1 DEF PgInv, RowsInv, Live
<1>6. ExclusiveInv'
  <2>1. \A x, v \in Writers : x # v => tx'[x].holds \cap tx'[v].holds = {}
    BY <1>2 DEF PgInv, ExclusiveInv
  <2>2. \A x, v \in Writers : x # v /\ Taking(tx'[x]) /\ Taking(tx'[v]) =>
          /\ tx'[x].call.fingerprint # tx'[v].call.fingerprint
          /\ tx'[x].result = "new" /\ tx'[v].result = "new" => tx'[x].at # tx'[v].at
    BY <1>2 DEF PgInv, ExclusiveInv
  <2>3. \A x \in Writers : Taking(tx'[x]) => Holders(tx'[x].call.fingerprint) = {}
    BY <1>2 DEF PgInv, ExclusiveInv
  <2>4. \A f : Holders(f)' = Holders(f)
    BY <1>1 DEF Holders, Live
  <2>5. \A x \in Writers : Taking(tx'[x]) => Holders(tx[x].call.fingerprint)' = {}
    BY <2>3, <2>4
  <2> QED
    BY <2>1, <2>2, <2>5 DEF ExclusiveInv, Taking
<1>7. [x \in Writers |-> tx'[x].call] = [x \in Writers |-> tx[x].call]
  BY <1>2
<1> QED
  BY <1>1, <1>4, <1>5, <1>6, <1>7 DEF PgInv, Store!vars

\* An answer ends the transaction, and the call of the store.
LEMMA ReturnStep ==
  ASSUME PgInv, NEW w \in Writers, NEW result \in Answers, Return(w, result)
  PROVE  /\ Store!Return(w, result)
         /\ tx'[w] = NoTx /\ (\A v \in Writers \ {w} : tx'[v] = tx[v]) /\ DOMAIN tx' = Writers
         /\ answer' \in [Writers -> Answers]
         /\ \A v \in Writers : tx'[v].holds \subseteq tx[v].holds
<1>1. /\ tx' = [tx EXCEPT ![w] = NoTx] /\ answer' = [answer EXCEPT ![w] = result]
      /\ DOMAIN tx = Writers /\ answer \in [Writers -> Answers]
  BY DEF Return, Ended, PgInv, TxInv
<1>2. tx'[w] = NoTx /\ (\A v \in Writers \ {w} : tx'[v] = tx[v]) /\ DOMAIN tx' = Writers
  BY <1>1
<1>3. NoTx.call = NoCall /\ NoTx.holds = {}
  BY DEF NoTx
<1>4. [x \in Writers |-> tx'[x].call] = [[x \in Writers |-> tx[x].call] EXCEPT ![w] = NoCall]
  BY <1>2, <1>3
<1>5. NoCall = Store!NoCall
  BY DEF NoCall, Store!NoCall, None, Store!None
<1>6. Store!Return(w, result)
  BY <1>1, <1>4, <1>5 DEF Store!Return
<1> QED
  BY <1>1, <1>2, <1>3, <1>6

\* A transaction that is rolled back, or had nothing to write.
LEMMA QuitStep ==
  ASSUME PgInv, NEW w \in Writers, NEW result \in Answers, Quit(w, result)
  PROVE  PgInv' /\ Store!Return(w, result) /\ UNCHANGED row
<1>1. Return(w, result) /\ UNCHANGED <<row, born>>
  BY DEF Quit
<1>2. /\ Store!Return(w, result)
      /\ tx'[w] = NoTx /\ (\A v \in Writers \ {w} : tx'[v] = tx[v]) /\ DOMAIN tx' = Writers
      /\ answer' \in [Writers -> Answers]
      /\ \A v \in Writers : tx'[v].holds \subseteq tx[v].holds
  BY <1>1, ReturnStep
<1>3. \A v \in Writers : TxOK(tx'[v])
  BY <1>2, Calling DEF PgInv, TxInv
<1>4. TxInv'
  BY <1>1, <1>2, <1>3 DEF TxInv, TxOK, Live
<1>5. RowsInv'
  BY <1>1 DEF PgInv, RowsInv, Live
<1>6. ~Taking(NoTx)
  BY DEF Taking, NoTx
<1>7. \A f : Holders(f)' = Holders(f)
  BY <1>1 DEF Holders, Live
<1>8. \A x, v \in Writers : x # v => tx'[x].holds \cap tx'[v].holds = {}
  BY <1>2 DEF PgInv, ExclusiveInv
<1>9. \A x \in Writers : Taking(tx'[x]) => Taking(tx[x]) /\ tx'[x] = tx[x]
  BY <1>2, <1>6
<1>10. \A x, v \in Writers : x # v /\ Taking(tx'[x]) /\ Taking(tx'[v]) =>
          /\ tx'[x].call.fingerprint # tx'[v].call.fingerprint
          /\ tx'[x].result = "new" /\ tx'[v].result = "new" => tx'[x].at # tx'[v].at
  BY <1>9 DEF PgInv, ExclusiveInv
<1>11. \A x \in Writers : Taking(tx'[x]) => Holders(tx[x].call.fingerprint)' = {}
  BY <1>7, <1>9 DEF PgInv, ExclusiveInv
<1>12. ExclusiveInv'
  BY <1>8, <1>10, <1>11, <1>9 DEF ExclusiveInv, Taking
<1> QED
  BY <1>1, <1>2, <1>4, <1>5, <1>12 DEF PgInv

\* A transaction that is thrown away and starts again forgets all but its call.
LEMMA RestartedOK ==
  ASSUME PgInv, NEW w \in Writers, tx[w].stage # None, tx[w].pc # "idle",
         NEW races \in 0..RaceAttempts, NEW retries \in 0..MaxRetries,
         To(w, Restarted(tx[w], races, retries))
  PROVE  PgInv' /\ UNCHANGED Store!vars
<1> DEFINE t == tx[w]
           c == t.call
           next == Restarted(t, races, retries)
<1>1. TxOK(t) /\ c \in Calls /\ t \in Tx
  BY DEF PgInv, TxInv, TxOK
<1>2. c.op \in {"upsert", "override"}
  BY <1>1 DEF TxOK, Tx, Stages
<1>3. /\ next.pc = "read" /\ next.call = c /\ next.holds = {} /\ next.source = 0
      /\ next.stage = IF c.op = "upsert" THEN "first" ELSE "target"
  BY <1>2 DEF Restarted, NoTx, Started
<1>4. next \in Tx
  <2> DEFINE p == Started(c).pc
             g == Started(c).stage
  <2>1. p \in Steps /\ g \in Stages
    BY <1>2 DEF Started, Steps, Stages
  <2>2. NoTx \in Tx
    BY Calling DEF TxOK
  <2>3. next = [NoTx EXCEPT !.pc = p, !.call = c, !.stage = g, !.races = races, !.retries = retries]
    BY DEF Restarted
  <2> HIDE DEF next, p, g, c
  <2> QED
    BY <1>1, <2>1, <2>2, <2>3 DEF Tx
<1> HIDE DEF next
<1>5. TxOK(next)
  BY <1>1, <1>2, <1>3, <1>4 DEF TxOK, None
<1>6. ~Taking(next)
  BY <1>3 DEF Taking
<1> QED
  BY <1>3, <1>5, <1>6, ToStep DEF next

-----------------------------------------------------------------------------
(* The steps of an attempt, and what the store sees of them.               *)

\* A step of the store, or one that it does not see.
Refined == Store!Next \/ UNCHANGED Store!vars

\* An error rolls everything back.
LEMMA FailStep ==
  ASSUME PgInv, NEW w \in Writers, tx[w].pc # "idle", Quit(w, "failed")
  PROVE  PgInv' /\ Refined
<1>1. "failed" \in Answers
  BY DEF Answers
<1>2. PgInv' /\ Store!Return(w, "failed") /\ UNCHANGED row
  BY <1>1, QuitStep
<1>3. tx[w].call # Store!NoCall
  BY Calling DEF PgInv, TxInv, TxOK, NoCall, Store!NoCall, None, Store!None
<1>4. Store!Fail(w)
  BY <1>2, <1>3 DEF Store!Fail
<1> QED
  BY <1>2, <1>4 DEF Refined, Store!Next

\* A lost race costs another round or the error.
LEMMA LostStep ==
  ASSUME PgInv, NEW w \in Writers, tx[w].stage # None, tx[w].pc # "idle", Lost(w)
  PROVE  PgInv' /\ Refined
<1>1. CASE tx[w].races + 1 < RaceAttempts
  <2>1. tx[w].races + 1 \in 0..RaceAttempts /\ 0 \in 0..MaxRetries
    <3>1. tx[w].races \in Nat /\ RaceAttempts \in Nat /\ MaxRetries \in Nat
      BY PgAssumption DEF PgInv, TxInv, TxOK, Tx
    <3> QED
      BY <1>1, <3>1
  <2>2. To(w, Restarted(tx[w], tx[w].races + 1, 0))
    BY <1>1 DEF Lost
  <2> QED
    BY <2>1, <2>2, RestartedOK DEF Refined
<1>2. CASE ~(tx[w].races + 1 < RaceAttempts)
  BY <1>2, FailStep DEF Lost
<1> QED
  BY <1>1, <1>2

\* Moving on without a new lock and without reaching the commit.
LEMMA MoveStep ==
  ASSUME PgInv, NEW w \in Writers, NEW next, To(w, next), TxOK(next),
         next.call = tx[w].call, next.holds = tx[w].holds, next.pc # "commit"
  PROVE  PgInv' /\ Refined
<1>1. \A v \in Writers \ {w} : next.holds \cap tx[v].holds = {}
  BY DEF PgInv, ExclusiveInv
<1>2. ~Taking(next)
  BY DEF Taking
<1> QED
  BY <1>1, <1>2, ToStep DEF Refined

\* A select that finds no row: insert, rename, the lost race, or the answer that
\* the issue is gone.
LEMMA MissingStep ==
  ASSUME PgInv, NEW w \in Writers, tx[w].pc \in {"read", "lock"}, Missing(w),
         tx[w].stage = "target" => tx[w].call.id \notin Live
  PROVE  PgInv' /\ Refined
<1> DEFINE t == tx[w]
<1>1. TxOK(t) /\ t \in Tx /\ t.stage # None /\ t.call \in Calls
  BY DEF PgInv, TxInv, TxOK
<1>2. CASE t.stage = "first"
  <2> DEFINE next == [t EXCEPT !.pc = "insert"]
  <2>1. next \in Tx /\ next.pc = "insert" /\ next.holds = t.holds /\ next.call = t.call
        /\ next.stage = t.stage /\ next.source = t.source
    BY <1>1 DEF Tx, Steps
  <2>2. To(w, next)
    BY <1>2 DEF Missing
  <2> HIDE DEF next
  <2>3. TxOK(next)
    BY <1>1, <1>2, <2>1 DEF TxOK
  <2> QED
    BY <2>1, <2>2, <2>3, MoveStep
<1>3. CASE t.stage = "again"
  BY <1>1, <1>3, LostStep DEF Missing
<1>4. CASE t.stage = "target"
  <2>1. Quit(w, "missing") /\ "missing" \in Answers
    BY <1>4 DEF Missing, Answers
  <2>2. PgInv' /\ Store!Return(w, "missing") /\ UNCHANGED row
    BY <2>1, QuitStep
  <2>3. t.call.op = "override" /\ t.call.id \notin Store!Live
    BY <1>1, <1>4 DEF TxOK, Live, Store!Live, NoIssue, Store!NoIssue, None, Store!None
  <2>4. Store!Override(w)
    BY <2>2, <2>3 DEF Store!Override
  <2> QED
    BY <2>2, <2>4 DEF Refined, Store!Next
<1>5. CASE t.stage = "collision"
  <2> DEFINE next == [t EXCEPT !.pc = "rename"]
  <2>1. next \in Tx /\ next.pc = "rename" /\ next.holds = t.holds /\ next.call = t.call
        /\ next.stage = t.stage /\ next.source = t.source
    BY <1>1 DEF Tx, Steps
  <2>2. To(w, next)
    BY <1>5 DEF Missing
  <2> HIDE DEF next
  <2>3. TxOK(next)
    BY <1>1, <1>5, <2>1 DEF TxOK
  <2> QED
    BY <2>1, <2>2, <2>3, MoveStep
<1> QED
  BY <1>1, <1>2, <1>3, <1>4, <1>5 DEF Tx, Stages

\* A select finds its row in its snapshot and goes to wait for the lock.
LEMMA ReadStep ==
  ASSUME PgInv, NEW w \in Writers, Read(w)
  PROVE  PgInv' /\ Refined
<1> DEFINE t == tx[w]
<1>1. TxOK(t) /\ t \in Tx /\ t.stage # None /\ t.call \in Calls /\ t.pc = "read"
  BY DEF PgInv, TxInv, TxOK, Read
<1>2. CASE Matching(t) = {}
  <2>1. t.stage = "target" => t.call.id \notin Live
    BY <1>2 DEF Matching
  <2> QED
    BY <1>1, <1>2, <2>1, MissingStep DEF Read
<1>3. CASE Matching(t) # {}
  <2>1. PICK i \in Matching(t) : To(w, [t EXCEPT !.pc = "lock", !.at = i])
    BY <1>3 DEF Read
  <2>2. i \in Ids /\ (t.stage = "target" => i = t.call.id)
    BY <2>1 DEF Matching, Live, Holders
  <2> DEFINE next == [t EXCEPT !.pc = "lock", !.at = i]
  <2>3. next \in Tx /\ next.pc = "lock" /\ next.holds = t.holds /\ next.call = t.call
        /\ next.stage = t.stage /\ next.source = t.source /\ next.at = i
    BY <1>1, <2>2 DEF Tx, Steps
  <2> HIDE DEF next
  <2>4. TxOK(next)
    BY <1>1, <2>2, <2>3 DEF TxOK
  <2> QED
    BY <2>1, <2>3, <2>4, MoveStep DEF next
<1> QED
  BY <1>2, <1>3

\* The rows, as the store has them.
LEMMA SameRows ==
  /\ Store!NoIssue = NoIssue /\ Store!Live = Live /\ Store!NoCall = NoCall
  /\ \A f : Store!Holders(f) = Holders(f)
<1>1. Store!NoIssue = NoIssue /\ Store!NoCall = NoCall
  BY DEF Store!NoIssue, NoIssue, Store!NoCall, NoCall, Store!None, None
<1>2. Store!Live = Live
  BY <1>1 DEF Store!Live, Live
<1> QED
  BY <1>1, <1>2 DEF Store!Holders, Holders

\* A row that exists is an issue.
LEMMA LiveRows ==
  ASSUME RowsInv, NEW i \in Live
  PROVE  row[i] \in Issue /\ i \in Ids
BY DEF RowsInv, Live

\* The table the store's override of issue i by fingerprint f leaves.
Overridden(i, f) ==
  [j \in Ids |->
     IF j = i THEN [row[i] EXCEPT !.fingerprint = f, !.event_count =
          IF Store!Holders(f) \ {i} = {} THEN @
          ELSE @ + row[CHOOSE k \in Store!Holders(f) \ {i} : TRUE].event_count]
     ELSE IF j \in Store!Holders(f) THEN Store!NoIssue ELSE row[j]]

\* The store overrides a fingerprint.
LEMMA StoreOverride ==
  ASSUME NEW w \in Writers, tx[w].call.op = "override", tx[w].call.id \in Live,
         row' = Overridden(tx[w].call.id, tx[w].call.fingerprint), Store!Return(w, "done")
  PROVE  Store!Override(w)
<1>1. [x \in Writers |-> tx[x].call][w] = tx[w].call
  OBVIOUS
<1>2. tx[w].call.id \in Store!Live
  BY SameRows
<1> QED
  BY <1>1, <1>2 DEF Store!Override, Overridden

\* Renaming an issue to the fingerprint it has changes nothing.
LEMMA RenamedToItself ==
  ASSUME RowsInv, NEW i \in Live
  PROVE  row = Overridden(i, row[i].fingerprint)
<1> DEFINE f == row[i].fingerprint
<1>1. Store!Holders(f) = {i}
  BY SameRows DEF RowsInv, Holders
<1>2. row[i] \in Issue
  BY LiveRows
<1>3. [row[i] EXCEPT !.fingerprint = f, !.event_count =
         IF Store!Holders(f) \ {i} = {} THEN @ ELSE @ + row[CHOOSE k \in Store!Holders(f) \ {i} : TRUE].event_count]
      = row[i]
  <2> DEFINE r == row[i]
  <2>1. r \in Issue
    BY <1>2
  <2> HIDE DEF r
  <2>2. [r EXCEPT !.fingerprint = r.fingerprint, !.event_count = r.event_count] = r
    BY <2>1 DEF Issue
  <2>3. Store!Holders(f) \ {i} = {}
    BY <1>1
  <2> QED
    BY <2>2, <2>3 DEF r
<1>4. row = [j \in Ids |-> row[j]]
  BY DEF RowsInv
<1>5. \A j \in Ids : row[j] = IF j = i THEN row[i] ELSE IF j \in Store!Holders(f) THEN Store!NoIssue ELSE row[j]
  BY <1>1
<1> QED
  BY <1>3, <1>4, <1>5, SameRows DEF Overridden

\* The row is locked and still matches: the upsert knows what it returns, the
\* override whether there is anything to do, and with whom it merges.
LEMMA FoundStep ==
  ASSUME PgInv, NEW w \in Writers, tx[w].pc = "lock", LockedBy(w, tx[w].at) = {},
         tx[w].at \in Matching(tx[w]), Found(w, tx[w].at)
  PROVE  PgInv' /\ Refined
<1> DEFINE u == tx[w]
           i == u.at
           t == [u EXCEPT !.holds = @ \cup {i}, !.at = 0]
<1>1. TxOK(u) /\ u \in Tx /\ u.stage # None /\ u.call \in Calls /\ i \in Live /\ i \in Ids
  BY DEF PgInv, TxInv, TxOK, Matching, Holders, Live
<1>2. /\ t \in Tx /\ t.pc = "lock" /\ t.holds = u.holds \cup {i} /\ t.call = u.call
      /\ t.stage = u.stage /\ t.source = 0 /\ t.at = 0
  <2>1. u.source = 0
    BY <1>1 DEF TxOK
  <2> QED
    BY <1>1, <2>1 DEF Tx, Steps
<1>3. \A v \in Writers \ {w} : t.holds \cap tx[v].holds = {}
  BY <1>2 DEF PgInv, ExclusiveInv, LockedBy
<1>4. t.holds \subseteq Live
  BY <1>1, <1>2 DEF TxOK
<1>5. CASE u.stage \in {"first", "again"}
  <2> DEFINE result == IF row[i].status = "resolved" THEN "regression" ELSE "seen"
             next == [t EXCEPT !.pc = "commit", !.at = i, !.result = result]
  <2>1. To(w, next)
    BY <1>5 DEF Found
  <2>2. result \in Answers /\ result # "new"
    BY DEF Answers
  <2>3. i \in Holders(u.call.fingerprint)
    BY <1>5 DEF Matching
  <2> HIDE DEF t, result
  <2>4. /\ next \in Tx /\ next.pc = "commit" /\ next.holds = t.holds /\ next.call = t.call
        /\ next.stage = t.stage /\ next.source = t.source /\ next.at = i /\ next.result = result
    BY <1>1, <1>2, <2>2 DEF Tx, Steps
  <2> HIDE DEF next
  <2>5. next.call.op = "upsert"
    BY <1>1, <1>2, <1>5, <2>4 DEF TxOK
  <2>6. TxOK(next)
    <3>1. row[i].fingerprint = u.call.fingerprint /\ i \in t.holds
      BY <1>2, <2>3 DEF Holders
    <3> QED
      BY <1>1, <1>2, <1>4, <1>5, <2>4, <2>5, <3>1 DEF TxOK, None, result
  <2>7. ~Taking(next)
    BY <2>2, <2>4, <2>5 DEF Taking
  <2> QED
    BY <1>2, <1>3, <2>1, <2>4, <2>6, <2>7, ToStep DEF Refined
<1>6. CASE u.stage = "target" /\ row[i].fingerprint = u.call.fingerprint
  <2>1. Quit(w, "done") /\ "done" \in Answers
    BY <1>2, <1>6 DEF Found, Answers
  <2>2. PgInv' /\ Store!Return(w, "done") /\ UNCHANGED row
    BY <2>1, QuitStep
  <2>3. u.call.op = "override" /\ u.call.id = i
    BY <1>1, <1>6 DEF TxOK
  <2>4. row' = Overridden(i, row[i].fingerprint)
    BY <1>1, <2>2, RenamedToItself DEF PgInv
  <2>5. Store!Override(w)
    BY <1>1, <1>6, <2>2, <2>3, <2>4, StoreOverride
  <2> QED
    BY <2>2, <2>5 DEF Refined, Store!Next
<1>7. CASE u.stage = "target" /\ row[i].fingerprint # u.call.fingerprint
  <2> DEFINE next == [t EXCEPT !.pc = "read", !.stage = "collision"]
  <2>1. To(w, next)
    BY <1>2, <1>7 DEF Found
  <2> HIDE DEF t
  <2>2. /\ next \in Tx /\ next.pc = "read" /\ next.holds = t.holds /\ next.call = t.call
        /\ next.stage = "collision" /\ next.source = t.source
    BY <1>2 DEF Tx, Steps, Stages
  <2> HIDE DEF next
  <2>3. u.call.op = "override" /\ u.call.id = i
    BY <1>1, <1>7 DEF TxOK
  <2>4. TxOK(next)
    BY <1>1, <1>2, <1>4, <1>7, <2>2, <2>3 DEF TxOK, None
  <2>5. ~Taking(next)
    BY <2>2 DEF Taking
  <2> QED
    BY <1>2, <1>3, <2>1, <2>2, <2>4, <2>5, ToStep DEF Refined
<1>8. CASE u.stage = "collision"
  <2> DEFINE next == [t EXCEPT !.pc = "commit", !.source = i, !.result = "done"]
  <2>1. To(w, next)
    BY <1>2, <1>8 DEF Found
  <2>2. i \in Holders(u.call.fingerprint) \ {u.call.id}
    BY <1>8 DEF Matching
  <2> HIDE DEF t
  <2>3. /\ next \in Tx /\ next.pc = "commit" /\ next.holds = t.holds /\ next.call = t.call
        /\ next.stage = t.stage /\ next.source = i /\ next.result = "done"
    BY <1>1, <1>2 DEF Tx, Steps, Answers
  <2> HIDE DEF next
  <2>4. i # 0
    BY <1>1, PgAssumption
  <2>5. row[i].fingerprint = u.call.fingerprint /\ i \in t.holds
    BY <1>2, <2>2 DEF Holders
  <2>6. TxOK(next)
    BY <1>1, <1>2, <1>4, <1>8, <2>2, <2>3, <2>5 DEF TxOK, None
  <2>7. ~Taking(next)
    BY <2>3, <2>4 DEF Taking
  <2> QED
    BY <1>2, <1>3, <2>1, <2>3, <2>6, <2>7, ToStep DEF Refined
<1> QED
  BY <1>1, <1>5, <1>6, <1>7, <1>8 DEF Tx, Stages

\* FOR UPDATE has its lock: the row matches still, or counts as not found.
LEMMA LockStep ==
  ASSUME PgInv, NEW w \in Writers, Lock(w)
  PROVE  PgInv' /\ Refined
<1>1. tx[w].pc = "lock" /\ LockedBy(w, tx[w].at) = {}
  BY DEF Lock, Blockers
<1>2. CASE StillMatches(w)
  BY <1>1, <1>2, FoundStep DEF Lock, StillMatches
<1>3. CASE ~StillMatches(w)
  <2>1. tx[w].stage = "target" => tx[w].call.id \notin Live
    BY <1>1, <1>3 DEF StillMatches, Matching, PgInv, TxInv, TxOK
  <2> QED
    BY <1>1, <1>3, <2>1, MissingStep DEF Lock
<1> QED
  BY <1>2, <1>3

\* Whoever is about to take a fingerprint makes the others wait for it.
LEMMA TakingClaims ==
  ASSUME NEW w \in Writers, NEW f, ClaimedBy(w, f) = {}
  PROVE  \A v \in Writers \ {w} : Taking(tx[v]) => tx[v].call.fingerprint # f
<1> SUFFICES ASSUME NEW v \in Writers \ {w}, Taking(tx[v])
             PROVE  tx[v].call.fingerprint # f
  OBVIOUS
<1>1. f \notin Claims(v)
  BY DEF ClaimedBy
<1>2. CASE tx[v].result = "new"
  BY <1>1, <1>2 DEF Claims, Taking
<1>3. CASE tx[v].result # "new" /\ tx[v].call.op = "override"
  BY <1>1, <1>3 DEF Claims, Taking
<1> QED
  BY <1>2, <1>3 DEF Taking

\* The insert that finds a holder looks again; the one that does not has a new id
\* and the fingerprint to itself.
LEMMA InsertStep ==
  ASSUME PgInv, NEW w \in Writers, Insert(w)
  PROVE  PgInv' /\ Refined
<1> DEFINE t == tx[w]
           f == t.call.fingerprint
<1>1. TxOK(t) /\ t \in Tx /\ t.call \in Calls /\ t.pc = "insert" /\ t.call.op = "upsert"
      /\ DOMAIN tx = Writers
  BY DEF PgInv, TxInv, TxOK, Insert
<1>2. t.stage \in {"first", "again", None} /\ t.source = 0 /\ t.holds \subseteq Live
  BY <1>1 DEF TxOK, Tx, Stages
<1>3. CASE Holders(f) # {}
  <2> DEFINE next == [t EXCEPT !.pc = "read", !.stage = "again"]
  <2>1. To(w, next)
    BY <1>3 DEF Insert
  <2>2. /\ next \in Tx /\ next.pc = "read" /\ next.holds = t.holds /\ next.call = t.call
        /\ next.stage = "again" /\ next.source = t.source
    BY <1>1 DEF Tx, Steps, Stages
  <2> HIDE DEF next
  <2>3. TxOK(next)
    BY <1>1, <2>2 DEF TxOK, None
  <2> QED
    BY <2>1, <2>2, <2>3, MoveStep
<1>4. CASE Holders(f) = {}
  <2> DEFINE i == CHOOSE j \in Ids : j \notin born
             next == [t EXCEPT !.pc = "commit", !.at = i, !.result = "new"]
  <2>1. /\ born # Ids /\ tx' = [tx EXCEPT ![w].pc = "commit", ![w].at = i, ![w].result = "new"]
        /\ born' = born \cup {i} /\ UNCHANGED <<row, answer>>
    BY <1>4 DEF Insert
  <2>2. i \in Ids /\ i \notin born
    BY <2>1 DEF PgInv, RowsInv
  <2>3. tx'[w] = next /\ \A v \in Writers \ {w} : tx'[v] = tx[v]
    BY <1>1, <2>1
  <2> HIDE DEF i
  <2>4. /\ next \in Tx /\ next.pc = "commit" /\ next.holds = t.holds /\ next.call = t.call
        /\ next.stage = t.stage /\ next.source = 0 /\ next.at = i /\ next.result = "new"
    BY <1>1, <1>2, <2>2 DEF Tx, Steps, Answers
  <2>5. DOMAIN tx' = Writers
    BY <1>1, <2>1
  <2> HIDE DEF next
  <2>6. RowsInv' /\ Live' = Live /\ Live \subseteq born
    BY <2>1, <2>2 DEF PgInv, RowsInv, Live
  <2>7. \A v \in Writers \ {w} : TxOK(tx[v])'
    BY <2>1, <2>3, <2>6 DEF PgInv, TxInv, TxOK
  <2>8. TxOK(tx[w])'
    BY <1>1, <1>2, <2>1, <2>2, <2>3, <2>4, <2>6 DEF TxOK, None
  <2>9. TxInv'
    BY <2>1, <2>5, <2>7, <2>8 DEF PgInv, TxInv
  <2>10. ClaimedBy(w, f) = {}
    BY <1>1 DEF Insert, Blockers
  <2>11. \A v \in Writers \ {w} : Taking(tx[v]) =>
           tx[v].call.fingerprint # f /\ (tx[v].result = "new" => tx[v].at # i)
    <3>1. \A v \in Writers : Taking(tx[v]) /\ tx[v].result = "new" => tx[v].at \in born
      BY DEF PgInv, TxInv, TxOK, Taking
    <3> QED
      BY <2>2, <2>10, <3>1, TakingClaims
  <2>12. \A x, v \in Writers : x # v => tx'[x].holds \cap tx'[v].holds = {}
    BY <2>3, <2>4 DEF PgInv, ExclusiveInv
  <2>13. \A x, v \in Writers : x # v /\ Taking(tx'[x]) /\ Taking(tx'[v]) =>
           /\ tx'[x].call.fingerprint # tx'[v].call.fingerprint
           /\ tx'[x].result = "new" /\ tx'[v].result = "new" => tx'[x].at # tx'[v].at
    BY <2>3, <2>4, <2>11 DEF PgInv, ExclusiveInv
  <2>14. \A x \in Writers : Taking(tx'[x]) => Holders(tx'[x].call.fingerprint) = {}
    BY <1>4, <2>3, <2>4 DEF PgInv, ExclusiveInv
  <2>15. \A g : Holders(g)' = Holders(g)
    BY <2>1, <2>6 DEF Holders
  <2>16. \A x \in Writers : tx'[x].call = tx[x].call
    BY <2>3, <2>4
  <2>17. \A x \in Writers : Taking(tx'[x]) => Holders(tx[x].call.fingerprint)' = {}
    BY <2>14, <2>15, <2>16
  <2>18. ExclusiveInv'
    BY <2>12, <2>13, <2>17 DEF ExclusiveInv, Taking
  <2>19. UNCHANGED Store!vars
    BY <2>1, <2>16 DEF Store!vars
  <2> QED
    BY <2>6, <2>9, <2>18, <2>19 DEF PgInv, Refined
<1> QED
  BY <1>3, <1>4

\* The rename, of a target that is locked, to a fingerprint nobody else takes.
LEMMA RenameStep ==
  ASSUME PgInv, NEW w \in Writers, Rename(w)
  PROVE  PgInv' /\ Refined
<1> DEFINE t == tx[w]
           f == t.call.fingerprint
<1>1. TxOK(t) /\ t \in Tx /\ t.pc = "rename" /\ t.stage = "collision"
  BY DEF PgInv, TxInv, TxOK, Rename
<1>2. CASE Holders(f) # {}
  BY <1>1, <1>2, LostStep DEF Rename, None
<1>3. CASE Holders(f) = {}
  <2> DEFINE next == [t EXCEPT !.pc = "commit", !.result = "done"]
  <2>1. To(w, next)
    BY <1>3 DEF Rename
  <2>2. /\ next \in Tx /\ next.pc = "commit" /\ next.holds = t.holds /\ next.call = t.call
        /\ next.stage = t.stage /\ next.source = t.source /\ next.result = "done"
    BY <1>1 DEF Tx, Steps, Answers
  <2> HIDE DEF next
  <2>3. TxOK(next)
    BY <1>1, <2>2 DEF TxOK, None
  <2>4. \A v \in Writers \ {w} : Taking(tx[v]) => tx[v].call.fingerprint # f
    BY <1>1, TakingClaims DEF Rename, Blockers
  <2>5. \A v \in Writers \ {w} : next.holds \cap tx[v].holds = {}
    BY <2>2 DEF PgInv, ExclusiveInv
  <2> QED
    BY <1>3, <2>1, <2>2, <2>3, <2>4, <2>5, ToStep DEF Refined
<1> QED
  BY <1>2, <1>3

\* The victim of a deadlock starts again or gets the error.
LEMMA DeadlockStep ==
  ASSUME PgInv, NEW w \in Writers, DeadlockDetected(w)
  PROVE  PgInv' /\ Refined
<1>1. tx[w].pc # "idle"
  <2>1. Blockers(w) # {}
    BY DEF DeadlockDetected, InCycle
  <2> QED
    BY <2>1 DEF Blockers
<1>2. CASE tx[w].retries < MaxRetries /\ tx[w].stage # None
  <2>1. tx[w].races \in 0..RaceAttempts /\ tx[w].retries + 1 \in 0..MaxRetries
    <3>1. tx[w].races \in 0..RaceAttempts /\ tx[w].retries \in 0..MaxRetries /\ MaxRetries \in Nat
      BY PgAssumption DEF PgInv, TxInv, TxOK, Tx
    <3> QED
      BY <1>2, <3>1
  <2> QED
    BY <1>1, <1>2, <2>1, RestartedOK DEF DeadlockDetected, Refined
<1>3. CASE ~(tx[w].retries < MaxRetries /\ tx[w].stage # None)
  BY <1>1, <1>3, FailStep DEF DeadlockDetected
<1> QED
  BY <1>2, <1>3

\* A call begins.
LEMMA InvokeStep ==
  ASSUME PgInv, NEW w \in Writers, NEW c \in Calls, Invoke(w, c)
  PROVE  PgInv' /\ Refined
<1> DEFINE p == Started(c).pc
           g == Started(c).stage
           next == [NoTx EXCEPT !.pc = p, !.call = c, !.stage = g]
<1>1. /\ tx[w] = NoTx /\ tx' = [tx EXCEPT ![w] = next] /\ UNCHANGED <<row, born, answer>>
      /\ DOMAIN tx = Writers
  BY DEF Invoke, To, PgInv, TxInv
<1>2. /\ c.op \in {"upsert", "override"} => p = "read"
      /\ c.op \notin {"upsert", "override"} => p = "statement" /\ g = None
      /\ c.op = "upsert" => g = "first"
      /\ c.op = "override" => g = "target"
      /\ c.op \in {"upsert", "override", "set_status", "delete"}
  BY Calling DEF Started
<1>3. NoTx \in Tx /\ NoTx.holds = {} /\ NoTx.source = 0 /\ NoTx.call = NoCall
  BY Calling DEF TxOK, NoTx
<1> HIDE DEF p, g
<1>4. next \in Tx /\ next.pc = p /\ next.stage = g /\ next.call = c /\ next.holds = {} /\ next.source = 0
  BY <1>2, <1>3 DEF Tx, Steps, Stages
<1> HIDE DEF next
<1>5. TxOK(next) /\ ~Taking(next)
  BY <1>2, <1>4 DEF TxOK, Taking, None
<1>6. tx'[w] = next /\ \A v \in Writers \ {w} : tx'[v] = tx[v]
  BY <1>1
<1>7. TxInv' /\ RowsInv'
  <2>1. \A v \in Writers : TxOK(tx'[v])
    BY <1>5, <1>6 DEF PgInv, TxInv
  <2> QED
    BY <1>1, <2>1 DEF PgInv, TxInv, TxOK, RowsInv, Live
<1>8. ExclusiveInv'
  <2>1. \A f : Holders(f)' = Holders(f)
    BY <1>1 DEF Holders, Live
  <2>2. \A x, v \in Writers : x # v => tx'[x].holds \cap tx'[v].holds = {}
    BY <1>4, <1>6 DEF PgInv, ExclusiveInv
  <2>3. \A x \in Writers : Taking(tx'[x]) => Taking(tx[x]) /\ tx'[x] = tx[x]
    BY <1>5, <1>6
  <2>4. \A x, v \in Writers : x # v /\ Taking(tx'[x]) /\ Taking(tx'[v]) =>
          /\ tx'[x].call.fingerprint # tx'[v].call.fingerprint
          /\ tx'[x].result = "new" /\ tx'[v].result = "new" => tx'[x].at # tx'[v].at
    BY <2>3 DEF PgInv, ExclusiveInv
  <2>5. \A x \in Writers : Taking(tx'[x]) => Holders(tx[x].call.fingerprint)' = {}
    BY <2>1, <2>3 DEF PgInv, ExclusiveInv
  <2> QED
    BY <2>2, <2>3, <2>4, <2>5 DEF ExclusiveInv, Taking
<1>9. Store!Invoke(w, c)
  <2>1. [x \in Writers |-> tx'[x].call] = [[x \in Writers |-> tx[x].call] EXCEPT ![w] = c]
    BY <1>4, <1>6
  <2>2. [x \in Writers |-> tx[x].call][w] = Store!NoCall
    BY <1>1, <1>3, SameRows
  <2> QED
    BY <1>1, <2>1, <2>2 DEF Store!Invoke
<1>10. Store!Next
  BY <1>9, CallsAssumption DEF Store!Next
<1> QED
  BY <1>7, <1>8, <1>10 DEF PgInv, Refined

-----------------------------------------------------------------------------
(* The steps that write.                                                   *)

\* The issues of table rw with fingerprint f.
HoldersIn(rw, f) == {i \in Ids : rw[i] # NoIssue /\ rw[i].fingerprint = f}

\* What a transaction leaves in the table disturbs no other: the rows they have
\* locked are as they were, and what they are about to take is still free.
LEMMA WriteStep ==
  ASSUME PgInv, NEW w \in Writers, NEW result \in Answers, Return(w, result), UNCHANGED born,
         RowsInv',
         \A v \in Writers \ {w} : \A i \in tx[v].holds : row'[i] = row[i],
         \A v \in Writers \ {w} : Taking(tx[v]) =>
           /\ HoldersIn(row', tx[v].call.fingerprint) = {}
           /\ tx[v].result = "new" => row'[tx[v].at] = NoIssue
  PROVE  PgInv'
<1>1. /\ tx'[w] = NoTx /\ (\A v \in Writers \ {w} : tx'[v] = tx[v]) /\ DOMAIN tx' = Writers
      /\ answer' \in [Writers -> Answers]
      /\ \A v \in Writers : tx'[v].holds \subseteq tx[v].holds
  BY ReturnStep
<1>2. ASSUME NEW v \in Writers \ {w}
      PROVE  TxOK(tx[v])'
  <2> DEFINE t == tx[v]
  <2>1. TxOK(t) /\ tx'[v] = t
    BY <1>1 DEF PgInv, TxInv
  <2>2. \A i \in t.holds : i \in Ids /\ row'[i] = row[i] /\ row'[i] # NoIssue
    BY <2>1 DEF TxOK, Live
  <2>3. t.holds \subseteq Live'
    BY <2>2 DEF Live
  <2>4. t.pc = "commit" /\ t.result = "new" => t.at \in born' \ Live'
    BY <2>1 DEF Taking, TxOK, Live
  <2>5. t.stage = "collision" => row'[t.call.id] = row[t.call.id]
    BY <2>1, <2>2 DEF TxOK
  <2>6. /\ t.at \in t.holds => row'[t.at] = row[t.at]
        /\ t.source \in t.holds => row'[t.source] = row[t.source]
    BY <2>2
  <2> HIDE DEF t
  <2>7. TxOK(t) /\ t \in Tx
    BY <2>1 DEF TxOK
  <2>8. t.pc = "commit" =>
       \/ /\ t.call.op = "upsert" /\ t.result = "new" /\ t.at \in born' \ Live'
       \/ /\ t.call.op = "upsert" /\ t.result = (IF row'[t.at].status = "resolved" THEN "regression" ELSE "seen")
          /\ t.at \in t.holds /\ row'[t.at].fingerprint = t.call.fingerprint
       \/ /\ t.call.op = "override" /\ t.stage = "collision" /\ t.result = "done"
          /\ t.source # 0 => /\ t.source \in t.holds \ {t.call.id}
                             /\ row'[t.source].fingerprint = t.call.fingerprint
    BY <2>4, <2>6, <2>7 DEF TxOK
  <2>9. t.stage = "collision" =>
       /\ t.call.op = "override" /\ t.call.id \in t.holds
       /\ row'[t.call.id].fingerprint # t.call.fingerprint
    BY <2>5, <2>7 DEF TxOK
  <2> QED
    BY <2>1, <2>3, <2>7, <2>8, <2>9 DEF TxOK
<1>3. TxOK(tx[w])'
  <2>1. NoTx.pc = "idle" /\ NoTx.call = NoCall /\ NoTx.holds = {} /\ NoTx.stage = None
        /\ NoTx.source = 0 /\ NoTx \in Tx
    BY Calling DEF NoTx, TxOK
  <2> QED
    BY <1>1, <2>1 DEF TxOK, None
<1>4. TxInv'
  BY <1>1, <1>2, <1>3 DEF TxInv
<1>5. ~Taking(NoTx)
  BY DEF Taking, NoTx
<1>6. \A x \in Writers : Taking(tx'[x]) => x # w /\ Taking(tx[x]) /\ tx'[x] = tx[x]
  BY <1>1, <1>5
<1>7. \A x, v \in Writers : x # v => tx'[x].holds \cap tx'[v].holds = {}
  BY <1>1 DEF PgInv, ExclusiveInv
<1>8. \A x, v \in Writers : x # v /\ Taking(tx'[x]) /\ Taking(tx'[v]) =>
        /\ tx'[x].call.fingerprint # tx'[v].call.fingerprint
        /\ tx'[x].result = "new" /\ tx'[v].result = "new" => tx'[x].at # tx'[v].at
  BY <1>6 DEF PgInv, ExclusiveInv
<1>9. \A f : Holders(f)' = HoldersIn(row', f)
  BY DEF Holders, Live, HoldersIn
<1>10. \A x \in Writers : Taking(tx'[x]) => Holders(tx[x].call.fingerprint)' = {}
  BY <1>6, <1>9
<1>11. ExclusiveInv'
  BY <1>6, <1>7, <1>8, <1>10 DEF ExclusiveInv, Taking
<1> QED
  BY <1>4, <1>11 DEF PgInv

\* A row that changes, or disappears, and keeps its fingerprint.
LEMMA RowChanged ==
  ASSUME PgInv, NEW i \in Live, NEW x, row' = [row EXCEPT ![i] = x], UNCHANGED born,
         x = NoIssue \/ (x \in Issue /\ x.fingerprint = row[i].fingerprint)
  PROVE  /\ RowsInv'
         /\ \A f : HoldersIn(row', f) \subseteq Holders(f)
         /\ \A j \in Ids : row[j] = NoIssue => row'[j] = NoIssue
<1>1. row'[i] = x /\ (\A j \in Ids \ {i} : row'[j] = row[j]) /\ row' \in [Ids -> Issue \cup {NoIssue}]
  BY DEF PgInv, RowsInv, Live
<1>2. row[i] # NoIssue /\ i \in Ids
  BY DEF Live
<1>3. Live' \subseteq Live
  BY <1>1, <1>2 DEF Live
<1>4. \A j \in Live' : row'[j].fingerprint = row[j].fingerprint
  BY <1>1, <1>3 DEF Live
<1>5. RowsInv'
  BY <1>1, <1>3, <1>4 DEF PgInv, RowsInv
<1>6. \A f : HoldersIn(row', f) \subseteq Holders(f)
  BY <1>1, <1>2 DEF HoldersIn, Holders, Live
<1> QED
  BY <1>1, <1>2, <1>5, <1>6

\* set_status, mute and delete: one statement on a row nobody else has locked.
LEMMA StatementStep ==
  ASSUME PgInv, NEW w \in Writers, Statement(w)
  PROVE  PgInv' /\ Refined
<1> DEFINE t == tx[w]
           c == t.call
           i == c.id
<1>1. TxOK(t) /\ c \in Calls /\ c.op \in {"set_status", "delete"} /\ t.pc = "statement"
  BY DEF PgInv, TxInv, TxOK, Statement
<1>2. i \in Ids /\ (c.op = "set_status" => c.status \in Statuses)
  BY <1>1, Calling
<1>3. [x \in Writers |-> tx[x].call][w] = c
  OBVIOUS
<1>4. {"done", "missing"} \subseteq Answers
  BY DEF Answers
<1>5. CASE i \notin Live
  <2>1. CASE c.op = "delete"
    <3>1. Quit(w, "done")
      BY <1>5, <2>1 DEF Statement
    <3>2. PgInv' /\ Store!Return(w, "done") /\ row' = row
      BY <1>4, <3>1, QuitStep
    <3>3. row' = [row EXCEPT ![i] = Store!NoIssue]
      BY <1>2, <1>5, <3>2, SameRows DEF PgInv, RowsInv, Live
    <3>4. Store!Delete(w)
      BY <1>3, <2>1, <3>2, <3>3 DEF Store!Delete
    <3> QED
      BY <3>2, <3>4 DEF Refined, Store!Next
  <2>2. CASE c.op = "set_status"
    <3>1. Quit(w, "missing")
      BY <1>5, <2>2 DEF Statement
    <3>2. PgInv' /\ Store!Return(w, "missing") /\ row' = row
      BY <1>4, <3>1, QuitStep
    <3>3. i \notin Store!Live
      BY <1>5, SameRows
    <3>4. Store!SetStatus(w)
      BY <1>3, <2>2, <3>2, <3>3 DEF Store!SetStatus
    <3> QED
      BY <3>2, <3>4 DEF Refined, Store!Next
  <2> QED
    BY <1>1, <2>1, <2>2
<1>6. CASE i \in Live
  <2>1. Return(w, "done") /\ UNCHANGED born
    BY <1>6 DEF Statement
  <2>2. row' = IF c.op = "delete" THEN [row EXCEPT ![i] = NoIssue]
               ELSE [row EXCEPT ![i].status = c.status]
    BY <1>6 DEF Statement
  <2>3. \A v \in Writers \ {w} : i \notin tx[v].holds
    BY <1>1 DEF Statement, Blockers, LockedBy
  <2> DEFINE y == [row[i] EXCEPT !.status = c.status]
             x == IF c.op = "delete" THEN NoIssue ELSE y
  <2>4. row[i] \in Issue
    BY <1>6, LiveRows DEF PgInv
  <2>5. x = NoIssue \/ (x \in Issue /\ x.fingerprint = row[i].fingerprint)
    <3>1. CASE c.op = "delete"
      BY <3>1
    <3>2. CASE c.op # "delete"
      <4> DEFINE r == row[i]
                 st == c.status
      <4>1. r \in Issue /\ st \in Statuses
        BY <1>1, <1>2, <2>4, <3>2
      <4> HIDE DEF r, st
      <4>2. LET z == [r EXCEPT !.status = st] IN z \in Issue /\ z.fingerprint = r.fingerprint
        BY <4>1 DEF Issue
      <4> QED
        BY <3>2, <4>2 DEF r, st
    <3> QED
      BY <3>1, <3>2
  <2>6. row' = [row EXCEPT ![i] = x]
    BY <2>2
  <2>7. /\ RowsInv'
        /\ \A f : HoldersIn(row', f) \subseteq Holders(f)
        /\ \A j \in Ids : row[j] = NoIssue => row'[j] = NoIssue
    <3> HIDE DEF x
    <3> QED
      BY <1>6, <2>1, <2>5, <2>6, RowChanged
  <2>8. \A v \in Writers \ {w} : \A j \in tx[v].holds : row'[j] = row[j]
    BY <2>3, <2>6 DEF PgInv, TxInv, TxOK, RowsInv, Live
  <2>9. \A v \in Writers : Taking(tx[v]) =>
          /\ Holders(tx[v].call.fingerprint) = {}
          /\ tx[v].result = "new" => row[tx[v].at] = NoIssue /\ tx[v].at \in Ids
    BY DEF PgInv, TxInv, TxOK, ExclusiveInv, RowsInv, Live, Taking
  <2>10. \A v \in Writers \ {w} : Taking(tx[v]) =>
          /\ HoldersIn(row', tx[v].call.fingerprint) = {}
          /\ tx[v].result = "new" => row'[tx[v].at] = NoIssue
    BY <2>7, <2>9
  <2>11. PgInv'
    BY <1>4, <2>1, <2>7, <2>8, <2>10, WriteStep
  <2>12. Store!Return(w, "done")
    BY <1>4, <2>1, ReturnStep
  <2>13. CASE c.op = "delete"
    <3>1. Store!Delete(w)
      BY <1>3, <2>2, <2>12, <2>13, SameRows DEF Store!Delete
    <3> QED
      BY <2>11, <3>1 DEF Refined, Store!Next
  <2>14. CASE c.op = "set_status"
    <3>1. i \in Store!Live
      BY <1>6, SameRows
    <3>2. Store!SetStatus(w)
      BY <1>3, <2>2, <2>12, <2>14, <3>1 DEF Store!SetStatus
    <3> QED
      BY <2>11, <3>2 DEF Refined, Store!Next
  <2> QED
    BY <1>1, <2>13, <2>14
<1> QED
  BY <1>5, <1>6

\* Who is at the commit of an override gives the fingerprint to its target, and
\* whoever had it is gone.
LEMMA TargetChanged ==
  ASSUME PgInv, NEW i \in Live, NEW f, NEW y \in Issue, y.fingerprint = f, UNCHANGED born,
         row' = [j \in Ids |-> IF j = i THEN y ELSE IF j \in Holders(f) THEN NoIssue ELSE row[j]]
  PROVE  /\ RowsInv'
         /\ \A g : g # f => HoldersIn(row', g) \subseteq Holders(g)
         /\ \A j \in Ids : row[j] = NoIssue => row'[j] = NoIssue
<1>1. /\ row'[i] = y /\ i \in Ids /\ row[i] # NoIssue
      /\ \A j \in Ids \ {i} : row'[j] = IF j \in Holders(f) THEN NoIssue ELSE row[j]
  BY DEF Live
<1>2. \A j \in Live' \ {i} : j \in Live /\ row'[j] = row[j] /\ row[j].fingerprint # f
  BY <1>1 DEF Live, Holders
<1>3. \A j, k \in Live' : row'[j].fingerprint = row'[k].fingerprint => j = k
  BY <1>1, <1>2 DEF PgInv, RowsInv
<1>4. row' \in [Ids -> Issue \cup {NoIssue}]
  BY DEF PgInv, RowsInv
<1>5. Live' \subseteq Live
  BY <1>2
<1>6. RowsInv'
  BY <1>3, <1>4, <1>5 DEF PgInv, RowsInv
<1>7. \A g : g # f => HoldersIn(row', g) \subseteq Holders(g)
  BY <1>1, <1>2 DEF HoldersIn, Holders, Live
<1>8. \A j \in Ids : row[j] = NoIssue => row'[j] = NoIssue
  BY <1>1
<1> QED
  BY <1>6, <1>7, <1>8

\* The commit of an upsert: one more issue, or one more event.
LEMMA UpsertCommits ==
  ASSUME PgInv, NEW w \in Writers, Commit(w), tx[w].call.op = "upsert"
  PROVE  PgInv' /\ Refined
<1> DEFINE t == tx[w]
           f == t.call.fingerprint
           i == t.at
<1>1. /\ TxOK(t) /\ t \in Tx /\ t.pc = "commit" /\ t.result \in Answers /\ UNCHANGED born
      /\ Return(w, t.result) /\ row' = Outcome(t)
  BY DEF PgInv, TxInv, TxOK, Tx, Commit
<1>2. PICK result \in Answers : result = t.result
  BY <1>1
<1>8. Store!Return(w, result)
  BY <1>1, <1>2, ReturnStep
<1>3. [x \in Writers |-> tx[x].call][w] = t.call
  OBVIOUS
<1>4. f \in Fingerprints
  BY <1>1, Calling DEF TxOK
<1>5. \A v \in Writers : Taking(tx[v]) =>
        /\ Holders(tx[v].call.fingerprint) = {}
        /\ tx[v].result = "new" => row[tx[v].at] = NoIssue /\ tx[v].at \in Ids
  BY DEF PgInv, TxInv, TxOK, ExclusiveInv, RowsInv, Live, Taking
<1>6. CASE t.result = "new"
  <2> DEFINE n == [fingerprint |-> f, status |-> "unresolved", event_count |-> 1]
  <2>1. n \in Issue
    BY <1>4 DEF Issue, Statuses
  <2>2. row' = [row EXCEPT ![i] = n]
    BY <1>1, <1>6 DEF Outcome
  <2>3. i \in born \ Live /\ i \in Ids /\ row[i] = NoIssue
    BY <1>1, <1>6 DEF TxOK, PgInv, RowsInv, Live
  <2>4. Taking(t) /\ Holders(f) = {}
    BY <1>1, <1>6 DEF Taking, PgInv, ExclusiveInv
  <2>5. n.fingerprint = f
    OBVIOUS
  <2>6. Store!NewIssue(f) = n
    BY DEF Store!NewIssue
  <2> HIDE DEF n
  <2>7. row'[i] = n /\ (\A j \in Ids \ {i} : row'[j] = row[j]) /\ row' \in [Ids -> Issue \cup {NoIssue}]
    BY <2>1, <2>2, <2>3 DEF PgInv, RowsInv
  <2>8. Live' \subseteq Live \cup {i}
    BY <2>7 DEF Live
  <2>9. \A j \in Live : row[j].fingerprint # f
    BY <2>4 DEF Holders
  <2>10. RowsInv'
    <3>1. \A j \in Live' \ {i} : j \in Live /\ row'[j] = row[j]
      BY <2>7, <2>8 DEF Live
    <3>2. \A j, k \in Live' : row'[j].fingerprint = row'[k].fingerprint => j = k
      BY <2>5, <2>7, <2>9, <3>1 DEF PgInv, RowsInv
    <3> QED
      BY <1>1, <2>3, <2>7, <2>8, <3>2 DEF PgInv, RowsInv
  <2>11. \A v \in Writers \ {w} : \A j \in tx[v].holds : row'[j] = row[j]
    BY <2>3, <2>7 DEF PgInv, TxInv, TxOK, Live
  <2>12. \A v \in Writers \ {w} : Taking(tx[v]) =>
           tx[v].call.fingerprint # f /\ (tx[v].result = "new" => tx[v].at # i)
    BY <1>6, <2>4 DEF PgInv, ExclusiveInv
  <2>13. \A g : g # f => HoldersIn(row', g) \subseteq Holders(g)
    BY <2>5, <2>7 DEF HoldersIn, Holders, Live
  <2>14. \A v \in Writers \ {w} : Taking(tx[v]) =>
          /\ HoldersIn(row', tx[v].call.fingerprint) = {}
          /\ tx[v].result = "new" => row'[tx[v].at] = NoIssue
    BY <1>5, <2>7, <2>12, <2>13
  <2>15. PgInv'
    BY <1>1, <2>10, <2>11, <2>14, WriteStep
  <2>16. i \in Ids \ Store!Live /\ Store!Holders(f) = {}
    BY <2>3, <2>4, SameRows
  <2>17. row' = [row EXCEPT ![i] = Store!NewIssue(f)]
    BY <2>2, <2>6
  <2>18. Store!Upsert(w)
    BY <1>2, <1>8, <1>3, <1>6, <2>16, <2>17 DEF Store!Upsert
  <2> QED
    BY <2>15, <2>18 DEF Refined, Store!Next
<1>7. CASE t.result # "new"
  <2>1. /\ i \in t.holds /\ row[i].fingerprint = f
        /\ t.result = (IF row[i].status = "resolved" THEN "regression" ELSE "seen")
    BY <1>1, <1>7 DEF TxOK
  <2>2. i \in Live
    BY <1>1, <2>1 DEF TxOK
  <2> DEFINE r == row[i]
             b == bump_existing(r)
  <2>3. r \in Issue
    BY <2>2, LiveRows DEF PgInv
  <2>4. b \in Issue /\ b.fingerprint = r.fingerprint
    <3> DEFINE n == r.event_count + 1
               st == IF r.status = "resolved" THEN "unresolved" ELSE r.status
    <3>1. n \in Nat /\ st \in Statuses
      BY <2>3 DEF Issue, Statuses
    <3>2. b = [r EXCEPT !.event_count = n, !.status = st]
      BY DEF bump_existing
    <3> HIDE DEF r, b, n, st
    <3> QED
      BY <2>3, <3>1, <3>2 DEF Issue
  <2>5. row' = [row EXCEPT ![i] = b]
    BY <1>1, <1>7 DEF Outcome
  <2>6. Store!Bumped(r) = b
    BY DEF Store!Bumped, bump_existing
  <2> HIDE DEF b
  <2>7. /\ RowsInv'
        /\ \A g : HoldersIn(row', g) \subseteq Holders(g)
        /\ \A j \in Ids : row[j] = NoIssue => row'[j] = NoIssue
    BY <1>1, <2>2, <2>4, <2>5, RowChanged
  <2>8. \A v \in Writers \ {w} : \A j \in tx[v].holds : row'[j] = row[j]
    <3>1. \A v \in Writers \ {w} : i \notin tx[v].holds
      BY <2>1 DEF PgInv, ExclusiveInv
    <3> QED
      BY <2>5, <3>1 DEF PgInv, TxInv, TxOK, RowsInv, Live
  <2>9. \A v \in Writers \ {w} : Taking(tx[v]) =>
          /\ HoldersIn(row', tx[v].call.fingerprint) = {}
          /\ tx[v].result = "new" => row'[tx[v].at] = NoIssue
    BY <1>5, <2>7
  <2>10. PgInv'
    BY <1>1, <2>7, <2>8, <2>9, WriteStep
  <2>11. i \in Store!Holders(f)
    BY <2>1, <2>2, SameRows DEF Holders
  <2>12. row' = [row EXCEPT ![i] = Store!Bumped(row[i])]
    BY <2>5, <2>6
  <2>13. Store!Upsert(w)
    BY <1>2, <1>8, <1>3, <2>1, <2>11, <2>12 DEF Store!Upsert, Store!Return
  <2> QED
    BY <2>10, <2>13 DEF Refined, Store!Next
<1> QED
  BY <1>6, <1>7

\* The commit of an override: the target has the fingerprint, and the count of
\* the issue that had it.
LEMMA OverrideCommits ==
  ASSUME PgInv, NEW w \in Writers, Commit(w), tx[w].call.op = "override"
  PROVE  PgInv' /\ Refined
<1> DEFINE t == tx[w]
           f == t.call.fingerprint
           i == t.call.id
           k == t.source
<1>1. /\ TxOK(t) /\ t \in Tx /\ t.pc = "commit" /\ UNCHANGED born
      /\ Return(w, t.result) /\ row' = Outcome(t)
  BY DEF PgInv, TxInv, TxOK, Tx, Commit
<1>2. /\ t.result = "done" /\ i \in t.holds /\ i \in Live /\ i \in Ids /\ "done" \in Answers
      /\ k # 0 => k \in t.holds \ {i} /\ row[k].fingerprint = f /\ k \in Live /\ k \in Ids
  BY <1>1 DEF TxOK, Live, Answers
<1>3. f \in Fingerprints
  BY <1>1, Calling DEF TxOK
<1>4. Store!Return(w, "done")
  BY <1>1, <1>2, ReturnStep
<1>5. \A v \in Writers : Taking(tx[v]) =>
        /\ Holders(tx[v].call.fingerprint) = {}
        /\ tx[v].result = "new" => row[tx[v].at] = NoIssue /\ tx[v].at \in Ids
  BY DEF PgInv, TxInv, TxOK, ExclusiveInv, RowsInv, Live, Taking
<1>6. \A v \in Writers \ {w} : i \notin tx[v].holds
  BY <1>2 DEF PgInv, ExclusiveInv
<1>7. row[i] \in Issue /\ (k # 0 => row[k] \in Issue)
  BY <1>2, LiveRows DEF PgInv
<1>8. Holders(f) \ {i} = IF k = 0 THEN {} ELSE {k}
  <2>1. CASE k = 0
    <3>1. Holders(f) = {}
      BY <1>1, <1>2, <2>1 DEF Taking, PgInv, ExclusiveInv
    <3> QED
      BY <2>1, <3>1
  <2>2. CASE k # 0
    <3>1. \A j \in Holders(f) : j = k
      BY <1>2, <2>2 DEF Holders, PgInv, RowsInv
    <3>2. k \in Holders(f) /\ k # i
      BY <1>2, <2>2 DEF Holders
    <3> QED
      BY <2>2, <3>1, <3>2
  <2> QED
    BY <2>1, <2>2
<1> DEFINE count == IF k = 0 THEN row[i].event_count ELSE row[i].event_count + row[k].event_count
           y == [row[i] EXCEPT !.fingerprint = f, !.event_count = count]
<1>9. count \in Nat
  BY <1>7 DEF Issue
<1>10. y \in Issue /\ y.fingerprint = f
  <2> DEFINE r == row[i]
  <2>1. r \in Issue
    BY <1>7
  <2> HIDE DEF r, count, f
  <2>2. LET z == [r EXCEPT !.fingerprint = f, !.event_count = count] IN z \in Issue /\ z.fingerprint = f
    BY <1>3, <1>9, <2>1 DEF Issue
  <2> QED
    BY <2>2 DEF r
<1>11. row' = [j \in Ids |-> IF j = i THEN y ELSE IF j \in Holders(f) THEN NoIssue ELSE row[j]]
  <2>1. CASE k = 0
    <3>1. row' = [row EXCEPT ![i].fingerprint = f]
      BY <1>1, <1>2, <2>1 DEF Outcome
    <3>2. y = [row[i] EXCEPT !.fingerprint = f]
      <4> DEFINE r == row[i]
      <4>1. r \in Issue
        BY <1>7
      <4> HIDE DEF r, f
      <4>2. [r EXCEPT !.fingerprint = f, !.event_count = r.event_count] = [r EXCEPT !.fingerprint = f]
        BY <4>1 DEF Issue
      <4>3. count = r.event_count
        BY <2>1 DEF r
      <4> QED
        BY <4>2, <4>3 DEF r
    <3> HIDE DEF y
    <3>3. row' = [row EXCEPT ![i] = y]
      BY <3>1, <3>2
    <3>4. \A j \in Ids : row'[j] = IF j = i THEN y ELSE IF j \in Holders(f) THEN NoIssue ELSE row[j]
      BY <1>8, <2>1, <3>3 DEF PgInv, RowsInv
    <3>5. row' = [j \in Ids |-> row'[j]]
      BY <3>3 DEF PgInv, RowsInv
    <3> QED
      BY <3>4, <3>5
  <2>2. CASE k # 0
    <3>1. row' = [row EXCEPT ![k] = NoIssue, ![i].fingerprint = f,
                             ![i].event_count = Folded(row[i], row[k])]
      BY <1>1, <1>2, <2>2 DEF Outcome
    <3>2. Folded(row[i], row[k]) = count
      BY <2>2 DEF Folded
    <3>3. row' = [row EXCEPT ![k] = NoIssue, ![i] = y]
      BY <1>2, <2>2, <3>1, <3>2
    <3> HIDE DEF y
    <3>4. \A j \in Ids : row'[j] = IF j = i THEN y ELSE IF j \in Holders(f) THEN NoIssue ELSE row[j]
      BY <1>2, <1>8, <2>2, <3>3 DEF PgInv, RowsInv
    <3>5. row' = [j \in Ids |-> row'[j]]
      BY <3>3 DEF PgInv, RowsInv
    <3> QED
      BY <3>4, <3>5
  <2> QED
    BY <2>1, <2>2
<1>12. row' = Overridden(i, f)
  <2>1. Store!Holders(f) = Holders(f) /\ Store!NoIssue = NoIssue
    BY SameRows
  <2>2. count = IF Store!Holders(f) \ {i} = {} THEN row[i].event_count
                ELSE row[i].event_count + row[CHOOSE j \in Store!Holders(f) \ {i} : TRUE].event_count
    <3>1. CASE k = 0
      BY <1>8, <2>1, <3>1
    <3>2. CASE k # 0
      <4>1. Store!Holders(f) \ {i} = {k}
        BY <1>8, <2>1, <3>2
      <4>2. (CHOOSE j \in Store!Holders(f) \ {i} : TRUE) = k
        BY <4>1
      <4> QED
        BY <3>2, <4>1, <4>2
    <3> QED
      BY <3>1, <3>2
  <2> HIDE DEF count
  <2> QED
    BY <1>11, <2>1, <2>2 DEF Overridden
<1> HIDE DEF y
<1>13. /\ RowsInv'
       /\ \A g : g # f => HoldersIn(row', g) \subseteq Holders(g)
       /\ \A j \in Ids : row[j] = NoIssue => row'[j] = NoIssue
  BY <1>1, <1>2, <1>10, <1>11, TargetChanged
<1>14. \A v \in Writers \ {w} : \A j \in tx[v].holds : row'[j] = row[j]
  <2>1. \A v \in Writers \ {w} : \A j \in tx[v].holds : j \in Ids /\ j # i /\ j # k
    BY <1>1, <1>2, <1>6, PgAssumption DEF PgInv, TxInv, TxOK, ExclusiveInv, Live
  <2> QED
    BY <1>8, <1>11, <2>1
<1>15. \A v \in Writers \ {w} : Taking(tx[v]) => tx[v].call.fingerprint # f
  <2>1. CASE k = 0
    BY <1>1, <1>2, <2>1 DEF Taking, PgInv, ExclusiveInv
  <2>2. CASE k # 0
    BY <1>5, <1>8, <2>2
  <2> QED
    BY <2>1, <2>2
<1>16. \A v \in Writers \ {w} : Taking(tx[v]) =>
         /\ HoldersIn(row', tx[v].call.fingerprint) = {}
         /\ tx[v].result = "new" => row'[tx[v].at] = NoIssue
  BY <1>5, <1>13, <1>15
<1>17. PgInv'
  BY <1>1, <1>2, <1>13, <1>14, <1>16, WriteStep
<1>18. Store!Override(w)
  BY <1>2, <1>4, <1>12, StoreOverride
<1> QED
  BY <1>17, <1>18 DEF Refined, Store!Next

\* Every step of a writer preserves the invariant and is one of the store.
LEMMA WriterSteps ==
  ASSUME PgInv, NEW w \in Writers, WriterStep(w)
  PROVE  PgInv' /\ Refined
<1>1. CASE Commit(w)
  <2>1. tx[w].call.op \in {"upsert", "override"}
    BY <1>1 DEF PgInv, TxInv, TxOK, Commit
  <2> QED
    BY <1>1, <2>1, UpsertCommits, OverrideCommits
<1> QED
  BY <1>1, ReadStep, LockStep, InsertStep, RenameStep, StatementStep, DeadlockStep DEF WriterStep

-----------------------------------------------------------------------------
(* The stores begin alike.                                                 *)

\* A set with at most one element.
LEMMA AtMostOne ==
  ASSUME NEW S, IsFiniteSet(S), Cardinality(S) <= 1, NEW a \in S, NEW b \in S
  PROVE  a = b
<1> SUFFICES ASSUME a # b PROVE FALSE
  OBVIOUS
<1>1. IsFiniteSet(S \ {a}) /\ Cardinality(S \ {a}) = Cardinality(S) - 1 /\ Cardinality(S) \in Nat
  BY FS_RemoveElement, FS_CardinalityType
<1>2. Cardinality(S \ {a}) = 0
  BY <1>1, FS_CardinalityType
<1>3. S \ {a} = {}
  BY <1>1, <1>2, FS_EmptySet
<1> QED
  BY <1>3

\* The tables at first.
LEMMA InitPg == Init => PgInv /\ Store!Init
<1> SUFFICES ASSUME Init PROVE PgInv /\ Store!Init
  OBVIOUS
<1>1. InitIssues
  BY DEF Init
<1>2. row \in [Ids -> Issue \cup {NoIssue}]
  <2>1. \A x \in [fingerprint: Fingerprints, event_count: {1}, status: {"unresolved", "resolved"}] :
          x \in Issue
    BY DEF Issue, Statuses
  <2> QED
    BY <1>1, <2>1 DEF InitIssues
<1>3. \A i, j \in Live : row[i].fingerprint = row[j].fingerprint => i = j
  <2> SUFFICES ASSUME NEW i \in Live, NEW j \in Live, row[i].fingerprint = row[j].fingerprint
               PROVE  i = j
    OBVIOUS
  <2> DEFINE f == row[i].fingerprint
             S == Holders(f)
  <2>1. row[i] \in Issue
    BY <1>2 DEF Live
  <2>2. f \in Fingerprints
    BY <2>1 DEF Issue
  <2>3. Cardinality(S) <= 1 /\ i \in S /\ j \in S
    BY <1>1, <2>2 DEF InitIssues, Holders
  <2>4. IsFiniteSet(S)
    BY PgAssumption, FS_Subset DEF Holders, Live
  <2> HIDE DEF S
  <2> QED
    BY <2>3, <2>4, AtMostOne
<1>4. RowsInv
  BY <1>1, <1>2, <1>3 DEF RowsInv, InitIssues, Live
<1>5. TxInv
  BY <1>1, Calling DEF TxInv, InitIssues, Answers
<1>6. ExclusiveInv
  <2>1. ~Taking(NoTx) /\ NoTx.holds = {}
    BY DEF Taking, NoTx
  <2>2. \A w \in Writers : tx[w] = NoTx
    BY <1>1 DEF InitIssues
  <2> QED
    BY <2>1, <2>2 DEF ExclusiveInv
<1>7. Store!Init
  <2>1. Store!Issue = Issue /\ Store!None = None
    BY DEF Store!Issue, Issue, Store!Statuses, Statuses, Store!None, None
  <2>2. [w \in Writers |-> tx[w].call] = [w \in Writers |-> Store!NoCall]
    <3>1. \A w \in Writers : tx[w].call = NoCall
      BY <1>1 DEF InitIssues, NoTx
    <3> QED
      BY <3>1, SameRows
  <2>3. answer = [w \in Writers |-> Store!None]
    BY <1>1, <2>1 DEF InitIssues
  <2> QED
    BY <1>2, <1>3, <2>1, <2>2, <2>3, SameRows DEF Store!Init
<1> QED
  BY <1>4, <1>5, <1>6, <1>7 DEF PgInv

\* Steps of the accounts leave the issues alone, and the batches never change.
LEMMA PgSteps ==
  ASSUME PgInv, BatchInv, [Next]_vars
  PROVE  PgInv' /\ BatchInv' /\ [Store!Next]_(Store!vars)
<1>1. BatchInv'
  BY DEF BatchInv, Next, vars, avars, ClientStep, Execute, CommitAccount, Victim
<1>2. ASSUME NEW w \in Writers, batch.about = "issues", WriterStep(w) \/ Invoke(w, batch.calls[w])
      PROVE  PgInv' /\ Refined
  <2>1. batch.calls[w] \in Calls
    BY <1>2, BatchesAssumption DEF BatchInv
  <2>2. CASE WriterStep(w)
    BY <2>2, WriterSteps
  <2>3. CASE Invoke(w, batch.calls[w])
    BY <2>1, <2>3, InvokeStep
  <2> QED
    BY <1>2, <2>2, <2>3
<1>3. ASSUME UNCHANGED ivars
      PROVE  PgInv' /\ Refined
  <2>1. UNCHANGED <<row, born, tx, answer>>
    BY <1>3 DEF ivars
  <2>2. RowsInv' /\ TxInv'
    BY <2>1 DEF PgInv, RowsInv, TxInv, TxOK, Live
  <2>3. ExclusiveInv'
    <3>1. \A f : Holders(f)' = Holders(f)
      BY <2>1 DEF Holders, Live
    <3>2. \A w \in Writers : Taking(tx[w]) => Holders(tx[w].call.fingerprint)' = {}
      BY <2>1, <3>1 DEF PgInv, ExclusiveInv
    <3> QED
      BY <2>1, <3>2 DEF PgInv, ExclusiveInv, Taking
  <2>4. UNCHANGED Store!vars
    BY <2>1 DEF Store!vars
  <2> QED
    BY <2>2, <2>3, <2>4 DEF PgInv, Refined
<1>4. PgInv' /\ Refined
  BY <1>2, <1>3 DEF Next, vars
<1> QED
  BY <1>1, <1>4 DEF Refined

\* The invariant is an invariant of the specification.
LEMMA PgInductive == Spec => [](PgInv /\ BatchInv)
<1>1. Init => PgInv /\ BatchInv
  BY InitPg DEF Init, BatchInv
<1>2. (PgInv /\ BatchInv) /\ [Next]_vars => (PgInv /\ BatchInv)'
  BY PgSteps
<1> QED
  BY <1>1, <1>2, PTL DEF Spec

\* Transactions that overlap under READ COMMITTED, with their row locks, their
\* waits for unique keys, lost races, deadlocks and retries, behave as the store
\* that does each call in one step (upsert_by_fingerprint, override_fingerprint,
\* set_status, delete): an event counts once, a new issue and a regression are
\* reported to one caller, no merge loses a count and no fingerprint gets two
\* issues.
THEOREM IssuesActAtomically == Spec => ActsAtomically
<1>1. Init => Store!Init
  BY InitPg
<1>2. PgInv /\ BatchInv /\ [Next]_vars => [Store!Next]_(Store!vars)
  BY PgSteps
<1> QED
  BY <1>1, <1>2, PgInductive, PTL DEF Spec, ActsAtomically, Store!Spec

\* A fingerprint never has two issues, and the tables and transactions keep their
\* types (upsert_once, override_fingerprint_once).
THEOREM OneIssueEach ==
  Spec => [](/\ IssuesTypeOK
             /\ \A i, j \in Live : row[i].fingerprint = row[j].fingerprint => i = j)
<1>1. PgInv => IssuesTypeOK /\ \A i, j \in Live : row[i].fingerprint = row[j].fingerprint => i = j
  BY DEF PgInv, RowsInv, TxInv, TxOK, IssuesTypeOK
<1> QED
  BY <1>1, PgInductive, PTL

=============================================================================
