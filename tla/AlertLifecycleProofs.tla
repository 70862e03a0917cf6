------------------------ MODULE AlertLifecycleProofs ------------------------
(***************************************************************************)
(* AlertLifecycle keeps its types, and no alert fires untracked, for any   *)
(* number of issues, destinations, intervals and faults.                   *)
(***************************************************************************)
EXTENDS AlertTiming, FiniteSetTheorems, TLAPS

(* What the code between two calls relies on.  Only the holder of the      *)
(* mutex changes the table, so what it found there stays: before closing,  *)
(* the row carries the old identity; once that is closed, at most the new  *)
(* identity can be firing; the row is saved before the alert is sent.      *)
HolderKnows ==
    LET i == worker.issue IN
    /\ worker.pc = "closing" => Tracked(i) /\ table[i].id = worker.old.id
    /\ worker.pc = "saving" =>
           \A id \in Identities : Firing(i, id) => id = worker.new.id
    /\ worker.pc \in {"sending", "marking"} =>
           Tracked(i) /\ table[i].id = worker.new.id
    /\ worker.pc = "removing" => \A id \in Identities : ~Firing(i, id)

AlertInv ==
    /\ TypeOK
    /\ NoUntrackedFiring
    /\ ~late => wire = {} /\ HolderKnows

-----------------------------------------------------------------------------
(* Rows: a fresh alert is a row, a row is not the absent one, and ageing   *)
(* keeps both.                                                             *)
LEMMA RowFacts ==
    /\ \A row \in Row : row # NoRow
    /\ \A row \in Row : Aged(row) \in Row /\ Aged(row).id = row.id
    /\ Aged(NoRow) = NoRow
    /\ \A row \in Row :
           [row EXCEPT !.sent = 0] \in Row /\ [row EXCEPT !.sent = 0].id = row.id
    /\ \A s \in Intervals : Lease(s) \in Nat
<1>1. \A row \in Row : row # NoRow
  BY AlertAssumption DEF AlertAssumption, Row, NoRow, Identities
<1>2. \A row \in Row : Aged(row) \in Row /\ Aged(row).id = row.id
  <2>1. SUFFICES ASSUME NEW row \in Row
                 PROVE  Aged(row) \in Row /\ Aged(row).id = row.id
    OBVIOUS
  <2>2. Down(row.left) \in Nat
    BY DEF Row, Down
  <2>3. (IF row.sent = Never THEN Never
         ELSE IF row.sent < Max(Intervals) THEN row.sent + 1 ELSE row.sent)
            \in {Never} \cup Nat
    BY DEF Row, Never
  <2>4. QED
    BY <2>2, <2>3 DEF Row, Aged
<1>3. Aged(NoRow) = NoRow
  <2>1. NoRow.left = 0 /\ NoRow.sent = Never /\ Down(0) = 0
    BY DEF NoRow, Down
  <2>2. Aged(NoRow) = [NoRow EXCEPT !.left = 0, !.sent = Never]
    BY <2>1 DEF Aged
  <2>3. QED
    BY <2>2 DEF NoRow
<1>4. \A row \in Row :
         [row EXCEPT !.sent = 0] \in Row /\ [row EXCEPT !.sent = 0].id = row.id
  BY DEF Row
<1>5. \A s \in Intervals : Lease(s) \in Nat
  BY AlertAssumption DEF AlertAssumption, Lease
<1>6. QED
  BY <1>1, <1>2, <1>3, <1>4, <1>5

(* What notify and reconcile compute from valid settings is a valid row.   *)
LEMMA FreshRow ==
    ASSUME labels \in LabelSets, interval \in Intervals,
           NEW c \in Config
    PROVE  Fresh(c) \in Row
<1>1. Lease(interval) \in Nat
  BY RowFacts
<1>2. Identity(c) \in Identities
  BY DEF Identity, Identities, Config
<1>3. QED
  BY <1>1, <1>2 DEF Fresh, Row

(* A holder that has just taken the mutex is well-typed.                   *)
LEMMA HolderTypes ==
    ASSUME NEW i \in Issues, NEW new \in Row
    PROVE  /\ Free \in Worker
           /\ \A old \in Row : Removing(i, old) \in Worker
           /\ \A by \in {"task", "sweep"}, first \in {"closing", "saving"},
                 old \in Row \cup {NoRow} :
                 Replacing(by, first, i, old, new) \in Worker
<1>1. Free \in Worker
  BY DEF Free, Worker
<1>2. \A old \in Row : Removing(i, old) \in Worker
  BY DEF Removing, Worker
<1>3. \A by \in {"task", "sweep"}, first \in {"closing", "saving"},
         old \in Row \cup {NoRow} : Replacing(by, first, i, old, new) \in Worker
  BY DEF Replacing, Worker
<1>4. QED
  BY <1>1, <1>2, <1>3

-----------------------------------------------------------------------------
(* Types, one lemma per group of actions.                                  *)

(* What TypeOK says of the holder and of the sweep.                        *)
HolderOK(w) ==
    /\ w \in Worker
    /\ w.pc = "free" => w = Free
    /\ w.pc # "free" => w.issue \in Issues /\ w.new \in Row
    /\ w.pc = "closing" => w.old \in Row /\ w.next # "free"

SweepOK(s) ==
    /\ s \in Sweep
    /\ s.running => s.config \in Config
    /\ s.page # {} => s.running

(* The holder's records are well-typed whenever the mutex is taken, handed *)
(* on or released.                                                         *)
LEMMA HolderStarts ==
    ASSUME NEW i \in Issues, NEW new \in Row
    PROVE  /\ HolderOK(Free)
           /\ \A old \in Row : HolderOK(Removing(i, old))
           /\ \A by \in {"task", "sweep"}, old \in Row \cup {NoRow} :
                 HolderOK(Replacing(by, "saving", i, old, new))
           /\ \A by \in {"task", "sweep"}, old \in Row :
                 HolderOK(Replacing(by, "closing", i, old, new))
<1>1. HolderOK(Free)
  BY HolderTypes DEF HolderOK, Free
<1>2. \A old \in Row : HolderOK(Removing(i, old))
  BY HolderTypes DEF HolderOK, Removing
<1>3. \A by \in {"task", "sweep"}, old \in Row \cup {NoRow} :
         HolderOK(Replacing(by, "saving", i, old, new))
  BY HolderTypes DEF HolderOK, Replacing
<1>4. \A by \in {"task", "sweep"}, old \in Row :
         HolderOK(Replacing(by, "closing", i, old, new))
  BY HolderTypes DEF HolderOK, Replacing
<1>5. QED
  BY <1>1, <1>2, <1>3, <1>4

(* The sweep's record while it is idle, as it begins, and as it goes on.   *)
LEMMA SweepMoves ==
    /\ SweepOK(NoSweep)
    /\ \A c \in Config :
           SweepOK([running |-> TRUE, config |-> c, after |-> 0, page |-> {}])
    /\ \A s, p : SweepOK(s) /\ s.running /\ p \in SUBSET Issues
           => SweepOK([s EXCEPT !.page = p])
    /\ \A s, i : SweepOK(s) /\ i \in s.page
           => SweepOK([s EXCEPT !.after = i, !.page = s.page \ {i}])
<1>1. SweepOK(NoSweep)
  BY DEF SweepOK, Sweep, NoSweep
<1>2. \A c \in Config :
         SweepOK([running |-> TRUE, config |-> c, after |-> 0, page |-> {}])
  BY DEF SweepOK, Sweep
<1>3. ASSUME NEW s, NEW p, SweepOK(s), s.running, p \in SUBSET Issues
      PROVE  SweepOK([s EXCEPT !.page = p])
  BY <1>3 DEF SweepOK, Sweep
<1>4. ASSUME NEW s, NEW i, SweepOK(s), i \in s.page
      PROVE  SweepOK([s EXCEPT !.after = i, !.page = s.page \ {i}])
  BY <1>4 DEF SweepOK, Sweep
<1>5. QED
  BY <1>1, <1>2, <1>3, <1>4

(* TypeOK, with the holder and the sweep as one fact each.                 *)
LEMMA TypeParts ==
    /\ TypeOK => HolderOK(worker) /\ SweepOK(sweep)
    /\ /\ open \in [Issues -> BOOLEAN]
       /\ config \in Config /\ labels \in LabelSets /\ interval \in Intervals
       /\ table \in [Issues -> Row \cup {NoRow}]
       /\ queued \in [Issues -> 0..MaxQueued]
       /\ HolderOK(worker) /\ SweepOK(sweep)
       /\ am \in [Issues -> [Identities -> Nat]]
       /\ wire \subseteq Post
       /\ faults \in 0..MaxFaults /\ late \in BOOLEAN
       => TypeOK
BY DEF TypeOK, HolderOK, SweepOK

(* Init is well-typed.                                                    *)
LEMMA TypeInit == Init => TypeOK
<1>1. SUFFICES ASSUME Init PROVE TypeOK
  OBVIOUS
<1>2. HolderOK(worker)
  BY <1>1 DEF Init, HolderOK, Worker, Free
<1>3. SweepOK(sweep)
  BY <1>1, SweepMoves DEF Init
<1>4. /\ am \in [Issues -> [Identities -> Nat]]
      /\ table \in [Issues -> Row \cup {NoRow}]
      /\ queued \in [Issues -> 0..MaxQueued]
      /\ faults \in 0..MaxFaults
  BY <1>1, AlertAssumption DEF Init, AlertAssumption
<1>5. QED
  BY <1>1, <1>2, <1>3, <1>4, TypeParts DEF Init

(* Users and administrators touch the issue, the settings and the queue.   *)
LEMMA TypeUser == TypeOK /\ UserStep => TypeOK'
<1>1. SUFFICES ASSUME TypeOK, UserStep PROVE TypeOK'
  OBVIOUS
<1>2. ASSUME NEW i \in Issues, Alerting(i) PROVE TypeOK'
  <2>1. queued[i] + 1 \in 0..MaxQueued
    BY <1>1, <1>2, AlertAssumption DEF TypeOK, Alerting, AlertAssumption
  <2>2. queued' \in [Issues -> 0..MaxQueued] /\ open' \in [Issues -> BOOLEAN]
    BY <1>1, <1>2, <2>1 DEF TypeOK, Alerting
  <2>3. QED
    BY <1>1, <1>2, <2>2 DEF TypeOK, Alerting
<1>3. ASSUME NEW i \in Issues, Reopen(i) \/ Close(i) PROVE TypeOK'
  BY <1>1, <1>3 DEF TypeOK, Reopen, Close
<1>4. CASE SaveSettings \/ SaveLabels \/ SetInterval
  BY <1>1, <1>4 DEF TypeOK, SaveSettings, SaveLabels, SetInterval
<1>5. QED
  BY <1>1, <1>2, <1>3, <1>4 DEF UserStep

(* notify and the sweep take the mutex.                                    *)
LEMMA TypeTake ==
    TypeOK /\ ((\E i \in Issues : Notify(i)) \/ SweepStep) => TypeOK'
<1>1. SUFFICES ASSUME TypeOK, (\E i \in Issues : Notify(i)) \/ SweepStep
               PROVE  TypeOK'
  OBVIOUS
<1>2. ASSUME NEW i \in Issues, Notify(i) PROVE TypeOK'
  <2>1. Fresh(config) \in Row
    BY <1>1, FreshRow DEF TypeOK
  <2>2. HolderOK(worker')
    <3>1. CASE Tracked(i)
      BY <1>1, <1>2, <2>1, <3>1, HolderStarts DEF Notify, TypeOK, Tracked
    <3>2. CASE ~Tracked(i)
      BY <1>1, <1>2, <2>1, <3>2, HolderStarts DEF Notify, TypeOK, Tracked
    <3>3. QED
      BY <3>1, <3>2
  <2>3. queued' \in [Issues -> 0..MaxQueued]
    <3>1. queued[i] - 1 \in 0..MaxQueued
      BY <1>1, <1>2, AlertAssumption DEF TypeOK, Notify, AlertAssumption
    <3>2. QED
      BY <1>1, <1>2, <3>1 DEF TypeOK, Notify
  <2>4. QED
    BY <1>1, <1>2, <2>2, <2>3 DEF TypeOK, Notify, HolderOK
<1>3. CASE SweepBegin
  BY <1>1, <1>3, SweepMoves DEF TypeOK, SweepBegin, SweepOK
<1>4. CASE SweepPage
  <2>1. FirstPage \in SUBSET Issues
    BY DEF FirstPage, Ahead
  <2>2. SweepOK(sweep')
    BY <1>1, <1>4, <2>1, SweepMoves, TypeParts DEF SweepPage
  <2>3. QED
    BY <1>1, <1>4, <2>2 DEF TypeOK, SweepPage, SweepOK
<1>5. CASE SweepVisit
  <2>1. PICK i \in Issues :
           /\ Visiting(i)
           /\ worker' = IF Tracked(i) THEN Reconcile(i, table[i], sweep.config) ELSE Free
    BY <1>5 DEF SweepVisit
  <2>2. SweepOK(sweep')
    BY <1>1, <2>1, SweepMoves, TypeParts DEF Visiting
  <2>3. sweep.config \in Config
    BY <1>1, <2>1 DEF TypeOK, Visiting
  <2>4. Fresh(sweep.config) \in Row
    BY <1>1, <2>3, FreshRow DEF TypeOK
  <2>5. HolderOK(worker')
    <3>1. CASE Tracked(i)
      <4>1. table[i] \in Row
        BY <1>1, <3>1 DEF TypeOK, Tracked
      <4>2. QED
        BY <2>1, <2>4, <3>1, <4>1, HolderStarts DEF Reconcile
    <3>2. CASE ~Tracked(i)
      BY <2>1, <2>4, <3>2, HolderStarts
    <3>3. QED
      BY <3>1, <3>2
  <2>6. QED
    BY <1>1, <1>5, <2>2, <2>5 DEF TypeOK, SweepVisit, SweepOK, HolderOK
<1>6. QED
  BY <1>1, <1>2, <1>3, <1>4, <1>5 DEF SweepStep

(* The holder's own steps.                                                 *)
LEMMA TypeHolder == TypeOK /\ HolderStep => TypeOK'
<1>1. SUFFICES ASSUME TypeOK, HolderStep PROVE TypeOK'
  OBVIOUS
<1>2. CASE CloseOld
  <2>1. HolderOK(worker')
    BY <1>1, <1>2 DEF TypeOK, CloseOld, HolderOK, Worker
  <2>2. worker.issue \in Issues /\ worker.old.id \in Identities
    BY <1>1, <1>2 DEF TypeOK, CloseOld, Row
  <2>3. am' \in [Issues -> [Identities -> Nat]]
    BY <1>1, <1>2, <2>2 DEF TypeOK, CloseOld, Delivered
  <2>4. QED
    BY <1>1, <1>2, <2>1, <2>3 DEF TypeOK, CloseOld, HolderOK
<1>3. CASE SaveAlert
  <2>1. HolderOK(worker')
    BY <1>1, <1>3 DEF TypeOK, SaveAlert, HolderOK, Worker
  <2>2. table' \in [Issues -> Row \cup {NoRow}]
    BY <1>1, <1>3 DEF TypeOK, SaveAlert
  <2>3. QED
    BY <1>1, <1>3, <2>1, <2>2 DEF TypeOK, SaveAlert, HolderOK
<1>4. CASE SendFiring
  <2>1. HolderOK(worker')
    BY <1>1, <1>4 DEF TypeOK, SendFiring, HolderOK, Worker
  <2>2. /\ worker.issue \in Issues
        /\ worker.new.id \in Identities /\ worker.new.left \in Nat
    BY <1>1, <1>4 DEF TypeOK, SendFiring, Row
  <2>3. am' \in [Issues -> [Identities -> Nat]]
    BY <1>1, <1>4, <2>2 DEF TypeOK, SendFiring, Delivered
  <2>4. QED
    BY <1>1, <1>4, <2>1, <2>3 DEF TypeOK, SendFiring, HolderOK
<1>5. CASE MarkSent
  <2>1. worker.new \in Row
    BY <1>1, <1>5 DEF TypeOK, MarkSent
  <2>2. [worker.new EXCEPT !.sent = 0] \in Row
    BY <2>1, RowFacts
  <2>3. table' \in [Issues -> Row \cup {NoRow}]
    BY <1>1, <1>5, <2>2 DEF TypeOK, MarkSent
  <2>4. HolderOK(worker')
    BY <1>5 DEF MarkSent, HolderOK, Worker, Free
  <2>5. QED
    BY <1>1, <1>5, <2>3, <2>4 DEF TypeOK, MarkSent, HolderOK
<1>6. CASE RemoveAlert
  <2>1. table' \in [Issues -> Row \cup {NoRow}]
    BY <1>1, <1>6 DEF TypeOK, RemoveAlert
  <2>2. HolderOK(worker')
    BY <1>6 DEF RemoveAlert, HolderOK, Worker, Free
  <2>3. QED
    BY <1>1, <1>6, <2>1, <2>2 DEF TypeOK, RemoveAlert, HolderOK
<1>7. QED
  BY <1>1, <1>2, <1>3, <1>4, <1>5, <1>6 DEF HolderStep

(* What the holder posts is a request, and delivering a request keeps the  *)
(* Alertmanager well-typed.                                                *)
LEMMA Requests ==
    ASSUME TypeOK
    PROVE  /\ worker.pc \in {"closing", "sending"} => Outgoing \in Post
           /\ \A p \in Post : Delivered(p.issue, p.id, p.left)
                  => am' \in [Issues -> [Identities -> Nat]]
<1>1. ASSUME worker.pc = "closing" PROVE Outgoing \in Post
  <2>1. worker.issue \in Issues /\ worker.old.id \in Identities
    BY <1>1 DEF TypeOK, Row
  <2>2. QED
    BY <1>1, <2>1 DEF Outgoing, Post
<1>2. ASSUME worker.pc = "sending" PROVE Outgoing \in Post
  <2>1. /\ worker.issue \in Issues
        /\ worker.new.id \in Identities /\ worker.new.left \in Nat
    BY <1>2 DEF TypeOK, Row
  <2>2. QED
    BY <1>2, <2>1 DEF Outgoing, Post
<1>3. ASSUME NEW p \in Post, Delivered(p.issue, p.id, p.left)
      PROVE  am' \in [Issues -> [Identities -> Nat]]
  <2>1. p.issue \in Issues /\ p.id \in Identities /\ p.left \in Nat
    BY DEF Post
  <2>2. QED
    BY <1>3, <2>1 DEF TypeOK, Delivered
<1>4. QED
  BY <1>1, <1>2, <1>3

(* Errors, timeouts, crashes and late deliveries.                          *)
LEMMA TypeFault == TypeOK /\ (FaultStep \/ DeliverLate) => TypeOK'
<1>1. SUFFICES ASSUME TypeOK, FaultStep \/ DeliverLate PROVE TypeOK'
  OBVIOUS
<1>2. HolderOK(Free)
  BY DEF HolderOK, Worker, Free
<1>3. faults > 0 => faults - 1 \in 0..MaxFaults
  BY <1>1, AlertAssumption DEF TypeOK, AlertAssumption
<1>4. CASE CallFails
  <2>1. Outgoing \in Post
    BY <1>1, <1>4, Requests DEF CallFails
  <2>2. am' \in [Issues -> [Identities -> Nat]]
    BY <1>1, <1>4, <2>1, Requests DEF CallFails, TypeOK
  <2>3. wire' \subseteq Post
    BY <1>1, <1>4, <2>1 DEF CallFails, TypeOK
  <2>4. QED
    BY <1>1, <1>2, <1>3, <1>4, <2>2, <2>3 DEF CallFails, TypeOK, HolderOK
<1>5. CASE WriteFails
  BY <1>1, <1>2, <1>3, <1>5 DEF WriteFails, TypeOK, HolderOK
<1>6. CASE ReadFails
  <2>1. queued' \in [Issues -> 0..MaxQueued]
    <3>1. ASSUME NEW i \in Issues, queued[i] > 0
          PROVE  queued[i] - 1 \in 0..MaxQueued
      BY <1>1, <3>1, AlertAssumption DEF TypeOK, AlertAssumption
    <3>2. QED
      BY <1>1, <1>6, <3>1 DEF TypeOK, ReadFails
  <2>2. SweepOK(sweep')
    <3>1. SweepOK(sweep)
      BY <1>1, TypeParts
    <3>2. CASE sweep' \in {sweep, NoSweep}
      BY <3>1, <3>2, SweepMoves
    <3>3. ASSUME NEW i \in Issues, Visiting(i) PROVE SweepOK(sweep')
      BY <3>1, <3>3, SweepMoves DEF Visiting
    <3>4. QED
      BY <1>6, <3>2, <3>3 DEF ReadFails
  <2>3. QED
    BY <1>1, <1>3, <1>6, <2>1, <2>2 DEF ReadFails, TypeOK, SweepOK
<1>7. CASE Crash
  <2>1. queued' \in [Issues -> 0..MaxQueued]
    BY <1>7, AlertAssumption DEF Crash, AlertAssumption
  <2>2. SweepOK(sweep')
    BY <1>7, SweepMoves DEF Crash
  <2>3. QED
    BY <1>1, <1>2, <1>3, <1>7, <2>1, <2>2 DEF Crash, TypeOK, HolderOK, SweepOK
<1>8. CASE DeliverLate
  <2>1. PICK p \in wire : Delivered(p.issue, p.id, p.left) /\ wire' = wire \ {p}
    BY <1>8 DEF DeliverLate
  <2>2. am' \in [Issues -> [Identities -> Nat]]
    BY <1>1, <2>1, Requests DEF TypeOK
  <2>3. QED
    BY <1>1, <1>8, <2>1, <2>2 DEF DeliverLate, TypeOK
<1>9. QED
  BY <1>1, <1>4, <1>5, <1>6, <1>7, <1>8 DEF FaultStep

(* Time.                                                                   *)
LEMMA TypeTick == TypeOK /\ Tick => TypeOK'
<1>1. SUFFICES ASSUME TypeOK, Tick PROVE TypeOK'
  OBVIOUS
<1>2. \A row \in Row \cup {NoRow} : Aged(row) \in Row \cup {NoRow}
  BY RowFacts
<1>3. \A n \in Nat : Down(n) \in Nat
  BY DEF Down
<1>4. table' \in [Issues -> Row \cup {NoRow}]
  BY <1>1, <1>2 DEF TypeOK, Tick
<1>5. am' \in [Issues -> [Identities -> Nat]]
  BY <1>1, <1>3 DEF TypeOK, Tick
<1>6. wire' \subseteq Post
  <2>1. \A p \in wire : [p EXCEPT !.left = Down(p.left)] \in Post
    <3>1. ASSUME NEW p \in wire PROVE [p EXCEPT !.left = Down(p.left)] \in Post
      <4>1. p \in Post /\ Down(p.left) \in Nat
        BY <1>1, <1>3, <3>1 DEF TypeOK, Post
      <4>2. QED
        BY <4>1 DEF Post
    <3>2. QED
      BY <3>1
  <2>2. wire' = {[p EXCEPT !.left = Down(p.left)] : p \in wire}
    BY <1>1 DEF Tick
  <2>3. QED
    BY <2>1, <2>2
<1>7. HolderOK(worker')
  <2>1. CASE worker = Free
    <3>1. worker' = [Free EXCEPT !.old = NoRow, !.new = NoRow, !.slow = FALSE]
      BY <1>1, <2>1, RowFacts DEF Tick, Free
    <3>2. worker' = Free
      BY <3>1 DEF Free
    <3>3. QED
      BY <1>1, <2>1, <3>2, TypeParts
  <2>2. CASE worker # Free
    <3>1. /\ Aged(worker.old) \in Row \cup {NoRow} /\ Aged(worker.new) \in Row
          /\ worker.pc = "closing" => Aged(worker.old) \in Row
      BY <1>1, <2>2, <1>2, RowFacts DEF TypeOK, Worker
    <3>2. worker' = [worker EXCEPT !.old = Aged(worker.old), !.new = Aged(worker.new),
                                   !.slow = TRUE]
      BY <1>1, <2>2 DEF Tick
    <3>3. QED
      BY <1>1, <2>2, <3>1, <3>2 DEF TypeOK, HolderOK, Worker
  <2>3. QED
    BY <2>1, <2>2
<1>8. QED
  BY <1>1, <1>4, <1>5, <1>6, <1>7 DEF TypeOK, Tick, HolderOK

(* Every step keeps the types.                                             *)
LEMMA TypeNext == TypeOK /\ [Next]_vars => TypeOK'
<1>1. TypeOK /\ UNCHANGED vars => TypeOK'
  BY DEF TypeOK, vars
<1>2. QED
  BY <1>1, TypeUser, TypeTake, TypeHolder, TypeFault, TypeTick DEF Next

(* The tables, the mutex, the refresh loop and the Alertmanager stay       *)
(* well-typed: whoever holds the mutex works on an issue, with a valid row *)
(* to write and, while closing, a valid row to close.                      *)
THEOREM AlertTypeCorrect == Spec => []TypeOK
BY TypeInit, TypeNext, PTL DEF Spec

-----------------------------------------------------------------------------
(* Tracking, for requests that do not outlive their timeout.               *)

(* Who takes the mutex has read the row: it starts by closing the alert    *)
(* the row names, or there is nothing else to close.                       *)
LEMMA TrackingTake ==
    ASSUME TypeOK, ~late, NoUntrackedFiring, HolderKnows,
           (\E i \in Issues : Notify(i)) \/ SweepStep
    PROVE  NoUntrackedFiring' /\ HolderKnows'
<1>1. table' = table /\ am' = am
  BY DEF Notify, SweepStep, SweepBegin, SweepPage, SweepVisit
<1>2. NoUntrackedFiring'
  BY <1>1 DEF NoUntrackedFiring, Firing, Tracked
<1>3. ASSUME NEW i \in Issues, Notify(i) PROVE HolderKnows'
  <2>1. CASE ~config.enabled
    BY <1>1, <1>3, <2>1 DEF Notify, HolderKnows, Free
  <2>2. CASE config.enabled /\ Tracked(i)
    BY <1>1, <1>3, <2>2 DEF Notify, HolderKnows, Replacing, Tracked
  <2>3. CASE config.enabled /\ ~Tracked(i)
    <3>1. \A id \in Identities : ~Firing(i, id)
      BY <1>3, <2>3 DEF NoUntrackedFiring
    <3>2. worker'.pc = "saving" /\ worker'.issue = i
      BY <1>3, <2>3 DEF Notify, Replacing
    <3>3. QED
      BY <1>1, <3>1, <3>2 DEF HolderKnows, Firing
  <2>4. QED
    BY <2>1, <2>2, <2>3
<1>4. CASE SweepBegin \/ SweepPage
  <2>1. worker' = worker
    BY <1>4 DEF SweepBegin, SweepPage
  <2>2. QED
    BY <1>1, <1>2, <2>1 DEF HolderKnows, Firing, Tracked
<1>5. CASE SweepVisit
  <2>1. PICK i \in Issues :
           worker' = IF Tracked(i) THEN Reconcile(i, table[i], sweep.config) ELSE Free
    BY <1>5 DEF SweepVisit
  <2>2. CASE worker' = Free
    <3>1. worker'.pc = "free"
      BY <2>2 DEF Free
    <3>2. QED
      BY <1>2, <3>1 DEF HolderKnows
  <2>3. CASE Tracked(i) /\ worker' = Removing(i, table[i])
    <3>1. worker'.pc = "closing" /\ worker'.issue = i /\ worker'.old = table[i]
      BY <2>3 DEF Removing
    <3>2. QED
      BY <1>1, <1>2, <2>3, <3>1 DEF HolderKnows, Tracked
  <2>4. CASE /\ Tracked(i)
             /\ worker' = Replacing("sweep", "closing", i, table[i], Fresh(sweep.config))
    <3>1. worker'.pc = "closing" /\ worker'.issue = i /\ worker'.old = table[i]
      BY <2>4 DEF Replacing
    <3>2. QED
      BY <1>1, <1>2, <2>4, <3>1 DEF HolderKnows, Tracked
  <2>5. CASE /\ Tracked(i) /\ table[i].id = Identity(sweep.config)
             /\ worker' = Replacing("sweep", "saving", i, table[i], Fresh(sweep.config))
    <3>1. worker'.pc = "saving" /\ worker'.issue = i /\ worker'.new.id = table[i].id
      BY <2>5 DEF Replacing, Fresh
    <3>2. QED
      BY <1>1, <1>2, <3>1 DEF HolderKnows, NoUntrackedFiring, Firing
  <2>6. QED
    BY <2>1, <2>2, <2>3, <2>4, <2>5 DEF Reconcile
<1>6. QED
  BY <1>2, <1>3, <1>4, <1>5 DEF SweepStep

(* Between two calls: the old alert is closed before the row is replaced   *)
(* or removed, the row is written before the new alert is sent.            *)
LEMMA TrackingHolder ==
    ASSUME TypeOK, ~late, NoUntrackedFiring, HolderKnows, HolderStep
    PROVE  NoUntrackedFiring' /\ HolderKnows'
<1> DEFINE i == worker.issue
<1>1. worker.pc # "free" => i \in Issues /\ worker.new \in Row
  BY DEF TypeOK
<1>2. CASE CloseOld
  <2>1. worker.old.id \in Identities
    BY <1>2 DEF CloseOld, TypeOK, Row
  <2>2. /\ \A j \in Issues, id \in Identities : Firing(j, id)' => Firing(j, id)
        /\ ~Firing(i, worker.old.id)'
    BY <1>1, <1>2, <2>1 DEF CloseOld, Delivered, Firing, TypeOK
  <2>3. \A id \in Identities : ~Firing(i, id)'
    BY <1>1, <1>2, <2>2 DEF CloseOld, NoUntrackedFiring, HolderKnows
  <2>4. NoUntrackedFiring'
    BY <1>2, <2>2 DEF CloseOld, NoUntrackedFiring, Tracked
  <2>5. worker'.pc \in {"saving", "removing"} /\ worker'.issue = i
    BY <1>2 DEF CloseOld, TypeOK, Worker
  <2>6. QED
    BY <2>3, <2>4, <2>5 DEF HolderKnows, Firing
<1>3. CASE SaveAlert
  <2>1. worker.new # NoRow
    BY <1>1, <1>3, RowFacts DEF SaveAlert
  <2>2. table'[i] = worker.new /\ \A j \in Issues \ {i} : table'[j] = table[j]
    BY <1>1, <1>3 DEF SaveAlert, TypeOK
  <2>3. \A id \in Identities : Firing(i, id) => id = worker.new.id
    BY <1>3 DEF SaveAlert, HolderKnows
  <2>4. NoUntrackedFiring'
    BY <1>3, <2>1, <2>2, <2>3 DEF SaveAlert, NoUntrackedFiring, Tracked, Firing
  <2>5. worker'.pc = "sending" /\ worker'.issue = i /\ worker'.new = worker.new
    BY <1>3 DEF SaveAlert, TypeOK, Worker
  <2>6. QED
    BY <2>1, <2>2, <2>4, <2>5 DEF HolderKnows, Tracked
<1>4. CASE SendFiring
  <2>1. Tracked(i) /\ table[i].id = worker.new.id
    BY <1>4 DEF SendFiring, HolderKnows
  <2>2. worker.new.id \in Identities
    BY <1>1, <1>4 DEF SendFiring, Row
  <2>3. \A j \in Issues, id \in Identities :
           Firing(j, id)' => Firing(j, id) \/ (j = i /\ id = worker.new.id)
    BY <1>1, <1>4, <2>2 DEF SendFiring, Delivered, Firing, TypeOK
  <2>4. NoUntrackedFiring'
    BY <1>4, <2>1, <2>3 DEF SendFiring, NoUntrackedFiring, Tracked
  <2>5. worker'.pc = "marking" /\ worker'.issue = i /\ worker'.new = worker.new
    BY <1>4 DEF SendFiring, TypeOK, Worker
  <2>6. QED
    BY <1>4, <2>1, <2>4, <2>5 DEF SendFiring, HolderKnows, Tracked
<1>5. CASE MarkSent
  <2>1. Tracked(i) /\ table[i].id = worker.new.id
    BY <1>5 DEF MarkSent, HolderKnows
  <2>2. /\ [worker.new EXCEPT !.sent = 0] # NoRow
        /\ [worker.new EXCEPT !.sent = 0].id = worker.new.id
    BY <1>1, <1>5, RowFacts DEF MarkSent
  <2>3. /\ table'[i] # NoRow /\ table'[i].id = table[i].id
        /\ \A j \in Issues \ {i} : table'[j] = table[j]
    BY <1>1, <1>5, <2>1, <2>2 DEF MarkSent, TypeOK
  <2>4. NoUntrackedFiring'
    BY <1>5, <2>1, <2>3 DEF MarkSent, NoUntrackedFiring, Tracked, Firing
  <2>5. QED
    BY <1>5, <2>4 DEF MarkSent, HolderKnows, Free
<1>6. CASE RemoveAlert
  <2>1. \A id \in Identities : ~Firing(i, id)
    BY <1>6 DEF RemoveAlert, HolderKnows
  <2>2. \A j \in Issues \ {i} : table'[j] = table[j]
    BY <1>1, <1>6 DEF RemoveAlert, TypeOK
  <2>3. NoUntrackedFiring'
    BY <1>6, <2>1, <2>2 DEF RemoveAlert, NoUntrackedFiring, Tracked, Firing
  <2>4. QED
    BY <1>6, <2>3 DEF RemoveAlert, HolderKnows, Free
<1>7. QED
  BY <1>2, <1>3, <1>4, <1>5, <1>6 DEF HolderStep

(* A call that fails may still have been delivered: a closing only ends    *)
(* an alert, a firing is the one the row already names.  The mutex is      *)
(* released, and with it all that its holder knew.                         *)
LEMMA TrackingFault ==
    ASSUME TypeOK, ~late', NoUntrackedFiring, HolderKnows, FaultStep, ~late
    PROVE  NoUntrackedFiring' /\ HolderKnows' /\ wire' = wire
<1>1. CASE CallFails
  <2>1. table' = table /\ wire' = wire /\ worker'.pc = "free"
    BY <1>1 DEF CallFails, Free
  <2>2. /\ worker.issue \in Issues /\ Outgoing \in Post
        /\ \/ Outgoing.left = 0
           \/ Tracked(worker.issue) /\ table[worker.issue].id = Outgoing.id
    BY <1>1, Requests DEF CallFails, TypeOK, HolderKnows, Outgoing
  <2>3. Outgoing.issue = worker.issue /\ Outgoing.id \in Identities /\ Outgoing.left \in Nat
    BY <2>2 DEF Outgoing, Post
  <2>4. am' = am \/ Delivered(worker.issue, Outgoing.id, Outgoing.left)
    BY <1>1, <2>3 DEF CallFails
  <2>5. \A j \in Issues, id \in Identities :
           Firing(j, id)' => Firing(j, id) \/ (/\ j = worker.issue /\ id = Outgoing.id
                                               /\ Outgoing.left # 0)
    BY <2>2, <2>3, <2>4 DEF Delivered, Firing, TypeOK
  <2>6. NoUntrackedFiring'
    BY <2>1, <2>2, <2>5 DEF NoUntrackedFiring, Tracked
  <2>7. QED
    BY <2>1, <2>6 DEF HolderKnows
<1>2. CASE WriteFails \/ Crash
  <2>1. table' = table /\ am' = am /\ wire' = wire /\ worker'.pc = "free"
    BY <1>2 DEF WriteFails, Crash, Free
  <2>2. QED
    BY <2>1 DEF NoUntrackedFiring, HolderKnows, Firing, Tracked
<1>3. CASE ReadFails
  <2>1. table' = table /\ am' = am /\ wire' = wire /\ worker' = worker
    BY <1>3 DEF ReadFails
  <2>2. QED
    BY <2>1 DEF NoUntrackedFiring, HolderKnows, Firing, Tracked
<1>4. QED
  BY <1>1, <1>2, <1>3 DEF FaultStep

(* Time ends alerts and changes no identity.                               *)
LEMMA TrackingTick ==
    ASSUME TypeOK, ~late, NoUntrackedFiring, HolderKnows, Tick
    PROVE  NoUntrackedFiring' /\ HolderKnows'
<1>1. \A i \in Issues, id \in Identities : Firing(i, id)' => Firing(i, id)
  BY DEF Tick, Firing, Down, TypeOK
<1>2. \A i \in Issues : (Tracked(i) => Tracked(i)') /\ (Tracked(i) => table'[i].id = table[i].id)
  BY RowFacts DEF Tick, Tracked, TypeOK
<1>3. NoUntrackedFiring'
  BY <1>1, <1>2 DEF NoUntrackedFiring
<1>4. CASE worker.pc = "free"
  <2>1. worker'.pc = "free"
    BY <1>4 DEF Tick, TypeOK, Worker
  <2>2. QED
    BY <1>3, <2>1 DEF HolderKnows
<1>5. CASE worker.pc # "free"
  <2>1. worker.issue \in Issues /\ Aged(worker.new).id = worker.new.id
    BY <1>5, RowFacts DEF TypeOK
  <2>2. worker.pc = "closing" => Aged(worker.old).id = worker.old.id
    BY RowFacts DEF TypeOK
  <2>3. /\ worker'.pc = worker.pc /\ worker'.issue = worker.issue
        /\ worker'.new = Aged(worker.new) /\ worker'.old = Aged(worker.old)
    BY DEF Tick, TypeOK, Worker
  <2>4. QED
    BY <1>1, <1>2, <1>3, <2>1, <2>2, <2>3 DEF HolderKnows
<1>6. QED
  BY <1>4, <1>5

(* Nothing forgets that a request has outlived its timeout.                *)
LEMMA LateIsRemembered == TypeOK /\ [Next]_vars /\ ~late' => ~late
BY DEF Next, vars, UserStep, Alerting, Reopen, Close, SaveSettings, SaveLabels, SetInterval,
       Notify, HolderStep, CloseOld, SaveAlert, SendFiring, MarkSent, RemoveAlert,
       SweepStep, SweepBegin, SweepPage, SweepVisit, FaultStep, CallFails, WriteFails,
       ReadFails, Crash, DeliverLate, Tick

(* Every step keeps the tracking invariant.                                *)
LEMMA TrackingNext == AlertInv /\ [Next]_vars => AlertInv'
<1>1. SUFFICES ASSUME AlertInv, [Next]_vars PROVE AlertInv'
  OBVIOUS
<1>2. TypeOK'
  BY <1>1, TypeNext DEF AlertInv
<1>3. CASE late'
  BY <1>2, <1>3 DEF AlertInv, NoUntrackedFiring
<1>4. CASE ~late'
  <2>0. ~late
    BY <1>1, <1>4, LateIsRemembered DEF AlertInv
  <2>1. TypeOK /\ NoUntrackedFiring /\ wire = {} /\ HolderKnows
    BY <1>1, <2>0 DEF AlertInv
  <2>2. NoUntrackedFiring' /\ HolderKnows' /\ wire' = {}
    <3>1. CASE UserStep \/ UNCHANGED vars
      <4>1. /\ table' = table /\ am' = am /\ worker' = worker /\ wire' = wire
        BY <3>1 DEF UserStep, Alerting, Reopen, Close, SaveSettings, SaveLabels,
                    SetInterval, vars
      <4>2. QED
        BY <2>0, <2>1, <4>1 DEF NoUntrackedFiring, HolderKnows, Firing, Tracked
    <3>2. CASE (\E i \in Issues : Notify(i)) \/ SweepStep
      <4>1. wire' = wire
        BY <3>2 DEF Notify, SweepStep, SweepBegin, SweepPage, SweepVisit
      <4>2. QED
        BY <2>0, <2>1, <3>2, <4>1, TrackingTake
    <3>3. CASE HolderStep
      <4>1. wire' = wire
        BY <3>3 DEF HolderStep, CloseOld, SaveAlert, SendFiring, MarkSent, RemoveAlert
      <4>2. QED
        BY <2>0, <2>1, <3>3, <4>1, TrackingHolder
    <3>4. CASE FaultStep
      BY <1>4, <2>0, <2>1, <3>4, TrackingFault
    <3>5. CASE DeliverLate
      BY <2>1, <3>5 DEF DeliverLate
    <3>6. CASE Tick
      <4>1. wire' = {}
        BY <2>1, <3>6 DEF Tick
      <4>2. QED
        BY <2>0, <2>1, <3>6, <4>1, TrackingTick
    <3>7. QED
      BY <1>1, <3>1, <3>2, <3>3, <3>4, <3>5, <3>6 DEF Next
  <2>3. QED
    BY <1>2, <2>2 DEF AlertInv
<1>5. QED
  BY <1>3, <1>4

(* No alert fires that the table does not track under its identity, for    *)
(* any number of issues, settings changes, failed calls and writes and     *)
(* crashes between them: persisting before each call and closing before    *)
(* each replacement or removal is enough.                                  *)
THEOREM NothingFiresUntracked == Spec => []NoUntrackedFiring
<1>1. Init => AlertInv
  <2>1. SUFFICES ASSUME Init PROVE AlertInv
    OBVIOUS
  <2>2. TypeOK
    BY <2>1, TypeInit
  <2>3. \A i \in Issues, id \in Identities : ~Firing(i, id)
    BY <2>1 DEF Init, Firing
  <2>4. wire = {} /\ worker.pc = "free"
    BY <2>1 DEF Init, Free
  <2>5. QED
    BY <2>2, <2>3, <2>4 DEF AlertInv, NoUntrackedFiring, HolderKnows
<1>2. AlertInv => NoUntrackedFiring
  BY DEF AlertInv
<1>3. QED
  BY <1>1, <1>2, TrackingNext, PTL DEF Spec
-----------------------------------------------------------------------------
(* Leases under a punctual sweep.                                          *)

(* The sweep that began after the last tick has yet to come by the row.    *)
Pending(i) ==
    /\ swept = "begun"
    /\ i \in sweep.page \/ (i > sweep.after /\ \A j \in sweep.page : j < i)

Owed(i) == swept = "no" \/ Pending(i)

(* A delivered row that nobody is working on has a tick left for each tick *)
(* until the sweep comes by, and its alert lasts as long.                  *)
RowHolds(i) ==
    Tracked(i) /\ table[i].sent # Never /\ worker.issue # i
        => /\ am[i][table[i].id] >= table[i].left
           /\ table[i].left >= IF Owed(i) THEN 1 ELSE 2

(* A lease being written outlives the holder's critical section.           *)
NewLease ==
    /\ \/ worker.pc \in {"saving", "sending", "marking"}
       \/ worker.pc = "closing" /\ worker.next = "saving"
       => worker.new.left >= IF worker.slow THEN 2 ELSE 3
    /\ worker.pc = "marking" => am[worker.issue][worker.new.id] >= worker.new.left

LeaseInv ==
    /\ swept \in {"no", "begun", "ended"}
    /\ swept = "begun" => sweep.running
    /\ NewLease
    /\ \A i \in Issues : RowHolds(i)

(* The part of it that a step leaves alone.                                *)
LEMMA LeaseFacts ==
    /\ \A n \in Nat : n > 0 => Lease(n) >= 3
    /\ interval \in Intervals => interval \in Nat /\ interval > 0
    /\ \A i \in Issues : i \in Nat /\ i > 0
<1>1. \A n \in Nat : n > 0 => 3 * n >= 3
  OBVIOUS
<1>2. \A n \in Nat : n > 0 => Lease(n) >= 3
  BY <1>1, AlertAssumption DEF Lease
<1>3. (interval \in Intervals => interval \in Nat /\ interval > 0) /\ \A i \in Issues : i \in Nat /\ i > 0
  <2>1. Intervals \subseteq Nat \ {0} /\ Issues \subseteq Nat \ {0}
    BY AlertAssumption
  <2>2. \A n \in Nat \ {0} : n \in Nat /\ n > 0
    OBVIOUS
  <2>3. QED
    BY <2>1, <2>2
<1>4. QED
  BY <1>2, <1>3

LEMMA LeaseUser ==
    ASSUME TypeOK, LeaseInv, UserStep, UNCHANGED swept
    PROVE  LeaseInv'
<1>1. UNCHANGED <<table, worker, sweep, am>>
  BY DEF UserStep, Alerting, Reopen, Close, SaveSettings, SaveLabels, SetInterval
<1>2. QED
  BY <1>1 DEF LeaseInv, NewLease, RowHolds, Owed, Pending, Tracked

(* A fresh lease is three ticks or more.                                   *)
LEMMA LeaseNotify ==
    ASSUME TypeOK, LeaseInv, NEW i \in Issues, Notify(i), UNCHANGED swept
    PROVE  LeaseInv'
<1>1. UNCHANGED <<table, sweep, am>> /\ worker = Free
  BY DEF Notify
<1>2. worker' = Free \/ \E first \in {"closing", "saving"} :
          worker' = Replacing("task", first, i, table[i], Fresh(config))
  BY DEF Notify
<1>3. NewLease'
  <2>1. Fresh(config).left >= 3
    BY LeaseFacts DEF Fresh, TypeOK
  <2>2. QED
    BY <1>2, <2>1 DEF NewLease, Free, Replacing
<1>4. ASSUME NEW j \in Issues PROVE RowHolds(j)'
  <2>1. RowHolds(j) /\ worker.issue # j
    BY <1>1, LeaseFacts DEF LeaseInv, Free
  <2>2. QED
    BY <1>1, <2>1 DEF RowHolds, Owed, Pending, Tracked
<1>5. QED
  BY <1>1, <1>3, <1>4 DEF LeaseInv

(* The holder writes a lease of two ticks or more, or removes the row.     *)
LEMMA LeaseHolder ==
    ASSUME TypeOK, LeaseInv, HolderStep, UNCHANGED swept
    PROVE  LeaseInv'
<1>1. PICK i \in Issues :
      /\ worker.issue = i /\ worker.pc # "free" /\ worker.new \in Row /\ worker \in Worker
      /\ am \in [Issues -> [Identities -> Nat]] /\ table \in [Issues -> Row \cup {NoRow}]
      /\ worker.pc = "closing" => worker.old \in Row
  BY DEF HolderStep, CloseOld, SaveAlert, SendFiring, MarkSent, RemoveAlert, TypeOK
<1>2. UNCHANGED sweep
  BY DEF HolderStep, CloseOld, SaveAlert, SendFiring, MarkSent, RemoveAlert
<1>3. /\ \A j \in Issues \ {i} : table'[j] = table[j] /\ am'[j] = am[j]
      /\ \A j : Owed(j)' = Owed(j)
      /\ worker'.issue = i \/ worker' = Free
  BY <1>1, <1>2 DEF HolderStep, CloseOld, SaveAlert, SendFiring, MarkSent, RemoveAlert,
                    Delivered, Owed, Pending, Worker
<1>4. \A j \in Issues \ {i} : RowHolds(j)'
  BY <1>1, <1>3 DEF LeaseInv, RowHolds, Tracked
<1>5. worker.new.id \in Identities /\ worker.new.left \in Nat
  BY <1>1 DEF Row
<1>6. NewLease' /\ RowHolds(i)'
  <2>1. CASE CloseOld
    <3>1. worker' = [worker EXCEPT !.pc = worker.next] /\ worker.pc = "closing"
      BY <2>1 DEF CloseOld
    <3>2. worker'.pc \in {"saving", "removing"} /\ worker'.pc = worker.next
          /\ worker'.new = worker.new /\ worker'.slow = worker.slow /\ worker'.issue = i
      BY <1>1, <3>1 DEF TypeOK, Worker
    <3>3. QED
      BY <3>1, <3>2 DEF LeaseInv, NewLease, RowHolds
  <2>2. CASE SaveAlert
    <3>1. worker'.pc = "sending" /\ worker.pc = "saving" /\ worker'.issue = i
          /\ worker'.new = worker.new /\ worker'.slow = worker.slow
      BY <1>1, <2>2 DEF SaveAlert, Worker
    <3>2. QED
      BY <3>1 DEF LeaseInv, NewLease, RowHolds
  <2>3. CASE SendFiring
    <3>1. worker'.pc = "marking" /\ worker.pc = "sending" /\ worker'.issue = i
          /\ worker'.new = worker.new /\ worker'.slow = worker.slow
      BY <1>1, <2>3 DEF SendFiring, Worker
    <3>2. am'[i][worker.new.id] = worker.new.left
      BY <1>1, <1>5, <2>3 DEF SendFiring, Delivered
    <3>3. QED
      BY <1>5, <3>1, <3>2 DEF LeaseInv, NewLease, RowHolds
  <2>4. CASE MarkSent
    <3>1. worker' = Free /\ worker.pc = "marking" /\ am' = am
          /\ table'[i] = [worker.new EXCEPT !.sent = 0]
      BY <1>1, <2>4 DEF MarkSent
    <3>2. table'[i].id = worker.new.id /\ table'[i].left = worker.new.left
      BY <1>1, <3>1 DEF Row
    <3>3. worker.new.left >= 2 /\ am[i][worker.new.id] >= worker.new.left
      BY <1>1, <1>5, <3>1 DEF LeaseInv, NewLease
    <3>4. QED
      BY <1>5, <3>1, <3>2, <3>3 DEF NewLease, RowHolds, Free
  <2>5. CASE RemoveAlert
    <3>1. worker' = Free /\ table'[i] = NoRow
      BY <1>1, <2>5 DEF RemoveAlert
    <3>2. QED
      BY <3>1 DEF NewLease, RowHolds, Tracked, Free
  <2>6. QED
    BY <2>1, <2>2, <2>3, <2>4, <2>5 DEF HolderStep
<1>7. QED
  BY <1>2, <1>4, <1>6 DEF LeaseInv

(* The sweep comes by every delivered row, of whatever page: what it goes  *)
(* past has a lease of two ticks, is being worked on, or is not delivered. *)
LEMMA LeaseSweep ==
    ASSUME TypeOK, LeaseInv, TimedSweep
    PROVE  LeaseInv'
<1>1. UNCHANGED <<table, am>> /\ SweepStep
  BY DEF TimedSweep, SweepStep, SweepBegin, SweepPage, SweepVisit
<1>2. swept' = IF ~sweep.running /\ swept = "no" THEN "begun"
               ELSE IF swept = "begun" /\ sweep.running /\ ~sweep'.running THEN "ended" ELSE swept
  BY DEF TimedSweep, Ended
<1>3. CASE SweepBegin
  <2>1. /\ worker' = worker /\ ~sweep.running /\ swept \in {"no", "ended"}
        /\ sweep'.running /\ sweep'.after = 0 /\ sweep'.page = {}
    BY <1>3 DEF SweepBegin, LeaseInv
  <2>2. swept' = IF swept = "no" THEN "begun" ELSE swept
    BY <1>2, <2>1
  <2>3. \A i \in Issues : Owed(i) => Owed(i)'
    BY <2>1, <2>2, LeaseFacts DEF Owed, Pending
  <2>4. \A i \in Issues : Owed(i)' => Owed(i)
    BY <2>1, <2>2 DEF Owed, Pending
  <2>5. NewLease' /\ \A i \in Issues : RowHolds(i)'
    BY <1>1, <2>1, <2>3, <2>4 DEF LeaseInv, NewLease, RowHolds, Tracked
  <2>6. QED
    BY <2>1, <2>2, <2>5 DEF LeaseInv
<1>4. CASE SweepPage
  <2>1. worker' = worker /\ sweep.running /\ sweep.page = {}
        /\ sweep' = IF Ahead = {} THEN NoSweep ELSE [sweep EXCEPT !.page = FirstPage]
    BY <1>4 DEF SweepPage
  <2>2. ASSUME NEW i \in Issues, Tracked(i), Owed(i) PROVE Owed(i)'
    <3>1. CASE swept = "no"
      BY <1>2, <2>1, <3>1 DEF Owed
    <3>2. CASE swept # "no"
      <4>1. swept = "begun" /\ i > sweep.after
        BY <2>1, <2>2, <3>2 DEF Owed, Pending
      <4>2. i \in Ahead
        BY <2>2, <4>1 DEF Ahead
      <4>3. sweep' = [sweep EXCEPT !.page = FirstPage] /\ sweep \in Sweep
        BY <2>1, <4>2 DEF TypeOK
      <4>4. sweep'.running /\ sweep'.after = sweep.after /\ sweep'.page = FirstPage
        BY <2>1, <4>3 DEF Sweep
      <4>5. i \in FirstPage \/ \A j \in FirstPage : j < i
        <5>1. SUFFICES ASSUME i \notin FirstPage, NEW j \in FirstPage PROVE j < i
          OBVIOUS
        <5>2. j \in Ahead /\ j \in Nat /\ i \in Nat
          BY LeaseFacts DEF FirstPage, Ahead
        <5>3. CASE i =< j
          <6> DEFINE Before(n) == {k \in Ahead : k < n}
          <6>1. Before(i) \subseteq Before(j)
            <7>1. \A k \in Ahead : k \in Nat
              BY LeaseFacts DEF Ahead
            <7>2. \A k \in Ahead : k < i => k < j
              BY <5>2, <5>3, <7>1
            <7>3. QED
              BY <7>2
          <6>2. IsFiniteSet(Before(i)) /\ IsFiniteSet(Before(j))
            BY AlertAssumption, FS_Subset DEF Ahead
          <6>3. Cardinality(Before(i)) =< Cardinality(Before(j))
            BY <6>1, <6>2, FS_Subset
          <6>4. Cardinality(Before(i)) \in Nat /\ Cardinality(Before(j)) \in Nat
            BY <6>2, FS_CardinalityType
          <6>5. Cardinality(Before(j)) < Page /\ ~(Cardinality(Before(i)) < Page)
            BY <4>2, <5>1 DEF FirstPage
          <6> HIDE DEF Before
          <6>6. QED
            BY <6>3, <6>4, <6>5, AlertAssumption
        <5>4. QED
          BY <5>2, <5>3
      <4>6. swept' = "begun"
        BY <1>2, <2>1, <4>1, <4>4
      <4>7. QED
        BY <4>1, <4>4, <4>5, <4>6 DEF Owed, Pending
    <3>3. QED
      BY <3>1, <3>2
  <2>3. ASSUME NEW i \in Issues PROVE RowHolds(i)'
    <3>1. RowHolds(i)
      BY DEF LeaseInv
    <3>2. \/ ~(Tracked(i) /\ table[i].sent # Never /\ worker.issue # i)
          \/ (Owed(i) => Owed(i)')
      BY <2>2
    <3>3. table[i] \in Row \cup {NoRow}
      BY DEF TypeOK
    <3>4. Tracked(i) => table[i].left \in Nat
      BY <3>3 DEF Tracked, Row
    <3>5. QED
      BY <1>1, <2>1, <3>1, <3>2, <3>4 DEF RowHolds, Tracked
  <2>4. swept' \in {"no", "begun", "ended"} /\ (swept' = "begun" => sweep'.running)
    BY <1>2, <2>1 DEF LeaseInv
  <2>5. NewLease'
    BY <1>1, <2>1 DEF LeaseInv, NewLease
  <2>6. QED
    BY <2>3, <2>4, <2>5 DEF LeaseInv
<1>5. CASE SweepVisit
  <2>1. PICK i \in Issues :
          /\ Visiting(i) /\ worker = Free
          /\ worker' = IF Tracked(i) THEN Reconcile(i, table[i], sweep.config) ELSE Free
    BY <1>5 DEF SweepVisit
  <2>2. /\ sweep'.after = i /\ sweep'.page = sweep.page \ {i} /\ sweep'.running = sweep.running
        /\ sweep.running /\ i \in sweep.page /\ \A j \in sweep.page : i =< j
        /\ sweep.page \subseteq Issues
    BY <2>1 DEF Visiting, TypeOK, Sweep
  <2>3. swept' = swept
    BY <1>2, <2>2
  <2>4. \A j \in Issues \ {i} : Owed(j) => Owed(j)'
    BY <2>2, <2>3, LeaseFacts DEF Owed, Pending
  <2>5. /\ \A j \in Issues : worker.issue # j
        /\ \A j \in Issues : Tracked(j) => table[j] \in Row /\ table[j].left \in Nat
    BY <2>1, LeaseFacts DEF Free, TypeOK, Tracked, Row
  <2>6. \A j \in Issues \ {i} : RowHolds(j)'
    BY <1>1, <2>4, <2>5 DEF LeaseInv, RowHolds, Tracked
  <2>7. Fresh(sweep.config).left >= 3
    BY LeaseFacts DEF Fresh, TypeOK
  <2>8. NewLease' /\ RowHolds(i)'
    <3>1. CASE worker' = Free /\ Tracked(i) /\ NotDue(table[i], sweep.config)
      <4>1. table[i].left >= 2
        BY <2>5, <3>1, LeaseFacts DEF NotDue, TypeOK
      <4>2. am[i][table[i].id] >= table[i].left \/ table[i].sent = Never
        BY <2>5, <3>1 DEF LeaseInv, RowHolds
      <4>3. QED
        BY <1>1, <2>5, <3>1, <4>1, <4>2 DEF NewLease, Free, RowHolds, Tracked
    <3>2. CASE worker' = Free /\ ~Tracked(i)
      BY <1>1, <3>2 DEF NewLease, Free, RowHolds, Tracked
    <3>3. CASE worker' = Removing(i, table[i])
      BY <3>3 DEF NewLease, Removing, RowHolds
    <3>4. CASE \E first \in {"closing", "saving"} :
                 worker' = Replacing("sweep", first, i, table[i], Fresh(sweep.config))
      BY <2>7, <3>4 DEF NewLease, Replacing, RowHolds
    <3>5. QED
      BY <2>1, <3>1, <3>2, <3>3, <3>4 DEF Reconcile
  <2>9. QED
    BY <2>2, <2>3, <2>6, <2>8 DEF LeaseInv
<1>6. QED
  BY <1>1, <1>3, <1>4, <1>5 DEF SweepStep

(* A tick comes when the sweep has been everywhere, and takes one of the   *)
(* ticks left.                                                             *)
LEMMA LeaseTick ==
    ASSUME TypeOK, LeaseInv, TimedTick
    PROVE  LeaseInv'
<1>1. /\ swept = "ended" /\ swept' = "no" /\ sweep' = sweep /\ ~worker.slow
      /\ table' = [i \in Issues |-> Aged(table[i])]
      /\ worker' = [worker EXCEPT !.old = Aged(@), !.new = Aged(@), !.slow = worker # Free]
      /\ am' = [i \in Issues |-> [id \in Identities |-> Down(am[i][id])]]
  BY DEF TimedTick, Tick
<1>2. \A m, n \in Nat : m >= n => Down(m) >= Down(n)
  BY DEF Down
<1>3. \A n \in Nat, k \in {2, 3} : n >= k => Down(n) >= k - 1
  BY DEF Down
<1>4. \A row \in Row : /\ Aged(row).id = row.id /\ Aged(row).left = Down(row.left)
                       /\ Aged(row).sent # Never => row.sent # Never
                       /\ row.left \in Nat /\ row.id \in Identities
  BY RowFacts DEF Aged, Row
<1>5. worker \in Worker /\ worker'.pc = worker.pc /\ worker'.issue = worker.issue
      /\ worker'.next = worker.next /\ worker'.new = Aged(worker.new)
  BY <1>1 DEF TypeOK, Worker
<1>6. ASSUME NEW i \in Issues PROVE RowHolds(i)'
  <2>1. SUFFICES ASSUME Tracked(i)', table'[i].sent # Never, worker'.issue # i
                 PROVE  /\ am'[i][table'[i].id] >= table'[i].left
                        /\ table'[i].left >= 1
    BY <1>1 DEF RowHolds, Owed
  <2>2. table[i] \in Row
    BY <1>1, <2>1, RowFacts DEF Tracked, TypeOK
  <2>3. table'[i].id = table[i].id /\ table'[i].left = Down(table[i].left) /\ table[i].sent # Never
    BY <1>1, <1>4, <2>1, <2>2
  <2>4. am[i][table[i].id] >= table[i].left /\ table[i].left >= 2
    BY <1>1, <1>5, <2>1, <2>2, <2>3, RowFacts DEF LeaseInv, RowHolds, Owed, Pending, Tracked
  <2>5. am'[i][table[i].id] = Down(am[i][table[i].id]) /\ am[i][table[i].id] \in Nat
    BY <1>1, <1>4, <2>2 DEF TypeOK
  <2>6. QED
    BY <1>2, <1>3, <1>4, <2>2, <2>3, <2>4, <2>5
<1>7. NewLease'
  <2>1. CASE worker.pc = "free"
    BY <1>5, <2>1 DEF NewLease
  <2>2. CASE worker.pc # "free"
    <3>1. worker.new \in Row /\ worker.issue \in Issues /\ worker # Free
      BY <2>2 DEF TypeOK, Free
    <3>2. worker'.slow /\ worker'.new.left = Down(worker.new.left) /\ worker'.new.id = worker.new.id
      BY <1>1, <1>4, <1>5, <3>1 DEF Worker
    <3>3. am'[worker.issue][worker.new.id] = Down(am[worker.issue][worker.new.id])
          /\ am[worker.issue][worker.new.id] \in Nat
      BY <1>1, <1>4, <3>1 DEF TypeOK
    <3>4. QED
      BY <1>1, <1>2, <1>3, <1>4, <1>5, <3>1, <3>2, <3>3 DEF LeaseInv, NewLease
  <2>3. QED
    BY <2>1, <2>2
<1>8. QED
  BY <1>1, <1>6, <1>7 DEF LeaseInv

LEMMA TimedInductive == TimedSpec => [](TypeOK /\ LeaseInv)
<1>1. TimedInit => TypeOK /\ LeaseInv
  <2>1. TimedInit => LeaseInv
    BY DEF TimedInit, Init, LeaseInv, NewLease, RowHolds, Tracked, Free
  <2>2. QED
    BY <2>1, TypeInit DEF TimedInit
<1>2. TypeOK /\ LeaseInv /\ [TimedNext]_timedVars => TypeOK' /\ LeaseInv'
  <2>1. SUFFICES ASSUME TypeOK, LeaseInv, [TimedNext]_timedVars PROVE TypeOK' /\ LeaseInv'
    OBVIOUS
  <2>2. [Next]_vars
    BY <2>1 DEF TimedNext, TimedTick, TimedSweep, TimedOther, timedVars, Next
  <2>3. LeaseInv'
    <3>1. CASE TimedOther
      BY <2>1, <3>1, LeaseUser, LeaseHolder, LeaseNotify DEF TimedOther
    <3>2. CASE UNCHANGED timedVars
      BY <2>1, <3>2 DEF timedVars, vars, LeaseInv, NewLease, RowHolds, Owed, Pending, Tracked
    <3>3. QED
      BY <2>1, <3>1, <3>2, LeaseSweep, LeaseTick DEF TimedNext
  <2>4. QED
    BY <2>1, <2>2, <2>3, TypeNext
<1>3. QED
  BY <1>1, <1>2, PTL DEF TimedSpec

(* An alert the table says was delivered is still firing, under any        *)
(* changes of the settings and on whichever page of the sweep it is        *)
(* (reconcile renews before the lease of alert_ttl runs out).              *)
THEOREM LeasesAlwaysHold == TimedSpec => []LeaseHolds
<1>1. TypeOK /\ LeaseInv => LeaseHolds
  <2>1. SUFFICES ASSUME TypeOK, LeaseInv, NEW i \in Issues,
                        Tracked(i), table[i].sent # Never, worker.issue # i
                 PROVE  Firing(i, table[i].id)
    BY DEF LeaseHolds
  <2>2. table[i] \in Row /\ table[i].left \in Nat /\ table[i].id \in Identities
    BY <2>1 DEF TypeOK, Tracked, Row
  <2>3. am[i][table[i].id] >= table[i].left /\ table[i].left >= 1 /\ am[i][table[i].id] \in Nat
    BY <2>1, <2>2 DEF LeaseInv, RowHolds, TypeOK
  <2>4. QED
    BY <2>2, <2>3 DEF Firing
<1>2. QED
  BY <1>1, TimedInductive, PTL

=============================================================================
