---------------------------- MODULE SignInProofs ----------------------------
(***************************************************************************)
(* Proofs about LoginGuard, Passkeys and SsoFlow, for all sets of accounts,*)
(* keys, handles, credentials, requests, browsers, flows and codes, and    *)
(* for all limits and durations.                                           *)
(***************************************************************************)
EXTENDS SsoFlow, FiniteSetTheorems, TLAPS

-----------------------------------------------------------------------------
(* The inductive invariant.                                                *)

\* A lock ends at most one duration of its level from now: a lock that is armed
\* again, at the next level, therefore never ends earlier.
EntryOK(e) ==
  /\ e \in Entry
  /\ IF e.level = 0 THEN e.until = 0 ELSE e.until <= now + LockoutDuration(e.level)

\* The shared entry comes on top of at most PruneThreshold keys.
GuardInv ==
  /\ now \in 0..MaxTime
  /\ DOMAIN entries \subseteq LockKeys \cup {Overflow}
  /\ IsFiniteSet(DOMAIN entries)
  /\ Cardinality(DOMAIN entries \ {Overflow}) <= PruneThreshold
  /\ \A k \in DOMAIN entries : EntryOK(entries[k])
  /\ \A k \in DOMAIN windows : windows[k] \in [start: 0..MaxTime, count: 0..Limit]

\* What a request holds by each of its steps.
RequestOK(q) ==
  /\ q \in Request
  /\ q.pc \notin {"idle", "verify"} => q.key = PasskeyKey
  /\ q.pc \in {"lookup", "user", "touch", "session"} => q.purpose = "login"
  /\ q.pc \in {"options", "count", "insert"} => q.purpose = "register"
  /\ q.pc \in {"idle", "verify", "options", "store", "take"} => q.handle = None
  /\ q.pc \in {"store", "take", "options", "count", "insert"} /\ q.purpose = "register" => q.user \in Users
  /\ q.pc \in {"store", "take"} /\ q.purpose = "login" => q.user = None
  /\ q.pc \in {"lookup", "user", "touch", "session", "count", "insert"} => q.handle \in Handles
  /\ q.pc \in {"user", "touch", "session"} => q.user \in Users /\ q.credential \in Credentials

RequestsInv == req \in [Requests -> Request] /\ \A r \in Requests : RequestOK(req[r])

Fruit == [kind: Purposes, user: Users, credential: Credentials]

\* Account u once registered credential c, as the history f has it.
Registered(f, u, c) ==
  \E g \in Handles : \E j \in 1..Len(f[g]) :
    f[g][j] = [kind |-> "register", user |-> u, credential |-> c]

TablesInv ==
  /\ accounts \subseteq Users
  /\ passkeys \in [Credentials -> Users \cup {None}]
  /\ DOMAIN challenges \subseteq DOMAIN issued /\ DOMAIN issued \subseteq Handles
  /\ \A h \in DOMAIN challenges : challenges[h] = issued[h]
  /\ \A h \in DOMAIN issued : /\ issued[h] \in Challenge
                              /\ issued[h].purpose = "login" => issued[h].user = None
  /\ fruit \in [Handles -> Seq(Fruit)]

\* A handle is stored, or one request holds it, or it has borne its fruit.
CeremonyInv ==
  /\ \A h \in Handles : h \in DOMAIN challenges \/ h \notin DOMAIN issued => fruit[h] = <<>>
  /\ \A r \in Requests : LET h == req[r].handle IN h # None =>
       /\ h \in DOMAIN issued \ DOMAIN challenges /\ fruit[h] = <<>>
       /\ issued[h].purpose = req[r].purpose
       /\ req[r].purpose = "register" => issued[h].user = req[r].user
       /\ \A s \in Requests \ {r} : req[s].handle # h
  /\ \A c \in Credentials : passkeys[c] # None => Registered(fruit, passkeys[c], c)
  /\ \A r \in Requests : req[r].pc \in {"user", "touch", "session"} =>
       Registered(fruit, req[r].user, req[r].credential)

\* The requests that are past the check of the lock of key k and may yet fail.
Guessing(k) ==
  {r \in Requests : /\ req[r].key = k
                    /\ \/ req[r].pc = "verify"
                       \/ req[r].pc \in {"take", "lookup"} /\ req[r].purpose = "login"}

\* While a key is locked nobody new gets past the check.
LateInv ==
  /\ late \in [LockKeys -> Nat]
  /\ \A k \in LockKeys :
       /\ late[k] <= Cardinality(Requests) - 1
       /\ k \in DOMAIN entries /\ Active(entries[k]) =>
            late[k] + Cardinality(Guessing(k)) <= Cardinality(Requests) - 1

\* The registrations for u that are between the count and the insert.
Inserting(u) == {r \in Requests : req[r].pc = "insert" /\ req[r].user = u}

QuotaInv ==
  \A u \in Users :
    /\ IsFiniteSet(Owned(u))
    /\ Cardinality(Owned(u)) + Cardinality(Inserting(u)) <= MaxPerUser + Cardinality(Requests) - 1

\* A visit past the state check runs in the browser of its flow; at "open" its
\* code is redeemed and no other visit's.
SsoInv ==
  /\ DOMAIN flows \subseteq Flows /\ DOMAIN codes \subseteq Codes
  /\ jar \in [Browsers -> Flows \cup {None}]
  /\ \A b \in Browsers : jar[b] # None => jar[b] \in DOMAIN flows /\ flows[jar[b]].browser = b
  /\ \A c \in DOMAIN codes : codes[c] \in [flow: Flows, user: Users, redeemed: BOOLEAN]
  /\ visits \in [Requests -> Visit]
  /\ \A r \in Requests : visits[r].pc # "none" =>
       /\ visits[r].browser \in Browsers /\ visits[r].flow \in DOMAIN flows
       /\ visits[r].code \in DOMAIN codes
       /\ flows[visits[r].flow].browser = visits[r].browser
       /\ codes[visits[r].code].flow = visits[r].flow
  /\ \A r \in Requests : visits[r].pc = "open" =>
       /\ codes[visits[r].code].redeemed
       /\ \A s \in Requests \ {r} : visits[s].pc = "open" => visits[s].code # visits[r].code
  /\ \A e \in entered : e.flow \in DOMAIN flows

SignInInv ==
  /\ GuardInv /\ RequestsInv /\ TablesInv /\ CeremonyInv /\ ChallengeSpentOnce
  /\ LateInv /\ QuotaInv
  /\ SsoInv /\ SessionOfOwnFlow

-----------------------------------------------------------------------------
(* The guard.                                                              *)

\* The minimum of two numbers.
LEMMA MinOfTwo ==
  ASSUME NEW a \in Nat, NEW b \in Nat
  PROVE  Min({a, b}) = IF a <= b THEN a ELSE b
BY DEF Min

\* lockout_duration doubles with the level up to the cap.
LEMMA Durations ==
  ASSUME NEW level \in 1..MaxLevel
  PROVE  /\ LockoutDuration(level) \in 1..MaxLockout
         /\ level < MaxLevel => LockoutDuration(level) <= LockoutDuration(level + 1)
<1>1. BaseLockout \in Nat \ {0} /\ MaxLockout \in Nat \ {0}
  BY GuardAssumption
<1>2. 2^0 = 1 /\ 2^1 = 2 /\ 2^2 = 4 /\ 2^3 = 8
  OBVIOUS
<1> DEFINE d(n) == IF BaseLockout * n <= MaxLockout THEN BaseLockout * n ELSE MaxLockout
<1>3. \A n \in {1, 2, 4, 8} : Min({BaseLockout * n, MaxLockout}) = d(n)
  BY <1>1, MinOfTwo
<1>4. /\ LockoutDuration(1) = d(1) /\ LockoutDuration(2) = d(2)
      /\ LockoutDuration(3) = d(4) /\ LockoutDuration(4) = d(8)
  <2>1. 1 - 1 = 0 /\ 2 - 1 = 1 /\ 3 - 1 = 2 /\ 4 - 1 = 3
    OBVIOUS
  <2> QED
    BY <1>2, <1>3, <2>1 DEF LockoutDuration
<1>5. \A n \in {1, 2, 4, 8} : d(n) \in 1..MaxLockout
  BY <1>1
<1>6. d(1) <= d(2) /\ d(2) <= d(4) /\ d(4) <= d(8)
  BY <1>1
<1>7. level \in {1, 2, 3, 4}
  BY DEF MaxLevel
<1> HIDE DEF d
<1>8. LockoutDuration(level) \in 1..MaxLockout
  BY <1>4, <1>5, <1>7
<1>9. level < MaxLevel => LockoutDuration(level) <= LockoutDuration(level + 1)
  <2>1. 1 + 1 = 2 /\ 2 + 1 = 3 /\ 3 + 1 = 4
    OBVIOUS
  <2> QED
    BY <1>4, <1>6, <1>7, <2>1 DEF MaxLevel
<1> QED
  BY <1>8, <1>9

\* One more failure leaves an entry in its range, and a lock that is on does
\* not end earlier.
LEMMA FailedEntry ==
  ASSUME now \in 0..MaxTime, NEW e, EntryOK(e)
  PROVE  EntryOK(Failed(e)) /\ (Active(e) => Failed(e).until >= e.until)
<1> DEFINE rolled == IF ~Active(e) /\ now - e.start >= Window
                     THEN [e EXCEPT !.failures = 0, !.start = now] ELSE e
           level == Min({rolled.level + 1, MaxLevel})
<1>1. /\ e \in Entry /\ e.level \in 0..MaxLevel /\ e.until \in 0..(MaxTime + MaxLockout)
      /\ e.failures \in 0..MaxAttempts /\ e.start \in 0..MaxTime
  BY DEF EntryOK, Entry
<1>2. MaxAttempts \in Nat \ {0} /\ MaxTime \in Nat /\ MaxLockout \in Nat \ {0}
  BY GuardAssumption
<1>3. /\ rolled \in Entry /\ rolled.level = e.level /\ rolled.until = e.until
      /\ rolled.failures \in 0..MaxAttempts /\ (Active(e) => rolled = e)
  <2>1. 0 \in 0..MaxAttempts
    BY <1>2
  <2>2. CASE rolled = e
    BY <1>1, <2>2
  <2>3. CASE ~Active(e) /\ rolled = [e EXCEPT !.failures = 0, !.start = now]
    <3> HIDE DEF rolled
    <3> QED
      BY <1>1, <2>1, <2>3 DEF Entry
  <2> QED
    BY <2>2, <2>3
<1>4. /\ level \in 1..MaxLevel
      /\ e.level > 0 => level = e.level \/ (e.level < MaxLevel /\ level = e.level + 1)
  <2>1. rolled.level + 1 \in Nat /\ MaxLevel \in Nat
    BY <1>1, <1>3 DEF MaxLevel
  <2> HIDE DEF rolled
  <2>2. level = IF rolled.level + 1 <= MaxLevel THEN rolled.level + 1 ELSE MaxLevel
    BY <2>1, MinOfTwo
  <2> QED
    BY <1>1, <1>3, <2>2 DEF MaxLevel
<1>5. /\ LockoutDuration(level) \in 1..MaxLockout
      /\ e.level > 0 => LockoutDuration(e.level) <= LockoutDuration(level)
  <2> HIDE DEF level
  <2>1. LockoutDuration(level) \in 1..MaxLockout
    BY <1>4, Durations
  <2>2. ASSUME e.level > 0
        PROVE  e.level \in 1..MaxLevel
    BY <1>1, <2>2 DEF MaxLevel
  <2>3. ASSUME e.level > 0
        PROVE  /\ LockoutDuration(e.level) \in 1..MaxLockout
               /\ e.level < MaxLevel => LockoutDuration(e.level) <= LockoutDuration(e.level + 1)
    BY <2>2, <2>3, Durations
  <2> QED
    BY <1>4, <2>1, <2>3
<1>6. Failed(e) = IF rolled.failures + 1 < MaxAttempts
                  THEN [rolled EXCEPT !.failures = @ + 1]
                  ELSE [failures |-> 0, start |-> now, until |-> now + LockoutDuration(level),
                        level |-> level]
  BY DEF Failed
<1> HIDE DEF rolled, level
<1>7. CASE rolled.failures + 1 < MaxAttempts
  <2> DEFINE n == rolled.failures + 1
  <2>1. n \in 0..MaxAttempts
    BY <1>2, <1>3, <1>7
  <2>2. Failed(e) = [rolled EXCEPT !.failures = n]
    BY <1>6, <1>7
  <2> HIDE DEF n
  <2>3. Failed(e) \in Entry /\ Failed(e).level = e.level /\ Failed(e).until = e.until
    BY <1>3, <2>1, <2>2 DEF Entry
  <2> QED
    BY <1>1, <2>3 DEF EntryOK
<1>8. CASE ~(rolled.failures + 1 < MaxAttempts)
  <2>1. Failed(e) = [failures |-> 0, start |-> now, until |-> now + LockoutDuration(level),
                     level |-> level]
    BY <1>6, <1>8
  <2>2. now + LockoutDuration(level) \in 0..(MaxTime + MaxLockout)
    BY <1>2, <1>5
  <2>3. level \in 0..MaxLevel /\ level # 0 /\ 0 \in 0..MaxAttempts
    BY <1>2, <1>4 DEF MaxLevel
  <2>4. Failed(e) \in Entry
    BY <2>1, <2>2, <2>3 DEF Entry
  <2>5. Failed(e).until = now + LockoutDuration(level) /\ Failed(e).level = level
    BY <2>1
  <2>6. Active(e) => e.until <= now + LockoutDuration(level)
    <3>1. CASE e.level = 0
      BY <1>1, <1>2, <3>1 DEF EntryOK, Active
    <3>2. CASE e.level > 0
      <4>1. e.until <= now + LockoutDuration(e.level)
        BY <3>2 DEF EntryOK
      <4>2. LockoutDuration(e.level) \in Int
        BY <1>1, <3>2, Durations DEF MaxLevel
      <4> QED
        BY <1>1, <1>5, <3>2, <4>1, <4>2
    <3> QED
      BY <1>1, <3>1, <3>2
  <2> QED
    BY <2>2, <2>3, <2>4, <2>5, <2>6 DEF EntryOK
<1> QED
  BY <1>7, <1>8

\* record_failure_at: pruning keeps the locks that are on, only the shared entry
\* is added to a full map, and no other key's entry changes.
LEMMA FailureEffect ==
  ASSUME GuardInv, NEW key \in LockKeys, RecordFailure(key), UNCHANGED <<now, windows>>
  PROVE  /\ GuardInv'
         /\ \A j \in DOMAIN entries : Active(entries[j]) =>
              j \in DOMAIN entries' /\ entries'[j].until >= entries[j].until
         /\ \A j \in DOMAIN entries' : j \notin {key, Overflow} =>
              j \in DOMAIN entries /\ entries'[j] = entries[j]
         /\ late' = [late EXCEPT ![key] = IF key \in DOMAIN entries /\ Active(entries[key])
                                          THEN @ + 1 ELSE 0]
<1> DEFINE kept == IF Full(entries)
                   THEN Restrict(entries, {j \in DOMAIN entries : ~IsIdle(entries[j])})
                   ELSE entries
           k == Tracked(kept, key)
           e == IF k \in DOMAIN kept THEN kept[k] ELSE NewEntry
           own == key \in DOMAIN kept /\ Active(kept[key])
<1>1. /\ entries' = [j \in DOMAIN kept \cup {k} |-> IF j = k THEN Failed(e) ELSE kept[j]]
      /\ late' = [late EXCEPT ![key] = IF own THEN @ + 1 ELSE 0]
  BY DEF RecordFailure
<1>2. /\ DOMAIN kept \subseteq DOMAIN entries /\ \A j \in DOMAIN kept : kept[j] = entries[j]
      /\ \A j \in DOMAIN entries : Active(entries[j]) => j \in DOMAIN kept
  BY DEF Restrict, IsIdle
<1>3. k = IF Cardinality(DOMAIN kept) >= PruneThreshold /\ key \notin DOMAIN kept
          THEN Overflow ELSE key
  BY DEF Tracked, Full
<1>4. own <=> key \in DOMAIN entries /\ Active(entries[key])
  BY <1>2
<1>5. EntryOK(Failed(e)) /\ (Active(e) => Failed(e).until >= e.until)
  <2>1. MaxTime \in Nat /\ MaxLockout \in Nat /\ MaxAttempts \in Nat
    BY GuardAssumption
  <2>2. NewEntry \in Entry /\ NewEntry.level = 0 /\ NewEntry.until = 0
    BY <2>1 DEF NewEntry, Entry, GuardInv, MaxLevel
  <2>3. EntryOK(NewEntry)
    BY <2>2 DEF EntryOK
  <2>4. EntryOK(e)
    BY <1>2, <2>3 DEF GuardInv
  <2> HIDE DEF e
  <2> QED
    BY <2>4, FailedEntry DEF GuardInv
<1>6. k \in DOMAIN kept => e = entries[k]
  BY <1>2
<1> HIDE DEF kept, k, e, own
<1>7. DOMAIN entries' = DOMAIN kept \cup {k} /\ entries'[k] = Failed(e)
      /\ \A j \in DOMAIN kept \ {k} : entries'[j] = entries[j]
  BY <1>1, <1>2
<1>8. GuardInv'
  <2> DEFINE S == DOMAIN kept \ {Overflow}
  <2>1. PruneThreshold \in Nat \ {0} /\ Overflow \notin LockKeys
    BY GuardAssumption
  <2>2. /\ IsFiniteSet(DOMAIN entries) /\ IsFiniteSet(DOMAIN kept) /\ IsFiniteSet(S)
        /\ IsFiniteSet(DOMAIN entries \ {Overflow})
    BY <1>2, FS_Subset, FS_RemoveElement DEF GuardInv
  <2>3. Cardinality(S) <= PruneThreshold /\ Cardinality(S) <= Cardinality(DOMAIN kept)
        /\ Cardinality(S) \in Nat /\ Cardinality(DOMAIN kept) \in Nat
    <3>1. Cardinality(S) <= Cardinality(DOMAIN entries \ {Overflow})
      BY <1>2, <2>2, FS_Subset
    <3>2. Cardinality(S) <= Cardinality(DOMAIN kept)
      BY <2>2, FS_Subset
    <3>3. /\ Cardinality(S) \in Nat /\ Cardinality(DOMAIN kept) \in Nat
          /\ Cardinality(DOMAIN entries \ {Overflow}) \in Nat
      BY <2>2, FS_CardinalityType
    <3> QED
      BY <2>1, <3>1, <3>2, <3>3 DEF GuardInv
  <2>4. IsFiniteSet(DOMAIN entries')
    BY <1>7, <2>2, FS_AddElement
  <2>5. Cardinality(DOMAIN entries' \ {Overflow}) <= PruneThreshold
    <3>1. CASE k = Overflow \/ k \in DOMAIN kept
      <4>1. DOMAIN entries' \ {Overflow} = S
        BY <1>7, <3>1
      <4> QED
        BY <2>3, <4>1
    <3>2. CASE k # Overflow /\ k \notin DOMAIN kept
      <4>1. Cardinality(DOMAIN kept) < PruneThreshold
        BY <1>3, <2>1, <2>3, <3>2
      <4>2. DOMAIN entries' \ {Overflow} = S \cup {k} /\ k \notin S
        BY <1>7, <3>2
      <4> HIDE DEF S
      <4>3. Cardinality(S \cup {k}) = Cardinality(S) + 1
        BY <2>2, <4>2, FS_AddElement
      <4>4. Cardinality(S) + 1 <= PruneThreshold
        BY <2>1, <2>3, <4>1
      <4> QED
        BY <4>2, <4>3, <4>4
    <3> QED
      BY <3>1, <3>2
  <2>6. DOMAIN entries' \subseteq LockKeys \cup {Overflow}
    BY <1>2, <1>3, <1>7 DEF GuardInv
  <2>7. \A j \in DOMAIN entries' : EntryOK(entries'[j])
    BY <1>2, <1>5, <1>7 DEF GuardInv
  <2>8. \A x : EntryOK(x)' <=> EntryOK(x)
    BY DEF EntryOK
  <2> QED
    BY <2>4, <2>5, <2>6, <2>7, <2>8 DEF GuardInv, EntryOK
<1>9. ASSUME NEW j \in DOMAIN entries, Active(entries[j])
      PROVE  j \in DOMAIN entries' /\ entries'[j].until >= entries[j].until
  <2>1. j \in DOMAIN kept
    BY <1>2, <1>9
  <2>2. entries[j].until \in Int
    BY DEF GuardInv, EntryOK, Entry
  <2> QED
    BY <1>5, <1>6, <1>7, <1>9, <2>1, <2>2
<1>10. ASSUME NEW j \in DOMAIN entries', j \notin {key, Overflow}
       PROVE  j \in DOMAIN entries /\ entries'[j] = entries[j]
  BY <1>2, <1>3, <1>7, <1>10
<1> QED
  BY <1>1, <1>4, <1>8, <1>9, <1>10

\* record_success forgets the key and nothing else.
LEMMA SuccessEffect ==
  ASSUME GuardInv, NEW key \in LockKeys, RecordSuccess(key), UNCHANGED <<now, windows>>
  PROVE  /\ GuardInv'
         /\ DOMAIN entries' = DOMAIN entries \ {key}
         /\ \A j \in DOMAIN entries' : entries'[j] = entries[j]
         /\ late' = [late EXCEPT ![key] = 0]
<1>1. /\ DOMAIN entries' = DOMAIN entries \ {key}
      /\ \A j \in DOMAIN entries' : entries'[j] = entries[j]
      /\ late' = [late EXCEPT ![key] = 0]
  BY DEF RecordSuccess, Restrict
<1>2. IsFiniteSet(DOMAIN entries')
  BY <1>1, FS_RemoveElement DEF GuardInv
<1>3. Cardinality(DOMAIN entries' \ {Overflow}) <= PruneThreshold
  <2> DEFINE S == DOMAIN entries \ {Overflow}
             T == DOMAIN entries' \ {Overflow}
  <2>1. IsFiniteSet(S) /\ T \subseteq S
    BY <1>1, FS_RemoveElement DEF GuardInv
  <2>2. Cardinality(S) <= PruneThreshold
    BY DEF GuardInv
  <2> HIDE DEF S, T
  <2>3. IsFiniteSet(T) /\ Cardinality(T) <= Cardinality(S)
    BY <2>1, FS_Subset
  <2>4. Cardinality(T) \in Nat /\ Cardinality(S) \in Nat /\ PruneThreshold \in Nat
    BY <2>1, <2>3, FS_CardinalityType, GuardAssumption
  <2>5. Cardinality(T) <= PruneThreshold
    BY <2>2, <2>3, <2>4
  <2> QED
    BY <2>5 DEF T
<1> QED
  BY <1>1, <1>2, <1>3 DEF GuardInv, EntryOK

\* RateLimiter::check_at counts up to the limit and starts a new window after.
LEMMA LimiterEffect ==
  ASSUME GuardInv, NEW key \in LimitKeys, NEW allowed, LimiterSays(key, allowed),
         UNCHANGED <<now, entries>>
  PROVE  GuardInv'
<1> DEFINE fresh == [start |-> now, count |-> 0]
           seen == IF key \in DOMAIN windows THEN windows[key] ELSE fresh
           w == IF Elapsed(seen) THEN fresh ELSE seen
           counted == IF w.count >= Limit THEN w ELSE [w EXCEPT !.count = @ + 1]
           W == [start: 0..MaxTime, count: 0..Limit]
<1>1. Limit \in Nat \ {0}
  BY GuardAssumption
<1>2. fresh \in W
  BY <1>1 DEF GuardInv
<1>3. w \in W
  BY <1>2 DEF GuardInv
<1>4. windows' = [k \in DOMAIN windows \cup {key} |-> IF k = key THEN counted ELSE windows[k]]
  BY DEF LimiterSays
<1>5. counted \in W
  <2> HIDE DEF w
  <2>1. CASE w.count >= Limit
    BY <1>3, <2>1
  <2>2. CASE ~(w.count >= Limit)
    <3> DEFINE n == w.count + 1
    <3>1. n \in 0..Limit
      BY <1>1, <1>3, <2>2
    <3>2. counted = [w EXCEPT !.count = n]
      BY <2>2
    <3> HIDE DEF n
    <3> QED
      BY <1>3, <3>1, <3>2
  <2> QED
    BY <2>1, <2>2
<1> HIDE DEF counted
<1>6. \A k \in DOMAIN windows' : windows'[k] \in W
  BY <1>4, <1>5 DEF GuardInv
<1> QED
  BY <1>6 DEF GuardInv, EntryOK

\* Time passes: a lock ends no later than before, seen from now.
LEMMA TickEffect ==
  ASSUME GuardInv, Tick
  PROVE  GuardInv'
<1>1. now' \in 0..MaxTime /\ now' = now + 1 /\ now \in Nat
  BY GuardAssumption DEF GuardInv, Tick
<1>2. ASSUME NEW k \in DOMAIN entries
      PROVE  EntryOK(entries[k])'
  <2>1. EntryOK(entries[k]) /\ entries'[k] = entries[k]
    BY DEF GuardInv, Tick
  <2>2. entries[k].level # 0 => LockoutDuration(entries[k].level) \in Int
    BY <2>1, Durations DEF EntryOK, Entry, MaxLevel
  <2>3. entries[k].until \in Int
    BY <2>1 DEF EntryOK, Entry
  <2> QED
    BY <1>1, <2>1, <2>2, <2>3 DEF EntryOK
<1> QED
  BY <1>1, <1>2 DEF GuardInv, Tick

\* A restart leaves both maps empty.
LEMMA RestartEffect ==
  ASSUME GuardInv, Restart
  PROVE  GuardInv'
<1>1. entries' = <<>> /\ windows' = <<>> /\ now' = now
  BY DEF Restart
<1>2. DOMAIN entries' = {} /\ DOMAIN windows' = {} /\ DOMAIN entries' \ {Overflow} = {}
  BY <1>1
<1>3. IsFiniteSet({}) /\ Cardinality({}) = 0 /\ 0 <= PruneThreshold
  BY FS_EmptySet, GuardAssumption
<1>4. IsFiniteSet(DOMAIN entries') /\ Cardinality(DOMAIN entries' \ {Overflow}) <= PruneThreshold
  BY <1>2, <1>3
<1> QED
  BY <1>1, <1>2, <1>4 DEF GuardInv

-----------------------------------------------------------------------------
(* The requests.                                                           *)

\* A request that changes leaves the others as they were.
LEMMA OneRequest ==
  ASSUME RequestsInv, NEW r \in Requests, NEW q, RequestOK(q), req' = [req EXCEPT ![r] = q]
  PROVE  RequestsInv'
BY DEF RequestsInv, RequestOK

\* A request that is not there holds nothing.
LEMMA IdleOK == RequestOK(Idle)
BY PasskeysAssumption DEF RequestOK, Idle, Request, Purposes

\* A request goes through its steps and knows by each what it needs.
LEMMA StepRequests ==
  ASSUME TablesInv, RequestsInv, NEW r \in Requests, Step(r)
  PROVE  RequestsInv'
<1> DEFINE q == req[r]
<1>1. RequestOK(q) /\ q \in Request
  BY DEF RequestsInv
<1>2. CASE Reply(r)
  BY <1>2, IdleOK, OneRequest DEF Reply
<1>3. ASSUME NEW k \in LockKeys, req' = [req EXCEPT ![r] = [Idle EXCEPT !.pc = "verify", !.key = k]]
      PROVE  RequestsInv'
  <2>1. RequestOK([Idle EXCEPT !.pc = "verify", !.key = k])
    BY PasskeysAssumption DEF RequestOK, Idle, Request, Purposes
  <2> QED
    BY <1>3, <2>1, OneRequest
<1>4. ASSUME NEW pc \in {"store", "take"}, req' = [req EXCEPT ![r] = [Idle EXCEPT !.pc = pc]]
      PROVE  RequestsInv'
  <2>1. RequestOK([Idle EXCEPT !.pc = pc])
    BY PasskeysAssumption DEF RequestOK, Idle, Request, Purposes
  <2> QED
    BY <1>4, <2>1, OneRequest
<1>5. ASSUME NEW pc \in {"options", "take"}, SignedIn(r, pc)
      PROVE  RequestsInv'
  <2>1. PICK u \in accounts :
          req' = [req EXCEPT ![r] = [Idle EXCEPT !.pc = pc, !.purpose = "register", !.user = u]]
    BY <1>5 DEF SignedIn
  <2>2. u \in Users
    BY DEF TablesInv
  <2>3. RequestOK([Idle EXCEPT !.pc = pc, !.purpose = "register", !.user = u])
    BY <2>2, PasskeysAssumption DEF RequestOK, Idle, Request, Purposes
  <2> QED
    BY <2>1, <2>3, OneRequest
<1>6. ASSUME NEW pc, Goto(r, pc),
             \/ q.pc = "options" /\ pc = "store"
             \/ q.pc = "user" /\ pc = "touch"
             \/ q.pc = "touch" /\ pc = "session"
             \/ q.pc = "count" /\ pc = "insert"
      PROVE  RequestsInv'
  <2>1. q.pc = "options" => q.handle = None
    BY <1>1 DEF RequestOK
  <2>2. RequestOK([q EXCEPT !.pc = pc])
    BY <1>1, <1>6, <2>1 DEF RequestOK, Request
  <2>3. req' = [req EXCEPT ![r] = [q EXCEPT !.pc = pc]]
    BY <1>6 DEF Goto, RequestsInv
  <2> QED
    BY <2>2, <2>3, OneRequest
<1>7. CASE Take(r) /\ ~Reply(r)
  <2>1. PICK h \in Handles, next \in {"lookup", "count"} :
          /\ next = IF q.purpose = "login" THEN "lookup" ELSE "count"
          /\ req' = [req EXCEPT ![r].pc = next, ![r].handle = h]
    BY <1>7 DEF Take
  <2>2. q.pc = "take"
    BY <1>7 DEF Take
  <2>3. RequestOK([q EXCEPT !.pc = next, !.handle = h])
    BY <1>1, <2>1, <2>2 DEF RequestOK, Request, Purposes
  <2>4. req' = [req EXCEPT ![r] = [q EXCEPT !.pc = next, !.handle = h]]
    BY <2>1 DEF RequestsInv
  <2> QED
    BY <2>3, <2>4, OneRequest
<1>8. CASE Lookup(r) /\ ~Reply(r)
  <2>1. PICK c \in Credentials, u \in Users :
          req' = [req EXCEPT ![r].pc = "user", ![r].credential = c, ![r].user = u]
    BY <1>8 DEF Lookup
  <2>2. q.pc = "lookup"
    BY <1>8 DEF Lookup
  <2>3. RequestOK([q EXCEPT !.pc = "user", !.credential = c, !.user = u])
    BY <1>1, <2>2 DEF RequestOK, Request
  <2>4. req' = [req EXCEPT ![r] = [q EXCEPT !.pc = "user", !.credential = c, !.user = u]]
    BY <2>1 DEF RequestsInv
  <2> QED
    BY <2>3, <2>4, OneRequest
<1>9. CASE LoginCheck(r) \/ LoginOptions(r) \/ LoginVerify(r)
  BY <1>3, <1>4, <1>9 DEF LoginCheck, LoginOptions, LoginVerify, RequestsInv
<1>10. CASE RegisterOptions(r) \/ RegisterVerify(r)
  BY <1>5, <1>10 DEF RegisterOptions, RegisterVerify
<1>11. CASE CountBefore(r) \/ FindUser(r) \/ Touch(r) \/ CountAgain(r)
  BY <1>2, <1>6, <1>11 DEF CountBefore, FindUser, Touch, CountAgain
<1> QED
  BY <1>2, <1>7, <1>8, <1>9, <1>10, <1>11
  DEF Step, LoginVerified, StoreChallenge, StartSession, Insert, Dropped

-----------------------------------------------------------------------------
(* The ceremonies.                                                         *)

\* What was registered stays on record.
LEMMA RegisteredStays ==
  ASSUME TablesInv, NEW h \in Handles, NEW what \in Fruit, Yield(h, what), NEW u, NEW c,
         Registered(fruit, u, c)
  PROVE  Registered(fruit', u, c)
<1>1. PICK g \in Handles : \E j \in 1..Len(fruit[g]) :
        fruit[g][j] = [kind |-> "register", user |-> u, credential |-> c]
  BY DEF Registered
<1>2. PICK j \in 1..Len(fruit[g]) :
        fruit[g][j] = [kind |-> "register", user |-> u, credential |-> c]
  BY <1>1
<1>3. fruit[g] \in Seq(Fruit) /\ fruit[h] \in Seq(Fruit)
  BY DEF TablesInv
<1>4. j \in 1..Len(fruit'[g]) /\ fruit'[g][j] = fruit[g][j]
  BY <1>2, <1>3 DEF Yield, TablesInv
<1> QED
  BY <1>2, <1>4 DEF Registered

\* A step that makes no challenge and lets its request drop its handle or keep
\* it for the same purpose.
LEMMA CeremonyOne ==
  ASSUME RequestsInv, CeremonyInv, ChallengeSpentOnce, NEW r \in Requests, NEW q,
         req' = [req EXCEPT ![r] = q],
         \/ q.handle = None
         \/ /\ q.handle = req[r].handle /\ q.purpose = req[r].purpose
            /\ q.purpose = "register" => q.user = req[r].user,
         q.pc \in {"user", "touch", "session"} => Registered(fruit, q.user, q.credential),
         UNCHANGED <<passkeys, issued, fruit>>, DOMAIN challenges' \subseteq DOMAIN challenges
  PROVE  CeremonyInv' /\ ChallengeSpentOnce'
<1>1. \A s \in Requests : req'[s] = IF s = r THEN q ELSE req[s]
  BY DEF RequestsInv
<1>2. \A u, c : Registered(fruit', u, c) <=> Registered(fruit, u, c)
  BY DEF Registered
<1>3. ASSUME NEW s \in Requests, req'[s].handle # None
      PROVE  LET h == req'[s].handle IN
       /\ h \in DOMAIN issued \ DOMAIN challenges' /\ fruit[h] = <<>>
       /\ issued[h].purpose = req'[s].purpose
       /\ req'[s].purpose = "register" => issued[h].user = req'[s].user
       /\ \A x \in Requests \ {s} : req'[x].handle # h
  <2>1. req[s].handle = req'[s].handle /\ req[s].purpose = req'[s].purpose
        /\ (req[s].purpose = "register" => req[s].user = req'[s].user)
    BY <1>1, <1>3
  <2>2. \A x \in Requests : req'[x].handle # None => req[x].handle = req'[x].handle
    BY <1>1
  <2> QED
    BY <1>3, <2>1, <2>2 DEF CeremonyInv
<1>4. \A s \in Requests : req'[s].pc \in {"user", "touch", "session"} =>
        Registered(fruit, req'[s].user, req'[s].credential)
  BY <1>1 DEF CeremonyInv
<1>5. ChallengeSpentOnce'
  BY DEF ChallengeSpentOnce
<1>6. CeremonyInv'
  BY <1>2, <1>3, <1>4 DEF CeremonyInv
<1> QED
  BY <1>5, <1>6

\* The statements that touch neither challenges nor passkeys.
LEMMA QuietSteps ==
  ASSUME TablesInv, RequestsInv, CeremonyInv, ChallengeSpentOnce, NEW r \in Requests, OnlyRequests,
         \/ LoginCheck(r) \/ LoginVerified(r) \/ LoginOptions(r) \/ RegisterOptions(r)
         \/ CountBefore(r) \/ LoginVerify(r) \/ RegisterVerify(r) \/ Lookup(r) \/ FindUser(r)
         \/ Touch(r) \/ CountAgain(r) \/ Dropped(r)
  PROVE  CeremonyInv' /\ ChallengeSpentOnce'
<1>1. RequestOK(req[r]) /\ req[r] \in Request /\ req \in [Requests -> Request]
  BY DEF RequestsInv
<1>2. UNCHANGED <<passkeys, issued, fruit>> /\ DOMAIN challenges' \subseteq DOMAIN challenges
  BY DEF OnlyRequests
<1>3. ASSUME NEW q, req' = [req EXCEPT ![r] = q], q.handle = None,
             q.pc \notin {"user", "touch", "session"}
      PROVE  CeremonyInv' /\ ChallengeSpentOnce'
  BY <1>2, <1>3, CeremonyOne
<1>4. CASE Reply(r)
  <2>1. Idle.handle = None /\ Idle.pc = "idle"
    BY DEF Idle
  <2> QED
    BY <1>2, <1>4, <2>1, CeremonyOne DEF Reply
<1>5. CASE req' = req
  <2>1. req' = [req EXCEPT ![r] = req[r]]
    BY <1>1, <1>5
  <2> QED
    BY <1>2, <2>1, CeremonyOne DEF CeremonyInv
<1>6. ASSUME NEW pc, Goto(r, pc), \/ pc \notin {"user", "touch", "session"}
                                  \/ req[r].pc \in {"user", "touch"}
      PROVE  CeremonyInv' /\ ChallengeSpentOnce'
  <2> DEFINE q == [req[r] EXCEPT !.pc = pc]
  <2>1. /\ q.pc = pc /\ q.handle = req[r].handle /\ q.purpose = req[r].purpose
        /\ q.user = req[r].user /\ q.credential = req[r].credential
    BY <1>1 DEF Request
  <2>2. req' = [req EXCEPT ![r] = q]
    BY <1>1, <1>6 DEF Goto
  <2> HIDE DEF q
  <2>3. q.pc \in {"user", "touch", "session"} => Registered(fruit, q.user, q.credential)
    BY <1>6, <2>1 DEF CeremonyInv
  <2> QED
    BY <1>2, <2>1, <2>2, <2>3, CeremonyOne
<1>7. CASE Lookup(r) /\ ~Reply(r)
  <2>1. PICK c \in Credentials, u \in Users :
          /\ Belongs(c, u)
          /\ req' = [req EXCEPT ![r].pc = "user", ![r].credential = c, ![r].user = u]
    BY <1>7 DEF Lookup
  <2> DEFINE q == [req[r] EXCEPT !.pc = "user", !.credential = c, !.user = u]
  <2>2. /\ q.handle = req[r].handle /\ q.purpose = req[r].purpose /\ q.purpose = "login"
        /\ q.user = u /\ q.credential = c
    BY <1>1, <1>7 DEF Request, RequestOK, Lookup
  <2>3. req' = [req EXCEPT ![r] = q]
    BY <1>1, <2>1
  <2>4. Registered(fruit, u, c)
    BY <2>1, PasskeysAssumption DEF Belongs, CeremonyInv
  <2> HIDE DEF q
  <2> QED
    BY <1>2, <2>2, <2>3, <2>4, CeremonyOne
<1>8. CASE LoginCheck(r) \/ LoginOptions(r) \/ LoginVerify(r)
  <2>1. CASE req' = req
    BY <1>5, <2>1
  <2>2. ASSUME NEW k, req' = [req EXCEPT ![r] = [Idle EXCEPT !.pc = "verify", !.key = k]]
        PROVE  CeremonyInv' /\ ChallengeSpentOnce'
    <3> DEFINE q == [Idle EXCEPT !.pc = "verify", !.key = k]
    <3>1. q.handle = None /\ q.pc \notin {"user", "touch", "session"}
      BY DEF Idle
    <3>2. req' = [req EXCEPT ![r] = q]
      BY <2>2
    <3> HIDE DEF q
    <3> QED
      BY <1>3, <3>1, <3>2
  <2>3. ASSUME NEW pc \in {"store", "take"}, req' = [req EXCEPT ![r] = [Idle EXCEPT !.pc = pc]]
        PROVE  CeremonyInv' /\ ChallengeSpentOnce'
    <3> DEFINE q == [Idle EXCEPT !.pc = pc]
    <3>1. q.handle = None /\ q.pc \notin {"user", "touch", "session"}
      BY DEF Idle
    <3>2. req' = [req EXCEPT ![r] = q]
      BY <2>3
    <3> HIDE DEF q
    <3> QED
      BY <1>3, <3>1, <3>2
  <2> QED
    BY <1>8, <2>1, <2>2, <2>3 DEF LoginCheck, LoginOptions, LoginVerify
<1>9. CASE RegisterOptions(r) \/ RegisterVerify(r)
  <2>1. PICK u \in accounts, pc \in {"options", "take"} :
          req' = [req EXCEPT ![r] = [Idle EXCEPT !.pc = pc, !.purpose = "register", !.user = u]]
    BY <1>9 DEF RegisterOptions, RegisterVerify, SignedIn
  <2> QED
    <3> DEFINE q == [Idle EXCEPT !.pc = pc, !.purpose = "register", !.user = u]
    <3>1. q.handle = None /\ q.pc \notin {"user", "touch", "session"}
      BY DEF Idle
    <3>2. req' = [req EXCEPT ![r] = q]
      BY <2>1
    <3> HIDE DEF q
    <3> QED
      BY <1>3, <3>1, <3>2
<1>10. CASE CountBefore(r) \/ FindUser(r) \/ Touch(r) \/ CountAgain(r)
  BY <1>4, <1>6, <1>10 DEF CountBefore, FindUser, Touch, CountAgain
<1> QED
  BY <1>4, <1>7, <1>8, <1>9, <1>10 DEF LoginVerified, Lookup, Dropped

\* create: a handle never used before; what has expired goes.
LEMMA StoreCeremony ==
  ASSUME GuardInv, TablesInv, RequestsInv, CeremonyInv, ChallengeSpentOnce,
         NEW r \in Requests, StoreChallenge(r)
  PROVE  TablesInv' /\ CeremonyInv' /\ ChallengeSpentOnce'
<1> DEFINE ch == [purpose |-> req[r].purpose, user |-> req[r].user, expires |-> now + ChallengeTtl]
           live == {k \in DOMAIN challenges : challenges[k].expires > now}
<1>1. PICK h \in Handles \ DOMAIN issued :
        /\ challenges' = [k \in live \cup {h} |-> IF k = h THEN ch ELSE challenges[k]]
        /\ issued' = [k \in DOMAIN issued \cup {h} |-> IF k = h THEN ch ELSE issued[k]]
  BY DEF StoreChallenge
<1>2. /\ UNCHANGED <<accounts, passkeys, fruit>> /\ req' = [req EXCEPT ![r] = Idle]
      /\ RequestOK(req[r]) /\ req[r].pc = "store" /\ req \in [Requests -> Request]
  BY DEF StoreChallenge, Reply, RequestsInv
<1>3. ch \in Challenge /\ (ch.purpose = "login" => ch.user = None)
  <2>1. now + ChallengeTtl \in 0..(MaxTime + ChallengeTtl)
    BY GuardAssumption, PasskeysAssumption DEF GuardInv
  <2>2. req[r].purpose \in Purposes /\ req[r].user \in Users \cup {None}
        /\ (req[r].purpose = "login" => req[r].user = None)
    BY <1>2 DEF RequestOK, Request
  <2> QED
    BY <2>1, <2>2 DEF Challenge
<1> HIDE DEF ch
<1>4. live \subseteq DOMAIN challenges /\ h \notin DOMAIN challenges /\ live \subseteq DOMAIN issued
  BY DEF TablesInv
<1> HIDE DEF live
<1>5. /\ DOMAIN issued' = DOMAIN issued \cup {h} /\ DOMAIN challenges' = live \cup {h}
      /\ \A k \in DOMAIN issued : issued'[k] = issued[k]
      /\ issued'[h] = ch /\ challenges'[h] = ch
      /\ \A k \in live : challenges'[k] = issued[k]
  BY <1>1, <1>4 DEF TablesInv
<1>6. TablesInv'
  BY <1>2, <1>3, <1>4, <1>5 DEF TablesInv
<1>7. \A u, c : Registered(fruit', u, c) <=> Registered(fruit, u, c)
  BY <1>2 DEF Registered
<1>8. Idle.handle = None /\ Idle.pc = "idle"
  BY DEF Idle
<1>9. \A s \in Requests : req'[s] = IF s = r THEN Idle ELSE req[s]
  BY <1>2
<1>10. ASSUME NEW s \in Requests, req'[s].handle # None
       PROVE  LET g == req'[s].handle IN
         /\ g \in DOMAIN issued' \ DOMAIN challenges' /\ fruit'[g] = <<>>
         /\ issued'[g].purpose = req'[s].purpose
         /\ req'[s].purpose = "register" => issued'[g].user = req'[s].user
         /\ \A x \in Requests \ {s} : req'[x].handle # g
  <2>1. s # r /\ req'[s] = req[s]
    BY <1>8, <1>9, <1>10
  <2>2. req[s].handle \in DOMAIN issued \ DOMAIN challenges /\ req[s].handle # h
    BY <1>1, <1>10, <2>1 DEF CeremonyInv
  <2> QED
    BY <1>2, <1>4, <1>5, <1>8, <1>9, <1>10, <2>1, <2>2 DEF CeremonyInv
<1>11. \A s \in Requests : req'[s].pc \in {"user", "touch", "session"} =>
         Registered(fruit, req'[s].user, req'[s].credential)
  BY <1>8, <1>9 DEF CeremonyInv
<1>12. \A g \in Handles : g \in DOMAIN challenges' \/ g \notin DOMAIN issued' => fruit'[g] = <<>>
  BY <1>1, <1>2, <1>4, <1>5 DEF CeremonyInv
<1>13. CeremonyInv'
  BY <1>2, <1>7, <1>10, <1>11, <1>12 DEF CeremonyInv
<1>14. ChallengeSpentOnce'
  BY <1>2, <1>5 DEF ChallengeSpentOnce
<1> QED
  BY <1>6, <1>13, <1>14

\* take: the DELETE ... RETURNING hands a stored challenge to one request.
LEMMA TakeCeremony ==
  ASSUME TablesInv, RequestsInv, CeremonyInv, ChallengeSpentOnce, NEW r \in Requests, Take(r)
  PROVE  TablesInv' /\ CeremonyInv' /\ ChallengeSpentOnce'
<1>1. /\ UNCHANGED <<accounts, passkeys, issued, fruit>> /\ req[r].pc = "take"
      /\ RequestOK(req[r]) /\ req[r] \in Request /\ req \in [Requests -> Request]
  BY DEF Take, RequestsInv
<1>2. Idle.handle = None /\ Idle.pc = "idle"
  BY DEF Idle
<1>3. \A u, c : Registered(fruit', u, c) <=> Registered(fruit, u, c)
  BY <1>1 DEF Registered
<1>4. ChallengeSpentOnce'
  BY <1>1 DEF ChallengeSpentOnce
<1>5. /\ DOMAIN challenges' \subseteq DOMAIN challenges
      /\ \A g \in DOMAIN challenges' : challenges'[g] = challenges[g]
  BY DEF Take, Removed, Restrict
<1>6. TablesInv'
  BY <1>1, <1>5 DEF TablesInv
<1>7. CASE Reply(r)
  BY <1>1, <1>2, <1>5, <1>6, <1>7, CeremonyOne DEF Reply
<1>8. CASE ~Reply(r)
  <2>1. PICK h \in Handles, next \in {"lookup", "count"} :
          /\ Takes(h, req[r].purpose) /\ challenges' = Removed(h)
          /\ req[r].purpose = "register" => challenges[h].user = req[r].user
          /\ req' = [req EXCEPT ![r].pc = next, ![r].handle = h]
    BY <1>8 DEF Take
  <2> DEFINE q == [req[r] EXCEPT !.pc = next, !.handle = h]
  <2>2. q.handle = h /\ q.purpose = req[r].purpose /\ q.user = req[r].user /\ q.pc = next
    BY <1>1 DEF Request
  <2>3. \A s \in Requests : req'[s] = IF s = r THEN q ELSE req[s]
    BY <1>1, <2>1
  <2> HIDE DEF q
  <2>4. /\ h \in DOMAIN challenges /\ h \in DOMAIN issued /\ challenges[h] = issued[h]
        /\ issued[h].purpose = req[r].purpose /\ fruit[h] = <<>>
        /\ DOMAIN challenges' = DOMAIN challenges \ {h}
    BY <2>1 DEF Takes, TablesInv, CeremonyInv, Removed, Restrict
  <2>5. \A s \in Requests : req[s].handle # h
    BY <2>4, PasskeysAssumption DEF CeremonyInv
  <2>6. ASSUME NEW s \in Requests, req'[s].handle # None
        PROVE  LET g == req'[s].handle IN
          /\ g \in DOMAIN issued \ DOMAIN challenges' /\ fruit[g] = <<>>
          /\ issued[g].purpose = req'[s].purpose
          /\ req'[s].purpose = "register" => issued[g].user = req'[s].user
          /\ \A x \in Requests \ {s} : req'[x].handle # g
    <3>1. CASE s = r
      BY <2>1, <2>2, <2>3, <2>4, <2>5, <3>1
    <3>2. CASE s # r
      BY <2>2, <2>3, <2>4, <2>5, <2>6, <3>2 DEF CeremonyInv
    <3> QED
      BY <3>1, <3>2
  <2>7. \A s \in Requests : req'[s].pc \in {"user", "touch", "session"} =>
          Registered(fruit, req'[s].user, req'[s].credential)
    BY <2>2, <2>3 DEF CeremonyInv
  <2>8. \A g \in Handles : g \in DOMAIN challenges' \/ g \notin DOMAIN issued' => fruit'[g] = <<>>
    BY <1>1, <1>5 DEF CeremonyInv
  <2>9. CeremonyInv'
    BY <1>1, <1>3, <2>6, <2>7, <2>8 DEF CeremonyInv
  <2> QED
    BY <1>4, <1>6, <2>9
<1> QED
  BY <1>7, <1>8

\* The one fruit of a handle, and the end of the request that held it.
LEMMA YieldCeremony ==
  ASSUME TablesInv, RequestsInv, CeremonyInv, ChallengeSpentOnce, NEW r \in Requests,
         NEW h \in Handles, h = req[r].handle, NEW what \in Fruit, Yield(h, what), Reply(r),
         what.kind = req[r].purpose,
         what.kind = "register" => what.user = req[r].user,
         what.kind = "login" => Registered(fruit, what.user, what.credential),
         UNCHANGED <<challenges, issued>>,
         \A c \in Credentials : passkeys'[c] # None =>
            passkeys'[c] = passkeys[c]
            \/ what = [kind |-> "register", user |-> passkeys'[c], credential |-> c]
  PROVE  CeremonyInv' /\ ChallengeSpentOnce' /\ fruit' \in [Handles -> Seq(Fruit)]
<1>1. /\ h \in DOMAIN issued \ DOMAIN challenges /\ fruit[h] = <<>>
      /\ issued[h].purpose = req[r].purpose
      /\ req[r].purpose = "register" => issued[h].user = req[r].user
      /\ \A x \in Requests \ {r} : req[x].handle # h
  BY PasskeysAssumption DEF CeremonyInv
<1>2. /\ fruit' \in [Handles -> Seq(Fruit)] /\ fruit'[h] = <<what>>
      /\ \A g \in Handles \ {h} : fruit'[g] = fruit[g]
  BY <1>1 DEF Yield, TablesInv
<1>3. \A u, c : Registered(fruit, u, c) => Registered(fruit', u, c)
  BY RegisteredStays
<1>4. Idle.handle = None /\ Idle.pc = "idle"
  BY DEF Idle
<1>5. \A s \in Requests : req'[s] = IF s = r THEN Idle ELSE req[s]
  BY DEF Reply, RequestsInv
<1>6. ASSUME NEW s \in Requests, req'[s].handle # None
      PROVE  LET g == req'[s].handle IN
       /\ g \in DOMAIN issued \ DOMAIN challenges /\ fruit'[g] = <<>>
       /\ issued[g].purpose = req'[s].purpose
       /\ req'[s].purpose = "register" => issued[g].user = req'[s].user
       /\ \A x \in Requests \ {s} : req'[x].handle # g
  <2>1. s # r /\ req'[s] = req[s] /\ req[s].handle # h
    BY <1>1, <1>4, <1>5, <1>6
  <2>2. req[s].handle \in Handles
    BY <1>6, <2>1 DEF CeremonyInv, TablesInv
  <2> QED
    BY <1>2, <1>4, <1>5, <1>6, <2>1, <2>2 DEF CeremonyInv
<1>7. ASSUME NEW c \in Credentials, passkeys'[c] # None
      PROVE  Registered(fruit', passkeys'[c], c)
  <2>1. CASE passkeys'[c] = passkeys[c]
    BY <1>3, <1>7, <2>1 DEF CeremonyInv
  <2>2. CASE what = [kind |-> "register", user |-> passkeys'[c], credential |-> c]
    <3>1. 1 \in 1..Len(fruit'[h]) /\ fruit'[h][1] = what
      BY <1>2
    <3> QED
      BY <2>2, <3>1 DEF Registered
  <2> QED
    BY <1>7, <2>1, <2>2
<1>8. \A s \in Requests : req'[s].pc \in {"user", "touch", "session"} =>
        Registered(fruit', req'[s].user, req'[s].credential)
  BY <1>3, <1>4, <1>5 DEF CeremonyInv
<1>9. \A g \in Handles : g \in DOMAIN challenges \/ g \notin DOMAIN issued => fruit'[g] = <<>>
  BY <1>1, <1>2 DEF CeremonyInv
<1>10. CeremonyInv'
  BY <1>6, <1>7, <1>8, <1>9 DEF CeremonyInv
<1>11. ASSUME NEW g \in Handles
       PROVE  LET f == fruit'[g] IN
         \/ f = <<>>
         \/ /\ Len(f) = 1 /\ g \in DOMAIN issued
            /\ f[1].kind = issued[g].purpose
            /\ issued[g].user \in {None, f[1].user}
            /\ f[1].kind = "login" => Registered(fruit', f[1].user, f[1].credential)
  <2>1. CASE g = h
    <3>1. Len(fruit'[g]) = 1 /\ fruit'[g][1] = what
      <4>1. Len(<<what>>) = 1 /\ <<what>>[1] = what
        OBVIOUS
      <4>2. fruit'[g] = <<what>>
        BY <1>2, <2>1
      <4> QED
        BY <4>1, <4>2
    <3>2. issued[h].user \in {None, what.user}
      BY <1>1 DEF TablesInv, Fruit, Purposes
    <3>3. what.kind = "login" => Registered(fruit', what.user, what.credential)
      BY <1>3
    <3> QED
      BY <1>1, <2>1, <3>1, <3>2, <3>3
  <2>2. CASE g # h /\ fruit[g] # <<>>
    <3>1. /\ Len(fruit[g]) = 1 /\ g \in DOMAIN issued
          /\ fruit[g][1].kind = issued[g].purpose /\ issued[g].user \in {None, fruit[g][1].user}
      BY <2>2 DEF ChallengeSpentOnce
    <3>2. fruit[g][1] \in Fruit
      <4>1. fruit[g] \in Seq(Fruit)
        BY DEF TablesInv
      <4>2. 1 \in 1..Len(fruit[g])
        BY <3>1
      <4> QED
        BY <4>1, <4>2
    <3>3. ASSUME fruit[g][1].kind = "login"
          PROVE  Registered(fruit, fruit[g][1].user, fruit[g][1].credential)
      <4>1. PICK x \in Handles : \E j \in 1..Len(fruit[x]) :
              fruit[x][j] = [fruit[g][1] EXCEPT !.kind = "register"]
        BY <2>2, <3>3 DEF ChallengeSpentOnce
      <4>2. [fruit[g][1] EXCEPT !.kind = "register"] =
            [kind |-> "register", user |-> fruit[g][1].user, credential |-> fruit[g][1].credential]
        BY <3>2 DEF Fruit
      <4> QED
        BY <4>1, <4>2 DEF Registered
    <3>4. fruit'[g] = fruit[g]
      BY <1>2, <2>2
    <3> QED
      BY <1>3, <3>1, <3>3, <3>4
  <2> QED
    BY <1>2, <2>1, <2>2
<1>12. ChallengeSpentOnce'
  <2> SUFFICES ASSUME NEW g \in Handles, fruit'[g] # <<>>, fruit'[g][1].kind = "login"
               PROVE  \E x \in Handles : \E j \in 1..Len(fruit'[x]) :
                        fruit'[x][j] = [fruit'[g][1] EXCEPT !.kind = "register"]
    BY <1>11 DEF ChallengeSpentOnce
  <2>1. Len(fruit'[g]) = 1 /\ Registered(fruit', fruit'[g][1].user, fruit'[g][1].credential)
    BY <1>11
  <2>2. fruit'[g][1] \in Fruit
    BY <1>2, <2>1
  <2>3. [fruit'[g][1] EXCEPT !.kind = "register"] =
        [kind |-> "register", user |-> fruit'[g][1].user, credential |-> fruit'[g][1].credential]
    BY <2>2 DEF Fruit
  <2> QED
    BY <2>1, <2>3 DEF Registered
<1> QED
  BY <1>2, <1>10, <1>12

\* start_session of login_verify.
LEMMA SessionCeremony ==
  ASSUME TablesInv, RequestsInv, CeremonyInv, ChallengeSpentOnce, NEW r \in Requests,
         StartSession(r)
  PROVE  TablesInv' /\ CeremonyInv' /\ ChallengeSpentOnce'
<1>1. /\ RequestOK(req[r]) /\ req[r].pc = "session" /\ Reply(r)
      /\ UNCHANGED <<accounts, passkeys, challenges, issued>>
  BY DEF StartSession, RequestsInv
<1>2. /\ req[r].purpose = "login" /\ req[r].user \in Users /\ req[r].credential \in Credentials
      /\ req[r].handle \in Handles
  BY <1>1 DEF RequestOK
<1>3. CASE UNCHANGED fruit
  <2>1. Idle.handle = None /\ Idle.pc = "idle"
    BY DEF Idle
  <2>2. CeremonyInv' /\ ChallengeSpentOnce'
    BY <1>1, <1>3, <2>1, CeremonyOne DEF Reply
  <2> QED
    BY <1>1, <1>3, <2>2 DEF TablesInv
<1>4. CASE ~UNCHANGED fruit
  <2> DEFINE what == [kind |-> "login", user |-> req[r].user, credential |-> req[r].credential]
  <2>1. Yield(req[r].handle, what)
    BY <1>4 DEF StartSession
  <2>2. /\ what \in Fruit /\ what.kind = "login" /\ what.user = req[r].user
        /\ what.credential = req[r].credential
    BY <1>2 DEF Fruit, Purposes
  <2> HIDE DEF what
  <2>3. Registered(fruit, what.user, what.credential)
    BY <1>1, <2>2 DEF CeremonyInv
  <2>4. CeremonyInv' /\ ChallengeSpentOnce' /\ fruit' \in [Handles -> Seq(Fruit)]
    BY <1>1, <1>2, <2>1, <2>2, <2>3, YieldCeremony
  <2> QED
    BY <1>1, <2>4 DEF TablesInv
<1> QED
  BY <1>3, <1>4

\* PasskeyRepository::create of register_verify.
LEMMA InsertCeremony ==
  ASSUME TablesInv, RequestsInv, CeremonyInv, ChallengeSpentOnce, NEW r \in Requests, Insert(r)
  PROVE  TablesInv' /\ CeremonyInv' /\ ChallengeSpentOnce'
<1>1. /\ RequestOK(req[r]) /\ req[r].pc = "insert" /\ Reply(r)
      /\ UNCHANGED <<accounts, challenges, issued>>
  BY DEF Insert, RequestsInv
<1>2. req[r].purpose = "register" /\ req[r].user \in Users /\ req[r].handle \in Handles
  BY <1>1 DEF RequestOK
<1>3. CASE UNCHANGED <<passkeys, fruit>>
  <2>1. Idle.handle = None /\ Idle.pc = "idle"
    BY DEF Idle
  <2>2. CeremonyInv' /\ ChallengeSpentOnce'
    BY <1>1, <1>3, <2>1, CeremonyOne DEF Reply
  <2> QED
    BY <1>1, <1>3, <2>2 DEF TablesInv
<1>4. CASE ~UNCHANGED <<passkeys, fruit>>
  <2>1. PICK c \in Credentials :
          /\ passkeys' = [passkeys EXCEPT ![c] = req[r].user]
          /\ Yield(req[r].handle, [kind |-> "register", user |-> req[r].user, credential |-> c])
    BY <1>4 DEF Insert
  <2> DEFINE what == [kind |-> "register", user |-> req[r].user, credential |-> c]
  <2>2. what \in Fruit /\ what.kind = "register" /\ what.user = req[r].user
    BY <1>2 DEF Fruit, Purposes
  <2>3. \A d \in Credentials : passkeys'[d] = IF d = c THEN req[r].user ELSE passkeys[d]
    BY <2>1 DEF TablesInv
  <2>4. \A d \in Credentials : passkeys'[d] # None =>
            passkeys'[d] = passkeys[d]
            \/ what = [kind |-> "register", user |-> passkeys'[d], credential |-> d]
    BY <2>3
  <2>5. Yield(req[r].handle, what)
    BY <2>1
  <2> HIDE DEF what
  <2>6. CeremonyInv' /\ ChallengeSpentOnce' /\ fruit' \in [Handles -> Seq(Fruit)]
    BY <1>1, <1>2, <2>2, <2>4, <2>5, YieldCeremony
  <2>7. passkeys' \in [Credentials -> Users \cup {None}]
    BY <1>2, <2>1 DEF TablesInv
  <2> QED
    BY <1>1, <2>6, <2>7 DEF TablesInv
<1> QED
  BY <1>3, <1>4

\* Whatever the process does about passkeys keeps the ceremonies apart.
LEMMA CeremonySteps ==
  ASSUME GuardInv, TablesInv, RequestsInv, CeremonyInv, ChallengeSpentOnce, PasskeyNext
  PROVE  TablesInv' /\ CeremonyInv' /\ ChallengeSpentOnce'
<1>1. ASSUME NEW r \in Requests, Step(r)
      PROVE  TablesInv' /\ CeremonyInv' /\ ChallengeSpentOnce'
  <2>1. CASE OnlyRequests
    <3>1. CASE StoreChallenge(r) \/ Take(r) \/ StartSession(r) \/ Insert(r)
      BY <3>1, StoreCeremony, TakeCeremony, SessionCeremony, InsertCeremony
    <3>2. CASE ~(StoreChallenge(r) \/ Take(r) \/ StartSession(r) \/ Insert(r))
      <4>1. CeremonyInv' /\ ChallengeSpentOnce'
        BY <1>1, <2>1, <3>2, QuietSteps DEF Step
      <4> QED
        BY <2>1, <4>1 DEF OnlyRequests, TablesInv
    <3> QED
      BY <3>1, <3>2
  <2>2. CASE ~OnlyRequests
    <3>1. StoreChallenge(r) \/ Take(r) \/ StartSession(r) \/ Insert(r)
      BY <1>1, <2>2 DEF Step, LoginCheck, LoginVerified, LoginOptions, RegisterOptions,
           CountBefore, LoginVerify, RegisterVerify, Lookup, FindUser, Touch, CountAgain, Dropped
    <3> QED
      BY <3>1, StoreCeremony, TakeCeremony, SessionCeremony, InsertCeremony
  <2> QED
    BY <2>1, <2>2
<1>2. CASE RemovePasskey \/ DeleteAccount
  <2>1. UNCHANGED <<challenges, issued, fruit, req>> /\ accounts' \subseteq accounts
    BY <1>2 DEF RemovePasskey, DeleteAccount
  <2>2. /\ passkeys' \in [Credentials -> Users \cup {None}]
        /\ \A c \in Credentials : passkeys'[c] \in {None, passkeys[c]}
    BY <1>2 DEF RemovePasskey, DeleteAccount, TablesInv
  <2>3. TablesInv'
    BY <2>1, <2>2 DEF TablesInv
  <2>4. CeremonyInv'
    BY <2>1, <2>2 DEF CeremonyInv, Registered
  <2>5. ChallengeSpentOnce'
    BY <2>1 DEF ChallengeSpentOnce
  <2> QED
    BY <2>3, <2>4, <2>5
<1>3. CASE IngestRequest
  <2>1. UNCHANGED pvars
    BY <1>3 DEF IngestRequest
  <2> QED
    BY <2>1 DEF pvars, TablesInv, CeremonyInv, ChallengeSpentOnce, Registered
<1>4. CASE Restart
  <2>1. UNCHANGED <<accounts, passkeys, challenges, issued, fruit>>
        /\ req' = [r \in Requests |-> Idle]
    BY <1>4 DEF Restart
  <2>2. \A r \in Requests : req'[r].handle = None /\ req'[r].pc = "idle"
    BY <2>1 DEF Idle
  <2>3. CeremonyInv'
    BY <2>1, <2>2 DEF CeremonyInv, Registered
  <2> QED
    BY <2>1, <2>3 DEF TablesInv, ChallengeSpentOnce
<1> QED
  BY <1>1, <1>2, <1>3, <1>4 DEF PasskeyNext

-----------------------------------------------------------------------------
(* Counting: late guesses and the quota.                                   *)

\* Sets of requests are finite.
LEMMA RequestSets ==
  ASSUME NEW S \in SUBSET Requests
  PROVE  /\ IsFiniteSet(S) /\ Cardinality(S) \in Nat
         /\ Cardinality(Requests) \in Nat \ {0} /\ Cardinality(S) <= Cardinality(Requests)
<1>1. IsFiniteSet(Requests) /\ Requests # {}
  BY PasskeysAssumption
<1>2. Cardinality(Requests) \in Nat /\ Cardinality(Requests) # 0
  BY <1>1, FS_CardinalityType, FS_EmptySet
<1>3. IsFiniteSet(S) /\ Cardinality(S) <= Cardinality(Requests)
  BY <1>1, FS_Subset
<1>4. Cardinality(S) \in Nat
  BY <1>3, FS_CardinalityType
<1> QED
  BY <1>2, <1>3, <1>4

\* One request fewer.
LEMMA RequestRemoved ==
  ASSUME NEW S \in SUBSET Requests, NEW r \in S, NEW T \in SUBSET (S \ {r})
  PROVE  Cardinality(T) <= Cardinality(S) - 1
<1>1. IsFiniteSet(S) /\ Cardinality(S) \in Nat /\ IsFiniteSet(T) /\ Cardinality(T) \in Nat
  BY RequestSets
<1>2. IsFiniteSet(S \ {r}) /\ Cardinality(S \ {r}) = Cardinality(S) - 1
  BY <1>1, FS_RemoveElement
<1>3. Cardinality(T) <= Cardinality(S \ {r})
  BY <1>2, FS_Subset
<1> QED
  BY <1>2, <1>3

\* Only the two checks of the lock let a request guess, only the second count
\* of the quota lets one insert.
LEMMA RequestMoves ==
  ASSUME RequestsInv, NEW r \in Requests, Step(r)
  PROVE  /\ LoginCheck(r) \/ LoginVerify(r) \/ \A k : Guessing(k)' \subseteq Guessing(k)
         /\ CountAgain(r) \/ \A u : Inserting(u)' \subseteq Inserting(u)
         /\ \A s \in Requests \ {r} : req'[s] = req[s]
<1> DEFINE q == req[r]
           Quiet(x) == /\ x.pc # "insert"
                       /\ ~(x.pc = "verify" \/ (x.pc \in {"take", "lookup"} /\ x.purpose = "login"))
<1>1. q \in Request /\ RequestOK(q) /\ req \in [Requests -> Request]
  BY DEF RequestsInv
<1>2. ASSUME NEW x, req' = [req EXCEPT ![r] = x], Quiet(x)
      PROVE  /\ \A k : Guessing(k)' \subseteq Guessing(k)
             /\ \A u : Inserting(u)' \subseteq Inserting(u)
             /\ \A s \in Requests \ {r} : req'[s] = req[s]
  <2>1. \A s \in Requests : req'[s] = IF s = r THEN x ELSE req[s]
    BY <1>1, <1>2
  <2> QED
    BY <1>2, <2>1 DEF Guessing, Inserting
<1>3. CASE Reply(r)
  <2>1. Quiet(Idle)
    BY DEF Idle
  <2> QED
    BY <1>2, <1>3, <2>1 DEF Reply
<1>4. CASE req' = req
  BY <1>4 DEF Guessing, Inserting
<1>5. CASE LoginCheck(r) \/ LoginVerify(r)
  <2>1. PICK x : req' = [req EXCEPT ![r] = x] /\ x.pc # "insert"
    <3>1. \A k \in LockKeys : [Idle EXCEPT !.pc = "verify", !.key = k].pc # "insert"
      BY DEF Idle
    <3>2. [Idle EXCEPT !.pc = "take"].pc # "insert"
      BY DEF Idle
    <3>3. CASE LoginCheck(r)
      <4>1. PICK k \in LockKeys : req' = [req EXCEPT ![r] = [Idle EXCEPT !.pc = "verify", !.key = k]]
        BY <3>3 DEF LoginCheck
      <4> QED
        BY <3>1, <4>1
    <3>4. CASE LoginVerify(r)
      BY <3>2, <3>4 DEF LoginVerify
    <3> QED
      BY <1>5, <3>3, <3>4
  <2>2. \A s \in Requests : req'[s] = IF s = r THEN x ELSE req[s]
    BY <1>1, <2>1
  <2> QED
    BY <1>5, <2>1, <2>2 DEF Inserting
<1>6. CASE LoginOptions(r)
  <2>1. Quiet([Idle EXCEPT !.pc = "store"])
    BY DEF Idle
  <2> QED
    BY <1>2, <1>4, <1>6, <2>1 DEF LoginOptions
<1>7. CASE RegisterOptions(r) \/ RegisterVerify(r)
  <2>1. PICK u \in accounts, pc \in {"options", "take"} :
          req' = [req EXCEPT ![r] = [Idle EXCEPT !.pc = pc, !.purpose = "register", !.user = u]]
    BY <1>7 DEF RegisterOptions, RegisterVerify, SignedIn
  <2>2. Quiet([Idle EXCEPT !.pc = pc, !.purpose = "register", !.user = u])
    BY DEF Idle
  <2> HIDE DEF Quiet
  <2> QED
    BY <1>2, <2>1, <2>2
<1>8. ASSUME NEW pc \in {"store", "touch", "session"}, Goto(r, pc)
      PROVE  /\ \A k : Guessing(k)' \subseteq Guessing(k)
             /\ \A u : Inserting(u)' \subseteq Inserting(u)
             /\ \A s \in Requests \ {r} : req'[s] = req[s]
  <2>1. req' = [req EXCEPT ![r] = [q EXCEPT !.pc = pc]]
    BY <1>1, <1>8 DEF Goto
  <2>2. Quiet([q EXCEPT !.pc = pc])
    BY <1>1 DEF Request
  <2> HIDE DEF Quiet
  <2> QED
    BY <1>2, <2>1, <2>2
<1>9. CASE CountAgain(r) /\ ~Reply(r)
  <2>1. req' = [req EXCEPT ![r] = [q EXCEPT !.pc = "insert"]]
    BY <1>1, <1>9 DEF CountAgain, Goto
  <2>2. \A s \in Requests : req'[s] = IF s = r THEN [q EXCEPT !.pc = "insert"] ELSE req[s]
    BY <1>1, <2>1
  <2>3. [q EXCEPT !.pc = "insert"].pc = "insert"
    BY <1>1 DEF Request
  <2> QED
    BY <1>9, <2>2, <2>3 DEF Guessing
<1>10. CASE Take(r) /\ ~Reply(r)
  <2>1. PICK h \in Handles, next \in {"lookup", "count"} :
          /\ next = IF q.purpose = "login" THEN "lookup" ELSE "count"
          /\ req' = [req EXCEPT ![r].pc = next, ![r].handle = h]
    BY <1>10 DEF Take
  <2> DEFINE x == [q EXCEPT !.pc = next, !.handle = h]
  <2>2. req' = [req EXCEPT ![r] = x]
    BY <1>1, <2>1
  <2>3. x.pc = next /\ x.key = q.key /\ x.purpose = q.purpose /\ q.pc = "take"
    BY <1>1, <1>10 DEF Request, Take
  <2> HIDE DEF x
  <2>4. \A s \in Requests : req'[s] = IF s = r THEN x ELSE req[s]
    BY <1>1, <2>2
  <2> QED
    BY <2>1, <2>3, <2>4 DEF Guessing, Inserting
<1>11. CASE Lookup(r) /\ ~Reply(r)
  <2>1. PICK c, u : req' = [req EXCEPT ![r].pc = "user", ![r].credential = c, ![r].user = u]
    BY <1>11 DEF Lookup
  <2> DEFINE x == [q EXCEPT !.pc = "user", !.credential = c, !.user = u]
  <2>2. req' = [req EXCEPT ![r] = x]
    BY <1>1, <2>1
  <2>3. Quiet(x)
    BY <1>1 DEF Request
  <2> HIDE DEF x, Quiet
  <2> QED
    BY <1>2, <2>2, <2>3
<1> QED
  BY <1>3, <1>5, <1>6, <1>7, <1>8, <1>9, <1>10, <1>11
  DEF Step, LoginVerified, CountBefore, StoreChallenge, FindUser, Touch, StartSession, Insert, Dropped

\* The quota bound survives what makes neither passkeys nor inserts.
LEMMA QuotaMono ==
  ASSUME QuotaInv, NEW u \in Users,
         Owned(u)' \subseteq Owned(u), Inserting(u)' \subseteq Inserting(u)
  PROVE  /\ IsFiniteSet(Owned(u)')
         /\ Cardinality(Owned(u)') + Cardinality(Inserting(u)')
              <= MaxPerUser + Cardinality(Requests) - 1
<1> DEFINE A == Owned(u)
           B == Owned(u)'
           C == Inserting(u)
           D == Inserting(u)'
           bound == MaxPerUser + Cardinality(Requests) - 1
<1>1. /\ IsFiniteSet(A) /\ B \subseteq A /\ Cardinality(A) + Cardinality(C) <= bound
      /\ C \in SUBSET Requests /\ D \subseteq C
  BY DEF QuotaInv, Inserting
<1> HIDE DEF A, B, C, D
<1>2. bound \in Int
  BY RequestSets, PasskeysAssumption
<1>3. IsFiniteSet(B) /\ Cardinality(B) <= Cardinality(A)
  BY <1>1, FS_Subset
<1>4. Cardinality(A) \in Nat /\ Cardinality(B) \in Nat
  BY <1>1, <1>3, FS_CardinalityType
<1>5. IsFiniteSet(C)
  BY <1>1, RequestSets
<1>6. Cardinality(D) <= Cardinality(C) /\ Cardinality(C) \in Nat /\ IsFiniteSet(D)
  BY <1>1, <1>5, FS_Subset, FS_CardinalityType
<1>7. Cardinality(D) \in Nat
  BY <1>6, FS_CardinalityType
<1> HIDE DEF bound
<1>8. Cardinality(B) + Cardinality(D) <= bound
  BY <1>1, <1>2, <1>3, <1>4, <1>6, <1>7
<1> QED
  BY <1>3, <1>8 DEF B, D, bound

\* The second count lets a request insert only below the quota.
LEMMA QuotaCount ==
  ASSUME QuotaInv, RequestsInv, NEW r \in Requests, CountAgain(r)
  PROVE  QuotaInv'
<1>1. ASSUME NEW u \in Users
      PROVE  /\ IsFiniteSet(Owned(u)')
             /\ Cardinality(Owned(u)') + Cardinality(Inserting(u)')
                  <= MaxPerUser + Cardinality(Requests) - 1
  <2>1. Owned(u)' = Owned(u) /\ \A s \in Requests \ {r} : req'[s] = req[s]
    BY DEF CountAgain, OnlyRequests, Owned, Goto, Reply, RequestsInv
  <2>2. CASE r \notin Inserting(u)'
    <3>1. Inserting(u)' \subseteq Inserting(u)
      BY <2>1, <2>2 DEF Inserting
    <3> QED
      BY <2>1, <3>1, QuotaMono
  <2>3. CASE r \in Inserting(u)'
    <3>1. req'[r].pc = "insert" /\ req'[r].user = u
      BY <2>3 DEF Inserting
    <3>2. req[r].user = u /\ WithinQuota(req[r].user)
      <4>1. Idle.pc = "idle"
        BY DEF Idle
      <4>2. ~Reply(r)
        BY <3>1, <4>1 DEF Reply, RequestsInv
      <4>3. Goto(r, "insert") /\ WithinQuota(req[r].user)
        BY <4>2 DEF CountAgain
      <4> QED
        BY <3>1, <4>3 DEF Goto, RequestsInv, Request
    <3>3. IsFiniteSet(Owned(u)) /\ Cardinality(Owned(u)) < MaxPerUser
      BY <3>2 DEF WithinQuota, QuotaInv
    <3> DEFINE B == Owned(u)'
               D == Inserting(u)'
    <3>4. IsFiniteSet(B) /\ Cardinality(B) < MaxPerUser /\ D \in SUBSET Requests
      BY <2>1, <3>3 DEF Inserting
    <3> HIDE DEF B, D
    <3>5. /\ Cardinality(B) \in Nat /\ Cardinality(D) \in Nat /\ MaxPerUser \in Nat
          /\ Cardinality(D) <= Cardinality(Requests) /\ Cardinality(Requests) \in Nat
      BY <3>4, FS_CardinalityType, RequestSets, PasskeysAssumption
    <3>6. Cardinality(B) + Cardinality(D) <= MaxPerUser + Cardinality(Requests) - 1
      BY <3>4, <3>5
    <3> QED
      BY <3>4, <3>6 DEF B, D
  <2> QED
    BY <2>2, <2>3
<1> QED
  BY <1>1 DEF QuotaInv

\* An insert trades a request for a passkey.
LEMMA QuotaInsert ==
  ASSUME QuotaInv, TablesInv, RequestsInv, NEW r \in Requests, Insert(r)
  PROVE  QuotaInv'
<1>1. /\ req[r].pc = "insert" /\ req[r].user \in Users /\ Step(r)
      /\ req' = [req EXCEPT ![r] = Idle] /\ \A u : Inserting(u)' \subseteq Inserting(u)
  BY RequestMoves DEF Insert, RequestsInv, RequestOK, Reply, Step, CountAgain
<1>2. CASE UNCHANGED passkeys
  BY <1>1, <1>2, QuotaMono DEF QuotaInv, Owned
<1>3. CASE ~UNCHANGED passkeys
  <2>1. PICK c \in Credentials : passkeys[c] = None /\ passkeys' = [passkeys EXCEPT ![c] = req[r].user]
    BY <1>3 DEF Insert
  <2>2. ASSUME NEW u \in Users
        PROVE  /\ IsFiniteSet(Owned(u)')
               /\ Cardinality(Owned(u)') + Cardinality(Inserting(u)')
                    <= MaxPerUser + Cardinality(Requests) - 1
    <3>1. CASE u # req[r].user
      <4>1. Owned(u)' \subseteq Owned(u)
        BY <2>1, <3>1 DEF Owned, TablesInv
      <4> QED
        BY <1>1, <4>1, QuotaMono
    <3>2. CASE u = req[r].user
      <4> DEFINE A == Owned(u)
                 B == Owned(u)'
                 C == Inserting(u)
                 D == Inserting(u)'
                 bound == MaxPerUser + Cardinality(Requests) - 1
      <4>1. B = A \cup {c}
        BY <2>1, <3>2 DEF Owned, TablesInv
      <4>2. r \in C /\ C \in SUBSET Requests /\ D \in SUBSET (C \ {r})
        <5>1. Idle.pc = "idle"
          BY DEF Idle
        <5>2. r \notin D
          BY <1>1, <5>1 DEF Inserting, RequestsInv
        <5> QED
          BY <1>1, <3>2, <5>2 DEF Inserting
      <4>3. IsFiniteSet(A) /\ Cardinality(A) + Cardinality(C) <= bound
        BY DEF QuotaInv
      <4>4. c \notin A
        BY <2>1, PasskeysAssumption DEF Owned
      <4>5. bound \in Int
        BY RequestSets, PasskeysAssumption
      <4> HIDE DEF A, B, C, D, bound
      <4>6. IsFiniteSet(B) /\ Cardinality(B) = Cardinality(A) + 1 /\ Cardinality(A) \in Nat
        BY <4>1, <4>3, <4>4, FS_AddElement, FS_CardinalityType
      <4>7. Cardinality(D) <= Cardinality(C) - 1
        BY <4>2, RequestRemoved
      <4>8. Cardinality(C) \in Nat /\ Cardinality(D) \in Nat
        BY <4>2, RequestSets
      <4>9. Cardinality(B) + Cardinality(D) <= bound
        BY <4>3, <4>5, <4>6, <4>7, <4>8
      <4> QED
        BY <4>6, <4>9 DEF B, D, bound
    <3> QED
      BY <3>1, <3>2
  <2> QED
    BY <2>2 DEF QuotaInv
<1> QED
  BY <1>2, <1>3

\* Everything else leaves the bound alone.
LEMMA QuotaSteps ==
  ASSUME TablesInv, RequestsInv, QuotaInv, PasskeyNext
  PROVE  QuotaInv'
<1>1. ASSUME \A u \in Users : Owned(u)' \subseteq Owned(u) /\ Inserting(u)' \subseteq Inserting(u)
      PROVE  QuotaInv'
  BY <1>1, QuotaMono DEF QuotaInv
<1>2. ASSUME NEW r \in Requests, Step(r)
      PROVE  QuotaInv'
  <2>1. CASE CountAgain(r)
    BY <2>1, QuotaCount
  <2>2. CASE Insert(r)
    BY <2>2, QuotaInsert
  <2>3. CASE ~CountAgain(r) /\ ~Insert(r)
    <3>1. UNCHANGED passkeys
      BY <1>2, <2>3 DEF Step, LoginCheck, LoginVerified, LoginOptions, RegisterOptions, CountBefore,
           StoreChallenge, LoginVerify, RegisterVerify, Take, Lookup, FindUser, Touch, StartSession,
           Dropped, OnlyRequests
    <3>2. \A u : Inserting(u)' \subseteq Inserting(u)
      BY <1>2, <2>3, RequestMoves
    <3> QED
      BY <1>1, <3>1, <3>2 DEF Owned
  <2> QED
    BY <2>1, <2>2, <2>3
<1>3. CASE RemovePasskey \/ DeleteAccount
  <2>1. \A c \in Credentials : passkeys'[c] \in {None, passkeys[c]}
    BY <1>3 DEF RemovePasskey, DeleteAccount, TablesInv
  <2>2. UNCHANGED req
    BY <1>3 DEF RemovePasskey, DeleteAccount
  <2> QED
    BY <1>1, <2>1, <2>2, PasskeysAssumption DEF Owned, Inserting
<1>4. CASE IngestRequest
  BY <1>1, <1>4 DEF IngestRequest, pvars, Owned, Inserting
<1>5. CASE Restart
  <2>1. \A r \in Requests : req'[r].pc = "idle"
    BY <1>5 DEF Restart, Idle
  <2> QED
    BY <1>1, <1>5, <2>1 DEF Restart, Owned, Inserting
<1> QED
  BY <1>2, <1>3, <1>4, <1>5 DEF PasskeyNext

\* The lock of a key is on.
On(k) == k \in DOMAIN entries /\ Active(entries[k])

\* The bound on late guesses of one key survives what adds neither a guess nor
\* a lock.
LEMMA LateMono ==
  ASSUME LateInv, NEW k \in LockKeys, late'[k] = late[k],
         On(k)' => On(k) /\ Guessing(k)' \subseteq Guessing(k)
  PROVE  /\ late'[k] <= Cardinality(Requests) - 1
         /\ On(k)' => late'[k] + Cardinality(Guessing(k)') <= Cardinality(Requests) - 1
<1>1. late[k] <= Cardinality(Requests) - 1 /\ late[k] \in Nat
  BY DEF LateInv
<1>2. ASSUME On(k)'
      PROVE  late'[k] + Cardinality(Guessing(k)') <= Cardinality(Requests) - 1
  <2> DEFINE C == Guessing(k)
             D == Guessing(k)'
  <2>1. late[k] + Cardinality(C) <= Cardinality(Requests) - 1 /\ D \subseteq C
    BY <1>2 DEF LateInv, On
  <2>2. C \in SUBSET Requests
    BY DEF Guessing
  <2> HIDE DEF C, D
  <2>3. IsFiniteSet(C) /\ Cardinality(C) \in Nat /\ Cardinality(Requests) \in Nat
    BY <2>2, RequestSets
  <2>4. Cardinality(D) <= Cardinality(C) /\ IsFiniteSet(D)
    BY <2>1, <2>3, FS_Subset
  <2>5. Cardinality(D) \in Nat
    BY <2>4, FS_CardinalityType
  <2>6. late[k] + Cardinality(D) <= Cardinality(Requests) - 1
    BY <1>1, <2>1, <2>3, <2>4, <2>5
  <2> QED
    BY <2>6 DEF D
<1> QED
  BY <1>1, <1>2

\* A key whose guesses were just forgotten, with some request that is not one
\* of its guesses.
LEMMA LateReset ==
  ASSUME NEW k \in LockKeys, late'[k] = 0, NEW r \in Requests, r \notin Guessing(k)'
  PROVE  /\ late'[k] <= Cardinality(Requests) - 1
         /\ late'[k] + Cardinality(Guessing(k)') <= Cardinality(Requests) - 1
<1> DEFINE D == Guessing(k)'
<1>1. D \in SUBSET (Requests \ {r})
  BY DEF Guessing
<1> HIDE DEF D
<1>2. Cardinality(D) <= Cardinality(Requests) - 1
  BY <1>1, RequestRemoved
<1>3. Cardinality(D) \in Nat /\ Cardinality(Requests) \in Nat \ {0}
  BY <1>1, RequestSets
<1>4. 0 + Cardinality(D) <= Cardinality(Requests) - 1 /\ 0 <= Cardinality(Requests) - 1
  BY <1>2, <1>3
<1> QED
  BY <1>4 DEF D

\* A failure of a request that was past the check.
LEMMA LateFailure ==
  ASSUME GuardInv, RequestsInv, LateInv, NEW r \in Requests, NEW key \in LockKeys,
         r \in Guessing(key), RecordFailure(key), Reply(r), UNCHANGED <<now, windows>>
  PROVE  LateInv'
<1>1. /\ \A j \in DOMAIN entries' : j \notin {key, Overflow} =>
              j \in DOMAIN entries /\ entries'[j] = entries[j]
      /\ late' = [late EXCEPT ![key] = IF On(key) THEN @ + 1 ELSE 0]
  BY FailureEffect DEF On
<1>2. Idle.pc = "idle" /\ \A s \in Requests : req'[s] = IF s = r THEN Idle ELSE req[s]
  BY DEF Reply, RequestsInv, Idle
<1>3. \A k : Guessing(k)' \subseteq Guessing(k) \ {r}
  BY <1>2 DEF Guessing
<1>4. late' \in [LockKeys -> Nat]
  BY <1>1 DEF LateInv
<1>5. ASSUME NEW k \in LockKeys
      PROVE  /\ late'[k] <= Cardinality(Requests) - 1
             /\ On(k)' => late'[k] + Cardinality(Guessing(k)') <= Cardinality(Requests) - 1
  <2>1. CASE k # key
    <3>1. late'[k] = late[k]
      BY <1>1, <2>1 DEF LateInv
    <3>2. On(k)' => On(k)
      BY <1>1, <2>1, GuardAssumption DEF On, Active
    <3> QED
      BY <1>3, <3>1, <3>2, LateMono
  <2>2. CASE k = key /\ ~On(key)
    <3>1. late'[k] = 0
      BY <1>1, <2>2 DEF LateInv
    <3> QED
      BY <1>3, <3>1, LateReset
  <2>3. CASE k = key /\ On(key)
    <3> DEFINE C == Guessing(k)
               D == Guessing(k)'
    <3>1. late'[k] = late[k] + 1 /\ late[k] \in Nat
      BY <1>1, <2>3 DEF LateInv
    <3>2. late[k] + Cardinality(C) <= Cardinality(Requests) - 1
      BY <2>3 DEF LateInv, On
    <3>3. C \in SUBSET Requests /\ D \in SUBSET (C \ {r}) /\ r \in C
      BY <1>3, <2>3 DEF Guessing
    <3> HIDE DEF C, D
    <3>4. Cardinality(D) <= Cardinality(C) - 1
      BY <3>3, RequestRemoved
    <3>5. Cardinality(C) \in Nat /\ Cardinality(D) \in Nat /\ Cardinality(Requests) \in Nat
      BY <3>3, RequestSets
    <3>6. /\ late'[k] <= Cardinality(Requests) - 1
          /\ late'[k] + Cardinality(D) <= Cardinality(Requests) - 1
      BY <3>1, <3>2, <3>4, <3>5
    <3> QED
      BY <3>6 DEF D
  <2> QED
    BY <2>1, <2>2, <2>3
<1> QED
  BY <1>4, <1>5 DEF LateInv, On

\* A success of a request forgets the guesses of its key.
LEMMA LateSuccess ==
  ASSUME GuardInv, LateInv, NEW key \in LockKeys, RecordSuccess(key), UNCHANGED <<now, windows>>,
         \A k : Guessing(k)' \subseteq Guessing(k)
  PROVE  LateInv'
<1>1. /\ DOMAIN entries' = DOMAIN entries \ {key}
      /\ \A j \in DOMAIN entries' : entries'[j] = entries[j]
      /\ late' = [late EXCEPT ![key] = 0]
  BY SuccessEffect
<1>2. late' \in [LockKeys -> Nat]
  BY <1>1 DEF LateInv
<1>3. ASSUME NEW k \in LockKeys
      PROVE  /\ late'[k] <= Cardinality(Requests) - 1
             /\ On(k)' => late'[k] + Cardinality(Guessing(k)') <= Cardinality(Requests) - 1
  <2>1. CASE k # key
    <3>1. late'[k] = late[k]
      BY <1>1, <2>1 DEF LateInv
    <3>2. On(k)' => On(k)
      BY <1>1 DEF On, Active
    <3> QED
      BY <3>1, <3>2, LateMono
  <2>2. CASE k = key
    <3>1. late'[k] = 0 /\ ~On(k)'
      BY <1>1, <2>2 DEF LateInv, On
    <3>2. {} \in SUBSET Requests
      OBVIOUS
    <3>3. Cardinality(Requests) \in Nat \ {0}
      BY <3>2, RequestSets
    <3> QED
      BY <3>1, <3>3
  <2> QED
    BY <2>1, <2>2
<1> QED
  BY <1>2, <1>3 DEF LateInv, On

\* A request that passes the check finds its lock off.
LEMMA LateCheck ==
  ASSUME RequestsInv, LateInv, NEW r \in Requests, LoginCheck(r) \/ LoginVerify(r)
  PROVE  LateInv'
<1>1. UNCHANGED gvars
  BY DEF LoginCheck, LoginVerify
<1>2. PICK x : x.key \in LockKeys /\ ~Locked(x.key) /\ req' = [req EXCEPT ![r] = x]
  <2>1. CASE LoginCheck(r)
    <3>1. PICK k \in LockKeys : /\ ~Locked(k)
                                /\ req' = [req EXCEPT ![r] = [Idle EXCEPT !.pc = "verify", !.key = k]]
      BY <2>1 DEF LoginCheck
    <3>2. [Idle EXCEPT !.pc = "verify", !.key = k].key = k
      BY DEF Idle
    <3> QED
      BY <3>1, <3>2
  <2>2. CASE LoginVerify(r)
    <3>1. [Idle EXCEPT !.pc = "take"].key = PasskeyKey
      BY DEF Idle
    <3> QED
      BY <2>2, <3>1, PasskeysAssumption DEF LoginVerify
  <2> QED
    BY <2>1, <2>2
<1> DEFINE key == x.key
<1>3. key \in LockKeys /\ ~On(key)
  BY <1>2 DEF Locked, Tracked, On
<1>4. \A s \in Requests : req'[s] = IF s = r THEN x ELSE req[s]
  BY <1>2 DEF RequestsInv
<1>5. \A k \in LockKeys \ {key} : Guessing(k)' \subseteq Guessing(k)
  BY <1>2, <1>4 DEF Guessing
<1>6. \A k \in LockKeys : (On(k)' => On(k)) /\ late'[k] = late[k]
  BY <1>1 DEF gvars, On, Active
<1> HIDE DEF key
<1>7. \A k \in LockKeys :
        /\ late'[k] <= Cardinality(Requests) - 1
        /\ On(k)' => late'[k] + Cardinality(Guessing(k)') <= Cardinality(Requests) - 1
  BY <1>3, <1>5, <1>6, LateMono
<1> QED
  BY <1>1, <1>7 DEF LateInv, On, gvars

\* A step that leaves the guard as it is and lets nobody new past the check.
LEMMA LateQuiet ==
  ASSUME LateInv, UNCHANGED <<now, entries, late>>, \A k : Guessing(k)' \subseteq Guessing(k)
  PROVE  LateInv'
<1>1. \A k \in LockKeys : (On(k)' => On(k)) /\ late'[k] = late[k]
  BY DEF On, Active
<1>2. \A k \in LockKeys :
        /\ late'[k] <= Cardinality(Requests) - 1
        /\ On(k)' => late'[k] + Cardinality(Guessing(k)') <= Cardinality(Requests) - 1
  BY <1>1, LateMono
<1> QED
  BY <1>2 DEF LateInv, On

\* Every step of a request keeps the guard's map in range and the late guesses
\* bounded.
LEMMA GuardSteps ==
  ASSUME GuardInv, RequestsInv, LateInv, NEW r \in Requests, Step(r)
  PROVE  GuardInv' /\ LateInv'
<1>1. RequestOK(req[r]) /\ req[r] \in Request /\ PasskeyKey \in LockKeys
  BY PasskeysAssumption DEF RequestsInv
<1>2. CASE LoginVerified(r)
  <2>1. req[r].key \in LockKeys /\ r \in Guessing(req[r].key)
    BY <1>1, <1>2 DEF Request, Guessing, LoginVerified
  <2>2. \A k : Guessing(k)' \subseteq Guessing(k)
    BY <1>2, RequestMoves DEF LoginVerified, LoginCheck, LoginVerify
  <2>3. UNCHANGED <<now, windows>> /\ Reply(r)
    BY <1>2 DEF LoginVerified
  <2>4. CASE RecordFailure(req[r].key)
    BY <2>1, <2>3, <2>4, FailureEffect, LateFailure
  <2>5. CASE RecordSuccess(req[r].key)
    BY <2>1, <2>2, <2>3, <2>5, SuccessEffect, LateSuccess
  <2>6. CASE UNCHANGED <<entries, late>>
    BY <2>2, <2>3, <2>6, LateQuiet DEF GuardInv, EntryOK
  <2> QED
    BY <1>2, <2>4, <2>5, <2>6 DEF LoginVerified
<1>3. CASE Lookup(r)
  <2>1. r \in Guessing(PasskeyKey)
    BY <1>1, <1>3 DEF RequestOK, Guessing, Lookup
  <2>2. \A k : Guessing(k)' \subseteq Guessing(k)
    BY <1>3, RequestMoves DEF Lookup, LoginCheck, LoginVerify
  <2>3. UNCHANGED <<now, windows>>
    BY <1>3 DEF Lookup
  <2>4. CASE RecordFailure(PasskeyKey) /\ Reply(r)
    BY <1>1, <2>1, <2>3, <2>4, FailureEffect, LateFailure
  <2>5. CASE UNCHANGED <<entries, late>>
    BY <2>2, <2>3, <2>5, LateQuiet DEF GuardInv, EntryOK
  <2> QED
    BY <1>3, <2>4, <2>5 DEF Lookup
<1>4. CASE Touch(r)
  <2>1. \A k : Guessing(k)' \subseteq Guessing(k)
    BY <1>4, RequestMoves DEF Touch, LoginCheck, LoginVerify
  <2> QED
    BY <1>1, <1>4, <2>1, SuccessEffect, LateSuccess DEF Touch
<1>5. CASE LoginOptions(r)
  <2>1. PICK allowed \in BOOLEAN : LimiterSays(OptionsKey, allowed)
    BY <1>5 DEF LoginOptions
  <2>2. UNCHANGED <<now, entries, late>>
    BY <1>5 DEF LoginOptions
  <2>3. GuardInv'
    BY <2>1, <2>2, LimiterEffect, PasskeysAssumption
  <2>4. CASE LoginCheck(r) \/ LoginVerify(r)
    BY <2>3, <2>4, LateCheck
  <2>5. CASE \A k : Guessing(k)' \subseteq Guessing(k)
    BY <2>2, <2>3, <2>5, LateQuiet
  <2> QED
    BY <2>4, <2>5, RequestMoves
<1>6. CASE UNCHANGED gvars
  <2>1. GuardInv'
    BY <1>6 DEF gvars, GuardInv, EntryOK
  <2>2. LateInv'
    BY <1>6, LateCheck, LateQuiet, RequestMoves DEF gvars
  <2> QED
    BY <2>1, <2>2
<1> QED
  BY <1>2, <1>3, <1>4, <1>5, <1>6 DEF Step, LoginCheck, RegisterOptions, CountBefore, StoreChallenge,
    LoginVerify, RegisterVerify, Take, FindUser, StartSession, CountAgain, Insert, Dropped

\* Steps about passkeys and passwords keep what Passkeys and LoginGuard need.
LEMMA PasskeySteps ==
  ASSUME GuardInv, RequestsInv, TablesInv, CeremonyInv, ChallengeSpentOnce, LateInv, QuotaInv,
         PasskeyNext
  PROVE  /\ GuardInv' /\ RequestsInv' /\ TablesInv' /\ CeremonyInv' /\ ChallengeSpentOnce'
         /\ LateInv' /\ QuotaInv'
<1>1. TablesInv' /\ CeremonyInv' /\ ChallengeSpentOnce' /\ QuotaInv'
  BY CeremonySteps, QuotaSteps
<1>2. GuardInv' /\ RequestsInv' /\ LateInv'
  <2>1. ASSUME NEW r \in Requests, Step(r)
        PROVE  GuardInv' /\ RequestsInv' /\ LateInv'
    BY <2>1, GuardSteps, StepRequests
  <2>2. CASE RemovePasskey \/ DeleteAccount
    <3>1. UNCHANGED <<gvars, req>>
      BY <2>2 DEF RemovePasskey, DeleteAccount
    <3> QED
      BY <3>1, LateQuiet DEF gvars, GuardInv, EntryOK, RequestsInv, Guessing
  <2>3. CASE IngestRequest
    <3>1. PICK k \in LimitKeys, allowed \in BOOLEAN : LimiterSays(k, allowed)
      BY <2>3 DEF IngestRequest
    <3>2. UNCHANGED <<now, entries, late, req>>
      BY <2>3 DEF IngestRequest, pvars
    <3>3. GuardInv'
      BY <3>1, <3>2, LimiterEffect
    <3> QED
      BY <3>2, <3>3, LateQuiet DEF RequestsInv, Guessing
  <2>4. CASE Restart
    <3>1. GuardInv'
      BY <2>4, RestartEffect
    <3>2. RequestsInv'
      BY <2>4, IdleOK DEF Restart, RequestsInv, RequestOK
    <3>3. {} \in SUBSET Requests
      OBVIOUS
    <3>4. Cardinality(Requests) \in Nat \ {0}
      BY <3>3, RequestSets
    <3>5. late' = [k \in LockKeys |-> 0] /\ DOMAIN entries' = {}
      BY <2>4 DEF Restart
    <3>6. LateInv'
      BY <3>4, <3>5 DEF LateInv
    <3> QED
      BY <3>1, <3>2, <3>6
  <2> QED
    BY <2>1, <2>2, <2>3, <2>4 DEF PasskeyNext
<1> QED
  BY <1>1, <1>2

\* Time passes.
LEMMA TickSteps ==
  ASSUME GuardInv, LateInv, Tick, UNCHANGED req
  PROVE  GuardInv' /\ LateInv'
<1>1. GuardInv'
  BY TickEffect
<1>2. now' = now + 1 /\ now \in Nat /\ UNCHANGED <<entries, late>>
  BY DEF Tick, GuardInv
<1>3. ASSUME NEW k \in LockKeys
      PROVE  (On(k)' => On(k)) /\ late'[k] = late[k] /\ Guessing(k)' \subseteq Guessing(k)
  <2>1. k \in DOMAIN entries => entries[k].until \in Int
    BY DEF GuardInv, EntryOK, Entry
  <2> QED
    BY <1>2, <2>1 DEF On, Active, Guessing
<1>4. \A k \in LockKeys :
        /\ late'[k] <= Cardinality(Requests) - 1
        /\ On(k)' => late'[k] + Cardinality(Guessing(k)') <= Cardinality(Requests) - 1
  BY <1>3, LateMono
<1> QED
  BY <1>1, <1>2, <1>4 DEF LateInv, On

-----------------------------------------------------------------------------
(* Signing in through a provider.                                          *)

\* oidc_login and the provider draw what is new.
LEMMA SsoBegins ==
  ASSUME SsoInv, SessionOfOwnFlow, OidcLogin \/ Authorize
  PROVE  SsoInv' /\ SessionOfOwnFlow'
<1>1. CASE OidcLogin
  <2>1. PICK b \in Browsers, f \in Flows \ DOMAIN flows :
          flows' = Extended(flows, f, Encoded(b)) /\ jar' = [jar EXCEPT ![b] = f]
    BY <1>1 DEF OidcLogin
  <2>2. /\ DOMAIN flows' = DOMAIN flows \cup {f} /\ flows'[f].browser = b
        /\ \A g \in DOMAIN flows : flows'[g] = flows[g]
    <3> DEFINE y == Encoded(b)
    <3>1. y.browser = b
      BY DEF Encoded
    <3> HIDE DEF y
    <3>2. flows' = [k \in DOMAIN flows \cup {f} |-> IF k = f THEN y ELSE flows[k]]
      BY <2>1 DEF Extended, y
    <3> QED
      BY <3>1, <3>2
  <2>3. UNCHANGED <<codes, visits, entered>>
    BY <1>1 DEF OidcLogin
  <2>4. \A x \in Browsers : jar'[x] = IF x = b THEN f ELSE jar[x]
    BY <2>1 DEF SsoInv
  <2>5. jar' \in [Browsers -> Flows \cup {None}]
    BY <2>1 DEF SsoInv
  <2>6. SsoInv'
    BY <2>1, <2>2, <2>3, <2>4, <2>5 DEF SsoInv
  <2>7. SessionOfOwnFlow'
    <3>1. \A e \in entered : flows'[e.flow] = flows[e.flow]
      BY <2>2 DEF SsoInv
    <3> QED
      BY <2>3, <3>1 DEF SessionOfOwnFlow
  <2> QED
    BY <2>6, <2>7
<1>2. CASE Authorize
  <2>1. PICK c \in Codes \ DOMAIN codes, f \in DOMAIN flows, u \in Users :
          codes' = Extended(codes, c, [flow |-> f, user |-> u, redeemed |-> FALSE])
    BY <1>2 DEF Authorize
  <2>2. /\ DOMAIN codes' = DOMAIN codes \cup {c}
        /\ codes'[c] = [flow |-> f, user |-> u, redeemed |-> FALSE]
        /\ \A d \in DOMAIN codes : codes'[d] = codes[d]
    <3> DEFINE y == [flow |-> f, user |-> u, redeemed |-> FALSE]
    <3>1. codes' = [k \in DOMAIN codes \cup {c} |-> IF k = c THEN y ELSE codes[k]]
      BY <2>1 DEF Extended
    <3> HIDE DEF y
    <3>2. /\ DOMAIN codes' = DOMAIN codes \cup {c} /\ codes'[c] = y
          /\ \A d \in DOMAIN codes : codes'[d] = codes[d]
      BY <3>1
    <3> QED
      BY <3>2 DEF y
  <2>3. UNCHANGED <<jar, flows, visits, entered>>
    BY <1>2 DEF Authorize
  <2>4. codes'[c] \in [flow: Flows, user: Users, redeemed: BOOLEAN]
    BY <2>2 DEF SsoInv
  <2>5. SsoInv'
    <3>1. /\ DOMAIN codes' = DOMAIN codes \cup {c}
          /\ \A d \in DOMAIN codes : codes'[d] = codes[d]
      BY <2>2
    <3> QED
      BY <2>1, <2>3, <2>4, <3>1 DEF SsoInv
  <2>6. SessionOfOwnFlow'
    BY <2>2, <2>3 DEF SessionOfOwnFlow
  <2> QED
    BY <2>5, <2>6
<1> QED
  BY <1>1, <1>2

\* The answer that clears the cookie.
LEMMA ClearedSso ==
  ASSUME SsoInv, NEW r \in Requests, Cleared(r), visits[r].pc # "none"
  PROVE  /\ jar' \in [Browsers -> Flows \cup {None}]
         /\ \A b \in Browsers : jar'[b] \in {None, jar[b]}
         /\ visits' \in [Requests -> Visit]
         /\ \A s \in Requests : visits'[s].pc # "none" => s # r /\ visits'[s] = visits[s]
<1>1. visits[r].browser \in Browsers
  BY DEF SsoInv
<1>2. jar' = [jar EXCEPT ![visits[r].browser] = None]
  BY DEF Cleared
<1>3. jar' \in [Browsers -> Flows \cup {None}] /\ \A b \in Browsers : jar'[b] \in {None, jar[b]}
  BY <1>1, <1>2 DEF SsoInv
<1>4. NoVisit \in Visit /\ NoVisit.pc = "none"
  BY DEF NoVisit, Visit
<1>5. visits' = [visits EXCEPT ![r] = NoVisit]
  BY DEF Cleared
<1> QED
  BY <1>3, <1>4, <1>5 DEF SsoInv

\* run_callback: the state of the redirect is that of the browser's own cookie.
LEMMA CallbackSso ==
  ASSUME SsoInv, SessionOfOwnFlow, NEW r \in Requests, Callback(r)
  PROVE  SsoInv' /\ SessionOfOwnFlow'
<1>1. UNCHANGED <<flows, codes, entered>> /\ visits[r].pc = "none"
  BY DEF Callback
<1>2. PICK b \in Browsers, c \in DOMAIN codes :
        IF Decodes(jar[b]) /\ StateMatches(jar[b], codes[c].flow)
        THEN /\ visits' = [visits EXCEPT ![r] = [pc |-> "exchange", browser |-> b,
                                                 flow |-> jar[b], code |-> c]]
             /\ UNCHANGED jar
        ELSE jar' = [jar EXCEPT ![b] = None] /\ UNCHANGED visits
  BY DEF Callback
<1>3. CASE Decodes(jar[b]) /\ StateMatches(jar[b], codes[c].flow)
  <2> DEFINE v == [pc |-> "exchange", browser |-> b, flow |-> jar[b], code |-> c]
  <2>1. /\ jar[b] \in DOMAIN flows /\ jar[b] \in Flows /\ flows[jar[b]].browser = b
        /\ codes[c].flow = jar[b] /\ c \in Codes
    BY <1>3 DEF Decodes, StateMatches, SsoInv
  <2>2. v \in Visit /\ v.pc = "exchange" /\ v.browser = b /\ v.flow = jar[b] /\ v.code = c
    BY <2>1 DEF Visit
  <2>3. visits' = [visits EXCEPT ![r] = v] /\ UNCHANGED jar
    BY <1>2, <1>3
  <2> HIDE DEF v
  <2>4. visits' \in [Requests -> Visit] /\ \A s \in Requests : visits'[s] = IF s = r THEN v ELSE visits[s]
    BY <2>2, <2>3 DEF SsoInv
  <2>5. SsoInv'
    BY <1>1, <2>1, <2>2, <2>3, <2>4 DEF SsoInv
  <2>6. SessionOfOwnFlow'
    BY <1>1, <2>2, <2>4 DEF SessionOfOwnFlow
  <2> QED
    BY <2>5, <2>6
<1>4. CASE jar' = [jar EXCEPT ![b] = None] /\ UNCHANGED visits
  <2>1. jar' \in [Browsers -> Flows \cup {None}] /\ \A x \in Browsers : jar'[x] \in {None, jar[x]}
    BY <1>4 DEF SsoInv
  <2>2. SsoInv'
    BY <1>1, <1>4, <2>1 DEF SsoInv
  <2> QED
    BY <1>1, <1>4, <2>2 DEF SessionOfOwnFlow
<1> QED
  BY <1>2, <1>3, <1>4

\* exchange_code: the provider redeems a code once, so that one visit at most
\* opens a session with it.
LEMMA ExchangeSso ==
  ASSUME SsoInv, SessionOfOwnFlow, NEW r \in Requests, Exchange(r)
  PROVE  SsoInv' /\ SessionOfOwnFlow'
<1> DEFINE v == visits[r]
<1>1. /\ UNCHANGED <<flows, entered>> /\ v.pc = "exchange" /\ v \in Visit
      /\ v.code \in DOMAIN codes /\ codes[v.code].flow = v.flow
  BY DEF Exchange, SsoInv
<1>2. CASE Cleared(r) /\ UNCHANGED codes
  <2>1. SsoInv'
    BY <1>1, <1>2, ClearedSso DEF SsoInv
  <2>2. SessionOfOwnFlow'
    BY <1>1, <1>2, ClearedSso DEF SessionOfOwnFlow
  <2> QED
    BY <2>1, <2>2
<1>3. CASE Redeemable(v.code, v.flow)
  <2>1. ~codes[v.code].redeemed
    BY <1>3 DEF Redeemable
  <2>2. codes' = [codes EXCEPT ![v.code].redeemed = TRUE]
    BY <1>3 DEF Exchange
  <2>3. codes[v.code] \in [flow: Flows, user: Users, redeemed: BOOLEAN]
    BY <1>1 DEF SsoInv
  <2>4. /\ DOMAIN codes' = DOMAIN codes
        /\ \A d \in DOMAIN codes : d # v.code => codes'[d] = codes[d]
        /\ codes'[v.code] = [codes[v.code] EXCEPT !.redeemed = TRUE]
    BY <1>1, <2>2
  <2>5. /\ codes'[v.code].redeemed /\ codes'[v.code].flow = codes[v.code].flow
        /\ codes'[v.code] \in [flow: Flows, user: Users, redeemed: BOOLEAN]
    BY <2>3, <2>4
  <2>6. \A d \in DOMAIN codes : /\ codes'[d].flow = codes[d].flow
                                /\ codes[d].redeemed => codes'[d] = codes[d]
                                /\ codes'[d] \in [flow: Flows, user: Users, redeemed: BOOLEAN]
    BY <2>1, <2>4, <2>5 DEF SsoInv
  <2>7. \A e \in entered : e.code \in DOMAIN codes /\ e.code # v.code /\ codes'[e.code] = codes[e.code]
    <3>1. \A e \in entered : e.code \in DOMAIN codes /\ codes[e.code].redeemed
      BY DEF SessionOfOwnFlow
    <3> QED
      BY <2>1, <2>6, <3>1
  <2>8. \A s \in Requests : visits[s].pc = "open" => visits[s].code # v.code
    BY <2>1 DEF SsoInv
  <2>9. CASE Cleared(r)
    <3>1. /\ jar' \in [Browsers -> Flows \cup {None}]
          /\ \A b \in Browsers : jar'[b] \in {None, jar[b]}
          /\ visits' \in [Requests -> Visit]
          /\ \A s \in Requests : visits'[s].pc # "none" => s # r /\ visits'[s] = visits[s]
      BY <1>1, <2>9, ClearedSso
    <3>2. SsoInv'
      BY <1>1, <2>4, <2>6, <3>1 DEF SsoInv
    <3>3. SessionOfOwnFlow'
      BY <1>1, <2>4, <2>7, <3>1 DEF SessionOfOwnFlow
    <3> QED
      BY <3>2, <3>3
  <2>10. CASE visits' = [visits EXCEPT ![r].pc = "open"] /\ UNCHANGED jar
    <3> DEFINE w == [v EXCEPT !.pc = "open"]
    <3>1. /\ w \in Visit /\ w.pc = "open" /\ w.browser = v.browser /\ w.flow = v.flow
          /\ w.code = v.code
      BY <1>1 DEF Visit
    <3>2. visits' = [visits EXCEPT ![r] = w]
      BY <2>10 DEF SsoInv
    <3> HIDE DEF w
    <3>3. /\ visits' \in [Requests -> Visit]
          /\ \A s \in Requests : visits'[s] = IF s = r THEN w ELSE visits[s]
      BY <3>1, <3>2 DEF SsoInv
    <3>4. \A s \in Requests : visits'[s].pc # "none" =>
            /\ visits'[s].browser \in Browsers /\ visits'[s].flow \in DOMAIN flows
            /\ visits'[s].code \in DOMAIN codes
            /\ flows[visits'[s].flow].browser = visits'[s].browser
            /\ codes'[visits'[s].code].flow = visits'[s].flow
      BY <1>1, <2>6, <3>1, <3>3 DEF SsoInv
    <3>5. \A s \in Requests : visits'[s].pc = "open" =>
            /\ codes'[visits'[s].code].redeemed
            /\ \A x \in Requests \ {s} : visits'[x].pc = "open" => visits'[x].code # visits'[s].code
      BY <2>5, <2>6, <2>8, <3>1, <3>3 DEF SsoInv
    <3>6. SsoInv'
      BY <1>1, <2>4, <2>6, <2>10, <3>3, <3>4, <3>5 DEF SsoInv
    <3>7. SessionOfOwnFlow'
      BY <1>1, <2>4, <2>7, <3>1, <3>3 DEF SessionOfOwnFlow
    <3> QED
      BY <3>6, <3>7
  <2> QED
    BY <1>3, <2>9, <2>10 DEF Exchange, ClaimsRefused
<1> QED
  BY <1>2, <1>3 DEF Exchange

\* The session of a callback, with the code that only this visit redeemed.
LEMMA OpenSso ==
  ASSUME SsoInv, SessionOfOwnFlow, NEW r \in Requests, OpenSession(r)
  PROVE  SsoInv' /\ SessionOfOwnFlow'
<1> DEFINE v == visits[r]
           e == [browser |-> v.browser, flow |-> v.flow, code |-> v.code,
                 user |-> codes[v.code].user]
<1>1. /\ UNCHANGED <<flows, codes>> /\ v.pc = "open" /\ Cleared(r)
      /\ entered' = entered \cup {e}
  BY DEF OpenSession
<1>2. /\ v.code \in DOMAIN codes /\ codes[v.code].flow = v.flow /\ codes[v.code].redeemed
      /\ v.flow \in DOMAIN flows /\ flows[v.flow].browser = v.browser
      /\ \A s \in Requests \ {r} : visits[s].pc = "open" => visits[s].code # v.code
  BY <1>1 DEF SsoInv
<1>3. /\ e.browser = v.browser /\ e.flow = v.flow /\ e.code = v.code
      /\ e.user = codes[v.code].user
  OBVIOUS
<1> HIDE DEF e
<1>4. /\ jar' \in [Browsers -> Flows \cup {None}]
      /\ \A b \in Browsers : jar'[b] \in {None, jar[b]}
      /\ visits' \in [Requests -> Visit]
      /\ \A s \in Requests : visits'[s].pc # "none" => s # r /\ visits'[s] = visits[s]
  BY <1>1, ClearedSso
<1>5. SsoInv'
  BY <1>1, <1>2, <1>3, <1>4 DEF SsoInv
<1>6. SessionOfOwnFlow'
  BY <1>1, <1>2, <1>3, <1>4 DEF SessionOfOwnFlow
<1> QED
  BY <1>5, <1>6

-----------------------------------------------------------------------------
(* The sign-in surface as a whole.                                         *)

\* Initially nothing is locked, stored or begun.
LEMMA InitInv == Init => SignInInv
<1> SUFFICES ASSUME Init PROVE SignInInv
  OBVIOUS
<1> USE DEF Init, InitGuard, InitPasskeys
<1>1. Cardinality(Requests) \in Nat \ {0} /\ IsFiniteSet({}) /\ Cardinality({}) = 0
  <2>1. {} \in SUBSET Requests
    OBVIOUS
  <2> QED
    BY <2>1, RequestSets, FS_EmptySet
<1>2. GuardInv
  <2>1. DOMAIN entries = {} /\ DOMAIN windows = {} /\ DOMAIN entries \ {Overflow} = {}
    OBVIOUS
  <2>2. IsFiniteSet(DOMAIN entries) /\ Cardinality(DOMAIN entries \ {Overflow}) <= PruneThreshold
    BY <1>1, <2>1, GuardAssumption
  <2> QED
    BY <2>1, <2>2, GuardAssumption DEF GuardInv
<1>3. RequestsInv
  BY IdleOK DEF RequestsInv, RequestOK
<1>4. TablesInv
  BY DEF TablesInv
<1>5. \A r \in Requests : req[r].handle = None /\ req[r].pc = "idle"
  BY DEF Idle
<1>6. CeremonyInv
  BY <1>5 DEF CeremonyInv
<1>7. ChallengeSpentOnce
  BY DEF ChallengeSpentOnce
<1>8. LateInv
  BY <1>1 DEF LateInv
<1>9. QuotaInv
  <2>1. \A u \in Users : Owned(u) = {} /\ Inserting(u) = {}
    BY <1>5, PasskeysAssumption DEF Owned, Inserting
  <2>2. 0 + 0 <= MaxPerUser + Cardinality(Requests) - 1
    BY <1>1, PasskeysAssumption
  <2>3. \A u \in Users : /\ IsFiniteSet(Owned(u))
                         /\ Cardinality(Owned(u)) = 0 /\ Cardinality(Inserting(u)) = 0
    BY <1>1, <2>1
  <2> QED
    BY <2>2, <2>3 DEF QuotaInv
<1>10. SsoInv /\ SessionOfOwnFlow
  BY DEF SsoInv, SessionOfOwnFlow, NoVisit, Visit
<1> QED
  BY <1>2, <1>3, <1>4, <1>6, <1>7, <1>8, <1>9, <1>10 DEF SignInInv

\* What is only about passkeys stays as it is while the tables and requests do.
LEMMA PasskeysStay ==
  ASSUME SignInInv, UNCHANGED pvars
  PROVE  RequestsInv' /\ TablesInv' /\ CeremonyInv' /\ ChallengeSpentOnce' /\ QuotaInv'
<1> USE DEF pvars
<1>1. RequestsInv' /\ TablesInv'
  BY DEF SignInInv, RequestsInv, TablesInv
<1>2. CeremonyInv'
  BY DEF SignInInv, CeremonyInv, Registered
<1>3. ChallengeSpentOnce'
  BY DEF SignInInv, ChallengeSpentOnce
<1>4. \A u : Owned(u)' = Owned(u) /\ Inserting(u)' = Inserting(u)
  BY DEF Owned, Inserting
<1>5. QuotaInv'
  BY <1>4 DEF SignInInv, QuotaInv
<1> QED
  BY <1>1, <1>2, <1>3, <1>5

\* Every step of the sign-in surface preserves the invariant.
LEMMA StepInv ==
  ASSUME SignInInv, [Next]_vars
  PROVE  SignInInv'
<1>1. ASSUME UNCHANGED <<gvars, pvars>>
      PROVE  /\ GuardInv' /\ RequestsInv' /\ TablesInv' /\ CeremonyInv' /\ ChallengeSpentOnce'
             /\ LateInv' /\ QuotaInv'
  <2>1. GuardInv'
    BY <1>1 DEF SignInInv, GuardInv, EntryOK, gvars
  <2>2. LateInv'
    BY <1>1, LateQuiet DEF SignInInv, gvars, pvars, Guessing
  <2> QED
    BY <1>1, <2>1, <2>2, PasskeysStay
<1>2. ASSUME UNCHANGED svars
      PROVE  SsoInv' /\ SessionOfOwnFlow'
  BY <1>2 DEF SignInInv, SsoInv, SessionOfOwnFlow, svars
<1>3. CASE UNCHANGED vars
  BY <1>1, <1>2, <1>3 DEF vars, SignInInv
<1>4. CASE PasskeyNext /\ UNCHANGED svars
  BY <1>2, <1>4, PasskeySteps DEF SignInInv
<1>5. CASE SsoNext /\ UNCHANGED <<gvars, pvars>>
  <2>1. SsoInv' /\ SessionOfOwnFlow'
    BY <1>5, SsoBegins, CallbackSso, ExchangeSso, OpenSso DEF SsoNext, SignInInv
  <2> QED
    BY <1>1, <1>5, <2>1 DEF SignInInv
<1>6. CASE Passes
  <2>1. Tick /\ UNCHANGED <<pvars, svars>> /\ UNCHANGED req
    BY <1>6 DEF Passes, pvars
  <2>2. GuardInv' /\ LateInv'
    BY <2>1, TickSteps DEF SignInInv
  <2> QED
    BY <1>2, <2>1, <2>2, PasskeysStay DEF SignInInv
<1> QED
  BY <1>3, <1>4, <1>5, <1>6 DEF Next

\* The invariant is an invariant of the specification.
LEMMA SignInInductive == Spec => []SignInInv
<1>1. Init => SignInInv
  BY InitInv
<1>2. SignInInv /\ [Next]_vars => SignInInv'
  BY StepInv
<1> QED
  BY <1>1, <1>2, PTL DEF Spec

\* Neither a flood of addresses nor any interleaving of ceremonies and callbacks
\* takes the guard's map past its threshold and the shared entry, or a table out
\* of its type (record_failure_at).
THEOREM TypeCorrect == Spec => []TypeOK
<1>1. SignInInv => TypeOK
  <2> SUFFICES ASSUME SignInInv PROVE TypeOK
    OBVIOUS
  <2>1. Cardinality(DOMAIN entries) <= PruneThreshold + 1
    <3> DEFINE D == DOMAIN entries
               S == D \ {Overflow}
    <3>1. IsFiniteSet(D) /\ Cardinality(S) <= PruneThreshold
      BY DEF SignInInv, GuardInv
    <3> HIDE DEF D
    <3>2. /\ Cardinality(S) = IF Overflow \in D THEN Cardinality(D) - 1 ELSE Cardinality(D)
          /\ Cardinality(D) \in Nat /\ PruneThreshold \in Nat
      BY <3>1, FS_RemoveElement, FS_CardinalityType, GuardAssumption
    <3>3. Cardinality(D) <= PruneThreshold + 1
      BY <3>1, <3>2
    <3> QED
      BY <3>3 DEF D
  <2>2. GuardTypeOK
    BY <2>1 DEF SignInInv, GuardInv, EntryOK, GuardTypeOK
  <2>3. PasskeysTypeOK
    BY DEF SignInInv, TablesInv, RequestsInv, PasskeysTypeOK
  <2> QED
    BY <2>2, <2>3 DEF SignInInv, SsoInv, TypeOK
<1> QED
  BY <1>1, SignInInductive, PTL

\* A challenge is spent at most once and for what it was made, over all answers
\* that arrive together, expiries, deletions and restarts (take).
THEOREM ChallengeAlwaysSpentOnce == Spec => []ChallengeSpentOnce
<1>1. SignInInv => ChallengeSpentOnce
  BY DEF SignInInv
<1> QED
  BY <1>1, SignInInductive, PTL

\* A session that a provider vouches for belongs to the browser, the flow and
\* the person of one redeemed code (run_callback).
THEOREM SessionAlwaysOfOwnFlow == Spec => []SessionOfOwnFlow
<1>1. SignInInv => SessionOfOwnFlow
  BY DEF SignInInv
<1> QED
  BY <1>1, SignInInductive, PTL

\* What a locked key costs an attacker who sends all requests at once: fewer
\* guesses than there are requests (check_at, record_failure_at).
THEOREM LateGuessesAlwaysBounded == Spec => []LateGuessesBounded
<1>1. SignInInv => LateGuessesBounded
  BY DEF SignInInv, LateInv, LateGuessesBounded
<1> QED
  BY <1>1, SignInInductive, PTL

\* Registrations that overlap exceed the quota by fewer than there are requests
\* (register_verify counts in one statement and inserts in another).
THEOREM QuotaAlwaysNearlyKept == Spec => []QuotaNearlyKept
<1>1. SignInInv => QuotaNearlyKept
  <2> SUFFICES ASSUME SignInInv, NEW u \in Users
               PROVE  Cardinality(Owned(u)) <= MaxPerUser + Cardinality(Requests) - 1
    BY DEF QuotaNearlyKept
  <2>1. Inserting(u) \in SUBSET Requests
    BY DEF Inserting
  <2>2. Cardinality(Inserting(u)) \in Nat /\ Cardinality(Requests) \in Nat
    BY <2>1, RequestSets
  <2>3. IsFiniteSet(Owned(u))
        /\ Cardinality(Owned(u)) + Cardinality(Inserting(u)) <= MaxPerUser + Cardinality(Requests) - 1
    BY DEF SignInInv, QuotaInv
  <2>4. Cardinality(Owned(u)) \in Nat
    BY <2>3, FS_CardinalityType
  <2>5. MaxPerUser \in Nat
    BY PasskeysAssumption
  <2> QED
    BY <2>2, <2>3, <2>4, <2>5
<1> QED
  BY <1>1, SignInInductive, PTL

\* What LockHolds says of a step.
LockKept ==
  \A k \in DOMAIN entries : now' < entries[k].until =>
    \/ k \in DOMAIN entries' /\ entries'[k].until >= entries[k].until
    \/ \E r \in Requests : /\ req[r].key = k /\ req[r].pc \in {"verify", "touch"}
                           /\ req'[r].pc \in {"idle", "session"} /\ RecordSuccess(k)
    \/ Restart

\* A step that leaves the map alone keeps every lock.
LEMMA LocksUntouched == GuardInv /\ UNCHANGED entries => LockKept
<1>1. GuardInv => \A k \in DOMAIN entries : entries[k].until \in Int
  BY DEF GuardInv, EntryOK, Entry
<1> QED
  BY <1>1 DEF LockKept

\* A failure keeps every lock that is on.
LEMMA FailureKeepsLocks ==
  ASSUME GuardInv, NEW key \in LockKeys, RecordFailure(key), UNCHANGED <<now, windows>>
  PROVE  LockKept
<1>1. \A j \in DOMAIN entries : Active(entries[j]) =>
        j \in DOMAIN entries' /\ entries'[j].until >= entries[j].until
  BY FailureEffect
<1>2. now' = now
  OBVIOUS
<1> QED
  BY <1>1, <1>2 DEF LockKept, Active

\* A success unlocks its own key only.
LEMMA SuccessKeepsLocks ==
  ASSUME GuardInv, NEW r \in Requests, req[r].key \in LockKeys, RecordSuccess(req[r].key),
         UNCHANGED <<now, windows>>, req[r].pc \in {"verify", "touch"},
         req'[r].pc \in {"idle", "session"}
  PROVE  LockKept
<1>1. /\ DOMAIN entries' = DOMAIN entries \ {req[r].key}
      /\ \A j \in DOMAIN entries' : entries'[j] = entries[j]
  BY SuccessEffect
<1>2. \A k \in DOMAIN entries : entries[k].until \in Int
  BY DEF GuardInv, EntryOK, Entry
<1> QED
  BY <1>1, <1>2 DEF LockKept

\* No step of a request lifts a lock but the success it waits for.
LEMMA RequestKeepsLocks ==
  ASSUME GuardInv, RequestsInv, NEW r \in Requests, Step(r)
  PROVE  LockKept
<1>1. RequestOK(req[r]) /\ req[r] \in Request /\ PasskeyKey \in LockKeys
      /\ req \in [Requests -> Request]
  BY PasskeysAssumption DEF RequestsInv
<1>2. CASE LoginVerified(r)
  <2>1. req[r].key \in LockKeys /\ req[r].pc = "verify" /\ UNCHANGED <<now, windows>>
    BY <1>1, <1>2 DEF Request, LoginVerified
  <2>2. req'[r].pc = "idle"
    BY <1>1, <1>2 DEF LoginVerified, Reply, Idle
  <2> QED
    BY <1>2, <2>1, <2>2, FailureKeepsLocks, SuccessKeepsLocks, LocksUntouched DEF LoginVerified
<1>3. CASE Lookup(r)
  BY <1>1, <1>3, FailureKeepsLocks, LocksUntouched DEF Lookup
<1>4. CASE Touch(r)
  <2>1. req[r].pc = "touch" /\ req[r].key = PasskeyKey /\ RecordSuccess(PasskeyKey)
        /\ UNCHANGED <<now, windows>>
    BY <1>1, <1>4 DEF Touch, RequestOK
  <2>2. req'[r].pc = "session"
    BY <1>1, <1>4 DEF Touch, Goto
  <2> QED
    BY <1>1, <2>1, <2>2, SuccessKeepsLocks
<1>5. CASE UNCHANGED entries
  BY <1>5, LocksUntouched
<1> QED
  BY <1>2, <1>3, <1>4, <1>5 DEF Step, LoginCheck, LoginOptions, RegisterOptions, CountBefore, StoreChallenge,
    LoginVerify, RegisterVerify, Take, FindUser, StartSession, CountAgain, Insert, Dropped, gvars

\* A lock that is on neither disappears nor ends earlier, through pruning, the
\* shared entry and any interleaving of failures, until a sign-in with its own
\* key succeeds or the process restarts (record_failure_at, record_success).
THEOREM LocksAlwaysHold == Spec => LockHolds
<1>1. SignInInv /\ [Next]_vars => [LockKept]_<<gvars, pvars>>
  <2> SUFFICES ASSUME SignInInv, [Next]_vars, ~UNCHANGED <<gvars, pvars>>
               PROVE  LockKept
    OBVIOUS
  <2>1. GuardInv /\ RequestsInv
    BY DEF SignInInv
  <2>2. CASE PasskeyNext
    <3>1. CASE \E r \in Requests : Step(r)
      BY <2>1, <3>1, RequestKeepsLocks
    <3>2. CASE RemovePasskey \/ DeleteAccount \/ IngestRequest
      <4>1. UNCHANGED entries
        BY <3>2 DEF RemovePasskey, DeleteAccount, IngestRequest, gvars
      <4> QED
        BY <2>1, <4>1, LocksUntouched
    <3>3. CASE Restart
      BY <3>3 DEF LockKept
    <3> QED
      BY <2>2, <3>1, <3>2, <3>3 DEF PasskeyNext
  <2>3. CASE Passes
    BY <2>1, <2>3, LocksUntouched DEF Passes, Tick
  <2> QED
    BY <2>2, <2>3 DEF Next, vars
<1>2. LockHolds <=> [][LockKept]_<<gvars, pvars>>
  BY DEF LockHolds, LockKept
<1> QED
  BY <1>1, <1>2, SignInInductive, PTL DEF Spec

-----------------------------------------------------------------------------
(* The rate limiter.                                                       *)

\* Spread(s): what BurstBounded says of the times of one key.
Spread(s) ==
  \A i \in DOMAIN s :
    LET j == i + 2 * Limit
    IN  j \in DOMAIN s => s[j] - s[i] >= LimitWindow

\* What the window w of a key knows of the times s its requests were let through:
\* the last w.count of them are its own, the others are from before it began,
\* and those before the Limit that the window before it may have let through are
\* a whole window older.
Spaced(s, w) ==
  /\ w.count <= Len(s)
  /\ \A i \in 1..Len(s) : s[i] < w.start + LimitWindow
  /\ \A i \in 1..(Len(s) - w.count) : s[i] < w.start
  /\ \A i \in 1..(Len(s) - w.count - Limit) : s[i] + LimitWindow <= w.start

LimiterInv ==
  /\ granted \in [LimitKeys -> Seq(0..MaxTime)]
  /\ \A k \in LimitKeys : Spread(granted[k])
  /\ \A k \in LimitKeys :
       IF k \in DOMAIN windows
       THEN Spaced(granted[k], windows[k]) /\ windows[k].start <= now
       ELSE granted[k] = <<>>

\* The types of a window.
LimiterWindow == [start: 0..MaxTime, count: 0..Limit]

\* Elements of a sequence, and what Append makes of them.
LEMMA SequenceElements ==
  ASSUME NEW S, NEW s \in Seq(S), NEW x \in S
  PROVE  /\ Len(s) \in Nat /\ DOMAIN s = 1..Len(s)
         /\ \A i \in 1..Len(s) : s[i] \in S /\ Append(s, x)[i] = s[i]
         /\ Append(s, x) \in Seq(S) /\ Len(Append(s, x)) = Len(s) + 1
         /\ DOMAIN Append(s, x) = 1..(Len(s) + 1) /\ Append(s, x)[Len(s) + 1] = x
  OBVIOUS

\* What the types of a window and of the times say.
LEMMA WindowTypes ==
  ASSUME NEW s \in Seq(0..MaxTime), NEW w \in LimiterWindow
  PROVE  /\ Limit \in Nat \ {0} /\ LimitWindow \in Nat \ {0} /\ MaxTime \in Nat
         /\ w.count \in 0..Limit /\ w.start \in 0..MaxTime /\ Len(s) \in Nat
         /\ \A i \in 1..Len(s) : s[i] \in 0..MaxTime
<1>1. Limit \in Nat \ {0} /\ LimitWindow \in Nat \ {0} /\ MaxTime \in Nat
  BY GuardAssumption
<1>2. w.count \in 0..Limit /\ w.start \in 0..MaxTime
  BY DEF LimiterWindow
<1>3. 0 \in 0..MaxTime
  BY <1>1
<1>4. Len(s) \in Nat /\ \A i \in 1..Len(s) : s[i] \in 0..MaxTime
  BY <1>3, SequenceElements
<1> QED
  BY <1>1, <1>2, <1>4

\* A window that has elapsed gives way to one that begins now.
LEMMA WindowRolls ==
  ASSUME NEW s \in Seq(0..MaxTime), NEW w \in LimiterWindow, Spaced(s, w),
         now \in 0..MaxTime, now - w.start >= LimitWindow
  PROVE  Spaced(s, [start |-> now, count |-> 0])
<1>1. /\ Limit \in Nat \ {0} /\ LimitWindow \in Nat \ {0} /\ MaxTime \in Nat
      /\ w.count \in 0..Limit /\ w.start \in 0..MaxTime /\ Len(s) \in Nat
      /\ \A i \in 1..Len(s) : s[i] \in 0..MaxTime
  BY WindowTypes
<1>2. \A i \in 1..Len(s) : s[i] < now /\ s[i] < now + LimitWindow
  BY <1>1 DEF Spaced
<1>3. ASSUME NEW i \in 1..(Len(s) - 0 - Limit)
      PROVE  s[i] + LimitWindow <= now
  <2>1. i \in 1..(Len(s) - w.count) /\ i \in 1..Len(s)
    BY <1>1
  <2>2. s[i] < w.start
    BY <2>1 DEF Spaced
  <2> QED
    BY <1>1, <2>1, <2>2
<1> QED
  BY <1>1, <1>2, <1>3 DEF Spaced

\* A request that is let through within the window comes at least a window after
\* the one 2 * Limit before it.
LEMMA WindowCounts ==
  ASSUME NEW s \in Seq(0..MaxTime), NEW w \in LimiterWindow, Spaced(s, w), Spread(s),
         now \in 0..MaxTime, w.start <= now, now - w.start < LimitWindow, w.count < Limit
  PROVE  /\ Spaced(Append(s, now), [start |-> w.start, count |-> w.count + 1])
         /\ Spread(Append(s, now))
<1> DEFINE n == Len(s)
           t == Append(s, now)
<1>1. /\ Limit \in Nat \ {0} /\ LimitWindow \in Nat \ {0} /\ MaxTime \in Nat
      /\ w.count \in 0..Limit /\ w.start \in 0..MaxTime /\ n \in Nat
      /\ \A i \in 1..n : s[i] \in 0..MaxTime
  BY WindowTypes
<1>2. /\ t \in Seq(0..MaxTime) /\ Len(t) = n + 1 /\ DOMAIN t = 1..(n + 1) /\ DOMAIN s = 1..n
      /\ t[n + 1] = now /\ \A i \in 1..n : t[i] = s[i]
  BY SequenceElements
<1>3. /\ w.count <= n
      /\ \A i \in 1..n : s[i] < w.start + LimitWindow
      /\ \A i \in 1..(n - w.count) : s[i] < w.start
      /\ \A i \in 1..(n - w.count - Limit) : s[i] + LimitWindow <= w.start
  BY DEF Spaced
<1> HIDE DEF t, n
<1>4. Spaced(t, [start |-> w.start, count |-> w.count + 1])
  <2>1. \A i \in 1..(n + 1) : i \in 1..n \/ i = n + 1
    BY <1>1
  <2>2. ASSUME NEW i \in 1..(n + 1)
        PROVE  t[i] < w.start + LimitWindow
    <3>1. CASE i \in 1..n
      BY <1>2, <1>3, <3>1
    <3>2. CASE i = n + 1
      <4>1. now < w.start + LimitWindow
        BY <1>1
      <4> QED
        BY <1>2, <3>2, <4>1
    <3> QED
      BY <2>1, <3>1, <3>2
  <2> DEFINE c == w.count
  <2>c. c \in Nat /\ c <= n /\ n \in Nat /\ Limit \in Nat
    BY <1>1, <1>3
  <2>3. \A i \in 1..(n + 1 - (w.count + 1)) : i \in 1..(n - w.count) /\ i \in 1..n
    <3> HIDE DEF c
    <3>1. \A i \in 1..(n + 1 - (c + 1)) : i \in 1..(n - c) /\ i \in 1..n
      BY <2>c
    <3> QED
      BY <3>1 DEF c
  <2>4. \A i \in 1..(n + 1 - (w.count + 1) - Limit) :
          i \in 1..(n - w.count - Limit) /\ i \in 1..n
    <3> HIDE DEF c
    <3>1. \A i \in 1..(n + 1 - (c + 1) - Limit) : i \in 1..(n - c - Limit) /\ i \in 1..n
      BY <2>c
    <3> QED
      BY <3>1 DEF c
  <2>5. w.count + 1 <= n + 1
    BY <2>c
  <2>6. \A i \in 1..(n + 1 - (w.count + 1)) : t[i] < w.start
    BY <1>2, <1>3, <2>3
  <2>7. \A i \in 1..(n + 1 - (w.count + 1) - Limit) : t[i] + LimitWindow <= w.start
    BY <1>2, <1>3, <2>4
  <2> DEFINE v == [start |-> w.start, count |-> w.count + 1]
  <2>8. v.start = w.start /\ v.count = w.count + 1
    OBVIOUS
  <2> HIDE DEF v
  <2>9. /\ v.count <= Len(t)
        /\ \A i \in 1..Len(t) : t[i] < v.start + LimitWindow
    BY <1>2, <2>2, <2>5, <2>8
  <2>10. \A i \in 1..(Len(t) - v.count) : t[i] < v.start
    BY <1>1, <1>2, <2>6, <2>8
  <2>11. \A i \in 1..(Len(t) - v.count - Limit) : t[i] + LimitWindow <= v.start
    BY <1>1, <1>2, <2>7, <2>8
  <2>12. Spaced(t, v)
    BY <2>9, <2>10, <2>11 DEF Spaced
  <2> QED
    BY <2>12 DEF v
<1>5. Spread(t)
  <2> SUFFICES ASSUME NEW i \in 1..(n + 1), i + 2 * Limit \in 1..(n + 1)
               PROVE  t[i + 2 * Limit] - t[i] >= LimitWindow
    BY <1>2 DEF Spread
  <2>1. i \in 1..n
    BY <1>1
  <2>2. CASE i + 2 * Limit \in 1..n
    <3> DEFINE j == i + 2 * Limit
    <3>1. i \in DOMAIN s /\ j \in DOMAIN s /\ t[i] = s[i] /\ t[j] = s[j]
      BY <1>2, <2>1, <2>2
    <3>2. s[j] - s[i] >= LimitWindow
      BY <3>1 DEF Spread
    <3> HIDE DEF j
    <3>3. t[j] - t[i] >= LimitWindow
      BY <3>1, <3>2
    <3> QED
      BY <3>3 DEF j
  <2>3. CASE i + 2 * Limit = n + 1
    <3>1. i \in 1..(n - w.count - Limit)
      BY <1>1, <2>3
    <3>2. s[i] + LimitWindow <= w.start
      BY <1>3, <3>1
    <3>3. t[i + 2 * Limit] = now /\ t[i] = s[i] /\ s[i] \in 0..MaxTime
      BY <1>1, <1>2, <2>1, <2>3
    <3>4. now - s[i] >= LimitWindow
      BY <1>1, <3>2, <3>3
    <3> QED
      BY <3>3, <3>4
  <2> QED
    BY <1>1, <2>2, <2>3
<1> QED
  BY <1>4, <1>5 DEF t

\* check_at keeps what the window knows.
LEMMA LimiterCounts ==
  ASSUME GuardInv, LimiterInv, NEW key \in LimitKeys, NEW allowed \in BOOLEAN,
         LimiterSays(key, allowed), UNCHANGED now
  PROVE  LimiterInv'
<1> DEFINE fresh == [start |-> now, count |-> 0]
           seen == IF key \in DOMAIN windows THEN windows[key] ELSE fresh
           w == IF Elapsed(seen) THEN fresh ELSE seen
           counted == IF w.count >= Limit THEN w ELSE [w EXCEPT !.count = @ + 1]
           s == granted[key]
<1>1. /\ Limit \in Nat \ {0} /\ LimitWindow \in Nat \ {0} /\ MaxTime \in Nat /\ now \in 0..MaxTime
      /\ s \in Seq(0..MaxTime) /\ Spread(s)
  BY GuardAssumption DEF GuardInv, LimiterInv
<1>2. fresh \in LimiterWindow /\ seen \in LimiterWindow
  BY <1>1 DEF GuardInv, LimiterWindow
<1>3. Spaced(s, seen) /\ seen.start <= now
  <2>1. CASE key \in DOMAIN windows
    BY <2>1 DEF LimiterInv
  <2>2. CASE key \notin DOMAIN windows
    <3>1. s = <<>> /\ Len(s) = 0
      BY <2>2 DEF LimiterInv
    <3>2. seen.count = 0 /\ seen.start = now
      BY <2>2
    <3> QED
      BY <1>1, <3>1, <3>2 DEF Spaced
  <2> QED
    BY <2>1, <2>2
<1>4. w \in LimiterWindow /\ Spaced(s, w) /\ w.start <= now /\ now - w.start < LimitWindow
  <2>1. CASE Elapsed(seen)
    <3>1. now - seen.start >= LimitWindow /\ w = fresh
      BY <2>1 DEF Elapsed
    <3>2. Spaced(s, fresh)
      <4> HIDE DEF seen, s
      <4> QED
        BY <1>1, <1>2, <1>3, <3>1, WindowRolls
    <3> QED
      BY <1>1, <1>2, <3>1, <3>2
  <2>2. CASE ~Elapsed(seen)
    <3>1. seen.start \in 0..MaxTime
      BY <1>2 DEF LimiterWindow
    <3> HIDE DEF seen
    <3>2. now - seen.start < LimitWindow /\ w = seen
      BY <1>1, <2>2, <3>1 DEF Elapsed
    <3> QED
      BY <1>2, <1>3, <3>2
  <2> QED
    BY <2>1, <2>2
<1>5. /\ windows' = [k \in DOMAIN windows \cup {key} |-> IF k = key THEN counted ELSE windows[k]]
      /\ allowed = (w.count < Limit)
      /\ granted' = [granted EXCEPT ![key] = IF allowed THEN Append(s, now) ELSE s]
  BY DEF LimiterSays
<1>6. w.count \in 0..Limit
  BY <1>4 DEF LimiterWindow
<1> HIDE DEF w, s
<1>7. ASSUME NEW t, NEW v, granted' = [granted EXCEPT ![key] = t], counted = v,
             t \in Seq(0..MaxTime), Spread(t), Spaced(t, v), v.start <= now
      PROVE  LimiterInv'
  <2> HIDE DEF counted
  <2>1. granted' \in [LimitKeys -> Seq(0..MaxTime)]
    BY <1>7 DEF LimiterInv
  <2>2. ASSUME NEW k \in LimitKeys, k # key
        PROVE  /\ granted'[k] = granted[k]
               /\ k \in DOMAIN windows' <=> k \in DOMAIN windows
               /\ k \in DOMAIN windows => windows'[k] = windows[k]
    BY <1>5, <1>7, <2>2 DEF LimiterInv
  <2>3. granted'[key] = t /\ key \in DOMAIN windows' /\ windows'[key] = v
    BY <1>5, <1>7 DEF LimiterInv
  <2>4. ASSUME NEW k \in LimitKeys
        PROVE  /\ Spread(granted'[k])
               /\ IF k \in DOMAIN windows'
                  THEN Spaced(granted'[k], windows'[k]) /\ windows'[k].start <= now
                  ELSE granted'[k] = <<>>
    <3>1. CASE k = key
      BY <1>7, <2>3, <3>1
    <3>2. CASE k # key
      BY <2>2, <3>2 DEF LimiterInv
    <3> QED
      BY <3>1, <3>2
  <2> QED
    BY <2>1, <2>4 DEF LimiterInv, Spread, Spaced
<1>8. CASE w.count >= Limit
  <2>0. ~(w.count < Limit)
    BY <1>1, <1>6, <1>8
  <2>1. counted = w /\ granted' = [granted EXCEPT ![key] = s]
    BY <1>5, <1>8, <2>0
  <2> QED
    BY <1>1, <1>4, <1>7, <2>1
<1>9. CASE w.count < Limit
  <2>1. counted = [start |-> w.start, count |-> w.count + 1]
    BY <1>1, <1>4, <1>6, <1>9 DEF LimiterWindow
  <2>2. granted' = [granted EXCEPT ![key] = Append(s, now)]
    BY <1>5, <1>9
  <2>4. Append(s, now) \in Seq(0..MaxTime)
    BY <1>1
  <2>3. Spaced(Append(s, now), [start |-> w.start, count |-> w.count + 1]) /\ Spread(Append(s, now))
    BY <1>1, <1>4, <1>9, WindowCounts
  <2> QED
    BY <1>4, <1>7, <2>1, <2>2, <2>3, <2>4
<1> QED
  BY <1>1, <1>6, <1>8, <1>9

\* Every step keeps the limiter's invariant.
LEMMA LimiterSteps ==
  ASSUME GuardInv, LimiterInv, [Next]_vars
  PROVE  LimiterInv'
<1>1. CASE \E k \in LimitKeys, allowed \in BOOLEAN : LimiterSays(k, allowed) /\ UNCHANGED now
  BY <1>1, LimiterCounts
<1>2. CASE UNCHANGED <<windows, granted>> /\ (now' = now \/ now' = now + 1)
  <2>1. now \in Nat /\ \A k \in DOMAIN windows : windows[k].start \in Nat
    BY GuardAssumption DEF GuardInv
  <2> QED
    BY <1>2, <2>1 DEF LimiterInv, Spread, Spaced
<1>3. CASE Restart
  <2>1. /\ granted' = [k \in LimitKeys |-> <<>>] /\ DOMAIN windows' = {}
        /\ <<>> \in Seq(0..MaxTime) /\ DOMAIN <<>> = {}
    BY <1>3 DEF Restart
  <2>2. \A k \in LimitKeys : granted'[k] = <<>> /\ Spread(granted'[k])
    BY <2>1 DEF Spread
  <2> QED
    BY <2>1, <2>2 DEF LimiterInv, Spread
<1>4. CASE PasskeyNext
  <2>1. ASSUME NEW r \in Requests, Step(r), ~LoginOptions(r)
        PROVE  UNCHANGED <<now, windows, granted>>
    BY <2>1 DEF Step, LoginCheck, LoginVerified, RegisterOptions, CountBefore, StoreChallenge,
      LoginVerify, RegisterVerify, Take, Lookup, FindUser, Touch, StartSession, CountAgain, Insert,
      Dropped, gvars
  <2>2. ASSUME NEW r \in Requests, LoginOptions(r)
        PROVE  \E allowed \in BOOLEAN : LimiterSays(OptionsKey, allowed) /\ UNCHANGED now
    BY <2>2 DEF LoginOptions
  <2>3. CASE IngestRequest
    BY <1>1, <2>3 DEF IngestRequest
  <2>4. CASE RemovePasskey \/ DeleteAccount
    BY <1>2, <2>4 DEF RemovePasskey, DeleteAccount, gvars
  <2> QED
    BY <1>1, <1>2, <1>3, <1>4, <2>1, <2>2, <2>3, <2>4, PasskeysAssumption DEF PasskeyNext
<1> QED
  BY <1>2, <1>4 DEF Next, vars, gvars, Passes, Tick

\* The limiter lets at most twice its limit through in any span as long as its
\* window, for any limit, window and pattern of requests: a window begins only
\* when the one before it is over, and each lets through its limit (check_at).
THEOREM BurstsAlwaysBounded == Spec => []BurstBounded
<1>1. Init => LimiterInv
  <2> SUFFICES ASSUME Init PROVE LimiterInv
    OBVIOUS
  <2>1. /\ granted = [k \in LimitKeys |-> <<>>] /\ DOMAIN windows = {}
        /\ <<>> \in Seq(0..MaxTime) /\ DOMAIN <<>> = {}
    BY DEF Init, InitPasskeys, InitGuard
  <2> QED
    BY <2>1 DEF LimiterInv, Spread
<1>2. SignInInv /\ LimiterInv /\ [Next]_vars => LimiterInv'
  BY LimiterSteps DEF SignInInv
<1>3. LimiterInv => BurstBounded
  BY DEF LimiterInv, Spread, BurstBounded
<1> QED
  BY <1>1, <1>2, <1>3, SignInInductive, PTL DEF Spec
=============================================================================
