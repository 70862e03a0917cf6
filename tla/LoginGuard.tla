----------------------------- MODULE LoginGuard -----------------------------
(***************************************************************************)
(* The two counters a process keeps in memory against floods: LoginGuard   *)
(* (auth/lockout.rs) locks a key after failed sign-ins, RateLimiter        *)
(* (ingest/ratelimit.rs) counts requests in fixed windows.  Both are a map *)
(* under a mutex, so every call is one step.  Time is a monotonic clock in *)
(* ticks; a lock that was never armed ends at 0.                           *)
(***************************************************************************)
EXTENDS Integers, Sequences, FiniteSets, Functions, FiniteSetsExt

CONSTANTS LockKeys,         \* client address and e-mail (or "passkey")
          Overflow,         \* OVERFLOW_KEY
          MaxAttempts, Window, BaseLockout, MaxLockout,   \* LockoutConfig
          PruneThreshold,   \* PRUNE_THRESHOLD
          LimitKeys,        \* project ids and "auth:passkey-options"
          Limit, LimitWindow,
          MaxTime           \* bound: the last tick

ASSUME GuardAssumption ==
  /\ Overflow \notin LockKeys
  /\ {MaxAttempts, Window, BaseLockout, MaxLockout, PruneThreshold, Limit, LimitWindow}
       \subseteq Nat \ {0}
  /\ BaseLockout <= MaxLockout /\ MaxTime \in Nat

VARIABLES now,       \* the clock
          entries,   \* the guard's map, defined on the tracked keys
          windows,   \* the limiter's map, defined on the keys seen
          late,      \* history: failures of each key while it was locked
          granted    \* history: when the limiter let requests of each key through

gvars == <<now, entries, windows, late, granted>>

MaxLevel == 4   \* bound: the level from which the duration no longer grows

Entry == [failures: 0..MaxAttempts, start: 0..MaxTime, until: 0..(MaxTime + MaxLockout),
          level: 0..MaxLevel]
NewEntry == [failures |-> 0, start |-> now, until |-> 0, level |-> 0]

GuardTypeOK ==
  /\ now \in 0..MaxTime
  /\ DOMAIN entries \subseteq LockKeys \cup {Overflow}
  /\ Cardinality(DOMAIN entries) <= PruneThreshold + 1
  /\ \A k \in DOMAIN entries : entries[k] \in Entry
  /\ \A k \in DOMAIN windows : windows[k] \in [start: 0..MaxTime, count: 0..Limit]

InitGuard ==
  /\ now = 0 /\ entries = <<>> /\ windows = <<>>
  /\ late = [k \in LockKeys |-> 0]
  /\ granted = [k \in LimitKeys |-> <<>>]

Full(map) == Cardinality(DOMAIN map) >= PruneThreshold

Active(e) == now < e.until

\* Fault: only the failure window is looked at.
WindowOver(e) == now - e.start >= Window
\* Entry::is_idle: not locked, and the failure window is over.
IsIdle(e) == ~Active(e) /\ now - e.start >= Window

\* Fault: a full map takes one more key.
OwnEntry(map, key) == key
\* A key that is not tracked shares the overflow entry of a full map.
Tracked(map, key) == IF Full(map) /\ key \notin DOMAIN map THEN Overflow ELSE key

\* Fault: only the shared entry is looked up.
SharedEntry(key) == Full(entries) /\ Overflow \in DOMAIN entries /\ Active(entries[Overflow])
\* LoginGuard::check_at: is the entry of the key, or the shared one, locked?
Locked(key) ==
  \E k \in DOMAIN entries :
    /\ k = Tracked(entries, key)
    /\ Active(entries[k])

LockoutDuration(level) == Min({BaseLockout * 2^(level - 1), MaxLockout})

\* What one more failure makes of an entry: a window that is over starts anew
\* unless the lock is still on; at the threshold the lock is armed.
Failed(e) ==
  LET rolled == IF ~Active(e) /\ now - e.start >= Window
                THEN [e EXCEPT !.failures = 0, !.start = now] ELSE e
      level == Min({rolled.level + 1, MaxLevel})
  IN  IF rolled.failures + 1 < MaxAttempts
      THEN [rolled EXCEPT !.failures = @ + 1]
      ELSE [failures |-> 0, start |-> now, until |-> now + LockoutDuration(level),
            level |-> level]

RecordFailure(key) ==
  LET kept == IF Full(entries)
              THEN Restrict(entries, {k \in DOMAIN entries : ~IsIdle(entries[k])})
              ELSE entries
      k == Tracked(kept, key)
      e == IF k \in DOMAIN kept THEN kept[k] ELSE NewEntry
      own == key \in DOMAIN kept /\ Active(kept[key])
  IN  /\ entries' = [j \in DOMAIN kept \cup {k} |-> IF j = k THEN Failed(e) ELSE kept[j]]
      /\ late' = [late EXCEPT ![key] = IF own THEN @ + 1 ELSE 0]

RecordSuccess(key) ==
  /\ entries' = Restrict(entries, DOMAIN entries \ {key})
  /\ late' = [late EXCEPT ![key] = 0]

\* Fault: the count starts anew at every tick.
EveryTick(w) == now > w.start
\* The window has elapsed.
Elapsed(w) == now - w.start >= LimitWindow

\* RateLimiter::check_at, for a request that is let through or is not.
LimiterSays(key, allowed) ==
  LET seen == IF key \in DOMAIN windows THEN windows[key] ELSE [start |-> now, count |-> 0]
      w == IF Elapsed(seen) THEN [start |-> now, count |-> 0] ELSE seen
      counted == IF w.count >= Limit THEN w ELSE [w EXCEPT !.count = @ + 1]
  IN  /\ allowed = (w.count < Limit)
      /\ windows' = [k \in DOMAIN windows \cup {key} |-> IF k = key THEN counted ELSE windows[k]]
      /\ granted' = [granted EXCEPT ![key] = IF allowed THEN Append(@, now) ELSE @]

Tick ==
  /\ now < MaxTime
  /\ now' = now + 1
  /\ UNCHANGED <<entries, windows, late, granted>>

-----------------------------------------------------------------------------
(* Properties.                                                             *)

\* A limiter window that ends lets a burst through right before and right after:
\* but of any 2 * Limit + 1 requests let through, the last comes no less than a
\* window after the first, so that no span as long as the window sees more than
\* twice the limit (ratelimit.rs, check_at).
BurstBounded ==
  \A k \in LimitKeys : \A i \in DOMAIN granted[k] :
    LET j == i + 2 * Limit
    IN  j \in DOMAIN granted[k] => granted[k][j] - granted[k][i] >= LimitWindow
=============================================================================
