------------------------------ MODULE Passkeys ------------------------------
(***************************************************************************)
(* Signing in with a password or a passkey, and the passkeys of an account:*)
(* auth/passkey_handlers.rs, login and accept_invite of auth/handlers.rs,  *)
(* adapters/sqlite/{passkey,auth_challenge}.rs.  A ceremony is two         *)
(* requests: `options` stores a challenge under a random handle, the       *)
(* answer takes it.  The statements and transactions of the requests       *)
(* interleave; between them each holds only what it has read.              *)
(*                                                                         *)
(* Abstractions.  An answer comes with any handle, any credential and the  *)
(* account it names, chosen when the code first looks at them, and         *)
(* verifies or not: the WebAuthn library decides.                          *)
(* Whoever holds a passkey once had a session, so the check that a         *)
(* pending account gets none never fires here (Accounts models it).        *)
(* Names and counters of passkeys are left out: no decision reads them.    *)
(***************************************************************************)
EXTENDS LoginGuard, Sequences

CONSTANTS Users, Handles, Credentials, Requests, None,
          MaxPerUser,     \* PasskeyConfig.max_per_user
          ChallengeTtl,   \* PasskeyConfig.challenge_ttl
          PasskeyKey,     \* the lockout key of passkey sign-ins
          OptionsKey,     \* "auth:passkey-options"
          Workloads       \* the endpoints called together, and for how long

ASSUME PasskeysAssumption ==
  /\ PasskeyKey \in LockKeys /\ OptionsKey \in LimitKeys
  /\ MaxPerUser \in Nat \ {0} /\ ChallengeTtl \in Nat \ {0}
  /\ None \notin Users \cup Handles \cup Credentials
  /\ IsFiniteSet(Requests) /\ Requests # {}

VARIABLES accounts,     \* the users that exist
          passkeys,     \* table passkeys: the owner of each credential, or None
          challenges,   \* table auth_challenges, defined on the stored handles
          issued,       \* history: the purpose and account of each handle made
          fruit,        \* history: what each handle's answer brought about
          req,          \* what each request in flight holds
          workload      \* the endpoints that are called (ops), the last tick (ticks)

pvars == <<accounts, passkeys, challenges, issued, fruit, req>>

Purposes == {"login", "register"}
Challenge == [purpose: Purposes, user: Users \cup {None}, expires: 0..(MaxTime + ChallengeTtl)]
Request ==
  [pc: {"idle", "verify", "store", "take", "lookup", "user", "touch", "session", "count",
        "insert", "remove", "options"},
   key: LockKeys, purpose: Purposes, user: Users \cup {None}, handle: Handles \cup {None},
   credential: Credentials \cup {None}]
Idle == [pc |-> "idle", key |-> PasskeyKey, purpose |-> "login", user |-> None, handle |-> None,
         credential |-> None]

PasskeysTypeOK ==
  /\ accounts \subseteq Users
  /\ passkeys \in [Credentials -> Users \cup {None}]
  /\ DOMAIN challenges \subseteq DOMAIN issued /\ DOMAIN issued \subseteq Handles
  /\ \A h \in DOMAIN challenges : challenges[h] \in Challenge
  /\ req \in [Requests -> Request]

InitPasskeys ==
  /\ accounts = Users
  /\ passkeys = [c \in Credentials |-> None]
  /\ challenges = <<>> /\ issued = <<>>
  /\ fruit = [h \in Handles |-> <<>>]
  /\ req = [r \in Requests |-> Idle]

Owned(u) == {c \in Credentials : passkeys[c] = u}
Goto(r, pc) == req' = [req EXCEPT ![r].pc = pc]
Reply(r) == req' = [req EXCEPT ![r] = Idle]
Yield(h, what) == fruit' = [fruit EXCEPT ![h] = Append(@, what)]
OnlyRequests == UNCHANGED <<accounts, passkeys, challenges, issued, fruit>>

-----------------------------------------------------------------------------
(* Passwords: login, and accept_invite for whoever is not signed in.       *)

\* The lock is looked up before the account is read and the password checked.
LoginCheck(r) ==
  /\ "password" \in workload.ops /\ req[r].pc = "idle"
  /\ \E k \in LockKeys \ {PasskeyKey} :
       /\ ~Locked(k)
       /\ req' = [req EXCEPT ![r] = [Idle EXCEPT !.pc = "verify", !.key = k]]
  /\ UNCHANGED gvars /\ OnlyRequests

\* A wrong password or an unknown address counts; a right one clears the key.
\* A right password that has to use SSO, or an invite refused for another
\* reason, leaves the guard alone.
LoginVerified(r) ==
  /\ req[r].pc = "verify"
  /\ \/ RecordFailure(req[r].key)
     \/ RecordSuccess(req[r].key)
     \/ UNCHANGED <<entries, late>>
  /\ Reply(r)
  /\ UNCHANGED <<now, windows, granted>> /\ OnlyRequests

-----------------------------------------------------------------------------
(* The first half of a ceremony.                                           *)

\* login_options: the limiter counts before the lock is looked up.
LoginOptions(r) ==
  /\ "passkey" \in workload.ops /\ req[r].pc = "idle"
  /\ \E allowed \in BOOLEAN :
       /\ LimiterSays(OptionsKey, allowed)
       /\ req' = IF allowed /\ ~Locked(PasskeyKey)
                 THEN [req EXCEPT ![r] = [Idle EXCEPT !.pc = "store"]] ELSE req
  /\ UNCHANGED <<now, entries, late>> /\ OnlyRequests

\* Authentication of the caller, who may be deleted meanwhile.
SignedIn(r, pc) ==
  \E u \in accounts :
    req' = [req EXCEPT ![r] = [Idle EXCEPT !.pc = pc, !.purpose = "register", !.user = u]]

RegisterOptions(r) ==
  /\ "register" \in workload.ops /\ req[r].pc = "idle"
  /\ SignedIn(r, "options")
  /\ UNCHANGED gvars /\ OnlyRequests

CountBefore(r) ==
  /\ req[r].pc = "options"
  /\ IF Cardinality(Owned(req[r].user)) >= MaxPerUser THEN Reply(r) ELSE Goto(r, "store")
  /\ UNCHANGED gvars /\ OnlyRequests

\* challenge_cookie and AuthChallengeRepository::create: expired challenges
\* are deleted and the new one inserted in one transaction.
StoreChallenge(r) ==
  /\ req[r].pc = "store"
  /\ \E h \in Handles \ DOMAIN issued :
       LET ch == [purpose |-> req[r].purpose, user |-> req[r].user, expires |-> now + ChallengeTtl]
           live == {k \in DOMAIN challenges : challenges[k].expires > now}
       IN  /\ challenges' = [k \in live \cup {h} |-> IF k = h THEN ch ELSE challenges[k]]
           /\ issued' = [k \in DOMAIN issued \cup {h} |-> IF k = h THEN ch ELSE issued[k]]
  /\ Reply(r)
  /\ UNCHANGED <<gvars, accounts, passkeys, fruit>>

-----------------------------------------------------------------------------
(* The second half.                                                        *)

LoginVerify(r) ==
  /\ "passkey" \in workload.ops /\ req[r].pc = "idle" /\ ~Locked(PasskeyKey)
  /\ req' = [req EXCEPT ![r] = [Idle EXCEPT !.pc = "take"]]
  /\ UNCHANGED gvars /\ OnlyRequests

RegisterVerify(r) ==
  /\ "register" \in workload.ops /\ req[r].pc = "idle"
  /\ SignedIn(r, "take")
  /\ UNCHANGED gvars /\ OnlyRequests

\* Fault: the challenge is read and stays in the table.
LeftStored(h) == challenges
\* DELETE ... RETURNING state.
Removed(h) == Restrict(challenges, DOMAIN challenges \ {h})

\* The WHERE clause of AuthChallengeRepository::take.
Takes(h, purpose) == /\ h \in DOMAIN challenges
                     /\ challenges[h].purpose = purpose /\ challenges[h].expires > now

\* take_challenge and what is checked right after it: a registration belongs
\* to the caller and has to verify; an assertion that names no account is
\* refused without counting.
Take(r) ==
  /\ req[r].pc = "take"
  /\ LET q == req[r]
         next == IF q.purpose = "login" THEN "lookup" ELSE "count"
     IN  \/ Reply(r) /\ UNCHANGED challenges          \* no such challenge
         \/ \E h \in Handles :
              /\ Takes(h, q.purpose)
              /\ challenges' = Removed(h)
              /\ \/ Reply(r)
                 \/ /\ q.purpose = "register" => challenges[h].user = q.user
                    /\ req' = [req EXCEPT ![r].pc = next, ![r].handle = h]
  /\ UNCHANGED <<gvars, accounts, passkeys, issued, fruit>>

\* Fault: whoever owns the credential, the account the assertion names.
NamedAccount(c, u) == passkeys[c] # None
\* find_by_credential_id, filtered by the account the assertion names.
Belongs(c, u) == passkeys[c] = u

\* An unknown credential and a failed assertion count as failures.
Lookup(r) ==
  /\ req[r].pc = "lookup"
  /\ \/ Reply(r) /\ RecordFailure(PasskeyKey)
     \/ /\ \E c \in Credentials, u \in Users :
             /\ Belongs(c, u)
             /\ req' = [req EXCEPT ![r].pc = "user", ![r].credential = c, ![r].user = u]
        /\ UNCHANGED <<entries, late>>
  /\ UNCHANGED <<now, windows, granted>> /\ OnlyRequests

FindUser(r) ==
  /\ req[r].pc = "user"
  /\ IF req[r].user \in accounts THEN Goto(r, "touch") ELSE Reply(r)
  /\ UNCHANGED gvars /\ OnlyRequests

\* touch updates the row if it is still there; then the key is cleared.
Touch(r) ==
  /\ req[r].pc = "touch"
  /\ RecordSuccess(PasskeyKey)
  /\ Goto(r, "session")
  /\ UNCHANGED <<now, windows, granted>> /\ OnlyRequests

\* start_session: the foreign key refuses it for an account that is gone.
StartSession(r) ==
  /\ req[r].pc = "session"
  /\ IF req[r].user \in accounts
     THEN Yield(req[r].handle, [kind |-> "login", user |-> req[r].user,
                                credential |-> req[r].credential])
     ELSE UNCHANGED fruit
  /\ Reply(r)
  /\ UNCHANGED <<gvars, accounts, passkeys, challenges, issued>>

\* Fault: the quota was checked by register_options already.
NotAgain(u) == TRUE
\* register_verify checks the quota again.
WithinQuota(u) == Cardinality(Owned(u)) < MaxPerUser

CountAgain(r) ==
  /\ req[r].pc = "count"
  /\ IF WithinQuota(req[r].user) THEN Goto(r, "insert") ELSE Reply(r)
  /\ UNCHANGED gvars /\ OnlyRequests

\* PasskeyRepository::create: a registered credential conflicts, and so does
\* an account that is gone.
Insert(r) ==
  /\ req[r].pc = "insert"
  /\ LET q == req[r] IN
     \/ UNCHANGED <<passkeys, fruit>>
     \/ \E c \in Credentials :
          /\ passkeys[c] = None /\ q.user \in accounts
          /\ passkeys' = [passkeys EXCEPT ![c] = q.user]
          /\ Yield(q.handle, [kind |-> "register", user |-> q.user, credential |-> c])
  /\ Reply(r)
  /\ UNCHANGED <<gvars, accounts, challenges, issued>>

-----------------------------------------------------------------------------
(* Removing, and the rest of the system.                                   *)

\* PasskeyRepository::delete, of the caller's own passkeys only.
RemovePasskey ==
  /\ "remove" \in workload.ops
  /\ \E u \in accounts : \E c \in Owned(u) : passkeys' = [passkeys EXCEPT ![c] = None]
  /\ UNCHANGED <<gvars, accounts, challenges, issued, fruit, req>>

\* An administrator deletes an account; its passkeys go with it.
DeleteAccount ==
  /\ "delete" \in workload.ops
  /\ \E u \in accounts :
       /\ accounts' = accounts \ {u}
       /\ passkeys' = [c \in Credentials |-> IF passkeys[c] = u THEN None ELSE passkeys[c]]
  /\ UNCHANGED <<gvars, challenges, issued, fruit, req>>

\* Ingest counts the requests of a project, whether it is read-only or not.
IngestRequest ==
  /\ "ingest" \in workload.ops
  /\ \E k \in LimitKeys \ {OptionsKey}, allowed \in BOOLEAN : LimiterSays(k, allowed)
  /\ UNCHANGED <<now, entries, late, pvars>>

\* The client goes away and axum drops the handler between two statements.
Dropped(r) ==
  /\ "drop" \in workload.ops /\ req[r].pc # "idle"
  /\ Reply(r)
  /\ UNCHANGED gvars /\ OnlyRequests

\* A restart forgets the counters and every request; the tables stay.
Restart ==
  /\ "restart" \in workload.ops
  /\ entries' = <<>> /\ windows' = <<>>
  /\ late' = [k \in LockKeys |-> 0]
  /\ granted' = [k \in LimitKeys |-> <<>>]
  /\ req' = [r \in Requests |-> Idle]
  /\ UNCHANGED <<now, accounts, passkeys, challenges, issued, fruit>>

Step(r) ==
  \/ LoginCheck(r) \/ LoginVerified(r)
  \/ LoginOptions(r) \/ RegisterOptions(r) \/ CountBefore(r) \/ StoreChallenge(r)
  \/ LoginVerify(r) \/ RegisterVerify(r) \/ Take(r)
  \/ Lookup(r) \/ FindUser(r) \/ Touch(r) \/ StartSession(r)
  \/ CountAgain(r) \/ Insert(r) \/ Dropped(r)

PasskeyNext ==
  \/ \E r \in Requests : Step(r)
  \/ RemovePasskey \/ DeleteAccount \/ IngestRequest \/ Restart

-----------------------------------------------------------------------------
(* Properties.                                                             *)

\* A challenge brings about one thing at most, the one it was made for, however
\* many answers with its handle arrive at once (take_challenge): a registration
\* for the account that began it, or the session of the account that registered
\* the passkey and of no other (register_verify, login_verify).
ChallengeSpentOnce ==
  \A h \in Handles : LET f == fruit[h] IN
    \/ f = <<>>
    \/ /\ Len(f) = 1 /\ h \in DOMAIN issued
       /\ f[1].kind = issued[h].purpose
       /\ issued[h].user \in {None, f[1].user}
       /\ f[1].kind = "login" =>
            \E g \in Handles : \E j \in 1..Len(fruit[g]) :
              fruit[g][j] = [f[1] EXCEPT !.kind = "register"]

\* The quota is read and the passkey inserted in two statements: registrations
\* that overlap exceed it, but by fewer than there are requests in flight.
QuotaNearlyKept ==
  \A u \in Users : Cardinality(Owned(u)) <= MaxPerUser + Cardinality(Requests) - 1

\* A lock that is on stays on, and never ends earlier, until a sign-in with the
\* same key succeeds or the process restarts, whatever prunes the map or fails
\* meanwhile (record_failure_at).
LockHolds ==
  [][\A k \in DOMAIN entries : now' < entries[k].until =>
       \/ k \in DOMAIN entries' /\ entries'[k].until >= entries[k].until
       \/ \E r \in Requests : /\ req[r].key = k /\ req[r].pc \in {"verify", "touch"}
                              /\ req'[r].pc \in {"idle", "session"} /\ RecordSuccess(k)
       \/ Restart]_<<gvars, pvars>>

\* Requests check the lock before they verify and record after: those that were
\* past the check go on when the lock falls, all others are kept out, so that a
\* locked key sees fewer guesses than there are requests (check_at).
LateGuessesBounded == \A k \in LockKeys : late[k] <= Cardinality(Requests) - 1
=============================================================================
