--------------------------- MODULE PgAccountsProofs ---------------------------
(***************************************************************************)
(* Proofs about PgAccounts: what overlapping transactions on accounts,     *)
(* teams, invites and projects guarantee on PostgreSQL, for any number of  *)
(* clients, accounts, teams, projects, invites and calls.                  *)
(***************************************************************************)
EXTENDS PgStoresProofs

-----------------------------------------------------------------------------
(* Locks.                                                                  *)

\* Which modes exclude each other.
LEMMA Modes ==
  /\ \A m : ~Compatible("SRE", m) /\ ~Compatible(m, "SRE")
  /\ \A m : ~Compatible("U", m) /\ ~Compatible(m, "U")
  /\ ~Compatible("NKU", "NKU")
BY DEF Compatible

Has(s, lock) == lock \in work[s].holds

\* No two clients hold locks that exclude each other.
Exclusive ==
  \A s, v \in Clients : s # v =>
    \A a \in work[s].holds, b \in work[v].holds : a.on = b.on => Compatible(a.mode, b.mode)

\* What nobody else holds besides a client with such a lock.
LEMMA Excluded ==
  ASSUME Exclusive, NEW v \in Clients, NEW s \in Clients, s # v
  PROVE  /\ \A x : Has(v, Table(x, "RE")) => ~Has(s, Table(x, "SRE"))
         /\ \A x, m : Has(v, Table(x, "SRE")) => ~Has(s, Table(x, m))
         /\ \A x, k, m : Has(v, Row(x, k, "U")) => ~Has(s, Row(x, k, m))
         /\ \A x, k : Has(v, Row(x, k, "NKU")) => ~Has(s, Row(x, k, "NKU")) /\ ~Has(s, Row(x, k, "U"))
<1>1. \A x, m, n : Has(v, Table(x, m)) /\ Has(s, Table(x, n)) => Compatible(n, m)
  <2> TAKE x, m, n
  <2>1. Table(x, m).on = Table(x, n).on /\ Table(x, m).mode = m /\ Table(x, n).mode = n
    BY DEF Table
  <2> QED
    BY <2>1 DEF Exclusive, Has
<1>2. \A x, k, m, n : Has(v, Row(x, k, m)) /\ Has(s, Row(x, k, n)) => Compatible(n, m)
  <2> TAKE x, k, m, n
  <2>1. Row(x, k, m).on = Row(x, k, n).on /\ Row(x, k, m).mode = m /\ Row(x, k, n).mode = n
    BY DEF Row
  <2> QED
    BY <2>1 DEF Exclusive, Has
<1> QED
  BY <1>1, <1>2, Modes

-----------------------------------------------------------------------------
(* The inductive invariant: what each call knows before its commit.        *)

Call(s) == batch.calls[s]
Left(s) == Len(work[s].rest)

\* Somebody has set up the instance; the invite admits nobody any more.
SetUpDone == \E v \in Clients : Call(v).op = "create" /\ Call(v).initial /\ outcome[v] = "done"
Closed(k) == db.invites[k] = NoInvite \/ db.invites[k].accepted

\* The membership a call is about to write refers to a team and an account that
\* will still be there: it exists, or the rows it refers to are locked.
Anchored(s, t, u) ==
  \/ db.members[t][u] # None
  \/ /\ t \in db.teams /\ Has(s, Row("teams", t, "KS"))
     /\ u \in Registered /\ Has(s, Row("users", u, "KS"))

\* The statements that may be left of each call.
CreateRests ==
  {<<"lock_settings", "no_owner", "insert_user", "read_defaults", "join_defaults">>,
   <<"no_owner", "insert_user", "read_defaults", "join_defaults">>,
   <<"insert_user", "read_defaults", "join_defaults">>,
   <<"read_defaults", "join_defaults">>, <<"join_defaults">>, <<>>}

SetRoleRests ==
  {<<"lock_users", "lock_members", "last_owner", "update_user">>,
   <<"lock_members", "last_owner", "update_user">>,
   <<"last_owner", "update_user">>, <<"update_user">>, <<>>}

DeleteUserRests ==
  {<<"lock_users", "lock_members", "last_owner", "last_admin", "delete_user", "cascade_user">>,
   <<"lock_members", "last_owner", "last_admin", "delete_user", "cascade_user">>,
   <<"last_owner", "last_admin", "delete_user", "cascade_user">>,
   <<"last_admin", "delete_user", "cascade_user">>,
   <<"delete_user", "cascade_user">>, <<"cascade_user">>, <<>>}

ConvertRests ==
  {<<"lock_user", "convertible", "update_user">>,
   <<"convertible", "update_user">>, <<"update_user">>, <<>>}

AcceptRests ==
  {<<"mark_invite", "still_open", "read_user", "write_member">>,
   <<"still_open", "read_user", "write_member">>,
   <<"read_user", "write_member">>, <<"write_member">>, <<>>}

DeleteTeamRests ==
  {<<"lock_teams", "lock_projects", "target", "move", "no_projects", "delete_team", "cascade_team">>,
   <<"lock_projects", "target", "move", "no_projects", "delete_team", "cascade_team">>,
   <<"target", "move", "no_projects", "delete_team", "cascade_team">>,
   <<"move", "no_projects", "delete_team", "cascade_team">>,
   <<"no_projects", "delete_team", "cascade_team">>,
   <<"delete_team", "cascade_team">>, <<"cascade_team">>, <<>>}

ProjectRests ==
  {<<"write_project">>, <<>>}

ChangeMemberRests(c) ==
  IF c.role = None
  THEN {<<"lock_members", "other_admin", "drop_member">>,
        <<"other_admin", "drop_member">>, <<"drop_member">>, <<>>}
  ELSE {<<"lock_members", "other_admin", "write_member">>,
        <<"other_admin", "write_member">>, <<"write_member">>, <<>>}

CreateKnows(s) ==
  LET c == Call(s) IN
  /\ work[s].rest \in CreateRests
  /\ c.initial /\ Left(s) <= 4 => Has(s, Row("service_settings", "only", "U"))
  /\ c.initial /\ Left(s) <= 3 => ~SetUpDone
  /\ Left(s) <= 2 => /\ Has(s, Table("users", "RE")) /\ Has(s, Row("users", c.user, "U"))
                     /\ c.user \notin Registered
  /\ Left(s) = 0 => /\ Has(s, Table("members", "RE"))
                    /\ \A t \in work[s].seen : t \in db.teams /\ Has(s, Row("teams", t, "KS"))

SetRoleKnows(s) ==
  LET c == Call(s) IN
  /\ work[s].rest \in SetRoleRests
  /\ Left(s) <= 3 => Has(s, Table("users", "SRE"))
  /\ Left(s) <= 1 => c.role = "owner" \/ Owners # {c.user}
  /\ Left(s) = 0 => /\ Has(s, Table("users", "RE")) /\ Has(s, Row("users", c.user, "NKU"))
                    /\ c.user \in Registered

DeleteUserKnows(s) ==
  LET c == Call(s) IN
  /\ work[s].rest \in DeleteUserRests
  /\ Left(s) <= 5 => Has(s, Table("users", "SRE"))
  /\ Left(s) <= 4 => Has(s, Table("members", "SRE"))
  /\ Left(s) <= 3 => Owners # {c.user}
  /\ Left(s) <= 2 => \A t \in Teams : AdminsOf(t) # {c.user}
  /\ Left(s) <= 1 => Has(s, Row("users", c.user, "U"))

ConvertKnows(s) ==
  LET c == Call(s) IN
  /\ work[s].rest \in ConvertRests
  /\ Left(s) <= 2 => Has(s, Row("users", c.user, "U"))
  /\ Left(s) <= 1 => c.user \in Registered /\ c.user \notin Owners
  /\ Left(s) = 0 => Has(s, Table("users", "RE"))

ChangeMemberKnows(s) ==
  LET c == Call(s) IN
  /\ work[s].rest \in ChangeMemberRests(c)
  /\ Left(s) <= 2 => Has(s, Table("members", "SRE"))
  /\ Left(s) <= 1 => c.role = "admin" \/ AdminsOf(c.team) # {c.user}
  /\ Left(s) = 0 /\ c.role # None => Anchored(s, c.team, c.user)

AcceptKnows(s) ==
  LET c == Call(s)
      t == db.invites[c.token].team
  IN
  /\ work[s].rest \in AcceptRests
  /\ Left(s) <= 3 => Has(s, Row("invites", c.token, "NKU"))
  /\ Left(s) <= 2 => ~Closed(c.token) /\ work[s].seen = {t}
  /\ Left(s) = 0 => /\ Has(s, Table("members", "RE")) /\ Has(s, Row("members", <<t, c.user>>, "U"))
                    /\ Anchored(s, t, c.user)

DeleteTeamKnows(s) ==
  LET c == Call(s) IN
  /\ work[s].rest \in DeleteTeamRests
  /\ Left(s) <= 6 => Has(s, Table("teams", "SRE"))
  /\ Left(s) <= 5 => Has(s, Table("projects", "SRE"))
  /\ Left(s) <= 4 => c.to \in db.teams \cup {None}
  /\ Left(s) <= 2 => ProjectsOf(c.team) \subseteq work[s].seen
  /\ Left(s) <= 1 => Has(s, Row("teams", c.team, "U"))
  /\ Left(s) = 0 => /\ Has(s, Table("members", "RE"))
                    /\ \A u \in Users : Has(s, Row("members", <<c.team, u>>, "U"))
                    /\ \A k \in InvitesOf(c.team) : Has(s, Row("invites", k, "U"))

ProjectKnows(s) ==
  LET c == Call(s) IN
  /\ work[s].rest \in ProjectRests
  /\ Left(s) = 0 => /\ Has(s, Table("projects", "RE"))
                    /\ c.team \in db.teams /\ Has(s, Row("teams", c.team, "KS"))

Knows(s) ==
  /\ Call(s).op = "create" => CreateKnows(s)
  /\ Call(s).op = "set_role" => SetRoleKnows(s)
  /\ Call(s).op = "delete_user" => DeleteUserKnows(s)
  /\ Call(s).op = "convert" => ConvertKnows(s)
  /\ Call(s).op \in {"add_member", "set_member"} => ChangeMemberKnows(s)
  /\ Call(s).op = "accept" => AcceptKnows(s)
  /\ Call(s).op = "delete_team" => DeleteTeamKnows(s)
  /\ Call(s).op = "project" => ProjectKnows(s)

IsWork(w) == w = [rest |-> w.rest, holds |-> w.holds, seen |-> w.seen, retries |-> w.retries]

\* What a call that has been granted something leaves behind: one owner was set
\* up, the invite stays closed.
Granted ==
  /\ SetUpDone => Owners # {}
  /\ \A s, v \in Clients :
       /\ Call(s).op = "create" /\ Call(s).initial /\ outcome[s] = "done"
       /\ Call(v).op = "create" /\ Call(v).initial /\ outcome[v] = "done"
       => s = v
  /\ \A s \in Clients : Call(s).op = "accept" /\ outcome[s] = "done" => Closed(Call(s).token)
  /\ \A s, v \in Clients :
       /\ Call(s).op = "accept" /\ Call(v).op = "accept" /\ Call(s).token = Call(v).token
       /\ outcome[s] = "done" /\ outcome[v] = "done"
       => s = v

AccountsInv ==
  /\ batch \in Batches /\ db \in Tables /\ NoDangling(db)
  /\ DOMAIN work = Clients /\ DOMAIN outcome = Clients
  /\ \A s \in Clients : IsWork(work[s]) /\ (outcome[s] = None => Knows(s))
  /\ \A s \in Clients : Call(s).op = "delete_team" => outcome[s] # "failed"
  /\ Exclusive /\ Granted

-----------------------------------------------------------------------------
(* The statements.                                                         *)

\* What it takes for a statement to be carried out.
LEMMA RefusalOf ==
  ASSUME NEW c, NEW seen
  PROVE  /\ Refusal(c, "no_owner", seen) = None => Owners = {}
         /\ Refusal(c, "insert_user", seen) = None => c.user \notin Registered
         /\ Refusal(c, "join_defaults", seen) = None => seen \subseteq db.teams
         /\ Refusal(c, "last_owner", seen) = None =>
              (c.op # "delete_user" /\ c.role = "owner") \/ Owners # {c.user}
         /\ Refusal(c, "last_admin", seen) = None => \A t \in Teams : AdminsOf(t) # {c.user}
         /\ Refusal(c, "other_admin", seen) = None => c.role = "admin" \/ AdminsOf(c.team) # {c.user}
         /\ Refusal(c, "update_user", seen) = None => c.op # "set_role" \/ c.user \in Registered
         /\ Refusal(c, "convertible", seen) = None => c.user \in Registered /\ c.user \notin Owners
         /\ Refusal(c, "still_open", seen) = None => ~Closed(c.token)
         /\ Refusal(c, "write_member", seen) = None =>
              IF c.op = "set_member" THEN db.members[c.team][c.user] # None
              ELSE TeamOf(c, seen) \in db.teams /\ c.user \in Registered
         /\ Refusal(c, "target", seen) = None => c.to = None \/ c.to \in db.teams
         /\ Refusal(c, "no_projects", seen) = None => ProjectsOf(c.team) \subseteq seen
         /\ Refusal(c, "write_project", seen) = None => c.team \in db.teams
BY DEF Refusal, None, Closed

\* A call is ended with one of these answers.
LEMMA RefusalAnswers ==
  ASSUME NEW c, NEW statement, NEW seen
  PROVE  /\ Refusal(c, statement, seen) \in {None, "conflict", "failed", "missing", "forbidden", "used"}
         /\ Refusal(c, statement, seen) = "failed" =>
              statement \in {"join_defaults", "read_user", "write_member", "delete_team", "write_project"}
BY DEF Refusal, None

\* What each statement returns.
LEMMA ReturnedOf ==
  ASSUME NEW c, NEW seen
  PROVE  /\ Returned(c, "read_defaults", seen) = db.defaults
         /\ Returned(c, "still_open", seen) = {db.invites[c.token].team}
         /\ c.to # None => Returned(c, "move", seen) = ProjectsOf(c.team)
         /\ \A st \in {"join_defaults", "read_user", "write_member", "no_projects", "delete_team", "cascade_team"} :
              Returned(c, st, seen) = seen
BY DEF Returned

\* Statement st of client s is carried out; rest is left.
Proceeds(s, st, rest) ==
  /\ Refusal(Call(s), st, work[s].seen) = None
  /\ IsWork(work'[s])
  /\ work'[s].rest = rest
  /\ work'[s].holds = work[s].holds \cup Needs(Call(s), st, work[s].seen)
  /\ work'[s].seen = Returned(Call(s), st, work[s].seen)
  /\ UNCHANGED <<db, batch, outcome>>

\* A statement gets its locks and goes on, or ends the call.
LEMMA Executed ==
  ASSUME AccountsInv, NEW s \in Clients, Execute(s)
  PROVE  /\ outcome[s] = None /\ work[s].rest # <<>> /\ UNCHANGED <<db, batch>>
         /\ DOMAIN work' = Clients /\ DOMAIN outcome' = Clients
         /\ \A v \in Clients \ {s} : work'[v] = work[v] /\ outcome'[v] = outcome[v]
         /\ \A v \in Clients \ {s} :
              \A a \in Needs(Call(s), Head(work[s].rest), work[s].seen), b \in work[v].holds :
                a.on = b.on => Compatible(a.mode, b.mode)
         /\ \/ Proceeds(s, Head(work[s].rest), Tail(work[s].rest))
            \/ /\ work'[s] = Over
               /\ outcome'[s] = Refusal(Call(s), Head(work[s].rest), work[s].seen)
               /\ outcome'[s] # None
<1> DEFINE c == batch.calls[s]
           st == Head(work[s].rest)
           refusal == Refusal(c, st, work[s].seen)
           needs == Needs(c, st, work[s].seen)
           back == Returned(c, st, work[s].seen)
<1>1. /\ outcome[s] = None /\ work[s].rest # <<>> /\ UNCHANGED <<db, batch>>
      /\ IF refusal # None THEN Answer(s, refusal)
         ELSE /\ work' = [work EXCEPT ![s].rest = Tail(@), ![s].holds = @ \cup Needed(s),
                                      ![s].seen = Returned(c, st, @)]
              /\ UNCHANGED outcome
  BY DEF Execute
<1>2. Needed(s) = needs
  BY <1>1 DEF Needed
<1>3. IsWork(work[s]) /\ DOMAIN work = Clients /\ DOMAIN outcome = Clients
  BY DEF AccountsInv
<1>4. ASSUME NEW v \in Clients \ {s}
      PROVE  \A a \in needs, b \in work[v].holds : a.on = b.on => Compatible(a.mode, b.mode)
  BY <1>2 DEF Execute, WaitsFor, Holding
<1>5. CASE refusal # None
  BY <1>1, <1>3, <1>4, <1>5 DEF Answer, Call
<1>6. CASE refusal = None
  <2>1. work' = [work EXCEPT ![s].rest = Tail(@), ![s].holds = @ \cup needs, ![s].seen = back]
    BY <1>1, <1>2, <1>6
  <2> HIDE DEF needs, back
  <2>2. work'[s] = [rest |-> Tail(work[s].rest), holds |-> work[s].holds \cup needs,
                    seen |-> back, retries |-> work[s].retries]
    BY <2>1, <1>3 DEF IsWork
  <2>3. DOMAIN work' = Clients /\ \A v \in Clients \ {s} : work'[v] = work[v]
    BY <2>1, <1>3
  <2>4. Proceeds(s, st, Tail(work[s].rest))
    BY <1>1, <1>6, <2>2 DEF Proceeds, IsWork, Call, needs, back
  <2> QED
    BY <1>1, <1>3, <1>4, <1>6, <2>3, <2>4 DEF Call, needs
<1> QED
  BY <1>5, <1>6

-----------------------------------------------------------------------------
(* What a call knows after each of its statements.                         *)

\* What stays as it is, and the locks, which are kept.
LEMMA ProceedsKeeps ==
  ASSUME NEW s \in Clients, NEW st, NEW rest, Proceeds(s, st, rest)
  PROVE  /\ work'[s].rest = rest /\ UNCHANGED <<db, batch, outcome>>
         /\ work[s].holds \subseteq work'[s].holds
         /\ Needs(Call(s), st, work[s].seen) \subseteq work'[s].holds
         /\ Call(s)' = Call(s) /\ SetUpDone' = SetUpDone
         /\ Registered' = Registered /\ Owners' = Owners
BY DEF Proceeds, Has, Call, SetUpDone, Clients, Registered, Owners

\* The count of owners is taken under the lock of the settings row, and whoever
\* was set up before made an owner; the address is free under its key lock; the
\* default teams are there under their key-share locks.
LEMMA CreateExecutes ==
  ASSUME Granted, NEW s \in Clients, CreateKnows(s), work[s].rest # <<>>, Call(s).op = "create",
         NEW st, NEW rest, st = Head(work[s].rest), rest = Tail(work[s].rest), Proceeds(s, st, rest)
  PROVE  CreateKnows(s)'
<1> DEFINE c == Call(s)
           held == work'[s].holds
<1>1. /\ work'[s].rest = rest /\ UNCHANGED <<db, batch, outcome>>
      /\ work[s].holds \subseteq held /\ Needs(c, st, work[s].seen) \subseteq held
      /\ c' = c /\ SetUpDone' = SetUpDone /\ Registered' = Registered
  BY ProceedsKeeps
<1>2. CASE work[s].rest =
             <<"lock_settings", "no_owner", "insert_user", "read_defaults", "join_defaults">>
  <2>1. Needs(c, "lock_settings", work[s].seen) = {Row("service_settings", "only", "U")}
    BY DEF Needs
  <2> QED
    BY <1>1, <1>2, <2>1 DEF CreateKnows, CreateRests, Left, Has
<1>3. CASE work[s].rest = <<"no_owner", "insert_user", "read_defaults", "join_defaults">>
  <2>1. Owners = {}
    BY <1>3, RefusalOf DEF Proceeds
  <2> QED
    BY <1>1, <1>3, <2>1 DEF CreateKnows, CreateRests, Left, Has, Granted
<1>4. CASE work[s].rest = <<"insert_user", "read_defaults", "join_defaults">>
  <2>1. c.user \notin Registered
    BY <1>4, RefusalOf DEF Proceeds
  <2>2. Needs(c, "insert_user", work[s].seen) = {Table("users", "RE"), Row("users", c.user, "U")}
    BY DEF Needs
  <2> QED
    BY <1>1, <1>4, <2>1, <2>2 DEF CreateKnows, CreateRests, Left, Has
<1>5. CASE work[s].rest = <<"read_defaults", "join_defaults">>
  BY <1>1, <1>5 DEF CreateKnows, CreateRests, Left, Has
<1>6. CASE work[s].rest = <<"join_defaults">>
  <2>1. Needs(c, "join_defaults", work[s].seen) =
          {Table("members", "RE")} \cup {Row("teams", t, "KS") : t \in work[s].seen}
    BY DEF Needs
  <2>2. work'[s].seen = work[s].seen /\ work[s].seen \subseteq db.teams
    BY <1>6, ReturnedOf, RefusalOf DEF Proceeds
  <2> QED
    BY <1>1, <1>6, <2>1, <2>2 DEF CreateKnows, CreateRests, Left, Has
<1> QED
  BY <1>2, <1>3, <1>4, <1>5, <1>6 DEF CreateKnows, CreateRests

\* The owners are counted while nobody else can write accounts.
LEMMA SetRoleExecutes ==
  ASSUME NEW s \in Clients, SetRoleKnows(s), work[s].rest # <<>>, Call(s).op = "set_role",
         NEW st, NEW rest, st = Head(work[s].rest), rest = Tail(work[s].rest), Proceeds(s, st, rest)
  PROVE  SetRoleKnows(s)'
<1> DEFINE c == Call(s)
           held == work'[s].holds
<1>1. /\ work'[s].rest = rest /\ UNCHANGED <<db, batch, outcome>>
      /\ work[s].holds \subseteq held /\ Needs(c, st, work[s].seen) \subseteq held
      /\ c' = c /\ Registered' = Registered /\ Owners' = Owners
  BY ProceedsKeeps
<1>2. CASE work[s].rest = <<"lock_users", "lock_members", "last_owner", "update_user">>
  <2>1. Needs(c, "lock_users", work[s].seen) = {Table("users", "SRE")}
    BY DEF Needs
  <2> QED
    BY <1>1, <1>2, <2>1 DEF SetRoleKnows, SetRoleRests, Left, Has
<1>3. CASE work[s].rest = <<"lock_members", "last_owner", "update_user">>
  BY <1>1, <1>3 DEF SetRoleKnows, SetRoleRests, Left, Has
<1>4. CASE work[s].rest = <<"last_owner", "update_user">>
  <2>1. c.role = "owner" \/ Owners # {c.user}
    BY <1>4, RefusalOf DEF Proceeds
  <2> QED
    BY <1>1, <1>4, <2>1 DEF SetRoleKnows, SetRoleRests, Left, Has
<1>5. CASE work[s].rest = <<"update_user">>
  <2>1. Needs(c, "update_user", work[s].seen) = {Table("users", "RE"), Row("users", c.user, "NKU")}
    BY DEF Needs
  <2>2. c.user \in Registered
    BY <1>5, RefusalOf DEF Proceeds
  <2> QED
    BY <1>1, <1>5, <2>1, <2>2 DEF SetRoleKnows, SetRoleRests, Left, Has
<1> QED
  BY <1>2, <1>3, <1>4, <1>5 DEF SetRoleKnows, SetRoleRests

\* Owners and administrators are counted while nobody else can write accounts
\* or memberships.
LEMMA DeleteUserExecutes ==
  ASSUME NEW s \in Clients, DeleteUserKnows(s), work[s].rest # <<>>, Call(s).op = "delete_user",
         NEW st, NEW rest, st = Head(work[s].rest), rest = Tail(work[s].rest), Proceeds(s, st, rest)
  PROVE  DeleteUserKnows(s)'
<1> DEFINE c == Call(s)
           held == work'[s].holds
<1>1. /\ work'[s].rest = rest /\ UNCHANGED <<db, batch, outcome>>
      /\ work[s].holds \subseteq held /\ Needs(c, st, work[s].seen) \subseteq held
      /\ c' = c /\ Owners' = Owners
  BY ProceedsKeeps
<1>2. CASE work[s].rest =
             <<"lock_users", "lock_members", "last_owner", "last_admin", "delete_user", "cascade_user">>
  <2>1. Needs(c, "lock_users", work[s].seen) = {Table("users", "SRE")}
    BY DEF Needs
  <2> QED
    BY <1>1, <1>2, <2>1 DEF DeleteUserKnows, DeleteUserRests, Left, Has
<1>3. CASE work[s].rest =
             <<"lock_members", "last_owner", "last_admin", "delete_user", "cascade_user">>
  <2>1. Needs(c, "lock_members", work[s].seen) = {Table("members", "SRE")}
    BY DEF Needs
  <2> QED
    BY <1>1, <1>3, <2>1 DEF DeleteUserKnows, DeleteUserRests, Left, Has
<1>4. CASE work[s].rest = <<"last_owner", "last_admin", "delete_user", "cascade_user">>
  <2>1. Owners # {c.user}
    BY <1>4, RefusalOf DEF Proceeds
  <2> QED
    BY <1>1, <1>4, <2>1 DEF DeleteUserKnows, DeleteUserRests, Left, Has
<1>5. CASE work[s].rest = <<"last_admin", "delete_user", "cascade_user">>
  <2>1. \A t \in Teams : AdminsOf(t)' # {c.user}
    BY <1>1, <1>5, RefusalOf DEF Proceeds, AdminsOf
  <2> QED
    BY <1>1, <1>5, <2>1 DEF DeleteUserKnows, DeleteUserRests, Left, Has
<1>6. \A t : AdminsOf(t)' = AdminsOf(t)
  BY <1>1 DEF AdminsOf
<1>7. CASE work[s].rest = <<"delete_user", "cascade_user">>
  <2>1. Needs(c, "delete_user", work[s].seen) = {Table("users", "RE"), Row("users", c.user, "U")}
    BY DEF Needs
  <2> QED
    BY <1>1, <1>6, <1>7, <2>1 DEF DeleteUserKnows, DeleteUserRests, Left, Has
<1>8. CASE work[s].rest = <<"cascade_user">>
  BY <1>1, <1>6, <1>8 DEF DeleteUserKnows, DeleteUserRests, Left, Has
<1> QED
  BY <1>2, <1>3, <1>4, <1>5, <1>7, <1>8 DEF DeleteUserKnows, DeleteUserRests

\* The role is read under the lock of the row.
LEMMA ConvertExecutes ==
  ASSUME NEW s \in Clients, ConvertKnows(s), work[s].rest # <<>>, Call(s).op = "convert",
         NEW st, NEW rest, st = Head(work[s].rest), rest = Tail(work[s].rest), Proceeds(s, st, rest)
  PROVE  ConvertKnows(s)'
<1> DEFINE c == Call(s)
           held == work'[s].holds
<1>1. /\ work'[s].rest = rest /\ UNCHANGED <<db, batch, outcome>>
      /\ work[s].holds \subseteq held /\ Needs(c, st, work[s].seen) \subseteq held
      /\ c' = c /\ Owners' = Owners /\ Registered' = Registered
  BY ProceedsKeeps
<1>2. CASE work[s].rest = <<"lock_user", "convertible", "update_user">>
  <2>1. Needs(c, "lock_user", work[s].seen) = {Row("users", c.user, "U")}
    BY DEF Needs
  <2> QED
    BY <1>1, <1>2, <2>1 DEF ConvertKnows, ConvertRests, Left, Has
<1>3. CASE work[s].rest = <<"convertible", "update_user">>
  <2>1. c.user \in Registered /\ c.user \notin Owners
    BY <1>3, RefusalOf DEF Proceeds
  <2> QED
    BY <1>1, <1>3, <2>1 DEF ConvertKnows, ConvertRests, Left, Has
<1>4. CASE work[s].rest = <<"update_user">>
  <2>1. Needs(c, "update_user", work[s].seen) = {Table("users", "RE"), Row("users", c.user, "NKU")}
    BY DEF Needs
  <2> QED
    BY <1>1, <1>4, <2>1 DEF ConvertKnows, ConvertRests, Left, Has
<1> QED
  BY <1>2, <1>3, <1>4 DEF ConvertKnows, ConvertRests

\* A statement that writes a membership locks what it is going to refer to.
LEMMA WriteMemberAnchors ==
  ASSUME NEW s \in Clients, NEW rest, Proceeds(s, "write_member", rest),
         NEW t, t = TeamOf(Call(s), work[s].seen), NEW u, u = Call(s).user,
         db.members[t][u] # None \/ (t \in db.teams /\ u \in Registered)
  PROVE  /\ Anchored(s, t, u)' /\ Has(s, Table("members", "RE"))'
         /\ Has(s, Row("members", <<t, u>>, "U"))'
<1>1. /\ UNCHANGED db /\ Registered' = Registered
      /\ Needs(Call(s), "write_member", work[s].seen) \subseteq work'[s].holds
  BY ProceedsKeeps
<1>2. Needs(Call(s), "write_member", work[s].seen) =
        {Table("members", "RE"), Row("members", <<t, u>>, "U")}
        \cup IF db.members[t][u] # None THEN {} ELSE {Row("teams", t, "KS"), Row("users", u, "KS")}
  BY DEF Needs
<1> QED
  BY <1>1, <1>2 DEF Anchored, Has

\* The administrators are counted while nobody else can write memberships.
LEMMA ChangeMemberExecutes ==
  ASSUME NEW s \in Clients, ChangeMemberKnows(s), work[s].rest # <<>>,
         Call(s).op \in {"add_member", "set_member"},
         NEW st, NEW rest, st = Head(work[s].rest), rest = Tail(work[s].rest), Proceeds(s, st, rest)
  PROVE  ChangeMemberKnows(s)'
<1> DEFINE c == Call(s)
           held == work'[s].holds
<1>1. /\ work'[s].rest = rest /\ UNCHANGED <<db, batch, outcome>>
      /\ work[s].holds \subseteq held /\ Needs(c, st, work[s].seen) \subseteq held
      /\ c' = c
  BY ProceedsKeeps
<1>2. AdminsOf(c.team)' = AdminsOf(c.team)
  BY <1>1 DEF AdminsOf
<1>3. \/ /\ c.role = None
         /\ \/ work[s].rest = <<"lock_members", "other_admin", "drop_member">>
            \/ work[s].rest = <<"other_admin", "drop_member">>
            \/ work[s].rest = <<"drop_member">>
      \/ /\ c.role # None
         /\ \/ work[s].rest = <<"lock_members", "other_admin", "write_member">>
            \/ work[s].rest = <<"other_admin", "write_member">>
            \/ work[s].rest = <<"write_member">>
  BY DEF ChangeMemberKnows, ChangeMemberRests
<1>4. Needs(c, "lock_members", work[s].seen) = {Table("members", "SRE")}
  BY DEF Needs
<1>5. st = "other_admin" => c.role = "admin" \/ AdminsOf(c.team) # {c.user}
  BY RefusalOf DEF Proceeds
<1>6. CASE c.role = None /\ work[s].rest = <<"lock_members", "other_admin", "drop_member">>
  BY <1>1, <1>4, <1>6 DEF ChangeMemberKnows, ChangeMemberRests, Left, Has
<1>7. CASE c.role = None /\ work[s].rest = <<"other_admin", "drop_member">>
  BY <1>1, <1>2, <1>5, <1>7 DEF ChangeMemberKnows, ChangeMemberRests, Left, Has
<1>8. CASE c.role = None /\ work[s].rest = <<"drop_member">>
  BY <1>1, <1>2, <1>8 DEF ChangeMemberKnows, ChangeMemberRests, Left, Has
<1>9. CASE c.role # None /\ work[s].rest = <<"lock_members", "other_admin", "write_member">>
  BY <1>1, <1>4, <1>9 DEF ChangeMemberKnows, ChangeMemberRests, Left, Has
<1>10. CASE c.role # None /\ work[s].rest = <<"other_admin", "write_member">>
  BY <1>1, <1>2, <1>5, <1>10 DEF ChangeMemberKnows, ChangeMemberRests, Left, Has
<1>11. CASE c.role # None /\ work[s].rest = <<"write_member">>
  <2> PICK t : t = c.team
    OBVIOUS
  <2> PICK u : u = c.user
    OBVIOUS
  <2>1. TeamOf(c, work[s].seen) = t
    BY DEF TeamOf
  <2>2. st = "write_member" /\ rest = <<>> /\ Has(s, Table("members", "SRE"))
    BY <1>11 DEF ChangeMemberKnows, ChangeMemberRests, Left
  <2>3. db.members[t][u] # None \/ (t \in db.teams /\ u \in Registered)
    BY <2>1, <2>2, RefusalOf DEF Proceeds
  <2>4. Anchored(s, t, u)'
    BY <2>1, <2>2, <2>3, WriteMemberAnchors
  <2>5. c.role = "admin" \/ AdminsOf(c.team) # {c.user}
    BY <1>11 DEF ChangeMemberKnows, ChangeMemberRests, Left
  <2> QED
    BY <1>1, <1>2, <1>11, <2>2, <2>4, <2>5 DEF ChangeMemberKnows, ChangeMemberRests, Left, Has, Anchored
<1> QED
  BY <1>3, <1>6, <1>7, <1>8, <1>9, <1>10, <1>11

\* The invite is looked at under the lock of its row, which it keeps.
LEMMA AcceptExecutes ==
  ASSUME NEW s \in Clients, AcceptKnows(s), work[s].rest # <<>>, Call(s).op = "accept",
         NEW st, NEW rest, st = Head(work[s].rest), rest = Tail(work[s].rest), Proceeds(s, st, rest)
  PROVE  AcceptKnows(s)'
<1> DEFINE c == Call(s)
           held == work'[s].holds
<1>1. /\ work'[s].rest = rest /\ UNCHANGED <<db, batch, outcome>>
      /\ work[s].holds \subseteq held /\ Needs(c, st, work[s].seen) \subseteq held
      /\ c' = c /\ Registered' = Registered
  BY ProceedsKeeps
<1>2. Closed(c.token)' = Closed(c.token)
  BY <1>1 DEF Closed
<1>3. CASE work[s].rest = <<"mark_invite", "still_open", "read_user", "write_member">>
  <2>1. Needs(c, "mark_invite", work[s].seen) = {Table("invites", "RE"), Row("invites", c.token, "NKU")}
    BY DEF Needs
  <2> QED
    BY <1>1, <1>3, <2>1 DEF AcceptKnows, AcceptRests, Left, Has
<1>4. CASE work[s].rest = <<"still_open", "read_user", "write_member">>
  <2>1. ~Closed(c.token) /\ work'[s].seen = {db.invites[c.token].team}
    BY <1>4, RefusalOf, ReturnedOf DEF Proceeds
  <2> QED
    BY <1>1, <1>2, <1>4, <2>1 DEF AcceptKnows, AcceptRests, Left, Has
<1>5. CASE work[s].rest = <<"read_user", "write_member">>
  <2>1. work'[s].seen = work[s].seen
    BY <1>5, ReturnedOf DEF Proceeds
  <2> QED
    BY <1>1, <1>2, <1>5, <2>1 DEF AcceptKnows, AcceptRests, Left, Has
<1>6. CASE work[s].rest = <<"write_member">>
  <2> PICK t : t = db.invites[c.token].team
    OBVIOUS
  <2> PICK u : u = c.user
    OBVIOUS
  <2>1. work[s].seen = {t} /\ ~Closed(c.token) /\ Has(s, Row("invites", c.token, "NKU"))
    BY <1>6 DEF AcceptKnows, AcceptRests, Left
  <2>2. TeamOf(c, work[s].seen) = t
    BY <2>1 DEF TeamOf
  <2>3. st = "write_member" /\ rest = <<>>
    BY <1>6
  <2>4. t \in db.teams /\ u \in Registered
    BY <2>2, <2>3, RefusalOf DEF Proceeds
  <2>5. /\ Anchored(s, t, u)' /\ Has(s, Table("members", "RE"))'
        /\ Has(s, Row("members", <<t, u>>, "U"))'
    BY <2>2, <2>3, <2>4, WriteMemberAnchors
  <2>6. work'[s].seen = work[s].seen
    BY <2>3, ReturnedOf DEF Proceeds
  <2> QED
    BY <1>1, <1>2, <2>1, <2>3, <2>5, <2>6 DEF AcceptKnows, AcceptRests, Left, Has, Anchored
<1> QED
  BY <1>3, <1>4, <1>5, <1>6 DEF AcceptKnows, AcceptRests

\* Projects are counted and moved while nobody else can write teams or projects.
LEMMA DeleteTeamExecutes ==
  ASSUME NEW s \in Clients, DeleteTeamKnows(s), work[s].rest # <<>>, Call(s).op = "delete_team",
         NEW st, NEW rest, st = Head(work[s].rest), rest = Tail(work[s].rest), Proceeds(s, st, rest)
  PROVE  DeleteTeamKnows(s)'
<1> DEFINE c == Call(s)
           held == work'[s].holds
<1>1. /\ work'[s].rest = rest /\ UNCHANGED <<db, batch, outcome>>
      /\ work[s].holds \subseteq held /\ Needs(c, st, work[s].seen) \subseteq held
      /\ c' = c
  BY ProceedsKeeps
<1>2. ProjectsOf(c.team)' = ProjectsOf(c.team) /\ InvitesOf(c.team)' = InvitesOf(c.team)
  BY <1>1 DEF ProjectsOf, InvitesOf
<1>3. CASE work[s].rest =
         <<"lock_teams", "lock_projects", "target", "move", "no_projects", "delete_team", "cascade_team">>
  <2>1. Needs(c, "lock_teams", work[s].seen) = {Table("teams", "SRE")}
    BY DEF Needs
  <2> QED
    BY <1>1, <1>3, <2>1 DEF DeleteTeamKnows, DeleteTeamRests, Left, Has
<1>4. CASE work[s].rest =
         <<"lock_projects", "target", "move", "no_projects", "delete_team", "cascade_team">>
  <2>1. Needs(c, "lock_projects", work[s].seen) = {Table("projects", "SRE")}
    BY DEF Needs
  <2> QED
    BY <1>1, <1>4, <2>1 DEF DeleteTeamKnows, DeleteTeamRests, Left, Has
<1>5. CASE work[s].rest = <<"target", "move", "no_projects", "delete_team", "cascade_team">>
  <2>1. c.to = None \/ c.to \in db.teams
    BY <1>5, RefusalOf DEF Proceeds
  <2> QED
    BY <1>1, <1>5, <2>1 DEF DeleteTeamKnows, DeleteTeamRests, Left, Has
<1>6. CASE work[s].rest = <<"move", "no_projects", "delete_team", "cascade_team">>
  BY <1>1, <1>6 DEF DeleteTeamKnows, DeleteTeamRests, Left, Has
<1>7. CASE work[s].rest = <<"no_projects", "delete_team", "cascade_team">>
  <2>1. ProjectsOf(c.team) \subseteq work[s].seen /\ work'[s].seen = work[s].seen
    BY <1>7, RefusalOf, ReturnedOf DEF Proceeds
  <2> QED
    BY <1>1, <1>2, <1>7, <2>1 DEF DeleteTeamKnows, DeleteTeamRests, Left, Has
<1>8. CASE work[s].rest = <<"delete_team", "cascade_team">>
  <2>1. Needs(c, "delete_team", work[s].seen) = {Table("teams", "RE"), Row("teams", c.team, "U")}
    BY DEF Needs
  <2>2. work'[s].seen = work[s].seen
    BY <1>8, ReturnedOf DEF Proceeds
  <2> QED
    BY <1>1, <1>2, <1>8, <2>1, <2>2 DEF DeleteTeamKnows, DeleteTeamRests, Left, Has
<1>9. CASE work[s].rest = <<"cascade_team">>
  <2>1. Needs(c, "cascade_team", work[s].seen) =
          {Table("members", "RE"), Table("invites", "RE")}
          \cup {Row("members", <<c.team, u>>, "U") : u \in Users}
          \cup {Row("invites", k, "U") : k \in InvitesOf(c.team)}
    BY DEF Needs
  <2>2. work'[s].seen = work[s].seen
    BY <1>9, ReturnedOf DEF Proceeds
  <2> QED
    BY <1>1, <1>2, <1>9, <2>1, <2>2 DEF DeleteTeamKnows, DeleteTeamRests, Left, Has
<1> QED
  BY <1>3, <1>4, <1>5, <1>6, <1>7, <1>8, <1>9 DEF DeleteTeamKnows, DeleteTeamRests

\* A project is written with the row of its team locked.
LEMMA ProjectExecutes ==
  ASSUME NEW s \in Clients, ProjectKnows(s), work[s].rest # <<>>, Call(s).op = "project",
         NEW st, NEW rest, st = Head(work[s].rest), rest = Tail(work[s].rest), Proceeds(s, st, rest)
  PROVE  ProjectKnows(s)'
<1> DEFINE c == Call(s)
<1>1. /\ work'[s].rest = rest /\ UNCHANGED <<db, batch, outcome>>
      /\ Needs(c, st, work[s].seen) \subseteq work'[s].holds /\ c' = c
  BY ProceedsKeeps
<1>2. work[s].rest = <<"write_project">>
  BY DEF ProjectKnows, ProjectRests
<1>3. c.team \in db.teams
  BY <1>2, RefusalOf DEF Proceeds
<1>4. Needs(c, "write_project", work[s].seen) =
        {Table("projects", "RE"), Row("projects", c.project, "NKU"), Row("teams", c.team, "KS")}
  BY DEF Needs
<1> QED
  BY <1>1, <1>2, <1>3, <1>4 DEF ProjectKnows, ProjectRests, Left, Has

-----------------------------------------------------------------------------
(* What a call knows survives the commits of the others.                   *)

\* What a step of another client leaves as it is for client v, by the locks that
\* v holds.
TablesKept(v) ==
  /\ Has(v, Table("users", "SRE")) => db'.users = db.users
  /\ Has(v, Table("members", "SRE")) => db'.members = db.members
  /\ Has(v, Table("teams", "SRE")) => db'.teams = db.teams
  /\ Has(v, Table("projects", "SRE")) => db'.projects = db.projects
  /\ \A u \in Users : Has(v, Row("users", u, "U")) => db'.users[u] = db.users[u]
  /\ \A u \in Users : Has(v, Row("users", u, "KS")) /\ db.users[u] # NoUser => db'.users[u] # NoUser
  /\ \A t \in Teams : Has(v, Row("teams", t, "KS")) /\ t \in db.teams => t \in db'.teams
  /\ \A t \in Teams, u \in Users :
       /\ Has(v, Table("members", "RE")) /\ Has(v, Row("members", <<t, u>>, "U"))
       /\ db.members[t][u] # None
       => db'.members[t][u] # None
  /\ \A k \in Tokens : Has(v, Row("invites", k, "NKU")) =>
       /\ db'.invites[k].team = db.invites[k].team
       /\ db.invites[k] # NoInvite => db'.invites[k] # NoInvite
       /\ db'.invites[k].accepted = db.invites[k].accepted
  /\ \A t \in Teams, k \in Tokens : db'.invites[k].team = t => db.invites[k].team = t

Undisturbed(v) ==
  /\ TablesKept(v)
  /\ Has(v, Row("service_settings", "only", "U")) /\ SetUpDone' => SetUpDone

\* The calls are those of the repositories.
LEMMA CallTypes ==
  ASSUME batch \in Batches, NEW s \in Clients
  PROVE  /\ Call(s) \in AccountCalls
         /\ Call(s).op \in {"create", "set_role", "delete_user", "convert", "add_member",
                            "set_member", "accept", "delete_team", "project"}
         /\ Call(s).op \in {"create", "set_role", "delete_user", "convert", "add_member",
                            "set_member", "accept"} => Call(s).user \in Users
         /\ Call(s).op \in {"add_member", "set_member", "delete_team", "project"} =>
              Call(s).team \in Teams
         /\ Call(s).op = "accept" => Call(s).token \in Tokens
         /\ Call(s).op = "create" => Call(s).initial \in BOOLEAN
         /\ Call(s).op = "set_role" => Call(s).role \in {"owner", "member"}
         /\ Call(s).op = "add_member" => Call(s).role \in {"contributor", "admin"}
         /\ Call(s).op = "set_member" => Call(s).role \in {"contributor", "admin", None}
         /\ Call(s).op = "delete_team" => Call(s).to \in Teams \cup {None} /\ Call(s).to # Call(s).team
         /\ Call(s).op = "project" => Call(s).project \in Projects
<1>1. batch.about = "accounts" /\ s \in DOMAIN batch.calls
  BY DEF Clients
<1>2. Call(s) \in AccountCalls
  BY <1>1, BatchesAssumption DEF Call
<1> DEFINE c == Call(s)
<1> HIDE DEF c
<1>3. c \in AccountCalls
  BY <1>2 DEF c
<1>4. /\ c.op \in {"create", "set_role", "delete_user", "convert", "add_member",
                   "set_member", "accept", "delete_team", "project"}
      /\ c.op \in {"create", "set_role", "delete_user", "convert", "add_member",
                   "set_member", "accept"} => c.user \in Users
      /\ c.op \in {"add_member", "set_member", "delete_team", "project"} => c.team \in Teams
      /\ c.op = "accept" => c.token \in Tokens
      /\ c.op = "create" => c.initial \in BOOLEAN
  BY <1>3 DEF AccountCalls
<1>5. /\ c.op = "set_role" => c.role \in {"owner", "member"}
      /\ c.op = "add_member" => c.role \in {"contributor", "admin"}
      /\ c.op = "set_member" => c.role \in {"contributor", "admin", None}
      /\ c.op = "delete_team" => c.to \in Teams \cup {None} /\ c.to # c.team
      /\ c.op = "project" => c.project \in Projects
  BY <1>3 DEF AccountCalls
<1> QED
  BY <1>3, <1>4, <1>5 DEF c

\* What v knows it goes on knowing, as long as it keeps its locks and is not
\* disturbed.
LEMMA KeepsKnowing ==
  ASSUME batch \in Batches, db \in Tables, NEW v \in Clients, Knows(v), Undisturbed(v),
         UNCHANGED batch, work'[v] = work[v]
  PROVE  Knows(v)'
<1> DEFINE c == Call(v)
<1>1. /\ c' = c /\ Left(v)' = Left(v) /\ work'[v].seen = work[v].seen /\ work'[v].rest = work[v].rest
      /\ work'[v].holds = work[v].holds
  BY DEF Call, Left
<1>2. /\ db'.users = db.users => Owners' = Owners /\ Registered' = Registered
      /\ \A u \in Users : db'.users[u] = db.users[u] =>
           /\ u \in Registered' <=> u \in Registered
           /\ u \in Owners' <=> u \in Owners
      /\ \A u \in Users : u \in Registered <=> db.users[u] # NoUser
      /\ \A u \in Users : u \in Registered' <=> db'.users[u] # NoUser
      /\ Registered \subseteq Users /\ db.teams \subseteq Teams
  BY DEF Owners, Registered, Tables
<1>3. /\ db'.members = db.members => \A t : AdminsOf(t)' = AdminsOf(t)
      /\ db'.projects = db.projects => \A t : ProjectsOf(t)' = ProjectsOf(t)
      /\ \A t \in Teams : InvitesOf(t)' \subseteq InvitesOf(t)
  BY DEF AdminsOf, ProjectsOf, InvitesOf, Undisturbed, TablesKept
<1>4. CASE c.op = "create"
  <2>1. CreateKnows(v) /\ c.user \in Users
    BY <1>4, CallTypes DEF Knows
  <2>2. Left(v) <= 2 => c.user \notin Registered'
    BY <1>2, <2>1 DEF CreateKnows, Undisturbed, TablesKept
  <2>3. Has(v, Row("service_settings", "only", "U")) => (SetUpDone' => SetUpDone)
    BY DEF Undisturbed, TablesKept
  <2>4. Left(v) = 0 => \A t \in work[v].seen : t \in db'.teams /\ Has(v, Row("teams", t, "KS"))
    <3> SUFFICES ASSUME Left(v) = 0, NEW t \in work[v].seen
                 PROVE  t \in db'.teams /\ Has(v, Row("teams", t, "KS"))
      OBVIOUS
    <3>1. t \in db.teams /\ Has(v, Row("teams", t, "KS"))
      BY <2>1 DEF CreateKnows
    <3> QED
      BY <1>2, <3>1 DEF Undisturbed, TablesKept
  <2>5. CreateKnows(v)'
    <3>1. Left(v) <= 3 => Left(v) <= 4
      BY <2>1 DEF CreateKnows, CreateRests, Left
    <3> QED
      BY <1>1, <2>1, <2>2, <2>3, <2>4, <3>1 DEF CreateKnows, Has
  <2> QED
    BY <1>1, <1>4, <2>5 DEF Knows
<1>5. CASE c.op = "set_role"
  <2>1. SetRoleKnows(v) /\ c.user \in Users
    BY <1>5, CallTypes DEF Knows
  <2>2. Left(v) <= 3 => db'.users = db.users
    BY <2>1 DEF SetRoleKnows, Undisturbed, TablesKept
  <2>3. SetRoleKnows(v)'
    BY <1>1, <1>2, <2>1, <2>2 DEF SetRoleKnows, SetRoleRests, Left, Has
  <2> QED
    BY <1>1, <1>5, <2>3 DEF Knows
<1>6. CASE c.op = "delete_user"
  <2>1. DeleteUserKnows(v) /\ c.user \in Users
    BY <1>6, CallTypes DEF Knows
  <2>2. /\ Left(v) <= 5 => db'.users = db.users
        /\ Left(v) <= 4 => db'.members = db.members
    BY <2>1 DEF DeleteUserKnows, Undisturbed, TablesKept
  <2>3. DeleteUserKnows(v)'
    BY <1>1, <1>2, <1>3, <2>1, <2>2 DEF DeleteUserKnows, DeleteUserRests, Left, Has
  <2> QED
    BY <1>1, <1>6, <2>3 DEF Knows
<1>7. CASE c.op = "convert"
  <2>1. ConvertKnows(v) /\ c.user \in Users
    BY <1>7, CallTypes DEF Knows
  <2>2. Left(v) <= 2 => db'.users[c.user] = db.users[c.user]
    BY <2>1 DEF ConvertKnows, Undisturbed, TablesKept
  <2>3. ConvertKnows(v)'
    BY <1>1, <1>2, <2>1, <2>2 DEF ConvertKnows, ConvertRests, Left, Has
  <2> QED
    BY <1>1, <1>7, <2>3 DEF Knows
<1>8. CASE c.op \in {"add_member", "set_member"}
  <2>1. ChangeMemberKnows(v) /\ c.user \in Users /\ c.team \in Teams
    BY <1>8, CallTypes DEF Knows
  <2>2. Left(v) <= 2 => db'.members = db.members
    BY <2>1 DEF ChangeMemberKnows, Undisturbed, TablesKept
  <2>3. Left(v) = 0 => Left(v) <= 2
    OBVIOUS
  <2>4. Left(v) = 0 /\ c.role # None => Anchored(v, c.team, c.user)'
    BY <1>1, <1>2, <2>1, <2>2, <2>3 DEF ChangeMemberKnows, Anchored, Undisturbed, TablesKept, Has
  <2>5. ChangeMemberRests(c)' = ChangeMemberRests(c)
    BY <1>1 DEF ChangeMemberRests
  <2>6. Left(v) <= 1 => c.role = "admin" \/ AdminsOf(c.team)' # {c.user}
    <3>1. Left(v) <= 1 => Left(v) <= 2
      BY <2>1 DEF ChangeMemberKnows, ChangeMemberRests, Left
    <3>2. Left(v) <= 1 => db'.members = db.members /\ (c.role = "admin" \/ AdminsOf(c.team) # {c.user})
      BY <2>1, <2>2, <3>1 DEF ChangeMemberKnows
    <3> QED
      BY <1>1, <3>2 DEF AdminsOf
  <2>7. ChangeMemberKnows(v)'
    BY <1>1, <2>1, <2>4, <2>5, <2>6 DEF ChangeMemberKnows, Has
  <2> QED
    BY <1>1, <1>8, <2>7 DEF Knows
<1>9. CASE c.op = "accept"
  <2> DEFINE t == db.invites[c.token].team
  <2>1. AcceptKnows(v) /\ c.user \in Users /\ c.token \in Tokens
    BY <1>9, CallTypes DEF Knows
  <2>2. Left(v) <= 3 => /\ db'.invites[c.token].team = t
                        /\ ~Closed(c.token) => ~Closed(c.token)'
    BY <1>1, <2>1 DEF AcceptKnows, Undisturbed, TablesKept, Closed
  <2>3. Left(v) <= 2 => ~Closed(c.token) /\ t \in Teams
    BY <2>1, BatchesAssumption DEF AcceptKnows, Closed, Tables, Invite, NoInvite
  <2>4. Left(v) = 0 => Anchored(v, t, c.user)'
    BY <1>1, <1>2, <2>1, <2>3 DEF AcceptKnows, AcceptRests, Left, Anchored, Undisturbed, TablesKept, Has
  <2>5. AcceptKnows(v)'
    BY <1>1, <2>1, <2>2, <2>3, <2>4 DEF AcceptKnows, AcceptRests, Left, Has
  <2> QED
    BY <1>1, <1>9, <2>5 DEF Knows
<1>10. CASE c.op = "delete_team"
  <2>1. DeleteTeamKnows(v) /\ c.team \in Teams
    BY <1>10, CallTypes DEF Knows
  <2>2. /\ Left(v) <= 6 => db'.teams = db.teams
        /\ Left(v) <= 5 => db'.projects = db.projects
    BY <2>1 DEF DeleteTeamKnows, Undisturbed, TablesKept
  <2>3. InvitesOf(c.team)' \subseteq InvitesOf(c.team)
    BY <1>1, <1>3, <2>1
  <2>4. Left(v) <= 5 => ProjectsOf(c.team)' = ProjectsOf(c.team)
    BY <1>1, <1>3, <2>2
  <2>5. DeleteTeamKnows(v)'
    BY <1>1, <2>1, <2>2, <2>3, <2>4 DEF DeleteTeamKnows, DeleteTeamRests, Left, Has
  <2> QED
    BY <1>1, <1>10, <2>5 DEF Knows
<1>11. CASE c.op = "project"
  <2>1. ProjectKnows(v) /\ c.team \in Teams
    BY <1>11, CallTypes DEF Knows
  <2>2. ProjectKnows(v)'
    BY <1>1, <2>1 DEF ProjectKnows, Undisturbed, TablesKept, Has
  <2> QED
    BY <1>1, <1>11, <2>2 DEF Knows
<1> QED
  BY <1>4, <1>5, <1>6, <1>7, <1>8, <1>9, <1>10, <1>11, CallTypes

-----------------------------------------------------------------------------
(* Statements and deadlocks preserve the invariant.                        *)

\* A call that has just been started, or started again, knows nothing yet.
NothingToKnow ==
  \A s \in Clients : batch \in Batches /\ work[s].rest = Program(Call(s)) => Knows(s)

LEMMA FreshKnows == NothingToKnow
<1> SUFFICES ASSUME NEW s \in Clients, batch \in Batches, work[s].rest = Program(Call(s))
             PROVE  Knows(s)
  BY DEF NothingToKnow
<1> DEFINE c == Call(s)
<1>1. CASE c.op = "create"
  BY <1>1 DEF Program, create_account, Knows, CreateKnows, CreateRests, Left
<1>2. CASE c.op = "set_role"
  BY <1>2 DEF Program, set_instance_role, Knows, SetRoleKnows, SetRoleRests, Left
<1>3. CASE c.op = "delete_user"
  BY <1>3 DEF Program, delete_user, Knows, DeleteUserKnows, DeleteUserRests, Left
<1>4. CASE c.op = "convert"
  BY <1>4 DEF Program, convert_to_sso, Knows, ConvertKnows, ConvertRests, Left
<1>5. CASE c.op \in {"add_member", "set_member"}
  BY <1>5 DEF Program, change_member, Knows, ChangeMemberKnows, ChangeMemberRests, Left
<1>6. CASE c.op = "accept"
  BY <1>6 DEF Program, accept_invite, Knows, AcceptKnows, AcceptRests, Left
<1>7. CASE c.op = "delete_team"
  BY <1>7 DEF Program, delete_team, Knows, DeleteTeamKnows, DeleteTeamRests, Left
<1>8. CASE c.op = "project"
  BY <1>8 DEF Program, write_project, Knows, ProjectKnows, ProjectRests, Left
<1> QED
  BY <1>1, <1>2, <1>3, <1>4, <1>5, <1>6, <1>7, <1>8, CallTypes

\* A step that writes nothing leaves the other calls and the grants alone.
LEMMA NothingWritten ==
  ASSUME AccountsInv, NEW s \in Clients, UNCHANGED <<db, batch>>,
         \A v \in Clients \ {s} : work'[v] = work[v] /\ outcome'[v] = outcome[v],
         outcome'[s] = "done" => outcome[s] = "done"
  PROVE  /\ Granted' /\ batch' \in Batches /\ db' \in Tables /\ NoDangling(db') /\ Clients' = Clients
         /\ \A v \in Clients \ {s} : IsWork(work'[v]) /\ (outcome'[v] = None => Knows(v)')
<1>1. Clients' = Clients /\ \A v : Call(v)' = Call(v)
  BY DEF Clients, Call
<1>2. \A v \in Clients : outcome'[v] = "done" => outcome[v] = "done"
  OBVIOUS
<1>3. SetUpDone' => SetUpDone
  BY <1>1, <1>2 DEF SetUpDone
<1>4. Granted'
  <2>1. Owners' = Owners /\ \A k : Closed(k)' = Closed(k)
    BY DEF Owners, Registered, Closed
  <2> QED
    BY <1>1, <1>2, <1>3, <2>1 DEF AccountsInv, Granted
<1>5. ASSUME NEW v \in Clients \ {s}, outcome'[v] = None
      PROVE  Knows(v)'
  <2>1. Undisturbed(v)
    BY <1>3 DEF Undisturbed, TablesKept
  <2> QED
    BY <1>5, <2>1, KeepsKnowing DEF AccountsInv
<1> QED
  BY <1>1, <1>4, <1>5 DEF AccountsInv

\* The foreign key of projects.team_id never refuses the deletion of a team.
LEMMA NotRestricted ==
  ASSUME AccountsInv, NEW s \in Clients, Call(s).op = "delete_team", outcome[s] = None,
         work[s].rest # <<>>
  PROVE  Refusal(Call(s), Head(work[s].rest), work[s].seen) # "failed"
<1> DEFINE c == Call(s)
<1>1. DeleteTeamKnows(s)
  BY DEF AccountsInv, Knows
<1>2. CASE work[s].rest = <<"delete_team", "cascade_team">>
  <2>1. ProjectsOf(c.team) \subseteq work[s].seen /\ Head(work[s].rest) = "delete_team"
    BY <1>1, <1>2 DEF DeleteTeamKnows, Left
  <2> QED
    BY <2>1 DEF Refusal, None
<1>3. CASE work[s].rest # <<"delete_team", "cascade_team">>
  <2>1. Head(work[s].rest) \in {"lock_teams", "lock_projects", "target", "move", "no_projects", "cascade_team"}
    BY <1>1, <1>3 DEF DeleteTeamKnows, DeleteTeamRests
  <2> QED
    BY <2>1, RefusalAnswers
<1> QED
  BY <1>2, <1>3

\* A call that goes on knows what it needs for the rest.
LEMMA ProceedsKnows ==
  ASSUME AccountsInv, NEW s \in Clients, outcome[s] = None, work[s].rest # <<>>,
         NEW st, NEW rest, st = Head(work[s].rest), rest = Tail(work[s].rest), Proceeds(s, st, rest)
  PROVE  Knows(s)'
<1> DEFINE c == Call(s)
<1>1. Granted /\ Knows(s) /\ c' = c
  BY ProceedsKeeps DEF AccountsInv
<1>2. CASE c.op = "create"
  BY <1>1, <1>2, CreateExecutes DEF Knows
<1>3. CASE c.op = "set_role"
  BY <1>1, <1>3, SetRoleExecutes DEF Knows
<1>4. CASE c.op = "delete_user"
  BY <1>1, <1>4, DeleteUserExecutes DEF Knows
<1>5. CASE c.op = "convert"
  BY <1>1, <1>5, ConvertExecutes DEF Knows
<1>6. CASE c.op \in {"add_member", "set_member"}
  BY <1>1, <1>6, ChangeMemberExecutes DEF Knows
<1>7. CASE c.op = "accept"
  BY <1>1, <1>7, AcceptExecutes DEF Knows
<1>8. CASE c.op = "delete_team"
  BY <1>1, <1>8, DeleteTeamExecutes DEF Knows
<1>9. CASE c.op = "project"
  BY <1>1, <1>9, ProjectExecutes DEF Knows
<1> QED
  BY <1>2, <1>3, <1>4, <1>5, <1>6, <1>7, <1>8, <1>9, CallTypes DEF AccountsInv

\* A statement leaves the invariant.
LEMMA ExecuteStep ==
  ASSUME AccountsInv, NEW s \in Clients, Execute(s)
  PROVE  AccountsInv'
<1> DEFINE st == Head(work[s].rest)
           rest == Tail(work[s].rest)
           needs == Needs(Call(s), st, work[s].seen)
<1>1. /\ outcome[s] = None /\ work[s].rest # <<>> /\ UNCHANGED <<db, batch>>
      /\ DOMAIN work' = Clients /\ DOMAIN outcome' = Clients
      /\ \A v \in Clients \ {s} : work'[v] = work[v] /\ outcome'[v] = outcome[v]
      /\ \A v \in Clients \ {s} :
           \A a \in needs, b \in work[v].holds : a.on = b.on => Compatible(a.mode, b.mode)
      /\ \/ Proceeds(s, st, rest)
         \/ work'[s] = Over /\ outcome'[s] = Refusal(Call(s), st, work[s].seen) /\ outcome'[s] # None
  BY Executed
<1> HIDE DEF st, rest, needs
<1>2. outcome'[s] \in {None, "conflict", "failed", "missing", "forbidden", "used"}
  BY <1>1, RefusalAnswers DEF Proceeds
<1>3. outcome'[s] = "done" => outcome[s] = "done"
  BY <1>2 DEF None
<1>4. /\ Granted' /\ batch' \in Batches /\ db' \in Tables /\ NoDangling(db') /\ Clients' = Clients
      /\ \A v \in Clients \ {s} : IsWork(work'[v]) /\ (outcome'[v] = None => Knows(v)')
  BY <1>1, <1>3, NothingWritten
<1>5. IsWork(work'[s]) /\ (outcome'[s] = None => Knows(s)')
  <2>1. CASE Proceeds(s, st, rest)
    BY <1>1, <2>1, ProceedsKnows DEF Proceeds, st, rest
  <2>2. CASE work'[s] = Over /\ outcome'[s] # None
    BY <2>2 DEF Over, IsWork
  <2> QED
    BY <1>1, <2>1, <2>2
<1>6. Call(s).op = "delete_team" => outcome'[s] # "failed"
  <2>1. CASE Proceeds(s, st, rest)
    BY <1>1, <2>1 DEF Proceeds, None
  <2>2. CASE outcome'[s] = Refusal(Call(s), st, work[s].seen)
    BY <1>1, <2>2, NotRestricted DEF st
  <2> QED
    BY <1>1, <2>1, <2>2
<1>7. \A v \in Clients : Call(v)' = Call(v)
  BY <1>1 DEF Call
<1>8. \A v \in Clients : Call(v).op = "delete_team" => outcome'[v] # "failed"
  BY <1>1, <1>6 DEF AccountsInv
<1>9. work'[s].holds = {} \/ work'[s].holds = work[s].holds \cup needs
  <2>1. CASE Proceeds(s, st, rest)
    BY <2>1 DEF Proceeds, needs
  <2>2. CASE work'[s] = Over
    BY <2>2 DEF Over
  <2> QED
    BY <1>1, <2>1, <2>2
<1>10. Exclusive'
  <2> SUFFICES ASSUME NEW u \in Clients, NEW v \in Clients, u # v,
                      NEW a \in work'[u].holds, NEW b \in work'[v].holds, a.on = b.on
               PROVE  Compatible(a.mode, b.mode)
    BY <1>4 DEF Exclusive
  <2>1. \A m, n : Compatible(m, n) <=> Compatible(n, m)
    BY DEF Compatible
  <2>2. CASE u # s /\ v # s
    BY <1>1, <2>2 DEF AccountsInv, Exclusive
  <2>3. CASE u = s
    <3>1. b \in work[v].holds /\ a \in work[s].holds \cup needs
      BY <1>1, <1>9, <2>3
    <3> QED
      BY <1>1, <2>3, <3>1 DEF AccountsInv, Exclusive
  <2>4. CASE v = s
    <3>1. a \in work[u].holds /\ b \in work[s].holds \cup needs
      BY <1>1, <1>9, <2>4
    <3> QED
      BY <1>1, <2>1, <2>4, <3>1 DEF AccountsInv, Exclusive
  <2> QED
    BY <2>2, <2>3, <2>4
<1> QED
  BY <1>1, <1>4, <1>5, <1>7, <1>8, <1>10 DEF AccountsInv

\* A call that loses its locks and starts again, or gives up, leaves the
\* invariant.
LEMMA LocksDropped ==
  ASSUME AccountsInv, NEW s \in Clients, UNCHANGED <<db, batch>>,
         NEW w, IsWork(w), w.holds = {}, work' = [work EXCEPT ![s] = w],
         DOMAIN outcome' = Clients, \A v \in Clients \ {s} : outcome'[v] = outcome[v],
         NEW answered, outcome'[s] = answered, answered # "done",
         Call(s).op = "delete_team" => answered # "failed",
         answered = None => Knows(s)'
  PROVE  AccountsInv'
<1>1. /\ DOMAIN work' = Clients /\ DOMAIN outcome' = Clients
      /\ work'[s] = w /\ outcome'[s] = answered
      /\ \A v \in Clients \ {s} : work'[v] = work[v] /\ outcome'[v] = outcome[v]
  BY DEF AccountsInv
<1>2. /\ Granted' /\ batch' \in Batches /\ db' \in Tables /\ NoDangling(db') /\ Clients' = Clients
      /\ \A v \in Clients \ {s} : IsWork(work'[v]) /\ (outcome'[v] = None => Knows(v)')
  BY <1>1, NothingWritten
<1>3. \A v \in Clients : Call(v).op = "delete_team" => outcome'[v] # "failed"
  BY <1>1 DEF AccountsInv
<1>4. \A v \in Clients : Call(v)' = Call(v)
  BY DEF Call
<1>5. Exclusive'
  BY <1>1, <1>2 DEF AccountsInv, Exclusive
<1> QED
  BY <1>1, <1>2, <1>3, <1>4, <1>5 DEF AccountsInv

\* The victim of a deadlock starts again or gives up, without a trace.
LEMMA VictimStep ==
  ASSUME AccountsInv, NEW s \in Clients, Victim(s)
  PROVE  AccountsInv'
<1>1. outcome[s] = None /\ UNCHANGED <<db, batch>>
  <2>1. WaitsFor(s) # {}
    BY DEF Victim, InCycle
  <2>2. Needed(s) # {}
    BY <2>1 DEF WaitsFor, Holding
  <2> QED
    BY <2>2 DEF Needed, Victim
<1>2. CASE work[s].retries < MaxRetries /\ Call(s).op # "project"
  <2> DEFINE w == Fresh(s, work[s].retries + 1)
  <2>1. work' = [work EXCEPT ![s] = w] /\ UNCHANGED outcome
    BY <1>2 DEF Victim, Call
  <2>2. IsWork(w) /\ w.holds = {} /\ w.rest = Program(Call(s))
    BY DEF Fresh, IsWork, Call
  <2>3. Knows(s)'
    <3>1. NothingToKnow'
      BY FreshKnows, PTL
    <3>2. Clients' = Clients /\ Call(s)' = Call(s) /\ work'[s] = w
      BY <1>1, <2>1 DEF Clients, Call, AccountsInv
    <3> QED
      BY <1>1, <2>2, <3>1, <3>2 DEF AccountsInv, NothingToKnow
  <2>4. outcome'[s] = None /\ DOMAIN outcome' = Clients /\ \A v \in Clients \ {s} : outcome'[v] = outcome[v]
    BY <1>1, <2>1 DEF AccountsInv
  <2> HIDE DEF w
  <2> QED
    BY <1>1, <2>1, <2>2, <2>3, <2>4, LocksDropped DEF None
<1>3. CASE ~(work[s].retries < MaxRetries /\ Call(s).op # "project")
  <2> DEFINE answered == IF Call(s).op = "project" THEN "failed" ELSE "busy"
  <2>1. work' = [work EXCEPT ![s] = Over] /\ outcome' = [outcome EXCEPT ![s] = answered]
    BY <1>3 DEF Victim, Call, Answer
  <2>4. outcome'[s] = answered /\ DOMAIN outcome' = Clients /\ \A v \in Clients \ {s} : outcome'[v] = outcome[v]
    BY <2>1 DEF AccountsInv
  <2>2. IsWork(Over) /\ Over.holds = {}
    BY DEF Over, IsWork
  <2>3. answered # "done" /\ answered # None /\ (Call(s).op = "delete_team" => answered # "failed")
    BY DEF None
  <2> HIDE DEF answered
  <2> QED
    BY <1>1, <2>1, <2>2, <2>3, <2>4, LocksDropped
<1> QED
  BY <1>2, <1>3

-----------------------------------------------------------------------------
(* The commits.                                                            *)

\* The step that RolesGuarded allows.
RolesKept ==
  /\ Owners # {} => Owners' # {}
  /\ \A t \in db.teams \cap db'.teams : AdminsOf(t) # {} => AdminsOf(t)' # {}
  /\ \A u \in Owners : u \in Registered' => db'.users[u].provider = db.users[u].provider

\* The commit of s keeps the tables sound and what the others hold locks on.
Commits(s) ==
  /\ db' \in Tables /\ NoDangling(db') /\ RolesKept
  /\ \A k \in Tokens : Closed(k) => Closed(k)'
  /\ \A v \in Clients \ {s} : TablesKept(v)

\* A role is changed under the lock of the table.
LEMMA SetRoleCommits ==
  ASSUME AccountsInv, NEW s \in Clients, Call(s).op = "set_role", outcome[s] = None,
         work[s].rest = <<>>, db' = Written(Call(s), work[s].seen)
  PROVE  Commits(s)
<1> DEFINE c == Call(s)
           u == c.user
<1>1. u \in Users /\ c.role \in {"owner", "member"} /\ db \in Tables /\ NoDangling(db)
  BY CallTypes DEF AccountsInv
<1>2. /\ Has(s, Table("users", "SRE")) /\ Has(s, Table("users", "RE")) /\ Has(s, Row("users", u, "NKU"))
      /\ c.role = "owner" \/ Owners # {u}
      /\ u \in Registered
  BY DEF AccountsInv, Knows, SetRoleKnows, Left
<1>3. db' = [db EXCEPT !.users[u].role = c.role]
  BY DEF Written
<1> HIDE DEF c, u
<1>4. /\ db'.members = db.members /\ db'.teams = db.teams /\ db'.defaults = db.defaults
      /\ db'.projects = db.projects /\ db'.invites = db.invites
      /\ db'.users = [db.users EXCEPT ![u].role = c.role]
      /\ db' \in Tables
  <2>1. db.users[u] \in User
    BY <1>1, <1>2 DEF Tables, Registered
  <2>2. [db.users EXCEPT ![u].role = c.role] \in [Users -> User \cup {NoUser}]
    BY <1>1, <2>1 DEF Tables, User
  <2> DEFINE users == [db.users EXCEPT ![u].role = c.role]
  <2>3. db' = [db EXCEPT !.users = users]
    BY <1>3
  <2> HIDE DEF users
  <2>4. users \in [Users -> User \cup {NoUser}]
    BY <2>2 DEF users
  <2>5. db' \in Tables
    BY <1>1, <2>3, <2>4 DEF Tables
  <2> QED
    BY <1>1, <2>3, <2>5 DEF Tables, users
<1>5. db'.users[u] = [role |-> c.role, provider |-> db.users[u].provider]
      /\ \A x \in Users \ {u} : db'.users[x] = db.users[x]
  BY <1>1, <1>2, <1>4 DEF Tables, User, NoUser, Registered
<1>6. db'.users[u] # NoUser
  BY <1>1, <1>5 DEF NoUser, None
<1>7. NoDangling(db')
  BY <1>1, <1>4, <1>5, <1>6 DEF NoDangling, Tables
<1>8. RolesKept
  <2>1. Registered' = Registered
    BY <1>2, <1>5, <1>6 DEF Registered
  <2>2. Owners # {} => Owners' # {}
    BY <1>1, <1>2, <1>5, <2>1 DEF Owners, Registered
  <2>3. \A t : AdminsOf(t)' = AdminsOf(t)
    BY <1>4 DEF AdminsOf
  <2> QED
    BY <1>1, <1>5, <2>2, <2>3 DEF RolesKept, Owners, Registered
<1>9. \A k \in Tokens : Closed(k) => Closed(k)'
  BY <1>4 DEF Closed
<1>10. ASSUME NEW v \in Clients \ {s}
       PROVE  TablesKept(v)
  <2>1. ~Has(v, Table("users", "SRE")) /\ ~Has(v, Row("users", u, "U"))
    BY <1>2, Excluded DEF AccountsInv
  <2> QED
    BY <1>4, <1>5, <1>6, <2>1 DEF TablesKept
<1> QED
  BY <1>4, <1>7, <1>8, <1>9, <1>10 DEF Commits

\* An account that is converted is not an owner's, as its row is locked.
LEMMA ConvertCommits ==
  ASSUME AccountsInv, NEW s \in Clients, Call(s).op = "convert", outcome[s] = None,
         work[s].rest = <<>>, db' = Written(Call(s), work[s].seen)
  PROVE  Commits(s)
<1> DEFINE c == Call(s)
           u == c.user
<1>1. u \in Users /\ db \in Tables /\ NoDangling(db)
  BY CallTypes DEF AccountsInv
<1>2. /\ Has(s, Table("users", "RE")) /\ Has(s, Row("users", u, "U"))
      /\ u \in Registered /\ u \notin Owners
  BY DEF AccountsInv, Knows, ConvertKnows, Left
<1>3. db' = [db EXCEPT !.users[u].provider = "oidc"]
  BY DEF Written
<1> HIDE DEF c, u
<1>4. /\ db'.members = db.members /\ db'.teams = db.teams /\ db'.defaults = db.defaults
      /\ db'.projects = db.projects /\ db'.invites = db.invites
      /\ db'.users = [db.users EXCEPT ![u].provider = "oidc"]
      /\ db' \in Tables
  <2> DEFINE users == [db.users EXCEPT ![u].provider = "oidc"]
  <2>1. db.users[u] \in User
    BY <1>1, <1>2 DEF Tables, Registered
  <2>2. users \in [Users -> User \cup {NoUser}]
    BY <1>1, <2>1 DEF Tables, User
  <2>3. db' = [db EXCEPT !.users = users]
    BY <1>3
  <2> HIDE DEF users
  <2>4. db' \in Tables
    BY <1>1, <2>2, <2>3 DEF Tables
  <2> QED
    BY <1>1, <2>3, <2>4 DEF Tables, users
<1>5. /\ db'.users[u] = [role |-> db.users[u].role, provider |-> "oidc"]
      /\ \A x \in Users \ {u} : db'.users[x] = db.users[x]
  BY <1>1, <1>2, <1>4 DEF Tables, User, NoUser, Registered
<1>6. db'.users[u] # NoUser
  BY <1>1, <1>5 DEF NoUser, None
<1>7. NoDangling(db')
  BY <1>1, <1>4, <1>5, <1>6 DEF NoDangling, Tables
<1>8. RolesKept
  <2>1. Registered' = Registered
    BY <1>2, <1>5, <1>6 DEF Registered
  <2>2. Owners' = Owners
    BY <1>5, <2>1 DEF Owners, Registered
  <2>3. \A t : AdminsOf(t)' = AdminsOf(t)
    BY <1>4 DEF AdminsOf
  <2> QED
    BY <1>2, <1>5, <2>2, <2>3 DEF RolesKept, Owners, Registered
<1>9. \A k \in Tokens : Closed(k) => Closed(k)'
  BY <1>4 DEF Closed
<1>10. ASSUME NEW v \in Clients \ {s}
       PROVE  TablesKept(v)
  <2>1. ~Has(v, Table("users", "SRE")) /\ ~Has(v, Row("users", u, "U"))
    BY <1>2, Excluded DEF AccountsInv
  <2> QED
    BY <1>4, <1>5, <1>6, <2>1 DEF TablesKept
<1> QED
  BY <1>4, <1>7, <1>8, <1>9, <1>10 DEF Commits

\* The new account had no membership to lose; its teams are locked.
LEMMA CreateCommits ==
  ASSUME AccountsInv, NEW s \in Clients, Call(s).op = "create", outcome[s] = None,
         work[s].rest = <<>>, db' = Written(Call(s), work[s].seen)
  PROVE  Commits(s) /\ (Call(s).initial => Owners' # {})
<1> DEFINE c == Call(s)
           u == c.user
           seen == work[s].seen
           new == [role |-> IF c.initial THEN "owner" ELSE "member", provider |-> "local"]
<1>1. u \in Users /\ db \in Tables /\ NoDangling(db)
  BY CallTypes DEF AccountsInv
<1>2. /\ Has(s, Table("users", "RE")) /\ Has(s, Row("users", u, "U")) /\ Has(s, Table("members", "RE"))
      /\ u \notin Registered
      /\ seen \subseteq db.teams
  BY DEF AccountsInv, Knows, CreateKnows, Left
<1>3. /\ \A t \in Teams : db.members[t][u] = None
      /\ db.teams \subseteq Teams
      /\ db.members \in [Teams -> [Users -> {None, "contributor", "admin"}]]
      /\ new \in User /\ new # NoUser
  BY <1>1, <1>2 DEF NoDangling, Registered, Tables, User, NoUser, None
<1> DEFINE users == [db.users EXCEPT ![u] = new]
           members == [t \in Teams |-> IF t \in seen THEN [db.members[t] EXCEPT ![u] = "contributor"]
                                       ELSE db.members[t]]
<1>4. db' = [db EXCEPT !.users = users, !.members = members]
  BY <1>1 DEF Written, Tables
<1>5. /\ users \in [Users -> User \cup {NoUser}] /\ users[u] = new
      /\ \A x \in Users \ {u} : users[x] = db.users[x]
  BY <1>1, <1>3 DEF Tables
<1>6. /\ members \in [Teams -> [Users -> {None, "contributor", "admin"}]]
      /\ \A t \in Teams, x \in Users : members[t][x] =
           IF t \in seen /\ x = u THEN "contributor" ELSE db.members[t][x]
  BY <1>1, <1>3
<1> HIDE DEF users, members
<1>7. /\ db'.teams = db.teams /\ db'.defaults = db.defaults /\ db'.projects = db.projects
      /\ db'.invites = db.invites /\ db'.users = users /\ db'.members = members
      /\ db' \in Tables
  BY <1>1, <1>4, <1>5, <1>6 DEF Tables
<1> HIDE DEF c, u, seen
<1> HIDE DEF new
<1>8. NoDangling(db')
  <2>1. \A x \in Users : db.users[x] # NoUser => db'.users[x] # NoUser
    BY <1>1, <1>3, <1>5, <1>7
  <2>2. ASSUME NEW t \in Teams, NEW x \in Users, db'.members[t][x] # None
        PROVE  t \in db'.teams /\ db'.users[x] # NoUser
    BY <1>1, <1>2, <1>3, <1>5, <1>6, <1>7, <2>1, <2>2 DEF NoDangling
  <2>3. \A k \in Tokens : db'.invites[k] # NoInvite =>
           /\ db'.invites[k].team \in db'.teams
           /\ db'.invites[k].by # None => db'.users[db'.invites[k].by] # NoUser
    <3>1. \A k \in Tokens : db.invites[k] # NoInvite => db.invites[k].by \in Users \cup {None}
      BY <1>1 DEF Tables, Invite
    <3> QED
      BY <1>1, <1>7, <2>1, <3>1 DEF NoDangling
  <2> QED
    BY <1>1, <1>7, <2>2, <2>3 DEF NoDangling
<1>9. Registered \subseteq Registered' /\ Owners \subseteq Owners' /\ u \in Registered'
  BY <1>1, <1>2, <1>3, <1>5, <1>7 DEF Registered, Owners
<1>10. \A t \in Teams : AdminsOf(t)' = AdminsOf(t)
  BY <1>1, <1>3, <1>6, <1>7 DEF AdminsOf, None
<1>11. RolesKept
  BY <1>2, <1>3, <1>5, <1>7, <1>9, <1>10 DEF RolesKept, Owners, Registered
<1>12. \A k \in Tokens : Closed(k) => Closed(k)'
  BY <1>7 DEF Closed
<1>13. ASSUME NEW v \in Clients \ {s}
       PROVE  TablesKept(v)
  <2>1. ~Has(v, Table("users", "SRE")) /\ ~Has(v, Row("users", u, "U")) /\ ~Has(v, Table("members", "SRE"))
    BY <1>2, Excluded DEF AccountsInv
  <2>2. \A t \in Teams, x \in Users : db.members[t][x] # None => db'.members[t][x] # None
    BY <1>6, <1>7 DEF None
  <2>3. \A x \in Users : db.users[x] # NoUser => db'.users[x] # NoUser
    BY <1>3, <1>5, <1>7
  <2> QED
    BY <1>5, <1>7, <2>1, <2>2, <2>3 DEF TablesKept
<1>14. c.initial => Owners' # {}
  <2>1. c.initial => db'.users[u].role = "owner"
    BY <1>5, <1>7 DEF new, c
  <2> QED
    BY <1>9, <2>1 DEF Owners
<1> QED
  BY <1>7, <1>8, <1>11, <1>12, <1>13, <1>14 DEF Commits, c

\* A project is given to a team whose row is locked.
LEMMA ProjectCommits ==
  ASSUME AccountsInv, NEW s \in Clients, Call(s).op = "project", outcome[s] = None,
         work[s].rest = <<>>, db' = Written(Call(s), work[s].seen)
  PROVE  Commits(s)
<1> DEFINE c == Call(s)
           p == c.project
<1>1. p \in Projects /\ db \in Tables /\ NoDangling(db) /\ c.team \in Teams
  BY CallTypes DEF AccountsInv
<1>2. Has(s, Table("projects", "RE")) /\ c.team \in db.teams
  BY DEF AccountsInv, Knows, ProjectKnows, Left
<1>3. db' = [db EXCEPT !.projects[p] = c.team]
  BY DEF Written
<1> HIDE DEF c, p
<1>4. /\ db'.members = db.members /\ db'.teams = db.teams /\ db'.defaults = db.defaults
      /\ db'.users = db.users /\ db'.invites = db.invites
      /\ db'.projects = [db.projects EXCEPT ![p] = c.team]
      /\ db' \in Tables
  <2> DEFINE projects == [db.projects EXCEPT ![p] = c.team]
  <2>1. projects \in [Projects -> Teams \cup {None}]
    BY <1>1 DEF Tables
  <2>2. db' = [db EXCEPT !.projects = projects]
    BY <1>3
  <2> HIDE DEF projects
  <2> QED
    BY <1>1, <2>1, <2>2 DEF Tables, projects
<1>5. NoDangling(db')
  <2>1. \A x \in Projects : db'.projects[x] \in db'.teams \cup {None}
    BY <1>1, <1>2, <1>4 DEF NoDangling, Tables
  <2> QED
    BY <1>1, <1>4, <2>1 DEF NoDangling
<1>6. RolesKept
  BY <1>4 DEF RolesKept, Owners, Registered, AdminsOf
<1>7. \A k \in Tokens : Closed(k) => Closed(k)'
  BY <1>4 DEF Closed
<1>8. ASSUME NEW v \in Clients \ {s}
       PROVE  TablesKept(v)
  <2>1. ~Has(v, Table("projects", "SRE"))
    BY <1>2, Excluded DEF AccountsInv
  <2> QED
    BY <1>4, <2>1 DEF TablesKept
<1> QED
  BY <1>4, <1>5, <1>6, <1>7, <1>8 DEF Commits

\* A membership changes under the lock of the table and never leaves a team
\* without the administrator it had.
LEMMA ChangeMemberCommits ==
  ASSUME AccountsInv, NEW s \in Clients, Call(s).op \in {"add_member", "set_member"}, outcome[s] = None,
         work[s].rest = <<>>, db' = Written(Call(s), work[s].seen)
  PROVE  Commits(s)
<1> DEFINE c == Call(s)
           u == c.user
           t == c.team
<1>1. /\ u \in Users /\ t \in Teams /\ c.role \in {"contributor", "admin", None}
      /\ db \in Tables /\ NoDangling(db)
  BY CallTypes DEF AccountsInv
<1>2. /\ Has(s, Table("members", "SRE"))
      /\ c.role = "admin" \/ AdminsOf(t) # {u}
      /\ c.role # None => db.members[t][u] # None \/ (t \in db.teams /\ u \in Registered)
  BY DEF AccountsInv, Knows, ChangeMemberKnows, Left, Anchored
<1>3. db' = [db EXCEPT !.members[t][u] = c.role]
  BY DEF Written
<1> HIDE DEF c, u, t
<1>4. /\ db'.users = db.users /\ db'.teams = db.teams /\ db'.defaults = db.defaults
      /\ db'.projects = db.projects /\ db'.invites = db.invites
      /\ \A x \in Teams, y \in Users :
           db'.members[x][y] = IF x = t /\ y = u THEN c.role ELSE db.members[x][y]
      /\ db' \in Tables
  <2> DEFINE members == [db.members EXCEPT ![t][u] = c.role]
  <2>1. /\ members \in [Teams -> [Users -> {None, "contributor", "admin"}]]
        /\ \A x \in Teams, y \in Users :
             members[x][y] = IF x = t /\ y = u THEN c.role ELSE db.members[x][y]
    BY <1>1 DEF Tables
  <2>2. db' = [db EXCEPT !.members = members]
    BY <1>3
  <2> HIDE DEF members
  <2>3. /\ db'.users = db.users /\ db'.teams = db.teams /\ db'.defaults = db.defaults
        /\ db'.projects = db.projects /\ db'.invites = db.invites /\ db'.members = members
    BY <1>1, <2>2 DEF Tables
  <2>4. db' \in Tables
    BY <1>1, <2>1, <2>2 DEF Tables
  <2> QED
    BY <2>1, <2>3, <2>4
<1>5. NoDangling(db')
  <2>1. ASSUME NEW x \in Teams, NEW y \in Users, db'.members[x][y] # None
        PROVE  x \in db'.teams /\ db'.users[y] # NoUser
    BY <1>1, <1>2, <1>4, <2>1 DEF NoDangling, Registered
  <2> QED
    BY <1>1, <1>4, <2>1 DEF NoDangling
<1>6. RolesKept
  <2>1. ASSUME NEW x \in Teams, AdminsOf(x) # {}
        PROVE  AdminsOf(x)' # {}
    <3>1. CASE x = t /\ c.role = "admin"
      BY <1>1, <1>4, <3>1 DEF AdminsOf
    <3>2. CASE x = t /\ c.role # "admin"
      <4>1. PICK a \in AdminsOf(x) : a # u
        BY <1>2, <2>1, <3>2
      <4> QED
        BY <1>1, <1>4, <4>1 DEF AdminsOf
    <3>3. CASE x # t
      BY <1>1, <1>4, <2>1, <3>3 DEF AdminsOf
    <3> QED
      BY <3>1, <3>2, <3>3
  <2> QED
    BY <1>1, <1>4, <2>1 DEF RolesKept, Owners, Registered, Tables
<1>7. \A k \in Tokens : Closed(k) => Closed(k)'
  BY <1>4 DEF Closed
<1>8. ASSUME NEW v \in Clients \ {s}
       PROVE  TablesKept(v)
  <2>1. ~Has(v, Table("members", "SRE")) /\ ~Has(v, Table("members", "RE"))
    BY <1>2, Excluded DEF AccountsInv
  <2> QED
    BY <1>4, <2>1 DEF TablesKept
<1> QED
  BY <1>4, <1>5, <1>6, <1>7, <1>8 DEF Commits

\* An invite admits one account, demotes no administrator and is closed.
LEMMA AcceptCommits ==
  ASSUME AccountsInv, NEW s \in Clients, Call(s).op = "accept", outcome[s] = None,
         work[s].rest = <<>>, db' = Written(Call(s), work[s].seen),
         NEW k, k = Call(s).token
  PROVE  Commits(s) /\ ~Closed(k) /\ Closed(k)'
<1> DEFINE c == Call(s)
           u == c.user
           t == db.invites[k].team
           role == InvitedRole(db.members[t][u], db.invites[k].role)
<1>1. u \in Users /\ k \in Tokens /\ db \in Tables /\ NoDangling(db)
  BY CallTypes DEF AccountsInv
<1>2. /\ Has(s, Table("members", "RE")) /\ Has(s, Row("invites", k, "NKU"))
      /\ Has(s, Row("members", <<t, u>>, "U"))
      /\ ~Closed(k) /\ work[s].seen = {t}
      /\ db.members[t][u] # None \/ (t \in db.teams /\ u \in Registered)
  BY DEF AccountsInv, Knows, AcceptKnows, Left, Anchored
<1>3. TeamOf(c, work[s].seen) = t
  BY <1>2 DEF TeamOf
<1>4. db.invites[k] \in Invite /\ t \in Teams
  BY <1>1, <1>2 DEF Closed, Tables, Invite
<1>5. db' = [db EXCEPT !.members[t][u] = role, !.invites[k].accepted = TRUE]
  <2>1. db' = [db EXCEPT !.members[t][u] = InvitedRole(@, db.invites[k].role), !.invites[k].accepted = TRUE]
    BY <1>3 DEF Written
  <2> QED
    BY <1>1, <1>4, <2>1 DEF Tables
<1>6. role \in {"admin", "contributor"} /\ (db.members[t][u] = "admin" => role = "admin")
  BY <1>4 DEF InvitedRole, Invite
<1> HIDE DEF c, u, t, role
<1>7. /\ db'.users = db.users /\ db'.teams = db.teams /\ db'.defaults = db.defaults
      /\ db'.projects = db.projects
      /\ \A x \in Teams, y \in Users :
           db'.members[x][y] = IF x = t /\ y = u THEN role ELSE db.members[x][y]
      /\ \A x \in Tokens : db'.invites[x] = IF x = k THEN [db.invites[k] EXCEPT !.accepted = TRUE]
                                            ELSE db.invites[x]
      /\ db' \in Tables
  <2> DEFINE members == [db.members EXCEPT ![t][u] = role]
             invites == [db.invites EXCEPT ![k].accepted = TRUE]
  <2>1. /\ members \in [Teams -> [Users -> {None, "contributor", "admin"}]]
        /\ \A x \in Teams, y \in Users :
             members[x][y] = IF x = t /\ y = u THEN role ELSE db.members[x][y]
    BY <1>1, <1>6 DEF Tables
  <2>2. [db.invites[k] EXCEPT !.accepted = TRUE] \in Invite
    BY <1>4 DEF Invite
  <2>3. /\ invites \in [Tokens -> Invite \cup {NoInvite}]
        /\ \A x \in Tokens : invites[x] = IF x = k THEN [db.invites[k] EXCEPT !.accepted = TRUE]
                                          ELSE db.invites[x]
    BY <1>1, <2>2 DEF Tables
  <2>4. db' = [db EXCEPT !.members = members, !.invites = invites]
    BY <1>5
  <2> HIDE DEF members, invites
  <2>5. /\ db'.users = db.users /\ db'.teams = db.teams /\ db'.defaults = db.defaults
        /\ db'.projects = db.projects /\ db'.invites = invites /\ db'.members = members
    BY <1>1, <2>4 DEF Tables
  <2>6. db' \in Tables
    BY <1>1, <2>1, <2>3, <2>4 DEF Tables
  <2> QED
    BY <2>1, <2>3, <2>5, <2>6
<1>8. /\ \A x \in Tokens : db'.invites[x].team = db.invites[x].team /\ db'.invites[x].by = db.invites[x].by
      /\ \A x \in Tokens \ {k} : db'.invites[x] = db.invites[x]
      /\ db'.invites[k].accepted
      /\ db'.invites[k] # NoInvite /\ db.invites[k] # NoInvite
  <2>1. /\ db'.invites[k] = [db.invites[k] EXCEPT !.accepted = TRUE]
        /\ \A x \in Tokens \ {k} : db'.invites[x] = db.invites[x]
    BY <1>1, <1>7
  <2>2. db'.invites[k].team = t /\ db'.invites[k].by = db.invites[k].by /\ db'.invites[k].accepted
    BY <1>4, <2>1 DEF Invite, t
  <2>3. db'.invites[k] # NoInvite /\ db.invites[k] # NoInvite
    BY <1>4, <2>2, BatchesAssumption DEF NoInvite, Invite
  <2> QED
    BY <2>1, <2>2, <2>3 DEF t
<1>9. NoDangling(db')
  <2>1. ASSUME NEW x \in Teams, NEW y \in Users, db'.members[x][y] # None
        PROVE  x \in db'.teams /\ db'.users[y] # NoUser
    <3>1. t \in db.teams /\ db.users[u] # NoUser
      BY <1>1, <1>2, <1>4 DEF NoDangling, Registered
    <3>2. (x = t /\ y = u) \/ db.members[x][y] # None
      BY <1>7, <2>1
    <3> QED
      BY <1>1, <1>7, <3>1, <3>2 DEF NoDangling
  <2>2. ASSUME NEW x \in Tokens, db'.invites[x] # NoInvite
        PROVE  db.invites[x] # NoInvite
    BY <1>8, <2>2
  <2> QED
    BY <1>1, <1>7, <1>8, <2>1, <2>2 DEF NoDangling
<1>10. RolesKept
  <2>1. \A x \in Teams : AdminsOf(x) \subseteq AdminsOf(x)'
    BY <1>6, <1>7 DEF AdminsOf
  <2> QED
    BY <1>1, <1>7, <2>1 DEF RolesKept, Owners, Registered, Tables
<1>11. Closed(k)' /\ \A x \in Tokens : Closed(x) => Closed(x)'
  BY <1>1, <1>8 DEF Closed
<1>12. ASSUME NEW v \in Clients \ {s}
       PROVE  TablesKept(v)
  <2>1. ~Has(v, Table("members", "SRE")) /\ ~Has(v, Row("invites", k, "NKU"))
    BY <1>2, Excluded DEF AccountsInv
  <2>2. \A x \in Teams, y \in Users : db.members[x][y] # None => db'.members[x][y] # None
    BY <1>6, <1>7 DEF None
  <2> QED
    BY <1>7, <1>8, <2>1, <2>2 DEF TablesKept
<1> QED
  BY <1>2, <1>7, <1>9, <1>10, <1>11, <1>12 DEF Commits

\* The deleted account was neither the last owner nor the only administrator of
\* a team, and what referred to it goes with it.
LEMMA DeleteUserCommits ==
  ASSUME AccountsInv, NEW s \in Clients, Call(s).op = "delete_user", outcome[s] = None,
         work[s].rest = <<>>, db' = Written(Call(s), work[s].seen)
  PROVE  Commits(s)
<1> DEFINE c == Call(s)
           u == c.user
<1>1. u \in Users /\ db \in Tables /\ NoDangling(db)
  BY CallTypes DEF AccountsInv
<1>2. /\ Has(s, Table("users", "SRE")) /\ Has(s, Table("members", "SRE")) /\ Has(s, Row("users", u, "U"))
      /\ Owners # {u} /\ \A t \in Teams : AdminsOf(t) # {u}
  BY DEF AccountsInv, Knows, DeleteUserKnows, Left
<1> DEFINE users == [db.users EXCEPT ![u] = NoUser]
           members == [t \in Teams |-> [db.members[t] EXCEPT ![u] = None]]
           invites == [k \in Tokens |->
                         IF k \in InvitesBy(u) THEN [db.invites[k] EXCEPT !.by = None] ELSE db.invites[k]]
<1>3. db' = [db EXCEPT !.users = users, !.members = members, !.invites = invites]
  BY <1>1 DEF Written, Tables
<1>4. /\ users \in [Users -> User \cup {NoUser}] /\ users[u] = NoUser
      /\ \A x \in Users \ {u} : users[x] = db.users[x]
  BY <1>1 DEF Tables
<1>5. /\ members \in [Teams -> [Users -> {None, "contributor", "admin"}]]
      /\ \A t \in Teams, x \in Users : members[t][x] = IF x = u THEN None ELSE db.members[t][x]
  BY <1>1 DEF Tables
<1>6. ASSUME NEW k \in Tokens
      PROVE  /\ invites[k] \in Invite \cup {NoInvite}
             /\ invites[k].team = db.invites[k].team /\ invites[k].accepted = db.invites[k].accepted
             /\ invites[k].by = IF db.invites[k].by = u THEN None ELSE db.invites[k].by
             /\ invites[k] = NoInvite <=> db.invites[k] = NoInvite
  <2>1. CASE db.invites[k] = NoInvite
    <3>1. [NoInvite EXCEPT !.by = None] = NoInvite /\ NoInvite.by = None
      <4>1. NoInvite \in [team: {None}, role: {None}, by: {None}, accepted: BOOLEAN]
        BY DEF NoInvite
      <4>2. \A x \in [team: {None}, role: {None}, by: {None}, accepted: BOOLEAN] :
               [x EXCEPT !.by = None] = x /\ x.by = None
        OBVIOUS
      <4> QED
        BY <4>1, <4>2
    <3>2. invites[k] = IF db.invites[k].by = u THEN [db.invites[k] EXCEPT !.by = None] ELSE db.invites[k]
      BY DEF InvitesBy
    <3> HIDE DEF invites
    <3>3. invites[k] = NoInvite
      BY <2>1, <3>1, <3>2
    <3> QED
      BY <2>1, <3>1, <3>3
  <2>2. CASE db.invites[k] # NoInvite
    <3>1. db.invites[k] \in Invite /\ db.invites[k].team # None
      BY <1>1, <2>2, BatchesAssumption DEF Tables, Invite
    <3>2. [db.invites[k] EXCEPT !.by = None] \in Invite
      BY <3>1 DEF Invite
    <3>3. \A x \in Invite : x.team # None => x # NoInvite
      BY DEF NoInvite
    <3>4. invites[k] = IF db.invites[k].by = u THEN [db.invites[k] EXCEPT !.by = None] ELSE db.invites[k]
      BY DEF InvitesBy
    <3> HIDE DEF invites
    <3>5. /\ [db.invites[k] EXCEPT !.by = None].team = db.invites[k].team
          /\ [db.invites[k] EXCEPT !.by = None].accepted = db.invites[k].accepted
          /\ [db.invites[k] EXCEPT !.by = None].by = None
      BY <3>1 DEF Invite
    <3> QED
      BY <2>2, <3>1, <3>2, <3>3, <3>4, <3>5
  <2> QED
    BY <2>1, <2>2
<1>7. invites \in [Tokens -> Invite \cup {NoInvite}]
  BY <1>6
<1> HIDE DEF users, members, invites
<1>8. /\ db'.teams = db.teams /\ db'.defaults = db.defaults /\ db'.projects = db.projects
      /\ db'.invites = invites /\ db'.users = users /\ db'.members = members
  BY <1>1, <1>3 DEF Tables
<1>9. db' \in Tables
  BY <1>1, <1>3, <1>4, <1>5, <1>7 DEF Tables
<1> HIDE DEF c, u
<1>10. NoDangling(db')
  <2>1. \A t \in Teams, x \in Users : db'.members[t][x] # None => t \in db'.teams /\ db'.users[x] # NoUser
    BY <1>1, <1>4, <1>5, <1>8 DEF NoDangling
  <2>2. ASSUME NEW k \in Tokens, db'.invites[k] # NoInvite
        PROVE  /\ db'.invites[k].team \in db'.teams
               /\ db'.invites[k].by # None => db'.users[db'.invites[k].by] # NoUser
    <3>1. db.invites[k] # NoInvite /\ db.invites[k].by \in Users \cup {None}
      BY <1>1, <1>6, <1>8, <2>2 DEF Tables, Invite
    <3> QED
      BY <1>1, <1>4, <1>6, <1>8, <3>1 DEF NoDangling
  <2> QED
    BY <1>1, <1>8, <2>1, <2>2 DEF NoDangling
<1>11. RolesKept
  <2>1. Registered' = Registered \ {u} /\ Owners' = Owners \ {u}
    BY <1>1, <1>4, <1>8 DEF Registered, Owners
  <2>2. \A t \in Teams : AdminsOf(t)' = AdminsOf(t) \ {u}
    BY <1>5, <1>8 DEF AdminsOf, None
  <2>3. \A x \in Owners : x \in Registered' => db'.users[x].provider = db.users[x].provider
    BY <1>4, <1>8, <2>1 DEF Registered
  <2> QED
    BY <1>1, <1>2, <2>1, <2>2, <2>3 DEF RolesKept, Tables
<1>12. \A k \in Tokens : Closed(k) => Closed(k)'
  BY <1>6, <1>8 DEF Closed
<1>13. ASSUME NEW v \in Clients \ {s}
       PROVE  TablesKept(v)
  <2>1. /\ ~Has(v, Table("users", "SRE")) /\ ~Has(v, Table("members", "SRE")) /\ ~Has(v, Table("members", "RE"))
        /\ ~Has(v, Row("users", u, "U")) /\ ~Has(v, Row("users", u, "KS"))
    BY <1>2, Excluded DEF AccountsInv
  <2> QED
    BY <1>4, <1>6, <1>8, <2>1 DEF TablesKept
<1> QED
  BY <1>9, <1>10, <1>11, <1>12, <1>13 DEF Commits

\* The team has no project left, and everything that refers to it is locked.
LEMMA DeleteTeamCommits ==
  ASSUME AccountsInv, NEW s \in Clients, Call(s).op = "delete_team", outcome[s] = None,
         work[s].rest = <<>>, db' = Written(Call(s), work[s].seen)
  PROVE  Commits(s)
<1> DEFINE c == Call(s)
           t == c.team
           seen == work[s].seen
<1>1. t \in Teams /\ c.to \in Teams \cup {None} /\ c.to # t /\ db \in Tables /\ NoDangling(db)
  BY CallTypes DEF AccountsInv
<1>2. /\ Has(s, Table("teams", "SRE")) /\ Has(s, Table("projects", "SRE")) /\ Has(s, Row("teams", t, "U"))
      /\ Has(s, Table("members", "RE"))
      /\ \A u \in Users : Has(s, Row("members", <<t, u>>, "U"))
      /\ \A k \in InvitesOf(t) : Has(s, Row("invites", k, "U"))
      /\ c.to \in db.teams \cup {None} /\ ProjectsOf(t) \subseteq seen
  BY DEF AccountsInv, Knows, DeleteTeamKnows, Left
<1> DEFINE teams == db.teams \ {t}
           defaults == db.defaults \ {t}
           members == [db.members EXCEPT ![t] = [u \in Users |-> None]]
           projects == [p \in Projects |-> IF p \in seen THEN c.to ELSE db.projects[p]]
           invites == [k \in Tokens |-> IF k \in InvitesOf(t) THEN NoInvite ELSE db.invites[k]]
<1>3. db' = [db EXCEPT !.teams = teams, !.defaults = defaults, !.members = members,
                       !.projects = projects, !.invites = invites]
  BY <1>1 DEF Written, Tables
<1>4. teams \in SUBSET Teams /\ defaults \in SUBSET Teams
  BY <1>1 DEF Tables
<1>5. /\ members \in [Teams -> [Users -> {None, "contributor", "admin"}]]
      /\ \A x \in Teams, u \in Users : members[x][u] = IF x = t THEN None ELSE db.members[x][u]
  BY <1>1 DEF Tables
<1>6. /\ projects \in [Projects -> Teams \cup {None}]
      /\ \A p \in Projects : projects[p] = IF p \in seen THEN c.to ELSE db.projects[p]
  BY <1>1 DEF Tables
<1>7. /\ invites \in [Tokens -> Invite \cup {NoInvite}]
      /\ \A k \in Tokens : invites[k] = IF db.invites[k].team = t THEN NoInvite ELSE db.invites[k]
  BY <1>1 DEF Tables, InvitesOf
<1> HIDE DEF teams, defaults, members, projects, invites
<1>8. /\ db'.teams = teams /\ db'.defaults = defaults /\ db'.projects = projects
      /\ db'.invites = invites /\ db'.users = db.users /\ db'.members = members
  BY <1>1, <1>3 DEF Tables
<1>9. db' \in Tables
  BY <1>1, <1>3, <1>4, <1>5, <1>6, <1>7 DEF Tables
<1>10. db'.teams = db.teams \ {t} /\ db'.defaults = db.defaults \ {t}
  BY <1>8 DEF teams, defaults
<1> HIDE DEF c, t, seen
<1>11. NoDangling(db')
  <2>1. \A x \in Teams, u \in Users : db'.members[x][u] # None => x \in db'.teams /\ db'.users[u] # NoUser
    BY <1>1, <1>5, <1>8, <1>10 DEF NoDangling
  <2>2. \A k \in Tokens : db'.invites[k] # NoInvite =>
           /\ db'.invites[k].team \in db'.teams
           /\ db'.invites[k].by # None => db'.users[db'.invites[k].by] # NoUser
    BY <1>1, <1>7, <1>8, <1>10 DEF NoDangling
  <2>3. ASSUME NEW p \in Projects
        PROVE  db'.projects[p] \in db'.teams \cup {None}
    <3>1. CASE p \in seen
      BY <1>1, <1>2, <1>6, <1>8, <1>10, <3>1
    <3>2. CASE p \notin seen
      <4>1. db.projects[p] # t
        BY <1>2, <3>2 DEF ProjectsOf
      <4> QED
        BY <1>1, <1>6, <1>8, <1>10, <3>2, <4>1 DEF NoDangling
    <3> QED
      BY <3>1, <3>2
  <2>4. db'.defaults \subseteq db'.teams
    BY <1>1, <1>10 DEF NoDangling
  <2> QED
    BY <2>1, <2>2, <2>3, <2>4 DEF NoDangling
<1>12. RolesKept
  <2>1. \A x \in Teams \ {t} : AdminsOf(x)' = AdminsOf(x)
    BY <1>5, <1>8 DEF AdminsOf
  <2> QED
    BY <1>1, <1>8, <1>10, <2>1 DEF RolesKept, Owners, Registered, Tables
<1>13. \A k \in Tokens : Closed(k) => Closed(k)'
  BY <1>7, <1>8 DEF Closed
<1>14. ASSUME NEW v \in Clients \ {s}
       PROVE  TablesKept(v)
  <2>1. /\ ~Has(v, Table("teams", "SRE")) /\ ~Has(v, Table("projects", "SRE")) /\ ~Has(v, Table("members", "SRE"))
        /\ ~Has(v, Row("teams", t, "KS"))
        /\ \A u \in Users : ~Has(v, Row("members", <<t, u>>, "U"))
        /\ \A k \in InvitesOf(t) : ~Has(v, Row("invites", k, "NKU"))
    BY <1>2, Excluded DEF AccountsInv
  <2>2. ASSUME NEW k \in Tokens
        PROVE  /\ Has(v, Row("invites", k, "NKU")) => db'.invites[k] = db.invites[k]
               /\ \A x \in Teams : db'.invites[k].team = x => db.invites[k].team = x
    BY <1>7, <1>8, <2>1, BatchesAssumption DEF InvitesOf, NoInvite
  <2> QED
    BY <1>1, <1>5, <1>8, <1>10, <2>1, <2>2 DEF TablesKept, Tables
<1> QED
  BY <1>9, <1>11, <1>12, <1>13, <1>14 DEF Commits

\* What a commit of any call leaves.
LEMMA CommitsAll ==
  ASSUME AccountsInv, NEW s \in Clients, CommitAccount(s)
  PROVE  /\ Commits(s)
         /\ Call(s).op = "create" /\ Call(s).initial => Owners' # {}
         /\ \A k : Call(s).op = "accept" /\ k = Call(s).token => ~Closed(k) /\ Closed(k)'
<1> DEFINE c == Call(s)
<1>1. outcome[s] = None /\ work[s].rest = <<>> /\ db' = Written(c, work[s].seen)
  BY DEF CommitAccount, Call
<1>2. CASE c.op = "create"
  BY <1>1, <1>2, CreateCommits
<1>3. CASE c.op = "set_role"
  BY <1>1, <1>3, SetRoleCommits
<1>4. CASE c.op = "delete_user"
  BY <1>1, <1>4, DeleteUserCommits
<1>5. CASE c.op = "convert"
  BY <1>1, <1>5, ConvertCommits
<1>6. CASE c.op \in {"add_member", "set_member"}
  BY <1>1, <1>6, ChangeMemberCommits
<1>7. CASE c.op = "accept"
  BY <1>1, <1>7, AcceptCommits
<1>8. CASE c.op = "delete_team"
  BY <1>1, <1>8, DeleteTeamCommits
<1>9. CASE c.op = "project"
  BY <1>1, <1>9, ProjectCommits
<1> QED
  BY <1>2, <1>3, <1>4, <1>5, <1>6, <1>7, <1>8, <1>9, CallTypes DEF AccountsInv

\* A commit leaves the invariant and guards the roles.
LEMMA CommitStep ==
  ASSUME AccountsInv, NEW s \in Clients, CommitAccount(s)
  PROVE  AccountsInv' /\ RolesKept
<1> DEFINE Initial(v) == Call(v).op = "create" /\ Call(v).initial
<1>1. /\ outcome[s] = None /\ UNCHANGED batch
      /\ work' = [work EXCEPT ![s] = Over] /\ outcome' = [outcome EXCEPT ![s] = "done"]
  BY DEF CommitAccount, Answer
<1>2. /\ DOMAIN work' = Clients /\ DOMAIN outcome' = Clients /\ work'[s] = Over /\ outcome'[s] = "done"
      /\ \A v \in Clients \ {s} : work'[v] = work[v] /\ outcome'[v] = outcome[v]
  BY <1>1 DEF AccountsInv
<1>3. Clients' = Clients /\ \A v : Call(v)' = Call(v)
  BY <1>1 DEF Clients, Call
<1>4. Commits(s)
  BY CommitsAll
<1>5. Initial(s) => /\ Has(s, Row("service_settings", "only", "U")) /\ ~SetUpDone
                    /\ Owners' # {}
  <2>1. Initial(s) => CreateKnows(s) /\ Left(s) = 0
    BY <1>1 DEF CommitAccount, AccountsInv, Knows, Left
  <2> QED
    BY <2>1, CommitsAll DEF CreateKnows
<1>6. SetUpDone' => SetUpDone \/ Initial(s)
  BY <1>2, <1>3 DEF SetUpDone
<1>7. ASSUME NEW v \in Clients \ {s}, outcome'[v] = None
      PROVE  Knows(v)'
  <2>1. Has(v, Row("service_settings", "only", "U")) /\ SetUpDone' => SetUpDone
    BY <1>5, <1>6, Excluded DEF AccountsInv
  <2>2. Undisturbed(v)
    BY <1>4, <2>1 DEF Undisturbed, Commits
  <2> QED
    BY <1>1, <1>2, <1>7, <2>2, KeepsKnowing DEF AccountsInv
<1>8. \A v \in Clients : IsWork(work'[v]) /\ (outcome'[v] = None => Knows(v)')
  <2>1. IsWork(Over) /\ "done" # None
    BY DEF IsWork, Over, None
  <2> QED
    BY <1>2, <1>7, <2>1 DEF AccountsInv
<1>9. \A v \in Clients : Call(v).op = "delete_team" => outcome'[v] # "failed"
  BY <1>2 DEF AccountsInv
<1>10. Exclusive'
  <2>1. work'[s].holds = {}
    BY <1>2 DEF Over
  <2> QED
    BY <1>2, <1>3, <2>1 DEF AccountsInv, Exclusive
<1>11. Granted'
  <2>1. Granted
    BY DEF AccountsInv
  <2>2. SetUpDone' => Owners' # {}
    BY <1>4, <1>5, <1>6, <2>1 DEF Granted, Commits, RolesKept
  <2>3. \A u, v \in Clients : Initial(u) /\ outcome'[u] = "done" /\ Initial(v) /\ outcome'[v] = "done" => u = v
    <3>1. \A v \in Clients \ {s} : Initial(v) /\ outcome'[v] = "done" => ~Initial(s)
      BY <1>2, <1>5 DEF SetUpDone
    <3> QED
      BY <1>2, <2>1, <3>1 DEF Granted
  <2>4. \A v \in Clients : Call(v).op = "accept" => Call(v).token \in Tokens
    BY CallTypes DEF AccountsInv
  <2>5. \A k : Call(s).op = "accept" /\ k = Call(s).token => ~Closed(k) /\ Closed(k)'
    BY CommitsAll
  <2>6. ASSUME NEW v \in Clients, Call(v).op = "accept", outcome'[v] = "done", NEW k, k = Call(v).token
        PROVE  Closed(k)'
    <3>1. CASE v = s
      BY <2>5, <2>6, <3>1
    <3>2. CASE v # s
      <4>1. k \in Tokens /\ Closed(k)
        BY <1>2, <2>1, <2>4, <2>6, <3>2 DEF Granted
      <4> QED
        BY <1>4, <4>1 DEF Commits
    <3> QED
      BY <3>1, <3>2
  <2>7. \A v \in Clients : Call(v)'.op = "accept" /\ outcome'[v] = "done" => Closed(Call(v).token)'
    BY <1>3, <2>6
  <2>8. \A u, v \in Clients :
           /\ Call(u).op = "accept" /\ Call(v).op = "accept" /\ Call(u).token = Call(v).token
           /\ outcome'[u] = "done" /\ outcome'[v] = "done"
           => u = v
    <3>1. \A v \in Clients \ {s} : /\ Call(v).op = "accept" /\ outcome'[v] = "done"
                                   /\ Call(s).op = "accept"
                                   => Call(s).token # Call(v).token
      BY <1>2, <2>1, <2>5 DEF Granted
    <3> QED
      BY <1>2, <2>1, <3>1 DEF Granted
  <2> QED
    BY <1>3, <2>2, <2>3, <2>7, <2>8 DEF Granted
<1>12. AccountsInv'
  <2>1. batch' \in Batches /\ db' \in Tables /\ NoDangling(db')
    BY <1>1, <1>4 DEF AccountsInv, Commits
  <2> QED
    BY <1>2, <1>3, <1>8, <1>9, <1>10, <1>11, <2>1 DEF AccountsInv
<1> QED
  BY <1>4, <1>12 DEF Commits

-----------------------------------------------------------------------------
(* The theorems.                                                           *)

\* No call has done anything at first, and the tables are sound.
LEMMA InitAccounts == Init => AccountsInv
<1> SUFFICES ASSUME Init
             PROVE  AccountsInv
  OBVIOUS
<1>1. /\ batch \in Batches /\ db = batch.db
      /\ work = [s \in Clients |-> Fresh(s, 0)] /\ outcome = [s \in Clients |-> None]
  BY DEF Init
<1>2. db \in Tables /\ NoDangling(db)
  BY <1>1, BatchesAssumption
<1>3. ASSUME NEW s \in Clients
      PROVE  IsWork(work[s]) /\ work[s].holds = {} /\ Knows(s)
  <2>1. work[s] = Fresh(s, 0)
    BY <1>1
  <2>2. IsWork(Fresh(s, 0)) /\ Fresh(s, 0).holds = {} /\ Fresh(s, 0).rest = Program(Call(s))
    BY DEF IsWork, Fresh, Call
  <2> QED
    BY <1>1, <2>1, <2>2, FreshKnows DEF NothingToKnow
<1>4. \A s \in Clients : outcome[s] \notin {"done", "failed"}
  BY <1>1 DEF None
<1>5. Exclusive
  BY <1>3 DEF Exclusive
<1>6. Granted
  BY <1>4 DEF Granted, SetUpDone
<1> QED
  BY <1>1, <1>2, <1>3, <1>4, <1>5, <1>6 DEF AccountsInv

\* Steps that are not about the accounts leave the invariant.
LEMMA AccountsUntouched ==
  ASSUME AccountsInv, UNCHANGED avars
  PROVE  AccountsInv' /\ RolesKept
<1>1. UNCHANGED <<db, batch, work, outcome>>
  BY DEF avars
<1>2. Clients' = Clients /\ \A v : Call(v)' = Call(v)
  BY <1>1 DEF Clients, Call
<1>3. Owners' = Owners /\ (\A k : Closed(k)' = Closed(k)) /\ \A t : AdminsOf(t)' = AdminsOf(t)
  BY <1>1 DEF Owners, Registered, Closed, AdminsOf
<1>4. SetUpDone' = SetUpDone
  BY <1>1, <1>2 DEF SetUpDone
<1>5. Granted' /\ Exclusive'
  BY <1>1, <1>2, <1>3, <1>4 DEF AccountsInv, Granted, Exclusive
<1>6. ASSUME NEW v \in Clients, outcome[v] = None
      PROVE  Knows(v)'
  <2>1. Undisturbed(v)
    BY <1>1, <1>4 DEF Undisturbed, TablesKept
  <2> QED
    BY <1>1, <1>6, <2>1, KeepsKnowing DEF AccountsInv
<1>7. RolesKept
  BY <1>1, <1>3 DEF RolesKept
<1> QED
  BY <1>1, <1>2, <1>5, <1>6, <1>7 DEF AccountsInv

\* Every step leaves the invariant and guards the roles.
LEMMA AccountSteps ==
  ASSUME AccountsInv, [Next]_vars
  PROVE  AccountsInv' /\ RolesKept
<1>1. ASSUME NEW s \in Clients, ClientStep(s)
      PROVE  AccountsInv' /\ RolesKept
  <2>1. CASE Execute(s)
    <3>1. UNCHANGED db
      BY <2>1 DEF Execute
    <3> QED
      BY <2>1, <3>1, ExecuteStep DEF RolesKept, Owners, Registered, AdminsOf
  <2>2. CASE CommitAccount(s)
    BY <2>2, CommitStep
  <2>3. CASE Victim(s)
    <3>1. UNCHANGED db
      BY <2>3 DEF Victim
    <3> QED
      BY <2>3, <3>1, VictimStep DEF RolesKept, Owners, Registered, AdminsOf
  <2> QED
    BY <1>1, <2>1, <2>2, <2>3 DEF ClientStep
<1>2. CASE UNCHANGED avars
  BY <1>2, AccountsUntouched
<1> QED
  BY <1>1, <1>2 DEF Next, vars

LEMMA AccountsInductive == Spec => []AccountsInv
<1>1. AccountsInv /\ [Next]_vars => AccountsInv'
  BY AccountSteps
<1> QED
  BY <1>1, InitAccounts, PTL DEF Spec

\* However transactions on PostgreSQL overlap, the instance keeps an owner, a
\* team keeps an administrator, and an owner's account never becomes SSO-only
\* (set_instance_role, delete, require_another_admin, accept, convert_to_sso).
THEOREM RolesAlwaysGuarded == Spec => RolesGuarded
<1>1. AccountsInv /\ [Next]_vars => [RolesKept]_vars
  BY AccountSteps
<1>2. AccountsInv /\ [Next]_vars =>
        [/\ Owners # {} => Owners' # {}
         /\ \A t \in db.teams \cap db'.teams : AdminsOf(t) # {} => AdminsOf(t)' # {}
         /\ \A u \in Owners : u \in Registered' => db'.users[u].provider = db.users[u].provider]_vars
  BY <1>1 DEF RolesKept
<1> QED
  BY <1>2, AccountsInductive, PTL DEF Spec, RolesGuarded

\* Of any number of set-ups and of uses of an invite that overlap, one succeeds
\* (create_initial_owner under the lock of service_settings, accept).
THEOREM GrantedAtMostOnce == Spec => []GrantedOnce
<1>1. ASSUME AccountsInv
      PROVE  GrantedOnce
  <2> DEFINE Done(op, x) == {s \in Clients : /\ batch.calls[s].op = op /\ outcome[s] = "done"
                                             /\ IF op = "accept" THEN batch.calls[s].token = x
                                                ELSE batch.calls[s].initial}
  <2>1. \A S : (\A a, b \in S : a = b) => Cardinality(S) <= 1
    <3> SUFFICES ASSUME NEW S, \A a, b \in S : a = b
                 PROVE  Cardinality(S) <= 1
      OBVIOUS
    <3>1. CASE S = {}
      BY <3>1, FS_EmptySet
    <3>2. CASE S # {}
      <4>1. PICK a : S = {a}
        BY <3>2
      <4> QED
        BY <4>1, FS_Singleton
    <3> QED
      BY <3>1, <3>2
  <2>2. \A a, b \in Done("create", None) : a = b
    BY <1>1 DEF AccountsInv, Granted, Call
  <2>3. \A k \in Tokens : \A a, b \in Done("accept", k) : a = b
    BY <1>1 DEF AccountsInv, Granted, Call
  <2>4. Cardinality(Done("create", None)) <= 1 /\ \A k \in Tokens : Cardinality(Done("accept", k)) <= 1
    <3> HIDE DEF Done
    <3> QED
      BY <2>1, <2>2, <2>3
  <2> QED
    BY <2>4 DEF GrantedOnce
<1> QED
  BY <1>1, AccountsInductive, PTL

\* Nothing ever refers to an account or a team that is gone, and the deletion of
\* a team never runs into the foreign key of its projects (cascade_user,
\* cascade_team, and the locks of new references).
THEOREM ReferencesAlwaysHold == Spec => []ReferencesHold
<1>1. PgInv => IssuesTypeOK
  BY DEF PgInv, RowsInv, TxInv, TxOK, IssuesTypeOK
<1>2. AccountsInv /\ IssuesTypeOK => ReferencesHold
  BY DEF AccountsInv, ReferencesHold, TypeOK, Call
<1> QED
  BY <1>1, <1>2, AccountsInductive, PgInductive, PTL

===============================================================================
