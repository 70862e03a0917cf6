---------------------------- MODULE MCPgStores ----------------------------
(* Issues: two fingerprints, up to two issues and three overlapping calls. *)
(* Accounts: two owners who administer a team with a project, a member, an *)
(* empty default team; every set of three overlapping calls.               *)
EXTENDS PgAccounts

OnIssues ==
  << [op |-> "upsert", fingerprint |-> "f"],
     [op |-> "upsert", fingerprint |-> "g"],
     [op |-> "override", id |-> 1, fingerprint |-> "f"],
     [op |-> "override", id |-> 1, fingerprint |-> "g"],
     [op |-> "override", id |-> 2, fingerprint |-> "f"],
     [op |-> "override", id |-> 2, fingerprint |-> "g"],
     [op |-> "set_status", id |-> 1, status |-> "resolved"],
     [op |-> "delete", id |-> 1] >>
MCCalls == ToSet(OnIssues)

Empty == [users |-> [u \in Users |-> NoUser], members |-> [t \in Teams |-> [u \in Users |-> None]],
          teams |-> {}, defaults |-> {}, projects |-> [p \in Projects |-> None],
          invites |-> [k \in Tokens |-> NoInvite]]

Running ==
  [users |-> [u \in Users |-> IF u = "dee" THEN NoUser
                              ELSE [role |-> IF u = "cid" THEN "member" ELSE "owner", provider |-> "local"]],
   members |-> [t \in Teams |-> [u \in Users |-> IF t = "a" /\ u \in {"ann", "bob"} THEN "admin" ELSE None]],
   teams |-> Teams, defaults |-> {"b"},
   projects |-> [p \in Projects |-> IF p = "p" THEN "a" ELSE None],
   invites |-> [k \in Tokens |-> [team |-> IF k = "x" THEN "a" ELSE "b",
                                  role |-> IF k = "x" THEN "contributor" ELSE "admin",
                                  by |-> "ann", accepted |-> FALSE]]]

SetUp == << [op |-> "create", user |-> "ann", initial |-> TRUE],
            [op |-> "create", user |-> "bob", initial |-> TRUE],
            [op |-> "create", user |-> "ann", initial |-> FALSE] >>

OnAccounts ==
  << [op |-> "set_role", user |-> "ann", role |-> "member"],
     [op |-> "set_role", user |-> "bob", role |-> "member"],
     [op |-> "set_role", user |-> "cid", role |-> "owner"],
     [op |-> "delete_user", user |-> "ann"],
     [op |-> "delete_user", user |-> "bob"],
     [op |-> "convert", user |-> "cid"],
     [op |-> "create", user |-> "dee", initial |-> FALSE],
     [op |-> "add_member", team |-> "a", user |-> "ann", role |-> "contributor"],
     [op |-> "add_member", team |-> "b", user |-> "cid", role |-> "contributor"],
     [op |-> "set_member", team |-> "a", user |-> "bob", role |-> "contributor"],
     [op |-> "set_member", team |-> "a", user |-> "bob", role |-> None],
     [op |-> "accept", token |-> "x", user |-> "bob"],
     [op |-> "accept", token |-> "y", user |-> "cid"],
     [op |-> "accept", token |-> "y", user |-> "bob"],
     [op |-> "delete_team", team |-> "a", to |-> "b"],
     [op |-> "delete_team", team |-> "b", to |-> None],
     [op |-> "project", project |-> "q", team |-> "b"],
     [op |-> "project", project |-> "p", team |-> "b"] >>

\* Every three calls, in one order: who makes which is immaterial.
Threes(calls) ==
  LET Places == 1..Len(calls)
  IN  {<<calls[i], calls[j], calls[k]>> :
         <<i, j, k>> \in {x \in Places \X Places \X Places : x[1] <= x[2] /\ x[2] <= x[3]}}

MCBatches ==
  [about: {"issues"}, db: {Empty}, calls: Threes(OnIssues)]
  \cup [about: {"accounts"}, db: {Empty}, calls: {SetUp}]
  \cup [about: {"accounts"}, db: {Running},
        calls: {c \in Threes(OnAccounts) : c[1] # c[2] /\ c[2] # c[3]}]
===========================================================================
