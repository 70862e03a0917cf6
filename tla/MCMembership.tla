--------------------------- MODULE MCMembership ---------------------------
(* Small instances of Membership for TLC.                                  *)
EXTENDS Membership, TLC

CONSTANTS e1, e2, a1, a2, p1

One == a1 :> e1

Two == (a1 :> e1) @@ (a2 :> e2)

Row(role) == [role |-> role, status |-> "active", provider |-> "local", password |-> p1]

Nobody == [a \in UserIds |-> NoUser]

Calls(endpoints) == [approval |-> FALSE, endpoints |-> endpoints, accounts |-> Nobody]

Local ==
    {Calls({"setup", "register", "set_role", "delete", "profile", "cancel"}),
     Calls({"setup", "create_team", "invite", "revoke_invite", "accept",
            "delete", "delete_team", "cancel"})}

(* SSO is switched on for an instance with local accounts, or is there     *)
(* from the start.                                                         *)
SingleSignOn ==
    {[approval |-> TRUE, accounts |-> [Nobody EXCEPT ![a1] = Row("owner")],
      endpoints |-> {"oidc", "login", "approve", "set_role", "delete", "logout", "cancel"}],
     [approval |-> TRUE, accounts |-> [a \in UserIds |-> Row("member")],
      endpoints |-> {"oidc", "login", "approve", "delete", "profile"}],
     Calls({"oidc", "create_team", "add_member", "set_member_role", "remove_member", "delete"}),
     Calls({"oidc", "create_team", "settings", "delete_team", "add_member", "delete"})}

Passwording == {Calls({"setup", "login", "profile", "logout"})}

Symmetry == Permutations(Requests)
===========================================================================
