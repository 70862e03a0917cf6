--------------------------- MODULE MCConfigSync ---------------------------
(* Instances of ConfigSync for TLC. *)
EXTENDS ConfigSync, TLC
CONSTANTS t1, t2, p1, p2, u1, u2, g

Grant(emails, groups) == [emails |-> emails, groups |-> groups]
TeamA == t1 :> Grant(u1 :> "contributor", g :> "admin")
TeamB == t2 :> Grant(u1 :> "admin", <<>>)
Owned(p, t, v) == p :> [team |-> t, fields |-> v]
Yaml(teams, projects) ==
  [wellformed |-> TRUE, notifications |-> "x", teams |-> teams, projects |-> projects]

Both == Yaml(TeamA @@ TeamB, Owned(p1, t1, "x") @@ Owned(p2, t2, "x"))
Moved == Yaml(TeamB, Owned(p1, t2, "y"))
OnlyA == Yaml(TeamA, Owned(p1, t1, "x"))
Empty == Yaml(<<>>, <<>>)
NoTeams == Yaml(None, Owned(p1, t1, "y"))
Broken == [Both EXCEPT !.wellformed = FALSE]

Managed(projects, teams, dp, dt) ==
  [projects |-> projects, teams |-> teams, notify |-> "yaml", service |-> "ui", oidc |-> TRUE,
   value |-> "x", valid |-> TRUE, defaults |-> {}, delete_projects |-> dp, delete_teams |-> dt]
FromEnv(s, v, defaults) == [s EXCEPT !.service = "env", !.notify = "ui", !.value = v,
                                     !.defaults = defaults]
ByUi == [Managed("ui", "ui", FALSE, FALSE) EXCEPT !.notify = "ui"]

Freezing == [files |-> {Both, Moved, Empty},
             settings |-> {Managed("yaml", "yaml", dp, dt) : dp, dt \in BOOLEAN},
             ops |-> {"operate"}]
Switching == [files |-> {OnlyA, Moved, NoTeams},
              settings |-> {ByUi, Managed("yaml", "ui", TRUE, FALSE),
                            Managed("ui", "yaml", FALSE, TRUE)},
              ops |-> {"projects", "teams"}]
Joining == [files |-> {Both, Moved, Empty},
            settings |-> {[Managed("ui", "yaml", FALSE, FALSE) EXCEPT !.oidc = o] : o \in BOOLEAN},
            ops |-> {"users", "sign_in"}]
Environment == [files |-> {OnlyA, Empty, Broken},
                settings |-> {FromEnv(Managed("ui", "yaml", FALSE, TRUE), v, {t1}) : v \in {"x", "y"}} \cup
                             {[FromEnv(ByUi, "x", {t1}) EXCEPT !.valid = v] : v \in BOOLEAN},
                ops |-> {"teams"}]
Defaulting == [files |-> {OnlyA, Moved},
               settings |-> {FromEnv(Managed("ui", "yaml", FALSE, FALSE), "x", {}),
                             FromEnv(ByUi, "x", {t1})},
               ops |-> {"users"}]
Adopting == [files |-> {OnlyA, Both},
             settings |-> {ByUi, Managed("ui", "yaml", FALSE, FALSE)},
             ops |-> {"users", "teams"}]
MCWorkloads == {Freezing, Switching, Joining, Environment, Defaulting, Adopting}
===========================================================================
