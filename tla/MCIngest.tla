----------------------------- MODULE MCIngest -----------------------------
(* Instances of Ingest for TLC. *)
EXTENDS Ingest
CONSTANTS p1, p2, k1, k2, k3, t1, t2, m, a, rule

Event(f, tags) == [event |-> TRUE, valid |-> TRUE, fingerprint |-> f, tags |-> tags]
Attachment == [event |-> FALSE, valid |-> TRUE, fingerprint |-> "none", tags |-> {}]
Small == {<<Event("g", {"x"})>>}
Large == {<<Event("f", {}), Attachment, Event("g", {"x"})>>}
MCEnvelopes == Small \cup Large
MCRuleTags == [k \in Rules |-> {"x"}]

Api(ops) ==
  [ops |-> ops, requests |-> Requests, ui |-> TRUE, bodies |-> {}, webhooks |-> FALSE]
Sdk(ops, ui, bodies, webhooks) ==
  [ops |-> ops \cup {"send"}, requests |-> {1}, ui |-> ui, bodies |-> bodies, webhooks |-> webhooks]
MCWorkloads ==
  { Api({"update", "move"}),
    Api({"create", "members"}),
    Api({"create", "delete"}),
    Api({"move", "members"}),
    Api({"mute", "members"}),
    Api({"regenerate", "favorite", "delete"}),
    Api({"mute", "add_rule", "drop_rule", "view", "delete"}),
    Sdk({"mute", "regenerate"}, FALSE, Small, FALSE),
    Sdk({"move", "delete", "members"}, TRUE, Small, TRUE),
    Sdk({"update"}, TRUE, Small, TRUE),
    Sdk({"add_rule", "crash"}, TRUE, Large, TRUE) }
===========================================================================
