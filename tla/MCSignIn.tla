---------------------------- MODULE MCSignIn ----------------------------
(* Instances of SsoFlow for TLC. *)
EXTENDS SsoFlow, TLC
CONSTANTS u1, u2, h1, h2, h3, c1, c2, c3, f1, f2, k1, k2

Symmetric == Permutations(Handles) \cup Permutations(Credentials)

For(ticks, ops) == [ops |-> ops, ticks |-> ticks]
MCWorkloads ==
  { For(4, {"password"}),
    For(1, {"password", "restart"}),
    For(0, {"passkey", "register", "delete"}),
    For(0, {"passkey", "register", "remove", "drop"}),
    For(1, {"register", "passkey"}),
    For(3, {"passkey", "restart"}),
    For(4, {"ingest"}),
    For(1, {"sso"}),
    For(0, {"sso", "oidc"}) }
===========================================================================
