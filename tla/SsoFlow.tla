------------------------------ MODULE SsoFlow ------------------------------
(***************************************************************************)
(* Signing in through an identity provider, composed with Passkeys into    *)
(* the sign-in surface of the server: oidc_login and run_callback of       *)
(* auth/oidc_handlers.rs, auth/oidc.rs, auth/github.rs.  Between the two   *)
(* requests the server keeps nothing: what it needs is in a signed cookie, *)
(* which a second sign-in of the same browser overwrites and every         *)
(* callback clears.  A flow stands for the state, the nonce and the PKCE   *)
(* verifier drawn together.  What the verified address leads to            *)
(* (provisioning, approval) is in Accounts.                                *)
(***************************************************************************)
EXTENDS Passkeys

CONSTANTS Browsers, Flows, Codes,
          StateTtl     \* STATE_TTL_SECS

ASSUME SsoAssumption == /\ StateTtl \in Nat \ {0}
                        /\ None \notin Flows \cup Codes \cup Browsers

VARIABLES jar,      \* the state cookie of each browser
          flows,    \* the flows begun: browser and expiry, signed into the cookie
          codes,    \* the provider's codes: flow, person, whether redeemed
          visits,   \* the callback each request is running
          entered   \* history: the sessions opened by callbacks

svars == <<jar, flows, codes, visits, entered>>
vars == <<gvars, pvars, svars, workload>>

Visit == [pc: {"none", "exchange", "open"}, browser: Browsers \cup {None},
          flow: Flows \cup {None}, code: Codes \cup {None}]
NoVisit == [pc |-> "none", browser |-> None, flow |-> None, code |-> None]

\* A spray of distinct addresses cannot grow the guard's map: it holds at most
\* the threshold and the shared entry (record_failure_at).  Counters stay in
\* range, and every stored challenge and cookie is one the server has made.
TypeOK ==
  /\ GuardTypeOK /\ PasskeysTypeOK
  /\ jar \in [Browsers -> Flows \cup {None}]
  /\ DOMAIN flows \subseteq Flows /\ DOMAIN codes \subseteq Codes
  /\ \A b \in Browsers : jar[b] \in DOMAIN flows \cup {None}
  /\ visits \in [Requests -> Visit]

Init ==
  /\ InitGuard /\ InitPasskeys
  /\ jar = [b \in Browsers |-> None]
  /\ flows = <<>> /\ codes = <<>>
  /\ visits = [r \in Requests |-> NoVisit]
  /\ entered = {}
  /\ workload \in Workloads

Extended(f, x, y) == [k \in DOMAIN f \cup {x} |-> IF k = x THEN y ELSE f[k]]

\* What the signed cookie says: encode_state_cookie, and decode_state_cookie
\* for a cookie that is there and has not expired.
Encoded(b) == [browser |-> b, expires |-> now + StateTtl]
Decodes(f) == f # None /\ now < flows[f].expires

\* oidc_login, authorize_url.
OidcLogin ==
  /\ "sso" \in workload.ops
  /\ \E b \in Browsers, f \in Flows \ DOMAIN flows :
       /\ flows' = Extended(flows, f, Encoded(b))
       /\ jar' = [jar EXCEPT ![b] = f]
  /\ UNCHANGED <<codes, visits, entered>>

\* The provider knows the person and redirects with the flow's state and a code.
Authorize ==
  /\ \E c \in Codes \ DOMAIN codes, f \in DOMAIN flows, u \in Users :
       codes' = Extended(codes, c, [flow |-> f, user |-> u, redeemed |-> FALSE])
  /\ UNCHANGED <<jar, flows, visits, entered>>

\* Fault: the state of the redirect is not compared with the cookie's.
AnyState(f, s) == TRUE
\* payload.state = state_param.
StateMatches(f, s) == f = s

\* run_callback up to the exchange: a redirect, perhaps repeated or opened
\* somewhere else, meets the cookie of the browser it arrives in.
Callback(r) ==
  /\ visits[r].pc = "none"
  /\ \E b \in Browsers, c \in DOMAIN codes :
       LET f == jar[b]
       IN  IF Decodes(f) /\ StateMatches(f, codes[c].flow)
           THEN /\ visits' = [visits EXCEPT ![r] = [pc |-> "exchange", browser |-> b,
                                                    flow |-> f, code |-> c]]
                /\ UNCHANGED jar
           ELSE jar' = [jar EXCEPT ![b] = None] /\ UNCHANGED visits
  /\ UNCHANGED <<flows, codes, entered>>

\* The answer, an error or the redirect home, clears the cookie by its name.
Cleared(r) == /\ jar' = [jar EXCEPT ![visits[r].browser] = None]
              /\ visits' = [visits EXCEPT ![r] = NoVisit]

\* exchange_code: an OIDC provider gives the token for the PKCE verifier and
\* the nonce of the flow the code belongs to, GitHub binds no code ...
Bound(c, f) == "oidc" \in workload.ops => codes[c].flow = f
\* ... and either redeems a code once.
Redeemable(c, f) == ~codes[c].redeemed /\ Bound(c, f)

\* normalize_claims, load_group_claims, email_domain_allowed: the code is spent,
\* and an address that is missing, unverified or not listed is refused.
ClaimsRefused(r) == Cleared(r)

Exchange(r) ==
  /\ visits[r].pc = "exchange"
  /\ LET v == visits[r] IN
     IF Redeemable(v.code, v.flow)
     THEN /\ codes' = [codes EXCEPT ![v.code].redeemed = TRUE]
          /\ \/ ClaimsRefused(r)
             \/ visits' = [visits EXCEPT ![r].pc = "open"] /\ UNCHANGED jar
     ELSE Cleared(r) /\ UNCHANGED codes
  /\ UNCHANGED <<flows, entered>>

OpenSession(r) ==
  /\ visits[r].pc = "open"
  /\ LET v == visits[r] IN
     entered' = entered \cup {[browser |-> v.browser, flow |-> v.flow, code |-> v.code,
                               user |-> codes[v.code].user]}
  /\ Cleared(r)
  /\ UNCHANGED <<flows, codes>>

SsoNext == OidcLogin \/ Authorize \/ \E r \in Requests : Callback(r) \/ Exchange(r) \/ OpenSession(r)

Passes == now < workload.ticks /\ Tick /\ UNCHANGED <<pvars, svars>>

Next ==
  /\ \/ PasskeyNext /\ UNCHANGED svars
     \/ SsoNext /\ UNCHANGED <<gvars, pvars>>
     \/ Passes
  /\ UNCHANGED workload

Spec == Init /\ [][Next]_vars

-----------------------------------------------------------------------------
(* Properties.                                                             *)

\* A redirect that is repeated, late or opened in another browser signs nobody
\* in: the session goes to the browser that began the flow, the person is the
\* one the provider knew in that flow, and a code that has opened a session
\* opens no other (run_callback, exchange_code).
SessionOfOwnFlow ==
  \A e \in entered :
    /\ flows[e.flow].browser = e.browser
    /\ e.code \in DOMAIN codes
    /\ codes[e.code].redeemed
    /\ codes[e.code].flow = e.flow /\ codes[e.code].user = e.user
    /\ \A r \in Requests : visits[r].pc = "open" => visits[r].code # e.code
=============================================================================
