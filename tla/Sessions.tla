------------------------------ MODULE Sessions ------------------------------
(***************************************************************************)
(* Login, session cookies and the session gate (packages/runtime/src/      *)
(* auth.ts and session.ts), over the limiter of audit appends that the     *)
(* gate calls for a cookie it rejects.  The state of a login lives in a    *)
(* signed cookie of the browser and in the identity provider, and is used  *)
(* across the awaits of the two handlers: discovery, the code exchange and *)
(* the audit appends.                                                      *)
(***************************************************************************)
EXTENDS RejectedLimiter

CONSTANTS Browsers,
          Handlers,    \* requests to /auth/login and /auth/callback in progress
          Flows,       \* logins begun: state, nonce and PKCE verifier of each
          Subs,        \* identities the provider may assert
          Reserved,    \* ... the ones that start with "agent:" or "a2a:"
          WithRoles,   \* ... the ones whose ID token has a roles claim
          SessionTtl, TxnTtl,
          DevMode,
          None

ASSUME SessionsAssumption == /\ Reserved \subseteq Subs
                             /\ SessionTtl \in Nat /\ TxnTtl \in Nat
                             /\ DevMode \in BOOLEAN

VARIABLES sess,    \* the session cookie of each browser
          txn,     \* its login-transaction cookie
          disc,    \* cached discovery: "none" | "pending" | "ok"
          stage,   \* where each handler is
          job,     \* its browser, the flow of its URL and of its cookie, its sub
          flow,    \* each login at the provider: "new" | "begun" | "code" | "redeemed"
          who,     \* ... who authenticated in it
          origin,  \* history: the browser that began it
          minted   \* history: session tokens, the browser they were set in, when

loginVars == <<sess, txn, disc, stage, job, flow, who, origin, minted>>
allVars == <<vars, loginVars>>

-----------------------------------------------------------------------------
(* session.ts: what a signed value says and when it verifies.              *)

SessionToken(sub, roles, exp) == [purpose |-> "session", sub |-> sub, roles |-> roles, exp |-> exp]
TxnToken(f, exp) == [purpose |-> "txn", flow |-> f, exp |-> exp]

\* Mutant: a token is good through the second it expires in.
verifyPayload_Inclusive(token, purpose) == token.purpose = purpose /\ token.exp >= now

\* The MAC is over the purpose and the body: a value verifies for the purpose
\* it was signed for, until it expires.  Junk verifies for none.
verifyPayload(token, purpose) == token.purpose = purpose /\ token.exp > now

\* isSessionData: the payload carries an identity.
isSessionData(token) == "sub" \in DOMAIN token /\ "roles" \in DOMAIN token

\* A request with this cookie, or this bearer token, has an identity.
Admits(token) == verifyPayload(token, "session") /\ isSessionData(token)

Junk(key) == [purpose |-> "junk", value |-> key, exp |-> MaxTime + 1]

-----------------------------------------------------------------------------
NoJob == [browser |-> None, url |-> None, cookie |-> None, sub |-> None, exp |-> 0]

LoginInit == /\ Init
             /\ sess = [b \in Browsers |-> None]
             /\ txn = [b \in Browsers |-> None]
             /\ disc = "none"
             /\ stage = [h \in Handlers |-> "idle"]
             /\ job = [h \in Handlers |-> NoJob]
             /\ flow = [f \in Flows |-> "new"]
             /\ who = [f \in Flows |-> None]
             /\ origin = [f \in Flows |-> None]
             /\ minted = {}

Finish(h) == /\ stage' = [stage EXCEPT ![h] = "idle"]
             /\ job' = [job EXCEPT ![h] = NoJob]

\* getConfiguration: the cached promise, or a discovery of its own.
AwaitDiscovery(h, next) == /\ stage' = [stage EXCEPT ![h] = next]
                           /\ disc' = IF disc = "none" THEN "pending" ELSE disc

DiscoveryOk == /\ disc = "pending"
               /\ disc' = "ok"
               /\ UNCHANGED <<vars, sess, txn, stage, job, flow, who, origin, minted>>

\* Mutant: the rejected promise stays in the cache.
Uncached_Kept == "failed"

\* What the cache holds after a failed discovery.
Uncached == "none"

\* Mutant: the failure is logged and the promise never settles.
DiscoveryFails_Swallowed ==
  /\ disc = "pending"
  /\ disc' = Uncached
  /\ UNCHANGED <<vars, sess, txn, stage, job, flow, who, origin, minted>>

\* Discovery fails: everyone who awaited the promise answers 502.
DiscoveryFails ==
  /\ disc = "pending"
  /\ disc' = Uncached
  /\ stage' = [h \in Handlers |-> IF stage[h] \in {"login", "callback"} THEN "idle" ELSE stage[h]]
  /\ job' = [h \in Handlers |-> IF stage[h] \in {"login", "callback"} THEN NoJob ELSE job[h]]
  /\ UNCHANGED <<vars, sess, txn, flow, who, origin, minted>>

-----------------------------------------------------------------------------
\* Bound: a handler in /auth/login has a flow to begin.
FlowLeft == Cardinality({f \in Flows : flow[f] = "new"})
               > Cardinality({h \in Handlers : stage[h] = "login"})

\* GET /auth/login, up to the await of the configuration.
Login(h, b) == /\ stage[h] = "idle"
               /\ FlowLeft
               /\ AwaitDiscovery(h, "login")
               /\ job' = [job EXCEPT ![h] = [NoJob EXCEPT !.browser = b]]
               /\ UNCHANGED <<vars, sess, txn, flow, who, origin, minted>>

\* ... and its answer: a transaction of its own in the browser's cookie, over
\* the one of another tab, and the redirect to the provider.
LoginReply(h, f) ==
  LET b == job[h].browser IN
  /\ stage[h] = "login" /\ disc = "ok"
  /\ flow[f] = "new"
  /\ flow' = [flow EXCEPT ![f] = "begun"]
  /\ origin' = [origin EXCEPT ![f] = b]
  /\ txn' = [txn EXCEPT ![b] = TxnToken(f, now + TxnTtl)]
  /\ Finish(h)
  /\ UNCHANGED <<vars, sess, disc, who, minted>>

\* The provider authenticates someone and redirects to the callback with a code.
Authenticates(f, sub) == /\ flow[f] = "begun"
                         /\ flow' = [flow EXCEPT ![f] = "code"]
                         /\ who' = [who EXCEPT ![f] = sub]
                         /\ UNCHANGED <<vars, sess, txn, disc, stage, job, origin, minted>>

\* GET /auth/callback with the code of flow f, opened in browser b: the tab
\* that began f, the same tab again, or another browser the link got to.
\* Without a transaction cookie that verifies the answer is 400.
Callback(h, b, f) ==
  /\ stage[h] = "idle" /\ flow[f] \in {"code", "redeemed"}
  /\ txn[b] # None /\ verifyPayload(txn[b], "txn")
  /\ AwaitDiscovery(h, "callback")
  /\ job' = [job EXCEPT ![h] = [NoJob EXCEPT !.browser = b, !.url = f, !.cookie = txn[b].flow]]
  /\ UNCHANGED <<vars, sess, txn, flow, who, origin, minted>>

\* Mutant: the state, nonce and verifier of the transaction are not compared.
GrantAccepts_AnyState(j) == flow[j.url] = "code"

\* authorizationCodeGrant: the state of the URL and the nonce and verifier of
\* the code are the transaction's, and the provider takes a code once.
GrantAccepts(j) == j.url = j.cookie /\ flow[j.url] = "code"

\* The exchange is refused or never reaches the provider; or it took the code and
\* its answer is lost, or the ID token has no sub, or one with a reserved prefix
\* (audited): 401, and no cookie is touched.
GrantRefused(h) ==
  /\ stage[h] = "callback" /\ disc = "ok"
  /\ \/ UNCHANGED flow
     \/ /\ GrantAccepts(job[h])
        /\ flow' = [flow EXCEPT ![job[h].url] = "redeemed"]
  /\ Finish(h)
  /\ UNCHANGED <<vars, sess, txn, disc, who, origin, minted>>

\* hasReservedIdentityPrefix.
IsReserved(sub) == sub \in Reserved

\* The tokens are valid and the session is made; the audit appends come before
\* the answer.
Grant(h) ==
  LET j == job[h] IN
  /\ stage[h] = "callback" /\ disc = "ok"
  /\ GrantAccepts(j) /\ ~IsReserved(who[j.url])
  /\ flow' = [flow EXCEPT ![j.url] = "redeemed"]
  /\ job' = [job EXCEPT ![h].sub = who[j.url], ![h].exp = now + SessionTtl]
  /\ stage' = [stage EXCEPT ![h] = "reply"]
  /\ UNCHANGED <<vars, sess, txn, disc, who, origin, minted>>

\* The roles of a session: the claim's, or in dev mode every role of the app
\* for a user who has none.
Roles(sub) == IF sub \in WithRoles THEN "claimed" ELSE IF DevMode THEN "app" ELSE "none"

\* The callback's answer: the transaction cookie goes, the session is set.
CallbackReply(h) ==
  LET j == job[h]
      token == SessionToken(j.sub, Roles(j.sub), j.exp)
  IN /\ stage[h] = "reply"
     /\ txn' = [txn EXCEPT ![j.browser] = None]
     /\ sess' = [sess EXCEPT ![j.browser] = token]
     /\ minted' = minted \union {[token |-> token, browser |-> j.browser, flow |-> j.url,
                                  at |-> j.exp - SessionTtl]}
     /\ Finish(h)
     /\ UNCHANGED <<vars, disc, flow, who, origin>>

\* POST /auth/logout.
Logout(b) == /\ sess[b] # None
             /\ sess' = [sess EXCEPT ![b] = None]
             /\ UNCHANGED <<vars, txn, disc, stage, job, flow, who, origin, minted>>

-----------------------------------------------------------------------------
\* The onRequest hook finds a session: the request goes on to its route.
GateAdmits(b) == /\ sess[b] # None /\ Admits(sess[b])
                 /\ UNCHANGED allVars

\* It rejects the cookie of a browser: the cookie is cleared, and unless the
\* path is public the limiter says whether the rejection is audited.
GateRejects(b) == /\ sess[b] # None /\ ~Admits(sess[b])
                  /\ sess' = [sess EXCEPT ![b] = None]
                  /\ shouldAppend(sess[b]) \/ UNCHANGED vars
                  /\ UNCHANGED <<txn, disc, stage, job, flow, who, origin, minted>>

\* ... and the cookie of a caller that keeps no cookies.
\* Bound: such callers come in behaviours without a login.
GateRejectsJunk(key) == /\ \A f \in Flows : flow[f] = "new"
                        /\ \A h \in Handlers : stage[h] = "idle"
                        /\ ~Admits(Junk(key))
                        /\ shouldAppend(Junk(key))
                        /\ UNCHANGED loginVars

HandlerStep(h) == \/ \E f \in Flows : LoginReply(h, f)
                  \/ GrantRefused(h) \/ Grant(h)
                  \/ CallbackReply(h)

LoginNext ==
  \/ Tick /\ UNCHANGED loginVars
  \/ DiscoveryOk \/ DiscoveryFails
  \/ \E h \in Handlers : \/ HandlerStep(h)
                         \/ \E b \in Browsers : \/ appends = <<>> /\ Login(h, b)
                                                \/ \E f \in Flows : Callback(h, b, f)
  \/ \E f \in Flows, sub \in Subs : Authenticates(f, sub)
  \/ \E b \in Browsers : Logout(b) \/ GateAdmits(b) \/ GateRejects(b)
  \/ \E key \in Keys : GateRejectsJunk(key)

\* Awaits settle: a discovery ends one way or the other, and a handler that can
\* go on does.  The provider is not down for ever: of the discoveries begun
\* again and again one succeeds.
LoginSpec == /\ LoginInit /\ [][LoginNext]_allVars
             /\ WF_allVars(DiscoveryOk \/ DiscoveryFails)
             /\ SF_allVars(DiscoveryOk)
             /\ \A h \in Handlers : WF_allVars(HandlerStep(h))

-----------------------------------------------------------------------------
\* A browser's session is for whoever authenticated in a login that this very
\* browser began: a callback opened elsewhere, after another tab's login
\* replaced the transaction cookie, or twice, never sets one.
OwnLogin ==
  \A b \in Browsers : sess[b] # None =>
     \E f \in Flows : origin[f] = b /\ flow[f] = "redeemed" /\ who[f] = sess[b].sub

Circulating == {m.token : m \in minted} \union ({txn[b] : b \in Browsers} \ {None})
                 \union {Junk(key) : key \in Keys}

\* Of all the signed values that were ever given out, what the gate and the MCP
\* token check would admit now (also after a logout, the token being
\* stateless) is a session no older than its lifetime of an identity that is
\* not reserved for machines; never a transaction cookie.
AdmittedIsLive ==
  \A token \in Circulating : Admits(token) =>
     \E m \in minted : /\ m.token = token
                       /\ now < m.at + SessionTtl
                       /\ token.sub \notin Reserved

\* Every request to /auth/login and /auth/callback is answered, whatever
\* becomes of the discovery it shares with others.
HandlersReturn == \A h \in Handlers : stage[h] # "idle" ~> stage[h] = "idle"

\* "A temporarily unreachable IdP does not poison the process": if logins keep
\* being tried, one of them finds a discovery that works.
NotPoisoned == ([]<>(\E h \in Handlers : stage[h] = "login")) => <>(disc = "ok")
=============================================================================
