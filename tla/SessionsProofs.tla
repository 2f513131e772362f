--------------------------- MODULE SessionsProofs ---------------------------
(***************************************************************************)
(* Who is logged in as whom, for any number of browsers, logins, handlers  *)
(* and identities.                                                         *)
(***************************************************************************)
EXTENDS Sessions, FiniteSetTheorems, SequenceTheorems, TLAPS

-----------------------------------------------------------------------------
(* The inductive invariant.                                                *)

Stages == {"idle", "login", "callback", "reply"}
Jobs == [browser : Browsers \union {None}, url : Flows \union {None},
         cookie : Flows \union {None}, sub : Subs \union {None}, exp : Nat]

\* The variables are functions of what they should be; tokens keep their shape.
Shapes ==
  /\ now \in Nat
  /\ stage \in [Handlers -> Stages]
  /\ job \in [Handlers -> Jobs]
  /\ flow \in [Flows -> {"new", "begun", "code", "redeemed"}]
  /\ who \in [Flows -> Subs \union {None}]
  /\ origin \in [Flows -> Browsers \union {None}]
  /\ DOMAIN sess = Browsers /\ DOMAIN txn = Browsers
  /\ sess = [b \in Browsers |-> sess[b]] /\ txn = [b \in Browsers |-> txn[b]]

\* Whoever has a code has authenticated.
CodesKnown == \A f \in Flows : flow[f] \in {"code", "redeemed"} => who[f] \in Subs

\* A transaction cookie is of a login its browser began.
TxnOwn(b) == txn[b] # None =>
  /\ txn[b].purpose = "txn" /\ txn[b].flow \in Flows
  /\ origin[txn[b].flow] = b /\ flow[txn[b].flow] # "new"

\* What a handler in the middle of a login has in hand is still true.
JobOwn(h) ==
  LET j == job[h] IN
  /\ stage[h] # "idle" => j.browser \in Browsers
  /\ stage[h] = "callback" =>
       /\ j.url \in Flows /\ j.cookie \in Flows
       /\ origin[j.cookie] = j.browser /\ flow[j.cookie] # "new"
       /\ flow[j.url] \in {"code", "redeemed"}
  /\ stage[h] = "reply" =>
       /\ j.url \in Flows /\ j.sub \in Subs \ Reserved
       /\ origin[j.url] = j.browser /\ flow[j.url] = "redeemed" /\ who[j.url] = j.sub
       /\ j.exp >= SessionTtl

\* A browser's session is for who authenticated in a login of its own.
SessOwn(b) == sess[b] # None =>
  \E f \in Flows : origin[f] = b /\ flow[f] = "redeemed" /\ who[f] = sess[b].sub

\* A session token that was given out says when, and is for a person.
MintedTrue == \A m \in minted :
  /\ m.at \in Nat /\ m.token.exp = m.at + SessionTtl
  /\ m.token.sub \in Subs \ Reserved

LoginInv == /\ Shapes /\ CodesKnown /\ MintedTrue
            /\ \A b \in Browsers : TxnOwn(b) /\ SessOwn(b)
            /\ \A h \in Handlers : JobOwn(h)

-----------------------------------------------------------------------------
(* A login only goes forward, and what was settled of it stays.            *)

Forward ==
  \A f \in Flows :
    /\ flow[f] # "new" => flow'[f] # "new" /\ origin'[f] = origin[f]
    /\ flow[f] \in {"code", "redeemed"} => flow'[f] \in {"code", "redeemed"} /\ who'[f] = who[f]
    /\ flow[f] = "redeemed" => flow'[f] = "redeemed"

LEMMA SameFlows == ASSUME UNCHANGED <<flow, who, origin>> PROVE Forward
BY DEF Forward

\* A handler that does nothing keeps what it has in hand.
LEMMA JobKept ==
  ASSUME Forward, NEW h \in Handlers, JobOwn(h), stage'[h] = stage[h], job'[h] = job[h]
  PROVE  JobOwn(h)'
BY DEF Forward, JobOwn

\* So does one that has ended.
LEMMA IdleOwnsNothing ==
  ASSUME NEW h \in Handlers, stage'[h] = "idle"
  PROVE  JobOwn(h)'
BY DEF JobOwn

LEMMA TxnKept ==
  ASSUME Forward, NEW b \in Browsers, TxnOwn(b), txn'[b] = txn[b] \/ txn'[b] = None
  PROVE  TxnOwn(b)'
BY DEF Forward, TxnOwn

LEMMA SessKept ==
  ASSUME Forward, NEW b \in Browsers, SessOwn(b), sess'[b] = sess[b] \/ sess'[b] = None
  PROVE  SessOwn(b)'
<1>1. CASE sess'[b] = None
  BY <1>1 DEF SessOwn
<1>2. CASE sess'[b] = sess[b] /\ sess[b] # None
  <2>1. PICK f \in Flows : origin[f] = b /\ flow[f] = "redeemed" /\ who[f] = sess[b].sub
    BY <1>2 DEF SessOwn
  <2>2. origin'[f] = b /\ flow'[f] = "redeemed" /\ who'[f] = sess'[b].sub
    BY <1>2, <2>1 DEF Forward
  <2> QED BY <2>2 DEF SessOwn
<1> QED BY <1>1, <1>2

\* A step that moves one handler and no cookie but to clear it.
LEMMA QuietStep ==
  ASSUME LoginInv, Shapes', Forward, CodesKnown', UNCHANGED minted,
         \A b \in Browsers : txn'[b] = txn[b] \/ txn'[b] = None,
         \A b \in Browsers : sess'[b] = sess[b] \/ sess'[b] = None,
         \A h \in Handlers : \/ stage'[h] = stage[h] /\ job'[h] = job[h]
                             \/ stage'[h] = "idle"
                             \/ JobOwn(h)'
  PROVE  LoginInv'
<1>1. \A b \in Browsers : TxnOwn(b)' /\ SessOwn(b)'
  BY TxnKept, SessKept DEF LoginInv
<1>2. \A h \in Handlers : JobOwn(h)'
  BY JobKept, IdleOwnsNothing DEF LoginInv
<1>3. MintedTrue'
  BY DEF LoginInv, MintedTrue
<1> QED BY <1>1, <1>2, <1>3 DEF LoginInv

-----------------------------------------------------------------------------
(* The steps.                                                              *)

LEMMA NoJobIsJob == NoJob \in Jobs
BY DEF NoJob, Jobs

LEMMA DiscoverySteps ==
  ASSUME LoginInv, DiscoveryOk \/ DiscoveryFails
  PROVE  LoginInv'
<1>1. UNCHANGED <<now, sess, txn, flow, who, origin, minted>>
  BY DEF DiscoveryOk, DiscoveryFails, vars
<1>2. \A h \in Handlers : (stage'[h] = stage[h] /\ job'[h] = job[h]) \/ stage'[h] = "idle"
  BY DEF DiscoveryOk, DiscoveryFails
<1>3. Shapes'
  <2>1. stage' \in [Handlers -> Stages]
    BY DEF DiscoveryOk, DiscoveryFails, LoginInv, Shapes, Stages
  <2>2. job' \in [Handlers -> Jobs]
    BY NoJobIsJob DEF DiscoveryOk, DiscoveryFails, LoginInv, Shapes
  <2> QED BY <1>1, <2>1, <2>2 DEF LoginInv, Shapes
<1>4. Forward /\ CodesKnown'
  BY <1>1 DEF Forward, LoginInv, CodesKnown
<1> QED BY <1>1, <1>2, <1>3, <1>4, QuietStep

LEMMA LoginStep ==
  ASSUME LoginInv, NEW h \in Handlers, NEW b \in Browsers, Login(h, b)
  PROVE  LoginInv'
<1> DEFINE j == [NoJob EXCEPT !.browser = b]
<1>1. UNCHANGED <<now, sess, txn, flow, who, origin, minted>>
  BY DEF Login, vars
<1>2. /\ stage' = [stage EXCEPT ![h] = "login"] /\ job' = [job EXCEPT ![h] = j]
  BY DEF Login, AwaitDiscovery
<1>3. j \in Jobs /\ j.browser = b
  BY DEF NoJob, Jobs
<1>4. Shapes'
  BY <1>1, <1>2, <1>3 DEF LoginInv, Shapes, Stages
<1>5. JobOwn(h)'
  BY <1>2, <1>3 DEF LoginInv, Shapes, JobOwn
<1>6. \A g \in Handlers \ {h} : stage'[g] = stage[g] /\ job'[g] = job[g]
  BY <1>2 DEF LoginInv, Shapes
<1>7. Forward /\ CodesKnown'
  BY <1>1 DEF Forward, LoginInv, CodesKnown
<1> QED BY <1>1, <1>4, <1>5, <1>6, <1>7, QuietStep

\* The handler ends.
LEMMA FinishStep ==
  ASSUME LoginInv, NEW h \in Handlers, Finish(h)
  PROVE  /\ stage' \in [Handlers -> Stages] /\ job' \in [Handlers -> Jobs]
         /\ stage'[h] = "idle"
         /\ \A g \in Handlers \ {h} : stage'[g] = stage[g] /\ job'[g] = job[g]
BY NoJobIsJob DEF Finish, LoginInv, Shapes, Stages

LEMMA LoginReplyStep ==
  ASSUME LoginInv, NEW h \in Handlers, NEW f \in Flows, LoginReply(h, f)
  PROVE  LoginInv'
<1> DEFINE b == job[h].browser
<1>1. /\ stage[h] = "login" /\ flow[f] = "new"
      /\ flow' = [flow EXCEPT ![f] = "begun"] /\ origin' = [origin EXCEPT ![f] = b]
      /\ txn' = [txn EXCEPT ![b] = TxnToken(f, now + TxnTtl)]
      /\ Finish(h) /\ UNCHANGED <<now, sess, who, minted>>
  BY DEF LoginReply, vars
<1>2. b \in Browsers
  BY <1>1 DEF LoginInv, JobOwn
<1>3. Shapes'
  <2>1. DOMAIN txn' = Browsers /\ txn' = [a \in Browsers |-> txn'[a]]
    BY <1>1 DEF LoginInv, Shapes
  <2>2. flow' \in [Flows -> {"new", "begun", "code", "redeemed"}] /\ origin' \in [Flows -> Browsers \union {None}]
    BY <1>1, <1>2 DEF LoginInv, Shapes
  <2> QED BY <1>1, <2>1, <2>2, FinishStep DEF LoginInv, Shapes
<1>4. Forward
  BY <1>1 DEF Forward, LoginInv, Shapes
<1>5. CodesKnown'
  BY <1>1 DEF CodesKnown, LoginInv, Shapes
<1>6. \A a \in Browsers : TxnOwn(a)'
  <2> SUFFICES ASSUME NEW a \in Browsers PROVE TxnOwn(a)'
    OBVIOUS
  <2>1. CASE a = b
    <3>1. txn'[a] = TxnToken(f, now + TxnTtl)
      BY <1>1, <1>2, <2>1 DEF LoginInv, Shapes
    <3>2. txn'[a].purpose = "txn" /\ txn'[a].flow = f
      BY <3>1 DEF TxnToken
    <3>3. origin'[f] = a /\ flow'[f] # "new"
      BY <1>1, <2>1 DEF LoginInv, Shapes
    <3> QED BY <3>2, <3>3 DEF TxnOwn
  <2>2. CASE a # b
    <3>1. txn'[a] = txn[a]
      BY <1>1, <2>2 DEF LoginInv, Shapes
    <3> QED BY <3>1, <1>4, TxnKept DEF LoginInv
  <2> QED BY <2>1, <2>2
<1>7. \A a \in Browsers : SessOwn(a)'
  BY <1>1, <1>4, SessKept DEF LoginInv
<1>8. \A g \in Handlers : JobOwn(g)'
  BY <1>1, <1>4, FinishStep, JobKept, IdleOwnsNothing DEF LoginInv
<1>9. MintedTrue'
  BY <1>1 DEF LoginInv, MintedTrue
<1> QED BY <1>3, <1>5, <1>6, <1>7, <1>8, <1>9 DEF LoginInv

LEMMA AuthenticatesStep ==
  ASSUME LoginInv, NEW f \in Flows, NEW sub \in Subs, Authenticates(f, sub)
  PROVE  LoginInv'
<1>1. /\ flow[f] = "begun" /\ flow' = [flow EXCEPT ![f] = "code"] /\ who' = [who EXCEPT ![f] = sub]
      /\ UNCHANGED <<now, sess, txn, stage, job, origin, minted>>
  BY DEF Authenticates, vars
<1>2. Shapes'
  BY <1>1 DEF LoginInv, Shapes
<1>3. Forward
  BY <1>1 DEF Forward, LoginInv, Shapes
<1>4. CodesKnown'
  BY <1>1 DEF CodesKnown, LoginInv, Shapes
<1> QED BY <1>1, <1>2, <1>3, <1>4, QuietStep

LEMMA CallbackStep ==
  ASSUME LoginInv, NEW h \in Handlers, NEW b \in Browsers, NEW f \in Flows, Callback(h, b, f)
  PROVE  LoginInv'
<1> DEFINE j == [NoJob EXCEPT !.browser = b, !.url = f, !.cookie = txn[b].flow]
<1>1. UNCHANGED <<now, sess, txn, flow, who, origin, minted>>
  BY DEF Callback, vars
<1>2. /\ txn[b] # None /\ flow[f] \in {"code", "redeemed"}
      /\ stage' = [stage EXCEPT ![h] = "callback"] /\ job' = [job EXCEPT ![h] = j]
  BY DEF Callback, AwaitDiscovery
<1>3. txn[b].flow \in Flows /\ origin[txn[b].flow] = b /\ flow[txn[b].flow] # "new"
  BY <1>2 DEF LoginInv, TxnOwn
<1>4. j \in Jobs /\ j.browser = b /\ j.url = f /\ j.cookie = txn[b].flow
  BY <1>3 DEF NoJob, Jobs
<1>5. Shapes'
  BY <1>1, <1>2, <1>4 DEF LoginInv, Shapes, Stages
<1>6. stage'[h] = "callback" /\ job'[h] = j
  BY <1>2 DEF LoginInv, Shapes
<1>7. JobOwn(h)'
  BY <1>1, <1>2, <1>3, <1>4, <1>6 DEF JobOwn
<1>8. \A g \in Handlers \ {h} : stage'[g] = stage[g] /\ job'[g] = job[g]
  BY <1>2 DEF LoginInv, Shapes
<1>9. Forward /\ CodesKnown'
  BY <1>1 DEF Forward, LoginInv, CodesKnown
<1> QED BY <1>1, <1>5, <1>7, <1>8, <1>9, QuietStep

LEMMA GrantRefusedStep ==
  ASSUME LoginInv, NEW h \in Handlers, GrantRefused(h)
  PROVE  LoginInv'
<1> DEFINE u == job[h].url
<1>1. /\ stage[h] = "callback" /\ Finish(h)
      /\ UNCHANGED <<now, sess, txn, who, origin, minted>>
      /\ \/ UNCHANGED flow
         \/ flow[u] = "code" /\ flow' = [flow EXCEPT ![u] = "redeemed"]
  BY DEF GrantRefused, GrantAccepts, vars
<1>2. u \in Flows
  BY <1>1 DEF LoginInv, JobOwn
<1>3. Shapes'
  <2>1. flow' \in [Flows -> {"new", "begun", "code", "redeemed"}]
    BY <1>1 DEF LoginInv, Shapes
  <2> QED BY <1>1, <2>1, FinishStep DEF LoginInv, Shapes
<1>4. Forward
  BY <1>1 DEF Forward, LoginInv, Shapes
<1>5. CodesKnown'
  BY <1>1 DEF CodesKnown, LoginInv, Shapes
<1> QED BY <1>1, <1>3, <1>4, <1>5, FinishStep, QuietStep

\* What a job becomes when the tokens are valid.
Granted(x, s, e) == [x EXCEPT !.sub = s, !.exp = e]

LEMMA GrantedJob ==
  ASSUME NEW x \in Jobs, NEW s \in Subs, NEW e \in Nat
  PROVE  /\ Granted(x, s, e) \in Jobs
         /\ Granted(x, s, e).browser = x.browser /\ Granted(x, s, e).url = x.url
         /\ Granted(x, s, e).sub = s /\ Granted(x, s, e).exp = e
<1> DEFINE y == [x EXCEPT !.sub = s, !.exp = e]
<1>1. y \in Jobs
  BY DEF Jobs
<1>2. y.browser = x.browser /\ y.url = x.url
  BY DEF Jobs
<1>3. y.sub = s
  BY DEF Jobs
<1>4. y.exp = e
  BY DEF Jobs
<1> QED BY <1>1, <1>2, <1>3, <1>4 DEF Granted

LEMMA GrantStep ==
  ASSUME LoginInv, NEW h \in Handlers, Grant(h)
  PROVE  LoginInv'
<1> DEFINE u == job[h].url
           t == Granted(job[h], who[u], now + SessionTtl)
<1>1. /\ stage[h] = "callback" /\ u = job[h].cookie /\ flow[u] = "code" /\ who[u] \notin Reserved
      /\ flow' = [flow EXCEPT ![u] = "redeemed"]
      /\ stage' = [stage EXCEPT ![h] = "reply"]
      /\ UNCHANGED <<now, sess, txn, who, origin, minted>>
  BY DEF Grant, GrantAccepts, IsReserved, vars
<1>2. /\ u \in Flows /\ origin[u] = job[h].browser /\ job[h].browser \in Browsers
      /\ who[u] \in Subs
  BY <1>1 DEF LoginInv, JobOwn, CodesKnown
<1>3. job[h] \in Jobs /\ now \in Nat
  BY DEF LoginInv, Shapes
<1>4. job' = [job EXCEPT ![h] = t]
  BY DEF Grant, Granted, LoginInv, Shapes
<1>5. /\ t \in Jobs /\ t.browser = job[h].browser /\ t.url = u
      /\ t.sub = who[u] /\ t.exp = now + SessionTtl
  <2>1. now + SessionTtl \in Nat
    BY <1>3, SessionsAssumption
  <2> QED BY <1>2, <1>3, <2>1, GrantedJob
<1>6. Shapes'
  BY <1>1, <1>4, <1>5 DEF LoginInv, Shapes, Stages
<1>7. Forward /\ CodesKnown'
  BY <1>1 DEF Forward, LoginInv, CodesKnown, Shapes
<1>8. stage'[h] = "reply" /\ job'[h] = t /\ flow'[u] = "redeemed"
  BY <1>1, <1>2, <1>4 DEF LoginInv, Shapes
<1>9. now + SessionTtl >= SessionTtl
  BY <1>3, SessionsAssumption
<1>10. JobOwn(h)'
  BY <1>1, <1>2, <1>5, <1>8, <1>9 DEF JobOwn
<1>11. \A g \in Handlers \ {h} : stage'[g] = stage[g] /\ job'[g] = job[g]
  BY <1>1, <1>4 DEF LoginInv, Shapes
<1> QED BY <1>1, <1>6, <1>7, <1>10, <1>11, QuietStep

LEMMA CallbackReplyStep ==
  ASSUME LoginInv, NEW h \in Handlers, CallbackReply(h)
  PROVE  LoginInv'
<1> DEFINE j == job[h]
           token == SessionToken(j.sub, Roles(j.sub), j.exp)
           m == [token |-> token, browser |-> j.browser, flow |-> j.url, at |-> j.exp - SessionTtl]
<1>1. /\ stage[h] = "reply" /\ Finish(h)
      /\ txn' = [txn EXCEPT ![j.browser] = None] /\ sess' = [sess EXCEPT ![j.browser] = token]
      /\ minted' = minted \union {m}
      /\ UNCHANGED <<now, flow, who, origin>>
  BY DEF CallbackReply, vars
<1>2. /\ j.browser \in Browsers /\ j.url \in Flows /\ j.sub \in Subs \ Reserved
      /\ origin[j.url] = j.browser /\ flow[j.url] = "redeemed" /\ who[j.url] = j.sub
      /\ j.exp >= SessionTtl
  BY <1>1 DEF LoginInv, JobOwn
<1>3. j.exp \in Nat
  BY DEF LoginInv, Shapes, Jobs
<1>4. token.sub = j.sub /\ token.exp = j.exp
  BY DEF SessionToken
<1>5. Forward /\ CodesKnown'
  BY <1>1 DEF Forward, LoginInv, CodesKnown
<1>6. Shapes'
  <2>1. DOMAIN txn' = Browsers /\ txn' = [a \in Browsers |-> txn'[a]]
    BY <1>1 DEF LoginInv, Shapes
  <2>2. DOMAIN sess' = Browsers /\ sess' = [a \in Browsers |-> sess'[a]]
    BY <1>1 DEF LoginInv, Shapes
  <2> QED BY <1>1, <2>1, <2>2, FinishStep DEF LoginInv, Shapes
<1>7. MintedTrue'
  <2>1. m.at \in Nat /\ m.token.exp = m.at + SessionTtl /\ m.token.sub \in Subs \ Reserved
    BY <1>2, <1>3, <1>4, SessionsAssumption
  <2> HIDE DEF m
  <2> QED BY <1>1, <2>1 DEF LoginInv, MintedTrue
<1>8. \A a \in Browsers : TxnOwn(a)'
  <2>1. \A a \in Browsers : txn'[a] = txn[a] \/ txn'[a] = None
    BY <1>1 DEF LoginInv, Shapes
  <2> QED BY <2>1, <1>5, TxnKept DEF LoginInv
<1>9. \A a \in Browsers : SessOwn(a)'
  <2> SUFFICES ASSUME NEW a \in Browsers PROVE SessOwn(a)'
    OBVIOUS
  <2>1. CASE a = j.browser
    <3>1. sess'[a].sub = j.sub
      BY <1>1, <1>2, <1>4, <2>1 DEF LoginInv, Shapes
    <3>2. origin'[j.url] = a /\ flow'[j.url] = "redeemed" /\ who'[j.url] = sess'[a].sub
      BY <1>1, <1>2, <2>1, <3>1
    <3> QED BY <1>2, <3>2 DEF SessOwn
  <2>2. CASE a # j.browser
    <3>1. sess'[a] = sess[a]
      BY <1>1, <2>2 DEF LoginInv, Shapes
    <3> QED BY <3>1, <1>5, SessKept DEF LoginInv
  <2> QED BY <2>1, <2>2
<1>10. \A g \in Handlers : JobOwn(g)'
  BY <1>1, <1>5, FinishStep, JobKept, IdleOwnsNothing DEF LoginInv
<1> QED BY <1>5, <1>6, <1>7, <1>8, <1>9, <1>10 DEF LoginInv

\* Logout and the gate only clear a session; the limiter and the clock touch
\* nothing of a login.
LEMMA GateSteps ==
  ASSUME LoginInv, NEW b \in Browsers, Logout(b) \/ GateAdmits(b) \/ GateRejects(b)
  PROVE  LoginInv'
<1>1. UNCHANGED <<now, txn, stage, job, flow, who, origin, minted>>
  BY DEF Logout, GateAdmits, GateRejects, allVars, vars, loginVars, shouldAppend, Deduplicated,
     WindowFull, Allowed
<1>2. sess' = sess \/ sess' = [sess EXCEPT ![b] = None]
  BY DEF Logout, GateAdmits, GateRejects, allVars, loginVars
<1>3. \A a \in Browsers : sess'[a] = sess[a] \/ sess'[a] = None
  BY <1>2 DEF LoginInv, Shapes
<1>4. Shapes'
  <2>1. DOMAIN sess' = Browsers /\ sess' = [a \in Browsers |-> sess'[a]]
    BY <1>2 DEF LoginInv, Shapes
  <2> QED BY <1>1, <2>1 DEF LoginInv, Shapes
<1>5. Forward /\ CodesKnown'
  BY <1>1 DEF Forward, LoginInv, CodesKnown
<1> QED BY <1>1, <1>3, <1>4, <1>5, QuietStep

LEMMA OtherSteps ==
  ASSUME LoginInv, UNCHANGED loginVars, now' \in Nat
  PROVE  LoginInv'
<1>1. UNCHANGED <<sess, txn, stage, job, flow, who, origin, minted>>
  BY DEF loginVars
<1>2. Shapes'
  BY <1>1 DEF LoginInv, Shapes
<1>3. Forward /\ CodesKnown'
  BY <1>1 DEF Forward, LoginInv, CodesKnown
<1> QED BY <1>1, <1>2, <1>3, QuietStep

-----------------------------------------------------------------------------
(* The theorems.                                                           *)

LEMMA LoginInitially == LoginInit => LoginInv
<1> SUFFICES ASSUME LoginInit PROVE LoginInv
  OBVIOUS
<1>1. Shapes
  BY NoJobIsJob DEF LoginInit, Init, Shapes, Stages
<1>2. CodesKnown /\ MintedTrue
  BY DEF LoginInit, CodesKnown, MintedTrue
<1>3. \A b \in Browsers : TxnOwn(b) /\ SessOwn(b)
  BY DEF LoginInit, TxnOwn, SessOwn
<1>4. \A h \in Handlers : JobOwn(h)
  BY DEF LoginInit, JobOwn
<1> QED BY <1>1, <1>2, <1>3, <1>4 DEF LoginInv

LEMMA LoginSteps == ASSUME LoginInv, [LoginNext]_allVars PROVE LoginInv'
<1>n. now \in Nat
  BY DEF LoginInv, Shapes
<1>1. CASE Tick /\ UNCHANGED loginVars
  <2>1. now' \in Nat
    BY <1>1, <1>n DEF Tick
  <2> QED BY <1>1, <2>1, OtherSteps
<1>2. CASE DiscoveryOk \/ DiscoveryFails
  BY <1>2, DiscoverySteps
<1>3. CASE \E h \in Handlers : HandlerStep(h)
  BY <1>3, LoginReplyStep, GrantRefusedStep, GrantStep, CallbackReplyStep DEF HandlerStep
<1>4. CASE \E h \in Handlers, b \in Browsers : Login(h, b) \/ \E f \in Flows : Callback(h, b, f)
  BY <1>4, LoginStep, CallbackStep
<1>5. CASE \E f \in Flows, sub \in Subs : Authenticates(f, sub)
  BY <1>5, AuthenticatesStep
<1>6. CASE \E b \in Browsers : Logout(b) \/ GateAdmits(b) \/ GateRejects(b)
  BY <1>6, GateSteps
<1>7. CASE \E key \in Keys : GateRejectsJunk(key)
  <2>1. UNCHANGED loginVars /\ now' = now
    BY <1>7 DEF GateRejectsJunk, shouldAppend, Deduplicated, WindowFull, Allowed, vars
  <2> QED BY <1>n, <2>1, OtherSteps
<1>8. CASE UNCHANGED allVars
  <2>1. UNCHANGED loginVars /\ now' = now
    BY <1>8 DEF allVars, vars
  <2> QED BY <1>n, <2>1, OtherSteps
<1> QED BY <1>1, <1>2, <1>3, <1>4, <1>5, <1>6, <1>7, <1>8 DEF LoginNext

\* For any browsers, logins and handlers in progress: cookies and the handlers
\* between two awaits only ever hold what belongs to their browser.
THEOREM LoginInvariant == LoginSpec => []LoginInv
BY LoginInitially, LoginSteps, PTL DEF LoginSpec

\* A browser is logged in only as who authenticated in a login it began.
THEOREM AlwaysOwnLogin == LoginSpec => []OwnLogin
<1>1. LoginInv => OwnLogin
  BY DEF LoginInv, SessOwn, OwnLogin
<1> QED BY <1>1, LoginInvariant, PTL

\* Of all signed values in circulation only a live session of a person is
\* admitted by the gate and the MCP token check.
THEOREM AlwaysAdmittedIsLive == LoginSpec => []AdmittedIsLive
<1>1. LoginInv => AdmittedIsLive
  <2> SUFFICES ASSUME LoginInv, NEW token \in Circulating, Admits(token)
               PROVE  \E m \in minted : /\ m.token = token
                                        /\ now < m.at + SessionTtl
                                        /\ token.sub \notin Reserved
    BY DEF AdmittedIsLive
  <2>1. token.purpose = "session" /\ token.exp > now
    BY DEF Admits, verifyPayload
  <2>2. \A key \in Keys : token # Junk(key)
    BY <2>1 DEF Junk
  <2>3. \A b \in Browsers : txn[b] # None => token # txn[b]
    BY <2>1 DEF LoginInv, TxnOwn
  <2>4. PICK m \in minted : m.token = token
    BY <2>2, <2>3 DEF Circulating
  <2>5. m.at \in Nat /\ token.exp = m.at + SessionTtl /\ token.sub \notin Reserved /\ now \in Nat
    BY <2>4 DEF LoginInv, MintedTrue, Shapes
  <2> QED BY <2>1, <2>4, <2>5, SessionsAssumption
<1> QED BY <1>1, LoginInvariant, PTL

-----------------------------------------------------------------------------
(* The limiter: no span of one window length sees two windows' appends.     *)

\* Positions of the appends: any set of them has a cardinality, and one within
\* another is no larger.
LEMMA FewerPositions ==
  ASSUME NEW n \in Nat, NEW T \in SUBSET (1..n), NEW S \in SUBSET T
  PROVE  /\ IsFiniteSet(S) /\ Cardinality(S) \in Nat
         /\ Cardinality(T) \in Nat /\ Cardinality(S) <= Cardinality(T)
<1>1. IsFiniteSet(1..n)
  BY FS_Interval
<1>2. IsFiniteSet(T)
  BY <1>1, FS_Subset
<1>3. IsFiniteSet(S) /\ Cardinality(S) <= Cardinality(T)
  BY <1>2, FS_Subset
<1> QED
  BY <1>2, <1>3, FS_CardinalityType

\* What is within two sets of positions is no more than what is in both together.
LEMMA TwoSets ==
  ASSUME NEW n \in Nat, NEW A \in SUBSET (1..n), NEW B \in SUBSET (1..n), NEW S \in SUBSET (A \union B),
         NEW m \in Nat, Cardinality(A) <= m, Cardinality(B) <= m
  PROVE  Cardinality(S) <= 2 * m
<1>1. /\ IsFiniteSet(A) /\ IsFiniteSet(B)
      /\ Cardinality(A) \in Nat /\ Cardinality(B) \in Nat
  BY FewerPositions
<1>2. /\ IsFiniteSet(A \union B) /\ Cardinality(A \intersect B) \in Nat
      /\ Cardinality(A \union B) = Cardinality(A) + Cardinality(B) - Cardinality(A \intersect B)
  <2>1. A \intersect B \in SUBSET A
    OBVIOUS
  <2>2. Cardinality(A \intersect B) \in Nat
    BY <2>1, FewerPositions
  <2> QED
    BY <1>1, <2>2, FS_Union
<1>3. Cardinality(S) <= Cardinality(A \union B) /\ Cardinality(S) \in Nat
      /\ Cardinality(A \union B) \in Nat
  <2>1. A \union B \in SUBSET (1..n)
    OBVIOUS
  <2> QED
    BY <2>1, FewerPositions
<1> QED
  BY <1>1, <1>2, <1>3

\* An append takes the next position, at the present time.
LEMMA OneMore ==
  ASSUME WindowTypes, NEW key, appends' = Append(appends, [key |-> key, at |-> now])
  PROVE  LET n == Len(appends) IN
         /\ n \in Nat /\ Len(appends') = n + 1
         /\ appends' = [i \in 1..(n + 1) |-> appends'[i]]
         /\ appends'[n + 1].at = now
         /\ \A i \in 1..n : appends'[i] = appends[i]
<1> DEFINE n == Len(appends)
           e == [key |-> key, at |-> now]
           R == {appends[i] : i \in 1..n} \union {e}
<1>1. n \in Nat /\ appends = [i \in 1..n |-> appends[i]]
  BY DEF WindowTypes
<1>2. appends \in [1..n -> R]
  <2> HIDE DEF n, e
  <2> QED BY <1>1
<1>3. appends \in Seq(R) /\ e \in R
  <2> HIDE DEF n, e, R
  <2>1. appends \in Seq(R)
    BY <1>1, <1>2
  <2> QED BY <2>1 DEF R
<1>4. /\ appends' \in Seq(R) /\ Len(appends') = n + 1 /\ appends'[n + 1] = e
      /\ \A i \in 1..n : appends'[i] = appends[i]
  <2> HIDE DEF e, R
  <2>1. appends' = Append(appends, e)
    BY DEF e
  <2> QED
    BY <1>3, <2>1, AppendProperties
<1>5. appends' = [i \in 1..(n + 1) |-> appends'[i]]
  <2> HIDE DEF e, R, n
  <2> QED
    BY <1>1, <1>4
<1>6. e.at = now
  OBVIOUS
<1> HIDE DEF n, e, R
<1> QED
  BY <1>1, <1>4, <1>5, <1>6 DEF n

\* A step that appends nothing and leaves the window alone.
LEMMA SameWindow ==
  ASSUME LimiterInv, UNCHANGED <<windowStart, windowCount, appends>>, now' \in Nat, now' >= now
  PROVE  LimiterInv'
<1>1. WindowTypes'
  BY DEF LimiterInv, WindowTypes
<1> QED
  BY <1>1 DEF LimiterInv, WindowHas, AppendsSince, AppendsBetween, AppendsWithin

\* A window found over starts anew, with nothing in it.
LEMMA StartsAnew ==
  ASSUME LimiterInv, WindowOver
  PROVE  WindowHas(now, 0)
<1>1. /\ WindowTypes /\ Window \in Nat /\ WindowMaxAppends \in Nat
      /\ now \in Nat /\ windowStart \in Nat /\ now >= windowStart + Window
  BY LimiterAssumption DEF LimiterInv, WindowTypes, WindowOver
<1> SUFFICES ASSUME Window # 0
             PROVE  /\ \A i \in 1..Len(appends) : appends[i].at < now + Window
                    /\ Cardinality(AppendsSince(now)) <= 0
                    /\ \A from \in Nat : from + Window >= now
                         => Cardinality(AppendsBetween(from, now)) <= WindowMaxAppends
  BY DEF WindowHas
<1>2. \A i \in 1..Len(appends) : appends[i].at \in Nat /\ appends[i].at < windowStart + Window
  BY DEF LimiterInv, WindowTypes, WindowHas
<1>3. \A i \in 1..Len(appends) : appends[i].at < now + Window
  BY <1>1, <1>2
<1>4. AppendsSince(now) = {} /\ Cardinality({}) = 0
  BY <1>1, <1>2, FS_EmptySet DEF AppendsSince
<1>5. ASSUME NEW from \in Nat, from + Window >= now
      PROVE  Cardinality(AppendsBetween(from, now)) <= WindowMaxAppends
  <2>1. AppendsBetween(from, now) \subseteq AppendsSince(windowStart)
    BY <1>1, <1>2, <1>5 DEF AppendsSince, AppendsBetween
  <2>2. AppendsSince(windowStart) \in SUBSET (1..Len(appends)) /\ Len(appends) \in Nat
    BY <1>1 DEF AppendsSince, WindowTypes
  <2>3. /\ Cardinality(AppendsBetween(from, now)) \in Nat
        /\ Cardinality(AppendsSince(windowStart)) \in Nat
        /\ Cardinality(AppendsBetween(from, now)) <= Cardinality(AppendsSince(windowStart))
    BY <2>1, <2>2, FewerPositions
  <2>4. Cardinality(AppendsSince(windowStart)) <= windowCount /\ windowCount \in Nat
        /\ windowCount <= WindowMaxAppends
    BY DEF LimiterInv, WindowTypes, WindowHas
  <2> QED
    BY <1>1, <2>3, <2>4
<1> QED
  BY <1>3, <1>4, <1>5

\* The window a call finds, or starts, lasts beyond the call.
StartNow == IF WindowOver THEN now ELSE windowStart

\* ... as every call finds it, or starts it.
LEMMA WindowOfCall ==
  ASSUME LimiterInv
  PROVE  /\ WindowHas(StartNow, CountNow)
         /\ StartNow \in 0..now /\ CountNow \in Nat /\ CountNow <= WindowMaxAppends
         /\ Window # 0 => now < StartNow + Window
<1>1. /\ now \in Nat /\ windowStart \in 0..now /\ windowCount \in Nat /\ WindowTypes
      /\ Window \in Nat /\ WindowMaxAppends \in Nat /\ windowCount <= WindowMaxAppends
  BY LimiterAssumption DEF LimiterInv, WindowTypes
<1>2. CASE WindowOver
  BY <1>1, <1>2, StartsAnew DEF StartNow, CountNow
<1>3. CASE ~WindowOver
  <2>1. WindowHas(windowStart, windowCount)
    BY DEF LimiterInv
  <2>2. now < windowStart + Window
    BY <1>1, <1>3 DEF WindowOver
  <2> QED
    BY <1>1, <1>3, <2>1, <2>2 DEF StartNow, CountNow
<1> QED
  BY <1>2, <1>3

\* A call that finds the window full may have begun it.
LEMMA FullStep ==
  ASSUME LimiterInv, NEW key, WindowFull(key)
  PROVE  LimiterInv'
<1>1. UNCHANGED <<now, appends>> /\ windowStart' = StartNow /\ windowCount' = CountNow
  BY DEF WindowFull, StartNow
<1>2. /\ WindowHas(StartNow, CountNow)
      /\ StartNow \in 0..now /\ CountNow \in Nat /\ CountNow <= WindowMaxAppends
  BY WindowOfCall
<1>3. WindowTypes'
  BY <1>1, <1>2 DEF LimiterInv, WindowTypes
<1>4. WindowHas(windowStart, windowCount)'
  <2> DEFINE s == StartNow c == CountNow
  <2> HIDE DEF s, c
  <2>1. WindowHas(s, c) /\ windowStart' = s /\ windowCount' = c
    BY <1>1, <1>2 DEF s, c
  <2> QED
    BY <1>1, <2>1 DEF WindowHas, AppendsSince, AppendsBetween
<1>5. \A from \in Nat : Cardinality(AppendsWithin(from)') <= 2 * WindowMaxAppends
  BY <1>1 DEF LimiterInv, AppendsWithin
<1>6. windowCount' <= WindowMaxAppends
  BY <1>1, <1>2
<1> QED
  BY <1>3, <1>4, <1>5, <1>6 DEF LimiterInv

\* The append goes into the window of the call, in the count.
LEMMA AllowedStep ==
  ASSUME LimiterInv, NEW key, Allowed(key)
  PROVE  LimiterInv'
<1> DEFINE s == StartNow
           c == CountNow
           n == Len(appends)
<1>1. /\ WindowHas(s, c) /\ s \in 0..now /\ c \in Nat /\ c < WindowMaxAppends
      /\ Window # 0 => now < s + Window
  BY WindowOfCall DEF Allowed
<1>2. /\ now' = now /\ windowStart' = s /\ windowCount' = c + 1
      /\ appends' = Append(appends, [key |-> key, at |-> now])
  BY DEF Allowed, StartNow
<1> HIDE DEF s, c
<1>3. /\ n \in Nat /\ Len(appends') = n + 1
      /\ appends' = [i \in 1..(n + 1) |-> appends'[i]]
      /\ appends'[n + 1].at = now
      /\ \A i \in 1..n : appends'[i] = appends[i]
  BY <1>2, OneMore DEF LimiterInv
<1>4. /\ now \in Nat /\ Window \in Nat /\ WindowMaxAppends \in Nat
      /\ \A i \in 1..n : appends[i].at \in 0..now
  BY LimiterAssumption DEF LimiterInv, WindowTypes
<1> HIDE DEF n
<1>5. WindowTypes'
  <2>1. \A i \in 1..(n + 1) : appends'[i].at \in 0..now
    BY <1>3, <1>4
  <2>2. now' \in Nat /\ windowStart' \in 0..now' /\ windowCount' \in Nat
    BY <1>1, <1>2, <1>4
  <2>3. n + 1 \in Nat
    BY <1>3
  <2> QED
    BY <1>2, <1>3, <2>1, <2>2, <2>3 DEF WindowTypes
<1>6. windowCount' <= WindowMaxAppends
  BY <1>1, <1>2, <1>4
<1>7. WindowHas(windowStart, windowCount)'
  <2> SUFFICES ASSUME Window # 0
               PROVE  /\ \A i \in 1..Len(appends') : appends'[i].at < windowStart' + Window
                      /\ Cardinality(AppendsSince(windowStart)') <= windowCount'
                      /\ \A from \in Nat : from + Window >= windowStart'
                           => Cardinality(AppendsBetween(from, windowStart)') <= WindowMaxAppends
    BY DEF WindowHas
  <2>1. \A i \in 1..(n + 1) : appends'[i].at < s + Window
    BY <1>1, <1>3, <1>4
  <2>2. Cardinality(AppendsSince(windowStart)') <= windowCount'
    <3>1. AppendsSince(windowStart)' = AppendsSince(s) \union {n + 1}
      BY <1>1, <1>2, <1>3, <1>4 DEF AppendsSince, n
    <3>2. AppendsSince(s) \in SUBSET (1..n)
      BY DEF AppendsSince, n
    <3>3. IsFiniteSet(AppendsSince(s)) /\ Cardinality(AppendsSince(s)) \in Nat
      BY <1>3, <3>2, FewerPositions
    <3>4. Cardinality(AppendsSince(s)) <= c
      BY <1>1 DEF WindowHas
    <3>5. n + 1 \notin AppendsSince(s)
      BY <1>3, <3>2
    <3>6. Cardinality(AppendsSince(s) \union {n + 1}) = Cardinality(AppendsSince(s)) + 1
      BY <3>3, <3>5, FS_AddElement
    <3> QED
      BY <1>1, <1>2, <3>1, <3>3, <3>4, <3>6
  <2>3. ASSUME NEW from \in Nat, from + Window >= windowStart'
        PROVE  Cardinality(AppendsBetween(from, windowStart)') <= WindowMaxAppends
    <3>1. AppendsBetween(from, windowStart)' = AppendsBetween(from, s)
      BY <1>1, <1>2, <1>3, <1>4 DEF AppendsBetween, n
    <3> QED
      BY <1>1, <1>2, <2>3, <3>1 DEF WindowHas
  <2> QED
    BY <1>2, <1>3, <2>1, <2>2, <2>3
<1>8. ASSUME NEW from \in Nat
      PROVE  Cardinality(AppendsWithin(from)') <= 2 * WindowMaxAppends
  <2>1. CASE Window = 0
    <3>1. AppendsWithin(from)' = {}
      BY <1>3, <1>4, <1>5, <2>1 DEF AppendsWithin, WindowTypes
    <3> QED
      BY <1>4, <3>1, FS_EmptySet
  <2>2. CASE from + Window <= s
    <3>1. AppendsWithin(from)' = AppendsWithin(from)
      BY <1>1, <1>2, <1>3, <1>4, <2>2 DEF AppendsWithin, n
    <3> QED
      BY <3>1 DEF LimiterInv
  <2>3. CASE Window # 0 /\ from + Window >= s
    <3> DEFINE A == AppendsBetween(from, s)'
               B == AppendsSince(s)'
    <3>1. /\ Cardinality(AppendsBetween(from, windowStart)') <= WindowMaxAppends
          /\ Cardinality(AppendsSince(windowStart)') <= WindowMaxAppends
      <4>1. Cardinality(AppendsSince(windowStart)') <= windowCount'
        BY <1>7, <2>3 DEF WindowHas
      <4>2. AppendsSince(windowStart)' \in SUBSET (1..(n + 1)) /\ n + 1 \in Nat
        BY <1>3 DEF AppendsSince
      <4>3. Cardinality(AppendsSince(windowStart)') \in Nat
        BY <4>2, FewerPositions
      <4>4. Cardinality(AppendsSince(windowStart)') <= WindowMaxAppends
        BY <1>1, <1>2, <1>4, <1>6, <4>1, <4>3
      <4>5. Cardinality(AppendsBetween(from, windowStart)') <= WindowMaxAppends
        BY <1>2, <1>7, <2>3 DEF WindowHas
      <4> QED
        BY <4>4, <4>5
    <3>2. AppendsWithin(from)' \subseteq AppendsBetween(from, windowStart)' \union AppendsSince(windowStart)'
      BY <1>1, <1>2, <1>3, <1>4, <1>5 DEF AppendsWithin, AppendsBetween, AppendsSince, WindowTypes
    <3>3. /\ AppendsBetween(from, windowStart)' \in SUBSET (1..(n + 1))
          /\ AppendsSince(windowStart)' \in SUBSET (1..(n + 1)) /\ n + 1 \in Nat
      BY <1>3 DEF AppendsBetween, AppendsSince
    <3> QED
      BY <1>4, <3>1, <3>2, <3>3, TwoSets
  <2> QED
    BY <1>1, <1>4, <2>1, <2>2, <2>3
<1> QED
  BY <1>5, <1>6, <1>7, <1>8 DEF LimiterInv

\* Nothing appended yet.
LEMMA LimiterInitially == ASSUME Init PROVE LimiterInv
<1>1. WindowTypes
  BY DEF Init, WindowTypes
<1>2. \A from, to : /\ AppendsSince(from) = {} /\ AppendsBetween(from, to) = {}
                    /\ AppendsWithin(from) = {}
  BY DEF Init, AppendsSince, AppendsBetween, AppendsWithin
<1>3. Cardinality({}) = 0 /\ WindowMaxAppends \in Nat /\ Window \in Nat
  BY FS_EmptySet, LimiterAssumption
<1>4. WindowHas(0, 0)
  <2>1. \A i \in 1..Len(appends) : appends[i].at < 0 + Window
    BY DEF Init
  <2>2. Cardinality(AppendsSince(0)) <= 0
    BY <1>2, <1>3
  <2>3. \A from \in Nat : Cardinality(AppendsBetween(from, 0)) <= WindowMaxAppends
    BY <1>2, <1>3
  <2> QED
    BY <2>1, <2>2, <2>3 DEF WindowHas
<1>5. \A from \in Nat : Cardinality(AppendsWithin(from)) <= 2 * WindowMaxAppends
  BY <1>2, <1>3
<1> QED
  BY <1>1, <1>3, <1>4, <1>5 DEF Init, LimiterInv

\* What the limiter does, called with any value.
LEMMA LimiterSteps ==
  ASSUME LimiterInv, Tick \/ (\E key : shouldAppend(key)) \/ UNCHANGED vars
  PROVE  LimiterInv'
<1>n. now \in Nat
  BY DEF LimiterInv, WindowTypes
<1>1. CASE Tick
  BY <1>n, <1>1, SameWindow DEF Tick
<1>2. CASE UNCHANGED vars
  BY <1>n, <1>2, SameWindow DEF vars
<1>3. ASSUME NEW key, shouldAppend(key) PROVE LimiterInv'
  <2>1. CASE Deduplicated(key)
    BY <1>2, <2>1 DEF Deduplicated
  <2>2. CASE WindowFull(key)
    BY <2>2, FullStep
  <2>3. CASE Allowed(key)
    BY <2>3, AllowedStep
  <2> QED
    BY <1>3, <2>1, <2>2, <2>3 DEF shouldAppend
<1> QED
  BY <1>1, <1>2, <1>3

\* What the invariant says of every span, and the runs of those up to MaxTime.
LEMMA LimiterCaps == ASSUME LimiterInv PROVE TwoWindowsCap
BY LimiterAssumption DEF LimiterInv, TwoWindowsCap

\* The limiter by itself: two windows' worth of appends at most in any span of
\* one window length.
THEOREM LimiterCapped == Spec => []TwoWindowsCap
<1>1. LimiterInv /\ [Next]_vars => LimiterInv'
  BY LimiterSteps DEF Next
<1>2. Init => LimiterInv
  BY LimiterInitially
<1>3. LimiterInv => TwoWindowsCap
  BY LimiterCaps
<1> QED
  BY <1>1, <1>2, <1>3, PTL DEF Spec

\* The limiter as the session gate calls it, among logins and logouts.
THEOREM GateCapped == LoginSpec => []TwoWindowsCap
<1>1. LoginInit => LimiterInv
  BY LimiterInitially DEF LoginInit
<1>2. ASSUME LimiterInv, [LoginNext]_allVars PROVE LimiterInv'
  <2>1. Tick \/ (\E key : shouldAppend(key)) \/ UNCHANGED vars
    BY <1>2 DEF LoginNext, allVars, DiscoveryOk, DiscoveryFails, HandlerStep, Login, LoginReply,
                Callback, GrantRefused, Grant, CallbackReply, Authenticates, Logout, GateAdmits,
                GateRejects, GateRejectsJunk
  <2> QED
    BY <1>2, <2>1, LimiterSteps
<1>3. LimiterInv => TwoWindowsCap
  BY LimiterCaps
<1> QED
  BY <1>1, <1>2, <1>3, PTL DEF LoginSpec

-----------------------------------------------------------------------------
(* The limiter: once per TTL, while nothing is evicted.                    *)

\* What a sequence holds, and holds with one element more.
LEMMA Elements ==
  ASSUME NEW S, NEW s \in Seq(S)
  PROVE  Len(s) \in Nat /\ \A i \in 1..Len(s) : s[i] \in S
  OBVIOUS

LEMMA Longer ==
  ASSUME NEW S, NEW s \in Seq(S), NEW e \in S
  PROVE  /\ Append(s, e) \in Seq(S) /\ Len(Append(s, e)) = Len(s) + 1
         /\ \A i \in 1..Len(s) : Append(s, e)[i] = s[i]
         /\ Append(s, e)[Len(s) + 1] = e
  BY AppendProperties

\* The Map has no more entries than there are values.
LEMMA NoEntryTwice ==
  ASSUME DedupTypes, OneEntry, IsFiniteSet(Keys)
  PROVE  Len(seen) \in Nat /\ Len(seen) <= Cardinality(Keys)
<1> DEFINE n == Len(seen)
           place == [i \in 1..n |-> seen[i].key]
<1>1. n \in Nat /\ \A i \in 1..n : seen[i] \in Entry
  BY Elements DEF DedupTypes
<1>2. IsFiniteSet(1..n) /\ Cardinality(1..n) = n
  <2>1. IsFiniteSet(1..n) /\ Cardinality(1..n) = IF 1 > n THEN 0 ELSE n - 1 + 1
    BY <1>1, FS_Interval
  <2> QED
    BY <1>1, <2>1
<1>3. Cardinality(Keys) \in Nat
  BY FS_CardinalityType
<1> SUFFICES ASSUME ~(n <= Cardinality(Keys)) PROVE FALSE
  BY <1>1
<1>4. Cardinality(Keys) < Cardinality(1..n)
  BY <1>1, <1>2, <1>3
<1>5. place \in [1..n -> Keys]
  BY <1>1 DEF Entry
<1> HIDE DEF place
<1>6. \E x, y \in 1..n : x # y /\ place[x] = place[y]
  BY <1>2, <1>4, <1>5, FS_PigeonHole
<1> QED
  BY <1>6 DEF OneEntry, place

\* Map.set: the entries after it are those of before, the one of the key apart,
\* in their places, and one of the key with its new expiry.
LEMMA SetEntry ==
  ASSUME DedupTypes, OneEntry, NEW key \in Keys, NEW expiry \in Nat,
         NEW after, after = MapSet(seen, key, expiry)
  PROVE  /\ after \in Seq(Entry)
         /\ \A i, j \in 1..Len(after) : after[i].key = after[j].key => i = j
         /\ \E e \in 1..Len(after) : after[e].key = key /\ after[e].expiry = expiry
         /\ \A i \in 1..Len(seen) : seen[i].key # key => i \in 1..Len(after) /\ after[i] = seen[i]
<1> DEFINE new == [key |-> key, expiry |-> expiry]
<1>1. seen \in Seq(Entry) /\ Len(seen) \in Nat /\ new \in Entry
      /\ \A i \in 1..Len(seen) : seen[i] \in Entry
  <2>1. seen \in Seq(Entry) /\ new \in Entry
    BY DEF DedupTypes, Entry
  <2> QED
    BY <2>1, Elements
<1>n. new.key = key /\ new.expiry = expiry
  OBVIOUS
<1>2. CASE \E i \in 1..Len(seen) : seen[i].key = key
  <2>1. after = [i \in 1..Len(seen) |-> IF seen[i].key = key THEN new ELSE seen[i]]
    BY <1>2 DEF MapSet
  <2> HIDE DEF new
  <2>2. /\ after \in Seq(Entry) /\ Len(after) = Len(seen)
        /\ \A i \in 1..Len(seen) : after[i] = IF seen[i].key = key THEN new ELSE seen[i]
    BY <1>1, <2>1
  <2>3. \A i \in 1..Len(seen) : after[i].key = seen[i].key
    BY <2>2, <1>n
  <2> QED
    BY <1>2, <1>n, <2>2, <2>3 DEF OneEntry
<1>3. CASE ~\E i \in 1..Len(seen) : seen[i].key = key
  <2>1. after = Append(seen, new)
    BY <1>3 DEF MapSet
  <2> HIDE DEF new
  <2>2. /\ after \in Seq(Entry) /\ Len(after) = Len(seen) + 1
        /\ \A i \in 1..Len(seen) : after[i] = seen[i]
        /\ after[Len(seen) + 1] = new
    BY <1>1, <2>1, Longer
  <2>3. ASSUME NEW i \in 1..Len(after), NEW j \in 1..Len(after), after[i].key = after[j].key
        PROVE  i = j
    <3>1. i \in 1..Len(seen) \/ i = Len(seen) + 1
      BY <1>1, <2>2
    <3>2. j \in 1..Len(seen) \/ j = Len(seen) + 1
      BY <1>1, <2>2
    <3> QED
      BY <1>3, <1>n, <2>2, <2>3, <3>1, <3>2 DEF OneEntry
  <2>4. Len(seen) + 1 \in 1..Len(after)
    BY <1>1, <2>2
  <2>5. \A i \in 1..Len(seen) : i \in 1..Len(after)
    BY <1>1, <2>2
  <2> QED
    BY <1>n, <2>2, <2>3, <2>4, <2>5
<1> QED
  BY <1>2, <1>3

\* An append of a value is allowed only when what was appended of it is a TTL old.
LEMMA AllowedOnce ==
  ASSUME DedupInv, IsFiniteSet(Keys), Cardinality(Keys) < DedupMaxEntries,
         NEW key \in Keys, Allowed(key)
  PROVE  DedupInv'
<1> DEFINE rec == [key |-> key, at |-> now]
           n == Len(appends)
<1>1. /\ DedupTypes /\ OneEntry /\ StillSeen /\ OncePerTtl
      /\ now \in Nat /\ n \in Nat /\ now + DedupTtl \in Nat /\ DedupTtl \in Nat
  BY LimiterAssumption DEF DedupInv, DedupTypes
<1>2. seen' = MapSet(seen, key, now + DedupTtl)
  <2>1. Len(seen) \in Nat /\ Len(seen) <= Cardinality(Keys) /\ Cardinality(Keys) \in Nat
    BY <1>1, NoEntryTwice, FS_CardinalityType
  <2>2. Evicted(seen) = seen
    BY <2>1, LimiterAssumption DEF Evicted
  <2> QED
    BY <2>2 DEF Allowed
<1>3. /\ seen' \in Seq(Entry)
      /\ OneEntry'
      /\ \E e \in 1..Len(seen') : seen'[e].key = key /\ seen'[e].expiry = now + DedupTtl
      /\ \A i \in 1..Len(seen) : seen[i].key # key => i \in 1..Len(seen') /\ seen'[i] = seen[i]
  <2>1. /\ seen' \in Seq(Entry)
        /\ \A i, j \in 1..Len(seen') : seen'[i].key = seen'[j].key => i = j
        /\ \E e \in 1..Len(seen') : seen'[e].key = key /\ seen'[e].expiry = now + DedupTtl
        /\ \A i \in 1..Len(seen) : seen[i].key # key => i \in 1..Len(seen') /\ seen'[i] = seen[i]
    <3>1. PICK after, expiry : after = seen' /\ expiry = now + DedupTtl
      OBVIOUS
    <3>2. after = MapSet(seen, key, expiry) /\ expiry \in Nat
      BY <1>1, <1>2, <3>1
    <3>3. /\ after \in Seq(Entry)
          /\ \A i, j \in 1..Len(after) : after[i].key = after[j].key => i = j
          /\ \E e \in 1..Len(after) : after[e].key = key /\ after[e].expiry = expiry
          /\ \A i \in 1..Len(seen) : seen[i].key # key => i \in 1..Len(after) /\ after[i] = seen[i]
      BY ONLY <1>1, <3>2, SetEntry, key \in Keys
    <3> QED
      BY <3>1, <3>3
  <2> QED
    BY <2>1 DEF OneEntry
<1>4. /\ appends' \in Seq(Audit)
      /\ Len(appends') = n + 1
      /\ \A i \in 1..n : appends'[i] = appends[i] /\ appends[i].at \in Nat /\ appends[i].key \in Keys
      /\ appends'[n + 1].key = key /\ appends'[n + 1].at = now
  <2>1. rec \in Audit /\ rec.key = key /\ rec.at = now
    BY <1>1 DEF Audit
  <2>2. appends' = Append(appends, rec)
    BY DEF Allowed
  <2>3. appends \in Seq(Audit)
    BY <1>1 DEF DedupTypes
  <2>4. \A i \in 1..n : appends[i] \in Audit
    BY <2>3, Elements
  <2>5. \A i \in 1..n : appends[i].at \in Nat /\ appends[i].key \in Keys
    BY <2>4 DEF Audit
  <2> HIDE DEF rec
  <2>6. /\ appends' \in Seq(Audit)
        /\ Len(appends') = n + 1
        /\ \A i \in 1..n : appends'[i] = appends[i]
        /\ appends'[n + 1] = rec
    BY <2>1, <2>2, <2>3, Longer
  <2> QED
    BY <2>1, <2>5, <2>6
<1>5. \A i \in 1..n : appends[i].key = key => appends[i].at + DedupTtl <= now
  <2> SUFFICES ASSUME NEW i \in 1..n, appends[i].key = key
               PROVE  appends[i].at + DedupTtl <= now
    OBVIOUS
  <2>1. PICK e \in 1..Len(seen) : seen[e].key = key /\ appends[i].at + DedupTtl <= seen[e].expiry
    BY <1>1 DEF StillSeen
  <2>2. ~(seen[e].expiry > now)
    BY <2>1 DEF Allowed, Blocked, EntryOf
  <2>3. seen[e].expiry \in Nat
    <3>1. seen[e] \in Entry
      BY <1>1, Elements DEF DedupTypes
    <3> QED
      BY <3>1 DEF Entry
  <2> QED
    BY <1>1, <1>4, <2>1, <2>2, <2>3
<1>6. \A i \in 1..Len(appends') : i \in 1..n \/ i = n + 1
  BY <1>1, <1>4
<1>7. StillSeen'
  <2> SUFFICES ASSUME NEW i \in 1..Len(appends')
               PROVE  \E e \in 1..Len(seen') :
                        /\ seen'[e].key = appends'[i].key
                        /\ appends'[i].at + DedupTtl <= seen'[e].expiry
    BY DEF StillSeen
  <2>1. CASE i \in 1..n /\ appends[i].key # key
    <3>1. PICK e \in 1..Len(seen) :
             seen[e].key = appends[i].key /\ appends[i].at + DedupTtl <= seen[e].expiry
      BY <1>1, <2>1 DEF StillSeen
    <3> QED
      BY <1>3, <1>4, <2>1, <3>1
  <2>2. CASE i \in 1..n /\ appends[i].key = key
    <3>1. appends'[i].key = key /\ appends'[i].at + DedupTtl <= now + DedupTtl
      BY <1>1, <1>4, <1>5, <2>2
    <3> QED
      BY <1>3, <3>1
  <2>3. CASE i = n + 1
    <3>1. appends'[i].key = key /\ appends'[i].at + DedupTtl <= now + DedupTtl
      BY <1>1, <1>4, <2>3
    <3> QED
      BY <1>3, <3>1
  <2> QED
    BY <1>6, <2>1, <2>2, <2>3
<1>8. OncePerTtl'
  <2> SUFFICES ASSUME NEW i \in 1..Len(appends'), NEW j \in 1..Len(appends'),
                      i < j, appends'[i].key = appends'[j].key
               PROVE  appends'[j].at >= appends'[i].at + DedupTtl
    BY DEF OncePerTtl
  <2>1. i \in 1..n
    BY <1>1, <1>4
  <2>2. CASE j \in 1..n
    BY <1>1, <1>4, <2>1, <2>2 DEF OncePerTtl
  <2>3. CASE j = n + 1
    <3>1. appends[i].at + DedupTtl <= now
      BY <1>4, <1>5, <2>1, <2>3
    <3> QED
      BY <1>1, <1>4, <2>1, <2>3, <3>1
  <2> QED
    BY <1>6, <2>2, <2>3
<1> QED
  BY <1>1, <1>3, <1>4, <1>7, <1>8 DEF DedupInv, DedupTypes, Allowed

\* What the doc comment of createRejectedCookieLimiter says holds while the
\* values in use are fewer than the Map's limit: one audit append per value and
\* TTL.  (At the limit it does not: a refreshed entry may be evicted first.)
THEOREM OncePerTtlBelowTheLimit ==
  ASSUME IsFiniteSet(Keys), Cardinality(Keys) < DedupMaxEntries
  PROVE  Spec => []OncePerTtl
<1>1. Init => DedupInv
  BY DEF Init, DedupInv, DedupTypes, OneEntry, StillSeen, OncePerTtl
<1>2. DedupInv /\ [Next]_vars => DedupInv'
  <2> SUFFICES ASSUME DedupInv, [Next]_vars PROVE DedupInv'
    OBVIOUS
  <2>0. ASSUME now' \in Nat, seen' = seen, appends' = appends PROVE DedupInv'
    <3>1. DedupTypes'
      BY <2>0 DEF DedupInv, DedupTypes, Entry, Audit
    <3>2. OneEntry'
      BY <2>0 DEF DedupInv, OneEntry
    <3>3. StillSeen'
      BY <2>0 DEF DedupInv, StillSeen
    <3>4. OncePerTtl'
      BY <2>0 DEF DedupInv, OncePerTtl
    <3> QED
      BY <3>1, <3>2, <3>3, <3>4 DEF DedupInv
  <2>n. now \in Nat
    BY DEF DedupInv, DedupTypes
  <2>1. CASE Tick
    <3>1. now' \in Nat /\ seen' = seen /\ appends' = appends
      BY <2>1, <2>n DEF Tick
    <3> QED
      BY <2>0, <3>1
  <2>2. ASSUME NEW key \in Keys, Allowed(key) PROVE DedupInv'
    BY <2>2, AllowedOnce
  <2>3. CASE UNCHANGED <<now, seen, appends>>
    BY <2>0, <2>3, <2>n
  <2> QED
    BY <2>1, <2>2, <2>3 DEF Next, shouldAppend, Deduplicated, WindowFull, vars
<1>3. DedupInv => OncePerTtl
  BY DEF DedupInv
<1> QED
  BY <1>1, <1>2, <1>3, PTL DEF Spec
=============================================================================
