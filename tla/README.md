# A TLA+ model of openRupiv

openRupiv serves enterprise applications described by a declarative spec. A
Fastify runtime keeps the records in Postgres, moves them through workflows
with n-eyes approvals, writes every decision to a hash-chained audit log, and
lets governed agents run tools in a sandbox. This directory holds TLA+ models of
the parts whose correctness depends on the order of concurrent steps, the TLC
runs that check them on small instances, and TLAPS proofs of the most important
properties for instances of any size.

Paths below are relative to `packages/` of the repository.

## Inventory

| Part | State | Operations | Interacts with | Hard because |
|---|---|---|---|---|
| audit chain `audit/src/chain.ts` | none | `appendRecord`, `verifyChain` | store | must locate any tampering |
| audit store `audit/src/store.ts`, `runtime/src/audit.ts` | table `audit_log`, advisory lock | `append`, `appendInTransaction`, `read`, `verify` | every other part | many processes append; COMMIT may be lost |
| database seam `runtime/src/db.ts` | pool | `query`, `transaction` | all of the runtime | roll-back on every failure |
| workflow engine `runtime/src/workflows.ts` | state columns, `workflow_approvals` | one route per transition | audit store, policy, entities | unlocked peek, awaits, row lock, chain lock, two connections |
| entity routes `runtime/src/entities.ts` | record tables | POST, PUT, GET | workflow engine | edits race with approvals |
| limiters `runtime/src/auth.ts`, `mcp/src/rate-limit.ts` | dedup Map, window counter | `shouldAppend` | audit store | expiry, eviction and window edges |
| auth and sessions `runtime/src/auth.ts`, `session.ts` | signed cookies, discovery cache | login, callback, logout, gate | identity provider, limiter, audit store | a handshake over two cookies, two tabs and two handlers |
| sandbox supervisor `sandbox/src/server.ts`, `concurrency.ts`, `workspace.ts` | slots, queue, directories | `POST /v1/execute` | jail executor, client | duplicate run ids, nested finally blocks, crashes |
| jail executor `sandbox/src/jail-executor.ts` | pipes, timer, promise | `runJail` | supervisor | unordered events |
| sandbox client `sandbox/src/client.ts` | none | `execute` | supervisor, agent runtime | no timeout |
| agent runtime `agents/src/runtime.ts` | `agent_proposals` | `callTool`, `propose`, `finish` | audit, policy, sandbox | lifecycle records, best-effort appends |
| agent triggers `runtime/src/a2a.ts`, `admin-agents.ts`, `agent-tasks.ts` | `a2a_tasks` | SendMessage, GetTask, run | agent runtime | effects committed before the answer |
| MCP client `mcp/src/client.ts` | connection cache | `callTool`, `listTools`, `close` | MCP servers, audit, policy | concurrent connects, a live iterator in `close` |
| MCP server `mcp/src/server.ts`, `runtime/src/mcp-capabilities.ts` | none | `POST /mcp` | MCP clients, audit, policy | requests delivered late, appends that fail |
| admin audit routes `runtime/src/admin.ts` | none | read, verify, export | audit store, policy | the read is of a log that its own decision extends |
| cli `cli/src/commands/new.ts`, `generate.ts`, `git.ts` | `./app`, git index and HEAD | `new`, `generate` | generator, compiler, start-up | failures and kills between removal, write and commit |
| generator `generator/src/generate.ts` | none | `generateSpec` | model API, spec validation | bounded repair loop |
| compiler `compiler/src/compile.ts`, `sql.ts` | none | `compileApp` | cli, start-up | reference cycles between tables |
| migrations, start-up `runtime/src/migrate.ts`, `server.ts`, `config.ts` | `_migrations`, the app's tables | `serveAppDir`, `applyMigrations` | database, `./app` | several processes start at once, on files that change |
| policy `policy/src` | none | `decide` | everything | deny by default |
| spec `spec/src` | none | `validateSpec` | generator, cli, start-up | – |
| website, pages, export | – | rendering | – | – |

What makes each of the modelled parts correct:

* **audit store** – one unbroken chain whatever fails; each call recorded at most
  once and, when it reports success, exactly once; nothing rewritten.
* **verify** – no false alarm under concurrent appends; no missed tampering.
* **workflow engine** – never fewer distinct approvers than the rule asks for,
  never a record stuck with enough of them, predicates true when the state
  changes, log and data in agreement, decision before effect.
* **limiters** – bounded audit writes, one per value and TTL.
* **supervisor** – slots neither leaked nor exceeded, waiters served in order,
  workspaces never shared.
* **agent tasks** – nothing happens without its recorded allow, proposals and log
  agree, a run ends once, and nobody is told "completed" of what is not committed.
* **jail executor** – settles once, does not mask a violation, does not lose
  output unnoticed.
* **sessions** – a browser is logged in only as who authenticated in a login it
  began; what is admitted is a live session; a failed discovery harms nobody for
  long.
* **MCP** – nothing on the wire and no capability run without its recorded allow;
  the code returned is true of the far end; connections are accounted for.
* **cli and start-up** – what is committed is whole, exit codes are true, a
  migration takes effect once, a serving runtime is migrated, and the tables are
  those of the spec it serves.

The hazards these properties are aimed at are listed, with their source lines, in
`PROJECT.json`.

## Modules

| Module | Models | Extends |
|---|---|---|
| `HashChain` | `chain.ts`: records, hashes, `verifyChain` | |
| `AuditLog` | what the store promises: an abstract append-only log | |
| `AuditChain` | `append()` statement by statement | `HashChain`; refines `AuditLog` |
| `ChainTamper` | `verifyChain` against the tampering modes of its tests | `HashChain` |
| `AuditVerify` | `verify()` and the admin's read, paging beside the appends | `AuditChain`, `ChainTamper` |
| `RecordRules` | what workflows promise of the records: requests served one at a time | |
| `Workflow` | `executeTransition`, POST and PUT | uses the abstract log; refines `RecordRules` |
| `RejectedLimiter` | the two limiters, one algorithm | |
| `Sessions` | discovery, login, callback, logout, the session gate | `RejectedLimiter` |
| `SandboxServer` | the execute route, the gate, the workspaces | |
| `JailExecutor` | `runJail` | |
| `AgentTasks` | `callTool`, `propose`, `finish`; the A2A and admin triggers | uses the abstract log |
| `McpClient` | `callTool`, `listTools`, `close` | |
| `McpServer` | `POST /mcp` | |
| `Mcp` | the two on the ends of a wire | `McpClient`, `McpServer` |
| `AppDir` | `./app` and what `compileApp` puts there | |
| `Generate` | `new`, `generate` with the repair loop | `AppDir` |
| `Startup` | `serveAppDir`, `applyMigrations` | `AppDir` |
| `MigrationPlan` | `planTableOrder` | |
| `Delivery` | the CLI and the runtimes on one `./app` | `Generate`, `Startup`, `MigrationPlan` |
| `AuditChainProofs`, `WorkflowProofs`, `SandboxProofs`, `AgentTasksProofs`, `JailProofs`, `SessionsProofs`, `McpProofs`, `DeliveryProofs` | the theorems | |

`MC...` modules give the constants of a run their values.

### AuditChain

A call has a program counter over the statements of `append`: BEGIN, the
advisory lock, the tail query, INSERT, COMMIT. The tail query is two steps,
because under READ COMMITTED the row returned is fixed by the statement's
snapshot (`ScanTail`) even when `FOR UPDATE` then waits for that row's lock
(`LockTail`); this is the race the head of `store.ts` explains. INSERT waits for
an uncommitted row with the same key and is refused by a committed one. A
failure before COMMIT rolls back (`Rollback`); a failure after it took effect
makes `append()` throw although the record is there (`LoseCommitAnswer`).
SHA-256 is modelled as an injective function of the record's body. The timestamp
and the attributes are part of the input.

### AuditVerify and ChainTamper

`verify()` reads `PageSize` rows per statement, each on the rows committed at
that moment. A call of `AdminReads` is `authorizeAuditRead`: its append returns,
and then the log is read (`AdminRead`). `ChainTamper` is a predicate: every
alteration that `audit/test/chain.test.ts` names (with and without a new hash),
at every position of a chain, is reported at its place as long as a record
follows it. It is checked of every log that the store's runs produce.

### Workflow

One handler serves one request at a time: `Peek` (unlocked read), `DecideGuard`
and `DecideApproval` (the policy's verdict, audited on a connection of its own,
before it is acted on), `LockRow` (BEGIN, SELECT FOR UPDATE, both checks again),
`InsertApproval`, `CountApprovals`, `SetState`, `AppendInTransaction`, `Commit`.
What a transaction wrote is buffered (`inserted`, `removed`, `effect`) until
`Commit`. The audit log is the abstract log that `AuditChain` implements: an
append outside a transaction is one step, one inside takes the chain lock and
keeps it to the end of the transaction. Guard predicates are the set `Passes[t]`
of field values they accept; the policy's verdicts are the sets `GuardAllows[t]`
and `ApproveAllows[t]`. Records are created and edited at any moment.

Failures: an audit append that fails before COMMIT or only for its caller
(`AuditFails`, `AuditAnswerLost`), a statement or connection that fails inside
the transaction (`Rollback`). A COMMIT whose answer is lost leaves the same
state as one that is answered.

`RecordRules` is the same system as its users may think of it: no handlers, locks
or log, only records, their fields and the approvals given. A request is in order
when the record is in the transition's `from` state, the predicates hold, and the
policy allows the user; it then either adds an approval or, with enough of them,
moves the record and uses them up. `Workflow` implements it
(`ImplementsRecordRules`): the abstract step is the COMMIT, so what was checked
before several awaits must still be true there. Its variables are variables of
`Workflow`, so the refinement mapping is the identity.

### RejectedLimiter and Sessions

The JavaScript `Map` is a sequence of entries in insertion order, because the
eviction takes the first key and `set` on a present key keeps its place. Time is
a counter; `shouldAppend` is atomic (it awaits nothing).

`Sessions` has the handlers of `/auth/login` and `/auth/callback` with their
awaits: discovery (one cached promise shared by all, dropped when it fails), the
code exchange, the audit appends before the answer. A signed cookie is a record
with its purpose and its expiry. A login (`flow`) stands for its state, nonce and
PKCE verifier; openid-client and the provider, which are external, accept a code
once and only with the values of its own login. Callbacks may be opened in any
browser, again, or after another tab replaced the transaction cookie.

### SandboxServer and JailExecutor

A request goes through the gate, `createWorkspace`, the input file, the jail, and
the two finally blocks; every early return and every throw is an action. The
answer is sent before the workspace is cleaned up and the slot released, as in
the code. `Crash` empties the process (jails die with it) and keeps the
directories. Within a step nothing is awaited. `JailExecutor` is the inside of
one `runJail`: the process, its pipes, the timer and the event handlers in any
order Node may deliver them. Bytes are counted, not represented.

### AgentTasks

A run is one request that triggers a task: the decision on the trigger
(`DecideTrigger`), `contextFor` and the look-up of the procedure in the order of
each trigger (`OpenAdmin`, `OpenA2a`), the procedure `vendorRiskReview`
(`ReadRecord`, `RefuseTool`, `DecideTool`, `Execute`, `ExecuteThrows`,
`ToolResult`, `Propose`),
`Finish`, and for A2A the task row and the result record (`Store`, `ReplyA2a`).
The `task_started` append that `contextFor` does not await is an action of its own
(`TaskStarted`), which may come at any later time. Every append may return, throw
without its record, or commit and throw; so may the proposal's transaction and
the INSERT of the task. The policy's verdicts are not fixed. `Crash` stops the
process.

### McpClient, McpServer and Mcp

A call goes through the three gates and the audit append (`CallTool`,
`AuditCall`), the connection cache (read before the connect is awaited, written
after it), the wire, and the best-effort result record. The cache is a sequence
in insertion order, because `close()` iterates the live Map with an await in the
loop. A connection is named by the call that opened it. The history variable
`raced` collects the servers whose slot was wanted twice at once. On the server
side the dispatcher's answers, the fail-closed append of `mcp.serve_call` and
the best-effort ones are separate steps; in `Mcp` a request is delivered at any
time after it was sent, also when its sender has given up, and the answer may
be lost.

### Generate, Startup and Delivery

`generate` is a program counter from the model call to `git rev-parse`. `./app`
is a function from file names to contents, and a file's contents are the spec it
comes from and whether all of it is there: `rm` goes entry by entry, `writeFile`
truncates first, so a reader can meet any of it half done. A failure inside
`rm` or `writeFile` is no `CliError` and exits 1; a failing git command exits 4.
A step of `new` that throws starts the removal of the workspace, which may fail
or be killed itself and then leaves part of it (`NewCleanupFails`); `generate`
runs in what is left when it has the configuration and `.git`.
`Startup` has the checks of the environment (`configFromEnv`,
`assertRuntimeConfig`), the read of `spec.json`, the infra tables, `readdir`,
and each migration's transaction statement by statement: `CREATE TABLE` and the
INSERT wait for an open transaction that did the same, and fail on a committed
one. `Committed` is what COMMIT changes, answered or not. `MigrationPlan` is the
topological sort of the tables, an entity being its place in the spec;
`EveryPlanInOrder` is a fact about constants, which TLC evaluates as an assumption
of `MCDelivery` for every graph of references between three entities, the cyclic
and self-referring ones included, and `PlansInOrder` proves for any number. The
order is all it says of the migration: names, column types and defaults are not modelled.

## Runs

| Run | Shows | Bounds |
|---|---|---|
| `audit_store` | no fork, gap or collision; each call at most once; refinement of `AuditLog`; every append returns; no false alarm of `verify()` while appends commit between its pages; every alteration with a record after it is found and located; an admin's read covers its own decision | 3 calls, 2 of them admin reads, pages of 2 |
| `workflow` | n-eyes in every round, no approval outlives its state, no lost flip, log and data agree, decision first, every request answered; refinement of `RecordRules` (state, predicates and policy true at the COMMIT) | 2 handlers, 3 requests, 3 users, 4 transitions with a revision loop |
| `workflow_two` | *violation*: a second workflow's transition wipes the first one's approvals | 2 workflows |
| `sessions` | a session only from the browser's own login; only live sessions admitted; every handler answers; discovery recovers; cap of the limiter | 2 browsers, 2 handlers, 2 logins, 3 junk cookies, map of 2, 4 ticks |
| `limiter_dedup` | *violation*: audited twice within one TTL | 6 values, map of 5 |
| `sandbox` | slots, workspaces, order; a waiter is served | 4 requests on 2 run ids, 2 slots, queue of 1, 1 crash |
| `jail` | the promise settles, violations first, no silent cut | cap of 2, 4 bytes written |
| `jail_whole_output` | *violation*: success with part of the output | same |
| `agent_tasks` | allow recorded before effect; proposals and log agree; one finish record; "completed" is true; every run answered | 1 run, 3 tasks (one without procedure, one undeclared), 1 crash |
| `mcp` | audited before the wire and before the handler; codes tell the truth; orphaned connections only by a race; every call and `close()` return | 2 calls, 2 configured servers, 1 stranger's request |
| `delivery` | HEAD whole, exit codes true, migrations once, every command ends | 3 specs (one not compilable), 2 runtimes, 5 environments, 2 attempts, 3 commands |
| `regenerate` | *violation*: a new spec served on the old tables | 3 specs, 1 runtime, 1 attempt, 4 commands |

Why the bounds are enough for the cases of interest: two handlers and three
users make every pair of steps race and a round of two approvals complete; three
requests are an approval, an approval or a revision, and what follows it. A
stale approval is met on the shortest revision loop, a transition from review to
review: an approval, that transition, and a completion that would count the
approval of the round before if `setState` did not delete it. Longer loops (by
`revise` and `submit`) need four requests, out of reach together with the liveness
property; for them `ApprovalsMatchState` shows that nothing survives the first
step of the loop, and `EnoughApprovers` covers loops of any length. Three
appends with pages of two make a full page, a short page and an append between
them. Two browsers with two logins are another tab (one browser, both logins)
and another person's link (both browsers); the clock passes the life of a
transaction and of a session. Two run ids used twice each with two slots make
duplicates run together, wait, and follow a crash. A cap of two with four bytes
gives output below, at and above it in one chunk or several. Agent runs share
nothing but the append-only log and the stop of the process, so one run meets
every case of its own; `AgentTasksProofs` covers any number of them. Two MCP
calls are both first calls, a call and a cached connection, or a call and
`close()`. Three commands are two starts during one `generate`, or two
`generate` and a start; `regenerate` needs start, `generate`, start on top of
the first `generate`. The theorems remove the bounds where they apply.

Named bounds in the modules: `MaxRequests` (`Workflow`), `MaxTime`, `FlowLeft` (a
login has a flow left to begin) and the guard that cookies of callers without a
browser come only in behaviours without a login (`Sessions`), `MaxCrashes`,
`MaxWritten`, `ClientQuiet` (strangers' requests come in behaviours of their own:
they share only the life of a token with the client's calls), `MaxStarts`,
`MaxGenerations`, `MaxCommands`.

Deadlock checking is off where the system comes to rest when all calls of the
run have been served.

### Findings

1. `setState` deletes all approvals of a record, also those of a second workflow
   on the entity; the comment assumes there is one. Safe (more approvals are
   asked for, never fewer) but an approval round is lost (`workflow_two`).
2. A refreshed entry of the dedup map keeps its place and is evicted first, so a
   value can be audited twice in a TTL (`limiter_dedup`).
3. `runJail` takes the result at `exit`; output still in the pipe is lost and the
   run reported as a success (`jail_whole_output`).
4. `compileApp` always names its migration `0001_init.sql`. After a regenerate
   the next start finds that name applied, skips the new text and serves the new
   spec on the old tables, although the emitted file says it is never edited once
   applied and the workspace README offers regenerating (`regenerate`).

Smaller observations have no run of their own. When `finish()` or the INSERT of
the task fails, or the COMMIT of the proposal is lost on its way back, the caller
sees an error although the proposal is there, and a retry makes a second one
(`CompletedIsTrue` is the direction that holds). A `task_started` record can be
missing, or come after the `task_finished` of its run. The limiter's "rolling" window
is a fixed one (hence `TwoWindowsCap` and not the cap itself), and output of
exactly `maxOutputBytes` is reported as having exceeded it. `verifyChain` has no
expected length or head to compare with, so the deletion of the newest audit
records is not noticed (`TamperLocated` asks for a record after the alteration),
while the audit README lists deletion without that limit. Two first calls to one
MCP server leave a connection that `close()` cannot reach, as does a connect that
ends after `close()`; `OrphansOnlyByRace` says these are the only ways. A model
or file-system error ends `generate` with exit 1 and no JSON object, while its
header lists the codes 0, 2, 3 and 4 and promises exactly one object. A `new`
that is killed, or whose cleanup fails as its step did, leaves its directory
("Never leave a half-created workspace behind" is best effort), which a second
`new` then refuses. The compiler emits names unquoted and refuses neither reserved
words nor the names of the runtime's own tables, so a spec with an entity `Order`
or `User` compiles and its migration fails at start-up, although
`collectSqlErrors` is there for "anything that would produce broken or ambiguous
DDL"; names are not modelled. `generate` removes
a migration added by hand together with the rest of `./app`.

## Fairness

* `AuditChain`: weak fairness of each call's next statement. Postgres answers
  statements and grants an advisory lock that stays free; failures are never
  fair.
* `Workflow`: strong fairness of each handler's next step. Locks are queued by
  Postgres, so a waiter cannot be overtaken for ever although the lock is taken
  by others in between; the event loop resumes every handler.
* `SandboxServer`: weak fairness of each request's next step. File operations
  end, and a jail ends because `JailExecutor` settles.
* `AgentTasks`: weak fairness of each run's next step. Postgres answers or the
  connection breaks; the sandbox client has no timeout, so this also rests on the
  supervisor answering (`WaiterServed`, `JailSettles`).
* `Sessions`: weak fairness of each handler and of the end of a discovery, one way
  or the other. `NotPoisoned` also assumes strong fairness of a successful
  discovery: a provider that is asked again and again is not down for ever.
* `Mcp`: weak fairness of each call's next step, which may be a failure (the SDK
  has a request timeout), and of `close()`'s next step. The server's steps and the
  delivery of a request are not fair.
* `Delivery`: weak fairness of the next regular step of `generate` and of each
  runtime. Nobody has to run a command, and no fault has to happen.
* `JailExecutor`: the timer fires, and `exit` or `error` is delivered. Nothing is
  assumed of the tool: it may write for ever and never end.

## Proofs

All are for arbitrary values of the constants, from the named assumptions of the
modules (typing of the constants; positive slot, page and approval numbers).

* `AuditChainProofs`. The inductive invariant `ChainInv` says that the holder of
  the advisory lock is exactly the call between reading the tail and COMMIT
  (`LockHeld`), that the keys are 1..n (`Contiguous`), and that what a call read
  is still the tail (`TailFresh`). `ChainLinked` and `NoUniqueViolation` alone
  are not inductive: they need that no other call can commit while the lock is
  held. From it follow that appends are exactly-once, that rows are never
  rewritten, that the lock's holder meets no second lock (`HolderNeverWaits`), and
  the refinement of `AuditLog`, where `Commit` is the abstract `Record` step
  because keys in order are a sequence. `ReadInvariant` is about readers: pages
  collected so far are the first rows of the log, because rows never change and
  new ones go after all others; hence no false alarm (`NoFalseAlarm`) and an admin
  read that holds its own decision (`ReadIsComplete`). `TamperingIsLocated` is one
  fact about chains applied to each alteration: a record whose link or hash is
  wrong fails where it is, and one with a new hash breaks its successor's link.
* `WorkflowProofs`. `WorkflowInv` says that a transaction has its row locked and
  no other (`RowLocked`), that what it checked stays true (`ChecksHold`), and that
  what it counted and buffered still agrees with the table when it commits
  (`BufferFresh`); with these, `ApprovalsMatchState`, `PendingBelowThreshold`,
  `ApprovalsInLog` and `NEyes` are preserved by every step. On top of it:
  - `HandlersImplementRules`, the refinement of `RecordRules`. It also needs that
    whoever is past a decision was allowed it (`OnlyTheEntitled`); then a COMMIT
    is one abstract step (`CommitIsARule`) and every other step a stutter.
  - `LogIsReplayed`: the last state change in the log of a record is its state.
    `ReplayInv` adds that a record not yet created has none, since a POST sets
    the initial state.
  - `CausePrecedesEffect`: counting. Per request, effects in the log and handlers
    past a decision are together no more than the decisions (`CauseInv`), so each
    allow is used once; `DecisionPrecedesEffect` needs this at every prefix.
  - `LocksNeverCircle`: a chain of waits has at most two links (row lock, chain
    lock), the safety half of `RequestAnswered`.
  - `PredicatesHoldAtFlip`, and `OneWorkflowKeepsApprovals`, below.
* `SandboxProofs`. An invariant ties slots, queue and directories to the program
  counters; the cardinality of the holders is tracked through each hand-over.
* `AgentTasksProofs`. `AgentInv` says, by the step a run is at, which of its
  records and rows are committed (`RunPhase`). `FinishClosesRun` needs that a run
  still working has no finish record; `CompletedIsTrue` that the finish record and
  the proposal are there before the task row. A step of one run changes nothing
  that the invariant says of another (`OtherRun`).
* `McpProofs`. `ClientInv` says by the step a call is at what was audited and
  whose connection it has (`CallPhase`), that a cache entry is for the server it
  was opened to (`CacheTrue`), and that an open connection is in the cache or its
  server's slot was raced for, also behind the cursor of `close()`
  (`OpenAreKnown`); `ServerInv` that a request in its handler has its allow record
  (`RequestPhase`). `CodesTellTruth` relates the two ends and needs `BothEnds`:
  what the server has was sent, and an `ok` of the client is an outcome of the
  server.
* `DeliveryProofs`. `CliInv` says what `./app`, the index and HEAD are at each step
  of `generate`: files already written are the target's, the index is whole when
  `commit` is reached. `RunInv` says what a transaction of a start has seen:
  whoever is past its INSERT has a migration that is not recorded, and no other
  runtime is there with the same one, so COMMIT takes effect once; the migrations
  listed and no longer to do are recorded. `PlansInOrder` is about `planTableOrder`,
  a loop: its turns are a recursive function, shown to exist by taking the least
  turn without a value; an invariant of the turns gives order and completeness, a
  measure that grows with each turn gives the end within two turns per entity, and
  a deferral happens only when every remaining entity refers to another remaining
  one, which by the pigeonhole principle closes a cycle.
* `JailProofs`. The invariant adds to the two properties that a settled promise
  belongs to a process that no longer runs, so that its way of ending is fixed.
* `SessionsProofs`. `LoginInv` says that a transaction cookie is of a login its
  browser began (`TxnOwn`), that what a handler holds across an await is still
  true (`JobOwn`), and that tokens given out say when and for whom
  (`MintedTrue`). All of it survives because a login only goes forward
  (`Forward`): who began it, and later who authenticated, never change.
  `LimiterInv` says of the limiter what the present window holds and that one
  window length before it lies in one window (`WindowHas`); a span of one window
  length then meets two windows. It is proved of the limiter alone
  (`LimiterCapped`) and as the session gate drives it (`GateCapped`).

Three theorems say how far a finding reaches. What `setState`'s comment assumes
is true with one workflow on the entity and no transition back to the state it
leaves (`OneWorkflowKeepsApprovals`). A value is audited once per TTL while the
rejected values are fewer than the map's entries (`OncePerTtlBelowTheLimit`):
without an eviction every append has its entry (`StillSeen`). A jail reported as a
success has every byte that was received (`OkHasAllReceived`), so what is missing
came after `exit`. They hold under the hypotheses they state; the runs
`workflow_two`, `limiter_dedup` and `jail_whole_output` show what happens
without them.

Some results are only proved, no run has them as a property: the inductive
invariants themselves, `AppendOnly`, `GuardHoldsAtFlip`, `WaitsAreShort`,
`QueueExact`, `ServingIsMigrated`, `EveryPlanInOrder` (TLC evaluates it as an
assumption of `MCDelivery`) and the three theorems above.

Only model-checked: the liveness properties (`AppendReturns`,
`RequestAnswered`, `WaiterServed`, `JailSettles`, `RunAnswered`, `HandlersReturn`,
`NotPoisoned`, `CallAnswered`, `CommandsEnd`), which need fairness, beyond this
prover. Every safety property of a passing run is a theorem.

## Not modelled, and the plan

Not modelled because there is no interleaving or state to check: pages, audit
export formats, spec validation, the text the compiler emits, policy text, the
prompt, the parser and the offline evaluation of the generator, path and
argument construction, configuration parsing, the website. A policy decision, a
valid spec and a guard predicate are inputs of the models. The pool's size in
`db.ts` is not modelled: a handler has one connection at a time (the decisions are
appended before the transaction begins, a duplicate after it ended), so the pool
delays handlers and adds no wait that holds another.

Left to do, in this order:

1. The safety half of the other liveness properties, as `LocksNeverCircle` is of
   `RequestAnswered`: who waits in the supervisor, the MCP client and start-up
   waits for someone who can go on.
2. `ServedSchema` where no migration is rewritten after it was applied, the
   condition under which the last finding does not arise.
3. An abstract specification of the supervisor (a bounded first-come-first-served
   server) and of the MCP exchange, refined by their modules.
