------------------------------ MODULE Startup ------------------------------
(***************************************************************************)
(* A runtime starts (bin/serve.mjs, serveAppDir in                         *)
(* packages/runtime/src/server.ts): configuration, ./app/spec.json, the    *)
(* infra tables, the migrations (migrate.ts, one transaction each), the    *)
(* agents, the server.  Several runtimes may share one database, and each  *)
(* can fail, crash, be stopped and be started again.                       *)
(***************************************************************************)
EXTENDS AppDir

CONSTANTS Runtimes,
          Envs,       \* the environments a runtime is started with
          MaxStarts   \* bound: starts of a runtime

\* The environment variables, as far as the checks tell them apart: is every
\* required one there and well formed, and what is said of the sandbox, the
\* OIDC client secret and the development mode.
ASSUME StartupAssumption ==
  /\ MaxStarts \in Nat
  /\ Envs \subseteq [required : BOOLEAN, sandboxUrl : {"unset", "invalid", "valid"},
                     sandboxToken : {"unset", "short", "valid"},
                     devSecret : BOOLEAN, devMode : BOOLEAN]

VARIABLES rpc,       \* where runtime p is; "down" not running, "failed" exit 1
          mem,       \* what it holds in memory
          starts,    \* number of starts
          infra,     \* database: the runtime's own tables are there
          recorded,  \* database: the rows of _migrations
          ran,       \* database: how often a migration's SQL took effect ...
          schema     \* ... and with which text

startVars == <<rpc, mem, starts, infra, recorded, ran, schema>>

Down == {"down", "failed"}
InTx == {"check", "ddl", "insert", "commit"}

\* Is a sandbox configured; the spec loaded; the migrations that readdir
\* returned, those yet to do, and the text of the one at hand.
NoMem == [agents |-> FALSE, spec |-> NoFile, listed |-> {}, files |-> {}, sql |-> NoFile]

StartupInit == /\ rpc = [p \in Runtimes |-> "down"]
               /\ mem = [p \in Runtimes |-> NoMem]
               /\ starts = 0
               /\ infra = FALSE
               /\ recorded = {}
               /\ ran = [m \in Migrations |-> 0]
               /\ schema = [m \in Migrations |-> NoFile]

Goto(p, l) == rpc' = [rpc EXCEPT ![p] = l]

\* The process ends, and its memory with it.
Exit(p, l) == Goto(p, l) /\ mem' = [mem EXCEPT ![p] = NoMem]

DbUnchanged == UNCHANGED <<infra, recorded, ran, schema>>

\* Sorted by name, 0001 comes first.
NextFile(p) == IF Init0001 \in mem[p].files THEN Init0001 ELSE ByHand

-----------------------------------------------------------------------------
sandboxConfigProblems(e) ==
  \/ e.sandboxUrl = "invalid"
  \/ e.sandboxToken = "short"
  \/ (e.sandboxUrl = "unset") # (e.sandboxToken = "unset")

\* The gates configFromEnv and createServer both apply.
assertRuntimeConfig(e) == ~(e.devSecret /\ ~e.devMode) /\ ~sandboxConfigProblems(e)

configFromEnv(e) == e.required /\ ~sandboxConfigProblems(e) /\ assertRuntimeConfig(e)

\* The process starts: a bad configuration, no spec.json or half of one ends it.
Start(p, e) ==
  LET spec == app["spec.json"] IN
  /\ rpc[p] \in Down /\ starts < MaxStarts
  /\ starts' = starts + 1
  /\ IF configFromEnv(e) /\ spec # NoFile /\ spec.whole
     THEN /\ Goto(p, "infra")
          /\ mem' = [mem EXCEPT ![p].agents = e.sandboxUrl # "unset" /\ e.sandboxToken # "unset",
                                ![p].spec = spec.from]
     ELSE Exit(p, "failed")
  /\ UNCHANGED app /\ DbUnchanged

\* ensureInfraTables: CREATE ... IF NOT EXISTS, each statement on its own.
EnsureInfraTables(p) ==
  /\ rpc[p] = "infra"
  /\ infra' = TRUE /\ Goto(p, "list")
  /\ UNCHANGED <<app, mem, starts, recorded, ran, schema>>

\* readdir and sort.  The directory can be there and empty, before its first file
\* is written or after its last is removed; where it has gone, StepFails.
ListMigrations(p) ==
  LET names == {m \in Migrations : app[m] # NoFile} IN
  /\ rpc[p] = "list"
  /\ Goto(p, IF names = {} THEN "agents" ELSE "read")
  /\ mem' = [mem EXCEPT ![p].listed = names, ![p].files = names]
  /\ UNCHANGED <<app, starts>> /\ DbUnchanged

\* Mutant: a file that has gone is waited for.
ReadMigration_Retried(p) ==
  LET text == app[NextFile(p)] IN
  /\ rpc[p] = "read" /\ text # NoFile
  /\ Goto(p, "check") /\ mem' = [mem EXCEPT ![p].sql = text]
  /\ UNCHANGED <<app, starts>> /\ DbUnchanged

\* readFile of the next one; it may have gone since, or be half written.
ReadMigration(p) ==
  LET text == app[NextFile(p)] IN
  /\ rpc[p] = "read"
  /\ IF text = NoFile THEN Exit(p, "failed")
                      ELSE Goto(p, "check") /\ mem' = [mem EXCEPT ![p].sql = text]
  /\ UNCHANGED <<app, starts>> /\ DbUnchanged

\* The loop goes on with the migrations that are left.
NextMigration(p) ==
  LET left == mem[p].files \ {NextFile(p)} IN
  /\ mem' = [mem EXCEPT ![p].files = left, ![p].sql = NoFile]
  /\ Goto(p, IF left = {} THEN "agents" ELSE "read")

\* BEGIN; SELECT ... FROM _migrations: one that is recorded is skipped.
CheckMigration(p) ==
  /\ rpc[p] = "check"
  /\ IF NextFile(p) \in recorded THEN NextMigration(p)
                                 ELSE Goto(p, "ddl") /\ UNCHANGED mem
  /\ UNCHANGED <<app, starts>> /\ DbUnchanged

\* CREATE TABLE waits for an open transaction that creates the same table.
DdlWaits(p) == /\ mem[p].sql.whole /\ mem[p].sql.from \in Specs
               /\ \E q \in Runtimes \ {p} : rpc[q] \in {"insert", "commit"} /\ mem[q].sql = mem[p].sql

\* ... and fails on a table that is there.
TableExists(p) == mem[p].sql = schema[Init0001]

\* Mutant: the statements run on the pool, outside the transaction.
RunSql_NoTransaction(p) ==
  /\ rpc[p] = "ddl" /\ ~TableExists(p)
  /\ Goto(p, "insert")
  /\ ran' = [ran EXCEPT ![NextFile(p)] = @ + 1]
  /\ schema' = [schema EXCEPT ![NextFile(p)] = mem[p].sql]
  /\ UNCHANGED <<app, mem, starts, infra, recorded>>

\* The migration's statements run, in the transaction.  Half a file may end
\* between two statements, and then it runs too.
RunSql(p) ==
  /\ rpc[p] = "ddl" /\ ~DdlWaits(p)
  /\ IF TableExists(p) THEN Exit(p, "failed") ELSE Goto(p, "insert") /\ UNCHANGED mem
  /\ UNCHANGED <<app, starts>> /\ DbUnchanged

\* INSERT INTO _migrations waits for an open transaction that inserted the same
\* name, and fails on one that is committed.
RecordMigration(p) ==
  /\ rpc[p] = "insert"
  /\ ~\E q \in Runtimes \ {p} : rpc[q] = "commit" /\ NextFile(q) = NextFile(p)
  /\ IF NextFile(p) \in recorded THEN Exit(p, "failed") ELSE Goto(p, "commit") /\ UNCHANGED mem
  /\ UNCHANGED <<app, starts>> /\ DbUnchanged

\* What COMMIT makes of the database.
Committed(p) == /\ recorded' = recorded \union {NextFile(p)}
                /\ ran' = [ran EXCEPT ![NextFile(p)] = @ + 1]
                /\ schema' = [schema EXCEPT ![NextFile(p)] = mem[p].sql]

CommitMigration(p) ==
  /\ rpc[p] = "commit"
  /\ Committed(p) /\ NextMigration(p)
  /\ UNCHANGED <<app, starts, infra>>

\* The connection is lost after COMMIT took effect and before it is answered.
CommitUnanswered(p) ==
  /\ rpc[p] = "commit"
  /\ Committed(p) /\ Exit(p, "failed")
  /\ UNCHANGED <<app, starts, infra>>

\* A statement of the transaction fails: it is rolled back, ERR_MIGRATION_FAILED.
MigrationFails(p) ==
  /\ rpc[p] \in InTx
  /\ Exit(p, "failed")
  /\ UNCHANGED <<app, starts>> /\ DbUnchanged

\* buildAgentDeps: nothing to do without a sandbox.
BuildAgents(p) ==
  /\ rpc[p] = "agents"
  /\ Goto(p, "listen")
  /\ UNCHANGED <<app, mem, starts>> /\ DbUnchanged

\* createServer and listen.
Listen(p) ==
  /\ rpc[p] = "listen"
  /\ Goto(p, "serving")
  /\ UNCHANGED <<app, mem, starts>> /\ DbUnchanged

\* Any other step that throws (readdir of a directory that has gone, a statement,
\* agent wiring, createServer, listen): exit 1, and the process's connections end
\* with it, by db.end() or without.  The infra tables may be there.
StepFails(p) ==
  /\ \/ rpc[p] = "infra" /\ infra' \in {infra, TRUE}
     \/ rpc[p] = "list" /\ UNCHANGED infra
     \/ rpc[p] = "agents" /\ mem[p].agents /\ UNCHANGED infra
     \/ rpc[p] = "listen" /\ UNCHANGED infra
  /\ Exit(p, "failed")
  /\ UNCHANGED <<app, starts, recorded, ran, schema>>

\* A crash or the operator's stop: PostgreSQL rolls an open transaction back.
Stop(p) ==
  /\ rpc[p] \notin Down
  /\ Exit(p, "down")
  /\ UNCHANGED <<app, starts>> /\ DbUnchanged

StartupStep(p) == \/ EnsureInfraTables(p) \/ ListMigrations(p) \/ ReadMigration(p)
                  \/ CheckMigration(p) \/ RunSql(p) \/ RecordMigration(p)
                  \/ CommitMigration(p) \/ BuildAgents(p) \/ Listen(p)

StartupFault(p) == CommitUnanswered(p) \/ MigrationFails(p) \/ StepFails(p) \/ Stop(p)

StartupNext == \E p \in Runtimes :
  StartupStep(p) \/ StartupFault(p) \/ \E e \in Envs : Start(p, e)

-----------------------------------------------------------------------------
\* Whoever starts at the same time and whatever fails, a recorded migration's
\* SQL took effect once and no other migration's did (applyMigrations).
MigratedOnce == \A m \in Migrations : ran[m] = IF m \in recorded THEN 1 ELSE 0

\* A runtime that serves has its own tables and every migration it listed.
ServingIsMigrated == \A p \in Runtimes :
  rpc[p] = "serving" => infra /\ mem[p].listed \subseteq recorded
=============================================================================
