--------------------------- MODULE DeliveryProofs ---------------------------
(***************************************************************************)
(* What Delivery promises for any specs, any number of runtimes and any    *)
(* number of commands: ./app and its commits are never torn, exit codes    *)
(* are true, a migration takes effect once.  The CLI and the runtimes      *)
(* share only ./app, which the runtimes do not write: each side has an     *)
(* inductive invariant of its own.                                         *)
(***************************************************************************)
EXTENDS Delivery, FiniteSetTheorems, SequenceTheorems, WellFoundedInduction, TLAPS

-----------------------------------------------------------------------------
(* The CLI.                                                                *)

CliTypes ==
  /\ app \in [Files -> Contents]
  /\ ws \in {"absent", "made", "files", "git", "ready"}
  /\ npc \in {"idle", "running", "cleanup"}
  /\ gpc \in {"idle", "model", "remove", "write", "add", "status", "commit", "rev-parse", "done"}
  /\ at \in Nat

\* A run of generate has a workspace to itself.
OneCommand == gpc \notin {"idle", "done"} => npc = "idle" /\ ws # "absent"

Projecting == {"remove", "write", "add", "status", "commit", "rev-parse"}

\* The file f while generate is at file number i: written, being written, to do.
WrittenUpTo(i) ==
  /\ i \in {1, 2}
  /\ app[ByHand] = NoFile
  /\ app[Init0001] \in (IF i = 1 THEN {NoFile, Torn(target)} ELSE {Whole(target)})
  /\ app["spec.json"] \in (IF i = 1 THEN {NoFile} ELSE {NoFile, Torn(target)})

\* What ./app, the index and HEAD are at each step of a run.
RunPhase ==
  /\ gpc \in Projecting => target \in Compilable
  /\ gpc = "model" => app = before
  /\ gpc = "write" => WrittenUpTo(at)
  /\ gpc \in {"add", "status", "commit", "rev-parse"} => app = compileApp(target)
  /\ gpc \in {"status", "commit"} => index = app
  /\ gpc = "rev-parse" => head = app
  /\ gpc = "done" /\ exit = 0 => app = compileApp(target) /\ head = app
  /\ gpc = "done" /\ exit \in {2, 3} => app = before

CliInv == CliTypes /\ OneCommand /\ RunPhase /\ HeadIsCompiled

-----------------------------------------------------------------------------
(* The runtimes.                                                           *)

Memory == [agents : BOOLEAN, spec : Specs \union {ByHand, NoFile}, listed : SUBSET Migrations,
           files : SUBSET Migrations, sql : Contents]

RunTypes ==
  /\ rpc \in [Runtimes -> Down \union InTx \union
                {"infra", "list", "read", "agents", "listen", "serving"}]
  /\ mem \in [Runtimes -> Memory]
  /\ recorded \subseteq Migrations
  /\ ran \in [Migrations -> Nat]

\* Of the open transactions one may commit a given migration, and it is not
\* recorded yet.
OneCommitter ==
  /\ \A p \in Runtimes : rpc[p] = "commit" => NextFile(p) \notin recorded
  /\ \A p, q \in Runtimes :
       rpc[p] = "commit" /\ rpc[q] = "commit" /\ NextFile(p) = NextFile(q) => p = q

\* What runtime p has done of its migrations.
Migrating(p) ==
  /\ rpc[p] \notin Down \union {"infra"} => infra
  /\ rpc[p] \in InTx \union {"read"} => mem[p].listed \subseteq mem[p].files \union recorded
  /\ rpc[p] \in {"agents", "listen", "serving"} => mem[p].listed \subseteq recorded

RunInv == /\ RunTypes /\ OneCommitter /\ MigratedOnce
          /\ \A p \in Runtimes : Migrating(p)

-----------------------------------------------------------------------------
(* Steps of the runtimes.                                                  *)

\* Whatever is left of the migrations, the next one is a migration.
LEMMA NextFileIsMigration ==
  ASSUME NEW p \in Runtimes PROVE NextFile(p) \in Migrations
BY DEF NextFile, Migrations

\* A step of p that leaves the database's record of migrations alone.
LEMMA QuietStep ==
  ASSUME RunInv, RunTypes', NEW p \in Runtimes,
         infra => infra',
         UNCHANGED <<recorded, ran>>,
         \A q \in Runtimes \ {p} : rpc'[q] = rpc[q] /\ mem'[q] = mem[q],
         rpc'[p] # "commit",
         Migrating(p)'
  PROVE  RunInv'
<1>1. \A q \in Runtimes \ {p} : NextFile(q)' = NextFile(q)
  BY DEF NextFile
<1>2. OneCommitter'
  BY <1>1 DEF RunInv, OneCommitter
<1>3. MigratedOnce'
  BY DEF RunInv, MigratedOnce
<1>4. \A q \in Runtimes \ {p} : Migrating(q)'
  BY DEF RunInv, Migrating
<1> QED BY <1>2, <1>3, <1>4 DEF RunInv

\* The process of p ends with an error or is stopped.
LEMMA ExitStep ==
  ASSUME RunInv, NEW p \in Runtimes, NEW l \in Down, Exit(p, l),
         infra => infra', UNCHANGED <<recorded, ran>>
  PROVE  RunInv'
<1>1. RunTypes'
  BY DEF RunInv, RunTypes, Memory, Exit, Goto, NoMem, Contents
<1>2. rpc'[p] = l /\ \A q \in Runtimes \ {p} : rpc'[q] = rpc[q] /\ mem'[q] = mem[q]
  BY DEF RunInv, RunTypes, Exit, Goto
<1>3. Migrating(p)'
  BY <1>2 DEF Migrating, Down, InTx
<1> QED BY <1>1, <1>2, <1>3, QuietStep DEF Down

\* p goes on to a step that is not the commit, with the memory it has.
LEMMA GotoStep ==
  ASSUME RunInv, NEW p \in Runtimes,
         NEW l \in InTx \union {"infra", "list", "read", "agents", "listen", "serving"},
         Goto(p, l), UNCHANGED <<mem, recorded, ran>>, infra => infra', l # "commit",
         Migrating(p)'
  PROVE  RunInv'
<1>1. RunTypes'
  BY DEF RunInv, RunTypes, Goto
<1>2. rpc'[p] = l /\ \A q \in Runtimes \ {p} : rpc'[q] = rpc[q] /\ mem'[q] = mem[q]
  BY DEF RunInv, RunTypes, Goto
<1> QED BY <1>1, <1>2, QuietStep

\* p is done with its migration, which is recorded now.
LEMMA NextMigrationStep ==
  ASSUME RunInv, NEW p \in Runtimes, rpc[p] \in InTx, NextMigration(p),
         infra' = infra, NextFile(p) \in recorded', recorded \subseteq recorded',
         recorded' \subseteq Migrations, ran' \in [Migrations -> Nat]
  PROVE  /\ RunTypes'
         /\ \A q \in Runtimes \ {p} : rpc'[q] = rpc[q] /\ mem'[q] = mem[q]
         /\ rpc'[p] # "commit"
         /\ Migrating(p)'
<1> DEFINE left == mem[p].files \ {NextFile(p)}
           l == IF left = {} THEN "agents" ELSE "read"
<1>1. rpc' = [rpc EXCEPT ![p] = l] /\ mem' = [mem EXCEPT ![p].files = left, ![p].sql = NoFile]
  BY DEF NextMigration, Goto
<1>2. RunTypes'
  <2> DEFINE after == [mem[p] EXCEPT !.files = left, !.sql = NoFile]
  <2>1. after \in Memory
    BY DEF RunInv, RunTypes, Memory, Contents
  <2>2. mem' = [mem EXCEPT ![p] = after]
    BY <1>1
  <2>3. mem' \in [Runtimes -> Memory]
    <3> HIDE DEF after
    <3> QED BY <2>1, <2>2 DEF RunInv, RunTypes
  <2> QED BY <1>1, <2>3 DEF RunInv, RunTypes
<1>3. /\ rpc'[p] = l /\ mem'[p].files = left /\ mem'[p].listed = mem[p].listed
      /\ \A q \in Runtimes \ {p} : rpc'[q] = rpc[q] /\ mem'[q] = mem[q]
  BY <1>1 DEF RunInv, RunTypes, Memory
<1>4. infra /\ mem[p].listed \subseteq mem[p].files \union recorded
  BY DEF RunInv, Migrating, InTx, Down
<1>5. Migrating(p)'
  <2>1. mem'[p].listed \subseteq left \union recorded'
    BY <1>3, <1>4
  <2> QED BY <1>3, <1>4, <2>1 DEF Migrating, InTx
<1> QED BY <1>2, <1>3, <1>5

\* The COMMIT of p: its migration is recorded and has taken effect, once.
LEMMA CommittedStep ==
  ASSUME RunInv, NEW p \in Runtimes, rpc[p] = "commit", Committed(p),
         RunTypes', infra' = infra,
         \A q \in Runtimes \ {p} : rpc'[q] = rpc[q] /\ mem'[q] = mem[q],
         rpc'[p] # "commit", Migrating(p)'
  PROVE  RunInv'
<1>1. \A q \in Runtimes \ {p} : NextFile(q)' = NextFile(q)
  BY DEF NextFile
<1>2. OneCommitter'
  BY <1>1 DEF RunInv, OneCommitter, Committed
<1>3. MigratedOnce'
  <2>1. NextFile(p) \in Migrations /\ NextFile(p) \notin recorded
    BY NextFileIsMigration DEF RunInv, OneCommitter
  <2> QED BY <2>1 DEF RunInv, RunTypes, MigratedOnce, Committed
<1>4. \A q \in Runtimes \ {p} : Migrating(q)'
  BY DEF RunInv, Migrating, Committed
<1> QED BY <1>2, <1>3, <1>4 DEF RunInv

\* Every step of a runtime keeps the runtimes' invariant.
LEMMA RuntimeSteps ==
  ASSUME RunInv, app \in [Files -> Contents], StartupNext
  PROVE  RunInv'
<1>1. PICK p \in Runtimes : StartupStep(p) \/ StartupFault(p) \/ \E e \in Envs : Start(p, e)
  BY DEF StartupNext
<1> USE DEF DbUnchanged
<1> /\ Migrating(p)
    /\ NextFile(p) \in Migrations
    /\ rpc \in [Runtimes -> Down \union InTx \union
                   {"infra", "list", "read", "agents", "listen", "serving"}]
  BY NextFileIsMigration DEF RunInv, RunTypes
<1>start. CASE \E e \in Envs : Start(p, e)
  <2>1. PICK e \in Envs : Start(p, e)
    BY <1>start
  <2>2. CASE Exit(p, "failed")
    BY <2>1, <2>2, ExitStep DEF Start, Down
  <2>3. CASE ~Exit(p, "failed")
    <3> DEFINE spec == app["spec.json"]
    <3>1. /\ rpc' = [rpc EXCEPT ![p] = "infra"]
          /\ mem' = [mem EXCEPT ![p].agents = e.sandboxUrl # "unset" /\ e.sandboxToken # "unset",
                                ![p].spec = spec.from]
          /\ spec # NoFile
          /\ UNCHANGED <<infra, recorded, ran>>
      BY <2>1, <2>3 DEF Start, Goto
    <3>2. spec.from \in Specs \union {ByHand}
      BY <3>1 DEF Files, Contents
    <3>a. (e.sandboxUrl # "unset" /\ e.sandboxToken # "unset") \in BOOLEAN
      OBVIOUS
    <3>3. RunTypes'
      <4>1. rpc' \in [Runtimes -> Down \union InTx \union
                        {"infra", "list", "read", "agents", "listen", "serving"}]
        BY <3>1
      <4> DEFINE flag == e.sandboxUrl # "unset" /\ e.sandboxToken # "unset"
                 after == [mem[p] EXCEPT !.agents = flag, !.spec = spec.from]
      <4>2. mem' = [mem EXCEPT ![p] = after]
        BY <3>1
      <4>3. after \in Memory
        <5>1. mem[p] \in Memory /\ flag \in BOOLEAN
          BY <3>a DEF RunInv, RunTypes
        <5> HIDE DEF flag
        <5> QED BY <3>2, <5>1 DEF Memory
      <4>4. mem' \in [Runtimes -> Memory]
        <5> HIDE DEF after
        <5> QED BY <4>2, <4>3 DEF RunInv, RunTypes
      <4> QED BY <3>1, <4>1, <4>4 DEF RunInv, RunTypes
    <3>4. rpc'[p] = "infra" /\ \A q \in Runtimes \ {p} : rpc'[q] = rpc[q] /\ mem'[q] = mem[q]
      BY <3>1 DEF RunInv, RunTypes
    <3>5. Migrating(p)'
      BY <3>4 DEF Migrating, InTx
    <3> QED BY <3>1, <3>3, <3>4, <3>5, QuietStep
  <2> QED BY <2>2, <2>3
<1>infra. CASE EnsureInfraTables(p)
  <2>1. Migrating(p)'
    BY <1>infra DEF EnsureInfraTables, Goto, Migrating, InTx, Down
  <2> QED BY <1>infra, <2>1, GotoStep DEF EnsureInfraTables
<1>list. CASE ListMigrations(p)
  <2> DEFINE names == {m \in Migrations : app[m] # NoFile}
             l == IF names = {} THEN "agents" ELSE "read"
  <2>1. /\ rpc' = [rpc EXCEPT ![p] = l]
        /\ mem' = [mem EXCEPT ![p].listed = names, ![p].files = names]
        /\ UNCHANGED <<infra, recorded, ran>> /\ infra
    BY <1>list DEF ListMigrations, Goto, Migrating, Down
  <2>2. RunTypes'
    BY <2>1 DEF RunInv, RunTypes, Memory
  <2>3. /\ rpc'[p] = l /\ mem'[p].listed = names /\ mem'[p].files = names
        /\ \A q \in Runtimes \ {p} : rpc'[q] = rpc[q] /\ mem'[q] = mem[q]
    BY <2>1 DEF RunInv, RunTypes, Memory
  <2>4. Migrating(p)'
    BY <2>1, <2>3 DEF Migrating, InTx
  <2> QED BY <2>1, <2>2, <2>3, <2>4, QuietStep
<1>read. CASE ReadMigration(p)
  <2>1. CASE Exit(p, "failed")
    BY <1>read, <2>1, ExitStep DEF ReadMigration, Down
  <2>2. CASE ~Exit(p, "failed")
    <3> DEFINE text == app[NextFile(p)]
    <3>1. /\ rpc[p] = "read"
          /\ rpc' = [rpc EXCEPT ![p] = "check"] /\ mem' = [mem EXCEPT ![p].sql = text]
          /\ UNCHANGED <<infra, recorded, ran>>
      BY <1>read, <2>2 DEF ReadMigration, Goto
    <3>2. text \in Contents
      BY DEF Files
    <3>3. RunTypes'
      BY <3>1, <3>2 DEF RunInv, RunTypes, Memory, InTx
    <3>4. /\ rpc'[p] = "check" /\ mem'[p].listed = mem[p].listed /\ mem'[p].files = mem[p].files
          /\ \A q \in Runtimes \ {p} : rpc'[q] = rpc[q] /\ mem'[q] = mem[q]
      BY <3>1 DEF RunInv, RunTypes, Memory
    <3>5. Migrating(p)'
      BY <3>1, <3>4 DEF Migrating, InTx, Down
    <3> QED BY <3>1, <3>3, <3>4, <3>5, QuietStep
  <2> QED BY <2>1, <2>2
<1>check. CASE CheckMigration(p)
  <2>1. CASE NextFile(p) \in recorded
    <3>1. /\ rpc[p] \in InTx /\ NextMigration(p)
          /\ UNCHANGED <<infra, recorded, ran>>
      BY <1>check, <2>1 DEF CheckMigration, InTx
    <3>2. recorded' \subseteq Migrations /\ ran' \in [Migrations -> Nat]
      BY <3>1 DEF RunInv, RunTypes
    <3> QED BY <2>1, <3>1, <3>2, NextMigrationStep, QuietStep
  <2>2. CASE NextFile(p) \notin recorded
    <3>1. rpc[p] = "check" /\ Goto(p, "ddl") /\ UNCHANGED <<mem, infra, recorded, ran>>
      BY <1>check, <2>2 DEF CheckMigration
    <3>2. Migrating(p)'
      BY <3>1 DEF Goto, Migrating, InTx, Down
    <3> QED BY <3>1, <3>2, GotoStep DEF InTx
  <2> QED BY <2>1, <2>2
<1>sql. CASE RunSql(p)
  <2>1. CASE Exit(p, "failed")
    BY <1>sql, <2>1, ExitStep DEF RunSql, Down
  <2>2. CASE ~Exit(p, "failed")
    <3>1. rpc[p] = "ddl" /\ Goto(p, "insert") /\ UNCHANGED <<mem, infra, recorded, ran>>
      BY <1>sql, <2>2 DEF RunSql
    <3>2. Migrating(p)'
      BY <3>1 DEF Goto, Migrating, InTx, Down
    <3> QED BY <3>1, <3>2, GotoStep DEF InTx
  <2> QED BY <2>1, <2>2
<1>record. CASE RecordMigration(p)
  <2>1. CASE Exit(p, "failed")
    BY <1>record, <2>1, ExitStep DEF RecordMigration, Down
  <2>2. CASE ~Exit(p, "failed")
    <3>1. /\ rpc[p] = "insert" /\ rpc' = [rpc EXCEPT ![p] = "commit"]
          /\ UNCHANGED <<mem, infra, recorded, ran>>
          /\ NextFile(p) \notin recorded
          /\ ~\E q \in Runtimes \ {p} : rpc[q] = "commit" /\ NextFile(q) = NextFile(p)
      BY <1>record, <2>2 DEF RecordMigration, Goto
    <3>2. RunTypes'
      BY <3>1 DEF RunInv, RunTypes, InTx
    <3>3. \A q \in Runtimes : NextFile(q)' = NextFile(q)
      BY <3>1 DEF NextFile
    <3>4. \A q \in Runtimes : rpc'[q] = IF q = p THEN "commit" ELSE rpc[q]
      BY <3>1
    <3>5. OneCommitter'
      BY <3>1, <3>3, <3>4 DEF RunInv, OneCommitter
    <3>6. MigratedOnce'
      BY <3>1 DEF RunInv, MigratedOnce
    <3>7. \A q \in Runtimes : Migrating(q)'
      BY <3>1, <3>4 DEF RunInv, Migrating, InTx, Down
    <3> QED BY <3>2, <3>5, <3>6, <3>7 DEF RunInv
  <2> QED BY <2>1, <2>2
<1>commit. CASE CommitMigration(p)
  <2>1. /\ rpc[p] = "commit" /\ rpc[p] \in InTx /\ Committed(p) /\ NextMigration(p)
        /\ UNCHANGED infra
    BY <1>commit DEF CommitMigration, InTx
  <2>2. /\ NextFile(p) \in recorded' /\ recorded \subseteq recorded'
        /\ recorded' \subseteq Migrations /\ ran' \in [Migrations -> Nat]
    BY <2>1 DEF RunInv, RunTypes, Committed
  <2> QED BY <2>1, <2>2, NextMigrationStep, CommittedStep
<1>unanswered. CASE CommitUnanswered(p)
  <2>1. rpc[p] = "commit" /\ Committed(p) /\ Exit(p, "failed") /\ UNCHANGED infra
    BY <1>unanswered DEF CommitUnanswered
  <2>2. recorded' \subseteq Migrations /\ ran' \in [Migrations -> Nat]
    BY <2>1 DEF RunInv, RunTypes, Committed
  <2>3. RunTypes'
    BY <2>1, <2>2 DEF RunInv, RunTypes, Memory, Exit, Goto, NoMem, Contents, Down
  <2>4. rpc'[p] = "failed" /\ \A q \in Runtimes \ {p} : rpc'[q] = rpc[q] /\ mem'[q] = mem[q]
    BY <2>1 DEF RunInv, RunTypes, Exit, Goto
  <2>5. Migrating(p)'
    BY <2>4 DEF Migrating, Down, InTx
  <2> QED BY <2>1, <2>3, <2>4, <2>5, CommittedStep
<1>agents. CASE BuildAgents(p)
  <2>1. rpc[p] = "agents" /\ Goto(p, "listen") /\ UNCHANGED <<mem, infra, recorded, ran>>
    BY <1>agents DEF BuildAgents
  <2>2. Migrating(p)'
    BY <2>1 DEF Goto, Migrating, InTx, Down
  <2> QED BY <2>1, <2>2, GotoStep
<1>listen. CASE Listen(p)
  <2>1. rpc[p] = "listen" /\ Goto(p, "serving") /\ UNCHANGED <<mem, infra, recorded, ran>>
    BY <1>listen DEF Listen
  <2>2. Migrating(p)'
    BY <2>1 DEF Goto, Migrating, InTx, Down
  <2> QED BY <2>1, <2>2, GotoStep
<1>fails. CASE MigrationFails(p) \/ StepFails(p)
  <2>1. Exit(p, "failed") /\ UNCHANGED <<recorded, ran>>
    BY <1>fails DEF MigrationFails, StepFails
  <2>2. infra => infra'
    BY <1>fails DEF MigrationFails, StepFails
  <2> QED BY <2>1, <2>2, ExitStep DEF Down
<1>stop. CASE Stop(p)
  BY <1>stop, ExitStep DEF Stop, Down
<1> QED
  BY <1>1, <1>start, <1>infra, <1>list, <1>read, <1>check, <1>sql, <1>record, <1>commit,
     <1>unanswered, <1>agents, <1>listen, <1>fails, <1>stop
  DEF StartupStep, StartupFault

-----------------------------------------------------------------------------
(* Steps of the CLI.                                                       *)

\* The three files have three names.
LEMMA FileNames == /\ Files = {Init0001, ByHand, "spec.json"}
                   /\ Init0001 # ByHand /\ Init0001 # "spec.json" /\ ByHand # "spec.json"
BY DEF Files, Migrations, Init0001, ByHand

\* A directory in which every file of the projection is whole is the projection.
LEMMA AllWritten ==
  ASSUME NEW d \in [Files -> Contents], NEW v,
         d[ByHand] = NoFile, d[Init0001] = Whole(v), d["spec.json"] = Whole(v)
  PROVE  d = compileApp(v)
<1>1. \A f \in Files : d[f] = compileApp(v)[f]
  BY FileNames DEF compileApp
<1> QED BY <1>1 DEF compileApp

\* A step of generate that leaves HEAD alone keeps it whole.
LEMMA HeadKept == ASSUME HeadIsCompiled, head' = head PROVE HeadIsCompiled'
BY DEF HeadIsCompiled, Empty, compileApp, Whole, ByHand

\* Every step of the CLI keeps its invariant.
LEMMA CliSteps == ASSUME CliInv, GenerateNext PROVE CliInv'
<1> USE AppDirAssumption
<1> USE DEF CliInv, newVars, genVars, gitVars, runVars
<1>new. CASE NewNext
  <2>1. /\ UNCHANGED <<app, gpc, at, target, exit, index, head, before>>
        /\ ws' \in {"absent", "made", "files", "git", "ready"} /\ npc' \in {"idle", "running", "cleanup"}
        /\ OneCommand'
    BY <1>new DEF NewNext, NewBegins, NewStep, NewFails, NewCleansUp, NewCleanupFails, NewKilled,
       CliTypes, OneCommand
  <2>2. RunPhase'
    BY <2>1 DEF RunPhase, WrittenUpTo, compileApp, Whole, Torn
  <2> QED BY <2>1, <2>2, HeadKept DEF CliTypes
<1>begins. CASE GenerateBegins
  <2>1. CliTypes' /\ OneCommand'
    BY <1>begins DEF GenerateBegins, Return, IsWorkspace, CliTypes, OneCommand
  <2>2. RunPhase'
    BY <1>begins DEF GenerateBegins, Return, RunPhase, Projecting
  <2> QED BY <1>begins, <2>1, <2>2, HeadKept DEF GenerateBegins
<1>returns. CASE ModelThrows \/ ModelErrs \/ FsError \/ GitError \/ GenerateKilled
  <2>1. CliTypes' /\ OneCommand'
    BY <1>returns, GenerateAssumption
    DEF ModelThrows, ModelErrs, FsError, GitError, GenerateKilled, Return, GoOn, CliTypes, OneCommand
  <2>2. RunPhase'
    BY <1>returns DEF ModelThrows, ModelErrs, FsError, GitError, GenerateKilled, Return, GoOn,
       RunPhase, Projecting, CliTypes
  <2> QED BY <1>returns, <2>1, <2>2, HeadKept
          DEF ModelThrows, ModelErrs, FsError, GitError, GenerateKilled
<1>answers. CASE \E v \in Specs : ModelAnswers(v)
  <2>1. PICK v \in Specs : ModelAnswers(v)
    BY <1>answers
  <2>2. CliTypes' /\ OneCommand'
    BY <2>1 DEF ModelAnswers, Return, GoOn, CliTypes, OneCommand
  <2>3. RunPhase'
    BY <2>1 DEF ModelAnswers, Return, GoOn, RunPhase, Projecting
  <2> QED BY <2>1, <2>2, <2>3, HeadKept DEF ModelAnswers
<1>remove. CASE \E f \in Files : RemoveEntry(f)
  <2>1. PICK f \in Files : RemoveEntry(f)
    BY <1>remove
  <2>2. CliTypes' /\ OneCommand'
    BY <2>1 DEF RemoveEntry, CliTypes, OneCommand, Contents
  <2>3. RunPhase'
    BY <2>1 DEF RemoveEntry, RunPhase, Projecting
  <2> QED BY <2>1, <2>2, <2>3, HeadKept DEF RemoveEntry
<1>removed. CASE Removed
  <2>1. CliTypes' /\ OneCommand'
    BY <1>removed DEF Removed, GoOn, CliTypes, OneCommand
  <2>2. WrittenUpTo(at)'
    BY <1>removed, FileNames DEF Removed, GoOn, WrittenUpTo, Empty, Whole, Torn
  <2>3. RunPhase'
    BY <1>removed, <2>2 DEF Removed, GoOn, RunPhase, Projecting
  <2> QED BY <1>removed, <2>1, <2>3, HeadKept DEF Removed
<1>write. CASE WriteFile
  <2> DEFINE f == CompiledFiles[at]
  <2>1. /\ gpc = "write" /\ at \in {1, 2} /\ target \in Compilable /\ WrittenUpTo(at)
        /\ f = IF at = 1 THEN Init0001 ELSE "spec.json"
        /\ Len(CompiledFiles) = 2
    BY <1>write DEF WriteFile, RunPhase, WrittenUpTo, Projecting, CompiledFiles
  <2>2. Torn(target) \in Contents /\ Whole(target) \in Contents
    BY <2>1 DEF Torn, Whole, Contents
  <2>3. CASE app[f] = NoFile
    <3>1. app' = [app EXCEPT ![f] = Torn(target)] /\ UNCHANGED <<gpc, at, exit, ws, npc, target, head, index, before>>
      BY <1>write, <2>3 DEF WriteFile
    <3>2. CliTypes' /\ OneCommand'
      BY <2>2, <3>1 DEF CliTypes, OneCommand
    <3>3. WrittenUpTo(at)'
      BY <2>1, <3>1, FileNames DEF WrittenUpTo, CliTypes, Torn, Whole
    <3>4. RunPhase'
      BY <2>1, <3>1, <3>3 DEF RunPhase, Projecting
    <3> QED BY <3>1, <3>2, <3>4, HeadKept
  <2>4. CASE app[f] # NoFile
    <3>1. /\ app' = [app EXCEPT ![f] = Whole(target)]
          /\ UNCHANGED <<exit, ws, npc, target, head, index, before>>
          /\ IF at < 2 THEN gpc' = "write" /\ at' = at + 1 ELSE gpc' = "add" /\ at' = 0
      BY <1>write, <2>1, <2>4 DEF WriteFile, GoOn
    <3>2. CliTypes' /\ OneCommand'
      <4>1. f \in Files
        BY <2>1, FileNames
      <4> HIDE DEF f
      <4>2. app' \in [Files -> Contents]
        BY <2>2, <3>1, <4>1 DEF CliTypes
      <4> QED BY <2>1, <3>1, <4>2 DEF CliTypes, OneCommand
    <3>3. CASE at = 1
      <4>1. WrittenUpTo(at)'
        BY <2>1, <3>1, <3>3, FileNames DEF WrittenUpTo, CliTypes, Torn, Whole
      <4>2. RunPhase'
        BY <2>1, <3>1, <3>3, <4>1 DEF RunPhase, Projecting
      <4> QED BY <3>1, <3>2, <4>2, HeadKept
    <3>4. CASE at = 2
      <4>1. app'[ByHand] = NoFile /\ app'[Init0001] = Whole(target) /\ app'["spec.json"] = Whole(target)
        BY <2>1, <3>1, <3>4, FileNames DEF WrittenUpTo, CliTypes, Torn, Whole
      <4>2. app' = compileApp(target)
        BY <3>2, <4>1, AllWritten DEF CliTypes
      <4>3. RunPhase'
        <5>1. app' = compileApp(target') /\ gpc' = "add" /\ target' \in Compilable
          BY <2>1, <3>1, <3>4, <4>2
        <5> QED BY <5>1 DEF RunPhase
      <4> QED BY <3>1, <3>2, <4>3, HeadKept
    <3> QED BY <2>1, <3>3, <3>4
  <2> QED BY <2>3, <2>4
<1>git. CASE GitAdd \/ GitStatus \/ GitRevParse
  <2>1. CliTypes' /\ OneCommand'
    BY <1>git DEF GitAdd, GitStatus, GitRevParse, Return, GoOn, CliTypes, OneCommand
  <2>2. RunPhase'
    BY <1>git DEF GitAdd, GitStatus, GitRevParse, Return, GoOn, RunPhase, Projecting,
                  compileApp, Whole
  <2> QED BY <1>git, <2>1, <2>2, HeadKept DEF GitAdd, GitStatus, GitRevParse
<1>commit. CASE GitCommit
  <2>1. CliTypes' /\ OneCommand'
    BY <1>commit DEF GitCommit, GoOn, CliTypes, OneCommand
  <2>2. RunPhase'
    BY <1>commit DEF GitCommit, GoOn, RunPhase, Projecting, compileApp, Whole
  <2>3. head' = compileApp(target) /\ target \in Compilable
    BY <1>commit DEF GitCommit, RunPhase, Projecting
  <2>4. HeadIsCompiled'
    BY <2>3 DEF HeadIsCompiled, compileApp, Whole, Empty
  <2> QED BY <2>1, <2>2, <2>4
<1>byhand. CASE AddMigration
  <2>1. PICK v \in Compilable : app = compileApp(v)
    BY <1>byhand DEF AddMigration
  <2>2. app' = [compileApp(v) EXCEPT ![ByHand] = Whole(ByHand)] /\ head' = app'
    BY <1>byhand, <2>1 DEF AddMigration
  <2>3. CliTypes' /\ OneCommand'
    <3>1. Whole(ByHand) \in Contents
      BY DEF Whole, Contents
    <3> QED BY <1>byhand, <2>1, <2>2, <3>1 DEF AddMigration, CliTypes, OneCommand
  <2>4. RunPhase'
    BY <1>byhand DEF AddMigration, RunPhase, Projecting
  <2>5. HeadIsCompiled'
    BY <2>2 DEF HeadIsCompiled, compileApp, Whole, Empty
  <2> QED BY <2>3, <2>4, <2>5
<1> QED
  BY <1>new, <1>begins, <1>returns, <1>answers, <1>remove, <1>removed, <1>write, <1>git,
     <1>commit, <1>byhand
  DEF GenerateNext, GenerateStep, GenerateFault

-----------------------------------------------------------------------------
(* The theorems.                                                           *)

DeliveryInv == CliInv /\ RunInv

LEMMA DeliveryInitially == Init => DeliveryInv
<1> SUFFICES ASSUME Init PROVE DeliveryInv
  OBVIOUS
<1>1. CliInv
  BY DEF Init, GenerateInit, CliInv, CliTypes, OneCommand, RunPhase, Projecting, HeadIsCompiled,
         Empty, Contents
<1>2. RunTypes /\ OneCommitter /\ MigratedOnce
  BY DEF Init, StartupInit, RunTypes, OneCommitter, MigratedOnce, NoMem, Memory, Contents, Down
<1>3. \A p \in Runtimes : Migrating(p)
  BY DEF Init, StartupInit, Migrating, InTx, Down
<1> QED BY <1>1, <1>2, <1>3 DEF DeliveryInv, RunInv

LEMMA DeliverySteps == ASSUME DeliveryInv, [Next]_vars PROVE DeliveryInv'
<1>1. CASE DeliveryCli
  <2>1. CliInv'
    BY <1>1, CliSteps DEF DeliveryCli, DeliveryInv
  <2>2. RunInv'
    BY <1>1 DEF DeliveryCli, startVars, DeliveryInv, RunInv, RunTypes, OneCommitter, MigratedOnce,
                Migrating, NextFile
  <2> QED BY <2>1, <2>2 DEF DeliveryInv
<1>2. CASE DeliveryRuntime
  <2>1. RunInv'
    BY <1>2, RuntimeSteps DEF DeliveryRuntime, DeliveryInv, CliInv, CliTypes
  <2>2. app' = app
    BY <1>2 DEF DeliveryRuntime, StartupNext, StartupStep, StartupFault, Start, EnsureInfraTables,
       ListMigrations, ReadMigration, CheckMigration, RunSql, RecordMigration, CommitMigration,
       CommitUnanswered, MigrationFails, BuildAgents, Listen, StepFails, Stop
  <2>3. UNCHANGED <<ws, npc, gpc, at, target, exit, index, head, runs, before>>
    BY <1>2 DEF DeliveryRuntime, cliOnly, newVars, genVars, gitVars, runVars
  <2>4. CliInv'
    BY <2>2, <2>3, HeadKept DEF DeliveryInv, CliInv, CliTypes, OneCommand, RunPhase, WrittenUpTo,
       compileApp, Whole, Torn
  <2> QED BY <2>1, <2>4 DEF DeliveryInv
<1>3. CASE UNCHANGED vars
  <2>1. RunInv'
    BY <1>3 DEF vars, startVars, DeliveryInv, RunInv, RunTypes, OneCommitter, MigratedOnce,
                Migrating, NextFile
  <2>2. UNCHANGED <<app, ws, npc, gpc, at, target, exit, index, head, runs, before>>
    BY <1>3 DEF vars, cliVars, newVars, genVars, gitVars, runVars
  <2>3. CliInv'
    BY <2>2, HeadKept DEF DeliveryInv, CliInv, CliTypes, OneCommand, RunPhase, WrittenUpTo,
       compileApp, Whole, Torn
  <2> QED BY <2>1, <2>3 DEF DeliveryInv
<1> QED BY <1>1, <1>2, <1>3 DEF Next

\* The two sides' invariants hold in every behaviour: ./app is what the step
\* generate is at says, and of the open transactions one may commit a given
\* migration.
THEOREM DeliveryInvariant == Spec => []DeliveryInv
BY DeliveryInitially, DeliverySteps, PTL DEF Spec

\* Through failures and kills at any step of `openrupiv generate`, HEAD never
\* has half a file or files of two specs (writeCompiledFiles, commitGenerated).
THEOREM HeadAlwaysCompiled == Spec => []HeadIsCompiled
<1>1. DeliveryInv => HeadIsCompiled
  BY DEF DeliveryInv, CliInv
<1> QED BY <1>1, DeliveryInvariant, PTL

\* The exit code of generate is the truth about ./app and HEAD, and `new` that
\* failed has left nothing (runGenerate, createWorkspace).
THEOREM ExitAlwaysTrue == Spec => []ExitTellsTruth
<1>1. DeliveryInv => ExitTellsTruth
  BY DEF DeliveryInv, CliInv, RunPhase, ExitTellsTruth
<1> QED BY <1>1, DeliveryInvariant, PTL

\* However many runtimes start at once and whatever fails, a migration's SQL
\* takes effect once, with its record (applyMigrations).
THEOREM AlwaysMigratedOnce == Spec => []MigratedOnce
<1>1. DeliveryInv => MigratedOnce
  BY DEF DeliveryInv, RunInv
<1> QED BY <1>1, DeliveryInvariant, PTL

\* A runtime that serves has the infra tables and every migration it listed
\* (serveAppDir).
THEOREM AlwaysServingIsMigrated == Spec => []ServingIsMigrated
<1>1. DeliveryInv => ServingIsMigrated
  BY DEF DeliveryInv, RunInv, Migrating, ServingIsMigrated, Down
<1> QED BY <1>1, DeliveryInvariant, PTL

-----------------------------------------------------------------------------
(* The order of the tables: every plan runs.                               *)

\* A set of natural numbers has a least element.
LEMMA SmallestOf ==
  ASSUME NEW S, S \subseteq Nat, S # {}
  PROVE  \E i \in S : \A j \in S : i <= j
<1> DEFINE R == {ss \in Nat \X Nat : ss[1] < ss[2]}
<1>1. IsWellFoundedOn(R, Nat)
  BY NatLessThanWellFounded DEF OpToRel
<1> HIDE DEF R
<1>2. PICK x \in S : \A y \in S : ~(<<y, x>> \in R)
  BY <1>1, WFMin
<1>3. \A y \in S : ~(y < x)
  BY <1>2 DEF R
<1> QED
  BY <1>3

\* A set of numbers up to n has a last one.
LEMMA LargestOf ==
  ASSUME NEW n \in Nat, NEW S, S \subseteq 1..n, S # {}
  PROVE  \E i \in S : \A j \in S : j <= i
<1> DEFINE T == {m \in Nat : n - m \in S}
<1>1. T \subseteq Nat /\ T # {}
  <2>1. PICK s \in S : TRUE
    OBVIOUS
  <2>2. n - s \in Nat /\ n - (n - s) = s
    BY <2>1
  <2> QED
    BY <2>1, <2>2
<1> HIDE DEF T
<1>2. PICK m \in T : \A k \in T : m <= k
  BY <1>1, SmallestOf
<1>3. n - m \in S
  BY <1>2 DEF T
<1>4. ASSUME NEW j \in S PROVE j <= n - m
  <2>1. n - j \in Nat /\ n - (n - j) = j
    OBVIOUS
  <2>2. n - j \in T
    BY <2>1 DEF T
  <2>3. m \in Nat /\ m <= n - j
    BY <1>1, <1>2, <2>2
  <2> QED
    BY <2>1, <2>3
<1> QED
  BY <1>3, <1>4

\* g is what the recursive definition of PlanAfter says, up to turn k.
TurnsTo(refs, g, k) ==
  g = [n \in 0..k |-> IF n = 0 THEN EmptyPlan ELSE PlanTurn(g[n - 1], refs)]

\* A plan after each of any number of turns exists.
LEMMA TurnsExist ==
  ASSUME NEW refs, NEW k \in Nat
  PROVE  \E g : TurnsTo(refs, g, k)
<1> DEFINE S == {m \in Nat : ~ \E g : TurnsTo(refs, g, m)}
<1> SUFFICES ASSUME S # {} PROVE FALSE
  OBVIOUS
<1>1. PICK m \in S : \A j \in S : m <= j
  <2>1. S \subseteq Nat
    OBVIOUS
  <2> HIDE DEF S
  <2> QED
    BY <2>1, SmallestOf
<1>2. CASE m = 0
  <2>1. TurnsTo(refs, [n \in 0..0 |-> EmptyPlan], 0)
    BY DEF TurnsTo
  <2> QED
    BY <1>2, <2>1
<1>3. CASE m # 0
  <2>1. m - 1 \in Nat /\ m - 1 \notin S
    BY <1>1, <1>3
  <2>2. PICK g : TurnsTo(refs, g, m - 1)
    BY <2>1
  <2> DEFINE h == [n \in 0..m |-> IF n = m THEN PlanTurn(g[m - 1], refs) ELSE g[n]]
  <2>3. \A n \in 0..(m - 1) : g[n] = IF n = 0 THEN EmptyPlan ELSE PlanTurn(g[n - 1], refs)
    BY <2>1, <2>2 DEF TurnsTo
  <2>4. \A n \in 0..m : h[n] = IF n = 0 THEN EmptyPlan ELSE PlanTurn(h[n - 1], refs)
    <3> SUFFICES ASSUME NEW n \in 0..m
                 PROVE  h[n] = IF n = 0 THEN EmptyPlan ELSE PlanTurn(h[n - 1], refs)
      OBVIOUS
    <3>1. n # 0 => n - 1 \in 0..m /\ n - 1 # m /\ h[n - 1] = g[n - 1]
      BY <1>1
    <3>2. CASE n = m
      BY <1>3, <3>1, <3>2
    <3>3. CASE n # m
      <4>1. n \in 0..(m - 1) /\ h[n] = g[n]
        BY <1>1, <3>3
      <4> QED
        BY <2>3, <3>1, <4>1
    <3> QED
      BY <3>2, <3>3
  <2>5. TurnsTo(refs, h, m)
    <3>1. h = [n \in 0..m |-> h[n]]
      OBVIOUS
    <3> HIDE DEF h
    <3> QED
      BY <2>4, <3>1 DEF TurnsTo
  <2> QED
    BY <1>1, <2>5
<1> QED
  BY <1>2, <1>3

\* ... so PlanAfter is one, turn by turn.
LEMMA PlanSteps ==
  ASSUME NEW refs
  PROVE  /\ PlanAfter(refs)[0] = EmptyPlan
         /\ \A n \in 1..2 * EntityCount :
              PlanAfter(refs)[n] = PlanTurn(PlanAfter(refs)[n - 1], refs)
<1>1. PlanAfter(refs) = CHOOSE g : TurnsTo(refs, g, 2 * EntityCount)
  BY DEF PlanAfter, TurnsTo
<1>2. 2 * EntityCount \in Nat
  BY MigrationPlanAssumption
<1>3. TurnsTo(refs, PlanAfter(refs), 2 * EntityCount)
  BY <1>1, <1>2, TurnsExist
<1> DEFINE g == PlanAfter(refs)
           K == 2 * EntityCount
<1>4. g = [n \in 0..K |-> IF n = 0 THEN EmptyPlan ELSE PlanTurn(g[n - 1], refs)]
  BY <1>3 DEF TurnsTo
<1> HIDE DEF g, K
<1>5. K \in Nat
  BY <1>2 DEF K
<1>6. g[0] = EmptyPlan
  BY <1>4, <1>5
<1>7. \A n \in 1..K : g[n] = PlanTurn(g[n - 1], refs)
  BY <1>4, <1>5
<1> QED
  BY <1>6, <1>7 DEF g, K

\* References that lead through entities of R, none of them twice.
Path(refs, R, w, n) ==
  /\ w \in [0..n -> R]
  /\ \A i, j \in 0..n : w[i] = w[j] => i = j
  /\ \A i \in 0..(n - 1) : <<w[i], w[i + 1]>> \in refs

\* A path without repetition is no longer than there are entities.
LEMMA PathsAreShort ==
  ASSUME NEW refs, NEW R \in SUBSET Entities, NEW n \in Nat, NEW w, Path(refs, R, w, n)
  PROVE  n + 1 <= EntityCount
<1>1. IsFiniteSet(Entities) /\ Cardinality(Entities) = EntityCount
  BY MigrationPlanAssumption, FS_Interval DEF Entities
<1>2. w \in [0..n -> Entities] /\ \A i, j \in 0..n : w[i] = w[j] => i = j
  BY DEF Path
<1>3. w \in Injection(0..n, Entities)
  BY <1>2 DEF Injection, IsInjective
<1>4. Cardinality(0..n) <= Cardinality(Entities)
  BY <1>1, <1>3, FS_Injection
<1>5. Cardinality(0..n) = n + 1
  <2>1. Cardinality(0..n) = IF 0 > n THEN 0 ELSE n - 0 + 1
    BY FS_Interval
  <2> QED
    BY <2>1
<1> QED
  BY <1>1, <1>4, <1>5

\* Where every entity of a set refers to another one of the set, there is a
\* cycle: a longest path leads back to itself.
LEMMA CycleExists ==
  ASSUME NEW refs, NEW R \in SUBSET Entities, R # {},
         \A e \in R : \E f \in R : f # e /\ <<e, f>> \in refs
  PROVE  Cyclic(refs)
<1> DEFINE P == {m \in 1..EntityCount : \E w : Path(refs, R, w, m - 1)}
<1>1. PICK m \in P : \A j \in P : j <= m
  <2>1. PICK e \in R : TRUE
    OBVIOUS
  <2>2. Path(refs, R, [i \in 0..0 |-> e], 0)
    BY DEF Path
  <2>3. 1 \in 1..EntityCount /\ 1 - 1 = 0
    BY <2>2, PathsAreShort, MigrationPlanAssumption
  <2>4. 1 \in P /\ P \subseteq 1..EntityCount
    BY <2>2, <2>3
  <2> HIDE DEF P
  <2> QED
    BY <2>4, LargestOf, MigrationPlanAssumption
<1>2. PICK n \in Nat : n = m - 1 /\ m = n + 1
  BY MigrationPlanAssumption
<1>3. PICK w : Path(refs, R, w, n)
  BY <1>1, <1>2
<1>4. w[n] \in R
  BY <1>3 DEF Path
<1>5. PICK f \in R : f # w[n] /\ <<w[n], f>> \in refs
  BY <1>4
<1>6. PICK i \in 0..n : f = w[i]
  <2> SUFFICES ASSUME \A i \in 0..n : f # w[i] PROVE FALSE
    OBVIOUS
  <2> DEFINE v == [k \in 0..(n + 1) |-> IF k = n + 1 THEN f ELSE w[k]]
  <2>1. /\ v \in [0..(n + 1) -> R] /\ v[n + 1] = f
        /\ \A k \in 0..n : v[k] = w[k]
    BY <1>3 DEF Path
  <2> HIDE DEF v
  <2>2. ASSUME NEW j \in 0..(n + 1), NEW k \in 0..(n + 1), v[j] = v[k] PROVE j = k
    <3>1. (j = n + 1 \/ j \in 0..n) /\ (k = n + 1 \/ k \in 0..n)
      OBVIOUS
    <3> QED
      BY <1>3, <2>1, <2>2, <3>1 DEF Path
  <2>3. ASSUME NEW k \in 0..n PROVE <<v[k], v[k + 1]>> \in refs
    <3>1. CASE k = n
      BY <1>5, <2>1, <3>1
    <3>2. CASE k # n
      <4>1. k \in 0..(n - 1) /\ k + 1 \in 0..n
        BY <3>2
      <4> QED
        BY <1>3, <2>1, <4>1 DEF Path
    <3> QED
      BY <3>1, <3>2
  <2>4. Path(refs, R, v, n + 1)
    BY <2>1, <2>2, <2>3 DEF Path
  <2>5. n + 2 <= EntityCount
    BY <2>4, PathsAreShort
  <2>6. n + 2 \in P
    BY <2>4, <2>5, MigrationPlanAssumption
  <2> HIDE DEF P
  <2> QED
    BY <1>1, <1>2, <2>6
<1>7. i # n
  BY <1>5, <1>6
<1> DEFINE k == n - i + 1
           c == [x \in 0..k |-> IF x <= n - i THEN w[i + x] ELSE f]
<1>8. k \in 2..EntityCount /\ n + 1 <= EntityCount
  BY <1>3, <1>7, PathsAreShort, MigrationPlanAssumption
<1>9. /\ \A x \in 0..(k - 1) : i + x \in 0..n /\ c[x] = w[i + x]
      /\ c[k] = f /\ c[0] = w[i]
  OBVIOUS
<1>10. c \in [0..k -> Entities]
  BY <1>3 DEF Path
<1>11. c[0] = c[k]
  BY <1>6, <1>9
<1> HIDE DEF c
<1>12. ASSUME NEW x \in 0..(k - 1) PROVE c[x] # c[x + 1] /\ <<c[x], c[x + 1]>> \in refs
  <2>1. CASE x = k - 1
    <3>1. i + x = n /\ x + 1 = k
      BY <2>1
    <3> QED
      BY <1>5, <1>9, <3>1
  <2>2. CASE x # k - 1
    <3>1. /\ x + 1 \in 0..(k - 1) /\ i + x \in 0..(n - 1) /\ i + x \in 0..n
          /\ i + (x + 1) \in 0..n /\ (i + x) + 1 = i + (x + 1) /\ i + x # i + (x + 1)
      BY <2>2
    <3>2. c[x] = w[i + x] /\ c[x + 1] = w[(i + x) + 1]
      BY <1>9, <3>1
    <3> QED
      BY <1>3, <3>1, <3>2 DEF Path
  <2> QED
    BY <2>1, <2>2
<1> QED
  BY <1>8, <1>10, <1>11, <1>12 DEF Cyclic, Cycle

\* What every turn of the loop preserves.
NotReady(p) == Entities \ p.emitted
ReadyNow(p, refs) == {e \in NotReady(p) : isReady(p, refs, e)}

PlanInv(p, refs) ==
  /\ p = [order |-> p.order, emitted |-> p.emitted, deferred |-> p.deferred]
  /\ p.order \in Seq(Entities)
  /\ \A e : e \in p.emitted <=> \E i \in 1..Len(p.order) : p.order[i] = e
  /\ \A i, j \in 1..Len(p.order) : p.order[i] = p.order[j] => i = j
  /\ p.deferred \subseteq refs
  /\ \A i \in 1..Len(p.order) : \A r \in refs \ p.deferred :
       r[1] = p.order[i] => \E j \in 1..i : r[2] = p.order[j]
  /\ p.deferred # {} => Cyclic(refs)

\* ... and how far it is after n turns.
Progress(p, refs, n) ==
  NotReady(p) = {} \/ n <= 2 * Len(p.order) + (IF ReadyNow(p, refs) = {} THEN 0 ELSE 1)

\* The first of some entities is one of them.
LEMMA MinOf ==
  ASSUME NEW S, S \subseteq Nat, S # {}
  PROVE  Sets!Min(S) \in S
<1>1. \E x \in S : \A y \in S : x <= y
  BY SmallestOf
<1> QED
  BY <1>1 DEF Sets!Min

\* An entity that is ready is put after all its inline references name.
LEMMA EmitKeeps ==
  ASSUME NEW refs \in SUBSET (Entities \X Entities), NEW p, PlanInv(p, refs),
         NEW e \in NotReady(p), isReady(p, refs, e)
  PROVE  /\ PlanInv(Emit(p, e), refs)
         /\ Len(Emit(p, e).order) = Len(p.order) + 1
<1> DEFINE n == Len(p.order)
           q == Emit(p, e)
<1>1. /\ p.order \in Seq(Entities) /\ n \in Nat /\ e \in Entities /\ e \notin p.emitted
  BY DEF PlanInv, NotReady
<1>2. /\ q.order = Append(p.order, e) /\ q.emitted = p.emitted \union {e}
      /\ q.deferred = p.deferred
      /\ q = [order |-> q.order, emitted |-> q.emitted, deferred |-> q.deferred]
  BY DEF Emit
<1> HIDE DEF q
<1>3. /\ q.order \in Seq(Entities) /\ Len(q.order) = n + 1 /\ q.order[n + 1] = e
      /\ \A i \in 1..n : q.order[i] = p.order[i]
  BY <1>1, <1>2, AppendProperties
<1> HIDE DEF n
<1>4. \A f : f \in q.emitted <=> \E i \in 1..(n + 1) : q.order[i] = f
  <2> SUFFICES ASSUME NEW f PROVE f \in q.emitted <=> \E i \in 1..(n + 1) : q.order[i] = f
    OBVIOUS
  <2>1. f \in p.emitted <=> \E i \in 1..n : p.order[i] = f
    BY DEF PlanInv, n
  <2>2. 1..(n + 1) = (1..n) \union {n + 1}
    BY <1>1
  <2>3. (\E i \in 1..(n + 1) : q.order[i] = f) <=> (\E i \in 1..n : p.order[i] = f) \/ f = e
    BY <1>3, <2>2
  <2> QED
    BY <1>2, <2>1, <2>3
<1>5. ASSUME NEW i \in 1..(n + 1), NEW j \in 1..(n + 1), q.order[i] = q.order[j] PROVE i = j
  <2>1. \A k \in 1..n : q.order[k] # e
    BY <1>1, <1>3 DEF PlanInv, n
  <2>2. (i = n + 1 \/ i \in 1..n) /\ (j = n + 1 \/ j \in 1..n)
    BY <1>1
  <2>3. CASE i \in 1..n /\ j \in 1..n
    BY <1>3, <1>5, <2>3 DEF PlanInv, n
  <2> QED
    BY <1>3, <1>5, <2>1, <2>2, <2>3
<1>6. ASSUME NEW i \in 1..(n + 1), NEW r \in refs \ q.deferred, r[1] = q.order[i]
      PROVE  \E j \in 1..i : r[2] = q.order[j]
  <2>1. CASE i \in 1..n
    <3>1. PICK j \in 1..i : r[2] = p.order[j]
      BY <1>2, <1>3, <1>6, <2>1 DEF PlanInv, n
    <3>2. j \in 1..n
      BY <1>1, <2>1
    <3> QED
      BY <1>3, <3>1, <3>2
  <2>2. CASE i = n + 1
    <3>1. r = <<e, r[2]>> /\ r[2] \in Entities /\ r \in refs /\ r \notin p.deferred
      BY <1>2, <1>3, <1>6, <2>2
    <3>2. r[2] = e \/ r[2] \in p.emitted
      BY <3>1 DEF isReady
    <3>3. CASE r[2] = e
      BY <1>1, <1>3, <2>2, <3>3
    <3>4. CASE r[2] \in p.emitted
      <4>1. PICK j \in 1..n : p.order[j] = r[2]
        BY <3>4 DEF PlanInv, n
      <4> QED
        BY <1>1, <1>3, <2>2, <4>1
    <3> QED
      BY <3>2, <3>3, <3>4
  <2> QED
    BY <1>1, <2>1, <2>2
<1>7. q.deferred \subseteq refs /\ (q.deferred # {} => Cyclic(refs))
  BY <1>2 DEF PlanInv
<1>8. PlanInv(q, refs)
  BY <1>2, <1>3, <1>4, <1>5, <1>6, <1>7 DEF PlanInv
<1> QED
  BY <1>3, <1>8 DEF q, n

\* When none is ready the references form a cycle, and deferring those of one
\* entity makes it ready.
LEMMA DeferKeeps ==
  ASSUME NEW refs \in SUBSET (Entities \X Entities), NEW p, PlanInv(p, refs),
         NEW e \in NotReady(p), ReadyNow(p, refs) = {}
  PROVE  /\ PlanInv(Defer(p, refs, e), refs)
         /\ Defer(p, refs, e).order = p.order
         /\ NotReady(Defer(p, refs, e)) = NotReady(p)
         /\ e \in ReadyNow(Defer(p, refs, e), refs)
<1> DEFINE q == Defer(p, refs, e)
           U == {r \in refs : r[1] = e /\ r[2] # e /\ r[2] \notin p.emitted}
<1>1. p = [order |-> p.order, emitted |-> p.emitted, deferred |-> p.deferred]
  BY DEF PlanInv
<1>2. /\ q.order = p.order /\ q.emitted = p.emitted /\ q.deferred = p.deferred \union U
      /\ q = [order |-> q.order, emitted |-> q.emitted, deferred |-> q.deferred]
  <2> HIDE DEF U
  <2>1. Defer(p, refs, e) = [p EXCEPT !.deferred = p.deferred \union U]
    BY DEF Defer, U
  <2>2. q = [order |-> p.order, emitted |-> p.emitted, deferred |-> p.deferred \union U]
    BY <1>1, <2>1
  <2> HIDE DEF q
  <2> QED
    BY <2>2
<1>3. Cyclic(refs)
  <2>1. ASSUME NEW g \in NotReady(p)
        PROVE  \E f \in NotReady(p) : f # g /\ <<g, f>> \in refs
    BY DEF ReadyNow, isReady, NotReady
  <2>2. NotReady(p) \in SUBSET Entities /\ NotReady(p) # {}
    BY DEF NotReady
  <2> QED
    BY <2>1, <2>2, CycleExists
<1>4. U \subseteq refs
  OBVIOUS
<1>5. isReady(q, refs, e)
  <2> SUFFICES ASSUME NEW f \in Entities, <<e, f>> \in refs, f # e, f \notin p.emitted
               PROVE  <<e, f>> \in U
    BY <1>2 DEF isReady
  <2> QED
    OBVIOUS
<1> HIDE DEF q, U
<1>6. NotReady(q) = NotReady(p)
  BY <1>2 DEF NotReady
<1>7. e \in ReadyNow(q, refs)
  BY <1>5, <1>6 DEF ReadyNow
<1>8. PlanInv(q, refs)
  <2>1. q.deferred \subseteq refs
    BY <1>2, <1>4 DEF PlanInv
  <2>2. \A i \in 1..Len(q.order) : \A r \in refs \ q.deferred :
          r[1] = q.order[i] => \E j \in 1..i : r[2] = q.order[j]
    BY <1>2 DEF PlanInv
  <2>3. /\ q.order \in Seq(Entities)
        /\ \A f : f \in q.emitted <=> \E i \in 1..Len(q.order) : q.order[i] = f
        /\ \A i, j \in 1..Len(q.order) : q.order[i] = q.order[j] => i = j
    BY <1>2 DEF PlanInv
  <2> QED
    BY <1>2, <1>3, <2>1, <2>2, <2>3 DEF PlanInv
<1> QED
  BY <1>2, <1>6, <1>7, <1>8 DEF q

\* A turn emits an entity, or makes one ready for the next turn.
LEMMA TurnKeeps ==
  ASSUME NEW refs \in SUBSET (Entities \X Entities), NEW p, PlanInv(p, refs),
         NEW n \in Nat, Progress(p, refs, n)
  PROVE  PlanInv(PlanTurn(p, refs), refs) /\ Progress(PlanTurn(p, refs), refs, n + 1)
<1>0. NotReady(p) \subseteq Nat /\ ReadyNow(p, refs) \subseteq Nat /\ Len(p.order) \in Nat
  BY MigrationPlanAssumption DEF NotReady, ReadyNow, Entities, PlanInv
<1>1. PlanTurn(p, refs) = IF NotReady(p) = {} THEN p
                          ELSE IF ReadyNow(p, refs) = {} THEN Defer(p, refs, Sets!Min(NotReady(p)))
                          ELSE Emit(p, Sets!Min(ReadyNow(p, refs)))
  BY DEF PlanTurn, NotReady, ReadyNow
<1>2. CASE NotReady(p) = {}
  BY <1>1, <1>2 DEF Progress
<1>3. CASE NotReady(p) # {} /\ ReadyNow(p, refs) = {}
  <2> DEFINE e == Sets!Min(NotReady(p))
             q == Defer(p, refs, e)
  <2>1. e \in NotReady(p)
    BY <1>0, <1>3, MinOf
  <2> HIDE DEF e
  <2>2. /\ PlanInv(q, refs) /\ q.order = p.order /\ ReadyNow(q, refs) # {}
    BY <1>3, <2>1, DeferKeeps
  <2>3. n <= 2 * Len(p.order)
    BY <1>0, <1>3 DEF Progress
  <2>4. PlanTurn(p, refs) = q
    BY <1>1, <1>3 DEF e
  <2> HIDE DEF q
  <2>5. Progress(q, refs, n + 1)
    <3> DEFINE G == ReadyNow(q, refs)
               L == Len(q.order)
    <3>1. n + 1 <= 2 * L + 1 /\ G # {}
      BY <1>0, <2>2, <2>3
    <3> HIDE DEF G, L
    <3>2. n + 1 <= 2 * L + (IF G = {} THEN 0 ELSE 1)
      BY <3>1
    <3> QED
      BY <3>2 DEF Progress, G, L
  <2> QED
    BY <2>2, <2>4, <2>5
<1>4. CASE NotReady(p) # {} /\ ReadyNow(p, refs) # {}
  <2> DEFINE e == Sets!Min(ReadyNow(p, refs))
             q == Emit(p, e)
  <2>1. e \in NotReady(p) /\ isReady(p, refs, e)
    <3>1. e \in ReadyNow(p, refs)
      BY <1>0, <1>4, MinOf
    <3> QED
      BY <3>1 DEF ReadyNow
  <2> HIDE DEF e
  <2>2. PlanInv(q, refs) /\ Len(q.order) = Len(p.order) + 1
    BY <2>1, EmitKeeps
  <2>3. n <= 2 * Len(p.order) + 1
    BY <1>0, <1>4 DEF Progress
  <2>4. PlanTurn(p, refs) = q
    BY <1>1, <1>4 DEF e
  <2> HIDE DEF q
  <2>5. n + 1 <= 2 * Len(q.order)
    BY <1>0, <2>2, <2>3
  <2>6. Progress(q, refs, n + 1)
    <3> DEFINE G == ReadyNow(q, refs)
               L == Len(q.order)
    <3>1. n + 1 <= 2 * L /\ L \in Nat
      BY <1>0, <2>2, <2>5
    <3> HIDE DEF G, L
    <3>2. n + 1 <= 2 * L + (IF G = {} THEN 0 ELSE 1)
      BY <3>1
    <3> QED
      BY <3>2 DEF Progress, G, L
  <2> QED
    BY <2>2, <2>4, <2>6
<1> QED
  BY <1>2, <1>3, <1>4

\* ... so every turn has both.
LEMMA TurnsKeep ==
  ASSUME NEW refs \in SUBSET (Entities \X Entities), NEW n \in 0..2 * EntityCount
  PROVE  PlanInv(PlanAfter(refs)[n], refs) /\ Progress(PlanAfter(refs)[n], refs, n)
<1> DEFINE OK(k) == PlanInv(PlanAfter(refs)[k], refs) /\ Progress(PlanAfter(refs)[k], refs, k)
           S == {k \in 0..2 * EntityCount : ~OK(k)}
<1> SUFFICES ASSUME S # {} PROVE FALSE
  OBVIOUS
<1>0. 2 * EntityCount \in Nat
  BY MigrationPlanAssumption
<1>1. PICK m \in S : \A j \in S : m <= j
  <2>1. S \subseteq Nat
    OBVIOUS
  <2> HIDE DEF S
  <2> QED
    BY <2>1, SmallestOf
<1>2. m \in 0..2 * EntityCount /\ ~OK(m)
  BY <1>1
<1>3. CASE m = 0
  <2>1. PlanAfter(refs)[0] = EmptyPlan
    BY PlanSteps
  <2>2. PlanInv(EmptyPlan, refs)
    <3>1. EmptyPlan.order = <<>> /\ EmptyPlan.emitted = {} /\ EmptyPlan.deferred = {}
          /\ EmptyPlan = [order |-> EmptyPlan.order, emitted |-> EmptyPlan.emitted,
                          deferred |-> EmptyPlan.deferred]
      BY DEF EmptyPlan
    <3>2. <<>> \in Seq(Entities) /\ Len(<<>>) = 0
      OBVIOUS
    <3> QED
      BY <3>1, <3>2 DEF PlanInv
  <2>3. Progress(EmptyPlan, refs, 0)
    <3>1. Len(EmptyPlan.order) = 0
      BY DEF EmptyPlan
    <3> QED
      BY <3>1 DEF Progress
  <2> QED
    BY <1>2, <1>3, <2>1, <2>2, <2>3
<1>4. CASE m # 0
  <2>1. m - 1 \in 0..2 * EntityCount /\ m \in 1..2 * EntityCount /\ m - 1 < m
    BY <1>0, <1>2, <1>4
  <2>2. OK(m - 1)
    <3>1. m - 1 \notin S
      <4> HIDE DEF S
      <4> QED
        BY <1>1, <1>2, <2>1
    <3> QED
      BY <2>1, <3>1
  <2>3. PlanAfter(refs)[m] = PlanTurn(PlanAfter(refs)[m - 1], refs)
    BY <2>1, PlanSteps
  <2>4. m - 1 \in Nat /\ (m - 1) + 1 = m
    BY <2>1
  <2>5. PlanInv(PlanAfter(refs)[m], refs) /\ Progress(PlanAfter(refs)[m], refs, (m - 1) + 1)
    BY <2>2, <2>3, <2>4, TurnKeeps
  <2> QED
    BY <1>2, <2>4, <2>5
<1> QED
  BY <1>3, <1>4

\* The tables of any entities, whatever refers to what: the loop ends, every
\* table is created once and after those it refers to inline, and only a cycle
\* defers a reference.
THEOREM PlansInOrder == EveryPlanInOrder
<1> SUFFICES ASSUME NEW refs \in SUBSET (Entities \X Entities)
             PROVE  PlanInOrder(refs)
  BY DEF EveryPlanInOrder
<1> DEFINE K == 2 * EntityCount
           p == planTableOrder(refs)
           n == Len(p.order)
<1>1. PlanInv(p, refs) /\ Progress(p, refs, K)
  <2>1. K \in 0..2 * EntityCount
    BY MigrationPlanAssumption
  <2>2. PlanInv(PlanAfter(refs)[K], refs) /\ Progress(PlanAfter(refs)[K], refs, K)
    BY <2>1, TurnsKeep
  <2> QED
    BY <2>2 DEF planTableOrder
<1> HIDE DEF p
<1>2. p.order \in Seq(Entities) /\ n \in Nat /\ DOMAIN p.order = 1..n
  BY <1>1 DEF PlanInv
<1>3. /\ \A e : e \in p.emitted <=> \E i \in 1..n : p.order[i] = e
      /\ \A i, j \in 1..n : p.order[i] = p.order[j] => i = j
  BY <1>1 DEF PlanInv
<1>4. p.emitted \subseteq Entities
  BY <1>2, <1>3
<1>5. IsFiniteSet(Entities) /\ Cardinality(Entities) = EntityCount
  BY MigrationPlanAssumption, FS_Interval DEF Entities
<1>6. Cardinality(p.emitted) = n
  <2> DEFINE f == [i \in 1..n |-> p.order[i]]
  <2>1. f \in [1..n -> p.emitted]
    BY <1>3
  <2>2. f \in Bijection(1..n, p.emitted)
    <3>1. \A i, j \in 1..n : f[i] = f[j] => i = j
      BY <1>3
    <3>2. \A e \in p.emitted : \E i \in 1..n : f[i] = e
      BY <1>3
    <3> HIDE DEF f
    <3> QED
      BY <2>1, <3>1, <3>2 DEF Bijection, Injection, Surjection, IsInjective
  <2>3. IsFiniteSet(1..n) /\ Cardinality(1..n) = n
    <3>1. IsFiniteSet(1..n) /\ Cardinality(1..n) = IF 1 > n THEN 0 ELSE n - 1 + 1
      BY <1>2, FS_Interval
    <3> QED
      BY <1>2, <3>1
  <2>4. ExistsBijection(1..n, p.emitted)
    BY <2>2 DEF ExistsBijection
  <2> QED
    BY <2>3, <2>4, FS_Bijection
<1>7. p.emitted = Entities
  <2> SUFFICES ASSUME p.emitted # Entities PROVE FALSE
    OBVIOUS
  <2>1. NotReady(p) # {}
    BY <1>4 DEF NotReady
  <2>2. K <= 2 * n + 1
    <3> DEFINE G == ReadyNow(p, refs)
    <3>1. K <= 2 * n + (IF G = {} THEN 0 ELSE 1)
      BY <1>1, <2>1 DEF Progress
    <3> HIDE DEF G, n
    <3>2. CASE G = {}
      <4>1. K <= 2 * n + 0
        BY <3>1, <3>2
      <4> QED
        BY <1>2, <4>1, MigrationPlanAssumption
    <3>3. CASE G # {}
      BY <3>1, <3>3
    <3> QED
      BY <3>2, <3>3
  <2>3. n <= EntityCount /\ n # EntityCount
    BY <1>4, <1>5, <1>6, FS_Subset
  <2> QED
    BY <1>2, <2>2, <2>3, MigrationPlanAssumption
<1>8. n = EntityCount
  BY <1>5, <1>6, <1>7
<1>9. \A e \in Entities : \E i \in 1..n : p.order[i] = e
  BY <1>3, <1>7
<1>10. ASSUME NEW i \in 1..n, NEW j \in 1..n,
              <<p.order[i], p.order[j]>> \in refs \ p.deferred
       PROVE  j <= i
  <2>1. PICK k \in 1..i : p.order[j] = p.order[k]
    BY <1>1, <1>10 DEF PlanInv
  <2>2. k \in 1..n
    BY <1>2
  <2> QED
    BY <1>2, <1>3, <2>1, <2>2
<1>11. p.deferred \subseteq refs /\ (p.deferred # {} => Cyclic(refs))
  BY <1>1 DEF PlanInv
<1> QED
  BY <1>2, <1>8, <1>9, <1>10, <1>11 DEF PlanInOrder, p
=============================================================================
