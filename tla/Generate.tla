------------------------------ MODULE Generate ------------------------------
(***************************************************************************)
(* The CLI: `openrupiv new` (packages/cli/src/commands/new.ts) makes a     *)
(* workspace, `openrupiv generate` (commands/generate.ts with the          *)
(* generator's repair loop) replaces its ./app and commits it.  A command  *)
(* can fail or be killed between any two of its steps.                     *)
(***************************************************************************)
EXTENDS AppDir

CONSTANTS MAX_ATTEMPTS,    \* model calls of one generation
          MaxGenerations   \* bound: runs of generate

ASSUME GenerateAssumption == MAX_ATTEMPTS \in Nat \ {0} /\ MaxGenerations \in Nat

VARIABLES ws,       \* workspace: "absent", "made", "files", "git", "ready"
          npc,      \* new: "idle" | "running" | "cleanup"
          gpc,      \* where generate is
          at,       \* ... the model call, or the file of CompiledFiles, it is at
          target,   \* ... the spec it projects
          exit,     \* exit code, when it is done
          index,    \* git's index and HEAD, as far as ./app goes
          head,
          runs,     \* number of runs of generate
          before    \* history: ./app when the run began

newVars == <<ws, npc>>
genVars == <<gpc, at, target, exit>>
gitVars == <<index, head>>
runVars == <<runs, before>>
cliVars == <<app, newVars, genVars, gitVars, runVars>>

GenerateInit == /\ app = Empty
                /\ ws = "absent" /\ npc = "idle"
                /\ gpc = "idle" /\ at = 0 /\ target = NoFile /\ exit = 0
                /\ index = Empty /\ head = Empty
                /\ runs = 0 /\ before = Empty

-----------------------------------------------------------------------------
\* createWorkspace: the directory, its files, git init, then add and commit.
\* A name that exists is refused before anything is done.
NewBegins == /\ npc = "idle" /\ ws = "absent"
             /\ npc' = "running" /\ ws' = "made"
             /\ UNCHANGED <<app, genVars, gitVars, runVars>>

NewStep == /\ npc = "running"
           /\ \/ ws = "made" /\ ws' = "files" /\ UNCHANGED npc
              \/ ws = "files" /\ ws' = "git" /\ UNCHANGED npc
              \/ ws = "git" /\ ws' = "ready" /\ npc' = "idle"
           /\ UNCHANGED <<app, genVars, gitVars, runVars>>

\* A step throws: the half-made workspace is to be removed.
NewFails == /\ npc = "running"
            /\ npc' = "cleanup"
            /\ UNCHANGED <<app, ws, genVars, gitVars, runVars>>

\* rm -r of the workspace, to its end.
NewCleansUp == /\ npc = "cleanup"
               /\ npc' = "idle" /\ ws' = "absent"
               /\ UNCHANGED <<app, genVars, gitVars, runVars>>

\* rm throws too, as it may where a write has just failed, or the process is
\* killed in it: what is not removed yet stays, with or without .git.
NewCleanupFails == /\ npc = "cleanup"
                   /\ npc' = "idle"
                   /\ ws' \in {"made", ws} \union (IF ws = "git" THEN {"files"} ELSE {})
                   /\ UNCHANGED <<app, genVars, gitVars, runVars>>

\* The process is killed; what it made stays.
NewKilled == /\ npc = "running"
             /\ npc' = "idle"
             /\ UNCHANGED <<app, ws, genVars, gitVars, runVars>>

-----------------------------------------------------------------------------
\* The run ends with this exit code: 0 ok, 1 an error that is no CliError,
\* 2 generation failed, 3 compile failed, 4 environment error.
Return(code) == gpc' = "done" /\ at' = 0 /\ exit' = code

\* generate goes on at l, with its counter at n.
GoOn(l, n) == gpc' = l /\ at' = n /\ UNCHANGED exit

\* resolveWorkspace: openrupiv.yaml and .git are there (`new` wrote the one and
\* made the other, also if it then ended before its commit).
IsWorkspace == ws \in {"git", "ready"}

\* generate begins: no workspace, a bad config or no API key ends it here.
GenerateBegins ==
  /\ npc = "idle"
  /\ gpc \in {"idle", "done"} /\ runs < MaxGenerations
  /\ runs' = runs + 1 /\ before' = app
  /\ \/ Return(4)
     \/ IsWorkspace /\ gpc' = "model" /\ at' = 1 /\ exit' = 0
  /\ target' = NoFile
  /\ UNCHANGED <<app, newVars, gitVars>>

\* The API call fails: not a spec failure and not a CliError.
ModelThrows == /\ gpc = "model"
               /\ Return(1)
               /\ UNCHANGED <<app, newVars, target, gitVars, runVars>>

\* The answer is no JSON object, or a spec that validateSpec rejects: its errors
\* go into the next prompt, while there are attempts left.
ModelErrs ==
  /\ gpc = "model"
  /\ IF at < MAX_ATTEMPTS THEN GoOn("model", at + 1) ELSE Return(2)
  /\ UNCHANGED <<app, newVars, target, gitVars, runVars>>

\* Mutant: the old files go before the new ones are compiled.
ModelAnswers_RemovesFirst(v) ==
  /\ gpc = "model"
  /\ target' = v /\ app' = Empty
  /\ IF v \in Compilable THEN GoOn("remove", 0) ELSE Return(3)
  /\ UNCHANGED <<newVars, gitVars, runVars>>

\* A valid spec: it is validated once more and compiled before ./app is touched.
ModelAnswers(v) ==
  /\ gpc = "model"
  /\ target' = v
  /\ IF v \in Compilable THEN GoOn("remove", 0) ELSE Return(3)
  /\ UNCHANGED <<app, newVars, gitVars, runVars>>

\* rm -r app, entry by entry.
RemoveEntry(f) ==
  /\ gpc = "remove" /\ app[f] # NoFile
  /\ app' = [app EXCEPT ![f] = NoFile]
  /\ UNCHANGED <<newVars, genVars, gitVars, runVars>>

Removed == /\ gpc = "remove" /\ app = Empty
           /\ GoOn("write", 1)
           /\ UNCHANGED <<app, newVars, target, gitVars, runVars>>

\* writeFile of the next file: truncated and half there, then all there.
WriteFile ==
  LET f == CompiledFiles[at] IN
  /\ gpc = "write"
  /\ IF app[f] = NoFile
     THEN app' = [app EXCEPT ![f] = Torn(target)] /\ UNCHANGED <<gpc, at, exit>>
     ELSE /\ app' = [app EXCEPT ![f] = Whole(target)]
          /\ IF at < Len(CompiledFiles) THEN GoOn("write", at + 1) ELSE GoOn("add", 0)
  /\ UNCHANGED <<newVars, target, gitVars, runVars>>

\* Mutant: an error while a file is written is logged and the run goes on.
FsError_Logged == /\ gpc = "write" /\ app[CompiledFiles[at]] # NoFile
                  /\ GoOn("add", 0)
                  /\ UNCHANGED <<app, newVars, target, gitVars, runVars>>

\* The file system refuses a step: not a CliError.
FsError == /\ gpc \in {"remove", "write"}
           /\ Return(1)
           /\ UNCHANGED <<app, newVars, target, gitVars, runVars>>

GitAdd == /\ gpc = "add"
          /\ index' = app /\ GoOn("status", 0)
          /\ UNCHANGED <<app, newVars, target, head, runVars>>

\* Nothing staged against HEAD is not an error.
GitStatus == /\ gpc = "status"
             /\ IF index = head /\ ws = "ready" THEN Return(0) ELSE GoOn("commit", 0)
             /\ UNCHANGED <<app, newVars, target, gitVars, runVars>>

\* What `new` left uncommitted goes with it.
GitCommit == /\ gpc = "commit"
             /\ head' = index /\ ws' = "ready" /\ GoOn("rev-parse", 0)
             /\ UNCHANGED <<app, npc, target, index, runVars>>

GitRevParse == /\ gpc = "rev-parse"
               /\ Return(0)
               /\ UNCHANGED <<app, newVars, target, gitVars, runVars>>

\* A git command fails: ERR_GIT, an environment error.
GitError == /\ gpc \in {"add", "status", "commit", "rev-parse"}
            /\ Return(4)
            /\ UNCHANGED <<app, newVars, target, gitVars, runVars>>

\* The process is killed; what it wrote stays.
GenerateKilled == /\ gpc \notin {"idle", "done"}
                  /\ gpc' = "idle" /\ at' = 0 /\ target' = NoFile
                  /\ UNCHANGED <<app, newVars, exit, gitVars, runVars>>

\* A developer adds a migration to a whole ./app and commits it.
AddMigration ==
  /\ gpc \in {"idle", "done"} /\ \E v \in Compilable : app = compileApp(v)
  /\ app' = [app EXCEPT ![ByHand] = Whole(ByHand)]
  /\ index' = app' /\ head' = app'
  /\ gpc' = "idle" /\ at' = 0 /\ target' = NoFile /\ exit' = 0
  /\ UNCHANGED <<newVars, runVars>>

GenerateStep == \/ ModelErrs \/ \E v \in Specs : ModelAnswers(v)
                \/ \E f \in Files : RemoveEntry(f)
                \/ Removed \/ WriteFile
                \/ GitAdd \/ GitStatus \/ GitCommit \/ GitRevParse

GenerateFault == ModelThrows \/ FsError \/ GitError \/ GenerateKilled

NewNext == NewBegins \/ NewStep \/ NewFails \/ NewCleansUp \/ NewCleanupFails \/ NewKilled

GenerateNext == NewNext \/ GenerateBegins \/ GenerateStep \/ GenerateFault \/ AddMigration

-----------------------------------------------------------------------------
\* What is committed is whole: through failures and kills at any step, HEAD
\* never has half a file or files of two specs.
HeadIsCompiled ==
  \/ head = Empty
  \/ \E v \in Compilable : head \in {compileApp(v), [compileApp(v) EXCEPT ![ByHand] = Whole(ByHand)]}

\* The exit code of generate tells what happened: 0, ./app and HEAD are the
\* projection of the spec; 2 or 3, ./app is as it was.
ExitTellsTruth ==
  gpc = "done" =>
    /\ exit = 0 => app = compileApp(target) /\ head = app
    /\ exit \in {2, 3} => app = before
=============================================================================
