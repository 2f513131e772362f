------------------------------ MODULE Delivery ------------------------------
(***************************************************************************)
(* From a generated app to a running one: the CLI of Generate writes ./app *)
(* while the runtimes of Startup, which only read it, start and stop.      *)
(***************************************************************************)
EXTENDS Generate, Startup, MigrationPlan

CONSTANT MaxCommands   \* bound: runs of generate and starts of a runtime

ASSUME DeliveryAssumption == MaxCommands \in Nat

vars == <<cliVars, startVars>>

Init == GenerateInit /\ StartupInit

DeliveryCli == GenerateNext /\ UNCHANGED startVars

\* What only the CLI changes: everything of it but ./app.
cliOnly == <<newVars, genVars, gitVars, runVars>>

DeliveryRuntime == StartupNext /\ UNCHANGED cliOnly

Next == (DeliveryCli \/ DeliveryRuntime) /\ runs' + starts' <= MaxCommands

\* Nobody has to run or stop anything, and no fault has to happen; a process
\* that can go on does.
Fairness == /\ WF_vars(GenerateStep /\ UNCHANGED startVars)
            /\ \A p \in Runtimes : WF_vars(StartupStep(p) /\ UNCHANGED cliOnly)

Spec == Init /\ [][Next]_vars /\ Fairness

-----------------------------------------------------------------------------
\* Commands end, whatever the other processes do to ./app and the database
\* meanwhile: generate returns (its repair loop is bounded, and so is all that
\* follows), and a runtime that starts serves or exits.
CommandsEnd ==
  /\ gpc \notin {"idle", "done"} ~> gpc \in {"idle", "done"}
  /\ \A p \in Runtimes : rpc[p] \notin Down ~> rpc[p] \in Down \union {"serving"}

\* What the emitted migration and the workspace's README promise: an applied
\* migration is never edited, and the app of the new spec is what runs.  So a
\* runtime that serves the spec in ./app has that spec's tables, unless it
\* migrated while ./app was being replaced.
ServedSchema == \A p \in Runtimes :
  LET tables == schema[Init0001] IN
  rpc[p] = "serving" /\ app = compileApp(mem[p].spec) /\ tables # NoFile /\ tables.whole
    => tables = Whole(mem[p].spec)
=============================================================================
