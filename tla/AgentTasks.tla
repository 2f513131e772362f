----------------------------- MODULE AgentTasks -----------------------------
(***************************************************************************)
(* Runs of governed agent tasks: the two triggers (the A2A endpoint,       *)
(* runtime/src/a2a.ts, and the admin route, runtime/src/admin-agents.ts),  *)
(* the task's procedure (runtime/src/agent-tasks.ts) and what it does      *)
(* through its AgentContext (agents/src/runtime.ts).                       *)
(*                                                                         *)
(* A run goes through                                                      *)
(*   "decide"   PDP decision on the trigger and its audit record           *)
(*   "context"  contextFor, which sets off the task_started append, and    *)
(*              the look-up of the procedure                               *)
(*   "read"     the procedure checks its input and reads the record        *)
(*   "tool"     callTool up to the tool_call record                        *)
(*   "execute"  sandbox.execute                                            *)
(*   "result"   the tool_result record                                     *)
(*   "propose"  the proposal and its record, in one transaction            *)
(*   "finish"   ctx.finish                                                 *)
(*   "store"    INSERT INTO a2a_tasks        (A2A only)                    *)
(*   "reply"    the a2a.result record        (A2A only)                    *)
(* and ends "done", or "dead" when the process stops under it. Policies    *)
(* are not fixed: every decision may go either way. The audit log is the   *)
(* abstract log that AuditChain implements.                                *)
(***************************************************************************)
EXTENDS Naturals, Sequences

CONSTANTS Runs,       \* bound: requests that trigger a task
          Tasks,      \* names a request can give
          Declared,   \* tasks of the spec
          Procedures, \* tasks with a procedure on this deployment
          MayCall,    \* tasks whose allowlist has the procedure's tool
          AllowedSkills, \* allowedSkills of the A2A client
          MaxCrashes  \* bound: times the process stops

ASSUME AgentAssumption ==
  /\ Declared \subseteq Tasks /\ Procedures \subseteq Tasks
  /\ MayCall \subseteq Declared /\ AllowedSkills \subseteq Tasks
  /\ MaxCrashes \in Nat

VARIABLES
  pc,
  req,       \* req[r]: trigger, task and whether the input names a record
  starting,  \* runs whose task_started append is under way
  ran,       \* runs whose tool was executed in the sandbox
  verdict,   \* verdict[r]: what sandbox.execute returned
  outcome,   \* outcome[r]: the outcome's reason
  answer,    \* answer[r]: what the caller was told
  log,       \* committed audit records
  proposals, \* runs with a row in agent_proposals
  tasks,     \* a2a_tasks: [run, status] rows
  crashes

vars == <<pc, req, starting, ran, verdict, outcome, answer, log, proposals,
          tasks, crashes>>

Requests == [trigger : {"admin", "a2a"}, task : Tasks, valid : BOOLEAN]
NoRequest == [trigger |-> "none", task |-> "none", valid |-> FALSE]
Failures == {"invalid_input", "read_failed", "declined_high_risk", "error",
             "unregistered"}
Outcomes == Failures \cup {"none", "proposed"}
Answers == {"none", "completed", "failed", "denied", "not_found", "internal"}
Steps == {"decide", "context", "read", "tool", "execute", "result", "propose",
          "finish", "store", "reply"}
EventNames == {"trigger", "agent.task_started", "agent.tool_call",
               "agent.tool_result", "agent.transition_proposed",
               "agent.task_finished", "a2a.result"}
\* "info" is what a property asks of the record: the decision, the reason.
Events == [event : EventNames, run : Runs,
           info : {"allow", "deny", "none", "completed", "failed"} \cup Outcomes]

Event(name, r, i) == [event |-> name, run |-> r, info |-> i]
Decision(allow) == IF allow THEN "allow" ELSE "deny"

-----------------------------------------------------------------------------
Init == /\ pc = [r \in Runs |-> "idle"]
        /\ req = [r \in Runs |-> NoRequest]
        /\ starting = {} /\ ran = {} /\ proposals = {} /\ tasks = {}
        /\ verdict = [r \in Runs |-> "none"]
        /\ outcome = [r \in Runs |-> "none"]
        /\ answer = [r \in Runs |-> "none"]
        /\ log = <<>>
        /\ crashes = 0

\* AuditStore.append: it returns, or throws with or without its record.
Appending(e, returns) == \/ log' = Append(log, e)
                         \/ ~returns /\ UNCHANGED log

Goto(r, step) == pc' = [pc EXCEPT ![r] = step] /\ UNCHANGED answer

Reply(r, a) == /\ pc' = [pc EXCEPT ![r] = "done"]
               /\ answer' = [answer EXCEPT ![r] = a]

\* The procedure is over, by returning an outcome or by throwing ("error").
Outcome(r, o) == /\ outcome' = [outcome EXCEPT ![r] = o]
                 /\ Goto(r, "finish")

\* A request that has passed authentication.
Arrive(r, q) ==
  /\ pc[r] = "idle"
  /\ req' = [req EXCEPT ![r] = q]
  /\ Goto(r, "decide")
  /\ UNCHANGED <<starting, ran, verdict, outcome, log, proposals, tasks, crashes>>

\* The client's allowedSkills (A2A) and the PDP; the verdict is appended before
\* anything is done, and without its record nothing is.
DecideTrigger(r) ==
  /\ pc[r] = "decide"
  /\ \E allow, returns \in BOOLEAN :
       /\ req[r].trigger = "a2a" /\ req[r].task \notin AllowedSkills => ~allow
       /\ Appending(Event("trigger", r, Decision(allow)), returns)
       /\ IF returns /\ allow THEN Goto(r, "context")
                              ELSE Reply(r, IF returns THEN "denied" ELSE "internal")
  /\ UNCHANGED <<req, starting, ran, verdict, outcome, proposals, tasks, crashes>>

\* contextFor succeeds: the task_started append is set off, not awaited.
contextFor(r, step) == /\ starting' = starting \cup {r}
                       /\ Goto(r, step)

\* Mutant: a task without a procedure is not answered.
OpenAdmin_NoProcedure(r) ==
  /\ pc[r] = "context" /\ req[r].trigger = "admin"
  /\ \/ /\ req[r].task \notin Declared
        /\ Reply(r, "not_found")
        /\ UNCHANGED <<starting, outcome>>
     \/ /\ req[r].task \in Declared \cap Procedures
        /\ contextFor(r, "read")
        /\ UNCHANGED outcome
  /\ UNCHANGED <<req, ran, verdict, log, proposals, tasks, crashes>>

\* The admin route asks for the context first, SendMessage for the procedure.
OpenAdmin(r) ==
  /\ pc[r] = "context" /\ req[r].trigger = "admin"
  /\ \/ /\ req[r].task \notin Declared
        /\ Reply(r, "not_found")
        /\ UNCHANGED <<starting, outcome>>
     \/ /\ req[r].task \in Declared \ Procedures
        /\ starting' = starting \cup {r}
        /\ Outcome(r, "unregistered")
     \/ /\ req[r].task \in Declared \cap Procedures
        /\ contextFor(r, "read")
        /\ UNCHANGED outcome
  /\ UNCHANGED <<req, ran, verdict, log, proposals, tasks, crashes>>

OpenA2a(r) ==
  /\ pc[r] = "context" /\ req[r].trigger = "a2a"
  /\ IF req[r].task \in Declared \cap Procedures
     THEN contextFor(r, "read")
     ELSE Goto(r, "store") /\ UNCHANGED starting
  /\ UNCHANGED <<req, ran, verdict, outcome, log, proposals, tasks, crashes>>

\* The task_started append lands whenever it does, or is lost unnoticed.
TaskStarted(r) ==
  /\ r \in starting
  /\ starting' = starting \ {r}
  /\ \E returns \in BOOLEAN : Appending(Event("agent.task_started", r, "none"), returns)
  /\ UNCHANGED <<pc, req, ran, verdict, outcome, answer, proposals, tasks, crashes>>

\* vendorRiskReview up to callTool: bad id, no such record, a failing query.
ReadRecord(r) ==
  /\ pc[r] = "read"
  /\ IF req[r].valid
     THEN \/ Goto(r, "tool") /\ UNCHANGED outcome
          \/ Outcome(r, "read_failed")
          \/ Outcome(r, "error")
     ELSE Outcome(r, "invalid_input")
  /\ UNCHANGED <<req, starting, ran, verdict, log, proposals, tasks, crashes>>

\* callTool refuses by its allowlist or the tool's input schema: not audited.
RefuseTool(r) ==
  /\ pc[r] = "tool"
  /\ Outcome(r, "read_failed")
  /\ UNCHANGED <<req, starting, ran, verdict, log, proposals, tasks, crashes>>

\* Mutant: the tool_call append as best-effort as the tool_result append.
DecideTool_BestEffort(r) ==
  /\ pc[r] = "tool"
  /\ req[r].task \in MayCall
  /\ \E allow, returns \in BOOLEAN :
       /\ Appending(Event("agent.tool_call", r, Decision(allow)), returns)
       /\ IF allow THEN Goto(r, "execute") /\ UNCHANGED outcome
                   ELSE Outcome(r, "read_failed")
  /\ UNCHANGED <<req, starting, ran, verdict, proposals, tasks, crashes>>

\* callTool, steps 3 and 4: decide, and append before execution.
DecideTool(r) ==
  /\ pc[r] = "tool"
  /\ req[r].task \in MayCall
  /\ \E allow, returns \in BOOLEAN :
       /\ Appending(Event("agent.tool_call", r, Decision(allow)), returns)
       /\ IF returns /\ allow THEN Goto(r, "execute") /\ UNCHANGED outcome
                              ELSE Outcome(r, "read_failed")
  /\ UNCHANGED <<req, starting, ran, verdict, proposals, tasks, crashes>>

\* sandbox.execute: a verdict, or a failure that may come after the tool ran
\* (limit, violation, lost response) or before (refused, unreachable).
Execute(r) ==
  /\ pc[r] = "execute"
  /\ \/ /\ ran' = ran \cup {r}
        /\ \E v \in {"low", "high", "failed"} : verdict' = [verdict EXCEPT ![r] = v]
     \/ /\ verdict' = [verdict EXCEPT ![r] = "failed"]
        /\ UNCHANGED ran
  /\ Goto(r, "result")
  /\ UNCHANGED <<req, starting, outcome, log, proposals, tasks, crashes>>

\* The client throws on an answer it cannot read (a JSON null), whatever the tool
\* did: no tool_result record, and the procedure throws.
ExecuteThrows(r) ==
  /\ pc[r] = "execute"
  /\ ran' \in {ran, ran \cup {r}}
  /\ verdict' = [verdict EXCEPT ![r] = "failed"]
  /\ Outcome(r, "error")
  /\ UNCHANGED <<req, starting, log, proposals, tasks, crashes>>

\* The only verdict that leads to a proposal.
Recommends(v) == v = "low"

\* callTool, step 6: best effort; then the procedure acts on the result.
ToolResult(r) ==
  /\ pc[r] = "result"
  /\ \E returns \in BOOLEAN : Appending(Event("agent.tool_result", r,
        Decision(verdict[r] # "failed")), returns)
  /\ IF Recommends(verdict[r])
     THEN Goto(r, "propose") /\ UNCHANGED outcome
     ELSE Outcome(r, IF verdict[r] = "failed" THEN "read_failed" ELSE "declined_high_risk")
  /\ UNCHANGED <<req, starting, ran, verdict, proposals, tasks, crashes>>

\* Mutant: the record is appended by the store, outside the transaction.
Propose_TwoTransactions(r) ==
  /\ pc[r] = "propose"
  /\ \E returns \in BOOLEAN :
       /\ Appending(Event("agent.transition_proposed", r, "none"), returns)
       /\ proposals' = proposals \cup {r}
       /\ Outcome(r, IF returns THEN "proposed" ELSE "error")
  /\ UNCHANGED <<req, starting, ran, verdict, tasks, crashes>>

\* propose: row and record commit together or not at all; a COMMIT whose answer
\* is lost throws all the same.
Propose(r) ==
  /\ pc[r] = "propose"
  /\ \/ /\ log' = Append(log, Event("agent.transition_proposed", r, "none"))
        /\ proposals' = proposals \cup {r}
        /\ Outcome(r, "proposed") \/ Outcome(r, "error")
     \/ Outcome(r, "error") /\ UNCHANGED <<log, proposals>>
  /\ UNCHANGED <<req, starting, ran, verdict, tasks, crashes>>

isSuccessOutcome(o) == o = "proposed"
Status(r) == IF isSuccessOutcome(outcome[r]) THEN "completed" ELSE "failed"

\* What the trigger does once finish() has returned: the admin route answers
\* (or rethrows the procedure's error, or answers 501), SendMessage goes on.
AfterFinish(r) ==
  IF req[r].trigger = "a2a" THEN Goto(r, "store")
  ELSE Reply(r, IF outcome[r] \in {"error", "unregistered"} THEN "internal" ELSE Status(r))

\* Mutant: finish(outcome) inside the try, so that its failure is caught and
\* finish() called again.
Finish_InsideTry(r) ==
  /\ pc[r] = "finish"
  /\ \E returns \in BOOLEAN :
       /\ Appending(Event("agent.task_finished", r, outcome[r]), returns)
       /\ IF returns THEN AfterFinish(r) /\ UNCHANGED outcome
          ELSE IF outcome[r] = "error" THEN Reply(r, "internal") /\ UNCHANGED outcome
          ELSE Outcome(r, "error")
  /\ UNCHANGED <<req, starting, ran, verdict, proposals, tasks, crashes>>

\* Mutant: finish() as a fire-and-forget append.
Finish_BestEffort(r) ==
  /\ pc[r] = "finish"
  /\ \E returns \in BOOLEAN : Appending(Event("agent.task_finished", r, outcome[r]), returns)
  /\ AfterFinish(r)
  /\ UNCHANGED <<req, starting, ran, verdict, outcome, proposals, tasks, crashes>>

\* finish(): one append, outside the try; when it throws the request fails.
Finish(r) ==
  /\ pc[r] = "finish"
  /\ \E returns \in BOOLEAN :
       /\ Appending(Event("agent.task_finished", r, outcome[r]), returns)
       /\ IF returns THEN AfterFinish(r) ELSE Reply(r, "internal")
  /\ UNCHANGED <<req, starting, ran, verdict, outcome, proposals, tasks, crashes>>

\* INSERT INTO a2a_tasks: it may fail, or commit and only seem to.
Store(r) ==
  /\ pc[r] = "store"
  /\ \/ /\ tasks' = tasks \cup {[run |-> r, status |-> Status(r)]}
        /\ Goto(r, "reply") \/ Reply(r, "internal")
     \/ Reply(r, "internal") /\ UNCHANGED tasks
  /\ UNCHANGED <<req, starting, ran, verdict, outcome, log, proposals, crashes>>

\* a2a.result is best effort, and the answer is what was stored.
ReplyA2a(r) ==
  /\ pc[r] = "reply"
  /\ \E returns \in BOOLEAN : Appending(Event("a2a.result", r, Status(r)), returns)
  /\ Reply(r, Status(r))
  /\ UNCHANGED <<req, starting, ran, verdict, outcome, proposals, tasks, crashes>>

Proceed(r) == \/ DecideTrigger(r) \/ OpenAdmin(r) \/ OpenA2a(r) \/ ReadRecord(r)
              \/ RefuseTool(r) \/ DecideTool(r) \/ Execute(r) \/ ExecuteThrows(r)
              \/ ToolResult(r) \/ Propose(r) \/ Finish(r) \/ Store(r) \/ ReplyA2a(r)

\* The process stops: its requests end without an answer, what it was about to
\* append is never sent.
Crash ==
  /\ crashes < MaxCrashes
  /\ crashes' = crashes + 1
  /\ pc' = [r \in Runs |-> IF pc[r] \in Steps THEN "dead" ELSE pc[r]]
  /\ starting' = {}
  /\ UNCHANGED <<req, ran, verdict, outcome, answer, log, proposals, tasks>>

Next == \/ \E r \in Runs : \/ \E q \in Requests : Arrive(r, q)
                           \/ Proceed(r) \/ TaskStarted(r)
        \/ Crash

\* Postgres and the sandbox supervisor answer, or the connection breaks.
Spec == Init /\ [][Next]_vars /\ \A r \in Runs : WF_vars(Proceed(r))

-----------------------------------------------------------------------------
AgentTypeOK ==
  /\ pc \in [Runs -> Steps \cup {"idle", "done", "dead"}]
  /\ req \in [Runs -> Requests \cup {NoRequest}]
  /\ starting \subseteq Runs /\ ran \subseteq Runs /\ proposals \subseteq Runs
  /\ verdict \in [Runs -> {"none", "low", "high", "failed"}]
  /\ outcome \in [Runs -> Outcomes]
  /\ answer \in [Runs -> Answers]
  /\ log \in Seq(Events)
  /\ tasks \subseteq [run : Runs, status : {"completed", "failed"}]
  /\ crashes \in 0..MaxCrashes

Records == {log[n] : n \in DOMAIN log}
Logged(name, r, i) == Event(name, r, i) \in Records
LoggedAny(name, r) == \E e \in Records : e.event = name /\ e.run = r

\* Nothing of a run happens without the committed allow that covers it: no
\* context without the trigger's, no tool in the sandbox without the tool call's,
\* even when the append's answer was lost (a2a.ts, admin-agents.ts authorize,
\* callTool "audit agent.tool_call BEFORE exec").
AuditedBeforeEffect ==
  \A r \in Runs :
    /\ r \in starting \/ LoggedAny("agent.task_started", r) \/ r \in ran
          => Logged("trigger", r, "allow")
    /\ r \in ran => Logged("agent.tool_call", r, "allow")

\* A row of agent_proposals exists exactly when its transition_proposed record
\* does, there is one record of it, and it rests on this run's own low-risk
\* verdict, reached by an allowed tool call recorded earlier (propose,
\* vendorRiskReview).
ProposalExplained ==
  /\ \A r \in Runs : r \in proposals <=> LoggedAny("agent.transition_proposed", r)
  /\ \A n \in DOMAIN log : log[n].event = "agent.transition_proposed" =>
       /\ log[n].run \in ran /\ verdict[log[n].run] = "low"
       /\ \E k \in 1..(n - 1) : log[k] = Event("agent.tool_call", log[n].run, "allow")
       /\ \A k \in DOMAIN log : log[k].event = log[n].event /\ log[k].run = log[n].run => k = n

\* task_finished is recorded at most once per run, and after it only the
\* records that are not part of the run's work can follow: a late task_started
\* and the endpoint's a2a.result (a2a.ts: "the orchestrator must call it EXACTLY
\* ONCE per run").
FinishClosesRun ==
  \A n \in DOMAIN log : \A k \in (n + 1)..Len(log) :
    /\ log[n].event = "agent.task_finished"
    /\ log[k].run = log[n].run
    => log[k].event \in {"agent.task_started", "a2a.result"}

\* A caller told "completed", or a stored task GetTask reports as completed, has
\* its proposal committed and its task_finished record says "proposed"; an A2A
\* answer is also what GetTask will say; whatever else fails in between.
CompletedIsTrue ==
  \A r \in Runs :
    /\ answer[r] = "completed" \/ [run |-> r, status |-> "completed"] \in tasks
         => r \in proposals /\ Logged("agent.task_finished", r, "proposed")
    /\ req[r].trigger = "a2a" /\ answer[r] \in {"completed", "failed"}
         => [run |-> r, status |-> answer[r]] \in tasks
    /\ \A s, t \in tasks : s.run = r /\ t.run = r => s = t

\* What a run has and has not done yet, by the step it is at.
Working == {"idle", "decide", "context", "read", "tool", "execute", "result", "propose"}
HasRow(r) == \E t \in tasks : t.run = r

RunPhase(r) ==
  /\ pc[r] \in Working => outcome[r] = "none" /\ ~LoggedAny("agent.transition_proposed", r)
  /\ pc[r] \in Working \cup {"finish"} => ~LoggedAny("agent.task_finished", r)
  /\ pc[r] \in Working \cup {"finish", "store"} => ~HasRow(r)
  /\ pc[r] \in Steps \cup {"idle", "dead"} => answer[r] = "none"
  /\ pc[r] \in Steps \ {"decide"} => Logged("trigger", r, "allow")
  /\ pc[r] \in {"execute", "result", "propose"} => Logged("agent.tool_call", r, "allow")
  /\ pc[r] = "propose" => verdict[r] = "low"
  /\ pc[r] \in {"result", "propose"} /\ verdict[r] = "low" => r \in ran
  /\ pc[r] = "finish" /\ outcome[r] = "proposed" => r \in proposals
  /\ pc[r] \in {"store", "reply"} =>
       /\ req[r].trigger = "a2a"
       /\ outcome[r] = "proposed" =>
            r \in proposals /\ Logged("agent.task_finished", r, "proposed")
  /\ pc[r] = "reply" => [run |-> r, status |-> Status(r)] \in tasks

\* The inductive invariant: where a run is tells which of its records and rows
\* are committed, whatever appends failed (handleSendMessage, the admin route,
\* callTool, propose, finish).
AgentInv == /\ AgentTypeOK
            /\ \A r \in Runs : RunPhase(r)
            /\ AuditedBeforeEffect /\ ProposalExplained /\ FinishClosesRun
            /\ CompletedIsTrue

\* Every request that triggers a task is answered, unless the process stops.
RunAnswered == \A r \in Runs : pc[r] \in Steps ~> pc[r] \in {"done", "dead"}
=============================================================================
