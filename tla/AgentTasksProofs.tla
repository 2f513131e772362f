-------------------------- MODULE AgentTasksProofs --------------------------
(***************************************************************************)
(* AgentInv is an invariant of AgentTasks for any set of runs, tasks and   *)
(* clients: what a caller is told, what is stored and what is on the audit *)
(* log agree, whatever fails.                                              *)
(***************************************************************************)
EXTENDS AgentTasks, TLAPS

\* What appending a record changes.
LEMMA Appended ==
  ASSUME log \in Seq(Events), NEW e \in Events, log' = Append(log, e)
  PROVE  /\ log' \in Seq(Events)
         /\ Len(log) \in Nat /\ Len(log') = Len(log) + 1
         /\ DOMAIN log = 1..Len(log) /\ DOMAIN log' = 1..(Len(log) + 1)
         /\ \A n \in 1..Len(log) : log'[n] = log[n] /\ log[n] \in Events
         /\ log'[Len(log) + 1] = e
         /\ Records' = Records \cup {e}
<1>1. /\ log' \in Seq(Events)
      /\ Len(log) \in Nat /\ Len(log') = Len(log) + 1
      /\ DOMAIN log = 1..Len(log) /\ DOMAIN log' = 1..(Len(log) + 1)
      /\ \A n \in 1..Len(log) : log'[n] = log[n] /\ log[n] \in Events
      /\ log'[Len(log) + 1] = e
  OBVIOUS
<1>2. Records' = Records \cup {e}
  BY <1>1 DEF Records
<1> QED BY <1>1, <1>2

\* A run's work is over with its task_finished record.
LEMMA ClosesKept ==
  ASSUME log \in Seq(Events), NEW e \in Events, log' = Append(log, e),
         FinishClosesRun,
         LoggedAny("agent.task_finished", e.run)
           => e.event \in {"agent.task_started", "a2a.result"}
  PROVE  FinishClosesRun'
<1> SUFFICES ASSUME NEW n \in DOMAIN log', NEW k \in (n + 1)..Len(log'),
                    log'[n].event = "agent.task_finished", log'[k].run = log'[n].run
             PROVE  log'[k].event \in {"agent.task_started", "a2a.result"}
  BY DEF FinishClosesRun
<1>1. n \in 1..Len(log) /\ log'[n] = log[n] /\ log[n] \in Records
  BY Appended DEF Records
<1>2. CASE k \in 1..Len(log)
  BY <1>1, <1>2, Appended DEF FinishClosesRun
<1>3. CASE k = Len(log) + 1
  BY <1>1, <1>3, Appended DEF LoggedAny
<1> QED BY <1>1, <1>2, <1>3, Appended

\* The part of ProposalExplained that is about places in the log.
Explained ==
  \A n \in DOMAIN log : log[n].event = "agent.transition_proposed" =>
    /\ log[n].run \in ran /\ verdict[log[n].run] = "low"
    /\ \E k \in 1..(n - 1) : log[k] = Event("agent.tool_call", log[n].run, "allow")
    /\ \A k \in DOMAIN log :
         log[k].event = log[n].event /\ log[k].run = log[n].run => k = n

\* A record that proposes must find its grounds, any other changes nothing.
LEMMA ExplainedKept ==
  ASSUME log \in Seq(Events), NEW e \in Events, log' = Append(log, e),
         Explained, ran' = ran, verdict' = verdict,
         e.event = "agent.transition_proposed" =>
           /\ e.run \in ran /\ verdict[e.run] = "low"
           /\ Event("agent.tool_call", e.run, "allow") \in Records
           /\ ~LoggedAny("agent.transition_proposed", e.run)
  PROVE  Explained'
<1> SUFFICES ASSUME NEW n \in DOMAIN log', log'[n].event = "agent.transition_proposed"
             PROVE  /\ log'[n].run \in ran /\ verdict[log'[n].run] = "low"
                    /\ \E k \in 1..(n - 1) :
                         log'[k] = Event("agent.tool_call", log'[n].run, "allow")
                    /\ \A k \in DOMAIN log' :
                         log'[k].event = log'[n].event /\ log'[k].run = log'[n].run => k = n
  BY DEF Explained
<1>1. CASE n \in 1..Len(log)
  <2>1. log'[n] = log[n] /\ n \in DOMAIN log /\ log[n] \in Records
    BY <1>1, Appended DEF Records
  <2>2. /\ log[n].run \in ran /\ verdict[log[n].run] = "low"
        /\ \E k \in 1..(n - 1) : log[k] = Event("agent.tool_call", log[n].run, "allow")
        /\ \A k \in DOMAIN log :
             log[k].event = log[n].event /\ log[k].run = log[n].run => k = n
    BY <2>1 DEF Explained
  <2>3. \E k \in 1..(n - 1) : log'[k] = Event("agent.tool_call", log[n].run, "allow")
    BY <1>1, <2>2, Appended
  <2>4. ASSUME NEW k \in DOMAIN log', log'[k].event = log'[n].event,
               log'[k].run = log'[n].run
        PROVE  k = n
    <3>1. k # Len(log) + 1
      BY <2>1, <2>4, Appended DEF LoggedAny
    <3> QED BY <2>1, <2>2, <2>4, <3>1, Appended
  <2> QED BY <2>1, <2>2, <2>3, <2>4
<1>2. CASE n = Len(log) + 1
  <2>1. log'[n] = e BY <1>2, Appended
  <2>2. PICK k \in DOMAIN log : log[k] = Event("agent.tool_call", e.run, "allow")
    BY <2>1 DEF Records
  <2>3. k \in 1..(n - 1) /\ log'[k] = log[k]
    BY <1>2, Appended
  <2>4. ASSUME NEW j \in DOMAIN log', log'[j].event = log'[n].event,
               log'[j].run = log'[n].run
        PROVE  j = n
    <3>1. j \in DOMAIN log => log'[j] = log[j] /\ log[j] \in Records
      BY Appended DEF Records
    <3>2. j \notin DOMAIN log
      BY <2>1, <2>4, <3>1 DEF LoggedAny
    <3> QED BY <1>2, <3>2, Appended
  <2> QED BY <2>1, <2>2, <2>3, <2>4
<1> QED BY <1>1, <1>2, Appended

\* Execute changes a verdict, of a run that has not proposed.
LEMMA ExplainedFrame ==
  ASSUME Explained, log \in Seq(Events), log' = log, ran \subseteq ran',
         \A q \in ran : LoggedAny("agent.transition_proposed", q) => verdict'[q] = verdict[q]
  PROVE  Explained'
<1>1. \A n \in DOMAIN log : log[n] \in Records
  BY DEF Records
<1> QED BY <1>1 DEF Explained, LoggedAny

\* Nothing has happened yet.
LEMMA InitAgentInv == Init => AgentInv
<1> SUFFICES ASSUME Init PROVE AgentInv
  OBVIOUS
<1>1. Records = {} /\ DOMAIN log = {}
  BY DEF Init, Records
<1>2. AgentTypeOK
  BY AgentAssumption DEF Init, AgentTypeOK, Outcomes, Answers
<1>3. \A r \in Runs : RunPhase(r)
  BY <1>1 DEF Init, RunPhase, LoggedAny, HasRow, Steps
<1>4. AuditedBeforeEffect /\ ProposalExplained /\ FinishClosesRun /\ CompletedIsTrue
  BY <1>1 DEF Init, AuditedBeforeEffect, ProposalExplained, FinishClosesRun,
              CompletedIsTrue, LoggedAny
<1> QED BY <1>2, <1>3, <1>4 DEF AgentInv

\* Every step of a run that appends a record e of it, or none.
LEMMA RunStep ==
  ASSUME AgentInv, NEW r \in Runs, NEW e \in Events, e.run = r,
         log' = log \/ log' = Append(log, e),
         e.event = "agent.transition_proposed" /\ log' # log
           => pc[r] = "propose" /\ ran' = ran /\ verdict' = verdict,
         e.event \notin {"agent.task_started", "a2a.result"} /\ log' # log
           => pc[r] \in Working \cup {"finish"},
         (ran' = ran /\ verdict' = verdict)
           \/ (log' = log /\ pc[r] = "execute" /\ ran \subseteq ran'
                 /\ \A q \in Runs \ {r} : verdict'[q] = verdict[q])
  PROVE  FinishClosesRun' /\ Explained'
<1>1. /\ log \in Seq(Events) /\ FinishClosesRun /\ Explained /\ RunPhase(r)
      /\ ran \subseteq Runs
  BY DEF AgentInv, AgentTypeOK, ProposalExplained, Explained
<1>2. CASE log' = log
  <2>1. FinishClosesRun' BY <1>1, <1>2 DEF FinishClosesRun
  <2>2. CASE ran' = ran /\ verdict' = verdict
    <3>1. Explained' BY <1>1, <1>2, <2>2 DEF Explained
    <3> QED BY <2>1, <3>1
  <2>3. CASE ~(ran' = ran /\ verdict' = verdict)
    <3>1. ~LoggedAny("agent.transition_proposed", r)
      BY <1>1, <2>3 DEF RunPhase, Working
    <3>2. Explained' BY <1>1, <1>2, <2>3, <3>1, ExplainedFrame
    <3> QED BY <2>1, <3>2
  <2> QED BY <2>2, <2>3
<1>3. CASE log' # log
  <2>1. log' = Append(log, e) /\ ran' = ran /\ verdict' = verdict BY <1>3
  <2>2. FinishClosesRun'
    BY <1>1, <1>3, <2>1, ClosesKept DEF RunPhase
  <2>3. e.event = "agent.transition_proposed" =>
          /\ e.run \in ran /\ verdict[e.run] = "low"
          /\ Event("agent.tool_call", e.run, "allow") \in Records
          /\ ~LoggedAny("agent.transition_proposed", e.run)
    BY <1>1, <1>3 DEF RunPhase, Working, Logged
  <2>4. Explained' BY <1>1, <2>1, <2>3, ExplainedKept
  <2> QED BY <2>2, <2>4
<1> QED BY <1>2, <1>3

\* What the invariant says of one run, apart from places in the log.
OneRow(r) == \A s, t \in tasks : s.run = r /\ t.run = r => s = t

OfRun(r) ==
  /\ RunPhase(r)
  /\ r \in starting \/ LoggedAny("agent.task_started", r) \/ r \in ran
       => Logged("trigger", r, "allow")
  /\ r \in ran => Logged("agent.tool_call", r, "allow")
  /\ r \in proposals <=> LoggedAny("agent.transition_proposed", r)
  /\ answer[r] = "completed" \/ [run |-> r, status |-> "completed"] \in tasks
       => r \in proposals /\ Logged("agent.task_finished", r, "proposed")
  /\ req[r].trigger = "a2a" /\ answer[r] \in {"completed", "failed"}
       => [run |-> r, status |-> answer[r]] \in tasks
  /\ OneRow(r)

\* The invariant, run by run.
LEMMA ByRun ==
  AgentInv <=> /\ AgentTypeOK /\ FinishClosesRun /\ Explained
               /\ \A r \in Runs : OfRun(r)
<1>1. AgentInv => /\ AgentTypeOK /\ FinishClosesRun /\ Explained
                  /\ \A r \in Runs : OfRun(r)
  BY DEF AgentInv, OfRun, OneRow, AuditedBeforeEffect, ProposalExplained,
         CompletedIsTrue, Explained
<1>2. /\ AgentTypeOK /\ FinishClosesRun /\ Explained
      /\ \A r \in Runs : OfRun(r)
      => AgentInv
  BY DEF AgentInv, OfRun, OneRow, AuditedBeforeEffect, ProposalExplained,
         CompletedIsTrue, Explained
<1> QED BY <1>1, <1>2

\* The same of the next state.
LEMMA ByRunPrime ==
  AgentInv' <=> /\ AgentTypeOK' /\ FinishClosesRun' /\ Explained'
                /\ \A r \in Runs : OfRun(r)'
<1>1. AgentInv' => /\ AgentTypeOK' /\ FinishClosesRun' /\ Explained'
                   /\ \A r \in Runs : OfRun(r)'
  BY DEF AgentInv, OfRun, OneRow, AuditedBeforeEffect, ProposalExplained,
         CompletedIsTrue, Explained
<1>2. /\ AgentTypeOK' /\ FinishClosesRun' /\ Explained'
      /\ \A r \in Runs : OfRun(r)'
      => AgentInv'
  BY DEF AgentInv, OfRun, OneRow, AuditedBeforeEffect, ProposalExplained,
         CompletedIsTrue, Explained
<1> QED BY <1>1, <1>2

\* The records after a step that appends e or nothing.
LEMMA RecordsAfter ==
  ASSUME log \in Seq(Events), NEW e \in Events, log' = log \/ log' = Append(log, e)
  PROVE  Records' = IF log' = log THEN Records ELSE Records \cup {e}
<1>1. CASE log' = log
  BY <1>1 DEF Records
<1>2. CASE log' # log
  BY <1>2, Appended
<1> QED BY <1>1, <1>2

\* The run's own records after such a step.
LEMMA OwnRecords ==
  ASSUME log \in Seq(Events), NEW r \in Runs, NEW e \in Events, e.run = r,
         log' = log \/ log' = Append(log, e)
  PROVE  /\ log' = Append(log, e) => log' # log
         /\ Logged("trigger", r, "allow")' <=> Logged("trigger", r, "allow")
              \/ (log' # log /\ e.event = "trigger" /\ e.info = "allow")
         /\ Logged("agent.tool_call", r, "allow")' <=> Logged("agent.tool_call", r, "allow")
              \/ (log' # log /\ e.event = "agent.tool_call" /\ e.info = "allow")
         /\ Logged("agent.task_finished", r, "proposed")'
              <=> Logged("agent.task_finished", r, "proposed")
                  \/ (log' # log /\ e.event = "agent.task_finished" /\ e.info = "proposed")
         /\ LoggedAny("agent.task_started", r)' <=> LoggedAny("agent.task_started", r)
              \/ (log' # log /\ e.event = "agent.task_started")
         /\ LoggedAny("agent.transition_proposed", r)'
              <=> LoggedAny("agent.transition_proposed", r)
                  \/ (log' # log /\ e.event = "agent.transition_proposed")
         /\ LoggedAny("agent.task_finished", r)' <=> LoggedAny("agent.task_finished", r)
              \/ (log' # log /\ e.event = "agent.task_finished")
<1>1. Records' = IF log' = log THEN Records ELSE Records \cup {e}
  BY RecordsAfter
<1>2. log' = Append(log, e) => log' # log
  BY Appended
<1>3. e = Event(e.event, r, e.info)
  BY DEF Events, Event
<1>4. \A n, i : Logged(n, r, i)' <=> Logged(n, r, i)
                   \/ (log' # log /\ e.event = n /\ e.info = i)
  BY <1>1, <1>3 DEF Logged, Event
<1>5. \A n : LoggedAny(n, r)' <=> LoggedAny(n, r) \/ (log' # log /\ e.event = n)
  BY <1>1 DEF LoggedAny
<1> QED BY <1>2, <1>4, <1>5

\* A step of r leaves what the invariant says of another run as it is.
LEMMA OtherRun ==
  ASSUME NEW r \in Runs, NEW q \in Runs, q # r, OfRun(q),
         NEW e \in Events, e.run = r,
         Records' = IF log' = log THEN Records ELSE Records \cup {e},
         pc'[q] = pc[q], req'[q] = req[q], verdict'[q] = verdict[q],
         outcome'[q] = outcome[q], answer'[q] = answer[q],
         q \in starting' <=> q \in starting, q \in ran' <=> q \in ran,
         q \in proposals' <=> q \in proposals,
         \A t : t.run = q => (t \in tasks' <=> t \in tasks)
  PROVE  OfRun(q)'
<1>1. \A n, i : Logged(n, q, i)' <=> Logged(n, q, i)
  BY DEF Logged, Event
<1>2. \A n : LoggedAny(n, q)' <=> LoggedAny(n, q)
  BY DEF LoggedAny
<1>3. /\ HasRow(q)' <=> HasRow(q)
      /\ OneRow(q)' <=> OneRow(q)
      /\ \A x : [run |-> q, status |-> x] \in tasks' <=> [run |-> q, status |-> x] \in tasks
  BY DEF HasRow, OneRow
<1>4. RunPhase(q)'
  BY <1>1, <1>2, <1>3 DEF OfRun, RunPhase, Status
<1> QED BY <1>1, <1>2, <1>3, <1>4 DEF OfRun

\* contextFor, then the procedure: nothing is appended yet.
LEMMA OpenAdminInv ==
  ASSUME AgentInv, NEW r \in Runs, OpenAdmin(r)
  PROVE  AgentInv'
<1> DEFINE e == Event("agent.task_started", r, "none")
<1>1. /\ AgentTypeOK /\ FinishClosesRun /\ Explained
      /\ \A q \in Runs : OfRun(q)
  BY ByRun
<1>2. e \in Events /\ e.run = r /\ e.event = "agent.task_started" /\ e.info = "none"
  BY <1>1 DEF AgentTypeOK, Events, EventNames, Event, Outcomes, Failures, Decision, Status
<1>3. log' = log \/ log' = Append(log, e)
  BY DEF OpenAdmin, contextFor, Outcome, Goto, Reply
<1> HIDE DEF e
<1>4. log' \in Seq(Events) /\ log \in Seq(Events)
  BY <1>1, <1>2, <1>3, Appended DEF AgentTypeOK
<1>5. AgentTypeOK'
  BY <1>1, <1>4
  DEF AgentTypeOK, OpenAdmin, contextFor, Outcome, Goto, Reply, Requests, Steps, Outcomes, Failures, Answers, Status
<1>6. FinishClosesRun' /\ Explained'
  BY <1>1, <1>2, <1>3, RunStep DEF AgentTypeOK, Working, OpenAdmin, contextFor, Outcome, Goto, Reply
<1>7. OfRun(r)'
  <2>1. tasks' = tasks /\ (HasRow(r)' <=> HasRow(r)) /\ (OneRow(r)' <=> OneRow(r))
    BY DEF OpenAdmin, HasRow, OneRow
  <2>2. /\ pc[r] = "context"
        /\ log' = log
        /\ req' = req /\ ran' = ran /\ verdict' = verdict /\ proposals' = proposals
        /\ \/ pc'[r] = "done" /\ answer'[r] = "not_found"
           \/ pc'[r] = "finish" /\ outcome'[r] = "unregistered" /\ answer'[r] = answer[r]
           \/ pc'[r] = "read" /\ outcome'[r] = outcome[r] /\ answer'[r] = answer[r]
    BY <1>1 DEF AgentTypeOK, OpenAdmin, contextFor, Outcome, Goto, Reply
  <2>4. RunPhase(r)'
    BY <1>1, <1>2, <1>3, <1>4, <2>1, <2>2, OwnRecords
    DEF OfRun, RunPhase, Working, Steps, Status, isSuccessOutcome
  <2> QED
    BY <1>1, <1>2, <1>3, <1>4, <2>1, <2>2, <2>4, OwnRecords
    DEF OfRun, RunPhase, Working, Steps, Status, isSuccessOutcome
<1>8. ASSUME NEW q \in Runs, q # r PROVE OfRun(q)'
  <2>1. /\ pc'[q] = pc[q] /\ req'[q] = req[q] /\ verdict'[q] = verdict[q]
        /\ outcome'[q] = outcome[q] /\ answer'[q] = answer[q]
        /\ (q \in starting' <=> q \in starting) /\ (q \in ran' <=> q \in ran)
        /\ (q \in proposals' <=> q \in proposals)
        /\ \A t : t.run = q => (t \in tasks' <=> t \in tasks)
    BY <1>1, <1>8 DEF AgentTypeOK, OpenAdmin, contextFor, Outcome, Goto, Reply
  <2> QED BY <1>1, <1>2, <1>3, <1>4, <1>8, <2>1, RecordsAfter, OtherRun
<1> QED BY <1>5, <1>6, <1>7, <1>8, ByRunPrime

\* The procedure, then contextFor.
LEMMA OpenA2aInv ==
  ASSUME AgentInv, NEW r \in Runs, OpenA2a(r)
  PROVE  AgentInv'
<1> DEFINE e == Event("agent.task_started", r, "none")
<1>1. /\ AgentTypeOK /\ FinishClosesRun /\ Explained
      /\ \A q \in Runs : OfRun(q)
  BY ByRun
<1>2. e \in Events /\ e.run = r /\ e.event = "agent.task_started" /\ e.info = "none"
  BY <1>1 DEF AgentTypeOK, Events, EventNames, Event, Outcomes, Failures, Decision, Status
<1>3. log' = log \/ log' = Append(log, e)
  BY DEF OpenA2a, contextFor, Goto
<1> HIDE DEF e
<1>4. log' \in Seq(Events) /\ log \in Seq(Events)
  BY <1>1, <1>2, <1>3, Appended DEF AgentTypeOK
<1>5. AgentTypeOK'
  BY <1>1, <1>4
  DEF AgentTypeOK, OpenA2a, contextFor, Goto, Requests, Steps, Outcomes, Failures, Answers, Status
<1>6. FinishClosesRun' /\ Explained'
  BY <1>1, <1>2, <1>3, RunStep DEF AgentTypeOK, Working, OpenA2a, contextFor, Goto
<1>7. OfRun(r)'
  <2>1. tasks' = tasks /\ (HasRow(r)' <=> HasRow(r)) /\ (OneRow(r)' <=> OneRow(r))
    BY DEF OpenA2a, HasRow, OneRow
  <2>2. /\ pc[r] = "context" /\ req[r].trigger = "a2a"
        /\ log' = log
        /\ req' = req /\ ran' = ran /\ verdict' = verdict /\ proposals' = proposals
        /\ pc'[r] \in {"read", "store"}
        /\ outcome' = outcome /\ answer' = answer
    BY <1>1 DEF AgentTypeOK, OpenA2a, contextFor, Goto
  <2>4. RunPhase(r)'
    BY <1>1, <1>2, <1>3, <1>4, <2>1, <2>2, OwnRecords
    DEF OfRun, RunPhase, Working, Steps, Status, isSuccessOutcome
  <2> QED
    BY <1>1, <1>2, <1>3, <1>4, <2>1, <2>2, <2>4, OwnRecords
    DEF OfRun, RunPhase, Working, Steps, Status, isSuccessOutcome
<1>8. ASSUME NEW q \in Runs, q # r PROVE OfRun(q)'
  <2>1. /\ pc'[q] = pc[q] /\ req'[q] = req[q] /\ verdict'[q] = verdict[q]
        /\ outcome'[q] = outcome[q] /\ answer'[q] = answer[q]
        /\ (q \in starting' <=> q \in starting) /\ (q \in ran' <=> q \in ran)
        /\ (q \in proposals' <=> q \in proposals)
        /\ \A t : t.run = q => (t \in tasks' <=> t \in tasks)
    BY <1>1, <1>8 DEF AgentTypeOK, OpenA2a, contextFor, Goto
  <2> QED BY <1>1, <1>2, <1>3, <1>4, <1>8, <2>1, RecordsAfter, OtherRun
<1> QED BY <1>5, <1>6, <1>7, <1>8, ByRunPrime

\* The late task_started record.
LEMMA TaskStartedInv ==
  ASSUME AgentInv, NEW r \in Runs, TaskStarted(r)
  PROVE  AgentInv'
<1> DEFINE e == Event("agent.task_started", r, "none")
<1>1. /\ AgentTypeOK /\ FinishClosesRun /\ Explained
      /\ \A q \in Runs : OfRun(q)
  BY ByRun
<1>2. e \in Events /\ e.run = r /\ e.event = "agent.task_started" /\ e.info = "none"
  BY <1>1 DEF AgentTypeOK, Events, EventNames, Event, Outcomes, Failures, Decision, Status
<1>3. log' = log \/ log' = Append(log, e)
  BY DEF TaskStarted, Appending
<1> HIDE DEF e
<1>4. log' \in Seq(Events) /\ log \in Seq(Events)
  BY <1>1, <1>2, <1>3, Appended DEF AgentTypeOK
<1>5. AgentTypeOK'
  BY <1>1, <1>4
  DEF AgentTypeOK, TaskStarted, Appending, Requests, Steps, Outcomes, Failures, Answers, Status
<1>6. FinishClosesRun' /\ Explained'
  BY <1>1, <1>2, <1>3, RunStep DEF AgentTypeOK, Working, TaskStarted, Appending
<1>7. OfRun(r)'
  <2>1. tasks' = tasks /\ (HasRow(r)' <=> HasRow(r)) /\ (OneRow(r)' <=> OneRow(r))
    BY DEF TaskStarted, HasRow, OneRow
  <2>2. RunPhase(r)'
    BY <1>1, <1>2, <1>3, <1>4, <2>1, OwnRecords
    DEF AgentTypeOK, OfRun, RunPhase, Working, Steps, Status, isSuccessOutcome, TaskStarted, Appending
  <2> QED
    BY <1>1, <1>2, <1>3, <1>4, <2>1, <2>2, OwnRecords
    DEF AgentTypeOK, OfRun, RunPhase, Working, Steps, Status, isSuccessOutcome, TaskStarted, Appending
<1>8. ASSUME NEW q \in Runs, q # r PROVE OfRun(q)'
  <2>1. /\ pc'[q] = pc[q] /\ req'[q] = req[q] /\ verdict'[q] = verdict[q]
        /\ outcome'[q] = outcome[q] /\ answer'[q] = answer[q]
        /\ (q \in starting' <=> q \in starting) /\ (q \in ran' <=> q \in ran)
        /\ (q \in proposals' <=> q \in proposals)
        /\ \A t : t.run = q => (t \in tasks' <=> t \in tasks)
    BY <1>1, <1>8 DEF AgentTypeOK, TaskStarted, Appending
  <2> QED BY <1>1, <1>2, <1>3, <1>4, <1>8, <2>1, RecordsAfter, OtherRun
<1> QED BY <1>5, <1>6, <1>7, <1>8, ByRunPrime

\* The procedure reads.
LEMMA ReadRecordInv ==
  ASSUME AgentInv, NEW r \in Runs, ReadRecord(r)
  PROVE  AgentInv'
<1> DEFINE e == Event("agent.task_started", r, "none")
<1>1. /\ AgentTypeOK /\ FinishClosesRun /\ Explained
      /\ \A q \in Runs : OfRun(q)
  BY ByRun
<1>2. e \in Events /\ e.run = r /\ e.event = "agent.task_started" /\ e.info = "none"
  BY <1>1 DEF AgentTypeOK, Events, EventNames, Event, Outcomes, Failures, Decision, Status
<1>3. log' = log \/ log' = Append(log, e)
  BY DEF ReadRecord, Outcome, Goto
<1> HIDE DEF e
<1>4. log' \in Seq(Events) /\ log \in Seq(Events)
  BY <1>1, <1>2, <1>3, Appended DEF AgentTypeOK
<1>5. AgentTypeOK'
  BY <1>1, <1>4
  DEF AgentTypeOK, ReadRecord, Outcome, Goto, Requests, Steps, Outcomes, Failures, Answers, Status
<1>6. FinishClosesRun' /\ Explained'
  BY <1>1, <1>2, <1>3, RunStep DEF AgentTypeOK, Working, ReadRecord, Outcome, Goto
<1>7. OfRun(r)'
  <2>1. tasks' = tasks /\ (HasRow(r)' <=> HasRow(r)) /\ (OneRow(r)' <=> OneRow(r))
    BY DEF ReadRecord, HasRow, OneRow
  <2>2. /\ pc[r] = "read"
        /\ log' = log
        /\ req' = req /\ ran' = ran /\ verdict' = verdict /\ proposals' = proposals
        /\ starting' = starting
        /\ answer' = answer
        /\ \/ pc'[r] = "tool" /\ outcome'[r] = outcome[r]
           \/ pc'[r] = "finish" /\ outcome'[r] # "proposed"
    BY <1>1 DEF AgentTypeOK, ReadRecord, Outcome, Goto
  <2>4. RunPhase(r)'
    BY <1>1, <1>2, <1>3, <1>4, <2>1, <2>2, OwnRecords
    DEF OfRun, RunPhase, Working, Steps, Status, isSuccessOutcome
  <2> QED
    BY <1>1, <1>2, <1>3, <1>4, <2>1, <2>2, <2>4, OwnRecords
    DEF OfRun, RunPhase, Working, Steps, Status, isSuccessOutcome
<1>8. ASSUME NEW q \in Runs, q # r PROVE OfRun(q)'
  <2>1. /\ pc'[q] = pc[q] /\ req'[q] = req[q] /\ verdict'[q] = verdict[q]
        /\ outcome'[q] = outcome[q] /\ answer'[q] = answer[q]
        /\ (q \in starting' <=> q \in starting) /\ (q \in ran' <=> q \in ran)
        /\ (q \in proposals' <=> q \in proposals)
        /\ \A t : t.run = q => (t \in tasks' <=> t \in tasks)
    BY <1>1, <1>8 DEF AgentTypeOK, ReadRecord, Outcome, Goto
  <2> QED BY <1>1, <1>2, <1>3, <1>4, <1>8, <2>1, RecordsAfter, OtherRun
<1> QED BY <1>5, <1>6, <1>7, <1>8, ByRunPrime

\* The tool call is refused unaudited.
LEMMA RefuseToolInv ==
  ASSUME AgentInv, NEW r \in Runs, RefuseTool(r)
  PROVE  AgentInv'
<1> DEFINE e == Event("agent.task_started", r, "none")
<1>1. /\ AgentTypeOK /\ FinishClosesRun /\ Explained
      /\ \A q \in Runs : OfRun(q)
  BY ByRun
<1>2. e \in Events /\ e.run = r /\ e.event = "agent.task_started" /\ e.info = "none"
  BY <1>1 DEF AgentTypeOK, Events, EventNames, Event, Outcomes, Failures, Decision, Status
<1>3. log' = log \/ log' = Append(log, e)
  BY DEF RefuseTool, Outcome, Goto
<1> HIDE DEF e
<1>4. log' \in Seq(Events) /\ log \in Seq(Events)
  BY <1>1, <1>2, <1>3, Appended DEF AgentTypeOK
<1>5. AgentTypeOK'
  BY <1>1, <1>4
  DEF AgentTypeOK, RefuseTool, Outcome, Goto, Requests, Steps, Outcomes, Failures, Answers, Status
<1>6. FinishClosesRun' /\ Explained'
  BY <1>1, <1>2, <1>3, RunStep DEF AgentTypeOK, Working, RefuseTool, Outcome, Goto
<1>7. OfRun(r)'
  <2>1. tasks' = tasks /\ (HasRow(r)' <=> HasRow(r)) /\ (OneRow(r)' <=> OneRow(r))
    BY DEF RefuseTool, HasRow, OneRow
  <2>2. RunPhase(r)'
    BY <1>1, <1>2, <1>3, <1>4, <2>1, OwnRecords
    DEF AgentTypeOK, OfRun, RunPhase, Working, Steps, Status, isSuccessOutcome, RefuseTool, Outcome, Goto
  <2> QED
    BY <1>1, <1>2, <1>3, <1>4, <2>1, <2>2, OwnRecords
    DEF AgentTypeOK, OfRun, RunPhase, Working, Steps, Status, isSuccessOutcome, RefuseTool, Outcome, Goto
<1>8. ASSUME NEW q \in Runs, q # r PROVE OfRun(q)'
  <2>1. /\ pc'[q] = pc[q] /\ req'[q] = req[q] /\ verdict'[q] = verdict[q]
        /\ outcome'[q] = outcome[q] /\ answer'[q] = answer[q]
        /\ (q \in starting' <=> q \in starting) /\ (q \in ran' <=> q \in ran)
        /\ (q \in proposals' <=> q \in proposals)
        /\ \A t : t.run = q => (t \in tasks' <=> t \in tasks)
    BY <1>1, <1>8 DEF AgentTypeOK, RefuseTool, Outcome, Goto
  <2> QED BY <1>1, <1>2, <1>3, <1>4, <1>8, <2>1, RecordsAfter, OtherRun
<1> QED BY <1>5, <1>6, <1>7, <1>8, ByRunPrime

\* The tool runs.
LEMMA ExecuteInv ==
  ASSUME AgentInv, NEW r \in Runs, Execute(r)
  PROVE  AgentInv'
<1> DEFINE e == Event("agent.task_started", r, "none")
<1>1. /\ AgentTypeOK /\ FinishClosesRun /\ Explained
      /\ \A q \in Runs : OfRun(q)
  BY ByRun
<1>2. e \in Events /\ e.run = r /\ e.event = "agent.task_started" /\ e.info = "none"
  BY <1>1 DEF AgentTypeOK, Events, EventNames, Event, Outcomes, Failures, Decision, Status
<1>3. log' = log \/ log' = Append(log, e)
  BY DEF Execute, Goto
<1> HIDE DEF e
<1>4. log' \in Seq(Events) /\ log \in Seq(Events)
  BY <1>1, <1>2, <1>3, Appended DEF AgentTypeOK
<1>5. AgentTypeOK'
  BY <1>1, <1>4
  DEF AgentTypeOK, Execute, Goto, Requests, Steps, Outcomes, Failures, Answers, Status
<1>6. FinishClosesRun' /\ Explained'
  BY <1>1, <1>2, <1>3, RunStep DEF AgentTypeOK, Working, Execute, Goto
<1>7. OfRun(r)'
  <2>1. tasks' = tasks /\ (HasRow(r)' <=> HasRow(r)) /\ (OneRow(r)' <=> OneRow(r))
    BY DEF Execute, HasRow, OneRow
  <2>2. RunPhase(r)'
    BY <1>1, <1>2, <1>3, <1>4, <2>1, OwnRecords
    DEF AgentTypeOK, OfRun, RunPhase, Working, Steps, Status, isSuccessOutcome, Execute, Goto
  <2> QED
    BY <1>1, <1>2, <1>3, <1>4, <2>1, <2>2, OwnRecords
    DEF AgentTypeOK, OfRun, RunPhase, Working, Steps, Status, isSuccessOutcome, Execute, Goto
<1>8. ASSUME NEW q \in Runs, q # r PROVE OfRun(q)'
  <2>1. /\ pc'[q] = pc[q] /\ req'[q] = req[q] /\ verdict'[q] = verdict[q]
        /\ outcome'[q] = outcome[q] /\ answer'[q] = answer[q]
        /\ (q \in starting' <=> q \in starting) /\ (q \in ran' <=> q \in ran)
        /\ (q \in proposals' <=> q \in proposals)
        /\ \A t : t.run = q => (t \in tasks' <=> t \in tasks)
    BY <1>1, <1>8 DEF AgentTypeOK, Execute, Goto
  <2> QED BY <1>1, <1>2, <1>3, <1>4, <1>8, <2>1, RecordsAfter, OtherRun
<1> QED BY <1>5, <1>6, <1>7, <1>8, ByRunPrime

\* The tool may have run; the client throws.
LEMMA ExecuteThrowsInv ==
  ASSUME AgentInv, NEW r \in Runs, ExecuteThrows(r)
  PROVE  AgentInv'
<1> DEFINE e == Event("agent.task_started", r, "none")
<1>1. /\ AgentTypeOK /\ FinishClosesRun /\ Explained
      /\ \A q \in Runs : OfRun(q)
  BY ByRun
<1>2. e \in Events /\ e.run = r /\ e.event = "agent.task_started" /\ e.info = "none"
  BY <1>1 DEF AgentTypeOK, Events, EventNames, Event, Outcomes, Failures, Decision, Status
<1>3. log' = log \/ log' = Append(log, e)
  BY DEF ExecuteThrows, Outcome, Goto
<1> HIDE DEF e
<1>4. log' \in Seq(Events) /\ log \in Seq(Events)
  BY <1>1, <1>2, <1>3, Appended DEF AgentTypeOK
<1>5. AgentTypeOK'
  BY <1>1, <1>4
  DEF AgentTypeOK, ExecuteThrows, Outcome, Goto, Requests, Steps, Outcomes, Failures, Answers, Status
<1>6. FinishClosesRun' /\ Explained'
  BY <1>1, <1>2, <1>3, RunStep DEF AgentTypeOK, Working, ExecuteThrows, Outcome, Goto
<1>7. OfRun(r)'
  <2>1. tasks' = tasks /\ (HasRow(r)' <=> HasRow(r)) /\ (OneRow(r)' <=> OneRow(r))
    BY DEF ExecuteThrows, HasRow, OneRow
  <2>2. RunPhase(r)'
    BY <1>1, <1>2, <1>3, <1>4, <2>1, OwnRecords
    DEF AgentTypeOK, OfRun, RunPhase, Working, Steps, Status, isSuccessOutcome, ExecuteThrows, Outcome, Goto
  <2> QED
    BY <1>1, <1>2, <1>3, <1>4, <2>1, <2>2, OwnRecords
    DEF AgentTypeOK, OfRun, RunPhase, Working, Steps, Status, isSuccessOutcome, ExecuteThrows, Outcome, Goto
<1>8. ASSUME NEW q \in Runs, q # r PROVE OfRun(q)'
  <2>1. /\ pc'[q] = pc[q] /\ req'[q] = req[q] /\ verdict'[q] = verdict[q]
        /\ outcome'[q] = outcome[q] /\ answer'[q] = answer[q]
        /\ (q \in starting' <=> q \in starting) /\ (q \in ran' <=> q \in ran)
        /\ (q \in proposals' <=> q \in proposals)
        /\ \A t : t.run = q => (t \in tasks' <=> t \in tasks)
    BY <1>1, <1>8 DEF AgentTypeOK, ExecuteThrows, Outcome, Goto
  <2> QED BY <1>1, <1>2, <1>3, <1>4, <1>8, <2>1, RecordsAfter, OtherRun
<1> QED BY <1>5, <1>6, <1>7, <1>8, ByRunPrime

\* The result is appended or not.
LEMMA ToolResultInv ==
  ASSUME AgentInv, NEW r \in Runs, ToolResult(r)
  PROVE  AgentInv'
<1> DEFINE e == Event("agent.tool_result", r, Decision(verdict[r] # "failed"))
<1>1. /\ AgentTypeOK /\ FinishClosesRun /\ Explained
      /\ \A q \in Runs : OfRun(q)
  BY ByRun
<1>2. e \in Events /\ e.run = r /\ e.event = "agent.tool_result" /\ e.info = Decision(verdict[r] # "failed")
  BY <1>1 DEF AgentTypeOK, Events, EventNames, Event, Outcomes, Failures, Decision, Status
<1>3. log' = log \/ log' = Append(log, e)
  BY DEF ToolResult, Outcome, Goto, Recommends, Appending
<1> HIDE DEF e
<1>4. log' \in Seq(Events) /\ log \in Seq(Events)
  BY <1>1, <1>2, <1>3, Appended DEF AgentTypeOK
<1>5. AgentTypeOK'
  BY <1>1, <1>4
  DEF AgentTypeOK, ToolResult, Outcome, Goto, Recommends, Appending, Requests, Steps, Outcomes, Failures, Answers, Status
<1>6. FinishClosesRun' /\ Explained'
  BY <1>1, <1>2, <1>3, RunStep DEF AgentTypeOK, Working, ToolResult, Outcome, Goto, Recommends, Appending
<1>7. OfRun(r)'
  <2>1. tasks' = tasks /\ (HasRow(r)' <=> HasRow(r)) /\ (OneRow(r)' <=> OneRow(r))
    BY DEF ToolResult, HasRow, OneRow
  <2>2. /\ pc[r] = "result"
        /\ req' = req /\ ran' = ran /\ verdict' = verdict /\ proposals' = proposals
        /\ starting' = starting
        /\ answer' = answer
        /\ \/ pc'[r] = "propose" /\ outcome'[r] = outcome[r] /\ verdict[r] = "low"
           \/ pc'[r] = "finish" /\ outcome'[r] # "proposed"
    BY <1>1, <1>2, <1>3, <1>4, OwnRecords DEF AgentTypeOK, ToolResult, Outcome, Goto, Recommends, Appending
  <2>4. RunPhase(r)'
    BY <1>1, <1>2, <1>3, <1>4, <2>1, <2>2, OwnRecords
    DEF OfRun, RunPhase, Working, Steps, Status, isSuccessOutcome
  <2> QED
    BY <1>1, <1>2, <1>3, <1>4, <2>1, <2>2, <2>4, OwnRecords
    DEF OfRun, RunPhase, Working, Steps, Status, isSuccessOutcome
<1>8. ASSUME NEW q \in Runs, q # r PROVE OfRun(q)'
  <2>1. /\ pc'[q] = pc[q] /\ req'[q] = req[q] /\ verdict'[q] = verdict[q]
        /\ outcome'[q] = outcome[q] /\ answer'[q] = answer[q]
        /\ (q \in starting' <=> q \in starting) /\ (q \in ran' <=> q \in ran)
        /\ (q \in proposals' <=> q \in proposals)
        /\ \A t : t.run = q => (t \in tasks' <=> t \in tasks)
    BY <1>1, <1>8 DEF AgentTypeOK, ToolResult, Outcome, Goto, Recommends, Appending
  <2> QED BY <1>1, <1>2, <1>3, <1>4, <1>8, <2>1, RecordsAfter, OtherRun
<1> QED BY <1>5, <1>6, <1>7, <1>8, ByRunPrime

\* Row and record together.
LEMMA ProposeInv ==
  ASSUME AgentInv, NEW r \in Runs, Propose(r)
  PROVE  AgentInv'
<1> DEFINE e == Event("agent.transition_proposed", r, "none")
<1>1. /\ AgentTypeOK /\ FinishClosesRun /\ Explained
      /\ \A q \in Runs : OfRun(q)
  BY ByRun
<1>2. e \in Events /\ e.run = r /\ e.event = "agent.transition_proposed" /\ e.info = "none"
  BY <1>1 DEF AgentTypeOK, Events, EventNames, Event, Outcomes, Failures, Decision, Status
<1>3. log' = log \/ log' = Append(log, e)
  BY DEF Propose, Outcome, Goto
<1> HIDE DEF e
<1>4. log' \in Seq(Events) /\ log \in Seq(Events)
  BY <1>1, <1>2, <1>3, Appended DEF AgentTypeOK
<1>5. AgentTypeOK'
  BY <1>1, <1>4
  DEF AgentTypeOK, Propose, Outcome, Goto, Requests, Steps, Outcomes, Failures, Answers, Status
<1>6. FinishClosesRun' /\ Explained'
  BY <1>1, <1>2, <1>3, RunStep DEF AgentTypeOK, Working, Propose, Outcome, Goto
<1>7. OfRun(r)'
  <2>1. tasks' = tasks /\ (HasRow(r)' <=> HasRow(r)) /\ (OneRow(r)' <=> OneRow(r))
    BY DEF Propose, HasRow, OneRow
  <2>2. /\ pc[r] = "propose" /\ pc'[r] = "finish"
        /\ req' = req /\ ran' = ran /\ verdict' = verdict
        /\ starting' = starting
        /\ answer' = answer
        /\ \/ log' # log /\ proposals' = proposals \cup {r}
           \/ log' = log /\ proposals' = proposals /\ outcome'[r] # "proposed"
    BY <1>1, <1>2, <1>3, <1>4, OwnRecords DEF AgentTypeOK, Propose, Outcome, Goto
  <2>4. RunPhase(r)'
    BY <1>1, <1>2, <1>3, <1>4, <2>1, <2>2, OwnRecords
    DEF OfRun, RunPhase, Working, Steps, Status, isSuccessOutcome
  <2> QED
    BY <1>1, <1>2, <1>3, <1>4, <2>1, <2>2, <2>4, OwnRecords
    DEF OfRun, RunPhase, Working, Steps, Status, isSuccessOutcome
<1>8. ASSUME NEW q \in Runs, q # r PROVE OfRun(q)'
  <2>1. /\ pc'[q] = pc[q] /\ req'[q] = req[q] /\ verdict'[q] = verdict[q]
        /\ outcome'[q] = outcome[q] /\ answer'[q] = answer[q]
        /\ (q \in starting' <=> q \in starting) /\ (q \in ran' <=> q \in ran)
        /\ (q \in proposals' <=> q \in proposals)
        /\ \A t : t.run = q => (t \in tasks' <=> t \in tasks)
    BY <1>1, <1>8 DEF AgentTypeOK, Propose, Outcome, Goto
  <2> QED BY <1>1, <1>2, <1>3, <1>4, <1>8, <2>1, RecordsAfter, OtherRun
<1> QED BY <1>5, <1>6, <1>7, <1>8, ByRunPrime

\* The one task_finished.
LEMMA FinishInv ==
  ASSUME AgentInv, NEW r \in Runs, Finish(r)
  PROVE  AgentInv'
<1> DEFINE e == Event("agent.task_finished", r, outcome[r])
<1>1. /\ AgentTypeOK /\ FinishClosesRun /\ Explained
      /\ \A q \in Runs : OfRun(q)
  BY ByRun
<1>2. e \in Events /\ e.run = r /\ e.event = "agent.task_finished" /\ e.info = outcome[r]
  BY <1>1 DEF AgentTypeOK, Events, EventNames, Event, Outcomes, Failures, Decision, Status
<1>3. log' = log \/ log' = Append(log, e)
  BY DEF Finish, AfterFinish, Goto, Reply, Appending, isSuccessOutcome
<1> HIDE DEF e
<1>4. log' \in Seq(Events) /\ log \in Seq(Events)
  BY <1>1, <1>2, <1>3, Appended DEF AgentTypeOK
<1>5. AgentTypeOK'
  BY <1>1, <1>4
  DEF AgentTypeOK, Finish, AfterFinish, Goto, Reply, Appending, isSuccessOutcome, Requests, Steps, Outcomes, Failures, Answers, Status
<1>6. FinishClosesRun' /\ Explained'
  BY <1>1, <1>2, <1>3, RunStep DEF AgentTypeOK, Working, Finish, AfterFinish, Goto, Reply, Appending, isSuccessOutcome
<1>7. OfRun(r)'
  <2>1. tasks' = tasks /\ (HasRow(r)' <=> HasRow(r)) /\ (OneRow(r)' <=> OneRow(r))
    BY DEF Finish, HasRow, OneRow
  <2>2. /\ pc[r] = "finish"
        /\ req' = req /\ ran' = ran /\ verdict' = verdict /\ proposals' = proposals
        /\ starting' = starting
        /\ outcome' = outcome
        /\ \/ pc'[r] = "done" /\ answer'[r] = "internal"
           \/ pc'[r] = "store" /\ answer'[r] = answer[r] /\ log' # log /\ req[r].trigger = "a2a"
           \/ /\ pc'[r] = "done" /\ log' # log /\ req[r].trigger # "a2a"
              /\ \/ answer'[r] = "completed" /\ outcome[r] = "proposed"
                 \/ answer'[r] = "failed"
    BY <1>1, <1>2, <1>3, <1>4, OwnRecords DEF AgentTypeOK, Finish, AfterFinish, Goto, Reply, Appending, isSuccessOutcome, Status
  <2>3. OfRun(r) /\ RunPhase(r) /\ ~HasRow(r) /\ answer[r] = "none"
        /\ (outcome[r] = "proposed" => r \in proposals)
    BY <1>1, <2>2 DEF OfRun, RunPhase, Working, Steps
  <2>4. log' # log /\ outcome[r] = "proposed" => Logged("agent.task_finished", r, "proposed")'
    BY <1>2, <1>3, <1>4, OwnRecords
  <2>5. Logged("trigger", r, "allow")'
    BY <1>2, <1>3, <1>4, <2>2, <2>3, OwnRecords DEF RunPhase, Steps
  <2>6. RunPhase(r)'
    <3>1. CASE pc'[r] = "store"
      BY <2>1, <2>2, <2>3, <2>4, <2>5, <3>1 DEF RunPhase, Working, Steps
    <3>2. CASE pc'[r] = "done"
      BY <3>2 DEF RunPhase, Working, Steps
    <3> QED BY <2>2, <3>1, <3>2
  <2>7. ~([run |-> r, status |-> "completed"] \in tasks)
    BY <2>3 DEF HasRow
  <2>8. /\ LoggedAny("agent.transition_proposed", r)' <=> LoggedAny("agent.transition_proposed", r)
        /\ LoggedAny("agent.task_started", r)' <=> LoggedAny("agent.task_started", r)
        /\ Logged("agent.tool_call", r, "allow")' <=> Logged("agent.tool_call", r, "allow")
    BY <1>2, <1>3, <1>4, OwnRecords
  <2>9. answer'[r] = "completed" => outcome[r] = "proposed" /\ log' # log
    BY <2>2, <2>3
  <2>10. req[r].trigger = "a2a" => answer'[r] \notin {"completed", "failed"}
    BY <2>2, <2>3
  <2> QED
    BY <2>1, <2>2, <2>3, <2>4, <2>5, <2>6, <2>7, <2>8, <2>9, <2>10 DEF OfRun
<1>8. ASSUME NEW q \in Runs, q # r PROVE OfRun(q)'
  <2>1. /\ pc'[q] = pc[q] /\ req'[q] = req[q] /\ verdict'[q] = verdict[q]
        /\ outcome'[q] = outcome[q] /\ answer'[q] = answer[q]
        /\ (q \in starting' <=> q \in starting) /\ (q \in ran' <=> q \in ran)
        /\ (q \in proposals' <=> q \in proposals)
        /\ \A t : t.run = q => (t \in tasks' <=> t \in tasks)
    BY <1>1, <1>8 DEF AgentTypeOK, Finish, AfterFinish, Goto, Reply, Appending, isSuccessOutcome
  <2> QED BY <1>1, <1>2, <1>3, <1>4, <1>8, <2>1, RecordsAfter, OtherRun
<1> QED BY <1>5, <1>6, <1>7, <1>8, ByRunPrime

\* The A2A task row.
LEMMA StoreInv ==
  ASSUME AgentInv, NEW r \in Runs, Store(r)
  PROVE  AgentInv'
<1> DEFINE e == Event("agent.task_started", r, "none")
<1>1. /\ AgentTypeOK /\ FinishClosesRun /\ Explained
      /\ \A q \in Runs : OfRun(q)
  BY ByRun
<1>2. e \in Events /\ e.run = r /\ e.event = "agent.task_started" /\ e.info = "none"
  BY <1>1 DEF AgentTypeOK, Events, EventNames, Event, Outcomes, Failures, Decision, Status
<1>3. log' = log \/ log' = Append(log, e)
  BY DEF Store, Goto, Reply
<1> HIDE DEF e
<1>4. log' \in Seq(Events) /\ log \in Seq(Events)
  BY <1>1, <1>2, <1>3, Appended DEF AgentTypeOK
<1>5. AgentTypeOK'
  BY <1>1, <1>4
  DEF AgentTypeOK, Store, Goto, Reply, Requests, Steps, Outcomes, Failures, Answers, Status
<1>6. FinishClosesRun' /\ Explained'
  BY <1>1, <1>2, <1>3, RunStep DEF AgentTypeOK, Working, Store, Goto, Reply
<1>7. OfRun(r)'
  <2>1. /\ tasks' = tasks \/ tasks' = tasks \cup {[run |-> r, status |-> Status(r)]}
        /\ pc[r] = "store" /\ ~HasRow(r)
    BY <1>1 DEF Store, OfRun, RunPhase
  <2>3. OneRow(r)'
    BY <1>1, <2>1 DEF OneRow, HasRow, OfRun
  <2>2. /\ pc[r] = "store"
        /\ log' = log
        /\ req' = req /\ ran' = ran /\ verdict' = verdict /\ proposals' = proposals
        /\ starting' = starting
        /\ outcome' = outcome
        /\ \/ pc'[r] = "done" /\ answer'[r] = "internal"
           \/ /\ pc'[r] = "reply" /\ answer'[r] = answer[r]
              /\ tasks' = tasks \cup {[run |-> r, status |-> Status(r)]}
    BY <1>1 DEF AgentTypeOK, Store, Goto, Reply
  <2>4. RunPhase(r)'
    BY <1>1, <1>2, <1>3, <1>4, <2>1, <2>2, OwnRecords
    DEF OfRun, RunPhase, Working, Steps, Status, isSuccessOutcome
  <2> QED
    BY <1>1, <1>2, <1>3, <1>4, <2>1, <2>2, <2>3, <2>4, OwnRecords
    DEF OfRun, RunPhase, Working, Steps, Status, isSuccessOutcome
<1>8. ASSUME NEW q \in Runs, q # r PROVE OfRun(q)'
  <2>1. /\ pc'[q] = pc[q] /\ req'[q] = req[q] /\ verdict'[q] = verdict[q]
        /\ outcome'[q] = outcome[q] /\ answer'[q] = answer[q]
        /\ (q \in starting' <=> q \in starting) /\ (q \in ran' <=> q \in ran)
        /\ (q \in proposals' <=> q \in proposals)
        /\ \A t : t.run = q => (t \in tasks' <=> t \in tasks)
    BY <1>1, <1>8 DEF AgentTypeOK, Store, Goto, Reply
  <2> QED BY <1>1, <1>2, <1>3, <1>4, <1>8, <2>1, RecordsAfter, OtherRun
<1> QED BY <1>5, <1>6, <1>7, <1>8, ByRunPrime

\* The A2A answer.
LEMMA ReplyA2aInv ==
  ASSUME AgentInv, NEW r \in Runs, ReplyA2a(r)
  PROVE  AgentInv'
<1> DEFINE e == Event("a2a.result", r, Status(r))
<1>1. /\ AgentTypeOK /\ FinishClosesRun /\ Explained
      /\ \A q \in Runs : OfRun(q)
  BY ByRun
<1>2. e \in Events /\ e.run = r /\ e.event = "a2a.result" /\ e.info = Status(r)
  BY <1>1 DEF AgentTypeOK, Events, EventNames, Event, Outcomes, Failures, Decision, Status
<1>3. log' = log \/ log' = Append(log, e)
  BY DEF ReplyA2a, Reply, Appending
<1> HIDE DEF e
<1>4. log' \in Seq(Events) /\ log \in Seq(Events)
  BY <1>1, <1>2, <1>3, Appended DEF AgentTypeOK
<1>5. AgentTypeOK'
  BY <1>1, <1>4
  DEF AgentTypeOK, ReplyA2a, Reply, Appending, Requests, Steps, Outcomes, Failures, Answers, Status
<1>6. FinishClosesRun' /\ Explained'
  BY <1>1, <1>2, <1>3, RunStep DEF AgentTypeOK, Working, ReplyA2a, Reply, Appending
<1>7. OfRun(r)'
  <2>1. tasks' = tasks /\ (HasRow(r)' <=> HasRow(r)) /\ (OneRow(r)' <=> OneRow(r))
    BY DEF ReplyA2a, HasRow, OneRow
  <2>2. RunPhase(r)'
    BY <1>1, <1>2, <1>3, <1>4, <2>1, OwnRecords
    DEF AgentTypeOK, OfRun, RunPhase, Working, Steps, Status, isSuccessOutcome, ReplyA2a, Reply, Appending
  <2> QED
    BY <1>1, <1>2, <1>3, <1>4, <2>1, <2>2, OwnRecords
    DEF AgentTypeOK, OfRun, RunPhase, Working, Steps, Status, isSuccessOutcome, ReplyA2a, Reply, Appending
<1>8. ASSUME NEW q \in Runs, q # r PROVE OfRun(q)'
  <2>1. /\ pc'[q] = pc[q] /\ req'[q] = req[q] /\ verdict'[q] = verdict[q]
        /\ outcome'[q] = outcome[q] /\ answer'[q] = answer[q]
        /\ (q \in starting' <=> q \in starting) /\ (q \in ran' <=> q \in ran)
        /\ (q \in proposals' <=> q \in proposals)
        /\ \A t : t.run = q => (t \in tasks' <=> t \in tasks)
    BY <1>1, <1>8 DEF AgentTypeOK, ReplyA2a, Reply, Appending
  <2> QED BY <1>1, <1>2, <1>3, <1>4, <1>8, <2>1, RecordsAfter, OtherRun
<1> QED BY <1>5, <1>6, <1>7, <1>8, ByRunPrime

\* The decision on the trigger.
LEMMA DecideTriggerInv ==
  ASSUME AgentInv, NEW r \in Runs, DecideTrigger(r)
  PROVE  AgentInv'
<1>0. PICK allow \in BOOLEAN, returns \in BOOLEAN :
        /\ pc[r] = "decide"
        /\ Appending(Event("trigger", r, Decision(allow)), returns)
        /\ IF returns /\ allow THEN Goto(r, "context")
                               ELSE Reply(r, IF returns THEN "denied" ELSE "internal")
        /\ UNCHANGED <<req, starting, ran, verdict, outcome, proposals, tasks, crashes>>
  BY DEF DecideTrigger
<1> DEFINE e == Event("trigger", r, Decision(allow))
<1>1. /\ AgentTypeOK /\ FinishClosesRun /\ Explained
      /\ \A q \in Runs : OfRun(q)
  BY ByRun
<1>2. e \in Events /\ e.run = r /\ e.event = "trigger" /\ e.info = Decision(allow)
  BY <1>0, <1>1 DEF AgentTypeOK, Events, EventNames, Event, Outcomes, Failures, Decision, Status
<1>3. log' = log \/ log' = Append(log, e)
  BY <1>0 DEF Goto, Reply, Appending, Decision
<1> HIDE DEF e
<1>4. log' \in Seq(Events) /\ log \in Seq(Events)
  BY <1>1, <1>2, <1>3, Appended DEF AgentTypeOK
<1>5. AgentTypeOK'
  BY <1>0, <1>1, <1>4
  DEF AgentTypeOK, Goto, Reply, Appending, Decision, Requests, Steps, Outcomes, Failures, Answers, Status
<1>6. FinishClosesRun' /\ Explained'
  BY <1>0, <1>1, <1>2, <1>3, RunStep DEF AgentTypeOK, Working, Goto, Reply, Appending, Decision
<1>7. OfRun(r)'
  <2>1. tasks' = tasks /\ (HasRow(r)' <=> HasRow(r)) /\ (OneRow(r)' <=> OneRow(r))
    BY <1>0 DEF DecideTrigger, HasRow, OneRow
  <2>2. /\ pc[r] = "decide"
        /\ req' = req /\ ran' = ran /\ verdict' = verdict /\ proposals' = proposals
        /\ starting' = starting
        /\ outcome' = outcome
        /\ \/ pc'[r] = "done" /\ answer'[r] \in {"denied", "internal"}
           \/ pc'[r] = "context" /\ answer'[r] = answer[r] /\ log' # log /\ e.info = "allow"
    BY <1>0, <1>1, <1>2, <1>3, <1>4, OwnRecords DEF AgentTypeOK, Goto, Reply, Appending, Decision
  <2>4. RunPhase(r)'
    BY <1>1, <1>2, <1>3, <1>4, <2>1, <2>2, OwnRecords
    DEF OfRun, RunPhase, Working, Steps, Status, isSuccessOutcome
  <2> QED
    BY <1>1, <1>2, <1>3, <1>4, <2>1, <2>2, <2>4, OwnRecords
    DEF OfRun, RunPhase, Working, Steps, Status, isSuccessOutcome
<1>8. ASSUME NEW q \in Runs, q # r PROVE OfRun(q)'
  <2>1. /\ pc'[q] = pc[q] /\ req'[q] = req[q] /\ verdict'[q] = verdict[q]
        /\ outcome'[q] = outcome[q] /\ answer'[q] = answer[q]
        /\ (q \in starting' <=> q \in starting) /\ (q \in ran' <=> q \in ran)
        /\ (q \in proposals' <=> q \in proposals)
        /\ \A t : t.run = q => (t \in tasks' <=> t \in tasks)
    BY <1>0, <1>1, <1>8 DEF AgentTypeOK, Goto, Reply, Appending, Decision
  <2> QED BY <1>1, <1>2, <1>3, <1>4, <1>8, <2>1, RecordsAfter, OtherRun
<1> QED BY <1>5, <1>6, <1>7, <1>8, ByRunPrime

\* The decision on the tool call.
LEMMA DecideToolInv ==
  ASSUME AgentInv, NEW r \in Runs, DecideTool(r)
  PROVE  AgentInv'
<1>0. PICK allow \in BOOLEAN, returns \in BOOLEAN :
        /\ pc[r] = "tool"
        /\ Appending(Event("agent.tool_call", r, Decision(allow)), returns)
        /\ IF returns /\ allow THEN Goto(r, "execute") /\ UNCHANGED outcome
                               ELSE Outcome(r, "read_failed")
        /\ UNCHANGED <<req, starting, ran, verdict, proposals, tasks, crashes>>
  BY DEF DecideTool
<1> DEFINE e == Event("agent.tool_call", r, Decision(allow))
<1>1. /\ AgentTypeOK /\ FinishClosesRun /\ Explained
      /\ \A q \in Runs : OfRun(q)
  BY ByRun
<1>2. e \in Events /\ e.run = r /\ e.event = "agent.tool_call" /\ e.info = Decision(allow)
  BY <1>0, <1>1 DEF AgentTypeOK, Events, EventNames, Event, Outcomes, Failures, Decision, Status
<1>3. log' = log \/ log' = Append(log, e)
  BY <1>0 DEF Outcome, Goto, Appending, Decision
<1> HIDE DEF e
<1>4. log' \in Seq(Events) /\ log \in Seq(Events)
  BY <1>1, <1>2, <1>3, Appended DEF AgentTypeOK
<1>5. AgentTypeOK'
  BY <1>0, <1>1, <1>4
  DEF AgentTypeOK, Outcome, Goto, Appending, Decision, Requests, Steps, Outcomes, Failures, Answers, Status
<1>6. FinishClosesRun' /\ Explained'
  BY <1>0, <1>1, <1>2, <1>3, RunStep DEF AgentTypeOK, Working, Outcome, Goto, Appending, Decision
<1>7. OfRun(r)'
  <2>1. tasks' = tasks /\ (HasRow(r)' <=> HasRow(r)) /\ (OneRow(r)' <=> OneRow(r))
    BY <1>0 DEF DecideTool, HasRow, OneRow
  <2>2. /\ pc[r] = "tool"
        /\ req' = req /\ ran' = ran /\ verdict' = verdict /\ proposals' = proposals
        /\ starting' = starting
        /\ answer' = answer
        /\ \/ pc'[r] = "finish" /\ outcome'[r] # "proposed"
           \/ pc'[r] = "execute" /\ outcome'[r] = outcome[r] /\ log' # log /\ e.info = "allow"
    BY <1>0, <1>1, <1>2, <1>3, <1>4, OwnRecords DEF AgentTypeOK, Outcome, Goto, Appending, Decision
  <2>4. RunPhase(r)'
    BY <1>1, <1>2, <1>3, <1>4, <2>1, <2>2, OwnRecords
    DEF OfRun, RunPhase, Working, Steps, Status, isSuccessOutcome
  <2> QED
    BY <1>1, <1>2, <1>3, <1>4, <2>1, <2>2, <2>4, OwnRecords
    DEF OfRun, RunPhase, Working, Steps, Status, isSuccessOutcome
<1>8. ASSUME NEW q \in Runs, q # r PROVE OfRun(q)'
  <2>1. /\ pc'[q] = pc[q] /\ req'[q] = req[q] /\ verdict'[q] = verdict[q]
        /\ outcome'[q] = outcome[q] /\ answer'[q] = answer[q]
        /\ (q \in starting' <=> q \in starting) /\ (q \in ran' <=> q \in ran)
        /\ (q \in proposals' <=> q \in proposals)
        /\ \A t : t.run = q => (t \in tasks' <=> t \in tasks)
    BY <1>0, <1>1, <1>8 DEF AgentTypeOK, Outcome, Goto, Appending, Decision
  <2> QED BY <1>1, <1>2, <1>3, <1>4, <1>8, <2>1, RecordsAfter, OtherRun
<1> QED BY <1>5, <1>6, <1>7, <1>8, ByRunPrime

\* A request arrives: the run has done nothing yet.
LEMMA ArriveInv ==
  ASSUME AgentInv, NEW r \in Runs, NEW x \in Requests, Arrive(r, x)
  PROVE  AgentInv'
<1>1. /\ AgentTypeOK /\ FinishClosesRun /\ Explained
      /\ \A q \in Runs : OfRun(q)
  BY ByRun
<1>2. AgentTypeOK'
  BY <1>1 DEF AgentTypeOK, Arrive, Goto, Steps
<1>3. FinishClosesRun' /\ Explained' /\ Records' = Records /\ tasks' = tasks
  BY <1>1 DEF FinishClosesRun, Explained, Records, Arrive
<1>4. ASSUME NEW q \in Runs PROVE OfRun(q)'
  <2>1. /\ outcome' = outcome /\ answer' = answer /\ starting' = starting
        /\ ran' = ran /\ verdict' = verdict /\ proposals' = proposals
        /\ q = r => pc[q] = "idle" /\ pc'[q] = "decide" /\ answer[q] = "none"
        /\ q # r => pc'[q] = pc[q] /\ req'[q] = req[q]
    BY <1>1 DEF AgentTypeOK, Arrive, Goto, OfRun, RunPhase, Steps
  <2>2. /\ HasRow(q)' <=> HasRow(q)
        /\ OneRow(q)' <=> OneRow(q)
        /\ \A n, i : Logged(n, q, i)' <=> Logged(n, q, i)
        /\ \A n : LoggedAny(n, q)' <=> LoggedAny(n, q)
    BY <1>3 DEF HasRow, OneRow, Logged, LoggedAny
  <2>3. OfRun(q) BY <1>1
  <2>4. RunPhase(q)'
    BY <1>3, <2>1, <2>2, <2>3 DEF OfRun, RunPhase, Working, Steps, Status
  <2> QED BY <1>3, <2>1, <2>2, <2>3, <2>4 DEF OfRun
<1> QED BY <1>2, <1>3, <1>4, ByRunPrime

\* The process stops: what is committed stays as it is.
LEMMA CrashInv ==
  ASSUME AgentInv, Crash
  PROVE  AgentInv'
<1>1. /\ AgentTypeOK /\ FinishClosesRun /\ Explained
      /\ \A q \in Runs : OfRun(q)
  BY ByRun
<1>2. AgentTypeOK'
  BY <1>1, AgentAssumption DEF AgentTypeOK, Crash, Steps
<1>3. FinishClosesRun' /\ Explained' /\ Records' = Records /\ tasks' = tasks
  BY <1>1 DEF FinishClosesRun, Explained, Records, Crash
<1>4. ASSUME NEW q \in Runs PROVE OfRun(q)'
  <2>1. /\ outcome' = outcome /\ answer' = answer /\ starting' = {}
        /\ ran' = ran /\ verdict' = verdict /\ proposals' = proposals /\ req' = req
        /\ pc'[q] = IF pc[q] \in Steps THEN "dead" ELSE pc[q]
    BY <1>1 DEF AgentTypeOK, Crash
  <2>2. /\ HasRow(q)' <=> HasRow(q)
        /\ OneRow(q)' <=> OneRow(q)
        /\ \A n, i : Logged(n, q, i)' <=> Logged(n, q, i)
        /\ \A n : LoggedAny(n, q)' <=> LoggedAny(n, q)
    BY <1>3 DEF HasRow, OneRow, Logged, LoggedAny
  <2>3. OfRun(q) BY <1>1
  <2>4. RunPhase(q)'
    BY <1>3, <2>1, <2>2, <2>3 DEF OfRun, RunPhase, Working, Steps, Status
  <2> QED BY <1>3, <2>1, <2>2, <2>3, <2>4 DEF OfRun
<1> QED BY <1>2, <1>3, <1>4, ByRunPrime

\* Every step preserves the invariant.
LEMMA NextAgentInv == AgentInv /\ [Next]_vars => AgentInv'
<1> SUFFICES ASSUME AgentInv, [Next]_vars PROVE AgentInv'
  OBVIOUS
<1>1. CASE UNCHANGED vars
  <2>1. Records' = Records
    BY <1>1 DEF vars, Records
  <2> QED
    BY <1>1, <2>1 DEF vars, AgentInv, AgentTypeOK, RunPhase, AuditedBeforeEffect,
       ProposalExplained, FinishClosesRun, CompletedIsTrue, Logged, LoggedAny, HasRow, Status
<1>2. ASSUME NEW r \in Runs, NEW x \in Requests, Arrive(r, x) PROVE AgentInv'
  BY <1>2, ArriveInv
<1>3. ASSUME NEW r \in Runs, Proceed(r) PROVE AgentInv'
  BY <1>3, DecideTriggerInv, OpenAdminInv, OpenA2aInv, ReadRecordInv, RefuseToolInv,
     DecideToolInv, ExecuteInv, ExecuteThrowsInv, ToolResultInv, ProposeInv, FinishInv,
     StoreInv, ReplyA2aInv
  DEF Proceed
<1>4. ASSUME NEW r \in Runs, TaskStarted(r) PROVE AgentInv'
  BY <1>4, TaskStartedInv
<1>5. CASE Crash
  BY <1>5, CrashInv
<1> QED BY <1>1, <1>2, <1>3, <1>4, <1>5 DEF Next

\* Whatever appends, statements or processes fail, the step a run is at tells
\* which of its records and rows are committed (a2a.ts, admin-agents.ts,
\* agents/src/runtime.ts).
THEOREM AgentInvariant == Spec => []AgentInv
<1> QED BY InitAgentInv, NextAgentInv, PTL DEF Spec

\* No context without the trigger's audited allow, no tool in the sandbox without
\* the tool call's (authorize, handleSendMessage, callTool).
THEOREM AlwaysAuditedBeforeEffect == Spec => []AuditedBeforeEffect
<1>1. AgentInv => AuditedBeforeEffect BY DEF AgentInv
<1> QED BY <1>1, AgentInvariant, PTL

\* Proposals and their records are the same, one each, on an audited tool call and
\* a low-risk verdict of the same run (propose, vendorRiskReview).
THEOREM AlwaysProposalExplained == Spec => []ProposalExplained
<1>1. AgentInv => ProposalExplained BY DEF AgentInv
<1> QED BY <1>1, AgentInvariant, PTL

\* One task_finished record per run, and none of the run's work after it (finish
\* outside the try in both triggers).
THEOREM AlwaysFinishClosesRun == Spec => []FinishClosesRun
<1>1. AgentInv => FinishClosesRun BY DEF AgentInv
<1> QED BY <1>1, AgentInvariant, PTL

\* "completed", answered or stored, is never said of a run without its committed
\* proposal and finish record (handleSendMessage, the admin run route).
THEOREM AlwaysCompletedIsTrue == Spec => []CompletedIsTrue
<1>1. AgentInv => CompletedIsTrue BY DEF AgentInv
<1> QED BY <1>1, AgentInvariant, PTL
=============================================================================
