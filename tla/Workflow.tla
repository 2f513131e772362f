------------------------------ MODULE Workflow ------------------------------
(***************************************************************************)
(* Workflow transitions with n-eyes approvals (runtime/src/workflows.ts),  *)
(* executed by concurrent request handlers over one Postgres database, next*)
(* to the routes that create and edit records (runtime/src/entities.ts).   *)
(*                                                                         *)
(* The audit log is the abstract append-only log that AuditChain is shown  *)
(* to implement: an append outside a transaction is one step, an append    *)
(* inside the transition's transaction holds the chain lock from the       *)
(* append to COMMIT or ROLLBACK.                                           *)
(*                                                                         *)
(* The program counter of a handler names what executeTransition does next:*)
(*   "peek"     the unlocked read and the state check on it                *)
(*   "guard"    PDP decision on guard roles, its audit record, predicates  *)
(*   "approve"  PDP decision on approval roles and its audit record        *)
(*   "tx"       SELECT ... FOR UPDATE, state and predicates re-checked     *)
(*   "insert"   INSERT INTO workflow_approvals ... ON CONFLICT DO NOTHING  *)
(*   "count"    SELECT COUNT(DISTINCT approver_sub)                        *)
(*   "setstate" UPDATE the state, DELETE the approvals of the record       *)
(*   "append"   appendInTransaction                                        *)
(*   "commit"   COMMIT                                                     *)
(*   "flush"    the duplicate-approver event, after the rollback           *)
(***************************************************************************)
EXTENDS Naturals, Sequences, FiniteSets

CONSTANTS Handlers,     \* request handlers that can run at the same time
          MaxRequests,  \* bound: transition requests served in a run
          Records, Users, Fields,
          Workflows,    \* workflows of the entity, each with its state field
          States,
          Initial,      \* Initial[w]: state a new record starts in
          Transitions,
          WorkflowOf, From, To,   \* functions of the transition
          Gated,        \* transitions with an approval rule
          Required,     \* Required[t]: approval.count
          Passes,       \* Passes[t]: field values its predicates accept
          GuardAllows,  \* GuardAllows[t]: users the PDP allows by guard roles
          ApproveAllows,\* ApproveAllows[t]: users it allows by approval roles
          NoOne

ASSUME WorkflowAssumption ==
  /\ NoOne \notin Handlers
  /\ MaxRequests \in Nat
  /\ Initial \in [Workflows -> States]
  /\ WorkflowOf \in [Transitions -> Workflows]
  /\ From \in [Transitions -> States]
  /\ To \in [Transitions -> States]
  /\ Gated \subseteq Transitions
  /\ Required \in [Transitions -> Nat \ {0}]
  /\ Passes \in [Transitions -> SUBSET Fields]
  /\ GuardAllows \in [Transitions -> SUBSET Users]
  /\ ApproveAllows \in [Transitions -> SUBSET Users]

VARIABLES
  created,    \* records that exist
  state,      \* state[rec][w]: the state column of workflow w
  fields,     \* fields[rec]: the other columns, as far as guards see them
  approvals,  \* workflow_approvals: committed [rec, tr, sub] rows
  log,        \* committed audit records
  rowLock,    \* rowLock[rec]: handler whose transaction has the row locked
  chainLock,  \* handler whose transaction holds the audit-chain lock
  pc,
  req,        \* req[h]: the [rec, tr, sub] of the request being served
  peeked,     \* peeked[h]: the fields seen by the unlocked read
  inserted,   \* inserted[h]: the transaction has inserted its approval row
  removed,    \* removed[h]: rows the transaction's DELETE removed
  effect,     \* effect[h]: "none" | "recorded" | "flipped"
  served      \* transition requests so far

db == <<created, state, fields, approvals>>
txn == <<inserted, removed, effect>>
vars == <<created, state, fields, approvals, log, rowLock, chainLock, pc, req,
          peeked, inserted, removed, effect, served>>

Requests == [rec : Records, tr : Transitions, sub : Users]
None == [rec |-> NoOne, tr |-> NoOne, sub |-> NoOne]

\* One audit record; policy decisions say what was asked and the answer.
EventNames == {"guard.decision", "approval.decision", "workflow.transition",
               "workflow.approval_recorded", "workflow.duplicate_approver"}

\* A refused write of a state field: of a record (PUT) or of none yet (POST).
StateWrites == [rec : Records \cup {NoOne}]

Events == [event : EventNames, req : Requests, decision : {"allow", "deny"}]
            \cup [event : {"workflow.state_write_rejected"}, req : StateWrites,
                  decision : {"deny"}]

Event(name, r, d) == [event |-> name, req |-> r, decision |-> d]

-----------------------------------------------------------------------------
Init == /\ created = {}
        /\ state = [rec \in Records |-> Initial]
        /\ fields \in [Records -> Fields]
        /\ approvals = {}
        /\ log = <<>>
        /\ rowLock = [rec \in Records |-> NoOne]
        /\ chainLock = NoOne
        /\ pc = [h \in Handlers |-> "idle"]
        /\ req = [h \in Handlers |-> None]
        /\ peeked = [h \in Handlers |-> NoOne]
        /\ inserted = [h \in Handlers |-> FALSE]
        /\ removed = [h \in Handlers |-> {}]
        /\ effect = [h \in Handlers |-> "none"]
        /\ served = 0

\* POST /api/<entity>: state columns are set by the server.
CreateRecord(rec) ==
  /\ rec \notin created
  /\ created' = created \cup {rec}
  /\ state' = [state EXCEPT ![rec] = Initial]
  /\ UNCHANGED <<fields, approvals, log, rowLock, chainLock, pc, req, peeked,
                 txn, served>>

\* PUT /api/<entity>/:id: one UPDATE of the other columns, which waits for the
\* row lock.
UpdateRecord(rec, f) ==
  /\ rec \in created
  /\ rowLock[rec] = NoOne
  /\ fields' = [fields EXCEPT ![rec] = f]
  /\ UNCHANGED <<created, state, approvals, log, rowLock, chainLock, pc, req,
                 peeked, txn, served>>

\* POST or PUT of a body that names a state field (validateBodyAudited): the
\* refusal is appended and nothing is written.
RejectStateWrite(w) ==
  /\ served < MaxRequests
  /\ served' = served + 1
  /\ chainLock = NoOne
  /\ log' = Append(log, Event("workflow.state_write_rejected", w, "deny"))
  /\ UNCHANGED <<db, rowLock, chainLock, pc, req, peeked, txn>>

\* The handler is done with the request, whatever it answers.
Reply(h) == /\ pc' = [pc EXCEPT ![h] = "idle"]
            /\ req' = [req EXCEPT ![h] = None]
            /\ peeked' = [peeked EXCEPT ![h] = NoOne]

Arrive(h, r) ==
  /\ pc[h] = "idle"
  /\ served < MaxRequests
  /\ served' = served + 1
  /\ req' = [req EXCEPT ![h] = r]
  /\ pc' = [pc EXCEPT ![h] = "peek"]
  /\ UNCHANGED <<db, log, rowLock, chainLock, peeked, txn>>

InFromState(r) == state[r.rec][WorkflowOf[r.tr]] = From[r.tr]

\* Unlocked read: ERR_NOT_FOUND, ERR_BAD_STATE, or on to the role decision.
Peek(h) ==
  /\ pc[h] = "peek"
  /\ IF req[h].rec \in created /\ InFromState(req[h])
     THEN /\ peeked' = [peeked EXCEPT ![h] = fields[req[h].rec]]
          /\ pc' = [pc EXCEPT ![h] = "guard"]
          /\ UNCHANGED req
     ELSE Reply(h)
  /\ UNCHANGED <<db, log, rowLock, chainLock, txn, served>>

\* Mutant: only denials are audited.
Audited_DenyOnly(h, name, d) ==
  /\ log' = IF d = "deny" THEN Append(log, Event(name, req[h], d)) ELSE log
  /\ UNCHANGED chainLock

\* decide(): the verdict is appended, allow or deny, before it is acted on.
Audited(h, name, d) == /\ chainLock = NoOne
                       /\ log' = Append(log, Event(name, req[h], d))
                       /\ UNCHANGED chainLock

\* Guard roles, then the guard predicates on the row that was peeked at.
DecideGuard(h) ==
  LET r == req[h]
      allow == r.sub \in GuardAllows[r.tr] IN
  /\ pc[h] = "guard"
  /\ Audited(h, "guard.decision", IF allow THEN "allow" ELSE "deny")
  /\ IF allow /\ peeked[h] \in Passes[r.tr]
     THEN /\ pc' = [pc EXCEPT ![h] = IF r.tr \in Gated THEN "approve" ELSE "tx"]
          /\ peeked' = [peeked EXCEPT ![h] = NoOne]
          /\ UNCHANGED req
     ELSE Reply(h)
  /\ UNCHANGED <<db, rowLock, txn, served>>

DecideApproval(h) ==
  LET r == req[h]
      allow == r.sub \in ApproveAllows[r.tr] IN
  /\ pc[h] = "approve"
  /\ Audited(h, "approval.decision", IF allow THEN "allow" ELSE "deny")
  /\ IF allow THEN pc' = [pc EXCEPT ![h] = "tx"] /\ UNCHANGED <<req, peeked>>
              ELSE Reply(h)
  /\ UNCHANGED <<db, rowLock, txn, served>>

\* The append of a decision or of the duplicate event fails, before its COMMIT
\* or only for the caller: 500, fail closed.
AuditFails(h) ==
  /\ pc[h] \in {"guard", "approve", "flush"}
  /\ Reply(h)
  /\ UNCHANGED <<db, log, rowLock, chainLock, txn, served>>

AuditAnswerLost(h) ==
  /\ \/ /\ pc[h] = "guard"
        /\ Audited(h, "guard.decision",
                   IF req[h].sub \in GuardAllows[req[h].tr] THEN "allow" ELSE "deny")
     \/ /\ pc[h] = "approve"
        /\ Audited(h, "approval.decision",
                   IF req[h].sub \in ApproveAllows[req[h].tr] THEN "allow" ELSE "deny")
  /\ Reply(h)
  /\ UNCHANGED <<db, rowLock, txn, served>>

\* Mutant: a chain lock that outlives its transaction.
EndTransaction_KeepsChainLock(h) ==
  /\ rowLock' = [rec \in Records |-> IF rowLock[rec] = h THEN NoOne
                                                         ELSE rowLock[rec]]
  /\ inserted' = [inserted EXCEPT ![h] = FALSE]
  /\ removed' = [removed EXCEPT ![h] = {}]
  /\ effect' = [effect EXCEPT ![h] = "none"]
  /\ UNCHANGED chainLock

\* The transaction is over: its locks are released, its buffers forgotten.
EndTransaction(h) ==
  /\ rowLock' = [rec \in Records |-> IF rowLock[rec] = h THEN NoOne
                                                         ELSE rowLock[rec]]
  /\ chainLock' = IF chainLock = h THEN NoOne ELSE chainLock
  /\ inserted' = [inserted EXCEPT ![h] = FALSE]
  /\ removed' = [removed EXCEPT ![h] = {}]
  /\ effect' = [effect EXCEPT ![h] = "none"]

\* FOR UPDATE waits until no transaction has the row locked.
RowFree(rec) == rowLock[rec] = NoOne

\* Mutants: the peek is trusted for the state; for the predicates.
Recheck_NoState(r) == fields[r.rec] \in Passes[r.tr]
Recheck_NoPredicates(r) == InFromState(r)

\* State and predicates, re-checked on the locked row.
Recheck(r) == InFromState(r) /\ fields[r.rec] \in Passes[r.tr]

\* BEGIN; SELECT ... FOR UPDATE; the authoritative checks on the locked row.
LockRow(h) ==
  LET r == req[h] IN
  /\ pc[h] = "tx"
  /\ RowFree(r.rec)
  /\ IF Recheck(r)
     THEN /\ rowLock' = [rowLock EXCEPT ![r.rec] = h]
          /\ pc' = [pc EXCEPT ![h] = IF r.tr \in Gated THEN "insert" ELSE "setstate"]
          /\ UNCHANGED <<req, peeked>>
     ELSE Reply(h) /\ UNCHANGED rowLock
  /\ UNCHANGED <<db, log, chainLock, txn, served>>

\* A conflict with a row of the same approver: the transaction rolls back and
\* the rejection is still to be audited.
InsertApproval(h) ==
  /\ pc[h] = "insert"
  /\ IF req[h] \in approvals
     THEN /\ EndTransaction(h)
          /\ pc' = [pc EXCEPT ![h] = "flush"]
     ELSE /\ inserted' = [inserted EXCEPT ![h] = TRUE]
          /\ pc' = [pc EXCEPT ![h] = "count"]
          /\ UNCHANGED <<rowLock, chainLock, removed, effect>>
  /\ UNCHANGED <<db, log, req, peeked, served>>

FlushDuplicate(h) ==
  /\ pc[h] = "flush"
  /\ Audited(h, "workflow.duplicate_approver", "deny")
  /\ Reply(h)
  /\ UNCHANGED <<db, rowLock, txn, served>>

\* Approvers of a transition of a record, as a statement of h's transaction
\* sees them: the committed rows and its own.
Approvers(rec, t) == {a.sub : a \in {b \in approvals : b.rec = rec /\ b.tr = t}}

SeenBy(h) == Approvers(req[h].rec, req[h].tr)
               \cup (IF inserted[h] THEN {req[h].sub} ELSE {})

\* Mutant: off by one.
Reached_OneTooMany(h) == Cardinality(SeenBy(h)) > Required[req[h].tr]

Reached(h) == Cardinality(SeenBy(h)) >= Required[req[h].tr]

CountApprovals(h) ==
  /\ pc[h] = "count"
  /\ IF Reached(h)
     THEN pc' = [pc EXCEPT ![h] = "setstate"] /\ UNCHANGED effect
     ELSE /\ pc' = [pc EXCEPT ![h] = "append"]
          /\ effect' = [effect EXCEPT ![h] = "recorded"]
  /\ UNCHANGED <<db, log, rowLock, chainLock, req, peeked, inserted, removed, served>>

\* Mutant: approvals outlive the state they were gathered for.
EndedRound_Kept(r) == {}

\* Mutant: only approvals of the transition itself go.
EndedRound_Own(r) == {a \in approvals : a.rec = r.rec /\ a.tr = r.tr}

\* The approvals a state change by r makes stale.
EndedRound(r) == {a \in approvals : a.rec = r.rec}

\* setState: UPDATE the state column, DELETE every approval of the record.
SetState(h) ==
  /\ pc[h] = "setstate"
  /\ effect' = [effect EXCEPT ![h] = "flipped"]
  /\ removed' = [removed EXCEPT ![h] = EndedRound(req[h])]
  /\ inserted' = [inserted EXCEPT ![h] = FALSE]
  /\ pc' = [pc EXCEPT ![h] = "append"]
  /\ UNCHANGED <<db, log, rowLock, chainLock, req, peeked, served>>

\* appendInTransaction: waits for the chain lock and keeps it.
AppendInTransaction(h) ==
  /\ pc[h] = "append"
  /\ chainLock = NoOne
  /\ chainLock' = h
  /\ pc' = [pc EXCEPT ![h] = "commit"]
  /\ UNCHANGED <<db, log, rowLock, req, peeked, txn, served>>

\* COMMIT: the state or the approval, and the audit record of it, together.
Commit(h) ==
  LET r == req[h] IN
  /\ pc[h] = "commit"
  /\ IF effect[h] = "flipped"
     THEN /\ state' = [state EXCEPT ![r.rec][WorkflowOf[r.tr]] = To[r.tr]]
          /\ log' = Append(log, Event("workflow.transition", r, "allow"))
     ELSE /\ log' = Append(log, Event("workflow.approval_recorded", r, "allow"))
          /\ UNCHANGED state
  /\ approvals' = (approvals \ removed[h])
                    \cup (IF inserted[h] THEN {r} ELSE {})
  /\ EndTransaction(h)
  /\ Reply(h)
  /\ UNCHANGED <<created, fields, served>>

\* A statement fails, or the connection or the process is lost, before the
\* COMMIT took effect: Postgres rolls the transaction back.
Rollback(h) ==
  /\ pc[h] \in {"insert", "count", "setstate", "append", "commit"}
  /\ EndTransaction(h)
  /\ Reply(h)
  /\ UNCHANGED <<db, log, served>>

\* The steps a handler takes when nothing fails.
Proceed(h) == \/ Peek(h) \/ DecideGuard(h) \/ DecideApproval(h) \/ LockRow(h)
              \/ InsertApproval(h) \/ FlushDuplicate(h) \/ CountApprovals(h)
              \/ SetState(h) \/ AppendInTransaction(h) \/ Commit(h)

Next == \/ \E rec \in Records : CreateRecord(rec)
        \/ \E rec \in Records, f \in Fields : UpdateRecord(rec, f)
        \/ \E w \in StateWrites : RejectStateWrite(w)
        \/ \E h \in Handlers, r \in Requests : Arrive(h, r)
        \/ \E h \in Handlers : Proceed(h) \/ AuditFails(h) \/ AuditAnswerLost(h) \/ Rollback(h)

\* The event loop runs every handler and Postgres grants its locks in turn: a
\* handler whose lock is free again and again gets it.
Fairness == \A h \in Handlers : SF_vars(Proceed(h))

Spec == Init /\ [][Next]_vars /\ Fairness

-----------------------------------------------------------------------------
InTx == {"insert", "count", "setstate", "append", "commit"}

\* Every variable keeps its type.
TypeOK ==
  /\ created \subseteq Records
  /\ state \in [Records -> [Workflows -> States]]
  /\ fields \in [Records -> Fields]
  /\ approvals \subseteq Requests
  /\ log \in Seq(Events)
  /\ rowLock \in [Records -> Handlers \cup {NoOne}]
  /\ chainLock \in Handlers \cup {NoOne}
  /\ pc \in [Handlers -> {"idle", "peek", "guard", "approve", "tx", "flush"} \cup InTx]
  /\ req \in [Handlers -> Requests \cup {None}]
  /\ peeked \in [Handlers -> Fields \cup {NoOne}]
  /\ inserted \in [Handlers -> BOOLEAN]
  /\ removed \in [Handlers -> SUBSET Requests]
  /\ effect \in [Handlers -> {"none", "recorded", "flipped"}]
  /\ served \in 0..MaxRequests

\* The comment in setState: pending approvals only exist for transitions out
\* of the state the record is in now.  A stale one would let fewer fresh
\* approvers complete an n-eyes transition after a revision loop.
ApprovalsMatchState == \A a \in approvals : a.rec \in created /\ InFromState(a)

\* No lost flip: committed approvals never reach the required number without
\* the state having changed with the last of them (two final approvals that
\* each count only themselves would leave the record stuck there).
PendingBelowThreshold ==
  \A rec \in Records, t \in Gated :
     Cardinality(Approvers(rec, t)) < Required[t]

\* The effects on a record in log order.
IsTransition(i, rec) == /\ log[i].event = "workflow.transition"
                        /\ log[i].req.rec = rec

Changed(rec, w) == {i \in 1..Len(log) : /\ IsTransition(i, rec)
                                        /\ WorkflowOf[log[i].req.tr] = w}

\* Users whose approval of t was recorded before position i of the log and
\* after the last transition of the record before i.
ApprovedBefore(i, rec, t) ==
  {log[j].req.sub :
     j \in {k \in 1..(i - 1) :
              /\ log[k].event = "workflow.approval_recorded"
              /\ log[k].req.rec = rec /\ log[k].req.tr = t
              /\ \A m \in (k + 1)..(i - 1) : ~IsTransition(m, rec)}}

\* n-eyes, read off the audit log alone: a gated transition by u has, since
\* the last transition of the record, approvals recorded from so many other
\* users that with u they are the required number.
NEyes ==
  \A i \in 1..Len(log) :
    LET r == log[i].req IN
    (log[i].event = "workflow.transition" /\ r.tr \in Gated)
      => Cardinality(ApprovedBefore(i, r.rec, r.tr) \cup {r.sub}) >= Required[r.tr]

\* The state the records before position n of the log leave workflow w in.
ChangedBefore(n, rec, w) == {i \in Changed(rec, w) : i < n}

StateAt(n, rec, w) ==
  LET before == ChangedBefore(n, rec, w)
  IN IF before = {} THEN Initial[w]
     ELSE To[log[CHOOSE i \in before : \A j \in before : j <= i].req.tr]

\* The log and the data never disagree: replaying the workflow.transition
\* records gives the state column, each of them leaving the state the one
\* before it entered (no transition without its record, no record of a
\* transition that was rolled back).
StateMatchesLog ==
  \A rec \in Records, w \in Workflows :
    /\ state[rec][w] = StateAt(Len(log) + 1, rec, w)
    /\ \A i \in Changed(rec, w) : From[log[i].req.tr] = StateAt(i, rec, w)

\* Up to position n of the log, the decisions that allowed r, or its effects.
AllowedUpTo(n, r, names) == {i \in 1..n : /\ log[i].event \in names
                                          /\ log[i].req = r
                                          /\ log[i].decision = "allow"}

Effects == {"workflow.transition", "workflow.approval_recorded"}

\* "cause always precedes effect in the chain": at every point of the log a
\* user has at least as many allow decisions for a transition of a record as
\* effects of it.
DecisionPrecedesEffect ==
  \A n \in 1..Len(log) :
    LET r == log[n].req
        effects == AllowedUpTo(n, r, Effects)
    IN /\ Cardinality(effects) <= Cardinality(AllowedUpTo(n, r, {"guard.decision"}))
       /\ effects # {} /\ r.tr \in Gated
            => Cardinality(effects) <= Cardinality(AllowedUpTo(n, r, {"approval.decision"}))

\* The predicates hold of the record at the moment its state changes, even if
\* an edit raced with the approvals or with the unlocked check.
GuardHoldsAtFlip ==
  [][\A rec \in created : state'[rec] # state[rec]
        => LET r == log'[Len(log')].req
           IN r.rec = rec /\ fields[rec] \in Passes[r.tr]]_vars

\* The comment in setState, read the other way: an approval is discarded only
\* by a change of the state it was gathered for.
ApprovalKeptWhileStateKept ==
  [][\A a \in approvals \ approvals' :
        state'[a.rec][WorkflowOf[a.tr]] # state[a.rec][WorkflowOf[a.tr]]]_vars

-----------------------------------------------------------------------------
(* Why it works: what every step of every handler preserves.               *)

\* A transaction has its record locked, and no other.
RowLocked(h) == /\ pc[h] \in InTx => rowLock[req[h].rec] = h
                /\ \A rec \in Records :
                      rowLock[rec] = h => pc[h] \in InTx /\ req[h].rec = rec

\* What was checked of a record stays true until the transaction ends.
ChecksHold(h) ==
  /\ pc[h] # "idle" => req[h] \in Requests
  /\ pc[h] \notin {"idle", "peek"} => req[h].rec \in created
  /\ pc[h] \in InTx => /\ InFromState(req[h])
                       /\ fields[req[h].rec] \in Passes[req[h].tr]

\* With its own approval the request reaches the required number.
Enough(r) == Cardinality(Approvers(r.rec, r.tr) \cup {r.sub}) >= Required[r.tr]

\* What the transaction of h has counted and buffered still agrees with the
\* database when it commits.
BufferFresh(h) ==
  LET r == req[h] IN
  /\ pc[h] \notin InTx \/ pc[h] = "insert" => ~inserted[h] /\ removed[h] = {}
  /\ pc[h] = "insert" => r.tr \in Gated
  /\ pc[h] = "count" => r.tr \in Gated /\ inserted[h] /\ removed[h] = {}
  /\ pc[h] = "setstate" => (r.tr \in Gated => Enough(r))
  /\ pc[h] \in {"append", "commit"} =>
       \/ /\ effect[h] = "recorded" /\ r.tr \in Gated /\ ~Enough(r)
          /\ inserted[h] /\ removed[h] = {}
       \/ /\ effect[h] = "flipped" /\ (r.tr \in Gated => Enough(r))
          /\ ~inserted[h] /\ removed[h] = EndedRound(r)

\* A pending approval has its record in the log, after the last transition.
ApprovalsInLog ==
  \A a \in approvals : \E j \in 1..Len(log) :
     /\ log[j].event = "workflow.approval_recorded" /\ log[j].req = a
     /\ \A k \in (j + 1)..Len(log) : ~IsTransition(k, a.rec)

\* The inductive invariant: the row lock keeps everything a transaction read
\* of its record true until COMMIT.
WorkflowInv ==
  /\ TypeOK
  /\ \A h \in Handlers : RowLocked(h) /\ ChecksHold(h) /\ BufferFresh(h)
  /\ ApprovalsMatchState /\ PendingBelowThreshold /\ ApprovalsInLog /\ NEyes

\* Replaying the log gives the state, of a record not yet created too.
ReplayInv ==
  /\ StateMatchesLog
  /\ \A rec \in Records \ created, w \in Workflows : Changed(rec, w) = {}

\* Handlers that act on an allow decision for r, by guard or by approval roles,
\* and have not committed yet.
PastGuard(r) == {h \in Handlers : req[h] = r /\ pc[h] \in {"approve", "tx"} \cup InTx}
PastApproval(r) == {h \in Handlers : req[h] = r /\ pc[h] \in {"tx"} \cup InTx}

\* Every decision is used once: the effects of a request and the handlers that
\* may still bring one about are together no more than the decisions.
CauseInv ==
  LET n == Len(log) IN
  \A r \in Requests :
    /\ IsFiniteSet(PastGuard(r))
    /\ Cardinality(AllowedUpTo(n, r, Effects)) + Cardinality(PastGuard(r))
          <= Cardinality(AllowedUpTo(n, r, {"guard.decision"}))
    /\ r.tr \in Gated =>
         Cardinality(AllowedUpTo(n, r, Effects)) + Cardinality(PastApproval(r))
            <= Cardinality(AllowedUpTo(n, r, {"approval.decision"}))

\* The policy allowed the user of a request that has got so far.
Entitled(h) ==
  LET r == req[h] IN
  /\ pc[h] \in {"approve", "tx", "flush"} \cup InTx => r.sub \in GuardAllows[r.tr]
  /\ pc[h] \in {"tx", "flush"} \cup InTx /\ r.tr \in Gated => r.sub \in ApproveAllows[r.tr]

-----------------------------------------------------------------------------
(* Why handlers never wait for each other in a circle.                     *)

\* The next statement of h waits for a lock of g: on its row, or on the chain.
WaitsFor(h, g) ==
  \/ pc[h] = "tx" /\ rowLock[req[h].rec] = g
  \/ pc[h] \in {"guard", "approve", "flush", "append"} /\ chainLock = g

\* The chain lock is held from the append inside a transaction to its end.
ChainLocked(h) == chainLock = h <=> pc[h] = "commit"

\* A row may be waited for while its holder waits for the chain, whose holder
\* waits for nobody: no chain of waits is longer, so none is a circle.
WaitsAreShort == \A h, g, k, m \in Handlers :
                   ~(WaitsFor(h, g) /\ WaitsFor(g, k) /\ WaitsFor(k, m))

-----------------------------------------------------------------------------
(* Handlers, locks and failures implement the rules of the records.        *)

Rules == INSTANCE RecordRules

\* However handlers interleave, wait for each other and fail, what is committed
\* of the records changes as if every request had been served alone, at the
\* moment of its COMMIT, or not at all (executeTransition, setState).
ImplementsRecordRules == Rules!Spec

-----------------------------------------------------------------------------
\* Every request is answered: the row locks and the chain lock are taken in
\* one order and always released.
RequestAnswered == \A h \in Handlers : pc[h] = "peek" ~> pc[h] = "idle"
=============================================================================
