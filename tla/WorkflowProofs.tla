--------------------------- MODULE WorkflowProofs ---------------------------
(* Proofs about workflow transitions, for any workflows, numbers of        *)
(* approvers, records, users and concurrent handlers.                      *)
EXTENDS Workflow, FiniteSetTheorems, WellFoundedInduction, TLAPS

-----------------------------------------------------------------------------
(* The log.                                                                *)

\* Appending to the log leaves its positions as they were.
LEMMA AppendFacts ==
  ASSUME log \in Seq(Events), NEW e \in Events, log' = Append(log, e)
  PROVE  /\ log' \in Seq(Events)
         /\ Len(log) \in Nat /\ Len(log') = Len(log) + 1
         /\ \A i \in 1..Len(log) : log'[i] = log[i]
         /\ log'[Len(log) + 1] = e
OBVIOUS

\* What was approved before a position depends only on what is before it.
LEMMA ApprovedBeforeKept ==
  ASSUME log \in Seq(Events), NEW e \in Events, log' = Append(log, e),
         NEW i \in 1..(Len(log) + 1), NEW rec, NEW t
  PROVE  ApprovedBefore(i, rec, t)' = ApprovedBefore(i, rec, t)
<1>1. Len(log) \in Nat /\ \A k \in 1..(i - 1) : k \in 1..Len(log) /\ log'[k] = log[k]
  BY AppendFacts
<1>2. \A k \in 1..(i - 1) : \A m \in (k + 1)..(i - 1) : m \in 1..(i - 1)
  BY <1>1
<1>3. \A m \in 1..(i - 1) : IsTransition(m, rec)' <=> IsTransition(m, rec)
  BY <1>1 DEF IsTransition
<1>4. {k \in 1..(i - 1) :
         /\ log[k].event = "workflow.approval_recorded"
         /\ log[k].req.rec = rec /\ log[k].req.tr = t
         /\ \A m \in (k + 1)..(i - 1) : ~IsTransition(m, rec)}'
      = {k \in 1..(i - 1) :
         /\ log[k].event = "workflow.approval_recorded"
         /\ log[k].req.rec = rec /\ log[k].req.tr = t
         /\ \A m \in (k + 1)..(i - 1) : ~IsTransition(m, rec)}
  BY <1>1, <1>2, <1>3
<1> QED
  BY <1>1, <1>4 DEF ApprovedBefore

\* What the log says of approvals does not change while the log does not.
LEMMA NEyesFrame ==
  ASSUME NEyes, log' = log
  PROVE  NEyes'
<1>1. \A i, rec : IsTransition(i, rec)' <=> IsTransition(i, rec)
  BY DEF IsTransition
<1>2. \A i, rec, t : ApprovedBefore(i, rec, t)' = ApprovedBefore(i, rec, t)
  BY <1>1 DEF ApprovedBefore
<1> QED
  BY <1>2 DEF NEyes

\* n-eyes survives an append that is no gated transition, or one with enough
\* approvals behind it.
LEMMA NEyesKept ==
  ASSUME log \in Seq(Events), NEyes, NEW e \in Events,
         log' = log \/ log' = Append(log, e),
         log' # log => (e.event = "workflow.transition" /\ e.req.tr \in Gated
            => Cardinality(ApprovedBefore(Len(log) + 1, e.req.rec, e.req.tr)
                             \cup {e.req.sub}) >= Required[e.req.tr])
  PROVE  NEyes'
<1>1. CASE log' = log
  BY <1>1, NEyesFrame
<1>2. CASE log' = Append(log, e) /\ log' # log
  <2> SUFFICES ASSUME NEW i \in 1..Len(log'), NEW r, r = log'[i].req,
                      log'[i].event = "workflow.transition", r.tr \in Gated
               PROVE  Cardinality(ApprovedBefore(i, r.rec, r.tr)' \cup {r.sub})
                        >= Required[r.tr]
    BY DEF NEyes, ApprovedBefore, IsTransition
  <2>1. i \in 1..(Len(log) + 1) /\ Len(log) \in Nat
    BY <1>2, AppendFacts
  <2>2. ApprovedBefore(i, r.rec, r.tr)' = ApprovedBefore(i, r.rec, r.tr)
    BY <1>2, <2>1, ApprovedBeforeKept
  <2>3. CASE i \in 1..Len(log)
    BY <1>2, <2>2, <2>3, AppendFacts DEF NEyes
  <2>4. CASE i = Len(log) + 1
    BY <1>2, <2>2, <2>4, AppendFacts
  <2> QED
    BY <2>1, <2>3, <2>4
<1> QED
  BY <1>1, <1>2

\* Pending approvals stay justified when an event that is no transition of
\* their record is appended.
LEMMA ApprovalsInLogKept ==
  ASSUME log \in Seq(Events), ApprovalsInLog, NEW e \in Events,
         log' = log \/ log' = Append(log, e),
         NEW a \in approvals,
         log' # log => ~(e.event = "workflow.transition" /\ e.req.rec = a.rec)
  PROVE  \E j \in 1..Len(log') :
            /\ log'[j].event = "workflow.approval_recorded" /\ log'[j].req = a
            /\ \A k \in (j + 1)..Len(log') : ~IsTransition(k, a.rec)'
<1>1. PICK j \in 1..Len(log) :
             /\ log[j].event = "workflow.approval_recorded" /\ log[j].req = a
             /\ \A k \in (j + 1)..Len(log) : ~IsTransition(k, a.rec)
  BY DEF ApprovalsInLog
<1>2. CASE log' = log
  BY <1>1, <1>2 DEF IsTransition
<1>3. CASE log' = Append(log, e) /\ log' # log
  <2>1. j \in 1..Len(log') /\ log'[j] = log[j]
    BY <1>3, AppendFacts
  <2>2. ASSUME NEW k \in (j + 1)..Len(log')
        PROVE  ~IsTransition(k, a.rec)'
    <3>1. CASE k = Len(log) + 1
      BY <1>3, <3>1, AppendFacts DEF IsTransition
    <3>2. CASE k # Len(log) + 1
      <4>1. k \in (j + 1)..Len(log) /\ k \in 1..Len(log)
        BY <1>3, <3>2, AppendFacts
      <4> QED
        BY <1>1, <1>3, <4>1, AppendFacts DEF IsTransition
    <3> QED
      BY <3>1, <3>2
  <2> QED
    BY <1>1, <2>1, <2>2
<1> QED
  BY <1>2, <1>3
-----------------------------------------------------------------------------
(* Steps of one handler.                                                   *)

HandlerStep(h) == \/ \E r \in Requests : Arrive(h, r)
                  \/ Proceed(h) \/ AuditFails(h) \/ AuditAnswerLost(h)
                  \/ Rollback(h)

\* A handler leaves the variables of the others, and their row locks, alone.
LEMMA Elsewhere ==
  ASSUME TypeOK, NEW h \in Handlers, HandlerStep(h), NEW g \in Handlers, g # h
  PROVE  /\ pc'[g] = pc[g] /\ req'[g] = req[g] /\ effect'[g] = effect[g]
         /\ inserted'[g] = inserted[g] /\ removed'[g] = removed[g]
         /\ (\A x \in Handlers : RowLocked(x))
              => \A rec \in Records : rowLock'[rec] = g <=> rowLock[rec] = g
<1> USE WorkflowAssumption DEF TypeOK
<1>1. ASSUME NEW r \in Requests, Arrive(h, r)
      PROVE  UNCHANGED <<rowLock, effect, inserted, removed>> /\ pc'[g] = pc[g] /\ req'[g] = req[g]
  BY <1>1 DEF Arrive, txn
<1>2. CASE Peek(h) \/ DecideGuard(h) \/ DecideApproval(h) \/ AuditFails(h)
           \/ AuditAnswerLost(h) \/ FlushDuplicate(h)
  BY <1>2 DEF Peek, DecideGuard, DecideApproval, AuditFails, AuditAnswerLost, FlushDuplicate,
              txn, Reply
<1>3. CASE CountApprovals(h) \/ SetState(h) \/ AppendInTransaction(h)
  BY <1>3 DEF CountApprovals, SetState, AppendInTransaction, txn
<1>4. CASE LockRow(h)
  BY <1>4 DEF LockRow, RowFree, Recheck, txn, Reply
<1>5. CASE InsertApproval(h)
  <2>1. CASE req[h] \in approvals
    BY <1>5, <2>1 DEF InsertApproval, EndTransaction
  <2>2. CASE req[h] \notin approvals
    BY <1>5, <2>2 DEF InsertApproval
  <2> QED
    BY <2>1, <2>2
<1>6. CASE Commit(h) \/ Rollback(h)
  BY <1>6 DEF Commit, Rollback, EndTransaction, Reply
<1> QED
  BY <1>1, <1>2, <1>3, <1>4, <1>5, <1>6 DEF HandlerStep, Proceed

\* Every step keeps the types.
LEMMA TypeStep ==
  ASSUME TypeOK, \A h \in Handlers : ChecksHold(h), [Next]_vars
  PROVE  TypeOK'
<1> USE WorkflowAssumption
<1>e. ASSUME NEW h \in Handlers, pc[h] # "idle", NEW name \in EventNames, NEW d \in {"allow", "deny"}
      PROVE  req[h] \in Requests /\ Event(name, req[h], d) \in Events
             /\ Append(log, Event(name, req[h], d)) \in Seq(Events)
  BY <1>e DEF ChecksHold, Event, Events, TypeOK
<1>r. ASSUME NEW h \in Handlers, Reply(h)
      PROVE  /\ pc' \in [Handlers -> {"idle", "peek", "guard", "approve", "tx", "flush"} \cup InTx]
             /\ req' \in [Handlers -> Requests \cup {None}]
             /\ peeked' \in [Handlers -> Fields \cup {NoOne}]
  BY <1>r DEF Reply, TypeOK
<1>t. ASSUME NEW h \in Handlers, EndTransaction(h)
      PROVE  /\ rowLock' \in [Records -> Handlers \cup {NoOne}]
             /\ chainLock' \in Handlers \cup {NoOne}
             /\ inserted' \in [Handlers -> BOOLEAN]
             /\ removed' \in [Handlers -> SUBSET Requests]
             /\ effect' \in [Handlers -> {"none", "recorded", "flipped"}]
  BY <1>t DEF EndTransaction, TypeOK
<1>1. ASSUME NEW rec \in Records, CreateRecord(rec) PROVE TypeOK'
  BY <1>1 DEF CreateRecord, TypeOK, txn
<1>2. ASSUME NEW rec \in Records, NEW f \in Fields, UpdateRecord(rec, f) PROVE TypeOK'
  <2>1. fields' \in [Records -> Fields]
    BY <1>2 DEF UpdateRecord, TypeOK
  <2> QED
    BY <1>2, <2>1 DEF UpdateRecord, TypeOK, txn
<1>3. ASSUME NEW h \in Handlers, NEW r \in Requests, Arrive(h, r) PROVE TypeOK'
  BY <1>3 DEF Arrive, TypeOK, txn, db
<1>4. ASSUME NEW h \in Handlers, Peek(h) PROVE TypeOK'
  <2>1. CASE Reply(h)
    BY <1>4, <1>r, <2>1 DEF Peek, TypeOK, txn, db
  <2>2. CASE ~Reply(h)
    <3>1. req[h] \in Requests
      BY <1>4 DEF Peek, ChecksHold
    <3>2. /\ peeked' = [peeked EXCEPT ![h] = fields[req[h].rec]]
          /\ pc' = [pc EXCEPT ![h] = "guard"] /\ UNCHANGED <<req, db, log, rowLock, chainLock, txn, served>>
      BY <1>4, <2>2 DEF Peek
    <3>3. fields[req[h].rec] \in Fields
      BY <3>1 DEF TypeOK, Requests
    <3> QED
      BY <3>2, <3>3 DEF TypeOK, txn, db
  <2> QED
    BY <2>1, <2>2
<1>5. ASSUME NEW h \in Handlers, DecideGuard(h) PROVE TypeOK'
  <2>1. log' \in Seq(Events) /\ UNCHANGED chainLock
    BY <1>5, <1>e DEF DecideGuard, Audited, EventNames
  <2>2. /\ pc' \in [Handlers -> {"idle", "peek", "guard", "approve", "tx", "flush"} \cup InTx]
        /\ req' \in [Handlers -> Requests \cup {None}]
        /\ peeked' \in [Handlers -> Fields \cup {NoOne}]
    BY <1>5, <1>r DEF DecideGuard, TypeOK
  <2> QED
    BY <1>5, <2>1, <2>2 DEF DecideGuard, TypeOK, txn, db
<1>6. ASSUME NEW h \in Handlers, DecideApproval(h) PROVE TypeOK'
  <2>1. log' \in Seq(Events) /\ UNCHANGED chainLock
    BY <1>6, <1>e DEF DecideApproval, Audited, EventNames
  <2>2. /\ pc' \in [Handlers -> {"idle", "peek", "guard", "approve", "tx", "flush"} \cup InTx]
        /\ req' \in [Handlers -> Requests \cup {None}]
        /\ peeked' \in [Handlers -> Fields \cup {NoOne}]
    BY <1>6, <1>r DEF DecideApproval, TypeOK
  <2> QED
    BY <1>6, <2>1, <2>2 DEF DecideApproval, TypeOK, txn, db
<1>7. ASSUME NEW h \in Handlers, AuditFails(h) PROVE TypeOK'
  BY <1>7, <1>r DEF AuditFails, TypeOK, txn, db
<1>7a. ASSUME NEW h \in Handlers, AuditAnswerLost(h) PROVE TypeOK'
  <2>1. log' \in Seq(Events) /\ UNCHANGED chainLock
    BY <1>7a, <1>e DEF AuditAnswerLost, Audited, EventNames
  <2> QED
    BY <1>7a, <1>r, <2>1 DEF AuditAnswerLost, TypeOK, txn, db
<1>7b. ASSUME NEW w \in StateWrites, RejectStateWrite(w) PROVE TypeOK'
  <2>1. Event("workflow.state_write_rejected", w, "deny") \in Events
    BY DEF Event, Events
  <2>2. log' \in Seq(Events)
    BY <1>7b, <2>1, AppendFacts DEF RejectStateWrite, TypeOK
  <2> QED
    BY <1>7b, <2>2 DEF RejectStateWrite, TypeOK, txn, db
<1>8. ASSUME NEW h \in Handlers, LockRow(h) PROVE TypeOK'
  <2>1. CASE Reply(h) /\ UNCHANGED rowLock
    BY <1>8, <1>r, <2>1 DEF LockRow, TypeOK, txn, db
  <2>2. CASE ~(Reply(h) /\ UNCHANGED rowLock)
    <3>1. /\ rowLock' = [rowLock EXCEPT ![req[h].rec] = h]
          /\ pc' = [pc EXCEPT ![h] = IF req[h].tr \in Gated THEN "insert" ELSE "setstate"]
          /\ UNCHANGED <<req, peeked>>
      BY <1>8, <2>2 DEF LockRow
    <3> QED
      BY <1>8, <3>1 DEF LockRow, TypeOK, txn, db, InTx
  <2> QED
    BY <2>1, <2>2
<1>9. ASSUME NEW h \in Handlers, InsertApproval(h) PROVE TypeOK'
  <2>1. CASE req[h] \in approvals
    BY <1>9, <1>t, <2>1 DEF InsertApproval, TypeOK, db, InTx
  <2>2. CASE req[h] \notin approvals
    BY <1>9, <2>2 DEF InsertApproval, TypeOK, db, InTx
  <2> QED
    BY <2>1, <2>2
<1>10. ASSUME NEW h \in Handlers, FlushDuplicate(h) PROVE TypeOK'
  <2>1. log' \in Seq(Events) /\ UNCHANGED chainLock
    BY <1>10, <1>e DEF FlushDuplicate, Audited, EventNames
  <2> QED
    BY <1>10, <1>r, <2>1 DEF FlushDuplicate, TypeOK, txn, db
<1>11. ASSUME NEW h \in Handlers, CountApprovals(h) PROVE TypeOK'
  BY <1>11 DEF CountApprovals, TypeOK, db, InTx
<1>12. ASSUME NEW h \in Handlers, SetState(h) PROVE TypeOK'
  BY <1>12 DEF SetState, EndedRound, TypeOK, db, InTx
<1>13. ASSUME NEW h \in Handlers, AppendInTransaction(h) PROVE TypeOK'
  BY <1>13 DEF AppendInTransaction, TypeOK, txn, db, InTx
<1>14. ASSUME NEW h \in Handlers, Commit(h) PROVE TypeOK'
  <2>1. req[h] \in Requests
    BY <1>14 DEF Commit, ChecksHold
  <2>2. log' \in Seq(Events)
    BY <1>14, <1>e DEF Commit, EventNames
  <2>3. state' \in [Records -> [Workflows -> States]]
    <3>1. CASE effect[h] = "flipped"
      <4>1. /\ req[h].rec \in Records /\ WorkflowOf[req[h].tr] \in Workflows
            /\ To[req[h].tr] \in States
        BY <2>1 DEF Requests
      <4>2. state' = [state EXCEPT ![req[h].rec] =
                        [state[req[h].rec] EXCEPT ![WorkflowOf[req[h].tr]] = To[req[h].tr]]]
        BY <1>14, <3>1 DEF Commit
      <4>3. [state[req[h].rec] EXCEPT ![WorkflowOf[req[h].tr]] = To[req[h].tr]]
              \in [Workflows -> States]
        BY <4>1 DEF TypeOK
      <4> QED
        BY <4>1, <4>2, <4>3 DEF TypeOK
    <3>2. CASE effect[h] # "flipped"
      BY <1>14, <3>2 DEF Commit, TypeOK
    <3> QED
      BY <3>1, <3>2
  <2>4. approvals' \subseteq Requests
    BY <1>14, <2>1 DEF Commit, TypeOK
  <2> QED
    BY <1>14, <1>r, <1>t, <2>2, <2>3, <2>4 DEF Commit, TypeOK
<1>15. ASSUME NEW h \in Handlers, Rollback(h) PROVE TypeOK'
  BY <1>15, <1>r, <1>t DEF Rollback, TypeOK, db
<1>16. CASE UNCHANGED vars
  BY <1>16 DEF vars, TypeOK
<1> QED
  BY <1>1, <1>2, <1>3, <1>4, <1>5, <1>6, <1>7, <1>7a, <1>7b, <1>8, <1>9, <1>10,
     <1>11, <1>12, <1>13, <1>14, <1>15, <1>16 DEF Next, Proceed

\* What is approved of a record, and whether it is enough, only changes with
\* the approvals of that record.
LEMMA EnoughKept ==
  ASSUME NEW r, {a \in approvals : a.rec = r.rec}' = {a \in approvals : a.rec = r.rec}
  PROVE  /\ Approvers(r.rec, r.tr)' = Approvers(r.rec, r.tr)
         /\ Enough(r)' <=> Enough(r)
<1>1. Approvers(r.rec, r.tr)' = Approvers(r.rec, r.tr)
  <2>1. \A a : a \in approvals' /\ a.rec = r.rec <=> a \in approvals /\ a.rec = r.rec
    OBVIOUS
  <2>2. {b \in approvals : b.rec = r.rec /\ b.tr = r.tr}'
          = {b \in approvals : b.rec = r.rec /\ b.tr = r.tr}
    BY <2>1
  <2> QED
    BY <2>2 DEF Approvers
<1> QED
  BY <1>1 DEF Enough

\* A step of h that leaves the tables alone, appends no transition and leaves
\* h's own part of the invariant true preserves the invariant.
LEMMA QuietStep ==
  ASSUME WorkflowInv, TypeOK', NEW h \in Handlers, HandlerStep(h),
         UNCHANGED db, NEW e \in Events, e.event # "workflow.transition",
         log' = log \/ log' = Append(log, e),
         RowLocked(h)', ChecksHold(h)', BufferFresh(h)'
  PROVE  WorkflowInv'
<1> USE DEF WorkflowInv
<1>1. ASSUME NEW g \in Handlers, g # h
      PROVE  RowLocked(g)' /\ ChecksHold(g)' /\ BufferFresh(g)'
  <2>1. /\ pc'[g] = pc[g] /\ req'[g] = req[g] /\ effect'[g] = effect[g]
        /\ inserted'[g] = inserted[g] /\ removed'[g] = removed[g]
        /\ \A rec \in Records : rowLock'[rec] = g <=> rowLock[rec] = g
    BY <1>1, Elsewhere
  <2>2. RowLocked(g)'
    BY <1>1, <2>1 DEF RowLocked, ChecksHold, Requests, InTx
  <2>3. ChecksHold(g)'
    BY <1>1, <2>1 DEF ChecksHold, InFromState, db
  <2>4. Enough(req[g])' <=> Enough(req[g])
    BY <2>1 DEF Enough, Approvers, db
  <2>5. BufferFresh(g)'
    BY <1>1, <2>1, <2>4 DEF BufferFresh, EndedRound, db
  <2> QED
    BY <2>2, <2>3, <2>5
<1>2. ApprovalsMatchState'
  BY DEF ApprovalsMatchState, InFromState, db
<1>3. PendingBelowThreshold'
  BY DEF PendingBelowThreshold, Approvers, db
<1>4. ApprovalsInLog'
  <2>1. \A a \in approvals : \E j \in 1..Len(log') :
            /\ log'[j].event = "workflow.approval_recorded" /\ log'[j].req = a
            /\ \A k \in (j + 1)..Len(log') : ~IsTransition(k, a.rec)'
    BY ApprovalsInLogKept DEF TypeOK
  <2> QED
    BY <2>1 DEF ApprovalsInLog, db
<1>5. NEyes'
  BY NEyesKept DEF TypeOK
<1> QED
  BY <1>1, <1>2, <1>3, <1>4, <1>5

\* The part of the invariant about a handler outside a transaction.
LEMMA OutsideTx ==
  ASSUME NEW h \in Handlers, pc'[h] \notin InTx, ~inserted'[h], removed'[h] = {},
         \A rec \in Records : rowLock'[rec] # h,
         pc'[h] # "idle" => req'[h] \in Requests,
         pc'[h] \notin {"idle", "peek"} => req'[h].rec \in created'
  PROVE  RowLocked(h)' /\ ChecksHold(h)' /\ BufferFresh(h)'
<1>1. RowLocked(h)'
  BY DEF RowLocked
<1>2. ChecksHold(h)'
  BY DEF ChecksHold
<1>3. BufferFresh(h)'
  BY DEF BufferFresh, InTx
<1> QED
  BY <1>1, <1>2, <1>3

\* The part of the invariant about a handler inside a transaction that still
\* holds the lock it took on its record.
LEMMA InsideTx ==
  ASSUME WorkflowInv, NEW h \in Handlers, pc[h] \in InTx, pc'[h] \in InTx,
         UNCHANGED <<rowLock, req, db>>
  PROVE  RowLocked(h)' /\ ChecksHold(h)'
<1>1. RowLocked(h)'
  BY DEF RowLocked, WorkflowInv, InTx
<1>2. ChecksHold(h)'
  BY DEF ChecksHold, WorkflowInv, InTx, InFromState, db
<1> QED
  BY <1>1, <1>2

-----------------------------------------------------------------------------
\* Every step of a handler that writes no table preserves the invariant.
LEMMA NoWriteInv ==
  ASSUME WorkflowInv, TypeOK', NEW h \in Handlers, ~Commit(h), HandlerStep(h)
  PROVE  WorkflowInv'
<1> USE WorkflowAssumption
<1>t. TypeOK /\ RowLocked(h) /\ ChecksHold(h) /\ BufferFresh(h)
  BY DEF WorkflowInv
<1>o. pc[h] \notin InTx =>
         /\ ~inserted[h] /\ removed[h] = {}
         /\ \A rec \in Records : rowLock[rec] # h
  BY <1>t DEF RowLocked, BufferFresh
<1>s. ASSUME NEW r \in Requests, UNCHANGED <<db, log>>,
             RowLocked(h)', ChecksHold(h)', BufferFresh(h)'
      PROVE  WorkflowInv'
  <2> DEFINE e == Event("guard.decision", r, "deny")
  <2>1. e \in Events /\ e.event # "workflow.transition"
    BY DEF Event, Events, EventNames
  <2>2. UNCHANGED db /\ log' = log
    BY <1>s
  <2> HIDE DEF e
  <2> QED
    BY <1>s, <2>1, <2>2, QuietStep
<1>1. ASSUME NEW r \in Requests, Arrive(h, r) PROVE WorkflowInv'
  <2>1. /\ pc'[h] = "peek" /\ req'[h] = r /\ pc[h] = "idle"
        /\ UNCHANGED <<db, log, rowLock, inserted, removed>>
    BY <1>1, <1>t DEF Arrive, TypeOK, txn
  <2>2. RowLocked(h)' /\ ChecksHold(h)' /\ BufferFresh(h)'
    BY <2>1, <1>o, OutsideTx DEF InTx
  <2> QED
    BY <2>1, <2>2, <1>s
<1>2. CASE Peek(h)
  <2>0. req[h] \in Requests
    BY <1>2, <1>t DEF Peek, ChecksHold
  <2>1. /\ pc[h] \notin InTx /\ pc'[h] \in {"idle", "guard"}
        /\ pc'[h] # "idle" => req'[h] = req[h] /\ req[h].rec \in created
        /\ UNCHANGED <<db, log, rowLock, inserted, removed>>
    BY <1>2, <1>t DEF Peek, TypeOK, ChecksHold, Reply, txn, InTx
  <2>2. RowLocked(h)' /\ ChecksHold(h)' /\ BufferFresh(h)'
    BY <2>0, <2>1, <1>o, OutsideTx DEF InTx, db
  <2> QED
    BY <2>0, <2>1, <2>2, <1>s
<1>3. CASE DecideGuard(h)
  <2>0. req[h] \in Requests
    BY <1>3, <1>t DEF DecideGuard, ChecksHold
  <2>1. /\ pc[h] \notin InTx /\ pc'[h] \in {"idle", "approve", "tx"}
        /\ pc'[h] # "idle" => req'[h] = req[h] /\ req[h].rec \in created
        /\ UNCHANGED <<db, rowLock, inserted, removed>>
    BY <1>3, <1>t DEF DecideGuard, TypeOK, ChecksHold, Reply, txn, InTx
  <2>2. RowLocked(h)' /\ ChecksHold(h)' /\ BufferFresh(h)'
    BY <2>0, <2>1, <1>o, OutsideTx DEF InTx, db
  <2> DEFINE e == Event("guard.decision", req[h], IF req[h].sub \in GuardAllows[req[h].tr] THEN "allow" ELSE "deny")
  <2>3. e \in Events /\ e.event # "workflow.transition" /\ log' = Append(log, e)
    BY <1>3, <2>0 DEF DecideGuard, Audited, Event, Events, EventNames
  <2> HIDE DEF e
  <2> QED
    BY <2>1, <2>2, <2>3, QuietStep
<1>4. CASE DecideApproval(h)
  <2>0. req[h] \in Requests
    BY <1>4, <1>t DEF DecideApproval, ChecksHold
  <2>1. /\ pc[h] \notin InTx /\ pc'[h] \in {"idle", "tx"}
        /\ pc'[h] # "idle" => req'[h] = req[h] /\ req[h].rec \in created
        /\ UNCHANGED <<db, rowLock, inserted, removed>>
    BY <1>4, <1>t DEF DecideApproval, TypeOK, ChecksHold, Reply, txn, InTx
  <2>2. RowLocked(h)' /\ ChecksHold(h)' /\ BufferFresh(h)'
    BY <2>0, <2>1, <1>o, OutsideTx DEF InTx, db
  <2> DEFINE e == Event("approval.decision", req[h], IF req[h].sub \in ApproveAllows[req[h].tr] THEN "allow" ELSE "deny")
  <2>3. e \in Events /\ e.event # "workflow.transition" /\ log' = Append(log, e)
    BY <1>4, <2>0 DEF DecideApproval, Audited, Event, Events, EventNames
  <2> HIDE DEF e
  <2> QED
    BY <2>1, <2>2, <2>3, QuietStep
<1>5. CASE AuditFails(h)
  <2>0. req[h] \in Requests
    BY <1>5, <1>t DEF AuditFails, ChecksHold
  <2>1. /\ pc[h] \notin InTx /\ pc'[h] \in {"idle"}
        /\ UNCHANGED <<db, log, rowLock, inserted, removed>>
    BY <1>5, <1>t DEF AuditFails, TypeOK, ChecksHold, Reply, txn, InTx
  <2>2. RowLocked(h)' /\ ChecksHold(h)' /\ BufferFresh(h)'
    BY <2>0, <2>1, <1>o, OutsideTx DEF InTx, db
  <2> QED
    BY <2>0, <2>1, <2>2, <1>s
<1>5a. CASE AuditAnswerLost(h)
  <2>0. req[h] \in Requests
    BY <1>5a, <1>t DEF AuditAnswerLost, ChecksHold
  <2>1. /\ pc[h] \notin InTx /\ pc'[h] \in {"idle"}
        /\ UNCHANGED <<db, rowLock, inserted, removed>>
    BY <1>5a, <1>t DEF AuditAnswerLost, TypeOK, ChecksHold, Reply, txn, InTx
  <2>2. RowLocked(h)' /\ ChecksHold(h)' /\ BufferFresh(h)'
    BY <2>0, <2>1, <1>o, OutsideTx DEF InTx, db
  <2>3. PICK e \in Events : e.event # "workflow.transition" /\ log' = Append(log, e)
    BY <1>5a, <2>0 DEF AuditAnswerLost, Audited, Event, Events, EventNames
  <2> QED
    BY <2>1, <2>2, <2>3, QuietStep
<1>6. CASE FlushDuplicate(h)
  <2>0. req[h] \in Requests
    BY <1>6, <1>t DEF FlushDuplicate, ChecksHold
  <2>1. /\ pc[h] \notin InTx /\ pc'[h] \in {"idle"}
        /\ UNCHANGED <<db, rowLock, inserted, removed>>
    BY <1>6, <1>t DEF FlushDuplicate, TypeOK, ChecksHold, Reply, txn, InTx
  <2>2. RowLocked(h)' /\ ChecksHold(h)' /\ BufferFresh(h)'
    BY <2>0, <2>1, <1>o, OutsideTx DEF InTx, db
  <2> DEFINE e == Event("workflow.duplicate_approver", req[h], "deny")
  <2>3. e \in Events /\ e.event # "workflow.transition" /\ log' = Append(log, e)
    BY <1>6, <2>0 DEF FlushDuplicate, Audited, Event, Events, EventNames
  <2> HIDE DEF e
  <2> QED
    BY <2>1, <2>2, <2>3, QuietStep
<1>7. CASE Rollback(h)
  <2>0. req[h] \in Requests
    BY <1>7, <1>t DEF Rollback, ChecksHold, InTx
  <2>1. /\ pc'[h] = "idle" /\ ~inserted'[h] /\ removed'[h] = {}
        /\ \A rec \in Records : rowLock'[rec] # h
        /\ UNCHANGED <<db, log>>
    BY <1>7, <1>t DEF Rollback, TypeOK, Reply, EndTransaction
  <2>2. RowLocked(h)' /\ ChecksHold(h)' /\ BufferFresh(h)'
    BY <2>1, OutsideTx DEF InTx
  <2> QED
    BY <2>0, <2>1, <2>2, <1>s
<1>8. CASE LockRow(h)
  <2>0. req[h] \in Requests /\ req[h].rec \in Records /\ pc[h] \notin InTx
        /\ req[h].rec \in created /\ UNCHANGED <<db, log, inserted, removed>>
    BY <1>8, <1>t DEF LockRow, ChecksHold, Requests, InTx, txn
  <2>1. CASE Reply(h) /\ UNCHANGED rowLock
    <3>1. pc'[h] = "idle"
      BY <2>1, <1>t DEF Reply, TypeOK
    <3> QED
      BY <2>0, <2>1, <3>1, <1>o, <1>s, OutsideTx DEF InTx
  <2>2. CASE ~(Reply(h) /\ UNCHANGED rowLock)
    <3>1. /\ InFromState(req[h]) /\ fields[req[h].rec] \in Passes[req[h].tr]
          /\ rowLock' = [rowLock EXCEPT ![req[h].rec] = h]
          /\ pc'[h] = IF req[h].tr \in Gated THEN "insert" ELSE "setstate"
          /\ UNCHANGED req
      BY <1>8, <2>2, <1>t DEF LockRow, RowFree, Recheck, TypeOK
    <3>2. RowLocked(h)'
      BY <2>0, <3>1, <1>o, <1>t DEF RowLocked, TypeOK, InTx
    <3>3. ChecksHold(h)'
      BY <2>0, <3>1 DEF ChecksHold, InFromState, db
    <3>4. BufferFresh(h)'
      BY <2>0, <3>1, <1>o DEF BufferFresh, InTx
    <3> QED
      BY <2>0, <3>2, <3>3, <3>4, <1>s
  <2> QED
    BY <2>1, <2>2
<1>9. CASE InsertApproval(h)
  <2>0. req[h] \in Requests /\ req[h].rec \in created /\ UNCHANGED <<db, log, req>>
        /\ pc[h] = "insert" /\ pc[h] \in InTx /\ req[h].tr \in Gated
        /\ removed[h] = {}
    BY <1>9, <1>t DEF InsertApproval, ChecksHold, InTx, BufferFresh
  <2>1. CASE req[h] \in approvals
    <3>1. /\ pc'[h] = "flush" /\ ~inserted'[h] /\ removed'[h] = {}
          /\ \A rec \in Records : rowLock'[rec] # h
      BY <1>9, <2>1, <1>t DEF InsertApproval, TypeOK, EndTransaction
    <3> QED
      BY <2>0, <3>1, <1>s, OutsideTx DEF InTx, db
  <2>2. CASE req[h] \notin approvals
    <3>1. pc'[h] = "count" /\ inserted'[h] /\ UNCHANGED <<rowLock, removed>>
      BY <1>9, <2>2, <1>t DEF InsertApproval, TypeOK
    <3>2. RowLocked(h)' /\ ChecksHold(h)'
      BY <2>0, <3>1, InsideTx DEF InTx
    <3>3. BufferFresh(h)'
      BY <2>0, <3>1 DEF BufferFresh, InTx
    <3> QED
      BY <2>0, <3>2, <3>3, <1>s
  <2> QED
    BY <2>1, <2>2
<1>10. CASE CountApprovals(h)
  <2>0. req[h] \in Requests /\ UNCHANGED <<db, log, req, rowLock, inserted, removed>>
        /\ pc[h] = "count" /\ pc[h] \in InTx /\ req[h].tr \in Gated
        /\ inserted[h] /\ removed[h] = {}
    BY <1>10, <1>t DEF CountApprovals, ChecksHold, InTx, BufferFresh
  <2>1. Enough(req[h]) <=> Cardinality(SeenBy(h)) >= Required[req[h].tr]
    BY <2>0 DEF Enough, SeenBy
  <2>2. Enough(req[h])' <=> Enough(req[h])
    BY <2>0 DEF Enough, Approvers, db
  <2>3. \/ pc'[h] = "setstate" /\ Enough(req[h])
        \/ pc'[h] = "append" /\ effect'[h] = "recorded" /\ ~Enough(req[h])
    BY <1>10, <2>1, <1>t DEF CountApprovals, Reached, TypeOK
  <2>4. RowLocked(h)' /\ ChecksHold(h)'
    BY <2>0, <2>3, InsideTx DEF InTx
  <2>5. BufferFresh(h)'
    BY <2>0, <2>2, <2>3 DEF BufferFresh, InTx
  <2> QED
    BY <2>0, <2>4, <2>5, <1>s
<1>11. CASE SetState(h)
  <2>0. req[h] \in Requests /\ UNCHANGED <<db, log, req, rowLock>>
        /\ pc[h] = "setstate" /\ pc[h] \in InTx /\ (req[h].tr \in Gated => Enough(req[h]))
    BY <1>11, <1>t DEF SetState, ChecksHold, InTx, BufferFresh
  <2>1. /\ pc'[h] = "append" /\ effect'[h] = "flipped" /\ ~inserted'[h]
        /\ removed'[h] = {a \in approvals : a.rec = req[h].rec}
    BY <1>11, <1>t DEF SetState, EndedRound, TypeOK
  <2>2. Enough(req[h])' <=> Enough(req[h])
    BY <2>0 DEF Enough, Approvers, db
  <2>4. RowLocked(h)' /\ ChecksHold(h)'
    BY <2>0, <2>1, InsideTx DEF InTx
  <2>5. BufferFresh(h)'
    BY <2>0, <2>1, <2>2 DEF BufferFresh, EndedRound, InTx, db
  <2> QED
    BY <2>0, <2>4, <2>5, <1>s
<1>12. CASE AppendInTransaction(h)
  <2>0. req[h] \in Requests /\ UNCHANGED <<db, log, req, rowLock, inserted, removed, effect>>
        /\ pc[h] = "append" /\ pc[h] \in InTx /\ pc'[h] = "commit"
    BY <1>12, <1>t DEF AppendInTransaction, ChecksHold, InTx, TypeOK, txn
  <2>1. Enough(req[h])' <=> Enough(req[h])
    BY <2>0 DEF Enough, Approvers, db
  <2>2. RowLocked(h)' /\ ChecksHold(h)'
    BY <2>0, InsideTx DEF InTx
  <2>3. BufferFresh(h)'
    BY <2>0, <2>1, <1>t DEF BufferFresh, EndedRound, InTx, db
  <2> QED
    BY <2>0, <2>2, <2>3, <1>s
<1> QED
  BY <1>1, <1>2, <1>3, <1>4, <1>5, <1>5a, <1>6, <1>7, <1>8, <1>9, <1>10, <1>11, <1>12
  DEF HandlerStep, Proceed
\* What the COMMIT of h does: records an approval, or changes the state and
\* discards the approvals of the record.
LEMMA CommitEffect ==
  ASSUME WorkflowInv, NEW h \in Handlers, Commit(h)
  PROVE  LET r == req[h] IN
         /\ r \in Requests /\ r.rec \in Records /\ r.tr \in Transitions
         /\ r.rec \in created /\ pc[h] \in InTx /\ InFromState(r)
         /\ pc'[h] = "idle" /\ ~inserted'[h] /\ removed'[h] = {}
         /\ \A rec \in Records : rowLock'[rec] # h
         /\ UNCHANGED <<created, fields>>
         /\ \/ /\ r.tr \in Gated /\ ~Enough(r) /\ UNCHANGED state
               /\ approvals' = approvals \cup {r}
               /\ log' = Append(log, Event("workflow.approval_recorded", r, "allow"))
            \/ /\ r.tr \in Gated => Enough(r)
               /\ \A rec \in Records : rec # r.rec => state'[rec] = state[rec]
               /\ approvals' = {a \in approvals : a.rec # r.rec}
               /\ log' = Append(log, Event("workflow.transition", r, "allow"))
<1>t. TypeOK /\ RowLocked(h) /\ ChecksHold(h) /\ BufferFresh(h)
  BY DEF WorkflowInv
<1>1. /\ req[h] \in Requests /\ req[h].rec \in created /\ InFromState(req[h])
      /\ pc[h] = "commit" /\ pc[h] \in InTx
  BY <1>t DEF Commit, ChecksHold, InTx
<1>2. req[h].rec \in Records /\ req[h].tr \in Transitions
  BY <1>1 DEF Requests
<1>3. /\ pc'[h] = "idle" /\ ~inserted'[h] /\ removed'[h] = {}
      /\ \A rec \in Records : rowLock'[rec] # h
      /\ UNCHANGED <<created, fields>>
  BY <1>t, WorkflowAssumption DEF Commit, TypeOK, EndTransaction, Reply
<1>4. CASE effect[h] = "recorded"
  <2>1. req[h].tr \in Gated /\ ~Enough(req[h]) /\ inserted[h] /\ removed[h] = {}
    BY <1>t, <1>1, <1>4 DEF BufferFresh
  <2>2. approvals' = approvals \cup {req[h]} /\ UNCHANGED state
        /\ log' = Append(log, Event("workflow.approval_recorded", req[h], "allow"))
    BY <1>4, <2>1 DEF Commit
  <2> QED
    BY <1>1, <1>2, <1>3, <2>1, <2>2
<1>5. CASE effect[h] # "recorded"
  <2>1. /\ effect[h] = "flipped" /\ (req[h].tr \in Gated => Enough(req[h]))
        /\ ~inserted[h] /\ removed[h] = {a \in approvals : a.rec = req[h].rec}
    BY <1>t, <1>1, <1>5 DEF BufferFresh, EndedRound
  <2>2. approvals' = {a \in approvals : a.rec # req[h].rec}
        /\ log' = Append(log, Event("workflow.transition", req[h], "allow"))
    BY <2>1 DEF Commit
  <2>3. \A rec \in Records : rec # req[h].rec => state'[rec] = state[rec]
    BY <1>t, <2>1 DEF Commit, TypeOK
  <2> QED
    BY <1>1, <1>2, <1>3, <2>1, <2>2, <2>3
<1> QED
  BY <1>4, <1>5

\* The approvals pending for a request are recorded before the end of the log.
LEMMA PendingIsLogged ==
  ASSUME ApprovalsInLog, log \in Seq(Events), NEW rec, NEW t
  PROVE  /\ Approvers(rec, t) \subseteq ApprovedBefore(Len(log) + 1, rec, t)
         /\ IsFiniteSet(ApprovedBefore(Len(log) + 1, rec, t))
<1>1. Len(log) \in Nat /\ (Len(log) + 1) - 1 = Len(log)
  OBVIOUS
<1> DEFINE J == {k \in 1..Len(log) :
                   /\ log[k].event = "workflow.approval_recorded"
                   /\ log[k].req.rec = rec /\ log[k].req.tr = t
                   /\ \A m \in (k + 1)..Len(log) : ~IsTransition(m, rec)}
<1>2. ApprovedBefore(Len(log) + 1, rec, t) = {log[j].req.sub : j \in J}
  BY <1>1 DEF ApprovedBefore
<1>3. ASSUME NEW u \in Approvers(rec, t)
      PROVE  u \in {log[j].req.sub : j \in J}
  <2>1. PICK a \in approvals : a.rec = rec /\ a.tr = t /\ a.sub = u
    BY <1>3 DEF Approvers
  <2>2. PICK j \in 1..Len(log) :
               /\ log[j].event = "workflow.approval_recorded" /\ log[j].req = a
               /\ \A k \in (j + 1)..Len(log) : ~IsTransition(k, a.rec)
    BY DEF ApprovalsInLog
  <2>3. j \in J /\ log[j].req.sub = u
    BY <2>1, <2>2
  <2> QED
    BY <2>3
<1>4. IsFiniteSet(J)
  <2>1. IsFiniteSet(1..Len(log))
    BY <1>1, FS_Interval
  <2> QED
    BY <2>1, FS_Subset
<1>5. IsFiniteSet({log[j].req.sub : j \in J})
  <2> DEFINE T == {log[j].req.sub : j \in J}
             f == [j \in J |-> log[j].req.sub]
  <2>1. f \in Surjection(J, T)
    BY DEF Surjection
  <2> QED
    BY <1>4, <2>1, FS_Surjection
<1> QED
  BY <1>2, <1>3, <1>5

\* COMMIT preserves the invariant.
LEMMA CommitInv ==
  ASSUME WorkflowInv, TypeOK', NEW h \in Handlers, Commit(h)
  PROVE  WorkflowInv'
<1> DEFINE r == req[h]
<1> USE WorkflowAssumption
<1>t. TypeOK /\ \A g \in Handlers : RowLocked(g) /\ ChecksHold(g) /\ BufferFresh(g)
  BY DEF WorkflowInv
<1>h. HandlerStep(h)
  BY DEF HandlerStep, Proceed
<1>1. /\ r \in Requests /\ r.rec \in Records /\ r.tr \in Transitions
      /\ r.rec \in created /\ pc[h] \in InTx /\ InFromState(r)
      /\ pc'[h] = "idle" /\ ~inserted'[h] /\ removed'[h] = {}
      /\ \A rec \in Records : rowLock'[rec] # h
      /\ UNCHANGED <<created, fields>>
      /\ \/ /\ r.tr \in Gated /\ ~Enough(r) /\ UNCHANGED state
            /\ approvals' = approvals \cup {r}
            /\ log' = Append(log, Event("workflow.approval_recorded", r, "allow"))
         \/ /\ r.tr \in Gated => Enough(r)
            /\ \A rec \in Records : rec # r.rec => state'[rec] = state[rec]
            /\ approvals' = {a \in approvals : a.rec # r.rec}
            /\ log' = Append(log, Event("workflow.transition", r, "allow"))
  BY CommitEffect
<1> HIDE DEF r
<1>2. RowLocked(h)' /\ ChecksHold(h)' /\ BufferFresh(h)'
  BY <1>1, OutsideTx DEF InTx
<1>3. ASSUME NEW g \in Handlers, g # h
      PROVE  RowLocked(g)' /\ ChecksHold(g)' /\ BufferFresh(g)'
  <2>1. /\ pc'[g] = pc[g] /\ req'[g] = req[g] /\ effect'[g] = effect[g]
        /\ inserted'[g] = inserted[g] /\ removed'[g] = removed[g]
        /\ \A rec \in Records : rowLock'[rec] = g <=> rowLock[rec] = g
    BY <1>3, <1>h, <1>t, Elsewhere
  <2>2. pc[g] \in InTx => req[g] \in Requests /\ req[g].rec \in Records
                         /\ req[g].rec # r.rec
    <3> SUFFICES ASSUME pc[g] \in InTx
                 PROVE  req[g] \in Requests /\ req[g].rec \in Records
                        /\ req[g].rec # r.rec
      OBVIOUS
    <3>1. req[g] \in Requests /\ rowLock[req[g].rec] = g
      BY <1>t DEF RowLocked, ChecksHold, InTx
    <3>2. rowLock[r.rec] = h
      BY <1>1, <1>t DEF RowLocked, r
    <3>3. req[g].rec \in Records
      BY <3>1 DEF Requests
    <3> QED BY <1>3, <3>1, <3>2, <3>3
  <2>3. RowLocked(g)'
    BY <1>3, <1>t, <2>1, <2>2 DEF RowLocked
  <2>4. ChecksHold(g)'
    BY <1>1, <1>3, <1>t, <2>1, <2>2 DEF ChecksHold, InFromState
  <2>5. pc[g] \in InTx => {a \in approvals : a.rec = req[g].rec}'
                          = {a \in approvals : a.rec = req[g].rec}
    BY <1>1, <2>1, <2>2
  <2>6. pc[g] \in InTx => (Enough(req[g])' <=> Enough(req[g]))
    <3> SUFFICES ASSUME pc[g] \in InTx PROVE Enough(req[g])' <=> Enough(req[g])
      OBVIOUS
    <3>1. \A q : q = req[g] => (Enough(q)' <=> Enough(q))
      BY <2>1, <2>5, EnoughKept
    <3> QED
      BY <2>1, <3>1 DEF Enough, Approvers
  <2>7. BufferFresh(g)'
    BY <1>3, <1>t, <2>1, <2>5, <2>6 DEF BufferFresh, EndedRound, InTx
  <2> QED
    BY <2>3, <2>4, <2>7
<1>4. ApprovalsMatchState'
  <2>1. \A a \in approvals : a \in Requests /\ a.rec \in created /\ InFromState(a)
    BY <1>t DEF WorkflowInv, ApprovalsMatchState, TypeOK
  <2>2. \A a \in approvals : a.rec \in Records
    BY <2>1 DEF Requests
  <2> QED
    BY <1>1, <2>1, <2>2 DEF ApprovalsMatchState, InFromState
<1>f. /\ Approvers(r.rec, r.tr) \cup {r.sub}
           \subseteq ApprovedBefore(Len(log) + 1, r.rec, r.tr) \cup {r.sub}
      /\ IsFiniteSet(ApprovedBefore(Len(log) + 1, r.rec, r.tr) \cup {r.sub})
  <2>1. log \in Seq(Events) /\ ApprovalsInLog
    BY DEF WorkflowInv, TypeOK
  <2>2. /\ Approvers(r.rec, r.tr) \subseteq ApprovedBefore(Len(log) + 1, r.rec, r.tr)
        /\ IsFiniteSet(ApprovedBefore(Len(log) + 1, r.rec, r.tr))
    BY <2>1, PendingIsLogged
  <2> QED
    BY <2>2, FS_AddElement
<1>5. PendingBelowThreshold'
  <2> SUFFICES ASSUME NEW rec \in Records, NEW t \in Gated
               PROVE  Cardinality(Approvers(rec, t)') < Required[t]
    BY DEF PendingBelowThreshold
  <2>1. Cardinality(Approvers(rec, t)) < Required[t] /\ Required[t] \in Nat \ {0}
    BY DEF WorkflowInv, PendingBelowThreshold
  <2>2. CASE ~Enough(r) /\ approvals' = approvals \cup {r} /\ rec = r.rec /\ t = r.tr
    <3>1. Approvers(rec, t)' = Approvers(rec, t) \cup {r.sub}
      BY <2>2 DEF Approvers
    <3>2. Cardinality(Approvers(rec, t) \cup {r.sub}) \in Nat
      BY <1>f, <2>2, FS_Subset, FS_CardinalityType
    <3> QED
      BY <2>1, <2>2, <3>1, <3>2 DEF Enough
  <2>3. CASE approvals' = approvals \cup {r} /\ ~(rec = r.rec /\ t = r.tr)
    <3>1. Approvers(rec, t)' = Approvers(rec, t)
      BY <2>3 DEF Approvers
    <3> QED
      BY <2>1, <3>1
  <2>4. CASE approvals' = {a \in approvals : a.rec # r.rec} /\ rec = r.rec
    <3>1. Approvers(rec, t)' = {}
      BY <2>4 DEF Approvers
    <3> QED
      BY <2>1, <3>1, FS_EmptySet
  <2>5. CASE approvals' = {a \in approvals : a.rec # r.rec} /\ rec # r.rec
    <3>1. Approvers(rec, t)' = Approvers(rec, t)
      BY <2>5 DEF Approvers
    <3> QED
      BY <2>1, <3>1
  <2> QED
    BY <1>1, <2>2, <2>3, <2>4, <2>5
<1>e. /\ Event("workflow.approval_recorded", r, "allow") \in Events
      /\ Event("workflow.transition", r, "allow") \in Events
  BY <1>1 DEF Event, Events, EventNames
<1>l. log \in Seq(Events) /\ ApprovalsInLog /\ NEyes
  BY DEF WorkflowInv, TypeOK
<1>6. ApprovalsInLog'
  <2> SUFFICES ASSUME NEW a \in approvals'
               PROVE  \E j \in 1..Len(log') :
                        /\ log'[j].event = "workflow.approval_recorded" /\ log'[j].req = a
                        /\ \A k \in (j + 1)..Len(log') : ~IsTransition(k, a.rec)'
    BY DEF ApprovalsInLog, IsTransition
  <2>1. CASE /\ approvals' = approvals \cup {r}
             /\ log' = Append(log, Event("workflow.approval_recorded", r, "allow"))
    <3> DEFINE e == Event("workflow.approval_recorded", r, "allow")
    <3>0. e.event = "workflow.approval_recorded" /\ e.req = r
      BY DEF Event
    <3> HIDE DEF e
    <3>1. e \in Events /\ log' = Append(log, e)
      BY <1>e, <2>1 DEF e
    <3>2. CASE a \in approvals
      BY <1>l, <3>0, <3>1, <3>2, ApprovalsInLogKept
    <3>3. CASE a = r
      <4>1. /\ Len(log) + 1 \in 1..Len(log') /\ log'[Len(log) + 1] = e
            /\ (Len(log) + 1 + 1)..Len(log') = {}
        BY <1>l, <3>1, AppendFacts
      <4> QED
        BY <3>0, <3>3, <4>1
    <3> QED
      BY <2>1, <3>2, <3>3
  <2>2. CASE /\ approvals' = {b \in approvals : b.rec # r.rec}
             /\ log' = Append(log, Event("workflow.transition", r, "allow"))
    <3> DEFINE e == Event("workflow.transition", r, "allow")
    <3>0. e.req = r
      BY DEF Event
    <3> HIDE DEF e
    <3>1. e \in Events /\ log' = Append(log, e)
      BY <1>e, <2>2 DEF e
    <3>2. a \in approvals /\ ~(e.event = "workflow.transition" /\ e.req.rec = a.rec)
      BY <2>2, <3>0
    <3> QED
      BY <1>l, <3>1, <3>2, ApprovalsInLogKept
  <2> QED
    BY <1>1, <2>1, <2>2
<1>7. NEyes'
  <2>1. CASE log' = Append(log, Event("workflow.approval_recorded", r, "allow"))
    <3> DEFINE e == Event("workflow.approval_recorded", r, "allow")
    <3>0. e.event # "workflow.transition"
      BY DEF Event
    <3> HIDE DEF e
    <3>1. e \in Events /\ log' = Append(log, e)
      BY <1>e, <2>1 DEF e
    <3> QED
      BY <1>l, <3>0, <3>1, NEyesKept
  <2>2. CASE /\ r.tr \in Gated => Enough(r)
             /\ log' = Append(log, Event("workflow.transition", r, "allow"))
    <3> DEFINE e == Event("workflow.transition", r, "allow")
    <3>0. e.req = r
      BY DEF Event
    <3> HIDE DEF e
    <3>1. e \in Events /\ log' = Append(log, e)
      BY <1>e, <2>2 DEF e
    <3>2. ASSUME r.tr \in Gated
          PROVE  Cardinality(ApprovedBefore(Len(log) + 1, r.rec, r.tr) \cup {r.sub})
                   >= Required[r.tr]
      <4> DEFINE small == Approvers(r.rec, r.tr) \cup {r.sub}
                 big == ApprovedBefore(Len(log) + 1, r.rec, r.tr) \cup {r.sub}
      <4>1. Cardinality(small) >= Required[r.tr] /\ Required[r.tr] \in Nat
        BY <1>1, <2>2, <3>2 DEF Enough
      <4>2. small \in SUBSET big /\ IsFiniteSet(big)
        BY <1>f
      <4> HIDE DEF small, big
      <4>3. Cardinality(small) <= Cardinality(big) /\ IsFiniteSet(small)
        BY <4>2, FS_Subset
      <4>4. Cardinality(small) \in Nat /\ Cardinality(big) \in Nat
        BY <4>2, <4>3, FS_CardinalityType
      <4> QED
        BY <4>1, <4>3, <4>4 DEF big
    <3> QED
      BY <1>l, <3>0, <3>1, <3>2, NEyesKept
  <2> QED
    BY <1>1, <2>1, <2>2
<1> QED
  BY <1>2, <1>3, <1>4, <1>5, <1>6, <1>7 DEF WorkflowInv
\* The routes that create and edit records leave the workflow tables and the
\* rows that a transaction has locked alone.
LEMMA RecordRoutesInv ==
  ASSUME WorkflowInv, TypeOK', NEW rec \in Records,
         CreateRecord(rec) \/ \E f \in Fields : UpdateRecord(rec, f)
  PROVE  WorkflowInv'
<1> USE WorkflowAssumption
<1>t. TypeOK /\ \A g \in Handlers : RowLocked(g) /\ ChecksHold(g) /\ BufferFresh(g)
  BY DEF WorkflowInv
<1>1. /\ UNCHANGED <<approvals, log, rowLock, pc, req, inserted, removed, effect>>
      /\ created \subseteq created'
      /\ \A x \in Records : x \in created => state'[x] = state[x]
      /\ \A x \in Records : rowLock[x] # NoOne => fields'[x] = fields[x]
  BY <1>t DEF CreateRecord, UpdateRecord, txn, TypeOK
<1>2. ASSUME NEW g \in Handlers
      PROVE  RowLocked(g)' /\ ChecksHold(g)' /\ BufferFresh(g)'
  <2>1. RowLocked(g)'
    BY <1>1, <1>t DEF RowLocked
  <2>2. pc[g] \in InTx =>
          /\ req[g].rec \in Records /\ req[g].rec \in created
          /\ rowLock[req[g].rec] # NoOne
    BY <1>t DEF RowLocked, ChecksHold, Requests, InTx
  <2>3. ChecksHold(g)'
    BY <1>1, <1>t, <2>2 DEF ChecksHold, InFromState
  <2>4. Enough(req[g])' <=> Enough(req[g])
    BY <1>1 DEF Enough, Approvers
  <2>5. BufferFresh(g)'
    BY <1>1, <1>t, <2>4 DEF BufferFresh, EndedRound
  <2> QED
    BY <2>1, <2>3, <2>5
<1>3. ApprovalsMatchState'
  BY <1>1, <1>t DEF WorkflowInv, ApprovalsMatchState, InFromState, TypeOK, Requests
<1>4. PendingBelowThreshold'
  BY <1>1 DEF WorkflowInv, PendingBelowThreshold, Approvers
<1>5. ApprovalsInLog'
  BY <1>1 DEF WorkflowInv, ApprovalsInLog, IsTransition
<1>6. NEyes'
  BY <1>1, NEyesFrame DEF WorkflowInv
<1> QED
  BY <1>2, <1>3, <1>4, <1>5, <1>6 DEF WorkflowInv

\* A refused state write only appends to the log.
LEMMA RejectedWriteInv ==
  ASSUME WorkflowInv, TypeOK', NEW w \in StateWrites, RejectStateWrite(w)
  PROVE  WorkflowInv'
<1> DEFINE e == Event("workflow.state_write_rejected", w, "deny")
<1>1. e \in Events /\ e.event # "workflow.transition" /\ log' = Append(log, e)
  BY DEF RejectStateWrite, Event, Events
<1> HIDE DEF e
<1>2. UNCHANGED <<created, state, fields, approvals, rowLock, pc, req, inserted, removed, effect>>
  BY DEF RejectStateWrite, db, txn
<1>3. ASSUME NEW g \in Handlers
      PROVE  RowLocked(g)' /\ ChecksHold(g)' /\ BufferFresh(g)'
  <2>1. RowLocked(g) /\ ChecksHold(g) /\ BufferFresh(g)
    BY DEF WorkflowInv
  <2>2. RowLocked(g)'
    BY <1>2, <2>1 DEF RowLocked
  <2>3. ChecksHold(g)'
    BY <1>2, <2>1 DEF ChecksHold, InFromState
  <2>4. BufferFresh(g)'
    BY <1>2, <2>1 DEF BufferFresh, EndedRound, Enough, Approvers
  <2> QED
    BY <2>2, <2>3, <2>4
<1>4. ApprovalsMatchState' /\ PendingBelowThreshold'
  BY <1>2 DEF WorkflowInv, ApprovalsMatchState, PendingBelowThreshold, InFromState, Approvers
<1>5. ApprovalsInLog'
  <2>1. \A a \in approvals : \E j \in 1..Len(log') :
            /\ log'[j].event = "workflow.approval_recorded" /\ log'[j].req = a
            /\ \A k \in (j + 1)..Len(log') : ~IsTransition(k, a.rec)'
    BY <1>1, ApprovalsInLogKept DEF TypeOK, WorkflowInv
  <2> QED
    BY <1>2, <2>1 DEF ApprovalsInLog
<1>6. NEyes'
  BY <1>1, NEyesKept DEF TypeOK, WorkflowInv
<1> QED
  BY <1>3, <1>4, <1>5, <1>6 DEF WorkflowInv

LEMMA InitInv == Init => WorkflowInv
<1> SUFFICES ASSUME Init PROVE WorkflowInv
  OBVIOUS
<1> USE WorkflowAssumption DEF Init
<1>1. TypeOK
  BY DEF TypeOK
<1>2. ASSUME NEW h \in Handlers PROVE RowLocked(h) /\ ChecksHold(h) /\ BufferFresh(h)
  BY <1>2 DEF RowLocked, ChecksHold, BufferFresh, InTx
<1>3. ApprovalsMatchState /\ ApprovalsInLog /\ NEyes
  BY DEF ApprovalsMatchState, ApprovalsInLog, NEyes
<1>4. PendingBelowThreshold
  <2>1. \A rec \in Records, t \in Gated : Approvers(rec, t) = {}
    BY DEF Approvers
  <2>2. Cardinality({}) = 0
    BY FS_EmptySet
  <2>3. \A t \in Gated : Required[t] \in Nat /\ Required[t] # 0
    OBVIOUS
  <2>4. \A n \in Nat : n # 0 => 0 < n
    OBVIOUS
  <2> QED
    BY <2>1, <2>2, <2>3, <2>4 DEF PendingBelowThreshold
<1> QED
  BY <1>1, <1>2, <1>3, <1>4 DEF WorkflowInv

\* The row lock keeps what a transaction has read of its record true until it
\* commits, so the invariant holds in every reachable state.
THEOREM WorkflowInvariant == Spec => []WorkflowInv
<1>1. Init => WorkflowInv
  BY InitInv
<1>2. WorkflowInv /\ [Next]_vars => WorkflowInv'
  <2> SUFFICES ASSUME WorkflowInv, [Next]_vars PROVE WorkflowInv'
    OBVIOUS
  <2>1. TypeOK'
    BY TypeStep DEF WorkflowInv
  <2>2. ASSUME NEW h \in Handlers, HandlerStep(h) PROVE WorkflowInv'
    BY <2>1, <2>2, NoWriteInv, CommitInv
  <2>3. ASSUME NEW rec \in Records, CreateRecord(rec) \/ \E f \in Fields : UpdateRecord(rec, f)
        PROVE  WorkflowInv'
    BY <2>1, <2>3, RecordRoutesInv
  <2>4. ASSUME NEW w \in StateWrites, RejectStateWrite(w) PROVE WorkflowInv'
    BY <2>1, <2>4, RejectedWriteInv
  <2>5. CASE UNCHANGED vars
    <3> USE <2>5 DEF vars
    <3>1. ASSUME NEW h \in Handlers
          PROVE  RowLocked(h)' /\ ChecksHold(h)' /\ BufferFresh(h)'
      <4>1. RowLocked(h) /\ ChecksHold(h) /\ BufferFresh(h)
        BY DEF WorkflowInv
      <4>2. RowLocked(h)'
        BY <4>1 DEF RowLocked
      <4>3. ChecksHold(h)'
        BY <4>1 DEF ChecksHold, InFromState
      <4>4. BufferFresh(h)'
        BY <4>1 DEF BufferFresh, EndedRound, Enough, Approvers
      <4> QED
        BY <4>2, <4>3, <4>4
    <3>2. ApprovalsMatchState' /\ PendingBelowThreshold'
      BY DEF WorkflowInv, ApprovalsMatchState, PendingBelowThreshold, InFromState, Approvers
    <3>3. ApprovalsInLog'
      BY DEF WorkflowInv, ApprovalsInLog, IsTransition
    <3>4. NEyes'
      BY NEyesFrame DEF WorkflowInv
    <3> QED
      BY <2>1, <3>1, <3>2, <3>3, <3>4 DEF WorkflowInv
  <2> QED
    BY <2>2, <2>3, <2>4, <2>5 DEF Next, HandlerStep
<1> QED
  BY <1>1, <1>2, PTL DEF Spec

-----------------------------------------------------------------------------
\* setState's comment: pending approvals are always for the current state, so a
\* record that comes back to a state starts with none.
THEOREM NoStaleApprovals == Spec => []ApprovalsMatchState
<1>1. WorkflowInv => ApprovalsMatchState
  BY DEF WorkflowInv
<1> QED
  BY <1>1, WorkflowInvariant, PTL

\* No interleaving of final approvals leaves a record with enough approvals
\* and its old state.
THEOREM NoLostFlip == Spec => []PendingBelowThreshold
<1>1. WorkflowInv => PendingBelowThreshold
  BY DEF WorkflowInv
<1> QED
  BY <1>1, WorkflowInvariant, PTL

\* The audit log shows, before every gated transition, the required number of
\* distinct approvers since the last transition of the record.
THEOREM EnoughApprovers == Spec => []NEyes
<1>1. WorkflowInv => NEyes
  BY DEF WorkflowInv
<1> QED
  BY <1>1, WorkflowInvariant, PTL

\* The predicates checked on the locked row still hold when the state changes:
\* an edit that races with the approvals cannot slip through.
THEOREM PredicatesHoldAtFlip == Spec => GuardHoldsAtFlip
<1> DEFINE A == \A rec \in created : state'[rec] # state[rec]
                  => LET r == log'[Len(log')].req
                     IN r.rec = rec /\ fields[rec] \in Passes[r.tr]
<1>1. WorkflowInv /\ [Next]_vars => [A]_vars
  <2> SUFFICES ASSUME WorkflowInv, [Next]_vars, NEW rec \in created,
                      state'[rec] # state[rec],
                      NEW r, r = log'[Len(log')].req
               PROVE  r.rec = rec /\ fields[rec] \in Passes[r.tr]
    OBVIOUS
  <2>0. TypeOK
    BY DEF WorkflowInv
  <2>1. ASSUME NEW h \in Handlers, Commit(h)
        PROVE  r.rec = rec /\ fields[rec] \in Passes[r.tr]
    <3> DEFINE e == Event("workflow.transition", req[h], "allow")
    <3>1. /\ req[h] \in Requests
          /\ fields[req[h].rec] \in Passes[req[h].tr]
      BY <2>1 DEF WorkflowInv, ChecksHold, Commit, InTx
    <3>2. /\ state' = [state EXCEPT ![req[h].rec][WorkflowOf[req[h].tr]] = To[req[h].tr]]
          /\ log' = Append(log, e)
      BY <2>1 DEF Commit
    <3>3. e \in Events /\ e.req = req[h]
      BY <3>1 DEF Event, Events, EventNames
    <3>4. req[h].rec = rec
      BY <3>2, <2>0 DEF TypeOK
    <3> HIDE DEF e
    <3>5. log'[Len(log')] = e
      BY <2>0, <3>2, <3>3, AppendFacts DEF TypeOK
    <3> QED
      BY <3>1, <3>3, <3>4, <3>5
  <2>2. ASSUME NEW h \in Handlers, HandlerStep(h), ~Commit(h) PROVE UNCHANGED state
    BY <2>2 DEF HandlerStep, Proceed, Arrive, Peek, DecideGuard, DecideApproval, LockRow,
         InsertApproval, FlushDuplicate, CountApprovals, SetState, AppendInTransaction,
         AuditFails, AuditAnswerLost, Rollback, db
  <2>3. ASSUME NEW x \in Records, CreateRecord(x) PROVE state'[rec] = state[rec]
    BY <2>0, <2>3 DEF CreateRecord, TypeOK
  <2>4. ASSUME NEW x \in Records, NEW f \in Fields, UpdateRecord(x, f) PROVE UNCHANGED state
    BY <2>4 DEF UpdateRecord
  <2>5. ASSUME NEW w \in StateWrites, RejectStateWrite(w) PROVE UNCHANGED state
    BY <2>5 DEF RejectStateWrite, db
  <2>6. CASE UNCHANGED vars
    BY <2>6 DEF vars
  <2> QED
    BY <2>1, <2>2, <2>3, <2>4, <2>5, <2>6 DEF Next, HandlerStep
<1> QED
  BY <1>1, WorkflowInvariant, PTL DEF Spec, GuardHoldsAtFlip

-----------------------------------------------------------------------------
(* The state is the replay of the log.                                     *)

\* A set of natural numbers has a least element.
LEMMA SmallestOf ==
  ASSUME NEW S, S \subseteq Nat, S # {}
  PROVE  \E i \in S : \A j \in S : i <= j
<1> DEFINE R == {ss \in Nat \X Nat : ss[1] < ss[2]}
<1>1. IsWellFoundedOn(R, Nat)
  BY NatLessThanWellFounded DEF OpToRel
<1> HIDE DEF R
<1>2. PICK x \in S : \A y \in S : ~(<<y, x>> \in R)
  BY <1>1, WFMin
<1>3. \A y \in S : ~(y < x)
  BY <1>2 DEF R
<1> QED
  BY <1>3

\* A set of positions of a sequence has a last one.
LEMMA LargestOf ==
  ASSUME NEW n \in Nat, NEW S, S \subseteq 1..n, S # {}
  PROVE  \E i \in S : \A j \in S : j <= i
<1> DEFINE T == {m \in Nat : n - m \in S}
<1>1. T \subseteq Nat /\ T # {}
  <2>1. PICK s \in S : TRUE
    OBVIOUS
  <2>2. n - s \in Nat /\ n - (n - s) = s
    BY <2>1
  <2> QED
    BY <2>1, <2>2
<1> HIDE DEF T
<1>2. PICK m \in T : \A k \in T : m <= k
  BY <1>1, SmallestOf
<1>3. n - m \in S
  BY <1>2 DEF T
<1>4. ASSUME NEW j \in S PROVE j <= n - m
  <2>1. n - j \in Nat /\ n - (n - j) = j
    OBVIOUS
  <2>2. n - j \in T
    BY <2>1 DEF T
  <2>3. m \in Nat /\ m <= n - j
    BY <1>1, <1>2, <2>2
  <2> QED
    BY <2>1, <2>3
<1> QED
  BY <1>3, <1>4

\* Which records are transitions does not depend on what is appended later.
LEMMA TransitionsKept ==
  ASSUME log \in Seq(Events), NEW e \in Events, log' = Append(log, e), NEW rec, NEW w
  PROVE  /\ Changed(rec, w) \subseteq 1..Len(log)
         /\ Changed(rec, w)' = Changed(rec, w) \cup
              (IF e.event = "workflow.transition" /\ e.req.rec = rec
                  /\ WorkflowOf[e.req.tr] = w THEN {Len(log) + 1} ELSE {})
<1>1. /\ Len(log) \in Nat /\ Len(log') = Len(log) + 1
      /\ \A i \in 1..Len(log) : log'[i] = log[i]
      /\ log'[Len(log) + 1] = e
  BY AppendFacts
<1>2. \A i \in 1..Len(log) : IsTransition(i, rec)' <=> IsTransition(i, rec)
  BY <1>1 DEF IsTransition
<1>3. ASSUME NEW k, k = Len(log) + 1
      PROVE  IsTransition(k, rec)' <=> e.event = "workflow.transition" /\ e.req.rec = rec
  BY <1>1, <1>3 DEF IsTransition
<1>4. 1..Len(log') = (1..Len(log)) \cup {Len(log) + 1}
  BY <1>1
<1>5. ASSUME NEW i \in 1..Len(log)
      PROVE  i \in Changed(rec, w)' <=> i \in Changed(rec, w)
  BY <1>1, <1>2, <1>4 DEF Changed
<1>6. Len(log) + 1 \in Changed(rec, w)'
        <=> e.event = "workflow.transition" /\ e.req.rec = rec /\ WorkflowOf[e.req.tr] = w
  BY <1>1, <1>3, <1>4 DEF Changed
<1>7. Changed(rec, w) \subseteq 1..Len(log) /\ Changed(rec, w)' \subseteq 1..Len(log')
  BY DEF Changed
<1>8. Len(log) + 1 \notin Changed(rec, w)
  BY <1>1, <1>7
<1> QED
  BY <1>4, <1>5, <1>6, <1>7, <1>8

\* The last of the records before position n is one of them.
LEMMA LastChange ==
  ASSUME log \in Seq(Events), NEW n, NEW rec, NEW w, ChangedBefore(n, rec, w) # {}
  PROVE  \E i \in ChangedBefore(n, rec, w) :
            /\ i \in 1..Len(log)
            /\ \A j \in ChangedBefore(n, rec, w) : j <= i
            /\ i = CHOOSE k \in ChangedBefore(n, rec, w) :
                      \A j \in ChangedBefore(n, rec, w) : j <= k
            /\ StateAt(n, rec, w) = To[log[i].req.tr]
<1> DEFINE S == ChangedBefore(n, rec, w)
           last == CHOOSE k \in S : \A j \in S : j <= k
<1>1. S \subseteq 1..Len(log) /\ Len(log) \in Nat
  BY DEF ChangedBefore, Changed
<1>2. \E k \in S : \A j \in S : j <= k
  <2>1. S # {}
    OBVIOUS
  <2> HIDE DEF S
  <2> QED
    BY <1>1, <2>1, LargestOf
<1>3. last \in S /\ \A j \in S : j <= last
  BY <1>2
<1>4. StateAt(n, rec, w) = To[log[last].req.tr]
  BY DEF StateAt
<1> QED
  BY <1>1, <1>3, <1>4

\* The state at a position depends on the records before it.
LEMMA StateAtKept ==
  ASSUME log \in Seq(Events), log' \in Seq(Events), NEW n, NEW m, NEW rec, NEW w,
         ChangedBefore(m, rec, w)' = ChangedBefore(n, rec, w),
         \A i \in 1..Len(log) : log'[i] = log[i]
  PROVE  StateAt(m, rec, w)' = StateAt(n, rec, w)
<1>1. CASE ChangedBefore(n, rec, w) = {}
  BY <1>1 DEF StateAt
<1>2. CASE ChangedBefore(n, rec, w) # {}
  <2>1. PICK i \in ChangedBefore(n, rec, w) :
            /\ i \in 1..Len(log)
            /\ i = CHOOSE k \in ChangedBefore(n, rec, w) :
                      \A j \in ChangedBefore(n, rec, w) : j <= k
            /\ StateAt(n, rec, w) = To[log[i].req.tr]
    BY <1>2, LastChange
  <2>2. StateAt(m, rec, w)' = To[log'[i].req.tr]
    BY <1>2, <2>1 DEF StateAt
  <2> QED
    BY <2>1, <2>2
<1> QED
  BY <1>1, <1>2

\* After a transition of the workflow is logged, the state is the one it enters.
LEMMA StateAtEnd ==
  ASSUME log \in Seq(Events), NEW e \in Events, log' = Append(log, e), NEW rec, NEW w
  PROVE  /\ \A n \in 1..(Len(log) + 1) : StateAt(n, rec, w)' = StateAt(n, rec, w)
         /\ StateAt(Len(log) + 1, rec, w)' =
              IF e.event = "workflow.transition" /\ e.req.rec = rec
                  /\ WorkflowOf[e.req.tr] = w
              THEN To[e.req.tr] ELSE StateAt(Len(log) + 1, rec, w)
<1> DEFINE hit == e.event = "workflow.transition" /\ e.req.rec = rec /\ WorkflowOf[e.req.tr] = w
<1>0. PICK N : N = Len(log) + 1
  OBVIOUS
<1>1. /\ log' \in Seq(Events) /\ Len(log) \in Nat /\ Len(log') = N /\ N = Len(log) + 1
      /\ \A i \in 1..Len(log) : log'[i] = log[i]
      /\ log'[N] = e
  BY <1>0, AppendFacts
<1>2. /\ Changed(rec, w) \subseteq 1..Len(log)
      /\ Changed(rec, w)' = Changed(rec, w) \cup (IF hit THEN {N} ELSE {})
  BY <1>0, TransitionsKept
<1> HIDE DEF hit
<1>3. ASSUME NEW n \in 1..N PROVE StateAt(n, rec, w)' = StateAt(n, rec, w)
  <2>1. ChangedBefore(n, rec, w)' = ChangedBefore(n, rec, w)
    BY <1>1, <1>2 DEF ChangedBefore
  <2> QED
    BY <1>1, <2>1, StateAtKept
<1>4. CASE ~hit
  <2>1. ChangedBefore(N + 1, rec, w)' = ChangedBefore(N, rec, w)
    BY <1>1, <1>2, <1>4 DEF ChangedBefore
  <2>2. StateAt(N + 1, rec, w)' = StateAt(N, rec, w)
    BY <1>1, <2>1, StateAtKept
  <2> QED
    BY <1>1, <1>3, <1>4, <2>2 DEF hit
<1>5. CASE hit
  <2> DEFINE S == ChangedBefore(N + 1, rec, w)'
  <2>1. S = Changed(rec, w) \cup {N}
    BY <1>1, <1>2, <1>5 DEF ChangedBefore
  <2> HIDE DEF S
  <2>2. N \in S /\ \A j \in S : j <= N
    BY <1>1, <1>2, <2>1
  <2>3. \A k \in S : (\A j \in S : j <= k) => k = N
    BY <1>1, <1>2, <2>1
  <2>4. (CHOOSE k \in S : \A j \in S : j <= k) = N
    BY <2>2, <2>3
  <2>5. StateAt(N + 1, rec, w)' = To[log'[N].req.tr]
    BY <2>2, <2>4 DEF S, StateAt
  <2> QED
    BY <1>1, <1>3, <1>5, <2>5 DEF hit
<1> QED
  BY <1>4, <1>5

\* A step logs nothing, creates a record, logs something that is no transition,
\* or is the COMMIT of one.
LEMMA ReplaySteps ==
  ASSUME WorkflowInv, [Next]_vars
  PROVE  \/ UNCHANGED <<log, state, created>>
         \/ \E rec \in Records : CreateRecord(rec)
         \/ \E e \in Events : /\ e.event # "workflow.transition" /\ log' = Append(log, e)
                              /\ UNCHANGED <<state, created>>
         \/ \E h \in Handlers : Commit(h) /\ effect[h] = "flipped"
<1>t. TypeOK /\ \A h \in Handlers : ChecksHold(h)
  BY DEF WorkflowInv
<1>e. ASSUME NEW h \in Handlers, pc[h] # "idle", NEW name \in EventNames \ {"workflow.transition"},
             NEW d \in {"allow", "deny"}
      PROVE  /\ Event(name, req[h], d) \in Events
             /\ Event(name, req[h], d).event # "workflow.transition"
  BY <1>t, <1>e DEF ChecksHold, Event, Events
<1>1. ASSUME NEW h \in Handlers, DecideGuard(h) \/ DecideApproval(h) \/ FlushDuplicate(h)
                                   \/ AuditAnswerLost(h)
      PROVE  \E e \in Events : /\ e.event # "workflow.transition" /\ log' = Append(log, e)
                               /\ UNCHANGED <<state, created>>
  <2>1. \E name \in EventNames \ {"workflow.transition"}, d \in {"allow", "deny"} :
           log' = Append(log, Event(name, req[h], d)) /\ pc[h] # "idle"
    BY <1>1 DEF DecideGuard, DecideApproval, FlushDuplicate, AuditAnswerLost, Audited, EventNames
  <2>2. UNCHANGED <<state, created>>
    BY <1>1 DEF DecideGuard, DecideApproval, FlushDuplicate, AuditAnswerLost, db
  <2> QED
    BY <2>1, <2>2, <1>e
<1>2. ASSUME NEW h \in Handlers,
             \/ \E r \in Requests : Arrive(h, r)
             \/ Peek(h) \/ AuditFails(h) \/ LockRow(h) \/ InsertApproval(h) \/ CountApprovals(h)
             \/ SetState(h) \/ AppendInTransaction(h) \/ Rollback(h)
      PROVE  UNCHANGED <<log, state, created>>
  BY <1>2 DEF Arrive, Peek, AuditFails, LockRow, InsertApproval, CountApprovals, SetState,
              AppendInTransaction, Rollback, db
<1>3. ASSUME NEW h \in Handlers, Commit(h), effect[h] # "flipped"
      PROVE  \E e \in Events : /\ e.event # "workflow.transition" /\ log' = Append(log, e)
                               /\ UNCHANGED <<state, created>>
  <2>1. /\ pc[h] # "idle" /\ log' = Append(log, Event("workflow.approval_recorded", req[h], "allow"))
        /\ UNCHANGED <<state, created>>
    BY <1>3 DEF Commit
  <2> QED
    BY <2>1, <1>e DEF EventNames
<1>4. ASSUME NEW w \in StateWrites, RejectStateWrite(w)
      PROVE  \E e \in Events : /\ e.event # "workflow.transition" /\ log' = Append(log, e)
                               /\ UNCHANGED <<state, created>>
  BY <1>4 DEF RejectStateWrite, Event, Events, db
<1>5. ASSUME NEW rec \in Records, NEW f \in Fields, UpdateRecord(rec, f)
      PROVE  UNCHANGED <<log, state, created>>
  BY <1>5 DEF UpdateRecord
<1>6. CASE UNCHANGED vars
  BY <1>6 DEF vars
<1> QED
  BY <1>1, <1>2, <1>3, <1>4, <1>5, <1>6 DEF Next, Proceed

\* Every step keeps the state column equal to the replay of the log.
LEMMA ReplayStep ==
  ASSUME WorkflowInv, ReplayInv, [Next]_vars
  PROVE  ReplayInv'
<1>t. TypeOK /\ log \in Seq(Events)
  BY DEF WorkflowInv, TypeOK
<1> USE DEF ReplayInv
<1>1. ASSUME log' = log, NEW rec, NEW w
      PROVE  /\ Changed(rec, w)' = Changed(rec, w)
             /\ \A n : StateAt(n, rec, w)' = StateAt(n, rec, w)
  <2>1. Changed(rec, w)' = Changed(rec, w)
    BY <1>1 DEF Changed, IsTransition
  <2>2. ASSUME NEW n PROVE StateAt(n, rec, w)' = StateAt(n, rec, w)
    <3>1. ChangedBefore(n, rec, w)' = ChangedBefore(n, rec, w)
      BY <2>1 DEF ChangedBefore
    <3> QED
      BY <1>1, <3>1 DEF StateAt
  <2> QED
    BY <2>1, <2>2
<1>2. CASE UNCHANGED <<log, state, created>>
  BY <1>1, <1>2 DEF StateMatchesLog
<1>3. ASSUME NEW rec \in Records, CreateRecord(rec) PROVE ReplayInv'
  <2>1. /\ rec \notin created /\ created' = created \cup {rec} /\ log' = log
        /\ \A x \in Records : state'[x] = IF x = rec THEN Initial ELSE state[x]
    BY <1>3, <1>t DEF CreateRecord, TypeOK
  <2>2. ASSUME NEW w \in Workflows PROVE Initial[w] = StateAt(Len(log) + 1, rec, w)
    <3>1. ChangedBefore(Len(log) + 1, rec, w) = {}
      BY <2>1 DEF ChangedBefore
    <3> QED
      BY <3>1 DEF StateAt
  <2>3. StateMatchesLog'
    BY <1>1, <2>1, <2>2 DEF StateMatchesLog
  <2> QED
    BY <1>1, <2>1, <2>3
<1>4. ASSUME NEW e \in Events, log' = Append(log, e), NEW rec \in Records, NEW w \in Workflows,
             ~(e.event = "workflow.transition" /\ e.req.rec = rec /\ WorkflowOf[e.req.tr] = w),
             state'[rec][w] = state[rec][w]
      PROVE  /\ Changed(rec, w)' = Changed(rec, w)
             /\ state'[rec][w] = StateAt(Len(log) + 1, rec, w)'
             /\ \A i \in Changed(rec, w)' : From[log'[i].req.tr] = StateAt(i, rec, w)'
  <2>1. Changed(rec, w)' = Changed(rec, w) /\ Changed(rec, w) \subseteq 1..Len(log)
    <3>1. /\ Changed(rec, w) \subseteq 1..Len(log)
          /\ Changed(rec, w)' = Changed(rec, w) \cup
               (IF e.event = "workflow.transition" /\ e.req.rec = rec
                   /\ WorkflowOf[e.req.tr] = w THEN {Len(log) + 1} ELSE {})
      BY ONLY <1>t, log' = Append(log, e), e \in Events, TransitionsKept
    <3> QED
      BY <1>4, <3>1
  <2>2. StateAt(Len(log) + 1, rec, w)' = StateAt(Len(log) + 1, rec, w)
    BY <1>t, <1>4, StateAtEnd
  <2>3. \A i \in 1..Len(log) : StateAt(i, rec, w)' = StateAt(i, rec, w) /\ log'[i] = log[i]
    <3>1. Len(log) \in Nat /\ \A i \in 1..Len(log) : i \in 1..(Len(log) + 1)
      BY <1>t
    <3>2. \A n \in 1..(Len(log) + 1) : StateAt(n, rec, w)' = StateAt(n, rec, w)
      BY ONLY <1>t, log' = Append(log, e), e \in Events, StateAtEnd
    <3>3. \A i \in 1..Len(log) : log'[i] = log[i]
      BY <1>t, <1>4, AppendFacts
    <3> QED
      BY <3>1, <3>2, <3>3
  <2> QED
    BY <1>4, <2>1, <2>2, <2>3 DEF StateMatchesLog
<1>5. ASSUME NEW e \in Events, e.event # "workflow.transition", log' = Append(log, e),
             UNCHANGED <<state, created>>
      PROVE  ReplayInv'
  <2>1. StateMatchesLog'
    BY <1>4, <1>5 DEF StateMatchesLog
  <2> QED
    BY <1>4, <1>5, <2>1
<1>6. ASSUME NEW h \in Handlers, Commit(h), effect[h] = "flipped" PROVE ReplayInv'
  <2> DEFINE r == req[h]
             v == WorkflowOf[r.tr]
             e == Event("workflow.transition", r, "allow")
  <2>1. /\ r \in Requests /\ r.rec \in created /\ InFromState(r)
    BY <1>6 DEF WorkflowInv, ChecksHold, Commit, InTx
  <2>2. r.rec \in Records /\ r.tr \in Transitions /\ v \in Workflows
    BY <2>1, WorkflowAssumption DEF Requests
  <2>3. e \in Events /\ e.event = "workflow.transition" /\ e.req = r
    BY <2>1 DEF Event, Events, EventNames
  <2>4. /\ log' = Append(log, e) /\ UNCHANGED created
        /\ state' = [state EXCEPT ![r.rec][v] = To[r.tr]]
    BY <1>6 DEF Commit
  <2>5. \A x \in Records, w \in Workflows :
           state'[x][w] = IF x = r.rec /\ w = v THEN To[r.tr] ELSE state[x][w]
    BY <1>t, <2>2, <2>4 DEF TypeOK
  <2>6. state[r.rec][v] = From[r.tr]
    BY <2>1 DEF InFromState
  <2> HIDE DEF e
  <2>7. ASSUME NEW x \in Records, NEW w \in Workflows
        PROVE  /\ state'[x][w] = StateAt(Len(log) + 1, x, w)'
               /\ \A i \in Changed(x, w)' : From[log'[i].req.tr] = StateAt(i, x, w)'
    <3>1. CASE ~(x = r.rec /\ w = v)
      <4>1. ~(e.event = "workflow.transition" /\ e.req.rec = x /\ WorkflowOf[e.req.tr] = w)
        BY <2>3, <3>1
      <4>2. state'[x][w] = state[x][w]
        BY <2>5, <3>1
      <4> QED
        BY <1>4, <2>3, <2>4, <4>1, <4>2
    <3>2. CASE x = r.rec /\ w = v
      <4>1. /\ Changed(x, w)' = Changed(x, w) \cup {Len(log) + 1}
            /\ Changed(x, w) \subseteq 1..Len(log)
        BY <1>t, <2>3, <2>4, <3>2, TransitionsKept
      <4>2. StateAt(Len(log) + 1, x, w)' = To[r.tr]
        BY <1>t, <2>3, <2>4, <3>2, StateAtEnd
      <4>3. /\ Len(log) \in Nat /\ log'[Len(log) + 1] = e
            /\ \A i \in 1..Len(log) : log'[i] = log[i]
        BY <1>t, <2>3, <2>4, AppendFacts
      <4>4. \A n \in 1..(Len(log) + 1) : StateAt(n, x, w)' = StateAt(n, x, w)
        BY <1>t, <2>3, <2>4, StateAtEnd
      <4>5. ASSUME NEW i \in Changed(x, w)'
            PROVE  From[log'[i].req.tr] = StateAt(i, x, w)'
        <5>1. CASE i = Len(log) + 1
          <6>1. StateAt(i, x, w)' = StateAt(i, x, w)
            BY <4>3, <4>4, <5>1
          <6>2. StateAt(i, x, w) = state[x][w]
            BY <5>1 DEF StateMatchesLog
          <6> QED
            BY <2>3, <2>6, <3>2, <4>3, <5>1, <6>1, <6>2
        <5>2. CASE i # Len(log) + 1
          <6>1. i \in Changed(x, w) /\ i \in 1..Len(log) /\ i \in 1..(Len(log) + 1)
            BY <4>1, <4>3, <5>2
          <6> QED
            BY <4>3, <4>4, <6>1 DEF StateMatchesLog
        <5> QED
          BY <5>1, <5>2
      <4> QED
        BY <2>5, <3>2, <4>2, <4>5
    <3> QED
      BY <3>1, <3>2
  <2>8. ASSUME NEW x \in Records \ created, NEW w \in Workflows PROVE Changed(x, w)' = {}
    <3>1. x # r.rec /\ state'[x][w] = state[x][w]
      BY <2>1, <2>5
    <3> QED
      BY <1>4, <2>3, <2>4, <2>8, <3>1
  <2> QED
    BY <2>4, <2>7, <2>8 DEF StateMatchesLog
<1> QED
  BY <1>2, <1>3, <1>5, <1>6, ReplaySteps

\* The audit log and the state column agree whatever the interleaving of
\* transitions, rollbacks and failed appends: replaying the one gives the other.
THEOREM LogIsReplayed == Spec => []StateMatchesLog
<1>1. Init => ReplayInv
  <2> SUFFICES ASSUME Init PROVE ReplayInv
    OBVIOUS
  <2>1. \A rec, w : Changed(rec, w) = {}
    BY DEF Init, Changed
  <2>2. \A n, rec, w : StateAt(n, rec, w) = Initial[w]
    <3>1. \A n, rec, w : ChangedBefore(n, rec, w) = {}
      BY <2>1 DEF ChangedBefore
    <3> QED
      BY <3>1 DEF StateAt
  <2> QED
    BY <2>1, <2>2 DEF ReplayInv, StateMatchesLog, Init
<1>2. WorkflowInv /\ ReplayInv /\ [Next]_vars => ReplayInv'
  BY ReplayStep
<1>3. ReplayInv => StateMatchesLog
  BY DEF ReplayInv
<1> QED
  BY <1>1, <1>2, <1>3, WorkflowInvariant, PTL DEF Spec

-----------------------------------------------------------------------------
(* Every effect has a decision of its own before it.                       *)

\* Whether e is one of the records that AllowedUpTo counts for r.
Counts(e, r, names) == e.event \in names /\ e.req = r /\ e.decision = "allow"

\* What was allowed up to a position is a finite set that an append leaves alone.
LEMMA AllowedFinite ==
  ASSUME NEW n \in Nat, NEW r, NEW names
  PROVE  /\ IsFiniteSet(AllowedUpTo(n, r, names))
         /\ Cardinality(AllowedUpTo(n, r, names)) \in Nat
<1>1. AllowedUpTo(n, r, names) \in SUBSET (1..n)
  BY DEF AllowedUpTo
<1>2. IsFiniteSet(AllowedUpTo(n, r, names))
  BY <1>1, FS_Interval, FS_Subset
<1> QED
  BY <1>2, FS_CardinalityType

\* An append changes nothing that was logged before it.
LEMMA AllowedKept ==
  ASSUME log \in Seq(Events), NEW e \in Events, log' = Append(log, e),
         NEW n \in 0..Len(log), NEW r, NEW names
  PROVE  AllowedUpTo(n, r, names)' = AllowedUpTo(n, r, names)
<1>1. \A i \in 1..n : log'[i] = log[i]
  BY AppendFacts
<1> QED
  BY <1>1 DEF AllowedUpTo

\* An append counts once, if it counts.
LEMMA AllowedGrows ==
  ASSUME log \in Seq(Events), NEW e \in Events, log' = Append(log, e), NEW r, NEW names
  PROVE  Cardinality(AllowedUpTo(Len(log), r, names))' =
           Cardinality(AllowedUpTo(Len(log), r, names))
             + (IF Counts(e, r, names) THEN 1 ELSE 0)
<1> DEFINE A == AllowedUpTo(Len(log), r, names)
<1>0. PICK N : N = Len(log)
  OBVIOUS
<1>1. /\ N \in Nat /\ Len(log') = N + 1 /\ log'[N + 1] = e
      /\ \A i \in 1..N : log'[i] = log[i]
  BY <1>0, AppendFacts
<1>2. A \subseteq 1..N /\ N + 1 \notin A
  BY <1>0, <1>1 DEF AllowedUpTo
<1>3. AllowedUpTo(N + 1, r, names)' = A \cup (IF Counts(e, r, names) THEN {N + 1} ELSE {})
  <2>1. 1..(N + 1) = (1..N) \cup {N + 1}
    BY <1>1
  <2>2. ASSUME NEW i \in 1..N PROVE i \in AllowedUpTo(N + 1, r, names)' <=> i \in A
    BY <1>0, <1>1, <2>1 DEF AllowedUpTo
  <2>3. N + 1 \in AllowedUpTo(N + 1, r, names)' <=> Counts(e, r, names)
    BY <1>1, <2>1 DEF AllowedUpTo, Counts
  <2>4. AllowedUpTo(N + 1, r, names)' \subseteq 1..(N + 1)
    BY DEF AllowedUpTo
  <2> QED
    BY <1>2, <2>1, <2>2, <2>3, <2>4
<1>4. (AllowedUpTo(Len(log), r, names))' = AllowedUpTo(N + 1, r, names)'
  BY <1>1 DEF AllowedUpTo
<1>5. IsFiniteSet(A) /\ Cardinality(A) \in Nat
  BY <1>0, <1>1, AllowedFinite
<1> HIDE DEF A
<1>6. CASE Counts(e, r, names)
  <2>1. Cardinality(A \cup {N + 1}) = Cardinality(A) + 1
    BY <1>2, <1>5, FS_AddElement
  <2> QED
    BY <1>3, <1>4, <1>6, <2>1 DEF A
<1>7. CASE ~Counts(e, r, names)
  <2>1. AllowedUpTo(N + 1, r, names)' = A
    BY <1>3, <1>7
  <2> QED
    BY <1>4, <1>5, <1>7, <2>1 DEF A
<1> QED
  BY <1>6, <1>7

-----------------------------------------------------------------------------
\* What one step adds to the handlers that may still act on a decision for q:
\* at most as much as it adds to the decisions, less what it adds to the effects.
Balanced(S, T, gain, spent) ==
  /\ IsFiniteSet(S) => IsFiniteSet(T)
  /\ IsFiniteSet(S) => Cardinality(T) + spent <= Cardinality(S) + gain

\* Handlers that leave, or stay, gain nothing.
LEMMA BalancedLess ==
  ASSUME NEW S, NEW T, T \subseteq S, NEW gain \in {0, 1}
  PROVE  Balanced(S, T, gain, 0)
<1> SUFFICES ASSUME IsFiniteSet(S)
             PROVE  IsFiniteSet(T) /\ Cardinality(T) + 0 <= Cardinality(S) + gain
  BY DEF Balanced
<1>1. IsFiniteSet(T) /\ Cardinality(T) <= Cardinality(S)
  BY FS_Subset
<1>2. Cardinality(S) \in Nat /\ Cardinality(T) \in Nat
  BY <1>1, FS_CardinalityType
<1> QED
  BY <1>1, <1>2

\* A decision lets one handler more act.
LEMMA BalancedAdd ==
  ASSUME NEW S, NEW x
  PROVE  Balanced(S, S \cup {x}, 1, 0)
<1> SUFFICES ASSUME IsFiniteSet(S)
             PROVE  IsFiniteSet(S \cup {x}) /\ Cardinality(S \cup {x}) + 0 <= Cardinality(S) + 1
  BY DEF Balanced
<1>1. Cardinality(S) \in Nat
  BY FS_CardinalityType
<1> QED
  BY <1>1, FS_AddElement

\* An effect takes the handler that had it.
LEMMA BalancedRemove ==
  ASSUME NEW S, NEW x \in S
  PROVE  Balanced(S, S \ {x}, 0, 1)
<1> SUFFICES ASSUME IsFiniteSet(S)
             PROVE  IsFiniteSet(S \ {x}) /\ Cardinality(S \ {x}) + 1 <= Cardinality(S) + 0
  BY DEF Balanced
<1>1. Cardinality(S) \in Nat
  BY FS_CardinalityType
<1>2. IsFiniteSet(S \ {x}) /\ Cardinality(S \ {x}) = Cardinality(S) - 1
  BY FS_RemoveElement
<1> QED
  BY <1>1, <1>2

One(b) == IF b THEN 1 ELSE 0

Guards == {"guard.decision"}
Approvals == {"approval.decision"}

\* Numbers of effects, of decisions and of handlers that the invariant relates.
Used(r) == Cardinality(AllowedUpTo(Len(log), r, Effects))
Given(r, names) == Cardinality(AllowedUpTo(Len(log), r, names))

\* The sets that CauseInv counts are finite.
LEMMA CauseNumbers ==
  ASSUME TypeOK, NEW r, IsFiniteSet(PastGuard(r))
  PROVE  /\ Used(r) \in Nat /\ \A names : Given(r, names) \in Nat
         /\ IsFiniteSet(PastApproval(r))
         /\ Cardinality(PastGuard(r)) \in Nat /\ Cardinality(PastApproval(r)) \in Nat
<1>1. Len(log) \in Nat
  BY DEF TypeOK
<1>2. PastApproval(r) \in SUBSET PastGuard(r)
  BY DEF PastApproval, PastGuard
<1>3. IsFiniteSet(PastApproval(r))
  BY <1>2, FS_Subset
<1> QED
  BY <1>1, <1>3, AllowedFinite, FS_CardinalityType DEF Used, Given

\* A step that leaves the log alone and lets no handler past a decision.
LEMMA CauseQuiet ==
  ASSUME TypeOK, CauseInv, log' = log,
         \A r \in Requests : /\ PastGuard(r)' \subseteq PastGuard(r)
                             /\ PastApproval(r)' \subseteq PastApproval(r)
  PROVE  CauseInv'
<1> SUFFICES ASSUME NEW r \in Requests
             PROVE  /\ IsFiniteSet(PastGuard(r))'
                    /\ Used(r)' + Cardinality(PastGuard(r))' <= Given(r, Guards)'
                    /\ r.tr \in Gated =>
                         Used(r)' + Cardinality(PastApproval(r))' <= Given(r, Approvals)'
  BY DEF CauseInv, Used, Given, Guards, Approvals
<1>1. /\ IsFiniteSet(PastGuard(r))
      /\ Used(r) + Cardinality(PastGuard(r)) <= Given(r, Guards)
      /\ r.tr \in Gated => Used(r) + Cardinality(PastApproval(r)) <= Given(r, Approvals)
  BY DEF CauseInv, Used, Given, Guards, Approvals
<1>2. /\ Used(r) \in Nat /\ \A names : Given(r, names) \in Nat
      /\ IsFiniteSet(PastApproval(r))
      /\ Cardinality(PastGuard(r)) \in Nat /\ Cardinality(PastApproval(r)) \in Nat
  BY <1>1, CauseNumbers
<1>3. Used(r)' = Used(r) /\ \A names : Given(r, names)' = Given(r, names)
  BY DEF Used, Given, AllowedUpTo
<1>4. IsFiniteSet(PastGuard(r)') /\ Cardinality(PastGuard(r)') <= Cardinality(PastGuard(r))
  BY <1>1, FS_Subset
<1>5. IsFiniteSet(PastApproval(r)')
      /\ Cardinality(PastApproval(r)') <= Cardinality(PastApproval(r))
  BY <1>2, FS_Subset
<1>6. Cardinality(PastGuard(r)') \in Nat /\ Cardinality(PastApproval(r)') \in Nat
  BY <1>4, <1>5, FS_CardinalityType
<1>7. Used(r)' + Cardinality(PastGuard(r))' <= Given(r, Guards)'
  BY <1>1, <1>2, <1>3, <1>4, <1>6
<1>8. ASSUME r.tr \in Gated
      PROVE  Used(r)' + Cardinality(PastApproval(r))' <= Given(r, Approvals)'
  BY <1>1, <1>2, <1>3, <1>5, <1>6, <1>8
<1> QED
  BY <1>4, <1>7, <1>8

\* A step that appends e, and whose gains and spending balance.
LEMMA CauseLogged ==
  ASSUME TypeOK, CauseInv, NEW e \in Events, log' = Append(log, e),
         \A r \in Requests :
           /\ Balanced(PastGuard(r), PastGuard(r)',
                       One(Counts(e, r, Guards)), One(Counts(e, r, Effects)))
           /\ r.tr \in Gated =>
                Balanced(PastApproval(r), PastApproval(r)',
                         One(Counts(e, r, Approvals)), One(Counts(e, r, Effects)))
  PROVE  CauseInv'
<1> SUFFICES ASSUME NEW r \in Requests
             PROVE  /\ IsFiniteSet(PastGuard(r))'
                    /\ Used(r)' + Cardinality(PastGuard(r))' <= Given(r, Guards)'
                    /\ r.tr \in Gated =>
                         Used(r)' + Cardinality(PastApproval(r))' <= Given(r, Approvals)'
  BY DEF CauseInv, Used, Given, Guards, Approvals
<1>1. /\ IsFiniteSet(PastGuard(r))
      /\ Used(r) + Cardinality(PastGuard(r)) <= Given(r, Guards)
      /\ r.tr \in Gated => Used(r) + Cardinality(PastApproval(r)) <= Given(r, Approvals)
  BY DEF CauseInv, Used, Given, Guards, Approvals
<1>2. /\ Used(r) \in Nat /\ Given(r, Guards) \in Nat /\ Given(r, Approvals) \in Nat
      /\ IsFiniteSet(PastApproval(r))
      /\ Cardinality(PastGuard(r)) \in Nat /\ Cardinality(PastApproval(r)) \in Nat
  BY <1>1, CauseNumbers
<1>3. /\ Used(r)' = Used(r) + One(Counts(e, r, Effects))
      /\ Given(r, Guards)' = Given(r, Guards) + One(Counts(e, r, Guards))
      /\ Given(r, Approvals)' = Given(r, Approvals) + One(Counts(e, r, Approvals))
  BY AllowedGrows DEF Used, Given, One, TypeOK
<1>4. /\ One(Counts(e, r, Effects)) \in Nat /\ One(Counts(e, r, Guards)) \in Nat
      /\ One(Counts(e, r, Approvals)) \in Nat
  BY DEF One
<1>5. /\ IsFiniteSet(PastGuard(r)')
      /\ Cardinality(PastGuard(r)') + One(Counts(e, r, Effects))
            <= Cardinality(PastGuard(r)) + One(Counts(e, r, Guards))
  BY <1>1 DEF Balanced
<1>6. Cardinality(PastGuard(r)') \in Nat
  BY <1>5, FS_CardinalityType
<1>7. Used(r)' + Cardinality(PastGuard(r))' <= Given(r, Guards)'
  BY <1>1, <1>2, <1>3, <1>4, <1>5, <1>6
<1>8. ASSUME r.tr \in Gated
      PROVE  Used(r)' + Cardinality(PastApproval(r))' <= Given(r, Approvals)'
  <2>1. /\ IsFiniteSet(PastApproval(r)')
        /\ Cardinality(PastApproval(r)') + One(Counts(e, r, Effects))
              <= Cardinality(PastApproval(r)) + One(Counts(e, r, Approvals))
    BY <1>2, <1>8 DEF Balanced
  <2>2. Cardinality(PastApproval(r)') \in Nat
    BY <2>1, FS_CardinalityType
  <2> QED
    BY <1>1, <1>2, <1>3, <1>4, <1>8, <2>1, <2>2
<1> QED
  BY <1>5, <1>7, <1>8

\* A handler changes only its own place among the handlers past a decision.
LEMMA OnlyItsPlace ==
  ASSUME TypeOK, NEW h \in Handlers, HandlerStep(h), NEW r
  PROVE  /\ PastGuard(r)' = (PastGuard(r) \ {h}) \cup (PastGuard(r)' \cap {h})
         /\ PastApproval(r)' = (PastApproval(r) \ {h}) \cup (PastApproval(r)' \cap {h})
<1>1. \A g \in Handlers : g # h => pc'[g] = pc[g] /\ req'[g] = req[g]
  BY Elsewhere
<1>2. \A g \in Handlers : g # h => (g \in PastGuard(r)' <=> g \in PastGuard(r))
  BY <1>1 DEF PastGuard
<1>3. \A g \in Handlers : g # h => (g \in PastApproval(r)' <=> g \in PastApproval(r))
  BY <1>1 DEF PastApproval
<1>4. /\ PastGuard(r) \subseteq Handlers /\ PastGuard(r)' \subseteq Handlers
      /\ PastApproval(r) \subseteq Handlers /\ PastApproval(r)' \subseteq Handlers
  BY DEF PastGuard, PastApproval
<1> QED
  BY <1>2, <1>3, <1>4

\* Places of h before and after, by its program counter.
LEMMA PlaceOf ==
  ASSUME TypeOK, NEW h \in Handlers, NEW r
  PROVE  /\ h \in PastGuard(r) <=> req[h] = r /\ pc[h] \in {"approve", "tx"} \cup InTx
         /\ h \in PastApproval(r) <=> req[h] = r /\ pc[h] \in {"tx"} \cup InTx
         /\ h \in PastGuard(r)' <=> req'[h] = r /\ pc'[h] \in {"approve", "tx"} \cup InTx
         /\ h \in PastApproval(r)' <=> req'[h] = r /\ pc'[h] \in {"tx"} \cup InTx
BY DEF PastGuard, PastApproval

\* The steps that log nothing let no handler past a decision.
LEMMA CauseSilentSteps ==
  ASSUME WorkflowInv, CauseInv, NEW h \in Handlers,
         \/ \E r \in Requests : Arrive(h, r)
         \/ Peek(h) \/ AuditFails(h) \/ LockRow(h) \/ InsertApproval(h) \/ CountApprovals(h)
         \/ SetState(h) \/ AppendInTransaction(h) \/ Rollback(h)
  PROVE  CauseInv'
<1>t. TypeOK
  BY DEF WorkflowInv
<1>1. HandlerStep(h)
  BY DEF HandlerStep, Proceed
<1>2. log' = log
  BY DEF Arrive, Peek, AuditFails, LockRow, InsertApproval, CountApprovals, SetState,
         AppendInTransaction, Rollback
<1>3. \/ pc'[h] \notin {"approve", "tx"} \cup InTx
      \/ req'[h] = req[h] /\ pc[h] \in {"tx"} \cup InTx
  BY <1>t DEF Arrive, Peek, AuditFails, LockRow, InsertApproval, CountApprovals, SetState,
         AppendInTransaction, Rollback, Reply, TypeOK, InTx
<1>4. ASSUME NEW r \in Requests
      PROVE  PastGuard(r)' \subseteq PastGuard(r) /\ PastApproval(r)' \subseteq PastApproval(r)
  <2>1. /\ h \in PastGuard(r)' => h \in PastGuard(r)
        /\ h \in PastApproval(r)' => h \in PastApproval(r)
    BY <1>t, <1>3, PlaceOf
  <2>2. /\ PastGuard(r)' = (PastGuard(r) \ {h}) \cup (PastGuard(r)' \cap {h})
        /\ PastApproval(r)' = (PastApproval(r) \ {h}) \cup (PastApproval(r)' \cap {h})
    BY <1>t, <1>1, OnlyItsPlace
  <2> QED
    BY <2>1, <2>2
<1> QED
  BY <1>t, <1>2, <1>4, CauseQuiet

\* A step that logs and leaves the handler past no decision it was not past.
LEMMA CauseNoGain ==
  ASSUME WorkflowInv, CauseInv, NEW h \in Handlers, HandlerStep(h),
         NEW e \in Events, log' = Append(log, e), e.event \notin Effects,
         \A r \in Requests :
            /\ h \in PastGuard(r)' => h \in PastGuard(r) \/ Counts(e, r, Guards)
            /\ r.tr \in Gated /\ h \in PastApproval(r)'
                 => h \in PastApproval(r) \/ Counts(e, r, Approvals)
  PROVE  CauseInv'
<1>t. TypeOK
  BY DEF WorkflowInv
<1>1. ASSUME NEW r \in Requests
      PROVE  Balanced(PastGuard(r), PastGuard(r)',
                      One(Counts(e, r, Guards)), One(Counts(e, r, Effects)))
  <2> DEFINE S == PastGuard(r)
             T == PastGuard(r)'
  <2>1. One(Counts(e, r, Effects)) = 0 /\ One(Counts(e, r, Guards)) \in {0, 1}
        /\ (Counts(e, r, Guards) => One(Counts(e, r, Guards)) = 1)
    BY DEF Counts, One
  <2>2. T = (S \ {h}) \cup (T \cap {h})
    BY <1>t, OnlyItsPlace
  <2>3. h \in T => h \in S \/ Counts(e, r, Guards)
    OBVIOUS
  <2> HIDE DEF S, T
  <2>4. CASE T \subseteq S
    BY <2>1, <2>4, BalancedLess DEF S, T
  <2>5. CASE ~(T \subseteq S)
    <3>1. T = S \cup {h} /\ Counts(e, r, Guards)
      BY <2>2, <2>3, <2>5
    <3> QED
      BY <2>1, <3>1, BalancedAdd DEF S, T
  <2> QED
    BY <2>4, <2>5
<1>2. ASSUME NEW r \in Requests, r.tr \in Gated
      PROVE  Balanced(PastApproval(r), PastApproval(r)',
                      One(Counts(e, r, Approvals)), One(Counts(e, r, Effects)))
  <2> DEFINE S == PastApproval(r)
             T == PastApproval(r)'
  <2>1. One(Counts(e, r, Effects)) = 0 /\ One(Counts(e, r, Approvals)) \in {0, 1}
        /\ (Counts(e, r, Approvals) => One(Counts(e, r, Approvals)) = 1)
    BY DEF Counts, One
  <2>2. T = (S \ {h}) \cup (T \cap {h})
    BY <1>t, OnlyItsPlace
  <2>3. h \in T => h \in S \/ Counts(e, r, Approvals)
    BY <1>2
  <2> HIDE DEF S, T
  <2>4. CASE T \subseteq S
    BY <2>1, <2>4, BalancedLess DEF S, T
  <2>5. CASE ~(T \subseteq S)
    <3>1. T = S \cup {h} /\ Counts(e, r, Approvals)
      BY <2>2, <2>3, <2>5
    <3> QED
      BY <2>1, <3>1, BalancedAdd DEF S, T
  <2> QED
    BY <2>4, <2>5
<1> QED
  BY <1>t, <1>1, <1>2, CauseLogged

\* The guard decision: only an allow that is logged lets the handler go on.
LEMMA CauseDecideGuard ==
  ASSUME WorkflowInv, CauseInv, NEW h \in Handlers, DecideGuard(h)
  PROVE  CauseInv'
<1> DEFINE d == IF req[h].sub \in GuardAllows[req[h].tr] THEN "allow" ELSE "deny"
           e == Event("guard.decision", req[h], d)
<1>t. TypeOK
  BY DEF WorkflowInv
<1>1. HandlerStep(h) /\ pc[h] = "guard"
  BY DEF HandlerStep, Proceed, DecideGuard
<1>2. req[h] \in Requests
  BY <1>1 DEF WorkflowInv, ChecksHold
<1>3. /\ e \in Events /\ e.event = "guard.decision" /\ e.event \notin Effects
      /\ e.req = req[h] /\ e.decision = d
  BY <1>2 DEF Event, Events, EventNames, Effects
<1>4. log' = Append(log, e)
  BY DEF DecideGuard, Audited
<1>5. \/ pc'[h] = "idle"
      \/ /\ d = "allow" /\ req'[h] = req[h]
         /\ pc'[h] = IF req[h].tr \in Gated THEN "approve" ELSE "tx"
  BY <1>t DEF DecideGuard, Reply, TypeOK
<1> HIDE DEF e, d
<1>6. ASSUME NEW r \in Requests
      PROVE  /\ h \in PastGuard(r)' => h \in PastGuard(r) \/ Counts(e, r, Guards)
             /\ r.tr \in Gated /\ h \in PastApproval(r)'
                  => h \in PastApproval(r) \/ Counts(e, r, Approvals)
  <2>1. /\ h \in PastGuard(r)' <=> req'[h] = r /\ pc'[h] \in {"approve", "tx"} \cup InTx
        /\ h \in PastApproval(r)' <=> req'[h] = r /\ pc'[h] \in {"tx"} \cup InTx
    BY <1>t, PlaceOf
  <2>2. h \in PastGuard(r)' => Counts(e, r, Guards)
    BY <1>3, <1>5, <2>1 DEF Counts, Guards, InTx
  <2>3. ~(r.tr \in Gated /\ h \in PastApproval(r)')
    BY <1>5, <2>1 DEF InTx
  <2> QED
    BY <2>2, <2>3
<1> QED
  BY <1>1, <1>3, <1>4, <1>6, CauseNoGain

\* The approval decision, for a handler already past the guard.
LEMMA CauseDecideApproval ==
  ASSUME WorkflowInv, CauseInv, NEW h \in Handlers, DecideApproval(h)
  PROVE  CauseInv'
<1> DEFINE d == IF req[h].sub \in ApproveAllows[req[h].tr] THEN "allow" ELSE "deny"
           e == Event("approval.decision", req[h], d)
<1>t. TypeOK
  BY DEF WorkflowInv
<1>1. HandlerStep(h) /\ pc[h] = "approve"
  BY DEF HandlerStep, Proceed, DecideApproval
<1>2. req[h] \in Requests
  BY <1>1 DEF WorkflowInv, ChecksHold
<1>3. /\ e \in Events /\ e.event = "approval.decision" /\ e.event \notin Effects
      /\ e.req = req[h] /\ e.decision = d
  BY <1>2 DEF Event, Events, EventNames, Effects
<1>4. log' = Append(log, e)
  BY DEF DecideApproval, Audited
<1>5. pc'[h] = "idle" \/ (d = "allow" /\ req'[h] = req[h] /\ pc'[h] = "tx")
  BY <1>t DEF DecideApproval, Reply, TypeOK
<1> HIDE DEF e, d
<1>6. ASSUME NEW r \in Requests
      PROVE  /\ h \in PastGuard(r)' => h \in PastGuard(r) \/ Counts(e, r, Guards)
             /\ r.tr \in Gated /\ h \in PastApproval(r)'
                  => h \in PastApproval(r) \/ Counts(e, r, Approvals)
  <2>1. /\ h \in PastGuard(r) <=> req[h] = r /\ pc[h] \in {"approve", "tx"} \cup InTx
        /\ h \in PastGuard(r)' <=> req'[h] = r /\ pc'[h] \in {"approve", "tx"} \cup InTx
        /\ h \in PastApproval(r)' <=> req'[h] = r /\ pc'[h] \in {"tx"} \cup InTx
    BY <1>t, PlaceOf
  <2>2. h \in PastGuard(r)' => h \in PastGuard(r)
    BY <1>1, <1>5, <2>1 DEF InTx
  <2>3. h \in PastApproval(r)' => Counts(e, r, Approvals)
    BY <1>3, <1>5, <2>1 DEF Counts, Approvals, InTx
  <2> QED
    BY <2>2, <2>3
<1> QED
  BY <1>1, <1>3, <1>4, <1>6, CauseNoGain

\* A logged answer that is lost, and the duplicate event: the handler is done.
LEMMA CauseReplies ==
  ASSUME WorkflowInv, CauseInv, NEW h \in Handlers, AuditAnswerLost(h) \/ FlushDuplicate(h)
  PROVE  CauseInv'
<1>t. TypeOK
  BY DEF WorkflowInv
<1>1. HandlerStep(h) /\ pc[h] # "idle" /\ pc'[h] = "idle"
  BY <1>t DEF HandlerStep, Proceed, AuditAnswerLost, FlushDuplicate, Reply, TypeOK
<1>2. req[h] \in Requests
  BY <1>1 DEF WorkflowInv, ChecksHold
<1>3. PICK name \in EventNames \ Effects, d \in {"allow", "deny"} :
         log' = Append(log, Event(name, req[h], d))
  BY DEF AuditAnswerLost, FlushDuplicate, Audited, EventNames, Effects
<1>4. Event(name, req[h], d) \in Events /\ Event(name, req[h], d).event \notin Effects
  BY <1>2 DEF Event, Events
<1>5. \A r \in Requests : h \notin PastGuard(r)' /\ h \notin PastApproval(r)'
  BY <1>t, <1>1, PlaceOf DEF InTx
<1> QED
  BY <1>1, <1>3, <1>4, <1>5, CauseNoGain

\* COMMIT turns the handler's decision into its effect.
LEMMA CauseCommit ==
  ASSUME WorkflowInv, CauseInv, NEW h \in Handlers, Commit(h)
  PROVE  CauseInv'
<1>t. TypeOK
  BY DEF WorkflowInv
<1>1. HandlerStep(h) /\ pc[h] = "commit" /\ pc'[h] = "idle"
  BY <1>t DEF HandlerStep, Proceed, Commit, Reply, TypeOK
<1>2. req[h] \in Requests
  BY <1>1 DEF WorkflowInv, ChecksHold
<1>3. PICK name \in Effects : log' = Append(log, Event(name, req[h], "allow"))
  BY DEF Commit, Effects
<1> DEFINE e == Event(name, req[h], "allow")
<1>4. /\ e \in Events /\ e.event \in Effects /\ e.req = req[h] /\ e.decision = "allow"
      /\ e.event \notin Guards /\ e.event \notin Approvals
  BY <1>2 DEF Event, Events, EventNames, Effects, Guards, Approvals
<1> HIDE DEF e
<1>5. ASSUME NEW r \in Requests
      PROVE  /\ Balanced(PastGuard(r), PastGuard(r)',
                         One(Counts(e, r, Guards)), One(Counts(e, r, Effects)))
             /\ Balanced(PastApproval(r), PastApproval(r)',
                         One(Counts(e, r, Approvals)), One(Counts(e, r, Effects)))
  <2>1. PastGuard(r)' = PastGuard(r) \ {h} /\ PastApproval(r)' = PastApproval(r) \ {h}
    <3>1. h \notin PastGuard(r)' /\ h \notin PastApproval(r)'
      BY <1>t, <1>1, PlaceOf DEF InTx
    <3>2. /\ PastGuard(r)' = (PastGuard(r) \ {h}) \cup (PastGuard(r)' \cap {h})
          /\ PastApproval(r)' = (PastApproval(r) \ {h}) \cup (PastApproval(r)' \cap {h})
      BY <1>t, <1>1, OnlyItsPlace
    <3> QED
      BY <3>1, <3>2
  <2>2. One(Counts(e, r, Guards)) = 0 /\ One(Counts(e, r, Approvals)) = 0
    BY <1>4 DEF Counts, One
  <2>3. CASE r = req[h]
    <3>1. One(Counts(e, r, Effects)) = 1
      BY <1>4, <2>3 DEF Counts, One
    <3>2. h \in PastGuard(r) /\ h \in PastApproval(r)
      BY <1>t, <1>1, <2>3, PlaceOf DEF InTx
    <3> QED
      BY <2>1, <2>2, <3>1, <3>2, BalancedRemove
  <2>4. CASE r # req[h]
    <3>1. One(Counts(e, r, Effects)) = 0
      BY <1>4, <2>4 DEF Counts, One
    <3>2. PastGuard(r) \ {h} \subseteq PastGuard(r) /\ PastApproval(r) \ {h} \subseteq PastApproval(r)
      OBVIOUS
    <3> QED
      BY <2>1, <2>2, <3>1, <3>2, BalancedLess
  <2> QED
    BY <2>3, <2>4
<1>6. log' = Append(log, e)
  BY <1>3 DEF e
<1> QED
  BY <1>t, <1>4, <1>5, <1>6, CauseLogged

\* Every step keeps decisions ahead of effects.
LEMMA CauseStep ==
  ASSUME WorkflowInv, CauseInv, [Next]_vars
  PROVE  CauseInv'
<1>t. TypeOK
  BY DEF WorkflowInv
<1>1. ASSUME NEW h \in Handlers, HandlerStep(h) PROVE CauseInv'
  BY <1>1, CauseSilentSteps, CauseDecideGuard, CauseDecideApproval, CauseReplies, CauseCommit
  DEF HandlerStep, Proceed
<1>2. ASSUME UNCHANGED <<pc, req>>, NEW r \in Requests
      PROVE  PastGuard(r)' = PastGuard(r) /\ PastApproval(r)' = PastApproval(r)
  BY <1>2 DEF PastGuard, PastApproval
<1>3. ASSUME UNCHANGED <<log, pc, req>> PROVE CauseInv'
  BY <1>t, <1>2, <1>3, CauseQuiet
<1>4. ASSUME NEW w \in StateWrites, RejectStateWrite(w) PROVE CauseInv'
  <2> DEFINE e == Event("workflow.state_write_rejected", w, "deny")
  <2>1. e \in Events /\ \A r : ~Counts(e, r, Guards) /\ ~Counts(e, r, Approvals) /\ ~Counts(e, r, Effects)
    BY DEF Event, Events, Counts, Guards, Approvals, Effects
  <2>2. log' = Append(log, e) /\ UNCHANGED <<pc, req>>
    BY <1>4 DEF RejectStateWrite
  <2> HIDE DEF e
  <2>3. ASSUME NEW r \in Requests
        PROVE  /\ Balanced(PastGuard(r), PastGuard(r)', 0, 0)
               /\ Balanced(PastApproval(r), PastApproval(r)', 0, 0)
    BY <1>2, <2>2, BalancedLess
  <2>4. \A r \in Requests : /\ One(Counts(e, r, Guards)) = 0 /\ One(Counts(e, r, Approvals)) = 0
                            /\ One(Counts(e, r, Effects)) = 0
    BY <2>1 DEF One
  <2> QED
    BY <1>t, <2>1, <2>2, <2>3, <2>4, CauseLogged
<1>5. ASSUME NEW rec \in Records, CreateRecord(rec) \/ \E f \in Fields : UpdateRecord(rec, f)
      PROVE  UNCHANGED <<log, pc, req>>
  BY <1>5 DEF CreateRecord, UpdateRecord
<1>6. CASE UNCHANGED vars
  BY <1>3, <1>6 DEF vars
<1> QED
  BY <1>1, <1>3, <1>4, <1>5, <1>6 DEF Next, HandlerStep

\* The invariant speaks of the end of the log; the property, of every position.
LEMMA PrecedesStep ==
  ASSUME TypeOK, TypeOK', DecisionPrecedesEffect, CauseInv',
         log' = log \/ \E e \in Events : log' = Append(log, e)
  PROVE  DecisionPrecedesEffect'
<1> DEFINE P(n) ==
      LET r == log[n].req
          effects == AllowedUpTo(n, r, Effects)
      IN /\ Cardinality(effects) <= Cardinality(AllowedUpTo(n, r, Guards))
         /\ effects # {} /\ r.tr \in Gated
              => Cardinality(effects) <= Cardinality(AllowedUpTo(n, r, Approvals))
<1>1. CASE log' = log
  BY <1>1 DEF DecisionPrecedesEffect, AllowedUpTo
<1>2. ASSUME NEW e \in Events, log' = Append(log, e) PROVE DecisionPrecedesEffect'
  <2>1. /\ Len(log) \in Nat /\ Len(log') = Len(log) + 1
        /\ \A i \in 1..Len(log) : log'[i] = log[i]
    BY <1>2, AppendFacts DEF TypeOK
  <2>2. ASSUME NEW n \in 1..Len(log) PROVE P(n)'
    <3>1. P(n)
      BY DEF DecisionPrecedesEffect, Guards, Approvals
    <3>2. \A r, names : AllowedUpTo(n, r, names)' = AllowedUpTo(n, r, names)
      BY <1>2, <2>1, AllowedKept DEF TypeOK
    <3> QED
      BY <2>1, <3>1, <3>2
  <2>3. ASSUME NEW n, n = Len(log') PROVE P(n)'
    <3>1. PICK q : q = log'[n].req
      OBVIOUS
    <3>2. ASSUME NEW names
          PROVE  /\ (AllowedUpTo(Len(log), q, names))' = AllowedUpTo(n, q, names)'
                 /\ IsFiniteSet(AllowedUpTo(n, q, names)')
                 /\ Cardinality(AllowedUpTo(n, q, names)') \in Nat
      <4>1. n \in Nat /\ AllowedUpTo(n, q, names)' \in SUBSET (1..n)
        BY <2>1, <2>3 DEF AllowedUpTo
      <4>2. IsFiniteSet(AllowedUpTo(n, q, names)')
        BY <4>1, FS_Interval, FS_Subset
      <4> QED
        BY <2>3, <4>2, FS_CardinalityType DEF AllowedUpTo
    <3> DEFINE E == AllowedUpTo(n, q, Effects)'
               G == AllowedUpTo(n, q, Guards)'
               A == AllowedUpTo(n, q, Approvals)'
    <3>3. CASE E = {}
      <4>1. Cardinality(E) = 0
        BY <3>3, FS_EmptySet
      <4>2. Cardinality(E) <= Cardinality(G)
        BY <3>2, <4>1
      <4> QED
        BY <3>1, <3>3, <4>2
    <3>4. CASE E # {}
      <4>1. q \in Requests
        <5>1. PICK i \in E : TRUE
          BY <3>4
        <5>2. i \in 1..Len(log') /\ log'[i].event \in Effects /\ log'[i].req = q
          BY <2>3, <5>1 DEF AllowedUpTo
        <5>3. log'[i] \in Events
          BY <5>2 DEF TypeOK
        <5> QED
          BY <5>2, <5>3 DEF Events, Effects
      <4>2. /\ IsFiniteSet(PastGuard(q)')
            /\ Cardinality(E) + Cardinality(PastGuard(q)') <= Cardinality(G)
            /\ q.tr \in Gated => Cardinality(E) + Cardinality(PastApproval(q)') <= Cardinality(A)
        BY <3>2, <4>1 DEF CauseInv, Guards, Approvals
      <4>3. PastApproval(q)' \in SUBSET PastGuard(q)'
        BY DEF PastApproval, PastGuard
      <4>4. Cardinality(PastGuard(q)') \in Nat /\ Cardinality(PastApproval(q)') \in Nat
        BY <4>2, <4>3, FS_Subset, FS_CardinalityType
      <4>5. Cardinality(E) \in Nat /\ Cardinality(G) \in Nat /\ Cardinality(A) \in Nat
        BY <3>2
      <4> HIDE DEF E, G, A
      <4>6. Cardinality(E) <= Cardinality(G)
        BY <4>2, <4>4, <4>5
      <4>7. q.tr \in Gated => Cardinality(E) <= Cardinality(A)
        BY <4>2, <4>4, <4>5
      <4> QED
        BY <3>1, <4>6, <4>7 DEF E, G, A
    <3> QED
      BY <3>3, <3>4
  <2> QED
    BY <2>1, <2>2, <2>3 DEF DecisionPrecedesEffect, Guards, Approvals
<1> QED
  BY <1>1, <1>2

\* Each effect in the audit log, a recorded approval or a transition, has
\* before it an allow decision of its own for the same user, transition and
\* record, whatever the handlers in between: workflows.ts's "cause always
\* precedes effect in the chain".
THEOREM CausePrecedesEffect == Spec => []DecisionPrecedesEffect
<1>1. Init => CauseInv /\ DecisionPrecedesEffect
  <2> SUFFICES ASSUME Init PROVE CauseInv /\ DecisionPrecedesEffect
    OBVIOUS
  <2>1. Len(log) = 0 /\ \A r, names : AllowedUpTo(Len(log), r, names) = {}
    BY DEF Init, AllowedUpTo
  <2>2. \A r : PastGuard(r) = {} /\ PastApproval(r) = {}
    BY DEF Init, PastGuard, PastApproval, InTx
  <2>3. CauseInv
    <3>1. IsFiniteSet({}) /\ Cardinality({}) = 0
      BY FS_EmptySet
    <3>2. \A r : /\ IsFiniteSet(PastGuard(r))
                 /\ Cardinality(PastGuard(r)) = 0 /\ Cardinality(PastApproval(r)) = 0
      BY <2>2, <3>1
    <3>3. \A r, names : Cardinality(AllowedUpTo(Len(log), r, names)) = 0
      BY <2>1, <3>1
    <3> QED
      BY <3>2, <3>3 DEF CauseInv
  <2>4. DecisionPrecedesEffect
    BY <2>1 DEF DecisionPrecedesEffect
  <2> QED
    BY <2>3, <2>4
<1>2. WorkflowInv /\ CauseInv /\ [Next]_vars => CauseInv'
  BY CauseStep
<1>3. WorkflowInv /\ WorkflowInv' /\ DecisionPrecedesEffect /\ CauseInv' /\ [Next]_vars
        => DecisionPrecedesEffect'
  <2> SUFFICES ASSUME WorkflowInv, WorkflowInv', DecisionPrecedesEffect, CauseInv', [Next]_vars
               PROVE  DecisionPrecedesEffect'
    OBVIOUS
  <2>1. TypeOK /\ TypeOK'
    BY DEF WorkflowInv
  <2>2. log' = log \/ \E e \in Events : log' = Append(log, e)
    <3>1. ASSUME NEW h \in Handlers, Commit(h) PROVE \E e \in Events : log' = Append(log, e)
      <4>1. req[h] \in Requests
        BY <3>1 DEF WorkflowInv, ChecksHold, Commit
      <4>2. \A name \in Effects : Event(name, req[h], "allow") \in Events
        BY <4>1 DEF Event, Events, EventNames, Effects
      <4> QED
        BY <3>1, <4>2 DEF Commit, Effects
    <3>2. ASSUME NEW rec \in Records, CreateRecord(rec) PROVE log' = log
      BY <3>2 DEF CreateRecord
    <3> QED
      BY <3>1, <3>2, ReplaySteps
  <2> QED
    BY <2>1, <2>2, PrecedesStep
<1> QED
  BY <1>1, <1>2, <1>3, WorkflowInvariant, PTL DEF Spec

-----------------------------------------------------------------------------
(* The handlers implement the rules of the records.                        *)

\* A request gets past a decision only if the policy allowed its user.
LEMMA EntitledStep ==
  ASSUME TypeOK, \A h \in Handlers : Entitled(h), NEW g \in Handlers, HandlerStep(g)
  PROVE  \A h \in Handlers : Entitled(h)'
<1> SUFFICES ASSUME NEW h \in Handlers PROVE Entitled(h)'
  OBVIOUS
<1> USE DEF TypeOK
<1>1. CASE h # g
  <2>1. pc'[h] = pc[h] /\ req'[h] = req[h] /\ Entitled(h)
    BY <1>1, Elsewhere
  <2> QED
    BY <2>1 DEF Entitled
<1>2. CASE h = g
  <2>1. ASSUME pc'[h] \in {"idle", "peek", "guard"} PROVE Entitled(h)'
    BY <2>1 DEF Entitled, InTx
  <2>2. ASSUME NEW r \in Requests, Arrive(h, r) PROVE Entitled(h)'
    BY <2>1, <2>2 DEF Arrive
  <2>3. CASE Peek(h) \/ AuditFails(h) \/ AuditAnswerLost(h) \/ FlushDuplicate(h) \/ Commit(h)
             \/ Rollback(h)
    <3>1. pc'[h] \in {"idle", "guard"}
      BY <2>3 DEF Peek, AuditFails, AuditAnswerLost, FlushDuplicate, Commit, Rollback, Reply
    <3> QED
      BY <2>1, <3>1
  <2>4. CASE DecideGuard(h)
    <3>1. CASE pc'[h] = "idle"
      BY <2>1, <3>1
    <3>2. CASE pc'[h] # "idle"
      <4>1. /\ req' = req /\ req[h].sub \in GuardAllows[req[h].tr]
            /\ pc'[h] = IF req[h].tr \in Gated THEN "approve" ELSE "tx"
        BY <2>4, <3>2 DEF DecideGuard, Reply
      <4> QED
        BY <4>1 DEF Entitled, InTx
    <3> QED
      BY <3>1, <3>2
  <2>5. CASE DecideApproval(h)
    <3>1. CASE pc'[h] = "idle"
      BY <2>1, <3>1
    <3>2. CASE pc'[h] # "idle"
      <4>1. /\ req' = req /\ req[h].sub \in ApproveAllows[req[h].tr]
            /\ pc[h] = "approve"
        BY <2>5, <3>2 DEF DecideApproval, Reply
      <4> QED
        BY <4>1 DEF Entitled
    <3> QED
      BY <3>1, <3>2
  <2>6. CASE LockRow(h) \/ InsertApproval(h) \/ CountApprovals(h) \/ SetState(h)
             \/ AppendInTransaction(h)
    <3>1. CASE pc'[h] = "idle"
      BY <2>1, <3>1
    <3>2. CASE pc'[h] # "idle"
      <4>1. req' = req /\ pc[h] \in {"tx"} \cup InTx
        BY <2>6, <3>2 DEF LockRow, InsertApproval, CountApprovals, SetState, AppendInTransaction,
                          Reply, InTx
      <4> QED
        BY <4>1 DEF Entitled
    <3> QED
      BY <3>1, <3>2
  <2> QED
    BY <1>2, <2>2, <2>3, <2>4, <2>5, <2>6 DEF HandlerStep, Proceed
<1> QED
  BY <1>1, <1>2

\* Whoever has got past a decision of executeTransition is a user whom the policy
\* allows the guard, and from the transaction on the approval too; the record
\* moves or is approved for no one else.
THEOREM OnlyTheEntitled == Spec => [](\A h \in Handlers : Entitled(h))
<1>1. Init => \A h \in Handlers : Entitled(h)
  BY DEF Init, Entitled, InTx
<1>2. WorkflowInv /\ (\A h \in Handlers : Entitled(h)) /\ [Next]_vars
        => (\A h \in Handlers : Entitled(h))'
  <2> SUFFICES ASSUME WorkflowInv, \A h \in Handlers : Entitled(h), [Next]_vars
               PROVE  \A h \in Handlers : Entitled(h)'
    OBVIOUS
  <2>1. ASSUME NEW g \in Handlers, HandlerStep(g) PROVE \A h \in Handlers : Entitled(h)'
    BY <2>1, EntitledStep DEF WorkflowInv
  <2>2. CASE UNCHANGED <<pc, req>>
    BY <2>2 DEF Entitled
  <2> QED
    BY <2>1, <2>2 DEF Next, HandlerStep, CreateRecord, UpdateRecord, RejectStateWrite, vars
<1> QED
  BY <1>1, <1>2, WorkflowInvariant, PTL DEF Spec

\* The two modules count alike.
LEMMA SameCardinality == \A S : Rules!Cardinality(S) = Cardinality(S)
  BY DEF Cardinality, Rules!Cardinality, IsFiniteSet, Rules!IsFiniteSet

\* A COMMIT is an approval or a move that is in order at that moment.
LEMMA CommitIsARule ==
  ASSUME WorkflowInv, NEW h \in Handlers, Entitled(h), Commit(h)
  PROVE  \E r \in Requests : Rules!Approve(r) \/ Rules!Move(r)
<1> DEFINE r == req[h]
<1>1. /\ r \in Requests /\ r.rec \in created /\ pc[h] \in InTx /\ InFromState(r)
      /\ UNCHANGED <<created, fields>>
  BY CommitEffect
<1>2. Rules!InOrder(r)
  <2>1. fields[r.rec] \in Passes[r.tr]
    BY <1>1 DEF WorkflowInv, ChecksHold
  <2> QED
    BY <1>1, <2>1 DEF Rules!InOrder, InFromState, Entitled
<1>3. Rules!Decides(r) <=> (r.tr \in Gated => Enough(r))
  BY SameCardinality DEF Rules!Decides, Enough, Approvers
<1>4. CASE effect[h] = "recorded"
  <2>1. r.tr \in Gated /\ ~Enough(r) /\ inserted[h] /\ removed[h] = {}
    BY <1>4 DEF WorkflowInv, BufferFresh, Commit
  <2>2. approvals' = approvals \cup {r} /\ UNCHANGED state
    BY <1>4, <2>1 DEF Commit
  <2> QED
    BY <1>1, <1>2, <1>3, <2>1, <2>2 DEF Rules!Approve
<1>5. CASE effect[h] # "recorded"
  <2>1. /\ effect[h] = "flipped" /\ (r.tr \in Gated => Enough(r))
        /\ ~inserted[h] /\ removed[h] = {a \in approvals : a.rec = r.rec}
    BY <1>5 DEF WorkflowInv, BufferFresh, Commit, EndedRound
  <2>2. approvals' = {a \in approvals : a.rec # r.rec}
    BY <2>1 DEF Commit
  <2>3. state' = [state EXCEPT ![r.rec][WorkflowOf[r.tr]] = To[r.tr]]
    BY <2>1 DEF Commit
  <2> QED
    BY <1>1, <1>2, <1>3, <2>1, <2>2, <2>3 DEF Rules!Move
<1> QED
  BY <1>4, <1>5

\* Concurrent handlers, row locks, rollbacks and lost answers of executeTransition
\* implement the rules, in which requests are served one at a time: a COMMIT is
\* one Approve or one Move that is in order then, any other step of a handler
\* changes nothing the rules speak of.
THEOREM HandlersImplementRules == Spec => ImplementsRecordRules
<1>1. Init => Rules!Init
  BY DEF Init, Rules!Init
<1>2. WorkflowInv /\ (\A h \in Handlers : Entitled(h)) /\ [Next]_vars => [Rules!Next]_(Rules!vars)
  <2> SUFFICES ASSUME WorkflowInv, \A h \in Handlers : Entitled(h), [Next]_vars
               PROVE  Rules!Next \/ UNCHANGED Rules!vars
    OBVIOUS
  <2>1. ASSUME NEW h \in Handlers, HandlerStep(h)
        PROVE  Rules!Next \/ UNCHANGED Rules!vars
    <3>1. CASE Commit(h)
      <4>1. PICK r \in Requests : Rules!Approve(r) \/ Rules!Move(r)
        BY <3>1, CommitIsARule
      <4>2. r \in Rules!Requests
        BY DEF Requests, Rules!Requests
      <4> QED
        BY <4>1, <4>2 DEF Rules!Next
    <3>2. CASE ~Commit(h)
      <4>1. UNCHANGED db
        BY <2>1, <3>2 DEF HandlerStep, Proceed, Arrive, Peek, DecideGuard, DecideApproval, LockRow,
           InsertApproval, FlushDuplicate, CountApprovals, SetState, AppendInTransaction,
           AuditFails, AuditAnswerLost, Rollback
      <4> QED
        BY <4>1 DEF db, Rules!vars
    <3> QED
      BY <3>1, <3>2
  <2>2. ASSUME NEW rec \in Records, CreateRecord(rec) PROVE Rules!Next
    <3>1. Rules!Create(rec)
      BY <2>2 DEF CreateRecord, Rules!Create
    <3> QED
      BY <3>1 DEF Rules!Next
  <2>3. ASSUME NEW rec \in Records, NEW f \in Fields, UpdateRecord(rec, f) PROVE Rules!Next
    <3>1. Rules!Edit(rec, f)
      BY <2>3 DEF UpdateRecord, Rules!Edit
    <3> QED
      BY <3>1 DEF Rules!Next
  <2>4. ASSUME NEW w \in StateWrites, RejectStateWrite(w) PROVE UNCHANGED Rules!vars
    BY <2>4 DEF RejectStateWrite, db, Rules!vars
  <2>5. CASE UNCHANGED vars
    BY <2>5 DEF vars, Rules!vars
  <2> QED
    BY <2>1, <2>2, <2>3, <2>4, <2>5 DEF Next, HandlerStep
<1> QED
  BY <1>1, <1>2, WorkflowInvariant, OnlyTheEntitled, PTL DEF Spec, ImplementsRecordRules, Rules!Spec

-----------------------------------------------------------------------------
(* Locks.                                                                  *)

\* A step of one handler takes the chain lock or gives it back as its place in
\* the transaction says.
LEMMA ChainLockStep ==
  ASSUME TypeOK, \A h \in Handlers : ChainLocked(h), NEW g \in Handlers, HandlerStep(g)
  PROVE  \A h \in Handlers : ChainLocked(h)'
<1> USE WorkflowAssumption DEF TypeOK
<1>a. \A h \in Handlers \ {g} : pc'[h] = pc[h]
  BY Elsewhere
<1>1. CASE AppendInTransaction(g)
  <2>1. chainLock = NoOne /\ chainLock' = g /\ pc'[g] = "commit"
    BY <1>1 DEF AppendInTransaction
  <2>2. \A h \in Handlers : pc[h] # "commit"
    BY <2>1 DEF ChainLocked
  <2> QED
    BY <1>a, <2>1, <2>2 DEF ChainLocked
<1>2. CASE Commit(g) \/ Rollback(g) \/ (InsertApproval(g) /\ req[g] \in approvals)
  <2>1. /\ chainLock' = IF chainLock = g THEN NoOne ELSE chainLock
        /\ pc'[g] # "commit"
    BY <1>2 DEF Commit, Rollback, InsertApproval, EndTransaction, Reply
  <2> QED
    BY <1>a, <2>1 DEF ChainLocked
<1>3. CASE ~AppendInTransaction(g) /\ ~Commit(g) /\ ~Rollback(g)
           /\ ~(InsertApproval(g) /\ req[g] \in approvals)
  <2>1. chainLock' = chainLock /\ pc[g] # "commit" /\ pc'[g] # "commit"
    BY <1>3 DEF HandlerStep, Proceed, Arrive, Peek, DecideGuard, DecideApproval, LockRow,
       InsertApproval, FlushDuplicate, CountApprovals, SetState, AuditFails, AuditAnswerLost,
       Audited, Reply
  <2> QED
    BY <1>a, <2>1 DEF ChainLocked
<1> QED
  BY <1>1, <1>2, <1>3

\* executeTransition takes a row lock before the chain lock, and nobody who has
\* the chain lock asks for another: however many handlers there are, waiting
\* ends at one that can go on.
THEOREM LocksNeverCircle == Spec => []WaitsAreShort
<1> DEFINE Locked == \A h \in Handlers : ChainLocked(h)
<1>1. Init => Locked
  BY WorkflowAssumption DEF Init, ChainLocked
<1>2. WorkflowInv /\ Locked /\ [Next]_vars => Locked'
  <2> SUFFICES ASSUME WorkflowInv, Locked, [Next]_vars PROVE Locked'
    OBVIOUS
  <2>1. ASSUME NEW g \in Handlers, HandlerStep(g) PROVE Locked'
    BY <2>1, ChainLockStep DEF WorkflowInv
  <2>2. CASE UNCHANGED <<pc, chainLock>>
    BY <2>2 DEF ChainLocked
  <2> QED
    BY <2>1, <2>2 DEF Next, HandlerStep, CreateRecord, UpdateRecord, RejectStateWrite, vars
<1>3. WorkflowInv /\ Locked => WaitsAreShort
  <2> SUFFICES ASSUME WorkflowInv, Locked,
                      NEW h \in Handlers, NEW g \in Handlers, NEW k \in Handlers, NEW m \in Handlers,
                      WaitsFor(h, g), WaitsFor(g, k), WaitsFor(k, m)
               PROVE  FALSE
    BY DEF WaitsAreShort
  <2>1. ASSUME NEW x \in Handlers, NEW y \in Handlers, WaitsFor(x, y)
        PROVE  pc[y] \in InTx /\ (pc[y] = "commit" \/ pc[x] = "tx")
    <3>1. CASE chainLock = y
      BY <3>1 DEF ChainLocked, InTx
    <3>2. CASE chainLock # y
      <4>1. pc[x] = "tx" /\ rowLock[req[x].rec] = y
        BY <2>1, <3>2 DEF WaitsFor
      <4>2. req[x].rec \in Records
        BY <4>1 DEF WorkflowInv, ChecksHold, Requests
      <4> QED
        BY <4>1, <4>2 DEF WorkflowInv, RowLocked
    <3> QED
      BY <3>1, <3>2
  <2>2. pc[g] \in InTx /\ pc[k] = "commit"
    BY <2>1 DEF InTx
  <2> QED
    BY <2>2 DEF WaitsFor
<1> QED
  BY <1>1, <1>2, <1>3, WorkflowInvariant, PTL DEF Spec

-----------------------------------------------------------------------------
(* Approvals are discarded by a change of their own state, or by a change   *)
(* of another workflow's.                                                   *)

\* What setState's comment says holds where an entity has one workflow and no
\* transition leads back to the state it leaves.  (With two workflows on one
\* entity it does not.)
THEOREM OneWorkflowKeepsApprovals ==
  ASSUME \A t, u \in Transitions : WorkflowOf[t] = WorkflowOf[u],
         \A t \in Transitions : From[t] # To[t]
  PROVE  Spec => ApprovalKeptWhileStateKept
<1> DEFINE Kept == \A a \in approvals \ approvals' :
                     state'[a.rec][WorkflowOf[a.tr]] # state[a.rec][WorkflowOf[a.tr]]
<1>1. WorkflowInv /\ [Next]_vars => Kept
  <2> SUFFICES ASSUME WorkflowInv, [Next]_vars,
                      NEW a \in approvals, a \notin approvals'
               PROVE  state'[a.rec][WorkflowOf[a.tr]] # state[a.rec][WorkflowOf[a.tr]]
    OBVIOUS
  <2>1. PICK h \in Handlers : Commit(h)
    BY DEF Next, Proceed, CreateRecord, UpdateRecord, RejectStateWrite, Arrive, Peek, DecideGuard,
       DecideApproval, LockRow, InsertApproval, FlushDuplicate, CountApprovals, SetState,
       AppendInTransaction, AuditFails, AuditAnswerLost, Rollback, db, vars
  <2>2. /\ req[h].tr \in Transitions /\ req[h].rec \in Records /\ InFromState(req[h])
        /\ a.rec = req[h].rec
    <3>1. /\ req[h].tr \in Transitions /\ req[h].rec \in Records /\ InFromState(req[h])
          /\ \/ approvals' = approvals \cup {req[h]}
             \/ approvals' = {b \in approvals : b.rec # req[h].rec}
      BY <2>1, CommitEffect
    <3> QED
      BY <3>1
  <2>3. effect[h] = "flipped"
    <3> SUFFICES ASSUME effect[h] # "flipped" PROVE FALSE
      OBVIOUS
    <3>1. pc[h] = "commit" /\ removed[h] = {}
      BY <2>1 DEF WorkflowInv, BufferFresh, Commit
    <3> QED
      BY <2>1, <3>1 DEF Commit
  <2>4. state' = [state EXCEPT ![req[h].rec][WorkflowOf[req[h].tr]] = To[req[h].tr]]
    BY <2>1, <2>3 DEF Commit
  <2>5. a.tr \in Transitions /\ WorkflowOf[a.tr] = WorkflowOf[req[h].tr]
    BY <2>2 DEF WorkflowInv, TypeOK, Requests
  <2>6. state[a.rec][WorkflowOf[a.tr]] = From[req[h].tr]
    BY <2>2, <2>5 DEF InFromState
  <2>7. state'[a.rec][WorkflowOf[a.tr]] = To[req[h].tr]
    BY <2>2, <2>4, <2>5, WorkflowAssumption DEF WorkflowInv, TypeOK
  <2> QED
    BY <2>2, <2>6, <2>7
<1> QED
  BY <1>1, WorkflowInvariant, PTL DEF Spec, ApprovalKeptWhileStateKept
=============================================================================
