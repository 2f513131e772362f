-------------------------- MODULE AuditChainProofs --------------------------
(* Proofs about the append path, for any set of concurrent append calls.   *)
EXTENDS AuditVerify, FiniteSetTheorems, SequenceTheorems, TLAPS

\* The invariant holds of an empty log with no call begun.
LEMMA InitChainInv == Init => ChainInv
<1> SUFFICES ASSUME Init PROVE ChainInv
  OBVIOUS
<1>1. DOMAIN audit_log = {}
  BY DEF Init
<1>2. Contiguous
  BY <1>1, FS_EmptySet DEF Contiguous
<1>3. TypeOK
  BY <1>1 DEF Init, TypeOK, IsRow, NoRow, InTransaction, Returned
<1>4. LockHeld /\ TailFresh /\ NoUniqueViolation
  BY NoOneAssumption DEF Init, LockHeld, Serialized, TailFresh, NoUniqueViolation
<1>5. ChainLinked /\ RowsOfCommitted /\ AppendExactlyOnce
  BY <1>1 DEF Init, ChainLinked, RowsOfCommitted, AppendExactlyOnce
<1> QED
  BY <1>2, <1>3, <1>4, <1>5 DEF ChainInv

\* The tail query returns the row of the largest key, n.
LEMMA TailRowIsLast ==
  ASSUME Contiguous
  PROVE  LET n == Cardinality(DOMAIN audit_log)
         IN TailRow = IF n = 0 THEN NoRow ELSE audit_log[n]
<1> DEFINE n == Cardinality(DOMAIN audit_log)
<1>1. n \in Nat /\ DOMAIN audit_log = 1..n
  BY DEF Contiguous
<1>2. CASE n = 0
  BY <1>1, <1>2 DEF TailRow
<1>3. CASE n # 0
  <2>1. DOMAIN audit_log # {} /\ n \in 1..n /\ \A t \in 1..n : t <= n
    BY <1>1, <1>3
  <2>2. \A s \in 1..n : (\A t \in 1..n : t <= s) => s = n
    BY <1>1, <1>3
  <2>3. (CHOOSE s \in 1..n : \A t \in 1..n : t <= s) = n
    BY <2>1, <2>2
  <2> QED
    BY <1>1, <1>3, <2>1, <2>3 DEF TailRow
<1> QED
  BY <1>2, <1>3
\* The record built from the tail takes the first free key and links to the
\* tail's hash.
LEMMA NextRow ==
  ASSUME TypeOK, Contiguous, ChainLinked, NEW c \in Calls
  PROVE  LET row == appendRecord(TailRow, c) IN
         /\ row.seq = Cardinality(DOMAIN audit_log) + 1
         /\ row.seq \notin DOMAIN audit_log
         /\ IsRow(row) /\ row.input = c
         /\ row.hash = hashRecord(Body(row))
         /\ row.prevHash = IF DOMAIN audit_log = {} THEN GENESIS_HASH
                           ELSE audit_log[row.seq - 1].hash
<1> DEFINE n == Cardinality(DOMAIN audit_log)
<1>1. n \in Nat /\ DOMAIN audit_log = 1..n
  BY DEF Contiguous
<1>2. TailRow = IF n = 0 THEN NoRow ELSE audit_log[n]
  BY TailRowIsLast
<1>3. CASE n = 0
  BY <1>1, <1>2, <1>3 DEF appendRecord, IsRow, Body, hashRecord
<1>4. CASE n # 0
  <2>1. TailRow = audit_log[n] /\ TailRow.seq = n /\ TailRow # NoRow
    BY <1>1, <1>2, <1>4 DEF ChainLinked, NoRow
  <2> QED
    BY <1>1, <1>4, <2>1 DEF appendRecord, IsRow, Body, hashRecord
<1> QED
  BY <1>3, <1>4

\* Every step of every call preserves the invariant.
LEMMA NextChainInv == ChainInv /\ [Next]_vars => ChainInv'
<1> SUFFICES ASSUME ChainInv, [Next]_vars PROVE ChainInv'
  OBVIOUS
<1> USE NoOneAssumption
<1>inv. /\ TypeOK /\ LockHeld /\ Contiguous /\ ChainLinked /\ TailFresh
        /\ NoUniqueViolation /\ RowsOfCommitted /\ AppendExactlyOnce
  BY DEF ChainInv
<1> USE <1>inv
<1>0. UNCHANGED audit_log => Contiguous' /\ ChainLinked' /\ TailRow' = TailRow
  BY DEF Contiguous, ChainLinked, TailRow
<1>tail. TailRow = NoRow \/ IsRow(TailRow)
  BY TailRowIsLast DEF TypeOK, Contiguous
<1>same. ASSUME TailRow' = TailRow, NEW c \in Calls
         PROVE  appendRecord(TailRow, c)' = appendRecord(TailRow, c)
  BY <1>same DEF appendRecord
<1>1. ASSUME NEW c \in Calls, Begin(c) PROVE ChainInv'
  <2>1. UNCHANGED audit_log
    BY <1>1 DEF Begin
  <2>2. Contiguous' /\ ChainLinked' /\ TailRow' = TailRow
    BY <1>0, <2>1
  <2>3. TypeOK'
    BY <1>1, <2>1, <1>tail DEF Begin, TypeOK, IsRow, InTransaction, Returned
  <2>4. LockHeld' /\ NoUniqueViolation'
    BY <1>1 DEF Begin, TypeOK, LockHeld, NoUniqueViolation, Serialized, InTransaction, Returned
  <2>5. TailFresh'
    BY <1>1, <2>2, <1>same DEF Begin, TypeOK, TailFresh, InTransaction
  <2>6. RowsOfCommitted' /\ AppendExactlyOnce'
    BY <1>1, <2>1 DEF Begin, TypeOK, IsRow, RowsOfCommitted, AppendExactlyOnce, InTransaction
  <2> QED
    BY <2>2, <2>3, <2>4, <2>5, <2>6 DEF ChainInv
<1>2. ASSUME NEW c \in Calls, AcquireChainLock(c) PROVE ChainInv'
  <2>1. UNCHANGED audit_log
    BY <1>2 DEF AcquireChainLock
  <2>2. Contiguous' /\ ChainLinked' /\ TailRow' = TailRow
    BY <1>0, <2>1
  <2>3. TypeOK'
    BY <1>2, <2>1, <1>tail DEF AcquireChainLock, TypeOK, IsRow, InTransaction, Returned
  <2>4. LockHeld' /\ NoUniqueViolation'
    BY <1>2 DEF AcquireChainLock, TypeOK, LockHeld, NoUniqueViolation, Serialized, InTransaction, Returned
  <2>5. TailFresh'
    BY <1>2, <2>2, <1>same DEF AcquireChainLock, TypeOK, TailFresh, InTransaction
  <2>6. RowsOfCommitted' /\ AppendExactlyOnce'
    BY <1>2, <2>1 DEF AcquireChainLock, TypeOK, IsRow, RowsOfCommitted, AppendExactlyOnce, InTransaction
  <2> QED
    BY <2>2, <2>3, <2>4, <2>5, <2>6 DEF ChainInv
<1>3. ASSUME NEW c \in Calls, ScanTail(c) PROVE ChainInv'
  <2>1. UNCHANGED audit_log
    BY <1>3 DEF ScanTail
  <2>2. Contiguous' /\ ChainLinked' /\ TailRow' = TailRow
    BY <1>0, <2>1
  <2>3. TypeOK'
    BY <1>3, <2>1, <1>tail DEF ScanTail, TypeOK, IsRow, InTransaction, Returned
  <2>4. LockHeld' /\ NoUniqueViolation'
    BY <1>3 DEF ScanTail, TypeOK, LockHeld, NoUniqueViolation, Serialized, InTransaction, Returned
  <2>5. TailFresh'
    BY <1>3, <2>2, <1>same DEF ScanTail, TypeOK, TailFresh, InTransaction
  <2>6. RowsOfCommitted' /\ AppendExactlyOnce'
    BY <1>3, <2>1 DEF ScanTail, TypeOK, IsRow, RowsOfCommitted, AppendExactlyOnce, InTransaction
  <2> QED
    BY <2>2, <2>3, <2>4, <2>5, <2>6 DEF ChainInv
<1>4. ASSUME NEW c \in Calls, LockTail(c) PROVE ChainInv'
  <2>1. UNCHANGED audit_log
    BY <1>4 DEF LockTail
  <2>2. Contiguous' /\ ChainLinked' /\ TailRow' = TailRow
    BY <1>0, <2>1
  <2>3. TypeOK'
    BY <1>4, <2>1, <1>tail DEF LockTail, TypeOK, IsRow, InTransaction, Returned
  <2>4. LockHeld' /\ NoUniqueViolation'
    BY <1>4 DEF LockTail, TypeOK, LockHeld, NoUniqueViolation, Serialized, InTransaction, Returned
  <2>5. TailFresh'
    BY <1>4, <2>2, <1>same DEF LockTail, TypeOK, TailFresh, InTransaction
  <2>6. RowsOfCommitted' /\ AppendExactlyOnce'
    BY <1>4, <2>1 DEF LockTail, TypeOK, IsRow, RowsOfCommitted, AppendExactlyOnce, InTransaction
  <2> QED
    BY <2>2, <2>3, <2>4, <2>5, <2>6 DEF ChainInv
<1>5. ASSUME NEW c \in Calls, Return(c) PROVE ChainInv'
  <2>1. UNCHANGED audit_log
    BY <1>5 DEF Return
  <2>2. Contiguous' /\ ChainLinked' /\ TailRow' = TailRow
    BY <1>0, <2>1
  <2>3. TypeOK'
    BY <1>5, <2>1, <1>tail DEF Return, TypeOK, IsRow, InTransaction, Returned
  <2>4. LockHeld' /\ NoUniqueViolation'
    BY <1>5 DEF Return, TypeOK, LockHeld, NoUniqueViolation, Serialized, InTransaction, Returned
  <2>5. TailFresh'
    BY <1>5, <2>2, <1>same DEF Return, TypeOK, TailFresh, InTransaction
  <2>6. RowsOfCommitted' /\ AppendExactlyOnce'
    BY <1>5, <2>1 DEF Return, TypeOK, IsRow, RowsOfCommitted, AppendExactlyOnce, InTransaction
  <2> QED
    BY <2>2, <2>3, <2>4, <2>5, <2>6 DEF ChainInv
<1>6. ASSUME NEW c \in Calls, LoseCommitAnswer(c) PROVE ChainInv'
  <2>1. UNCHANGED audit_log
    BY <1>6 DEF LoseCommitAnswer
  <2>2. Contiguous' /\ ChainLinked' /\ TailRow' = TailRow
    BY <1>0, <2>1
  <2>3. TypeOK'
    BY <1>6, <2>1, <1>tail DEF LoseCommitAnswer, TypeOK, IsRow, InTransaction, Returned
  <2>4. LockHeld' /\ NoUniqueViolation'
    BY <1>6 DEF LoseCommitAnswer, TypeOK, LockHeld, NoUniqueViolation, Serialized, InTransaction, Returned
  <2>5. TailFresh'
    BY <1>6, <2>2, <1>same DEF LoseCommitAnswer, TypeOK, TailFresh, InTransaction
  <2>6. RowsOfCommitted' /\ AppendExactlyOnce'
    BY <1>6, <2>1 DEF LoseCommitAnswer, TypeOK, IsRow, RowsOfCommitted, AppendExactlyOnce, InTransaction
  <2> QED
    BY <2>2, <2>3, <2>4, <2>5, <2>6 DEF ChainInv
<1>7. ASSUME NEW c \in Calls, Rollback(c) PROVE ChainInv'
  <2>1. UNCHANGED audit_log
    BY <1>7 DEF Rollback
  <2>2. Contiguous' /\ ChainLinked' /\ TailRow' = TailRow
    BY <1>0, <2>1
  <2>3. TypeOK'
    BY <1>7, <2>1, <1>tail DEF Rollback, ReleaseLock, TypeOK, IsRow, InTransaction, Returned
  <2>4. LockHeld' /\ NoUniqueViolation'
    BY <1>7 DEF Rollback, ReleaseLock, TypeOK, LockHeld, NoUniqueViolation, Serialized, InTransaction, Returned
  <2>5. TailFresh'
    BY <1>7, <2>2, <1>same DEF Rollback, ReleaseLock, TypeOK, TailFresh, InTransaction
  <2>6. RowsOfCommitted' /\ AppendExactlyOnce'
    BY <1>7, <2>1 DEF Rollback, TypeOK, IsRow, RowsOfCommitted, AppendExactlyOnce, InTransaction
  <2> QED
    BY <2>2, <2>3, <2>4, <2>5, <2>6 DEF ChainInv
<1>row. ASSUME NEW c \in Calls
        PROVE  LET row == appendRecord(TailRow, c) IN
               /\ row.seq = Cardinality(DOMAIN audit_log) + 1
               /\ row.seq \notin DOMAIN audit_log
               /\ IsRow(row) /\ row.input = c
               /\ row.hash = hashRecord(Body(row))
               /\ row.prevHash = IF DOMAIN audit_log = {} THEN GENESIS_HASH
                                 ELSE audit_log[row.seq - 1].hash
  BY NextRow
<1>8. ASSUME NEW c \in Calls, InsertRecord(c) PROVE ChainInv'
  <2>1. UNCHANGED audit_log
    BY <1>8 DEF InsertRecord
  <2>2. Contiguous' /\ ChainLinked' /\ TailRow' = TailRow
    BY <1>0, <2>1
  <2>3. /\ pc[c] = "insert" /\ prev[c] = TailRow
        /\ pc' = [pc EXCEPT ![c] = "commit"]
        /\ uncommitted' = [uncommitted EXCEPT ![c] = appendRecord(TailRow, c)]
        /\ UNCHANGED <<advisory, prev>>
    BY <1>8, <1>row DEF InsertRecord, TailFresh
  <2>4. TypeOK'
    BY <2>1, <2>3, <1>row DEF TypeOK, IsRow, InTransaction, Returned
  <2>5. LockHeld' /\ NoUniqueViolation'
    BY <2>3 DEF TypeOK, LockHeld, NoUniqueViolation, Serialized
  <2>6. TailFresh'
    BY <2>2, <2>3, <1>same DEF TypeOK, TailFresh
  <2>7. RowsOfCommitted' /\ AppendExactlyOnce'
    BY <2>1, <2>3 DEF TypeOK, IsRow, RowsOfCommitted, AppendExactlyOnce
  <2> QED
    BY <2>2, <2>4, <2>5, <2>6, <2>7 DEF ChainInv
<1>9. ASSUME NEW c \in Calls, Commit(c) PROVE ChainInv'
  <2> DEFINE n == Cardinality(DOMAIN audit_log)
             row == appendRecord(TailRow, c)
  <2>1. /\ pc[c] = "commit" /\ advisory = c /\ uncommitted[c] = row
        /\ row.seq = n + 1 /\ n \in Nat /\ DOMAIN audit_log = 1..n
    BY <1>9, <1>row DEF Commit, TailFresh, LockHeld, Serialized, Contiguous
  <2>2. /\ DOMAIN audit_log' = 1..(n + 1)
        /\ \A s \in 1..n : audit_log'[s] = audit_log[s]
        /\ audit_log'[n + 1] = row
    BY <1>9, <2>1 DEF Commit, WithRow
  <2>3. Contiguous'
    <3>1. Cardinality(1..(n + 1)) = n + 1
      BY <2>1, FS_Interval
    <3> QED
      BY <2>1, <2>2, <3>1 DEF Contiguous
  <2>4. /\ pc' = [pc EXCEPT ![c] = "acked"]
        /\ uncommitted' = [uncommitted EXCEPT ![c] = NoRow]
        /\ advisory' = NoOne
        /\ UNCHANGED prev
    BY <1>9, <2>1 DEF Commit, ReleaseLock
  <2>5. TypeOK'
    <3>1. \A s \in DOMAIN audit_log' : IsRow(audit_log'[s])
      BY <2>1, <2>2, <1>row DEF TypeOK, IsRow
    <3> QED
      BY <2>1, <2>2, <2>4, <3>1 DEF TypeOK, IsRow, InTransaction, Returned
  <2>6. ChainLinked'
    <3> SUFFICES ASSUME NEW s \in 1..(n + 1)
                 PROVE  /\ audit_log'[s].seq = s
                        /\ audit_log'[s].hash = hashRecord(Body(audit_log'[s]))
                        /\ IF s = 1 THEN audit_log'[s].prevHash = GENESIS_HASH
                           ELSE /\ s - 1 \in DOMAIN audit_log'
                                /\ audit_log'[s].prevHash = audit_log'[s - 1].hash
      BY <2>2 DEF ChainLinked, Body, hashRecord
    <3>1. CASE s \in 1..n
      <4>1. audit_log'[s] = audit_log[s]
        BY <2>2, <3>1
      <4>2. s # 1 => s - 1 \in 1..n /\ s - 1 \in 1..(n + 1)
                     /\ audit_log'[s - 1] = audit_log[s - 1]
        BY <2>1, <2>2, <3>1
      <4> QED
        BY <2>1, <2>2, <3>1, <4>1, <4>2 DEF ChainLinked
    <3>2. CASE s = n + 1
      <4>1. audit_log'[s] = row /\ row.seq = s /\ row.hash = hashRecord(Body(row))
        BY <2>1, <2>2, <3>2, <1>row
      <4>2. CASE n = 0
        BY <2>1, <3>2, <4>1, <4>2, <1>row
      <4>3. CASE n # 0
        <5>1. s # 1 /\ s - 1 = n /\ n \in 1..n /\ DOMAIN audit_log # {}
          BY <2>1, <3>2, <4>3
        <5>2. row.prevHash = audit_log[n].hash
          BY <5>1, <4>1, <2>1, <1>row
        <5> QED
          BY <2>1, <2>2, <4>1, <5>1, <5>2
      <4> QED
        BY <4>2, <4>3
    <3> QED
      BY <2>1, <3>1, <3>2
  <2>7. LockHeld' /\ NoUniqueViolation'
    BY <2>1, <2>4 DEF TypeOK, LockHeld, NoUniqueViolation, Serialized
  <2>8. TailFresh'
    BY <2>1, <2>4 DEF TypeOK, TailFresh, LockHeld, Serialized
  <2>9. RowsOfCommitted' /\ AppendExactlyOnce'
    <3>1. \A s \in 1..n : audit_log[s].input \in Calls /\ audit_log[s].input # c
      BY <2>1 DEF TypeOK, IsRow, RowsOfCommitted
    <3>2. \A d \in Calls : d # c => pc'[d] = pc[d]
      BY <2>4 DEF TypeOK
    <3>3. pc'[c] = "acked" /\ row.input = c /\ n + 1 \in 1..(n + 1)
      BY <2>1, <2>4, <1>row DEF TypeOK
    <3>4. RowsOfCommitted'
      BY <2>1, <2>2, <3>1, <3>2, <3>3 DEF RowsOfCommitted
    <3>5. \A s, t \in 1..(n + 1) :
             audit_log'[s].input = audit_log'[t].input => s = t
      BY <2>1, <2>2, <3>1, <3>3 DEF AppendExactlyOnce
    <3>6. ASSUME NEW d \in Calls, pc'[d] \in {"ok", "acked"}
          PROVE  \E s \in DOMAIN audit_log' : audit_log'[s].input = d
      BY <2>1, <2>2, <3>2, <3>3, <3>6 DEF AppendExactlyOnce
    <3> QED
      BY <2>2, <3>4, <3>5, <3>6 DEF AppendExactlyOnce
  <2> QED
    BY <2>3, <2>5, <2>6, <2>7, <2>8, <2>9 DEF ChainInv
<1>10. CASE UNCHANGED vars
  BY <1>10, <1>0 DEF vars, ChainInv, TypeOK, LockHeld, TailFresh, NoUniqueViolation,
     RowsOfCommitted, AppendExactlyOnce, IsRow, appendRecord
<1> QED
  BY <1>1, <1>2, <1>3, <1>4, <1>5, <1>6, <1>7, <1>8, <1>9, <1>10 DEF Next, Proceed

\* The chain lock makes the log an unbroken chain in every reachable state.
THEOREM ChainInvariant == Spec => []ChainInv
<1>1. Init => ChainInv
  BY InitChainInv
<1>2. ChainInv /\ [Next]_vars => ChainInv'
  BY NextChainInv
<1> QED
  BY <1>1, <1>2, PTL DEF Spec

\* No append ever runs into the primary key: the collision that store.ts
\* describes for the row lock alone cannot happen with the chain lock.
THEOREM NoCollision == Spec => []NoUniqueViolation
<1>1. ChainInv => NoUniqueViolation
  BY DEF ChainInv
<1> QED
  BY <1>1, ChainInvariant, PTL

\* append() records each call at most once, and a call that returned is in
\* the log.
THEOREM ExactlyOnce == Spec => []AppendExactlyOnce
<1>1. ChainInv => AppendExactlyOnce
  BY DEF ChainInv
<1> QED
  BY <1>1, ChainInvariant, PTL

\* The row COMMIT adds goes after the last one.
LEMMA CommitExtends ==
  ASSUME ChainInv, NEW c \in Calls, Commit(c)
  PROVE  \E n \in Nat :
            /\ DOMAIN audit_log = 1..n /\ DOMAIN audit_log' = 1..(n + 1)
            /\ \A s \in 1..n : audit_log'[s] = audit_log[s]
            /\ audit_log'[n + 1].input = c
<1> DEFINE n == Cardinality(DOMAIN audit_log)
           row == appendRecord(TailRow, c)
<1>1. n \in Nat /\ DOMAIN audit_log = 1..n /\ uncommitted[c] = row
  BY DEF ChainInv, Contiguous, TailFresh, Commit
<1>2. row.seq = n + 1 /\ row.input = c
  BY NextRow DEF ChainInv
<1> QED
  BY <1>1, <1>2 DEF Commit, WithRow

\* Nothing but COMMIT touches the log.
LEMMA LogStep ==
  ASSUME [Next]_vars
  PROVE  UNCHANGED audit_log \/ \E c \in Calls : Commit(c)
BY DEF Next, Proceed, vars, Begin, AcquireChainLock, ScanTail, LockTail, Return,
       InsertRecord, Rollback, LoseCommitAnswer

\* Committed rows are never changed or removed and new ones go to the end.
THEOREM NeverRewritten == Spec => AppendOnly
<1>1. ASSUME ChainInv, [Next]_vars
      PROVE  [/\ \A s \in DOMAIN audit_log : /\ s \in DOMAIN audit_log'
                                             /\ audit_log'[s] = audit_log[s]
              /\ \A s \in DOMAIN audit_log' \ DOMAIN audit_log :
                    \A t \in DOMAIN audit_log : t < s]_audit_log
  <2>1. CASE UNCHANGED audit_log
    BY <2>1
  <2>2. ASSUME NEW c \in Calls, Commit(c)
        PROVE  /\ \A s \in DOMAIN audit_log : /\ s \in DOMAIN audit_log'
                                              /\ audit_log'[s] = audit_log[s]
               /\ \A s \in DOMAIN audit_log' \ DOMAIN audit_log :
                     \A t \in DOMAIN audit_log : t < s
    BY <1>1, <2>2, CommitExtends
  <2> QED
    BY <1>1, <2>1, <2>2, LogStep
<1> QED
  BY <1>1, ChainInvariant, PTL DEF Spec, AppendOnly

\* The detailed store implements the abstract append-only log.
THEOREM Refinement == Spec => ImplementsAuditLog
<1> DEFINE absLog == [s \in DOMAIN audit_log |-> audit_log[s].input]
           absStatus == [c \in Calls |-> AbstractStatus(c)]
<1>1. Init => Abs!Init
  <2> SUFFICES ASSUME Init PROVE absLog = <<>> /\ absStatus = [c \in Calls |-> "idle"]
    BY DEF Abs!Init
  <2>1. absLog = <<>>
    BY DEF Init
  <2>2. \A c \in Calls : AbstractStatus(c) = "idle"
    BY DEF Init, AbstractStatus, InTransaction
  <2> QED
    BY <2>1, <2>2
<1>2. ChainInv /\ [Next]_vars => [Abs!Next]_(Abs!vars)
  <2> SUFFICES ASSUME ChainInv, [Next]_vars PROVE [Abs!Next]_(Abs!vars)
    OBVIOUS
  <2> USE DEF ChainInv, TypeOK
  <2>same. UNCHANGED audit_log => UNCHANGED absLog
    OBVIOUS
  <2>st. ASSUME NEW c \in Calls, NEW p, pc' = [pc EXCEPT ![c] = p]
         PROVE  /\ \A d \in Calls : d # c => AbstractStatus(d)' = AbstractStatus(d)
                /\ absStatus' = [absStatus EXCEPT ![c] = AbstractStatus(c)']
    BY <2>st DEF AbstractStatus
  <2>1. ASSUME NEW c \in Calls, Begin(c) PROVE Abs!Start(c)
    BY <2>1, <2>st, <2>same DEF Begin, Abs!Start, AbstractStatus, InTransaction
  <2>2. ASSUME NEW c \in Calls,
               AcquireChainLock(c) \/ ScanTail(c) \/ LockTail(c) \/ InsertRecord(c)
        PROVE  UNCHANGED Abs!vars
    <3>1. /\ pc[c] \in InTransaction
          /\ \E p \in InTransaction : pc' = [pc EXCEPT ![c] = p]
          /\ UNCHANGED audit_log
      <4>1. CASE InsertRecord(c)
        <5>1. appendRecord(prev[c], c).seq \notin DOMAIN audit_log
          BY <4>1, NextRow DEF InsertRecord, TailFresh
        <5> QED
          BY <4>1, <5>1 DEF InsertRecord, InTransaction
      <4> QED
        BY <2>2, <4>1 DEF AcquireChainLock, ScanTail, LockTail, InTransaction
    <3>2. AbstractStatus(c)' = AbstractStatus(c)
      BY <3>1 DEF AbstractStatus
    <3>3. UNCHANGED absLog
      BY <3>1
    <3>4. UNCHANGED absStatus
      BY <3>1, <3>2, <2>st
    <3> QED
      BY <3>3, <3>4 DEF Abs!vars
  <2>3. ASSUME NEW c \in Calls, Return(c) PROVE Abs!Succeed(c)
    BY <2>3, <2>st, <2>same DEF Return, Abs!Succeed, AbstractStatus, InTransaction
  <2>4. ASSUME NEW c \in Calls, Rollback(c) \/ LoseCommitAnswer(c) PROVE Abs!Fail(c)
    BY <2>4, <2>st, <2>same DEF Rollback, LoseCommitAnswer, Abs!Fail, AbstractStatus, InTransaction
  <2>5. ASSUME NEW c \in Calls, Commit(c) PROVE Abs!Record(c)
    <3>1. PICK n \in Nat :
             /\ DOMAIN audit_log = 1..n /\ DOMAIN audit_log' = 1..(n + 1)
             /\ \A s \in 1..n : audit_log'[s] = audit_log[s]
             /\ audit_log'[n + 1].input = c
      BY <2>5, CommitExtends
    <3>2. absLog \in [1..n -> Calls] /\ absLog \in Seq(Calls) /\ Len(absLog) = n
      BY <3>1 DEF IsRow
    <3>3. absLog' = Append(absLog, c)
      <4>1. \A i \in 1..(n + 1) :
               absLog'[i] = IF i = n + 1 THEN c ELSE absLog[i]
        BY <3>1
      <4>2. Append(absLog, c) = [i \in 1..(n + 1) |-> IF i = n + 1 THEN c ELSE absLog[i]]
        BY <3>2
      <4> QED
        BY <3>1, <4>1, <4>2
    <3>4. AbstractStatus(c) = "running" /\ AbstractStatus(c)' = "logged"
      BY <2>5 DEF Commit, AbstractStatus, InTransaction
    <3> QED
      BY <2>5, <2>st, <3>3, <3>4 DEF Commit, Abs!Record
  <2>6. CASE UNCHANGED vars
    BY <2>6, <2>same DEF vars, Abs!vars, AbstractStatus
  <2> QED
    BY <2>1, <2>2, <2>3, <2>4, <2>5, <2>6 DEF Next, Proceed, Abs!Next
<1> QED
  BY <1>1, <1>2, ChainInvariant, PTL DEF Spec, ImplementsAuditLog, Abs!Spec

-----------------------------------------------------------------------------
(* The readers of the whole log.                                           *)

\* With keys a..b, the rows in key order are the rows a, a + 1, ..., b.
LEMMA OrderedInterval ==
  ASSUME NEW a \in Nat \ {0}, NEW b \in Nat, b >= a - 1
  PROVE  OrderBySeq(a..b) = [i \in 1..(b - a + 1) |-> audit_log[a + i - 1]]
<1>1. Cardinality(a..b) = b - a + 1
  <2>1. Cardinality(a..b) = IF a > b THEN 0 ELSE b - a + 1
    BY FS_Interval
  <2> QED
    BY <2>1
<1>2. ASSUME NEW s \in a..b PROVE Cardinality({t \in a..b : t <= s}) = s - a + 1
  <2>1. {t \in a..b : t <= s} = a..s
    OBVIOUS
  <2>2. Cardinality(a..s) = s - a + 1
    BY FS_Interval
  <2> QED
    BY <2>1, <2>2
<1>3. ASSUME NEW i \in 1..(b - a + 1)
      PROVE  (CHOOSE s \in a..b : Cardinality({t \in a..b : t <= s}) = i) = a + i - 1
  <2>1. a + i - 1 \in a..b /\ (a + i - 1) - a + 1 = i
    OBVIOUS
  <2>2. Cardinality({t \in a..b : t <= a + i - 1}) = i
    BY <1>2, <2>1
  <2>3. \A s \in a..b : Cardinality({t \in a..b : t <= s}) = i => s = a + i - 1
    <3> SUFFICES ASSUME NEW s \in a..b, Cardinality({t \in a..b : t <= s}) = i
                 PROVE  s = a + i - 1
      OBVIOUS
    <3>1. s - a + 1 = i
      BY <1>2
    <3> QED
      BY <3>1
  <2> QED
    BY <2>1, <2>2, <2>3
<1> DEFINE key(i) == CHOOSE s \in a..b : Cardinality({t \in a..b : t <= s}) = i
<1>4. OrderBySeq(a..b) = [i \in 1..(b - a + 1) |-> audit_log[key(i)]]
  BY <1>1 DEF OrderBySeq
<1>5. \A i \in 1..(b - a + 1) : key(i) = a + i - 1
  BY <1>3
<1> HIDE DEF key
<1> QED
  BY <1>4, <1>5

\* Rows a to b.
Page(a, b) == [i \in 1..(b - a + 1) |-> audit_log[a + i - 1]]

\* A page is the rows from its first key on, up to the limit or the last row.
LEMMA PageRows ==
  ASSUME NEW n \in Nat, DOMAIN audit_log = 1..n, NEW from \in 1..(n + 1), NEW limit \in Nat \ {0}
  PROVE  \E m \in 0..n :
           /\ m >= from - 1 /\ m - from + 1 <= limit /\ (m - from + 1 < limit => m = n)
           /\ readPage(from, limit) = Page(from, m)
<1> DEFINE m == IF n - from + 1 <= limit THEN n ELSE from + limit - 1
           keys == {s \in DOMAIN audit_log :
                      /\ s >= from
                      /\ Cardinality({t \in DOMAIN audit_log : from <= t /\ t <= s}) <= limit}
<1>1. m \in 0..n /\ m >= from - 1 /\ m - from + 1 <= limit /\ (m - from + 1 < limit => m = n)
  OBVIOUS
<1>2. keys = from..m
  <2>1. ASSUME NEW s \in 1..n, s >= from
        PROVE  Cardinality({t \in 1..n : from <= t /\ t <= s}) = s - from + 1
    <3>1. {t \in 1..n : from <= t /\ t <= s} = from..s
      BY <2>1
    <3>2. Cardinality(from..s) = s - from + 1
      BY <2>1, FS_Interval
    <3> QED
      BY <3>1, <3>2
  <2>2. keys = {s \in 1..n : s >= from /\ s - from + 1 <= limit}
    BY <2>1
  <2> QED
    BY <2>2
<1>3. readPage(from, limit) = OrderBySeq(from..m)
  BY <1>2 DEF readPage
<1> HIDE DEF m
<1>4. OrderBySeq(from..m) = [i \in 1..(m - from + 1) |-> audit_log[from + i - 1]]
  BY <1>1, OrderedInterval
<1> QED
  BY <1>1, <1>3, <1>4 DEF Page

\* The first rows of the log are a sequence.
LEMMA PrefixSeq ==
  ASSUME NEW n \in Nat, DOMAIN audit_log = 1..n, NEW k \in 0..n
  PROVE  /\ Prefix(k) \in Seq({audit_log[s] : s \in 1..n})
         /\ Len(Prefix(k)) = k /\ DOMAIN Prefix(k) = 1..k
         /\ \A i \in 1..k : Prefix(k)[i] = audit_log[i]
<1>1. Prefix(k) \in [1..k -> {audit_log[s] : s \in 1..n}]
  BY DEF Prefix
<1> QED
  BY <1>1 DEF Prefix

\* A page read after the first k rows extends them.
LEMMA PrefixPage ==
  ASSUME NEW n \in Nat, DOMAIN audit_log = 1..n, NEW k \in 0..n, NEW m \in k..n
  PROVE  Prefix(k) \o [i \in 1..(m - (k + 1) + 1) |-> audit_log[(k + 1) + i - 1]] = Prefix(m)
<1> DEFINE R == {audit_log[s] : s \in 1..n}
           B == [i \in 1..(m - k) |-> audit_log[k + i]]
<1>1. [i \in 1..(m - (k + 1) + 1) |-> audit_log[(k + 1) + i - 1]] = B
  <2>1. m - (k + 1) + 1 = m - k /\ \A i \in 1..(m - k) : (k + 1) + i - 1 = k + i
    OBVIOUS
  <2> QED
    BY <2>1
<1>2. Prefix(k) \in Seq(R) /\ Len(Prefix(k)) = k /\ \A i \in 1..k : Prefix(k)[i] = audit_log[i]
  BY PrefixSeq
<1>3. B \in Seq(R) /\ Len(B) = m - k /\ \A i \in 1..(m - k) : B[i] = audit_log[k + i]
  <2>1. B \in [1..(m - k) -> R]
    OBVIOUS
  <2>2. m - k \in Nat
    OBVIOUS
  <2> QED
    BY <2>1, <2>2
<1> HIDE DEF B, R
<1>4. /\ Prefix(k) \o B \in Seq(R) /\ Len(Prefix(k) \o B) = m
      /\ \A i \in 1..m : (Prefix(k) \o B)[i] = IF i <= k THEN Prefix(k)[i] ELSE B[i - k]
  <2>1. k + (m - k) = m
    OBVIOUS
  <2> QED
    BY <1>2, <1>3, <2>1, ConcatProperties
<1>5. \A i \in 1..m : (IF i <= k THEN Prefix(k)[i] ELSE B[i - k]) = audit_log[i]
  <2> SUFFICES ASSUME NEW i \in 1..m
               PROVE  (IF i <= k THEN Prefix(k)[i] ELSE B[i - k]) = audit_log[i]
    OBVIOUS
  <2>1. CASE i <= k
    BY <1>2, <2>1
  <2>2. CASE ~(i <= k)
    <3>1. i - k \in 1..(m - k) /\ k + (i - k) = i
      BY <2>2
    <3> QED
      BY <1>3, <2>2, <3>1
  <2> QED
    BY <2>1, <2>2
<1>6. Prefix(m) \in Seq(R) /\ Len(Prefix(m)) = m /\ \A i \in 1..m : Prefix(m)[i] = audit_log[i]
  <2>1. m \in 0..n
    OBVIOUS
  <2> QED
    BY <2>1, PrefixSeq DEF R
<1>7. Prefix(k) \o B = Prefix(m)
  BY <1>4, <1>5, <1>6, SeqEqual
<1> QED
  BY <1>1, <1>7

\* verifyChain finds no fault with the first rows of the log.
LEMMA PrefixVerifies ==
  ASSUME ChainInv, NEW n \in Nat, DOMAIN audit_log = 1..n, NEW k \in 0..n
  PROVE  verifyChain(Prefix(k)) = [ok |-> TRUE, count |-> k]
<1>1. Len(Prefix(k)) = k /\ \A i \in 1..k : Prefix(k)[i] = audit_log[i]
  BY PrefixSeq
<1>2. ASSUME NEW i \in 1..k PROVE failureAt(Prefix(k), i) = "none"
  <2>1. i \in DOMAIN audit_log /\ Prefix(k)[i] = audit_log[i]
        /\ (i # 1 => i - 1 \in 1..k /\ Prefix(k)[i - 1] = audit_log[i - 1]
                     /\ i - 1 \in DOMAIN audit_log)
    BY <1>1
  <2>2. /\ audit_log[i].seq = i /\ audit_log[i].hash = hashRecord(Body(audit_log[i]))
        /\ i = 1 => audit_log[i].prevHash = GENESIS_HASH
        /\ i # 1 => audit_log[i].prevHash = audit_log[i - 1].hash /\ audit_log[i - 1].seq = i - 1
    BY <2>1 DEF ChainInv, ChainLinked
  <2> QED
    BY <2>1, <2>2 DEF failureAt
<1> QED
  BY <1>1, <1>2 DEF verifyChain

\* The n rows of the log and what a step of the appends does to them.
Rows(n) == n \in Nat /\ n = Cardinality(DOMAIN audit_log) /\ DOMAIN audit_log = 1..n

\* The keys of the log are 1 to n.
LEMMA RowsOfLog == ASSUME ChainInv PROVE \E n \in Nat : Rows(n)
BY DEF ChainInv, Contiguous, Rows

\* An append adds rows and changes none.
LEMMA RowsStep ==
  ASSUME ChainInv, ChainInv', [Next]_vars, NEW n, Rows(n)
  PROVE  \E m \in Nat : /\ m >= n /\ Rows(m)'
                        /\ \A s \in 1..n : audit_log'[s] = audit_log[s]
<1>1. PICK m \in Nat : m = Cardinality(DOMAIN audit_log') /\ DOMAIN audit_log' = 1..m
  BY DEF ChainInv, Contiguous
<1>2. Rows(m)'
  BY <1>1 DEF Rows
<1>3. CASE UNCHANGED audit_log
  BY <1>1, <1>2, <1>3 DEF Rows
<1>4. CASE \E c \in Calls : Commit(c)
  <2>1. PICK k \in Nat : /\ DOMAIN audit_log = 1..k /\ DOMAIN audit_log' = 1..(k + 1)
                         /\ \A s \in 1..k : audit_log'[s] = audit_log[s]
    BY <1>4, CommitExtends
  <2>2. Cardinality(1..k) = k /\ Cardinality(1..(k + 1)) = k + 1
    BY FS_Interval
  <2>3. n = k /\ m = k + 1
    BY <1>1, <2>1, <2>2 DEF Rows
  <2> QED
    BY <1>2, <2>1, <2>3
<1> QED
  BY <1>3, <1>4, LogStep

\* The appends leave what a reader has collected a prefix of the log.
LEMMA ReadUnderAppends ==
  ASSUME ChainInv, ChainInv', ReadInv, [Next]_vars, UNCHANGED readerVars
  PROVE  ReadInv'
<1>1. PICK n \in Nat : Rows(n)
  BY RowsOfLog
<1>2. PICK m \in Nat : /\ m >= n /\ Rows(m)' /\ \A s \in 1..n : audit_log'[s] = audit_log[s]
  BY <1>1, RowsStep
<1>3. UNCHANGED <<vpc, task, reader, served, fromSeq, all, verdict, rowsAtStart>>
  BY DEF readerVars
<1>4. PICK k \in 0..n : /\ all = Prefix(k)
                        /\ vpc = "reading" => fromSeq = k + 1
                        /\ vpc = "done" => rowsAtStart <= k
  BY <1>1 DEF ReadInv, Rows
<1>5. Prefix(k)' = Prefix(k)
  BY <1>2, <1>4 DEF Prefix
<1>6. k \in 0..m /\ rowsAtStart \in 0..n /\ rowsAtStart \in 0..m
  BY <1>1, <1>2, <1>4 DEF ReadInv, Rows
<1>7. reader # NoOne => \E s \in 1..rowsAtStart : audit_log'[s].input = reader
  <2>1. \A s \in 1..rowsAtStart : audit_log'[s] = audit_log[s]
    BY <1>2, <1>6
  <2> QED
    BY <2>1 DEF ReadInv
<1>8. m = Cardinality(DOMAIN audit_log')
  BY <1>2 DEF Rows
<1>9. vpc' \in {"idle", "reading", "done"}
      /\ (vpc' = "done" /\ task' = "verify" => verdict' = [ok |-> TRUE, count |-> Len(all')])
  BY <1>3 DEF ReadInv
<1>10. \E j \in 0..m : /\ all' = Prefix(j)'
                       /\ vpc' = "reading" => fromSeq' = j + 1
                       /\ vpc' = "done" => rowsAtStart' <= j
  BY <1>3, <1>4, <1>5, <1>6
<1> QED
  BY <1>3, <1>6, <1>7, <1>8, <1>9, <1>10 DEF ReadInv

\* A read begins with nothing collected; an admin's decision is in the log.
LEMMA ReadBegins ==
  ASSUME ChainInv, ReadInv, NEW t, NEW who, BeginRead(t, who),
         who = NoOne \/ \E s \in DOMAIN audit_log : audit_log[s].input = who
  PROVE  ReadInv'
<1>1. PICK n \in Nat : Rows(n)
  BY RowsOfLog
<1>2. /\ vpc' = "reading" /\ reader' = who /\ fromSeq' = 1 /\ all' = <<>>
      /\ rowsAtStart' = n /\ audit_log' = audit_log
  BY <1>1 DEF BeginRead, vars, Rows
<1>3. DOMAIN audit_log = 1..n /\ n = Cardinality(DOMAIN audit_log')
  BY <1>1, <1>2 DEF Rows
<1>4. all' = Prefix(0)' /\ 0 \in 0..n /\ fromSeq' = 0 + 1
  BY <1>2 DEF Prefix
<1>5. \E j \in 0..n : /\ all' = Prefix(j)'
                      /\ vpc' = "reading" => fromSeq' = j + 1
                      /\ vpc' = "done" => rowsAtStart' <= j
  BY <1>2, <1>4
<1>6. reader' # NoOne => \E s \in 1..rowsAtStart' : audit_log'[s].input = reader'
  BY <1>2, <1>3
<1> QED
  BY <1>2, <1>3, <1>5, <1>6 DEF ReadInv

\* One page: the rows collected become a longer prefix, and the whole log as
\* it is when the last page is short.
LEMMA PageStep ==
  ASSUME ChainInv, ReadInv, ReadPage
  PROVE  ReadInv'
<1>1. PICK n \in Nat : Rows(n)
  BY RowsOfLog
<1>2. DOMAIN audit_log = 1..n /\ n = Cardinality(DOMAIN audit_log)
  BY <1>1 DEF Rows
<1>3. PICK k \in 0..n : all = Prefix(k) /\ fromSeq = k + 1
  BY <1>2 DEF ReadInv, ReadPage
<1> DEFINE batch == readPage(fromSeq, PageSize)
<1>4. PICK m \in 0..n :
        /\ m >= (k + 1) - 1 /\ m - (k + 1) + 1 <= PageSize
        /\ (m - (k + 1) + 1 < PageSize => m = n)
        /\ batch = [i \in 1..(m - (k + 1) + 1) |-> audit_log[(k + 1) + i - 1]]
  <2>1. k + 1 \in 1..(n + 1)
    OBVIOUS
  <2>2. ASSUME NEW from, from = k + 1
        PROVE  \E m \in 0..n :
                 /\ m >= from - 1 /\ m - from + 1 <= PageSize
                 /\ (m - from + 1 < PageSize => m = n)
                 /\ readPage(from, PageSize) = Page(from, m)
    <3>1. from \in 1..(n + 1) /\ PageSize \in Nat \ {0} /\ DOMAIN audit_log = 1..n
      BY <1>2, <2>1, <2>2, PageSizeAssumption
    <3> QED
      BY <3>1, PageRows
  <2>3. batch = readPage(k + 1, PageSize)
    BY <1>3
  <2>4. PICK m \in 0..n :
          /\ m >= (k + 1) - 1 /\ m - (k + 1) + 1 <= PageSize
          /\ (m - (k + 1) + 1 < PageSize => m = n)
          /\ readPage(k + 1, PageSize) = Page(k + 1, m)
    BY <2>2
  <2> QED
    BY <2>3, <2>4 DEF Page
<1>5. m \in k..n
  BY <1>4
<1>6. all \o batch = Prefix(m)
  <2>1. all \o batch
          = Prefix(k) \o [i \in 1..(m - (k + 1) + 1) |-> audit_log[(k + 1) + i - 1]]
    BY <1>3, <1>4
  <2> HIDE DEF batch
  <2> QED
    BY <1>2, <1>5, <2>1, PrefixPage
<1>7. Len(batch) = m - k
  <2>1. m - (k + 1) + 1 = m - k /\ m - k \in Nat
    BY <1>5
  <2>2. batch = [i \in 1..(m - k) |-> audit_log[(k + 1) + i - 1]]
    BY <1>4, <2>1
  <2>3. \A i \in 1..(m - k) : (k + 1) + i - 1 \in 1..n
    BY <1>5
  <2>4. batch \in [1..(m - k) -> {audit_log[s] : s \in 1..n}]
    BY <2>2, <2>3
  <2> HIDE DEF batch
  <2> QED
    BY <2>1, <2>4
<1>8. /\ all' = Prefix(m) /\ audit_log' = audit_log
      /\ UNCHANGED <<task, reader, rowsAtStart>>
      /\ vpc = "reading"
  BY <1>6 DEF ReadPage, vars
<1>9. Prefix(m)' = Prefix(m)
  BY <1>8 DEF Prefix
<1>10. rowsAtStart \in 0..n /\ (reader # NoOne => \E s \in 1..rowsAtStart : audit_log[s].input = reader)
  BY <1>2 DEF ReadInv
<1>11. Len(Prefix(m)) = m /\ (m > 0 => Prefix(m)[m].seq = m)
  <2>1. Len(Prefix(m)) = m /\ \A i \in 1..m : Prefix(m)[i] = audit_log[i]
    BY <1>2, PrefixSeq
  <2> QED
    BY <1>2, <2>1 DEF ChainInv, ChainLinked
<1>12. CASE Len(batch) < PageSize
  <2>1. vpc' = "done" /\ verdict' = IF task = "verify" THEN verifyChain(Prefix(m)) ELSE verdict
    BY <1>6, <1>12 DEF ReadPage
  <2>2. m = n
    BY <1>4, <1>5, <1>7, <1>12
  <2>3. task = "verify" => verdict' = [ok |-> TRUE, count |-> m]
    BY <1>2, <2>1, PrefixVerifies
  <2>4. vpc' = "done" /\ task' = "verify" => verdict' = [ok |-> TRUE, count |-> Len(all')]
    BY <1>8, <1>11, <2>3
  <2>5. \E j \in 0..n : /\ all' = Prefix(j)'
                        /\ vpc' = "reading" => fromSeq' = j + 1
                        /\ vpc' = "done" => rowsAtStart' <= j
    BY <1>8, <1>9, <1>10, <2>1, <2>2
  <2> QED
    BY <1>2, <1>8, <1>10, <2>1, <2>4, <2>5 DEF ReadInv
<1>13. CASE ~(Len(batch) < PageSize)
  <2>1. vpc' = "reading" /\ fromSeq' = nextFrom(Prefix(m))
    BY <1>6, <1>8, <1>13 DEF ReadPage
  <2>2. m > 0
    BY <1>5, <1>7, <1>13, PageSizeAssumption
  <2>3. fromSeq' = m + 1
    BY <1>11, <2>1, <2>2 DEF nextFrom
  <2>4. \E j \in 0..n : /\ all' = Prefix(j)'
                        /\ vpc' = "reading" => fromSeq' = j + 1
                        /\ vpc' = "done" => rowsAtStart' <= j
    BY <1>8, <1>9, <2>1, <2>3
  <2> QED
    BY <1>2, <1>8, <1>10, <2>1, <2>4 DEF ReadInv
<1> QED
  BY <1>12, <1>13

\* Appends and readers together: the chain and the reader's prefix hold in
\* every reachable state.
THEOREM ReadInvariant == VSpec => [](ChainInv /\ ReadInv)
<1>1. VInit => ChainInv /\ ReadInv
  <2> SUFFICES ASSUME VInit PROVE ChainInv /\ ReadInv
    OBVIOUS
  <2>1. ChainInv
    BY InitChainInv DEF VInit
  <2>2. Cardinality(DOMAIN audit_log) = 0
    BY FS_EmptySet DEF VInit, Init
  <2>3. all = Prefix(0)
    BY DEF VInit, Prefix
  <2> QED
    BY <2>1, <2>2, <2>3 DEF VInit, ReadInv
<1>2. ChainInv /\ ReadInv /\ [VNext]_<<vars, readerVars>> => ChainInv' /\ ReadInv'
  <2> SUFFICES ASSUME ChainInv, ReadInv, [VNext]_<<vars, readerVars>>
               PROVE  ChainInv' /\ ReadInv'
    OBVIOUS
  <2>1. [Next]_vars
    BY DEF VNext, StartVerify, AdminRead, BeginRead, ReadPage
  <2>2. ChainInv'
    BY <2>1, NextChainInv
  <2>3. CASE UNCHANGED readerVars
    BY <2>1, <2>2, <2>3, ReadUnderAppends
  <2>4. CASE StartVerify
    <3>1. BeginRead("verify", NoOne)
      BY <2>4 DEF StartVerify
    <3> QED
      BY <2>2, <3>1, ReadBegins
  <2>5. ASSUME NEW c \in AdminReads, NEW t, AdminRead(c, t) PROVE ReadInv'
    <3>1. \E s \in DOMAIN audit_log : audit_log[s].input = c
      BY <2>5, PageSizeAssumption DEF AdminRead, ChainInv, AppendExactlyOnce
    <3> QED
      BY <2>5, <3>1, ReadBegins DEF AdminRead
  <2>6. CASE ReadPage
    BY <2>2, <2>6, PageStep
  <2> QED
    BY <2>2, <2>3, <2>4, <2>5, <2>6 DEF VNext
<1> QED
  BY <1>1, <1>2, PTL DEF VSpec

\* What a reader that is done has: a prefix of the log, up to at least the
\* rows that were there when it began.
LEMMA DoneHasPrefix ==
  ASSUME ChainInv, ReadInv
  PROVE  \E n \in Nat, k \in Nat :
           /\ Rows(n) /\ k \in 0..n /\ all = Prefix(k) /\ Len(all) = k
           /\ vpc = "done" => rowsAtStart <= k
           /\ \A i \in 1..k : all[i] = audit_log[i]
           /\ rowsAtStart \in Nat
<1>1. PICK n \in Nat : Rows(n)
  BY RowsOfLog
<1>2. DOMAIN audit_log = 1..n /\ n = Cardinality(DOMAIN audit_log)
  BY <1>1 DEF Rows
<1>3. PICK k \in 0..n : all = Prefix(k) /\ (vpc = "done" => rowsAtStart <= k)
  BY <1>2 DEF ReadInv
<1>4. Len(Prefix(k)) = k /\ \A i \in 1..k : Prefix(k)[i] = audit_log[i]
  BY <1>2, PrefixSeq
<1>5. rowsAtStart \in Nat
  BY <1>2 DEF ReadInv
<1> QED
  BY <1>1, <1>3, <1>4, <1>5

\* verify() never reports a fault of an untampered log, although appends
\* commit between its pages.
THEOREM NoFalseAlarm == VSpec => []VerifyOkUnderAppends
<1>1. ChainInv /\ ReadInv => VerifyOkUnderAppends
  <2> SUFFICES ASSUME ChainInv, ReadInv, vpc = "done", task = "verify"
               PROVE  /\ verdict.ok /\ verdict.count = Len(all)
                      /\ verdict.count <= Cardinality(DOMAIN audit_log)
    BY DEF VerifyOkUnderAppends
  <2>1. verdict = [ok |-> TRUE, count |-> Len(all)]
    BY DEF ReadInv
  <2>2. verdict.ok /\ verdict.count = Len(all)
    BY <2>1
  <2>3. Len(all) <= Cardinality(DOMAIN audit_log)
    BY DoneHasPrefix DEF Rows
  <2> QED
    BY <2>2, <2>3
<1> QED
  BY <1>1, ReadInvariant, PTL

\* Every reader gets the records committed when it began, the decision that
\* let an admin read among them.
THEOREM ReadIsComplete == VSpec => []ReadCoversDecision
<1>1. ChainInv /\ ReadInv => ReadCoversDecision
  <2> SUFFICES ASSUME ChainInv, ReadInv, vpc = "done"
               PROVE  /\ Len(all) >= rowsAtStart
                      /\ reader # NoOne => \E i \in 1..Len(all) : all[i].input = reader
    BY DEF ReadCoversDecision
  <2>1. PICK k \in Nat : /\ Len(all) = k /\ rowsAtStart <= k /\ rowsAtStart \in Nat
                         /\ \A i \in 1..k : all[i] = audit_log[i]
    BY DoneHasPrefix
  <2>2. ASSUME reader # NoOne PROVE \E i \in 1..Len(all) : all[i].input = reader
    <3>1. PICK s \in 1..rowsAtStart : audit_log[s].input = reader
      BY <2>2 DEF ReadInv
    <3>2. s \in 1..k
      BY <2>1, <3>1
    <3> QED
      BY <2>1, <3>1, <3>2
  <2> QED
    BY <2>1, <2>2
<1> QED
  BY <1>1, ReadInvariant, PTL

-----------------------------------------------------------------------------
(* Tampering is found, and found in its place.                             *)

\* What is known of the rows collected: consecutive numbers, hashes of their
\* bodies, links, a genesis.
Chained(records) ==
  \A i \in DOMAIN records :
    LET r == records[i] IN
    /\ r = [seq |-> r.seq, input |-> r.input, prevHash |-> r.prevHash, hash |-> r.hash]
    /\ r.seq = i /\ r.hash = hashRecord(Body(r))
    /\ r.prevHash = IF i = 1 THEN GENESIS_HASH ELSE records[i - 1].hash

\* A chain altered from position p on, with a fault at p or right after it.
LEMMA FaultLocated ==
  ASSUME NEW records, NEW n \in Nat, DOMAIN records = 1..n, Chained(records),
         NEW altered, NEW m \in Nat, DOMAIN altered = 1..m, Len(altered) = m,
         NEW p \in 1..n, p \in 1..m,
         \A i \in 1..(p - 1) : altered[i] = records[i],
         \/ failureAt(altered, p) # "none"
         \/ p + 1 \in 1..m /\ failureAt(altered, p + 1) # "none"
  PROVE  /\ ~verifyChain(altered).ok
         /\ \E i \in Faulty(altered) \intersect {p, p + 1} : \A j \in Faulty(altered) : i <= j
<1>1. ASSUME NEW i \in 1..(p - 1) PROVE failureAt(altered, i) = "none"
  <2>1. i \in 1..n /\ altered[i] = records[i]
        /\ (i # 1 => i - 1 \in 1..n /\ altered[i - 1] = records[i - 1])
    OBVIOUS
  <2>2. /\ records[i].seq = i /\ records[i].hash = hashRecord(Body(records[i]))
        /\ i = 1 => records[i].prevHash = GENESIS_HASH
        /\ i # 1 => records[i].prevHash = records[i - 1].hash /\ records[i - 1].seq = i - 1
    BY <2>1 DEF Chained
  <2> QED
    BY <2>1, <2>2 DEF failureAt
<1> DEFINE bad == Faulty(altered)
<1>2. bad \subseteq p..m /\ (p \in bad \/ p + 1 \in bad)
  BY <1>1 DEF Faulty
<1>3. {i \in 1..Len(altered) : failureAt(altered, i) # "none"} = bad
  BY DEF Faulty
<1> HIDE DEF bad
<1>4. ~verifyChain(altered).ok
  <2>1. bad # {}
    BY <1>2
  <2>2. \E f, g : verifyChain(altered) = [ok |-> FALSE, failedSeq |-> f, reason |-> g]
    BY <1>3, <2>1 DEF verifyChain
  <2> QED
    BY <2>2
<1>5. CASE p \in bad
  <2>1. \A j \in bad : p <= j
    BY <1>2
  <2> QED
    BY <1>4, <1>5, <2>1 DEF bad
<1>6. CASE p \notin bad
  <2>1. \A j \in bad : p + 1 <= j
    BY <1>2, <1>6
  <2> QED
    BY <1>2, <1>6, <2>1, <1>4 DEF bad
<1> QED
  BY <1>4, <1>5, <1>6

\* What TamperLocated says of one alteration.
Found(a) == LET bad == Faulty(a.records) IN
            /\ ~verifyChain(a.records).ok
            /\ \E i \in bad \intersect {a.at, a.at + 1} : \A j \in bad : i <= j

\* ... said of an alteration.
LEMMA FoundAt ==
  ASSUME NEW records, NEW n \in Nat, DOMAIN records = 1..n, Chained(records),
         NEW altered, NEW m \in Nat, DOMAIN altered = 1..m, Len(altered) = m,
         NEW p \in 1..n, p \in 1..m,
         \A i \in 1..(p - 1) : altered[i] = records[i],
         \/ failureAt(altered, p) # "none"
         \/ p + 1 \in 1..m /\ failureAt(altered, p + 1) # "none"
  PROVE  Found(Alteration(p, altered))
<1>1. Alteration(p, altered).at = p /\ Alteration(p, altered).records = altered
  BY DEF Alteration
<1>2. /\ ~verifyChain(altered).ok
      /\ \E i \in Faulty(altered) \intersect {p, p + 1} : \A j \in Faulty(altered) : i <= j
  BY FaultLocated
<1> QED
  BY <1>1, <1>2 DEF Found

\* One record replaced by another: found at once if its number, link or hash is
\* wrong, else by the link of the next record, which has the old hash.
LEMMA ReplacedFound ==
  ASSUME NEW records, NEW n \in Nat, DOMAIN records = 1..n, Len(records) = n, Chained(records),
         NEW p \in 1..n, p < n, NEW r,
         \/ r.seq # p
         \/ p = 1 /\ r.prevHash # GENESIS_HASH
         \/ r.hash # hashRecord(Body(r))
         \/ r.hash # records[p].hash
  PROVE  Found(Alteration(p, [records EXCEPT ![p] = r]))
<1> DEFINE altered == [records EXCEPT ![p] = r]
<1>1. /\ DOMAIN altered = 1..n /\ altered[p] = r
      /\ \A i \in 1..n : i # p => altered[i] = records[i]
  OBVIOUS
<1>2. Len(altered) = n
  <2>1. altered \in [1..n -> {altered[i] : i \in 1..n}]
    BY <1>1
  <2> HIDE DEF altered
  <2> QED
    BY <2>1
<1>3. \/ failureAt(altered, p) # "none"
      \/ p + 1 \in 1..n /\ failureAt(altered, p + 1) # "none"
  <2> HIDE DEF altered
  <2>0. /\ p > 1 => p - 1 \in 1..n /\ p - 1 # p /\ altered[p - 1] = records[p - 1]
        /\ p + 1 \in 1..n /\ p + 1 # p /\ p + 1 # 1 /\ (p + 1) - 1 = p
        /\ altered[p + 1] = records[p + 1]
    BY <1>1
  <2>1. CASE r.seq # p
    <3>1. p > 1 => altered[p - 1].seq + 1 = p
      BY <2>0 DEF Chained
    <3> QED
      BY <1>1, <2>1, <3>1 DEF failureAt
  <2>2. CASE r.seq = p /\ p = 1 /\ r.prevHash # GENESIS_HASH
    BY <1>1, <2>2 DEF failureAt
  <2>3. CASE r.hash # hashRecord(Body(r))
    BY <1>1, <2>3 DEF failureAt
  <2>4. CASE r.hash # records[p].hash
    <3>1. records[p + 1].prevHash = records[p].hash
      BY <2>0 DEF Chained
    <3>2. failureAt(altered, p + 1) # "none"
      BY <1>1, <2>0, <2>4, <3>1 DEF failureAt
    <3> QED
      BY <2>0, <3>2
  <2> QED
    BY <2>1, <2>2, <2>3, <2>4
<1>4. \A i \in 1..(p - 1) : altered[i] = records[i]
  BY <1>1
<1> HIDE DEF altered
<1>5. Found(Alteration(p, altered))
  BY <1>1, <1>2, <1>3, <1>4, FoundAt
<1> QED
  BY <1>5 DEF altered

\* A field changed, the hash recomputed or not.
LEMMA MutationFound ==
  ASSUME NEW records, NEW n \in Nat, DOMAIN records = 1..n, Len(records) = n, Chained(records),
         NEW inputs, NEW a \in Mutated(records, inputs),
         a.at < n, a.records[a.at] # records[a.at]
  PROVE  Found(a)
<1>1. ASSUME NEW p \in 1..n, NEW in, NEW r,
             \/ r = WithInput(records[p], in)
             \/ r = Rehashed(WithInput(records[p], in)),
             a = Alteration(p, [records EXCEPT ![p] = r])
      PROVE  Found(a)
  <2>1. a.at = p /\ a.records = [records EXCEPT ![p] = r]
    BY <1>1 DEF Alteration
  <2>2. p < n /\ r # records[p]
    BY <2>1
  <2> DEFINE o == records[p]
  <2>3. /\ o = [seq |-> o.seq, input |-> o.input, prevHash |-> o.prevHash, hash |-> o.hash]
        /\ o.hash = hashRecord(Body(o))
    BY DEF Chained
  <2> HIDE DEF o
  <2>4. CASE r = WithInput(o, in)
    <3>1. r = [seq |-> o.seq, input |-> in, prevHash |-> o.prevHash, hash |-> o.hash]
      BY <2>3, <2>4 DEF WithInput
    <3>2. in # o.input
      BY <2>2, <2>3, <3>1 DEF o
    <3>3. r.hash = o.hash /\ hashRecord(Body(r)) # hashRecord(Body(o))
      BY <3>1, <3>2 DEF Body, hashRecord
    <3>4. r.hash # hashRecord(Body(r))
      BY <2>3, <3>3
    <3> QED
      BY <1>1, <2>2, <3>4, ReplacedFound
  <2>5. CASE r = Rehashed(WithInput(o, in))
    <3> DEFINE b == [seq |-> o.seq, input |-> in, prevHash |-> o.prevHash]
    <3>1. r = [seq |-> o.seq, input |-> in, prevHash |-> o.prevHash, hash |-> hashRecord(b)]
      BY <2>3, <2>5 DEF WithInput, Rehashed, Body
    <3>2. in # o.input
      BY <2>2, <2>3, <3>1 DEF o, Body
    <3>3. r.hash # o.hash
      BY <2>3, <3>1, <3>2 DEF Body, hashRecord
    <3> QED
      BY <1>1, <2>2, <3>3, ReplacedFound DEF o
  <2> QED
    BY <1>1, <2>4, <2>5 DEF o
<1>2. PICK p \in 1..n, in \in inputs :
         \/ a = Replaced(records, p, WithInput(records[p], in))
         \/ a = Replaced(records, p, Rehashed(WithInput(records[p], in)))
  BY DEF Mutated
<1> QED
  BY <1>1, <1>2 DEF Replaced

\* A record left out: the next one stands in its place with a number too many.
LEMMA DeletionFound ==
  ASSUME NEW records, NEW n \in Nat, DOMAIN records = 1..n, Len(records) = n, Chained(records),
         NEW p \in 1..n, p < n
  PROVE  Found(Alteration(p, Dropped(records, p)))
<1> DEFINE altered == Dropped(records, p)
<1>1. /\ DOMAIN altered = 1..(n - 1) /\ n - 1 \in Nat
      /\ \A i \in 1..(n - 1) : altered[i] = IF i < p THEN records[i] ELSE records[i + 1]
  BY DEF Dropped
<1>2. altered \in [1..(n - 1) -> {altered[i] : i \in 1..(n - 1)}]
  BY <1>1 DEF Dropped
<1> HIDE DEF altered
<1>3. Len(altered) = n - 1
  BY <1>1, <1>2
<1>4. p \in 1..(n - 1) /\ \A i \in 1..(p - 1) : i \in 1..(n - 1) /\ altered[i] = records[i]
  BY <1>1
<1>5. altered[p].seq = p + 1
  BY <1>1, <1>4 DEF Chained
<1>6. p # 1 => altered[p - 1].seq = p - 1
  BY <1>4 DEF Chained
<1>7. failureAt(altered, p) # "none"
  BY <1>5, <1>6 DEF failureAt
<1>8. Found(Alteration(p, altered))
  BY <1>1, <1>3, <1>4, <1>7, FoundAt
<1> QED
  BY <1>8 DEF altered

\* Two records exchanged: the later one has the wrong number in the earlier place.
LEMMA ReorderFound ==
  ASSUME NEW records, NEW n \in Nat, DOMAIN records = 1..n, Len(records) = n, Chained(records),
         NEW p \in 1..n, NEW q \in 1..n, p < q
  PROVE  Found(Alteration(p, Swapped(records, p, q)))
<1> DEFINE altered == Swapped(records, p, q)
<1>1. /\ DOMAIN altered = 1..n /\ altered[p] = records[q]
      /\ \A i \in 1..n : i # p /\ i # q => altered[i] = records[i]
  BY DEF Swapped
<1>2. altered \in [1..n -> {altered[i] : i \in 1..n}]
  BY <1>1 DEF Swapped
<1> HIDE DEF altered
<1>3. Len(altered) = n
  BY <1>2
<1>4. \A i \in 1..(p - 1) : i \in 1..n /\ altered[i] = records[i]
  BY <1>1
<1>5. altered[p].seq = q
  BY <1>1 DEF Chained
<1>6. p # 1 => altered[p - 1].seq = p - 1
  BY <1>4 DEF Chained
<1>7. failureAt(altered, p) # "none"
  BY <1>5, <1>6 DEF failureAt
<1>8. Found(Alteration(p, altered))
  BY <1>1, <1>3, <1>4, <1>7, FoundAt
<1> QED
  BY <1>8 DEF altered

\* A record put in: the one it was put before has its number again.
LEMMA InsertionFound ==
  ASSUME NEW records, NEW n \in Nat, DOMAIN records = 1..n, Len(records) = n, Chained(records),
         NEW p \in 1..n, NEW r, r.seq = p
  PROVE  Found(Alteration(p, Spliced(records, p, r)))
<1> DEFINE altered == Spliced(records, p, r)
<1>1. /\ DOMAIN altered = 1..(n + 1)
      /\ \A i \in 1..(n + 1) : altered[i] = IF i < p THEN records[i]
                                            ELSE IF i = p THEN r ELSE records[i - 1]
  BY DEF Spliced
<1>2. altered \in [1..(n + 1) -> {altered[i] : i \in 1..(n + 1)}]
  BY <1>1 DEF Spliced
<1> HIDE DEF altered
<1>3. Len(altered) = n + 1 /\ n + 1 \in Nat
  BY <1>2
<1>4. \A i \in 1..(p - 1) : i \in 1..(n + 1) /\ altered[i] = records[i]
  BY <1>1
<1>5. /\ p \in 1..(n + 1) /\ p + 1 \in 1..(n + 1) /\ p + 1 # 1 /\ (p + 1) - 1 = p
      /\ altered[p] = r /\ altered[p + 1] = records[p]
  BY <1>1
<1>6. failureAt(altered, p + 1) # "none"
  BY <1>5 DEF failureAt, Chained
<1>7. Found(Alteration(p, altered))
  BY <1>1, <1>3, <1>4, <1>5, <1>6, FoundAt
<1> QED
  BY <1>7 DEF altered

\* Another genesis: the first record no longer begins the chain.
LEMMA GenesisFound ==
  ASSUME NEW records, NEW n \in Nat, DOMAIN records = 1..n, Len(records) = n, Chained(records),
         n > 1, NEW link, Rehashed(WithLink(records[1], link)) # records[1]
  PROVE  Found(Replaced(records, 1, Rehashed(WithLink(records[1], link))))
<1> DEFINE o == records[1]
           r == Rehashed(WithLink(o, link))
<1>1. /\ o = [seq |-> o.seq, input |-> o.input, prevHash |-> o.prevHash, hash |-> o.hash]
      /\ o.hash = hashRecord(Body(o)) /\ o.prevHash = GENESIS_HASH
  BY DEF Chained
<1>9. r # o
  OBVIOUS
<1> HIDE DEF o
<1> DEFINE w == WithLink(o, link)
           b == [seq |-> o.seq, input |-> o.input, prevHash |-> link]
<1>7. w = [seq |-> o.seq, input |-> o.input, prevHash |-> link, hash |-> o.hash]
  BY <1>1 DEF WithLink
<1>8. Body(w) = b
  BY <1>7 DEF Body
<1>2. r = [seq |-> o.seq, input |-> o.input, prevHash |-> link, hash |-> hashRecord(b)]
  <2> HIDE DEF w, b
  <2> SUFFICES Rehashed(w) = [seq |-> o.seq, input |-> o.input, prevHash |-> link,
                              hash |-> hashRecord(b)]
    BY DEF w
  <2> QED
    BY <1>7, <1>8 DEF Rehashed
<1>3. link # GENESIS_HASH
  <2>1. link = o.prevHash => b = Body(o)
    BY DEF Body
  <2> HIDE DEF b, r
  <2> QED
    BY <1>1, <1>2, <1>9, <2>1
<1> HIDE DEF r, b, w
<1>4. r.prevHash # GENESIS_HASH
  BY <1>2, <1>3
<1>5. Found(Alteration(1, [records EXCEPT ![1] = r]))
  <2>1. 1 \in 1..n /\ 1 < n
    OBVIOUS
  <2> QED
    BY ONLY <2>1, <1>4, ReplacedFound, n \in Nat, DOMAIN records = 1..n, Len(records) = n,
            Chained(records)
<1> QED
  BY <1>5 DEF Replaced, r, o

\* Every alteration the tests enumerate, of any chain.
LEMMA AlterationFound ==
  ASSUME NEW records, NEW n \in Nat, DOMAIN records = 1..n, Len(records) = n, Chained(records),
         NEW inputs, NEW a \in Alterations(records, inputs)
  PROVE  Found(a)
<1>1. a.at < n /\ a.records[a.at] # records[a.at]
  BY DEF Alterations
<1>2. CASE a \in Mutated(records, inputs)
  BY <1>1, <1>2, MutationFound
<1>3. CASE a \in Deleted(records)
  <2>1. PICK p \in 1..n : a = Alteration(p, Dropped(records, p))
    BY <1>3 DEF Deleted
  <2>2. a.at = p
    BY <2>1 DEF Alteration
  <2> QED
    BY <1>1, <2>1, <2>2, DeletionFound
<1>4. CASE a \in Reordered(records)
  <2>1. PICK p \in 1..n, q \in 1..n : p < q /\ a = Alteration(p, Swapped(records, p, q))
    BY <1>4 DEF Reordered
  <2> QED
    BY <2>1, ReorderFound
<1>5. CASE a \in Inserted(records, inputs)
  <2>0. PICK p \in 1..n : \E in, link : a = Alteration(p, Spliced(records, p, Forged(p, in, link)))
    BY <1>5 DEF Inserted
  <2>1. PICK in, link : a = Alteration(p, Spliced(records, p, Forged(p, in, link)))
    BY <2>0
  <2>2. Forged(p, in, link).seq = p
    BY DEF Forged, Rehashed
  <2> QED
    BY <2>1, <2>2, InsertionFound
<1>6. CASE a \in ForgedGenesis(records)
  <2>1. PICK i \in 1..n : a = Replaced(records, 1, Rehashed(WithLink(records[1], records[i].hash)))
    BY <1>6 DEF ForgedGenesis
  <2>2. a.at = 1 /\ 1 \in 1..n
        /\ a.records[1] = Rehashed(WithLink(records[1], records[i].hash))
    BY <2>1 DEF Replaced, Alteration
  <2> QED
    BY <1>1, <2>1, <2>2, GenesisFound
<1> QED
  BY <1>2, <1>3, <1>4, <1>5, <1>6 DEF Alterations

\* Whatever a finished reader collected, one alteration of it before its newest
\* record makes verifyChain fail at the altered record or its successor.
THEOREM TamperingIsLocated == VSpec => []TamperLocated
<1>1. ChainInv /\ ReadInv => TamperLocated
  <2> SUFFICES ASSUME ChainInv, ReadInv, NEW a \in Alterations(all, Calls)
               PROVE  Found(a)
    BY DEF TamperLocated, Found
  <2>1. PICK n \in Nat, k \in Nat :
           /\ Rows(n) /\ k \in 0..n /\ all = Prefix(k) /\ Len(all) = k
           /\ \A i \in 1..k : all[i] = audit_log[i]
    BY DoneHasPrefix
  <2>2. DOMAIN all = 1..k /\ DOMAIN audit_log = 1..n
    BY <2>1 DEF Prefix, Rows
  <2>3. Chained(all)
    <3> SUFFICES ASSUME NEW i \in 1..k
                 PROVE  LET r == all[i] IN
                        /\ r = [seq |-> r.seq, input |-> r.input, prevHash |-> r.prevHash,
                                hash |-> r.hash]
                        /\ r.seq = i /\ r.hash = hashRecord(Body(r))
                        /\ r.prevHash = IF i = 1 THEN GENESIS_HASH ELSE all[i - 1].hash
      BY <2>2 DEF Chained
    <3>1. all[i] = audit_log[i] /\ i \in DOMAIN audit_log
      BY <2>1, <2>2
    <3>2. i # 1 => all[i - 1] = audit_log[i - 1]
      BY <2>1
    <3>3. IsRow(audit_log[i])
      BY <3>1 DEF ChainInv, TypeOK
    <3>4. /\ audit_log[i].seq = i /\ audit_log[i].hash = hashRecord(Body(audit_log[i]))
          /\ audit_log[i].prevHash = IF i = 1 THEN GENESIS_HASH ELSE audit_log[i - 1].hash
      BY <3>1 DEF ChainInv, ChainLinked
    <3> QED
      BY <3>1, <3>2, <3>3, <3>4 DEF IsRow
  <2> QED
    BY <2>1, <2>2, <2>3, AlterationFound
<1> QED
  BY <1>1, ReadInvariant, PTL

-----------------------------------------------------------------------------
(* Waiting.                                                                *)

\* Appends wait for each other at the advisory lock only: behind it the FOR
\* UPDATE of the tail and the unique index never block (the guards of LockTail and
\* InsertRecord that stand for a wait are met), so its holder goes on to COMMIT.
THEOREM HolderNeverWaits ==
  Spec => [](\A c \in Calls : pc[c] \in Serialized =>
               \A d \in Calls \ {c} : pc[d] \notin Serialized /\ uncommitted[d] = NoRow)
<1> DEFINE Alone == \A c \in Calls : pc[c] \in Serialized =>
                      \A d \in Calls \ {c} : pc[d] \notin Serialized /\ uncommitted[d] = NoRow
<1>1. ChainInv => Alone
  BY DEF ChainInv, LockHeld, TailFresh, Serialized
<1> QED
  BY <1>1, ChainInvariant, PTL
=============================================================================
