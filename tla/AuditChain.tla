----------------------------- MODULE AuditChain -----------------------------
(***************************************************************************)
(* The append path of the audit package (packages/audit/src/store.ts and   *)
(* chain.ts): appendInTransaction inside a Postgres transaction, run by    *)
(* concurrent callers on connections of their own under READ COMMITTED.    *)
(*                                                                         *)
(* A call c \in Calls is one execution of append() with an input of its    *)
(* own.  Its program counter names the statement it executes next:         *)
(*   "idle"    not yet called                                              *)
(*   "lock"    BEGIN done; SELECT pg_advisory_xact_lock(KEY)               *)
(*   "scan"    SELECT ... ORDER BY seq DESC LIMIT 1 takes its snapshot     *)
(*   "rowlock" ... FOR UPDATE: waits for the lock on the row it found      *)
(*   "insert"  INSERT INTO audit_log                                       *)
(*   "commit"  COMMIT                                                      *)
(*   "acked"   the COMMIT took effect, its answer is on the way            *)
(*   "ok", "error", "unique_violation": append() returned or threw.        *)
(***************************************************************************)
EXTENDS HashChain, FiniteSets

CONSTANT Calls    \* the append calls of a run

ASSUME NoOneAssumption == NoOne \notin Calls

VARIABLES audit_log,   \* committed rows: a function from the primary key seq
          advisory,    \* holder of AUDIT_CHAIN_LOCK_KEY
          pc,          \* statement each call executes next
          prev,        \* the tail row each call read
          uncommitted  \* the row each call inserted and has not committed

vars == <<audit_log, advisory, pc, prev, uncommitted>>

-----------------------------------------------------------------------------
\* ORDER BY seq DESC LIMIT 1 over the committed rows.
TailRow == IF DOMAIN audit_log = {} THEN NoRow
           ELSE audit_log[CHOOSE s \in DOMAIN audit_log :
                                     \A t \in DOMAIN audit_log : t <= s]

-----------------------------------------------------------------------------
InTransaction == {"lock", "scan", "rowlock", "insert", "commit"}

Init == /\ audit_log = [s \in {} |-> NoRow]
        /\ advisory = NoOne
        /\ pc = [c \in Calls |-> "idle"]
        /\ prev = [c \in Calls |-> NoRow]
        /\ uncommitted = [c \in Calls |-> NoRow]

Begin(c) == /\ pc[c] = "idle"
            /\ pc' = [pc EXCEPT ![c] = "lock"]
            /\ UNCHANGED <<audit_log, advisory, prev, uncommitted>>

\* Mutant: the tail-row lock alone, as before AUDIT_CHAIN_LOCK_KEY existed.
AcquireChainLock_Skipped(c) ==
  /\ pc[c] = "lock"
  /\ pc' = [pc EXCEPT ![c] = "scan"]
  /\ UNCHANGED <<audit_log, advisory, prev, uncommitted>>

\* SELECT pg_advisory_xact_lock: waits for the lock, which its holder keeps
\* until COMMIT or ROLLBACK.
AcquireChainLock(c) == /\ pc[c] = "lock"
                       /\ advisory = NoOne
                       /\ advisory' = c
                       /\ pc' = [pc EXCEPT ![c] = "scan"]
                       /\ UNCHANGED <<audit_log, prev, uncommitted>>

\* The statement's snapshot: the row it will return is fixed here, even if
\* it then has to wait for that row's lock.
ScanTail(c) == /\ pc[c] = "scan"
               /\ prev' = [prev EXCEPT ![c] = TailRow]
               /\ pc' = [pc EXCEPT ![c] = "rowlock"]
               /\ UNCHANGED <<audit_log, advisory, uncommitted>>

\* FOR UPDATE: granted once no other transaction has locked the same row.
LockTail(c) == /\ pc[c] = "rowlock"
               /\ \/ prev[c] = NoRow
                  \/ \A d \in Calls \ {c} : pc[d] \in {"insert", "commit"}
                                               => prev[d] # prev[c]
               /\ pc' = [pc EXCEPT ![c] = "insert"]
               /\ UNCHANGED <<audit_log, advisory, prev, uncommitted>>

\* Mutant: a session-level lock, which no transaction end releases.
ReleaseLock_Session(c) == UNCHANGED advisory

ReleaseLock(c) == advisory' = IF advisory = c THEN NoOne ELSE advisory

\* INSERT: waits for another transaction's uncommitted row with the same
\* key; then a committed row with that key is a unique violation, which
\* makes append() roll back and throw.
InsertRecord(c) ==
  LET row == appendRecord(prev[c], c) IN
  /\ pc[c] = "insert"
  /\ \A d \in Calls \ {c} : uncommitted[d] # NoRow
                               => uncommitted[d].seq # row.seq
  /\ IF row.seq \in DOMAIN audit_log
     THEN /\ pc' = [pc EXCEPT ![c] = "unique_violation"]
          /\ ReleaseLock(c)
          /\ UNCHANGED uncommitted
     ELSE /\ pc' = [pc EXCEPT ![c] = "commit"]
          /\ uncommitted' = [uncommitted EXCEPT ![c] = row]
          /\ UNCHANGED advisory
  /\ UNCHANGED <<audit_log, prev>>

\* Mutant: the row is never made durable.
WithRow_Lost(row) == audit_log

\* The committed rows and one more.
WithRow(row) == [s \in DOMAIN audit_log \cup {row.seq} |->
                   IF s = row.seq THEN row ELSE audit_log[s]]

Commit(c) ==
  LET row == uncommitted[c] IN
  /\ pc[c] = "commit"
  /\ audit_log' = WithRow(row)
  /\ uncommitted' = [uncommitted EXCEPT ![c] = NoRow]
  /\ pc' = [pc EXCEPT ![c] = "acked"]
  /\ ReleaseLock(c)
  /\ UNCHANGED prev

\* Mutant: append() retries by itself when the answer of COMMIT is lost.
LoseCommitAnswer_Retry(c) ==
  /\ pc[c] = "acked"
  /\ pc' = [pc EXCEPT ![c] = "lock"]
  /\ UNCHANGED <<audit_log, advisory, prev, uncommitted>>

\* append() returns the record.
Return(c) == /\ pc[c] = "acked"
             /\ pc' = [pc EXCEPT ![c] = "ok"]
             /\ UNCHANGED <<audit_log, advisory, prev, uncommitted>>

\* A statement fails, or the connection or the process is lost, before the
\* COMMIT took effect: the transaction is rolled back and append() throws.
Rollback(c) == /\ pc[c] \in InTransaction
               /\ pc' = [pc EXCEPT ![c] = "error"]
               /\ uncommitted' = [uncommitted EXCEPT ![c] = NoRow]
               /\ ReleaseLock(c)
               /\ UNCHANGED <<audit_log, prev>>

\* The connection is lost after the COMMIT took effect and before its answer
\* arrived: append() throws although the record is in the log.
LoseCommitAnswer(c) == /\ pc[c] = "acked"
                       /\ pc' = [pc EXCEPT ![c] = "error"]
                       /\ UNCHANGED <<audit_log, advisory, prev, uncommitted>>

\* What a call does when nothing fails.
Proceed(c) == \/ AcquireChainLock(c) \/ ScanTail(c) \/ LockTail(c)
              \/ InsertRecord(c) \/ Commit(c) \/ Return(c)

Next == \E c \in Calls : \/ Begin(c) \/ Proceed(c)
                         \/ Rollback(c) \/ LoseCommitAnswer(c)

\* Postgres answers every statement and grants a lock that stays free.
Fairness == \A c \in Calls : WF_vars(Proceed(c))

Spec == Init /\ [][Next]_vars /\ Fairness

-----------------------------------------------------------------------------
Returned == {"ok", "error", "unique_violation"}

\* A record with a hash of the right shape; prevHash is pinned by ChainLinked.
IsRow(r) == /\ r = [seq |-> r.seq, input |-> r.input,
                    prevHash |-> r.prevHash, hash |-> r.hash]
            /\ r.seq \in Nat \ {0}
            /\ r.input \in Calls

\* Every variable keeps its type.
TypeOK == /\ DOMAIN audit_log \subseteq Nat \ {0}
          /\ \A s \in DOMAIN audit_log : IsRow(audit_log[s])
          /\ advisory \in Calls \cup {NoOne}
          /\ pc \in [Calls -> {"idle", "acked"} \cup InTransaction \cup Returned]
          /\ DOMAIN prev = Calls /\ DOMAIN uncommitted = Calls
          /\ \A c \in Calls : prev[c] = NoRow \/ IsRow(prev[c])
          /\ \A c \in Calls : uncommitted[c] = NoRow \/ IsRow(uncommitted[c])

\* The committed log is one unbroken hash chain whatever the interleaving of
\* the appends, failures included: sequence numbers 1, 2, 3, ... without a
\* gap, every record linked to the hash of the one before it.
ChainLinked ==
  \A s \in DOMAIN audit_log :
     /\ audit_log[s].seq = s
     /\ audit_log[s].hash = hashRecord(Body(audit_log[s]))
     /\ IF s = 1 THEN audit_log[s].prevHash = GENESIS_HASH
                 ELSE /\ s - 1 \in DOMAIN audit_log
                      /\ audit_log[s].prevHash = audit_log[s - 1].hash

\* The collision described at the head of store.ts (two appends that read the
\* same tail, the second INSERT refused by the primary key) never happens.
NoUniqueViolation == \A c \in Calls : pc[c] # "unique_violation"

\* append() is at most once: no interleaving of commits, rollbacks and lost
\* answers leaves two rows of the same call, and a call that returned its
\* record has it in the log.
AppendExactlyOnce ==
  /\ \A s, t \in DOMAIN audit_log :
        audit_log[s].input = audit_log[t].input => s = t
  /\ \A c \in Calls : pc[c] \in {"ok", "acked"}
        => \E s \in DOMAIN audit_log : audit_log[s].input = c

\* History is never rewritten: a committed row stays what it is, and a new
\* one only ever goes after all of them (readers that page by seq rely on it).
AppendOnly ==
  [][/\ \A s \in DOMAIN audit_log : /\ s \in DOMAIN audit_log'
                                    /\ audit_log'[s] = audit_log[s]
     /\ \A s \in DOMAIN audit_log' \ DOMAIN audit_log :
           \A t \in DOMAIN audit_log : t < s]_audit_log

\* Every append that began gets an answer: the lock queue always drains,
\* also when its holder fails.
AppendReturns == \A c \in Calls : pc[c] = "lock" ~> pc[c] \in Returned

-----------------------------------------------------------------------------
(* Why it works: what every step of every call preserves.                  *)

Serialized == {"scan", "rowlock", "insert", "commit"}

\* The chain lock is held exactly from its grant to the end of the
\* transaction, so one call at a time is between reading the tail and COMMIT.
LockHeld == \A c \in Calls : pc[c] \in Serialized <=> advisory = c

\* Keys are 1, 2, ..., n: the row with the largest key is the n-th.
Contiguous == LET n == Cardinality(DOMAIN audit_log)
              IN n \in Nat /\ DOMAIN audit_log = 1..n

\* What a call has read is still the tail when it uses it, and the row it
\* inserted extends the tail the COMMIT will find.
TailFresh ==
  \A c \in Calls :
     /\ pc[c] \in {"rowlock", "insert"} => prev[c] = TailRow
     /\ uncommitted[c] = IF pc[c] = "commit" THEN appendRecord(TailRow, c)
                                            ELSE NoRow

\* A row in the log belongs to a call whose COMMIT took effect.
RowsOfCommitted == \A s \in DOMAIN audit_log :
                      pc[audit_log[s].input] \in {"acked", "ok", "error"}

\* The inductive invariant.  The tail a call read stays the tail because no
\* other call can commit while the lock is held, whatever fails meanwhile.
ChainInv == /\ TypeOK /\ LockHeld /\ Contiguous /\ ChainLinked /\ TailFresh
            /\ NoUniqueViolation /\ RowsOfCommitted /\ AppendExactlyOnce

-----------------------------------------------------------------------------
(* The store implements the abstract log.                                  *)

AbstractStatus(c) == IF pc[c] \in InTransaction THEN "running"
                     ELSE IF pc[c] = "acked" THEN "logged"
                     ELSE IF pc[c] = "unique_violation" THEN "error"
                     ELSE pc[c]

Abs == INSTANCE AuditLog
         WITH log    <- [s \in DOMAIN audit_log |-> audit_log[s].input],
              status <- [c \in Calls |-> AbstractStatus(c)]

\* Seen through its rows in key order, the Postgres table behaves as the
\* abstract append-only log: one record per call, added at the end, in it
\* before append() reports success.
ImplementsAuditLog == Abs!Spec
=============================================================================
