---------------------------- MODULE AuditVerify -----------------------------
(***************************************************************************)
(* The readers of the whole log: verify() (packages/audit/src/store.ts,    *)
(* the runtime's db-backed twin in packages/runtime/src/audit.ts, and      *)
(* readAllRecords) and the export of the admin routes (admin.ts).  They    *)
(* read page by page in one SELECT per page, outside any transaction,      *)
(* while appends keep committing.  An admin route first appends the policy *)
(* decision that lets it read.                                             *)
(***************************************************************************)
EXTENDS AuditChain, ChainTamper

CONSTANTS PageSize,    \* rows per SELECT (5000; 1000 in an export)
          AdminReads   \* the appends that record the decision to let an admin read

ASSUME PageSizeAssumption == PageSize \in Nat \ {0} /\ AdminReads \subseteq Calls

VARIABLES vpc,      \* "idle" | "reading" | "done"
          task,     \* "verify" | "export"
          reader,   \* the admin request that reads, by its decision; or NoOne
          served,   \* the admin requests that have begun to read
          fromSeq,  \* first sequence number of the next page
          all,      \* the rows collected so far
          verdict,  \* the VerifyResult of the last verify()
          rowsAtStart  \* history: rows committed when the read began

readerVars == <<vpc, task, reader, served, fromSeq, all, verdict, rowsAtStart>>

-----------------------------------------------------------------------------
\* The rows of a set of keys, in ascending key order.
OrderBySeq(keys) ==
  [i \in 1..Cardinality(keys) |->
     audit_log[CHOOSE s \in keys : Cardinality({t \in keys : t <= s}) = i]]

\* SELECT ... WHERE seq >= from ORDER BY seq ASC LIMIT limit, on the rows
\* committed when the statement starts.
readPage(from, limit) ==
  OrderBySeq({s \in DOMAIN audit_log :
                /\ s >= from
                /\ Cardinality({t \in DOMAIN audit_log : from <= t /\ t <= s})
                      <= limit})

-----------------------------------------------------------------------------
VInit == /\ Init
         /\ vpc = "idle"
         /\ task = "verify" /\ reader = NoOne /\ served = {}
         /\ fromSeq = 1
         /\ all = <<>>
         /\ verdict = [ok |-> TRUE, count |-> 0]
         /\ rowsAtStart = 0

\* The first page is next.
BeginRead(t, who) == /\ vpc \in {"idle", "done"}
                     /\ vpc' = "reading"
                     /\ task' = t
                     /\ reader' = who
                     /\ fromSeq' = 1
                     /\ all' = <<>>
                     /\ rowsAtStart' = Cardinality(DOMAIN audit_log)
                     /\ UNCHANGED <<vars, verdict>>

\* verify() called by the platform itself.
StartVerify == BeginRead("verify", NoOne) /\ UNCHANGED served

\* Mutant: the decision is appended while the read goes on.
AdminRead_Concurrent(c, t) == /\ pc[c] # "idle" /\ c \notin served
                              /\ BeginRead(t, c)
                              /\ served' = served \union {c}

\* GET /admin/audit?verify=full and GET /admin/audit/export: the read begins
\* when the append of its policy decision has returned; if that fails, never.
AdminRead(c, t) == /\ pc[c] = "ok" /\ c \notin served
                   /\ BeginRead(t, c)
                   /\ served' = served \union {c}

\* Mutant: from the last row again.
nextFrom_Inclusive(rows) == rows[Len(rows)].seq

\* Where the next page starts.
nextFrom(rows) == rows[Len(rows)].seq + 1

\* One turn of the paging loop: an empty or a short page ends it, and verify()
\* checks the collected rows.
ReadPage ==
  LET batch == readPage(fromSeq, PageSize)
      collected == all \o batch
  IN /\ vpc = "reading"
     /\ all' = collected
     /\ IF Len(batch) < PageSize
        THEN /\ vpc' = "done"
             /\ verdict' = IF task = "verify" THEN verifyChain(collected) ELSE verdict
             /\ UNCHANGED fromSeq
        ELSE /\ fromSeq' = nextFrom(collected)
             /\ UNCHANGED <<vpc, verdict>>
     /\ UNCHANGED <<vars, task, reader, served, rowsAtStart>>

VNext == \/ Next /\ UNCHANGED readerVars
         \/ StartVerify
         \/ \E c \in AdminReads, t \in {"verify", "export"} : AdminRead(c, t)
         \/ ReadPage

VSpec == /\ VInit
         /\ [][VNext]_<<vars, readerVars>>
         /\ Fairness
         /\ WF_<<vars, readerVars>>(ReadPage)

-----------------------------------------------------------------------------
\* verify() on an untampered log never raises a false alarm, although its
\* pages are read at different moments with appends committing between them.
VerifyOkUnderAppends ==
  vpc = "done" /\ task = "verify" =>
                  /\ verdict.ok
                  /\ verdict.count = Len(all)
                  /\ verdict.count <= Cardinality(DOMAIN audit_log)

\* Every reader, export or verification, gets each record that was committed
\* when it began, and an admin gets the record of the decision that let them in.
ReadCoversDecision ==
  vpc = "done" => /\ Len(all) >= rowsAtStart
                  /\ reader # NoOne => \E i \in 1..Len(all) : all[i].input = reader

\* What verify() collected and accepted it would not have accepted altered: a
\* mutation, re-hashed or not, a deletion, a reordering, an insertion or a
\* forged genesis before the newest record is found, and the first record
\* found at fault is the altered one or its successor (verifyChain).
TamperLocated ==
  vpc = "done" => \A a \in Alterations(all, Calls) :
    LET bad == Faulty(a.records) IN
    /\ ~verifyChain(a.records).ok
    /\ \E i \in bad \intersect {a.at, a.at + 1} : \A j \in bad : i <= j

-----------------------------------------------------------------------------
(* Why it works: what every page and every append preserve.                *)

\* The first k rows of the log.
Prefix(k) == [s \in 1..k |-> audit_log[s]]

\* Rows are only added after the ones collected, so what a reader has is the
\* first rows of the log and what it asks for next is the row after them.
ReadInv ==
  LET n == Cardinality(DOMAIN audit_log) IN
  /\ vpc \in {"idle", "reading", "done"}
  /\ \E k \in 0..n : /\ all = Prefix(k)
                     /\ vpc = "reading" => fromSeq = k + 1
                     /\ vpc = "done" => rowsAtStart <= k
  /\ rowsAtStart \in 0..n
  /\ reader # NoOne => \E s \in 1..rowsAtStart : audit_log[s].input = reader
  /\ vpc = "done" /\ task = "verify" => verdict = [ok |-> TRUE, count |-> Len(all)]
=============================================================================
