----------------------------- MODULE HashChain ------------------------------
(***************************************************************************)
(* The pure core of the audit log (packages/audit/src/chain.ts): how a     *)
(* record is linked to the one before it, and how a chain is verified.     *)
(***************************************************************************)
EXTENDS Naturals, Sequences

CONSTANTS NoOne,        \* no call, no actor
          GENESIS_HASH  \* prevHash of the first record

\* No row: the tail query found the table empty, nothing is inserted.
NoRow == [seq |-> 0, input |-> NoOne, prevHash |-> GENESIS_HASH,
          hash |-> GENESIS_HASH]

\* SHA-256 of the canonical body, taken to be injective: the hash of a body
\* is a value from which the body can be read back.
hashRecord(body) == [sha256 |-> body]

Body(r) == [seq |-> r.seq, input |-> r.input, prevHash |-> r.prevHash]

appendRecord(p, c) ==
  LET body == [seq      |-> IF p = NoRow THEN 1 ELSE p.seq + 1,
               input    |-> c,
               prevHash |-> IF p = NoRow THEN GENESIS_HASH ELSE p.hash]
  IN [seq |-> body.seq, input |-> body.input, prevHash |-> body.prevHash,
      hash |-> hashRecord(body)]

\* Mutant: a loop that only recomputes hashes and trusts the links.
failureAt_NoLinks(records, i) ==
  IF hashRecord(Body(records[i])) # records[i].hash THEN "hash_mismatch" ELSE "none"

\* The check verifyChain makes on the i-th of the records, in its order.
failureAt(records, i) ==
  LET expectedSeq == IF i = 1 THEN 1 ELSE records[i - 1].seq + 1
      expectedPrevHash == IF i = 1 THEN GENESIS_HASH ELSE records[i - 1].hash
  IN IF records[i].seq # expectedSeq THEN "seq_gap"
     ELSE IF records[i].prevHash # expectedPrevHash
          THEN IF i = 1 THEN "bad_genesis" ELSE "chain_break"
     ELSE IF hashRecord(Body(records[i])) # records[i].hash THEN "hash_mismatch"
     ELSE "none"

\* The loop returns at the first record that fails.
verifyChain(records) ==
  LET bad == {i \in 1..Len(records) : failureAt(records, i) # "none"} IN
  IF bad = {} THEN [ok |-> TRUE, count |-> Len(records)]
  ELSE LET first == CHOOSE i \in bad : \A j \in bad : i <= j
       IN [ok |-> FALSE, failedSeq |-> records[first].seq,
           reason |-> failureAt(records, first)]
=============================================================================
