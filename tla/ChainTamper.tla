---------------------------- MODULE ChainTamper -----------------------------
(***************************************************************************)
(* The tampering modes that the tests of verifyChain enumerate             *)
(* (packages/audit/test/chain.test.ts): one alteration of a chain, behind  *)
(* the store's back, at every possible place.                              *)
(***************************************************************************)
EXTENDS HashChain

Rehashed(r) == [r EXCEPT !.hash = hashRecord(Body(r))]

WithInput(r, in) == [r EXCEPT !.input = in]
WithLink(r, link) == [r EXCEPT !.prevHash = link]

\* An altered chain, with the first position where it differs.
Alteration(i, altered) == [at |-> i, records |-> altered]

Replaced(records, i, r) == Alteration(i, [records EXCEPT ![i] = r])

\* A field of a record changes, its hash does not, or is recomputed.
Mutated(records, inputs) ==
  {Replaced(records, i, WithInput(records[i], in)) : i \in DOMAIN records, in \in inputs}
  \union {Replaced(records, i, Rehashed(WithInput(records[i], in))) :
            i \in DOMAIN records, in \in inputs}

\* The chain without its i-th record, with two records exchanged, with r put
\* before the i-th.
Dropped(records, i) ==
  [j \in 1..(Len(records) - 1) |-> IF j < i THEN records[j] ELSE records[j + 1]]

Swapped(records, i, j) == [records EXCEPT ![i] = records[j], ![j] = records[i]]

Spliced(records, i, r) ==
  [j \in 1..(Len(records) + 1) |->
     IF j < i THEN records[j] ELSE IF j = i THEN r ELSE records[j - 1]]

Deleted(records) == {Alteration(i, Dropped(records, i)) : i \in DOMAIN records}

Reordered(records) ==
  {Alteration(p[1], Swapped(records, p[1], p[2])) :
     p \in {q \in (DOMAIN records) \X (DOMAIN records) : q[1] < q[2]}}

\* A record with the number of the one it is put before, linked to any record
\* of the chain or to its beginning.
Forged(i, in, link) == Rehashed([seq |-> i, input |-> in, prevHash |-> link, hash |-> link])

Inserted(records, inputs) ==
  LET links == {records[j].hash : j \in DOMAIN records}
                 \union {records[j].prevHash : j \in DOMAIN records}
  IN {Alteration(i, Spliced(records, i, Forged(i, in, link))) :
        i \in DOMAIN records, in \in inputs, link \in links}

ForgedGenesis(records) ==
  {Replaced(records, 1, Rehashed(WithLink(records[1], records[i].hash))) :
     i \in DOMAIN records}

\* The alterations that leave a record after the first altered one.
Alterations(records, inputs) ==
  {a \in Mutated(records, inputs) \union Deleted(records) \union Reordered(records)
           \union Inserted(records, inputs) \union ForgedGenesis(records) :
     a.at < Len(records) /\ a.records[a.at] # records[a.at]}

\* Positions of the records verifyChain finds fault with.
Faulty(records) == {i \in DOMAIN records : failureAt(records, i) # "none"}
=============================================================================
