---------------------------- MODULE MigrationPlan ----------------------------
(***************************************************************************)
(* The order of the tables in the one migration the compiler emits         *)
(* (planTableOrder in packages/compiler/src/sql.ts): a stable topological  *)
(* sort that breaks reference cycles with foreign keys added at the end.   *)
(*                                                                         *)
(* An entity is its place in the spec.  A reference <<e, f>> stands for    *)
(* the fields of e that refer to f, which the loop defers together.        *)
(***************************************************************************)
EXTENDS Naturals, Sequences, FiniteSets
Sets == INSTANCE FiniteSetsExt

CONSTANT EntityCount   \* the number of entities of a spec

ASSUME MigrationPlanAssumption == EntityCount \in Nat

Entities == 1..EntityCount

\* Every reference of e is to itself, to a table emitted before, or deferred.
isReady(plan, refs, e) ==
  \A f \in Entities : <<e, f>> \in refs =>
     f = e \/ f \in plan.emitted \/ <<e, f>> \in plan.deferred

Emit(plan, e) == [order    |-> Append(plan.order, e),
                  emitted  |-> plan.emitted \union {e},
                  deferred |-> plan.deferred]

\* The unmet references of e go to the end of the migration.
Defer(plan, refs, e) ==
  LET unmet == {r \in refs : r[1] = e /\ r[2] # e /\ r[2] \notin plan.emitted}
  IN [plan EXCEPT !.deferred = @ \union unmet]

\* One turn of the loop over what remains, which keeps the order of the spec:
\* the first entity that is ready is emitted; when none is, the unmet references
\* of the first one are deferred.
PlanTurn(plan, refs) ==
  LET remaining == Entities \ plan.emitted
      ready == {e \in remaining : isReady(plan, refs, e)}
  IN IF remaining = {} THEN plan
     ELSE IF ready = {} THEN Defer(plan, refs, Sets!Min(remaining))
     ELSE Emit(plan, Sets!Min(ready))

EmptyPlan == [order |-> <<>>, emitted |-> {}, deferred |-> {}]

\* The plan after each turn, for as many turns as the loop may need: a deferral
\* makes an entity ready.
PlanAfter(refs) ==
  LET turn[n \in 0..2 * EntityCount] ==
        IF n = 0 THEN EmptyPlan ELSE PlanTurn(turn[n - 1], refs)
  IN turn

planTableOrder(refs) == PlanAfter(refs)[2 * EntityCount]

\* References that lead through n entities, each to another, back to the first.
Cycle(refs, w, n) ==
  /\ w[0] = w[n]
  /\ \A i \in 0..(n - 1) : w[i] # w[i + 1] /\ <<w[i], w[i + 1]>> \in refs

Cyclic(refs) == \E n \in 2..EntityCount : \E w \in [0..n -> Entities] : Cycle(refs, w, n)

\* What planTableOrder promises of the order: the loop has ended, every table
\* is there once, after the tables its inline references name, what is deferred
\* is a reference, and nothing is deferred unless some references form a cycle.
PlanInOrder(refs) ==
  LET plan == planTableOrder(refs)
      places == DOMAIN plan.order
  IN /\ Len(plan.order) = EntityCount
     /\ \A e \in Entities : \E i \in places : plan.order[i] = e
     /\ \A i, j \in places : <<plan.order[i], plan.order[j]>> \in refs \ plan.deferred => j <= i
     /\ plan.deferred \subseteq refs
     /\ plan.deferred # {} => Cyclic(refs)

\* ... whatever refers to what, cycles and self-references included.
EveryPlanInOrder == \A refs \in SUBSET (Entities \X Entities) : PlanInOrder(refs)
=============================================================================
