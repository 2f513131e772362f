----------------------------- MODULE RecordRules -----------------------------
(***************************************************************************)
(* What workflows promise of the records they govern, as if requests were  *)
(* served one at a time and never failed half way: a record moves only     *)
(* along a transition out of the state it is in, when the predicates hold  *)
(* of it, for a user the policy allows, and where the transition is gated  *)
(* with the last of so many approvals of distinct users, all of them given *)
(* since the record's state last changed.                                  *)
(***************************************************************************)
EXTENDS Naturals, FiniteSets

CONSTANTS Records, Users, Fields, Workflows, Initial, Transitions,
          WorkflowOf, From, To, Gated, Required, Passes, GuardAllows, ApproveAllows

VARIABLES created,    \* records that exist
          state,      \* state[rec][w]: where rec is in workflow w
          fields,     \* fields[rec]: what its predicates look at
          approvals   \* approvals given and not used up: [rec, tr, sub]

vars == <<created, state, fields, approvals>>

Requests == [rec : Records, tr : Transitions, sub : Users]

Init == /\ created = {}
        /\ state = [rec \in Records |-> Initial]
        /\ fields \in [Records -> Fields]
        /\ approvals = {}

Create(rec) == /\ rec \notin created
               /\ created' = created \cup {rec}
               /\ state' = [state EXCEPT ![rec] = Initial]
               /\ UNCHANGED <<fields, approvals>>

Edit(rec, f) == /\ rec \in created
                /\ fields' = [fields EXCEPT ![rec] = f]
                /\ UNCHANGED <<created, state, approvals>>

\* The request is in order: now, whatever was true when it was made.
InOrder(r) == /\ r.rec \in created
              /\ state[r.rec][WorkflowOf[r.tr]] = From[r.tr]
              /\ fields[r.rec] \in Passes[r.tr]
              /\ r.sub \in GuardAllows[r.tr]
              /\ r.tr \in Gated => r.sub \in ApproveAllows[r.tr]

\* With r, enough users have approved.
Decides(r) ==
  r.tr \in Gated =>
    Cardinality({a.sub : a \in {b \in approvals : b.rec = r.rec /\ b.tr = r.tr}} \cup {r.sub})
      >= Required[r.tr]

Approve(r) == /\ InOrder(r) /\ ~Decides(r)
              /\ approvals' = approvals \cup {r}
              /\ UNCHANGED <<created, state, fields>>

\* The record moves; approvals of it were for the state it was in.
Move(r) == /\ InOrder(r) /\ Decides(r)
           /\ state' = [state EXCEPT ![r.rec][WorkflowOf[r.tr]] = To[r.tr]]
           /\ approvals' = {a \in approvals : a.rec # r.rec}
           /\ UNCHANGED <<created, fields>>

Next == \/ \E rec \in Records : Create(rec) \/ \E f \in Fields : Edit(rec, f)
        \/ \E r \in Requests : Approve(r) \/ Move(r)

Spec == Init /\ [][Next]_vars
=============================================================================
