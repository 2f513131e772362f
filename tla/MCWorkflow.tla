----------------------------- MODULE MCWorkflow -----------------------------
(***************************************************************************)
(* A review workflow on one record: "approve" needs two approvers and a    *)
(* complete form, "revise" sends the record back, "submit" returns it to   *)
(* review; "amend" is both in one, a revision that stays in review, so that*)
(* three requests close a loop around an approval: it, the amendment, and  *)
(* the completion in the next round.                                       *)
(***************************************************************************)
EXTENDS Workflow, TLC

MCTransitions == {"submit", "approve", "revise", "amend"}
MCInitial == [w \in Workflows |-> "review"]
MCWorkflowOf == [t \in MCTransitions |-> "review"]
MCFrom == [t \in MCTransitions |-> IF t = "submit" THEN "draft" ELSE "review"]
MCTo == "submit" :> "review" @@ "approve" :> "approved"
          @@ "revise" :> "draft" @@ "amend" :> "review"
MCRequired == [t \in MCTransitions |-> IF t = "approve" THEN 2 ELSE 1]
MCPasses == [t \in MCTransitions |-> IF t = "approve" THEN {"complete"} ELSE Fields]
MCGuardAllows == [t \in MCTransitions |->
                    IF t \in {"revise", "amend"} THEN {"ann"} ELSE Users]
MCApproveAllows == [t \in MCTransitions |-> {"ann", "bob"}]
=============================================================================
