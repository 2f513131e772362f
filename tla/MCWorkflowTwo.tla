--------------------------- MODULE MCWorkflowTwo ----------------------------
(***************************************************************************)
(* One entity with two workflows: a review that needs two approvers, and   *)
(* billing, which anyone may advance.                                      *)
(***************************************************************************)
EXTENDS Workflow, TLC

MCTransitions == {"approve", "invoice"}
MCInitial == "review" :> "open" @@ "billing" :> "unbilled"
MCWorkflowOf == "approve" :> "review" @@ "invoice" :> "billing"
MCFrom == "approve" :> "open" @@ "invoice" :> "unbilled"
MCTo == "approve" :> "approved" @@ "invoice" :> "invoiced"
MCRequired == "approve" :> 2 @@ "invoice" :> 1
MCPasses == [t \in MCTransitions |-> Fields]
MCAllows == [t \in MCTransitions |-> Users]
=============================================================================
