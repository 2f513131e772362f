SPECIFICATION Spec
CONSTANTS
  Handlers = {h1, h2}
  MaxRequests = 3
  Records = {r1}
  Users = {"ann", "bob", "eve"}
  Fields = {"complete", "missing"}
  Workflows = {"review"}
  States = {"draft", "review", "approved"}
  Initial <- MCInitial
  Transitions <- MCTransitions
  WorkflowOf <- MCWorkflowOf
  From <- MCFrom
  To <- MCTo
  Gated = {"approve"}
  Required <- MCRequired
  Passes <- MCPasses
  GuardAllows <- MCGuardAllows
  ApproveAllows <- MCApproveAllows
  NoOne = NoOne
INVARIANTS PendingBelowThreshold ApprovalsMatchState NEyes StateMatchesLog DecisionPrecedesEffect
PROPERTIES RequestAnswered ImplementsRecordRules
