SPECIFICATION Spec
CONSTANTS
  Handlers = {h1, h2}
  MaxRequests = 2
  Records = {r1}
  Users = {"ann", "bob"}
  Fields = {"any"}
  Workflows = {"review", "billing"}
  States = {"open", "approved", "unbilled", "invoiced"}
  Initial <- MCInitial
  Transitions <- MCTransitions
  WorkflowOf <- MCWorkflowOf
  From <- MCFrom
  To <- MCTo
  Gated = {"approve"}
  Required <- MCRequired
  Passes <- MCPasses
  GuardAllows <- MCAllows
  ApproveAllows <- MCAllows
  NoOne = NoOne
PROPERTY ApprovalKeptWhileStateKept
