SPECIFICATION Spec
CONSTANTS
  Calls = {c1, c2}
  Names = {"own", "ext", "unlisted"}
  Servers = {"own", "ext"}
  Tools = {"status", "secret"}
  Own = "own"
  AllowedTools <- MCAllowedTools
  PolicyAllows <- MCPolicyAllows
  Requests <- MCRequests
  Capabilities = {"status", "secret"}
  OtherNames = {"ghost"}
  MayServe = {"status"}
  Strangers = {s1}
  NoOne = NoOne
INVARIANTS AuditedBeforeWire HandlerAudited CodesTellTruth OrphansOnlyByRace
PROPERTY CallAnswered
CHECK_DEADLOCK FALSE
