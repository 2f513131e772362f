SPECIFICATION VSpec
CONSTANTS
  Calls = {c1, c2, c3}
  NoOne = NoOne
  GENESIS_HASH = GENESIS_HASH
  PageSize = 2
  AdminReads = {c1, c2}
INVARIANTS NoUniqueViolation AppendExactlyOnce VerifyOkUnderAppends ReadCoversDecision TamperLocated
PROPERTIES AppendReturns ImplementsAuditLog
