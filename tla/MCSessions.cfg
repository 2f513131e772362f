SPECIFICATION LoginSpec
CONSTANTS
  Keys = {k1, k2, k3}
  DedupTtl = 2
  DedupMaxEntries = 2
  Window = 2
  WindowMaxAppends = 1
  MaxTime = 4
  Browsers = {b1, b2}
  Handlers = {h1, h2}
  Flows = {f1, f2}
  Subs = {"ann", "agent:x"}
  Reserved = {"agent:x"}
  WithRoles = {}
  SessionTtl = 2
  TxnTtl = 1
  DevMode = TRUE
  None = None
INVARIANTS TwoWindowsCap OwnLogin AdmittedIsLive
PROPERTIES HandlersReturn NotPoisoned
CHECK_DEADLOCK FALSE
