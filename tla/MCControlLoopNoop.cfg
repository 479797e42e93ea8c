SPECIFICATION Safety
CONSTANTS
  Captures = {c1, c2}
  None = None
  ResetPolicies <- NoopOnly
  EndAfterLost = FALSE
  StreamCap = 2
INVARIANT StopReaches
