SPECIFICATION Spec
CONSTANTS
  Captures = {c1, c2}
  None = None
  ResetPolicies <- JoinOnly
  EndAfterLost = FALSE
  StreamCap = 2
INVARIANTS
  TypeOK
  BusyWhileAcquiring
  ConfigExclusive
  StopReaches
  ResetAborts
PROPERTIES
  Lifecycle
  StopEndsCapture
  RequestAnswered
