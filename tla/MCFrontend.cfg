SPECIFICATION FrontendSpec
CONSTANTS
  Captures = {1, 2}
  None = None
  ResetPolicies <- AnyPolicy
  EndAfterLost = TRUE
  StreamCap = 1
  Calls = {"Hello", "GetConfig", "AcquireStart", "AcquireStop", "Reset"}
  MaxRequests = 4
INVARIANTS
  NoStuckBusy
  ReadyOnceEnded
  NotBusyOnceEnded
  EventsAreKnown
  StopIsOwn
