SPECIFICATION Spec
CONSTANTS
  Launches = {l1, l2, l3}
  Frontend = frontend
  Styles = {"sequential", "rust"}
CHECK_DEADLOCK FALSE
INVARIANTS
  TypeOK
  NoEmbrace
PROPERTIES
  NoOrphans
  LaunchReturns
