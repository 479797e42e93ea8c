SPECIFICATION Spec
CONSTANTS
  Launches = {l1, l2}
  Frontend = frontend
  Styles = {"concurrent"}
CHECK_DEADLOCK FALSE
PROPERTY NoOrphans
