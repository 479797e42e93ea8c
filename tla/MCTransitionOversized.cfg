SPECIFICATION Spec
CONSTANTS
  More = 4
  Limit = 32
  MaxBytes = 3
  MaxLen = 3
  Unitsizes = {1, 2}
CHECK_DEADLOCK FALSE
INVARIANT OversizedIsRefused
