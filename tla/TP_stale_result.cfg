SPECIFICATION Spec
CONSTANTS
  Kinds = {"wait"}
  Timeouts = {TRUE}
  MayRefuse = FALSE
  MayDrop = FALSE
  MaxCalls = 2
INVARIANT OwnResult
CHECK_DEADLOCK FALSE
