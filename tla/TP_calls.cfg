SPECIFICATION Spec
CONSTANTS
  Kinds = {"self", "raise", "value", "wait", "hang"}
  Timeouts = {TRUE, FALSE}
  MayRefuse = TRUE
  MayDrop = TRUE
  MaxCalls = 3
INVARIANTS TypeOK ResultMatches DisconnectCloses
PROPERTIES OneByOne CallReturns DisconnectEnds
CHECK_DEADLOCK FALSE
