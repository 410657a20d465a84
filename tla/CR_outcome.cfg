SPECIFICATION Spec
CONSTANTS
  Scripts <- Lines
  Timeouts = {TRUE, FALSE}
  HasDelay = TRUE
  Endings = {"refused", "password", "protocol", "result", "drop", "interrupt"}
INVARIANTS TypeOK SuccessIsHonest
PROPERTIES FirstWins CutShortIsHonest FailureEnds Terminates
CHECK_DEADLOCK FALSE
