SPECIFICATION Spec
CONSTANTS
  Conns = {c1, c2, c3}
  Modes = {"stream", "per_client", "one_shot", "capture"}
INVARIANTS TypeOK ClaimHeld ExitHonest
PROPERTIES SessionEnds
CHECK_DEADLOCK FALSE
