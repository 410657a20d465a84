SPECIFICATION Spec
CONSTANTS
  Conns = {c1, c2}
  Modes = {"per_client"}
INVARIANT EachRecorded
CHECK_DEADLOCK FALSE
