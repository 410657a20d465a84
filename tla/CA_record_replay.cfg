SPECIFICATION Spec
CONSTANTS
  Replies = {0, 3003, 3007, 3008}
  Types = {0, 1, 2, 16, 30}
  Keys = {0, 8}
  Pieces = {11}
  Inputs <- SomeInputs
  Preserves = {TRUE, FALSE}
  Scripts <- ThreeScripts
  Forever = FALSE
INVARIANTS NoSecret RecordsSession ObserverInStep Paced
PROPERTIES ReplayEnds
CHECK_DEADLOCK FALSE
