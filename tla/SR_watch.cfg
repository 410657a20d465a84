SPECIFICATION Spec
CONSTANTS
  Sizes = {1,2}
  MaxPix = 2
  Fuzz = 0
  Window = 2
  Commands = {"refresh", "stable"}
  Boxes <- OneRegion
  Targets <- NoTarget
  Announces = FALSE
  Short = TRUE
  MaxParts = 1
  MaxOps = 2
  MaxChanges = 2
  MaxNoise = 0
  MaxWire = 3
INVARIANTS TypeOK WatchListens WindowQuiet
PROPERTIES StableEnds
CHECK_DEADLOCK FALSE
