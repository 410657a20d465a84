SPECIFICATION Spec
CONSTANTS
  Sizes = {2}
  MaxPix = 2
  Fuzz = 0
  Window = 2
  Commands = {"capture"}
  Boxes <- NoRegion
  Targets <- NoTarget
  Announces = TRUE
  Short = FALSE
  MaxParts = 2
  MaxOps = 2
  MaxChanges = 2
  MaxNoise = 0
  MaxWire = 4

PROPERTIES CaptureExact
CHECK_DEADLOCK FALSE
