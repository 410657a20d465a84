SPECIFICATION Spec
CONSTANTS
  Sizes = {1,2}
  MaxPix = 2
  Fuzz = 0
  Window = 2
  Commands = {"refresh", "capture", "expect"}
  Boxes <- OneRegion
  Targets <- TwoTargets
  Announces = TRUE
  Short = FALSE
  MaxParts = 1
  MaxOps = 2
  MaxChanges = 1
  MaxNoise = 1
  MaxWire = 4
INVARIANTS WaiterIsServed ScreenFollows
PROPERTIES CaptureExact FullRefreshEnds ExpectFinds
CHECK_DEADLOCK FALSE
