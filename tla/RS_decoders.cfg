SPECIFICATION Spec
CONSTANTS
  Blank = 0
  ZTile = 3
  LongRun = 2
  Palettes = {2, 3, 5}
  Connections <- SomeConnections
  RectSizes <- Sizes
  FirstSizes <- Earlier
  HexTile = 2
  TightStreams = {"0", "1"}
  MAX_WIDTH = 9
  MIN_TO_COMPRESS = 12
  CompactLengths = {5, 300, 20000}
  Width = 10
  Height = 12
  Stale = 97
  MaxRectangles = 2
  TightUses <- SomeUses
INVARIANTS InStep Pasted OnlyBadRefused
