SPECIFICATION Spec
CONSTANTS
  Versions = {3002, 3003, 3006, 3007, 3008, 3889, 5000}
  Offers <- EveryOffer
  Subtypes <- EverySubtype
  Policies <- FourPolicies
  Results = {"ok", "failed", "unknown"}
  Reasons = {2}
  Lengths = {0, 2}
  Messages = {"update", "bell", "text", "colourmap", "fence"}
  Encodings = {"pixels", "control", "last"}
  Faults = {"header", "version", "message", "encoding", "payload", "text", "refusal", "result", "reason", "dh", "early", "extra", "tls", "drop"}
  Limit = 65535
  MaxRects = 2
  MaxMessages = 3
  MaxOthers = 1
  MaxFields = 3
INVARIANTS TypeOK InStep Reported BufferBounded Served
PROPERTIES HandshakeEnds ClosesEventually
CHECK_DEADLOCK FALSE
