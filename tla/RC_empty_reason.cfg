SPECIFICATION Spec
CONSTANTS
  Versions = {3008}
  Offers <- VncOnly
  Subtypes <- NoSubtype
  Policies <- OnePolicy
  Results = {"failed"}
  Reasons = {0}
  Lengths = {2}
  Messages = {}
  Encodings = {}
  Faults = {}
  Limit = 65535
  MaxRects = 0
  MaxMessages = 0
  MaxOthers = 0
  MaxFields = 3
PROPERTIES ClosesEventually
CHECK_DEADLOCK FALSE
