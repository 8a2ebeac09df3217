SPECIFICATION Spec
CONSTANTS
  Domains = {a, b, c}
  Cap = 2
  KeepEvents = 1
  MaxEvictions = 2
SYMMETRY MCSymmetry
INVARIANTS
  CapHolds
  PurgedStaysPurged
PROPERTIES
  LeastRecentGoesFirst
CHECK_DEADLOCK FALSE
