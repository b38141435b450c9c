CONSTANTS
  P = P
  Q = Q
  Null = Null
  Parent = P
  NoParent = Null
  Broken = Broken
  Unknown = Unknown
  Requests <- MCRequests
  Rivals <- MCRivals
SPECIFICATION NestedSpec
INVARIANTS SerialOutcome RefusedIsContradiction
CHECK_DEADLOCK FALSE
