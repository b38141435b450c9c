CONSTANTS
  root = root
  outer = outer
  inner = inner
  onRoot = onRoot
  onOuter = onOuter
  onInner = onInner
  Root = root
  Scopes <- ChainScopes
  Parent <- ChainParent
  Above <- ChainAbove
  Ops <- ChainOps
  ScopeOf <- ChainScopeOf
SPECIFICATION FairSpec
INVARIANTS AllOrNothing Quiescent
PROPERTIES NoSilentFailure InItsOwnScope EverythingSettles
CHECK_DEADLOCK FALSE
