CONSTANTS
  root = root
  outer = outer
  inner = inner
  onRoot = onRoot
  onOuter = onOuter
  onInner = onInner
  Root = root
  Scopes <- PairScopes
  Parent <- PairParent
  Above <- PairAbove
  Ops <- PairOps
  ScopeOf <- PairScopeOf
SPECIFICATION SystemSpec
PROPERTIES TimeoutEndsTransaction
CHECK_DEADLOCK FALSE
