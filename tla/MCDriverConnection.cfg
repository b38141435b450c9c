CONSTANTS
  k1 = k1
  k2 = k2
  k3 = k3
  k4 = k4
  k5 = k5
  Calls = {k1, k2, k3, k4, k5}
  Drivers <- MCDrivers
  MaxClients = 3
SPECIFICATION FairSpec
INVARIANTS TransactionAlone NoUseAfterClose NoClientLost
PROPERTY EveryCallSettles
CHECK_DEADLOCK FALSE
