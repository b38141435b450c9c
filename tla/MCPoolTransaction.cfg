\* Three transactions, two connections: one may give up waiting, a bound and a raw
\* one may time out, and the pool may fail once to take a connection back, which
\* leaves one connection for the others.
CONSTANTS
  t1 = t1
  t2 = t2
  t3 = t3
  Txs = {t1, t2, t3}
  MaxWaited = {t1}
  Timed = {t2, t3}
  Raw = {t3}
  Conns = {k1, k2}
  MaxThrows = 1
SPECIFICATION FairSpec
INVARIANTS NoConnectionLost PoolIsClean BodyDrained SuccessIsDurable
PROPERTY EveryTransactionSettles
CHECK_DEADLOCK FALSE
