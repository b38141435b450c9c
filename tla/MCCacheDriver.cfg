\* One plain read, two with a stale window, a mutation on its own and one in a
\* transaction.
CONSTANTS
  plain = plain
  swr1 = swr1
  swr2 = swr2
  Reads <- MCReads
  Swr = {swr1, swr2}
  Bypass = {plain}
  Ttl <- MCTtl
  Window = 1
  Mutations = {m1, m2}
  InTx = {m2}
  FlagTtl = 1
  MaxAge = 2
SPECIFICATION FairSpec
INVARIANTS InvalidationSticks TimersMatch
PROPERTIES FlagGoes EveryReadIsAnswered
