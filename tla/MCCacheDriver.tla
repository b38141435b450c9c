---------------------------- MODULE MCCacheDriver ----------------------------
(* Three cached reads of one key: two with stale-while-revalidate, which ask   *)
(* for a shorter ttl than the third.                                           *)
EXTENDS CacheDriver

CONSTANTS plain, swr1, swr2

MCReads == {plain, swr1, swr2}
MCTtl == [r \in MCReads |-> IF r = plain THEN 1 ELSE 0]
=============================================================================
