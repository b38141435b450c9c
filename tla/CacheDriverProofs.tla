-------------------------- MODULE CacheDriverProofs --------------------------
(***************************************************************************)
(* The cached reads of one key keep IInv, for any reads, mutations and     *)
(* times to live, and with it what an invalidation and a timer promise.    *)
(*                                                                         *)
(* An old value enters the cache by a fill that held it when a newer       *)
(* mutation invalidated; the argument is that every fill which holds such  *)
(* a value is on the list of those that did (FillsAccounted), because a    *)
(* query answered later sees what that mutation committed.                 *)
(***************************************************************************)
EXTENDS CacheDriver, TLAPS

LEMMA InitInv == Init => IInv
  <1> SUFFICES ASSUME Init PROVE IInv
    OBVIOUS
  <1>1. TypeOK
    BY CacheAssumption DEF Init, TypeOK, Versions, Fills, Entry
  <1>2. FillsAccounted /\ InvalidationSticks
    BY DEF Init, FillsAccounted, InvalidationSticks
  <1>3. TimersMatch
    BY DEF Init, TimersMatch
  <1> QED BY <1>1, <1>2, <1>3 DEF IInv

-----------------------------------------------------------------------------
(* The store.  What a function of it leaves behind has its timer.           *)

\* set of the entry, by a fill of either kind.
LEMMA SetEntryKeeps ==
  ASSUME TypeOK, TimersMatch, NEW r \in Reads, NEW kind \in {"read", "reval"},
         NEW v \in Versions, SetEntry(r, kind, v)
  PROVE  /\ entry' \subseteq Entry
         /\ \A e, f \in entry' : e = f
         /\ timers' \in [{"entry", "flag"} -> SUBSET (0..MaxAge)]
         /\ flag' \in BOOLEAN
         /\ TimersMatch'
  <1> DEFINE life == StorageTtl(r)
             new == [value |-> v, age |-> 0, ttl |-> Ttl[r], by |-> <<kind, r>>]
  <1>1. life \in 0..MaxAge
    BY CacheAssumption DEF StorageTtl
  <1>2. new \in Entry
    BY CacheAssumption DEF Entry, Fills
  <1>3. entry' = {new} /\ timers' = [timers EXCEPT !["entry"] = {life}] /\ flag' = flag
    BY DEF SetEntry
  <1>4. Remaining(new) = life
    BY <1>1 DEF Remaining
  <1> HIDE DEF life, new
  <1>5. timers' \in [{"entry", "flag"} -> SUBSET (0..MaxAge)]
    BY <1>1, <1>3 DEF TypeOK
  <1>6. timers'["entry"] = {life} /\ timers'["flag"] = timers["flag"]
    BY <1>3 DEF TypeOK
  <1>7. {Remaining(e) : e \in entry'} = {life}
    BY <1>3, <1>4
  <1>8. TimersMatch'
    BY <1>3, <1>6, <1>7 DEF TimersMatch, Remaining, StorageTtl
  <1> QED BY <1>2, <1>3, <1>5, <1>8 DEF TypeOK

\* set and delete of the flag.
LEMMA FlagKeeps ==
  ASSUME TypeOK, TimersMatch, SetFlag \/ DeleteFlag
  PROVE  /\ entry' = entry
         /\ timers' \in [{"entry", "flag"} -> SUBSET (0..MaxAge)]
         /\ flag' \in BOOLEAN
         /\ TimersMatch'
  <1>1. CASE SetFlag
    <2>1. /\ timers'["entry"] = timers["entry"] /\ timers'["flag"] = {FlagTtl}
          /\ timers' \in [{"entry", "flag"} -> SUBSET (0..MaxAge)]
      BY <1>1, CacheAssumption DEF SetFlag, TypeOK
    <2> QED BY <1>1, <2>1, CacheAssumption DEF SetFlag, TimersMatch, Remaining, StorageTtl
  <1>2. CASE DeleteFlag
    <2>1. /\ timers'["entry"] = timers["entry"] /\ timers'["flag"] = {}
          /\ timers' \in [{"entry", "flag"} -> SUBSET (0..MaxAge)]
      BY <1>2 DEF DeleteFlag, TypeOK
    <2> QED BY <1>2, <2>1 DEF DeleteFlag, TimersMatch, Remaining, StorageTtl
  <1> QED BY <1>1, <1>2

\* clear, and delete of the entry and its flag.
LEMMA DeleteAllKeeps ==
  ASSUME DeleteAll
  PROVE  /\ entry' = {} /\ flag' = FALSE
         /\ timers' \in [{"entry", "flag"} -> SUBSET (0..MaxAge)]
         /\ TimersMatch'
  BY DEF DeleteAll, TimersMatch

\* Nothing of the store changes.
LEMMA StoreUntouched ==
  ASSUME TypeOK, TimersMatch, UNCHANGED cacheVars
  PROVE  TimersMatch'
  BY DEF cacheVars, TimersMatch, Remaining, StorageTtl

-----------------------------------------------------------------------------
(* Time and timers.                                                        *)

\* What is evicted was due.
LEMMA EvictEntryInv == ASSUME IInv, EvictEntry PROVE IInv'
  <1>1. /\ entry' = {}
        /\ timers'["entry"] = timers["entry"] \ {0} /\ timers'["flag"] = timers["flag"]
        /\ timers' \in [{"entry", "flag"} -> SUBSET (0..MaxAge)]
    BY DEF EvictEntry, IInv, TypeOK
  <1>2. timers["entry"] = {0}
    <2>1. PICK e \in entry : Remaining(e) = 0
      BY DEF EvictEntry, IInv, TimersMatch
    <2>2. entry = {e}
      BY <2>1 DEF IInv, TypeOK
    <2> QED BY <2>1, <2>2 DEF IInv, TimersMatch
  <1>3. TypeOK'
    BY <1>1 DEF EvictEntry, readVars, revalVars, dbVars, IInv, TypeOK
  <1>4. TimersMatch'
    BY <1>1, <1>2 DEF EvictEntry, IInv, TimersMatch
  <1>5. FillsAccounted' /\ InvalidationSticks'
    BY <1>1 DEF EvictEntry, readVars, revalVars, dbVars, IInv, FillsAccounted,
       InvalidationSticks
  <1> QED BY <1>3, <1>4, <1>5 DEF IInv

LEMMA EvictFlagInv == ASSUME IInv, EvictFlag PROVE IInv'
  <1>1. /\ flag' = FALSE
        /\ timers'["flag"] = timers["flag"] \ {0} /\ timers'["entry"] = timers["entry"]
        /\ timers' \in [{"entry", "flag"} -> SUBSET (0..MaxAge)]
    BY DEF EvictFlag, IInv, TypeOK
  <1>2. timers["flag"] = {0}
    BY DEF EvictFlag, IInv, TimersMatch
  <1>3. TypeOK'
    BY <1>1 DEF EvictFlag, readVars, revalVars, dbVars, IInv, TypeOK
  <1>4. TimersMatch'
    BY <1>1, <1>2 DEF EvictFlag, IInv, TimersMatch, Remaining, StorageTtl
  <1>5. FillsAccounted' /\ InvalidationSticks'
    BY DEF EvictFlag, readVars, revalVars, dbVars, IInv, FillsAccounted, InvalidationSticks
  <1> QED BY <1>3, <1>4, <1>5 DEF IInv

\* An entry grows older and its remaining time shorter together.
LEMMA OlderRemains ==
  ASSUME NEW e \in Entry
  PROVE  /\ Older(e) \in Entry
         /\ Older(e).value = e.value /\ Older(e).by = e.by
         /\ Remaining(e) \in 0..MaxAge
         /\ Remaining(Older(e)) = IF Remaining(e) > 0 THEN Remaining(e) - 1 ELSE Remaining(e)
  <1>1. /\ e.age \in 0..MaxAge /\ e.by[2] \in Reads
        /\ MaxAge \in Nat
    BY CacheAssumption DEF Entry, Fills
  <1>2. /\ Older(e) \in Entry /\ Older(e).value = e.value /\ Older(e).by = e.by
        /\ Older(e).age = IF e.age < MaxAge THEN e.age + 1 ELSE e.age
    BY <1>1 DEF Entry, Older
  <1>3. StorageTtl(e.by[2]) \in Nat /\ StorageTtl(e.by[2]) < MaxAge
    BY <1>1, CacheAssumption DEF StorageTtl
  <1> QED BY <1>1, <1>2, <1>3 DEF Remaining

LEMMA TickInv == ASSUME IInv, Tick PROVE IInv'
  <1>1. entry' \subseteq Entry /\ \A e, f \in entry' : e = f
    BY OlderRemains DEF Tick, IInv, TypeOK
  <1>2. seen' \in [Reads -> SUBSET Entry]
    BY OlderRemains DEF Tick, IInv, TypeOK
  <1>3. /\ timers'["entry"] = OneLess(timers["entry"])
        /\ timers'["flag"] = OneLess(timers["flag"])
        /\ DOMAIN timers' = {"entry", "flag"}
        /\ timers' = [k \in {"entry", "flag"} |-> timers'[k]]
    BY DEF Tick, IInv, TypeOK
  <1>4. \A T \in SUBSET (0..MaxAge) : OneLess(T) \in SUBSET (0..MaxAge)
    BY CacheAssumption DEF OneLess
  <1>5. timers' \in [{"entry", "flag"} -> SUBSET (0..MaxAge)]
    BY <1>3, <1>4 DEF IInv, TypeOK
  <1>6. TypeOK'
    BY <1>1, <1>2, <1>5 DEF Tick, revalVars, dbVars, IInv, TypeOK
  <1>7. timers'["entry"] = {Remaining(e) : e \in entry'}
    BY <1>3, OlderRemains DEF Tick, OneLess, IInv, TypeOK, TimersMatch
  <1>8. flag' => \E t \in 0..FlagTtl : timers'["flag"] = {t}
    <2> SUFFICES ASSUME flag' PROVE \E t \in 0..FlagTtl : timers'["flag"] = {t}
      OBVIOUS
    <2>1. PICK t \in 0..FlagTtl : timers["flag"] = {t}
      BY DEF Tick, IInv, TimersMatch
    <2>2. timers'["flag"] = {IF t > 0 THEN t - 1 ELSE t}
      BY <1>3, <2>1 DEF OneLess
    <2> QED BY <2>2, CacheAssumption
  <1>9. ~flag' => timers'["flag"] = {}
    BY <1>3 DEF Tick, OneLess, IInv, TimersMatch
  <1>10. TimersMatch'
    BY <1>7, <1>8, <1>9 DEF TimersMatch, Remaining, StorageTtl
  <1>11. FillsAccounted'
    BY DEF Tick, revalVars, dbVars, IInv, FillsAccounted
  <1>12. InvalidationSticks'
    BY OlderRemains DEF Tick, dbVars, IInv, TypeOK, InvalidationSticks
  <1> QED BY <1>6, <1>10, <1>11, <1>12 DEF IInv

-----------------------------------------------------------------------------
(* Cached reads.                                                           *)

LEMMA LookupInv == ASSUME IInv, NEW r \in Reads, Lookup(r) PROVE IInv'
  <1>1. TypeOK'
    BY DEF Lookup, cacheVars, revalVars, dbVars, IInv, TypeOK
  <1>2. TimersMatch'
    BY StoreUntouched DEF Lookup, IInv
  <1>3. FillsAccounted' /\ InvalidationSticks'
    BY DEF Lookup, cacheVars, revalVars, dbVars, IInv, TypeOK, FillsAccounted,
       InvalidationSticks
  <1> QED BY <1>1, <1>2, <1>3 DEF IInv

LEMMA DecideInv == ASSUME IInv, NEW r \in Reads, Decide(r) PROVE IInv'
  <1>1. \A e \in seen[r] : e.value \in Versions
    BY DEF IInv, TypeOK, Entry
  <1>2. /\ read' \in [Reads -> {"idle", "looked", "query", "answered", "returned", "failed"}]
        /\ value' \in [Reads -> Versions]
        /\ seen' \in [Reads -> SUBSET Entry]
    BY <1>1 DEF Decide, IInv, TypeOK
  <1>3. /\ reval' \in [Reads -> {"none", "mark", "query", "answered", "clear", "done"}]
        /\ flagSeen' \in [Reads -> BOOLEAN]
    BY DEF Decide, IInv, TypeOK
  <1>4. TypeOK'
    BY <1>2, <1>3 DEF Decide, cacheVars, dbVars, IInv, TypeOK
  <1>5. TimersMatch'
    BY StoreUntouched DEF Decide, IInv
  <1>6. \A q \in Reads : /\ read'[q] = "answered" => read[q] = "answered" /\ value'[q] = value[q]
                         /\ reval'[q] = "answered" => reval[q] = "answered"
    BY DEF Decide, IInv, TypeOK
  <1>7. FillsAccounted' /\ InvalidationSticks'
    BY <1>6 DEF Decide, cacheVars, dbVars, IInv, FillsAccounted, InvalidationSticks
  <1> QED BY <1>4, <1>5, <1>7 DEF IInv

\* What the database answers now is as new as any mutation that has invalidated.
LEMMA QueryInv == ASSUME IInv, NEW r \in Reads, Query(r) PROVE IInv'
  <1>1. TypeOK'
    BY DEF Query, cacheVars, revalVars, dbVars, IInv, TypeOK
  <1>2. TimersMatch'
    BY StoreUntouched DEF Query, IInv
  <1>3. \A q \in Reads : read'[q] = "answered" /\ q # r
                           => read[q] = "answered" /\ value'[q] = value[q]
    BY DEF Query, IInv, TypeOK
  <1>4. read'[r] = "answered" => value'[r] = db
    BY DEF Query, IInv, TypeOK
  <1>5. purged \in Nat /\ db \in Nat /\ purged <= db
    BY DEF IInv, TypeOK, Versions, FillsAccounted
  <1>6. FillsAccounted'
    BY <1>3, <1>4, <1>5 DEF Query, revalVars, dbVars, IInv, FillsAccounted
  <1>7. InvalidationSticks'
    BY DEF Query, cacheVars, dbVars, IInv, InvalidationSticks
  <1> QED BY <1>1, <1>2, <1>6, <1>7 DEF IInv

LEMMA FillInv == ASSUME IInv, NEW r \in Reads, Fill(r) PROVE IInv'
  <1>1. value[r] \in Versions /\ SetEntry(r, "read", value[r])
    BY DEF Fill, IInv, TypeOK
  <1>2. /\ entry' \subseteq Entry
        /\ \A e, f \in entry' : e = f
        /\ timers' \in [{"entry", "flag"} -> SUBSET (0..MaxAge)]
        /\ flag' \in BOOLEAN
        /\ TimersMatch'
    BY <1>1, SetEntryKeeps DEF IInv
  <1>3. TypeOK'
    BY <1>2 DEF Fill, revalVars, dbVars, IInv, TypeOK
  <1>4. FillsAccounted'
    BY DEF Fill, revalVars, dbVars, IInv, TypeOK, FillsAccounted
  <1>5. InvalidationSticks'
    <2>1. \A e \in entry' : e.value = value[r] /\ e.by = <<"read", r>>
      BY <1>1 DEF SetEntry
    <2>2. value[r] < purged => <<"read", r>> \in overtaken
      BY DEF Fill, IInv, FillsAccounted
    <2>3. purged' = purged /\ overtaken' = overtaken
      BY DEF Fill, dbVars
    <2> QED BY <2>1, <2>2, <2>3 DEF InvalidationSticks
  <1> QED BY <1>2, <1>3, <1>4, <1>5 DEF IInv

-----------------------------------------------------------------------------
(* Revalidations.                                                          *)

LEMMA MarkInv == ASSUME IInv, NEW r \in Reads, Mark(r) PROVE IInv'
  <1>1. /\ entry' = entry
        /\ timers' \in [{"entry", "flag"} -> SUBSET (0..MaxAge)]
        /\ flag' \in BOOLEAN
        /\ TimersMatch'
    <2>1. CASE UNCHANGED cacheVars
      BY <2>1, StoreUntouched DEF cacheVars, IInv, TypeOK
    <2>2. CASE SetFlag
      BY <2>2, FlagKeeps DEF IInv
    <2> QED BY <2>1, <2>2 DEF Mark
  <1>2. TypeOK'
    BY <1>1 DEF Mark, readVars, dbVars, IInv, TypeOK
  <1>3. \A q \in Reads : reval'[q] = "answered" => reval[q] = "answered"
    BY DEF Mark, IInv, TypeOK
  <1>4. FillsAccounted' /\ InvalidationSticks'
    BY <1>1, <1>3 DEF Mark, readVars, dbVars, IInv, FillsAccounted, InvalidationSticks
  <1> QED BY <1>1, <1>2, <1>4 DEF IInv

LEMMA RevalQueryInv == ASSUME IInv, NEW r \in Reads, RevalQuery(r) PROVE IInv'
  <1>1. TypeOK'
    BY DEF RevalQuery, cacheVars, readVars, dbVars, IInv, TypeOK
  <1>2. TimersMatch'
    BY StoreUntouched DEF RevalQuery, IInv
  <1>3. \A q \in Reads : reval'[q] = "answered" /\ q # r
                           => reval[q] = "answered" /\ fetched'[q] = fetched[q]
    BY DEF RevalQuery, IInv, TypeOK
  <1>4. reval'[r] = "answered" => fetched'[r] = db
    BY DEF RevalQuery, IInv, TypeOK
  <1>5. purged \in Nat /\ db \in Nat /\ purged <= db
    BY DEF IInv, TypeOK, Versions, FillsAccounted
  <1>6. FillsAccounted'
    BY <1>3, <1>4, <1>5 DEF RevalQuery, readVars, dbVars, IInv, FillsAccounted
  <1>7. InvalidationSticks'
    BY DEF RevalQuery, cacheVars, dbVars, IInv, InvalidationSticks
  <1> QED BY <1>1, <1>2, <1>6, <1>7 DEF IInv

LEMMA RevalSetInv == ASSUME IInv, NEW r \in Reads, RevalSet(r) PROVE IInv'
  <1>1. fetched[r] \in Versions /\ SetEntry(r, "reval", fetched[r])
    BY DEF RevalSet, IInv, TypeOK
  <1>2. /\ entry' \subseteq Entry
        /\ \A e, f \in entry' : e = f
        /\ timers' \in [{"entry", "flag"} -> SUBSET (0..MaxAge)]
        /\ flag' \in BOOLEAN
        /\ TimersMatch'
    BY <1>1, SetEntryKeeps DEF IInv
  <1>3. TypeOK'
    BY <1>2 DEF RevalSet, readVars, dbVars, IInv, TypeOK
  <1>4. FillsAccounted'
    BY DEF RevalSet, readVars, dbVars, IInv, TypeOK, FillsAccounted
  <1>5. InvalidationSticks'
    <2>1. \A e \in entry' : e.value = fetched[r] /\ e.by = <<"reval", r>>
      BY <1>1 DEF SetEntry
    <2>2. fetched[r] < purged => <<"reval", r>> \in overtaken
      BY DEF RevalSet, IInv, FillsAccounted
    <2>3. purged' = purged /\ overtaken' = overtaken
      BY DEF RevalSet, dbVars
    <2> QED BY <2>1, <2>2, <2>3 DEF InvalidationSticks
  <1> QED BY <1>2, <1>3, <1>4, <1>5 DEF IInv

LEMMA ClearRevalidatingInv ==
  ASSUME IInv, NEW r \in Reads, ClearRevalidating(r) PROVE IInv'
  <1>1. /\ entry' = entry
        /\ timers' \in [{"entry", "flag"} -> SUBSET (0..MaxAge)]
        /\ flag' \in BOOLEAN
        /\ TimersMatch'
    BY FlagKeeps DEF ClearRevalidating, IInv
  <1>2. TypeOK'
    BY <1>1 DEF ClearRevalidating, readVars, dbVars, IInv, TypeOK
  <1>3. FillsAccounted' /\ InvalidationSticks'
    BY <1>1 DEF ClearRevalidating, readVars, dbVars, IInv, TypeOK, FillsAccounted,
       InvalidationSticks
  <1> QED BY <1>1, <1>2, <1>3 DEF IInv

-----------------------------------------------------------------------------
(* Mutations.                                                              *)

LEMMA WriteInv == ASSUME IInv, NEW m \in Mutations, Write(m) PROVE IInv'
  <1>1. TypeOK'
    BY DEF Write, cacheVars, readVars, revalVars, IInv, TypeOK, Versions
  <1>2. TimersMatch'
    BY StoreUntouched DEF Write, IInv
  <1>3. FillsAccounted' /\ InvalidationSticks'
    BY DEF Write, cacheVars, readVars, revalVars, IInv, TypeOK, Versions, FillsAccounted,
       InvalidationSticks
  <1> QED BY <1>1, <1>2, <1>3 DEF IInv

\* The fills that hold less than what is now invalidated for are listed.
LEMMA InvalidateInv == ASSUME IInv, NEW m \in Mutations, Invalidate(m) PROVE IInv'
  <1>1. /\ entry' = {} /\ flag' = FALSE
        /\ timers' \in [{"entry", "flag"} -> SUBSET (0..MaxAge)]
        /\ TimersMatch'
    BY DeleteAllKeeps DEF Invalidate
  <1>2. wrote[m] \in Nat /\ purged \in Nat /\ db \in Nat
    BY DEF IInv, TypeOK, Versions
  <1>3. HoldingOlder(wrote[m]) \subseteq Fills
    BY DEF HoldingOlder
  <1>4. TypeOK'
    BY <1>1, <1>2, <1>3 DEF Invalidate, readVars, revalVars, IInv, TypeOK, Versions
  <1>5. purged' <= db' /\ \A n \in Mutations : wrote'[n] <= db'
    BY <1>2 DEF Invalidate, IInv, FillsAccounted
  <1>6. \A r \in Reads : read'[r] = "answered" /\ value'[r] < purged'
                           => <<"read", r>> \in overtaken'
    <2> SUFFICES ASSUME NEW r \in Reads, read[r] = "answered", value[r] < purged'
                 PROVE  <<"read", r>> \in overtaken'
      BY DEF Invalidate, readVars
    <2>1. CASE value[r] < purged
      BY <2>1 DEF Invalidate, IInv, FillsAccounted
    <2>2. CASE value[r] < wrote[m]
      <3>1. <<"read", r>> \in HoldingOlder(wrote[m])
        BY <2>2 DEF HoldingOlder, Fills
      <3> QED BY <3>1 DEF Invalidate
    <2> QED BY <2>1, <2>2 DEF Invalidate
  <1>7. \A r \in Reads : reval'[r] = "answered" /\ fetched'[r] < purged'
                           => <<"reval", r>> \in overtaken'
    <2> SUFFICES ASSUME NEW r \in Reads, reval[r] = "answered", fetched[r] < purged'
                 PROVE  <<"reval", r>> \in overtaken'
      BY DEF Invalidate, revalVars
    <2>1. CASE fetched[r] < purged
      BY <2>1 DEF Invalidate, IInv, FillsAccounted
    <2>2. CASE fetched[r] < wrote[m]
      <3>1. <<"reval", r>> \in HoldingOlder(wrote[m])
        BY <2>2 DEF HoldingOlder, Fills
      <3> QED BY <3>1 DEF Invalidate
    <2> QED BY <2>1, <2>2 DEF Invalidate
  <1>8. FillsAccounted' /\ InvalidationSticks'
    BY <1>1, <1>5, <1>6, <1>7 DEF FillsAccounted, InvalidationSticks
  <1> QED BY <1>1, <1>4, <1>8 DEF IInv

LEMMA InvalidateInTxInv ==
  ASSUME IInv, NEW m \in Mutations, InvalidateInTx(m) PROVE IInv'
  <1>1. /\ entry' = {} /\ flag' = FALSE
        /\ timers' \in [{"entry", "flag"} -> SUBSET (0..MaxAge)]
        /\ TimersMatch'
    BY DeleteAllKeeps DEF InvalidateInTx
  <1>2. TypeOK'
    BY <1>1 DEF InvalidateInTx, readVars, revalVars, IInv, TypeOK
  <1>3. FillsAccounted' /\ InvalidationSticks'
    BY <1>1 DEF InvalidateInTx, readVars, revalVars, IInv, FillsAccounted, InvalidationSticks
  <1> QED BY <1>1, <1>2, <1>3 DEF IInv

LEMMA EndTxInv == ASSUME IInv, NEW m \in Mutations, EndTx(m) PROVE IInv'
  <1>1. TypeOK'
    BY DEF EndTx, cacheVars, readVars, revalVars, IInv, TypeOK, Versions
  <1>2. TimersMatch'
    BY StoreUntouched DEF EndTx, IInv
  <1>3. FillsAccounted' /\ InvalidationSticks'
    BY DEF EndTx, cacheVars, readVars, revalVars, IInv, TypeOK, Versions, FillsAccounted,
       InvalidationSticks
  <1> QED BY <1>1, <1>2, <1>3 DEF IInv

-----------------------------------------------------------------------------
(* The theorems.                                                           *)

LEMMA StepInv == IInv /\ [Next]_vars => IInv'
  <1> SUFFICES ASSUME IInv, [Next]_vars PROVE IInv'
    OBVIOUS
  <1>1. ASSUME NEW r \in Reads, Cached(r) PROVE IInv'
    BY <1>1, LookupInv, DecideInv, QueryInv, FillInv DEF Cached
  <1>2. ASSUME NEW r \in Reads, Revalidate(r) PROVE IInv'
    BY <1>2, MarkInv, RevalQueryInv, RevalSetInv, ClearRevalidatingInv DEF Revalidate
  <1>3. ASSUME NEW m \in Mutations, Mutate(m) PROVE IInv'
    BY <1>3, WriteInv, InvalidateInv, InvalidateInTxInv, EndTxInv DEF Mutate
  <1>4. CASE EvictEntry \/ EvictFlag \/ Tick
    BY <1>4, EvictEntryInv, EvictFlagInv, TickInv
  <1>5. CASE UNCHANGED vars
    <2>1. TimersMatch'
      BY <1>5, StoreUntouched DEF vars, IInv
    <2> QED BY <1>5, <2>1 DEF vars, cacheVars, readVars, revalVars, dbVars, IInv, TypeOK,
            FillsAccounted, InvalidationSticks
  <1> QED BY <1>1, <1>2, <1>3, <1>4, <1>5 DEF Next

\* The fills under way, the entry and its timers agree (the whole of the cached
\* path of src/src/cache/driver.ts and of MemoryCache).
THEOREM InvariantHolds == Spec => []IInv
  <1> QED BY InitInv, StepInv, PTL DEF Spec

\* _invalidate of src/src/cache/driver.ts: what is older than an answered mutation
\* is cached only by a fill whose query had been answered when it invalidated.
THEOREM InvalidationHolds == Spec => []InvalidationSticks
  <1>1. IInv => InvalidationSticks
    BY DEF IInv
  <1> QED BY <1>1, InvariantHolds, PTL

\* set, delete and clear of src/src/cache/drivers/memory.ts: an entry is watched by
\* its own timer and no other, and nothing is watched that is not there.
THEOREM TimersHold == Spec => []TimersMatch
  <1>1. IInv => TimersMatch
    BY DEF IInv
  <1> QED BY <1>1, InvariantHolds, PTL
=============================================================================
