----------------------------- MODULE CacheDriver -----------------------------
(***************************************************************************)
(* Cached reads, background revalidation and invalidation of one cache     *)
(* key: _executeCached, revalidateInBackground, _markRevalidating and      *)
(* _invalidate of src/src/cache/driver.ts over the store of                *)
(* src/src/cache/drivers/memory.ts, and withMutationCacheInvalidation of   *)
(* src/src/query-engine/cache-flow.ts.                                     *)
(*                                                                         *)
(* The store's functions take effect when they are called, and their       *)
(* callers go on in a later task; an action is one such task.  The         *)
(* database is external: db is its committed version, and a query sees one *)
(* version and is answered later.  Time is kept as ages and remaining      *)
(* times; a timer that is due may fire late.                               *)
(***************************************************************************)
EXTENDS Naturals

CONSTANTS Reads,      \* the cached reads of the key, each made once
          Swr,        \* those with stale-while-revalidate
          Bypass,     \* those that may be told not to look in the cache
          Ttl,        \* the ttl each asks for
          Window,     \* the stale window of those in Swr
          Mutations,  \* the mutations that invalidate the key
          InTx,       \* those inside an interactive transaction
          FlagTtl,    \* REVALIDATING_TTL_MS
          MaxAge      \* bound: ages are counted up to here

StorageTtl(r) == Ttl[r] + (IF r \in Swr THEN Window ELSE 0)

ASSUME CacheAssumption == /\ Swr \subseteq Reads /\ Bypass \subseteq Reads
                          /\ InTx \subseteq Mutations
                          /\ Ttl \in [Reads -> Nat] /\ Window \in Nat
                          /\ FlagTtl \in 0..MaxAge /\ MaxAge \in Nat
                          /\ \A r \in Reads : StorageTtl(r) < MaxAge

VARIABLES
  db,        \* the version of the data that is committed
  entry,     \* what the store has under the key: nothing, or one entry
  flag,      \* the store has the key's revalidating flag
  timers,    \* remaining times of the timers armed for the entry and for the flag
  read,      \* each cached read
  seen,      \* what it found in the store
  value,     \* the version its query was answered with, or it returned
  reval,     \* the revalidation it started
  flagSeen,  \* _markRevalidating found the flag
  fetched,   \* the version the revalidation's query was answered with
  mutation,  \* each mutation
  wrote,     \* history: the version it committed
  purged,    \* history: the newest version whose mutation has invalidated
  overtaken  \* history: the fills that held an older version at that moment

cacheVars == <<entry, flag, timers>>
readVars == <<read, seen, value>>
revalVars == <<reval, flagSeen, fetched>>
dbVars == <<db, mutation, wrote, purged, overtaken>>
vars == <<cacheVars, readVars, revalVars, dbVars>>

Versions == Nat
Fills == {"read", "reval"} \X Reads
Entry == [value : Versions, age : 0..MaxAge, ttl : Nat, by : Fills]

\* Every variable keeps to its type.
TypeOK ==
  /\ db \in Versions
  /\ entry \subseteq Entry
  /\ \A e, f \in entry : e = f
  /\ flag \in BOOLEAN
  /\ timers \in [{"entry", "flag"} -> SUBSET (0..MaxAge)]
  /\ read \in [Reads -> {"idle", "looked", "query", "answered", "returned", "failed"}]
  /\ seen \in [Reads -> SUBSET Entry]
  /\ value \in [Reads -> Versions]
  /\ reval \in [Reads -> {"none", "mark", "query", "answered", "clear", "done"}]
  /\ flagSeen \in [Reads -> BOOLEAN]
  /\ fetched \in [Reads -> Versions]
  /\ mutation \in [Mutations -> {"idle", "written", "invalidated", "done"}]
  /\ wrote \in [Mutations -> Versions]
  /\ purged \in Versions
  /\ overtaken \subseteq Fills

Init ==
  /\ db = 0
  /\ entry = {} /\ flag = FALSE
  /\ timers = [k \in {"entry", "flag"} |-> {}]
  /\ read = [r \in Reads |-> "idle"]
  /\ seen = [r \in Reads |-> {}]
  /\ value = [r \in Reads |-> 0]
  /\ reval = [r \in Reads |-> "none"]
  /\ flagSeen = [r \in Reads |-> FALSE]
  /\ fetched = [r \in Reads |-> 0]
  /\ mutation = [m \in Mutations |-> "idle"]
  /\ wrote = [m \in Mutations |-> 0]
  /\ purged = 0
  /\ overtaken = {}

-----------------------------------------------------------------------------
(* MemoryCache.                                                            *)

\* Leaves the timer of the replaced entry running.
SetEntryTimerKept(r, kind, v) ==
  /\ entry' = {[value |-> v, age |-> 0, ttl |-> Ttl[r], by |-> <<kind, r>>]}
  /\ timers' = [timers EXCEPT !["entry"] = @ \cup {StorageTtl(r)}]
  /\ UNCHANGED flag

\* set of the entry: the timer of the one it replaces is cancelled.
SetEntry(r, kind, v) ==
  /\ entry' = {[value |-> v, age |-> 0, ttl |-> Ttl[r], by |-> <<kind, r>>]}
  /\ timers' = [timers EXCEPT !["entry"] = {StorageTtl(r)}]
  /\ UNCHANGED flag

\* Stores the flag without a time to live.
SetFlagForGood == flag' = TRUE /\ UNCHANGED <<entry, timers>>

SetFlag == /\ flag' = TRUE
           /\ timers' = [timers EXCEPT !["flag"] = {FlagTtl}]
           /\ UNCHANGED entry

DeleteFlag == /\ flag' = FALSE
              /\ timers' = [timers EXCEPT !["flag"] = {}]
              /\ UNCHANGED entry

\* clear(prefix) and _delete(key) both reach the entry and its flag.
DeleteAll == /\ entry' = {} /\ flag' = FALSE
             /\ timers' = [k \in {"entry", "flag"} |-> {}]

EvictEntry ==
  /\ 0 \in timers["entry"]
  /\ entry' = {}
  /\ timers' = [timers EXCEPT !["entry"] = @ \ {0}]
  /\ UNCHANGED <<flag, readVars, revalVars, dbVars>>

EvictFlag ==
  /\ 0 \in timers["flag"]
  /\ flag' = FALSE
  /\ timers' = [timers EXCEPT !["flag"] = @ \ {0}]
  /\ UNCHANGED <<entry, readVars, revalVars, dbVars>>

Older(e) == [e EXCEPT !.age = IF @ < MaxAge THEN @ + 1 ELSE @]
OneLess(times) == {IF t > 0 THEN t - 1 ELSE t : t \in times}

\* One unit of time passes; it is seen by the entry and by what reads found.
Tick ==
  /\ entry' = {Older(e) : e \in entry}
  /\ timers' = [k \in DOMAIN timers |-> OneLess(timers[k])]
  /\ seen' = [r \in Reads |-> {Older(e) : e \in seen[r]}]
  /\ UNCHANGED <<flag, read, value, revalVars, dbVars>>

-----------------------------------------------------------------------------
(* _executeCached.                                                         *)

Lookup(r) ==
  /\ read[r] = "idle"
  /\ \/ /\ r \in Bypass
        /\ read' = [read EXCEPT ![r] = "query"]
        /\ UNCHANGED seen
     \/ /\ read' = [read EXCEPT ![r] = "looked"]
        /\ seen' = [seen EXCEPT ![r] = entry]
  /\ UNCHANGED <<value, cacheVars, revalVars, dbVars>>

Stale(e) == e.age > e.ttl
Servable(r, e) == Stale(e) => r \in Swr

\* Returns a stale entry only when its revalidation is over.
DecideWaiting(r) ==
  \/ /\ read[r] = "looked"
     /\ \/ \E e \in seen[r] :
             /\ Servable(r, e)
             /\ read' = [read EXCEPT ![r] = IF Stale(e) THEN "waiting" ELSE "returned"]
             /\ value' = [value EXCEPT ![r] = e.value]
             /\ reval' = [reval EXCEPT ![r] = IF Stale(e) THEN "mark" ELSE "none"]
             /\ flagSeen' = [flagSeen EXCEPT ![r] = Stale(e) /\ flag]
        \/ /\ \A e \in seen[r] : ~Servable(r, e)
           /\ read' = [read EXCEPT ![r] = "query"]
           /\ UNCHANGED <<value, reval, flagSeen>>
     /\ seen' = [seen EXCEPT ![r] = {}]
     /\ UNCHANGED <<fetched, cacheVars, dbVars>>
  \/ /\ read[r] = "waiting" /\ reval[r] = "done"
     /\ read' = [read EXCEPT ![r] = "returned"]
     /\ UNCHANGED <<seen, value, revalVars, cacheVars, dbVars>>

\* A fresh entry is returned.  A stale one too with swr, and the flag is looked up
\* at once.  Otherwise the query runs.
Decide(r) ==
  /\ read[r] = "looked"
  /\ \/ \E e \in seen[r] :
          /\ Servable(r, e)
          /\ read' = [read EXCEPT ![r] = "returned"]
          /\ value' = [value EXCEPT ![r] = e.value]
          /\ reval' = [reval EXCEPT ![r] = IF Stale(e) THEN "mark" ELSE "none"]
          /\ flagSeen' = [flagSeen EXCEPT ![r] = Stale(e) /\ flag]
     \/ /\ \A e \in seen[r] : ~Servable(r, e)
        /\ read' = [read EXCEPT ![r] = "query"]
        /\ UNCHANGED <<value, reval, flagSeen>>
  /\ seen' = [seen EXCEPT ![r] = {}]
  /\ UNCHANGED <<fetched, cacheVars, dbVars>>

\* The database answers with what is committed, or the query fails.
Query(r) ==
  /\ read[r] = "query"
  /\ \/ /\ read' = [read EXCEPT ![r] = "answered"]
        /\ value' = [value EXCEPT ![r] = db]
     \/ /\ read' = [read EXCEPT ![r] = "failed"]
        /\ UNCHANGED value
  /\ UNCHANGED <<seen, cacheVars, revalVars, dbVars>>

\* setInBackground, and the value is returned.
Fill(r) ==
  /\ read[r] = "answered"
  /\ SetEntry(r, "read", value[r])
  /\ read' = [read EXCEPT ![r] = "returned"]
  /\ UNCHANGED <<seen, value, revalVars, dbVars>>

-----------------------------------------------------------------------------
(* revalidateInBackground.                                                 *)

\* The rest of _markRevalidating: the flag is set if it was not there.
Mark(r) ==
  /\ reval[r] = "mark"
  /\ IF flagSeen[r]
     THEN /\ reval' = [reval EXCEPT ![r] = "done"]
          /\ UNCHANGED cacheVars
     ELSE /\ reval' = [reval EXCEPT ![r] = "query"]
          /\ SetFlag
  /\ UNCHANGED <<readVars, flagSeen, fetched, dbVars>>

RevalQuery(r) ==
  /\ reval[r] = "query"
  /\ \/ /\ reval' = [reval EXCEPT ![r] = "answered"]
        /\ fetched' = [fetched EXCEPT ![r] = db]
     \/ /\ reval' = [reval EXCEPT ![r] = "clear"]
        /\ UNCHANGED fetched
  /\ UNCHANGED <<flagSeen, cacheVars, readVars, dbVars>>

RevalSet(r) ==
  /\ reval[r] = "answered"
  /\ SetEntry(r, "reval", fetched[r])
  /\ reval' = [reval EXCEPT ![r] = "clear"]
  /\ UNCHANGED <<flagSeen, fetched, readVars, dbVars>>

ClearRevalidating(r) ==
  /\ reval[r] = "clear"
  /\ DeleteFlag
  /\ reval' = [reval EXCEPT ![r] = "done"]
  /\ UNCHANGED <<flagSeen, fetched, readVars, dbVars>>

-----------------------------------------------------------------------------
(* Mutations.                                                              *)

\* A mutation that is not in a transaction commits with its statement.
Write(m) ==
  /\ m \notin InTx
  /\ mutation[m] = "idle"
  /\ mutation' = [mutation EXCEPT ![m] = "written"]
  /\ db' = db + 1
  /\ wrote' = [wrote EXCEPT ![m] = db + 1]
  /\ UNCHANGED <<purged, overtaken, cacheVars, readVars, revalVars>>

\* The fills that hold an older version than v and have yet to store it.
HoldingOlder(v) ==
  {f \in Fills : \/ f[1] = "read" /\ read[f[2]] = "answered" /\ value[f[2]] < v
                 \/ f[1] = "reval" /\ reval[f[2]] = "answered" /\ fetched[f[2]] < v}

\* Leaves the entry to a revalidation that is under way.
InvalidateUnlessRevalidating(m) ==
  /\ m \notin InTx
  /\ mutation[m] = "written"
  /\ mutation' = [mutation EXCEPT ![m] = "done"]
  /\ IF flag THEN UNCHANGED cacheVars ELSE DeleteAll
  /\ purged' = IF wrote[m] > purged THEN wrote[m] ELSE purged
  /\ overtaken' = overtaken \cup HoldingOlder(wrote[m])
  /\ UNCHANGED <<db, wrote, readVars, revalVars>>

\* _invalidate after the statement, and the mutation is answered.
Invalidate(m) ==
  /\ m \notin InTx
  /\ mutation[m] = "written"
  /\ mutation' = [mutation EXCEPT ![m] = "done"]
  /\ DeleteAll
  /\ purged' = IF wrote[m] > purged THEN wrote[m] ELSE purged
  /\ overtaken' = overtaken \cup HoldingOlder(wrote[m])
  /\ UNCHANGED <<db, wrote, readVars, revalVars>>

\* In a transaction the statement is followed by _invalidate too, before COMMIT.
InvalidateInTx(m) ==
  /\ m \in InTx
  /\ mutation[m] = "idle"
  /\ mutation' = [mutation EXCEPT ![m] = "invalidated"]
  /\ DeleteAll
  /\ UNCHANGED <<db, wrote, purged, overtaken, readVars, revalVars>>

EndTx(m) ==
  /\ mutation[m] = "invalidated"
  /\ mutation' = [mutation EXCEPT ![m] = "done"]
  /\ \/ db' = db + 1 /\ wrote' = [wrote EXCEPT ![m] = db + 1]
     \/ UNCHANGED <<db, wrote>>
  /\ UNCHANGED <<purged, overtaken, cacheVars, readVars, revalVars>>

Cached(r) == Lookup(r) \/ Decide(r) \/ Query(r) \/ Fill(r)
Revalidate(r) == Mark(r) \/ RevalQuery(r) \/ RevalSet(r) \/ ClearRevalidating(r)
Mutate(m) == Write(m) \/ Invalidate(m) \/ InvalidateInTx(m) \/ EndTx(m)

Next == \/ \E r \in Reads : Cached(r) \/ Revalidate(r)
        \/ \E m \in Mutations : Mutate(m)
        \/ EvictEntry \/ EvictFlag \/ Tick

Spec == Init /\ [][Next]_vars

\* Time passes, timers fire and the queries of cached reads are answered; a
\* revalidation may hang.
FairSpec == /\ Spec
            /\ WF_vars(Tick) /\ WF_vars(EvictEntry) /\ WF_vars(EvictFlag)
            /\ \A r \in Reads : WF_vars(Decide(r)) /\ WF_vars(Query(r)) /\ WF_vars(Fill(r))

-----------------------------------------------------------------------------
(* Properties.                                                             *)

\* What is older than a mutation that has been answered is in the cache only if the
\* query that fetched it had already been answered when the mutation invalidated.
InvalidationSticks == \A e \in entry : e.value < purged => e.by \in overtaken

\* Each entry and flag is watched by one timer, due when its own storage time is
\* over: nothing stays for ever, and no entry is evicted for an earlier one.
Remaining(e) == LET life == StorageTtl(e.by[2])
                IN  IF e.age < life THEN life - e.age ELSE 0
TimersMatch ==
  /\ timers["entry"] = {Remaining(e) : e \in entry}
  /\ IF flag THEN \E t \in 0..FlagTtl : timers["flag"] = {t} ELSE timers["flag"] = {}

\* A revalidation that hangs does not keep others away for ever.
FlagGoes == flag ~> ~flag

\* No cached read waits for a revalidation, its own or another's.
EveryReadIsAnswered == \A r \in Reads : read[r] # "idle" ~> read[r] \in {"returned", "failed"}

-----------------------------------------------------------------------------
(* The inductive invariant.                                                *)

\* What was committed bounds what was invalidated for, and a fill that holds less
\* than that was there when the mutation invalidated.
FillsAccounted ==
  /\ purged <= db
  /\ \A m \in Mutations : wrote[m] <= db
  /\ \A r \in Reads : /\ read[r] = "answered" /\ value[r] < purged
                           => <<"read", r>> \in overtaken
                      /\ reval[r] = "answered" /\ fetched[r] < purged
                           => <<"reval", r>> \in overtaken

\* The inductive invariant: fills under way, the entry and its timers agree.
IInv == TypeOK /\ FillsAccounted /\ InvalidationSticks /\ TimersMatch
=============================================================================
