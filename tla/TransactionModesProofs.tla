------------------------ MODULE TransactionModesProofs ------------------------
(***************************************************************************)
(* The two modes in which a driver runs a transaction outside a single     *)
(* connection: on a connection of a pool, and in a provider's hands.       *)
(*                                                                         *)
(* Pool.  For any number of transactions and connections and any mix of    *)
(* bounded, timed and raw ones: no connection is lost or goes back dirty,  *)
(* a drained callback is out of the way, success is durable, and what has  *)
(* given up waiting never begins.  The argument is IInv: what is open on   *)
(* a session belongs to the holder of the connection, and each step of     *)
(* the lifecycle that leaves something open, or may have, marks the        *)
(* connection to be destroyed.                                             *)
(*                                                                         *)
(* Provider.  However often a provider calls the callback and in whatever  *)
(* order the two settle: success is reported for a committed transaction   *)
(* only, a client in doubt is gone and its driver poisoned, and no failure *)
(* is swallowed.  The argument is ProviderInv.  Where a client is closed is     *)
(* settled long before the verdict, so ClosedEarly carries it there; that  *)
(* the driver is then poisoned rests on there being something to report    *)
(* beside the callback's own failure (ReportedBeside).                     *)
(***************************************************************************)
EXTENDS PoolTransaction, ProviderManagedTransaction, TLAPS

LEMMA InitInv == Init => IInv
  <1> SUFFICES ASSUME Init PROVE IInv
    OBVIOUS
  <1>1. TypeOK
    <2>1. 0 \in 0..MaxThrows
      BY PoolAssumption
    <2> QED BY <2>1 DEF Init, TypeOK, TxStates
  <1>2. ConnectionsHeld /\ PoolIsClean /\ SessionsOwned
    BY DEF Init, ConnectionsHeld, PoolIsClean, SessionsOwned, InLifecycle, GaveUp
  <1>3. OutcomesDecided /\ BoundBodiesEnd
    BY DEF Init, OutcomesDecided, BoundBodiesEnd
  <1> QED BY <1>1, <1>2, <1>3 DEF IInv

-----------------------------------------------------------------------------

LEMMA StartInv ==
  ASSUME IInv, NEW t \in Txs, Start(t) PROVE IInv'
  <1>1. TypeOK'
    <2>1. tx' \in [Txs -> TxStates]
      BY DEF Start, Goto, IInv, TypeOK, TxStates
    <2>2. awaited' \in [Txs -> BOOLEAN]
      <3> DEFINE asked == ~poisoned
      <3>1. asked \in BOOLEAN
        OBVIOUS
      <3>2. awaited' = [awaited EXCEPT ![t] = asked]
        BY DEF Start
      <3> HIDE DEF asked
      <3> QED BY <3>1, <3>2 DEF IInv, TypeOK
    <2> QED BY <2>1, <2>2 DEF Start, callbackVars, IInv, TypeOK
  <1>2. ConnectionsHeld'
    <2>1. CASE poisoned
      BY <2>1 DEF Start, Goto, callbackVars, IInv, TypeOK, ConnectionsHeld, InLifecycle,
                  GaveUp
    <2>2. CASE ~poisoned
      <3>1. awaited' = [awaited EXCEPT ![t] = TRUE]
        BY <2>2, Zenon DEF Start
      <3> QED BY <2>2, <3>1, NoneAssumption DEF Start, Goto, callbackVars, IInv, TypeOK,
                                 ConnectionsHeld, InLifecycle, GaveUp
    <2> QED BY <2>1, <2>2
  <1>3. PoolIsClean'
    BY NoneAssumption DEF Start, Goto, callbackVars, IInv, TypeOK, PoolIsClean,
       SessionsOwned, ConnectionsHeld, InLifecycle, GaveUp
  <1>4. SessionsOwned'
    BY NoneAssumption DEF Start, Goto, callbackVars, IInv, TypeOK, PoolIsClean,
       SessionsOwned, ConnectionsHeld, InLifecycle, GaveUp
  <1>5. OutcomesDecided'
    BY DEF Start, Goto, callbackVars, IInv, TypeOK, OutcomesDecided
  <1>6. BoundBodiesEnd'
    BY DEF Start, Goto, callbackVars, IInv, TypeOK, BoundBodiesEnd
  <1> QED BY <1>1, <1>2, <1>3, <1>4, <1>5, <1>6 DEF IInv

LEMMA GrantInv ==
  ASSUME IInv, NEW t \in Txs, Grant(t) PROVE IInv'
  <1>1. TypeOK'
    BY DEF Grant, Goto, CheckOut, callbackVars, IInv, TypeOK, TxStates
  <1>2. ConnectionsHeld'
    BY NoneAssumption DEF Grant, Goto, CheckOut, callbackVars, IInv, TypeOK,
       ConnectionsHeld, InLifecycle, GaveUp
  <1>3. PoolIsClean'
    BY NoneAssumption DEF Grant, Goto, CheckOut, callbackVars, IInv, TypeOK,
       PoolIsClean, SessionsOwned, ConnectionsHeld, InLifecycle, GaveUp
  <1>4. SessionsOwned'
    BY NoneAssumption DEF Grant, Goto, CheckOut, callbackVars, IInv, TypeOK,
       PoolIsClean, SessionsOwned, ConnectionsHeld, InLifecycle, GaveUp
  <1>5. OutcomesDecided'
    BY DEF Grant, Goto, CheckOut, callbackVars, IInv, TypeOK, OutcomesDecided
  <1>6. BoundBodiesEnd'
    BY DEF Grant, Goto, CheckOut, callbackVars, IInv, TypeOK, BoundBodiesEnd
  <1> QED BY <1>1, <1>2, <1>3, <1>4, <1>5, <1>6 DEF IInv

LEMMA GrantFailsInv ==
  ASSUME IInv, NEW t \in Txs, GrantFails(t) PROVE IInv'
  <1>1. TypeOK'
    BY DEF GrantFails, Goto, callbackVars, IInv, TypeOK, TxStates
  <1>2. ConnectionsHeld'
    BY NoneAssumption DEF GrantFails, Goto, callbackVars, IInv, TypeOK, ConnectionsHeld,
       InLifecycle, GaveUp
  <1>3. PoolIsClean'
    BY NoneAssumption DEF GrantFails, Goto, callbackVars, IInv, TypeOK, PoolIsClean,
       SessionsOwned, ConnectionsHeld, InLifecycle, GaveUp
  <1>4. SessionsOwned'
    BY NoneAssumption DEF GrantFails, Goto, callbackVars, IInv, TypeOK, PoolIsClean,
       SessionsOwned, ConnectionsHeld, InLifecycle, GaveUp
  <1>5. OutcomesDecided'
    BY DEF GrantFails, Goto, callbackVars, IInv, TypeOK, OutcomesDecided
  <1>6. BoundBodiesEnd'
    BY DEF GrantFails, Goto, callbackVars, IInv, TypeOK, BoundBodiesEnd
  <1> QED BY <1>1, <1>2, <1>3, <1>4, <1>5, <1>6 DEF IInv

LEMMA MaxWaitExceededInv ==
  ASSUME IInv, NEW t \in Txs, MaxWaitExceeded(t) PROVE IInv'
  <1>1. TypeOK'
    BY DEF MaxWaitExceeded, Goto, callbackVars, IInv, TypeOK, TxStates
  <1>2. ConnectionsHeld'
    BY NoneAssumption DEF MaxWaitExceeded, Goto, callbackVars, IInv, TypeOK,
       ConnectionsHeld, InLifecycle, GaveUp
  <1>3. PoolIsClean'
    BY NoneAssumption DEF MaxWaitExceeded, Goto, callbackVars, IInv, TypeOK,
       PoolIsClean, SessionsOwned, ConnectionsHeld, InLifecycle, GaveUp
  <1>4. SessionsOwned'
    BY NoneAssumption DEF MaxWaitExceeded, Goto, callbackVars, IInv, TypeOK,
       PoolIsClean, SessionsOwned, ConnectionsHeld, InLifecycle, GaveUp
  <1>5. OutcomesDecided'
    BY DEF MaxWaitExceeded, Goto, callbackVars, IInv, TypeOK, OutcomesDecided
  <1>6. BoundBodiesEnd'
    BY DEF MaxWaitExceeded, Goto, callbackVars, IInv, TypeOK, BoundBodiesEnd
  <1> QED BY <1>1, <1>2, <1>3, <1>4, <1>5, <1>6 DEF IInv

LEMMA ReleaseAbandonedInv ==
  ASSUME IInv, NEW t \in Txs, ReleaseAbandoned(t) PROVE IInv'
  <1>1. TypeOK'
    BY PoolAssumption DEF ReleaseAbandoned, Goto, PoolTakes, PoolThrows, callbackVars,
       IInv, TypeOK, TxStates
  <1>2. ConnectionsHeld'
    BY NoneAssumption DEF ReleaseAbandoned, Goto, PoolTakes, PoolThrows, callbackVars,
       IInv, TypeOK, ConnectionsHeld, InLifecycle, GaveUp
  <1>3. PoolIsClean'
    BY NoneAssumption DEF ReleaseAbandoned, Goto, PoolTakes, PoolThrows, callbackVars,
       IInv, TypeOK, PoolIsClean, SessionsOwned, ConnectionsHeld, InLifecycle, GaveUp
  <1>4. SessionsOwned'
    BY NoneAssumption DEF ReleaseAbandoned, Goto, PoolTakes, PoolThrows, callbackVars,
       IInv, TypeOK, PoolIsClean, SessionsOwned, ConnectionsHeld, InLifecycle, GaveUp
  <1>5. OutcomesDecided'
    BY DEF ReleaseAbandoned, Goto, PoolTakes, PoolThrows, callbackVars, IInv, TypeOK,
       OutcomesDecided
  <1>6. BoundBodiesEnd'
    BY DEF ReleaseAbandoned, Goto, PoolTakes, PoolThrows, callbackVars, IInv, TypeOK,
       BoundBodiesEnd
  <1> QED BY <1>1, <1>2, <1>3, <1>4, <1>5, <1>6 DEF IInv

LEMMA BeginInv ==
  ASSUME IInv, NEW t \in Txs, Begin(t) PROVE IInv'
  <1>1. TypeOK'
    <2>1. session' \in [Conns -> Txs \cup {None}]
      BY DEF Begin, IInv, TypeOK
    <2>2. tx' \in [Txs -> TxStates] /\ releaseError' \in [Txs -> BOOLEAN]
      BY DEF Begin, Goto, IInv, TypeOK, TxStates
    <2> QED BY <2>1, <2>2 DEF Begin, callbackVars, IInv, TypeOK
  <1>2. ConnectionsHeld'
    BY NoneAssumption DEF Begin, Goto, callbackVars, IInv, TypeOK, ConnectionsHeld,
       InLifecycle, GaveUp
  <1>3. PoolIsClean'
    BY NoneAssumption DEF Begin, Goto, callbackVars, IInv, TypeOK, PoolIsClean,
       SessionsOwned, ConnectionsHeld, InLifecycle, GaveUp
  <1>4. SessionsOwned'
    BY NoneAssumption DEF Begin, Goto, callbackVars, IInv, TypeOK, PoolIsClean,
       SessionsOwned, ConnectionsHeld, InLifecycle, GaveUp
  <1>5. OutcomesDecided'
    BY DEF Begin, Goto, callbackVars, IInv, TypeOK, OutcomesDecided
  <1>6. BoundBodiesEnd'
    BY DEF Begin, Goto, callbackVars, IInv, TypeOK, BoundBodiesEnd
  <1> QED BY <1>1, <1>2, <1>3, <1>4, <1>5, <1>6 DEF IInv

LEMMA IssueInv ==
  ASSUME IInv, NEW t \in Txs, Issue(t) PROVE IInv'
  <1>1. TypeOK'
    BY DEF Issue, IInv, TypeOK
  <1>2. ConnectionsHeld'
    BY NoneAssumption DEF Issue, IInv, TypeOK, ConnectionsHeld, InLifecycle, GaveUp
  <1>3. PoolIsClean'
    BY NoneAssumption DEF Issue, IInv, TypeOK, PoolIsClean, SessionsOwned,
       ConnectionsHeld, InLifecycle, GaveUp
  <1>4. SessionsOwned'
    BY NoneAssumption DEF Issue, IInv, TypeOK, PoolIsClean, SessionsOwned,
       ConnectionsHeld, InLifecycle, GaveUp
  <1>5. OutcomesDecided'
    BY DEF Issue, IInv, TypeOK, OutcomesDecided
  <1>6. BoundBodiesEnd'
    BY DEF Issue, IInv, TypeOK, BoundBodiesEnd
  <1> QED BY <1>1, <1>2, <1>3, <1>4, <1>5, <1>6 DEF IInv

LEMMA AnswerInv ==
  ASSUME IInv, NEW t \in Txs, Answer(t) PROVE IInv'
  <1>1. TypeOK'
    BY DEF Answer, IInv, TypeOK
  <1>2. ConnectionsHeld'
    BY NoneAssumption DEF Answer, IInv, TypeOK, ConnectionsHeld, InLifecycle, GaveUp
  <1>3. PoolIsClean'
    BY NoneAssumption DEF Answer, IInv, TypeOK, PoolIsClean, SessionsOwned,
       ConnectionsHeld, InLifecycle, GaveUp
  <1>4. SessionsOwned'
    BY NoneAssumption DEF Answer, IInv, TypeOK, PoolIsClean, SessionsOwned,
       ConnectionsHeld, InLifecycle, GaveUp
  <1>5. OutcomesDecided'
    BY DEF Answer, IInv, TypeOK, OutcomesDecided
  <1>6. BoundBodiesEnd'
    BY DEF Answer, IInv, TypeOK, BoundBodiesEnd
  <1> QED BY <1>1, <1>2, <1>3, <1>4, <1>5, <1>6 DEF IInv

LEMMA BodyEndsInv ==
  ASSUME IInv, NEW t \in Txs, BodyEnds(t) PROVE IInv'
  <1>1. TypeOK'
    BY DEF BodyEnds, Goto, IInv, TypeOK, TxStates
  <1>2. ConnectionsHeld'
    BY NoneAssumption DEF BodyEnds, Goto, IInv, TypeOK, ConnectionsHeld, InLifecycle,
       GaveUp
  <1>3. PoolIsClean'
    BY NoneAssumption DEF BodyEnds, Goto, IInv, TypeOK, PoolIsClean, SessionsOwned,
       ConnectionsHeld, InLifecycle, GaveUp
  <1>4. SessionsOwned'
    BY NoneAssumption DEF BodyEnds, Goto, IInv, TypeOK, PoolIsClean, SessionsOwned,
       ConnectionsHeld, InLifecycle, GaveUp
  <1>5. OutcomesDecided'
    BY DEF BodyEnds, Goto, IInv, TypeOK, OutcomesDecided
  <1>6. BoundBodiesEnd'
    BY DEF BodyEnds, Goto, IInv, TypeOK, BoundBodiesEnd
  <1> QED BY <1>1, <1>2, <1>3, <1>4, <1>5, <1>6 DEF IInv

LEMMA TimeoutInv ==
  ASSUME IInv, NEW t \in Txs, Timeout(t) PROVE IInv'
  <1>1. TypeOK'
    BY DEF Timeout, Goto, IInv, TypeOK, TxStates
  <1>2. ConnectionsHeld'
    BY NoneAssumption DEF Timeout, Goto, IInv, TypeOK, ConnectionsHeld, InLifecycle,
       GaveUp
  <1>3. PoolIsClean'
    BY NoneAssumption DEF Timeout, Goto, IInv, TypeOK, PoolIsClean, SessionsOwned,
       ConnectionsHeld, InLifecycle, GaveUp
  <1>4. SessionsOwned'
    BY NoneAssumption DEF Timeout, Goto, IInv, TypeOK, PoolIsClean, SessionsOwned,
       ConnectionsHeld, InLifecycle, GaveUp
  <1>5. OutcomesDecided'
    BY DEF Timeout, Goto, IInv, TypeOK, OutcomesDecided
  <1>6. BoundBodiesEnd'
    BY DEF Timeout, Goto, IInv, TypeOK, BoundBodiesEnd
  <1> QED BY <1>1, <1>2, <1>3, <1>4, <1>5, <1>6 DEF IInv

LEMMA OrphanEndsInv ==
  ASSUME IInv, NEW t \in Txs, OrphanEnds(t) PROVE IInv'
  <1>1. TypeOK'
    BY DEF OrphanEnds, IInv, TypeOK
  <1>2. ConnectionsHeld'
    BY NoneAssumption DEF OrphanEnds, IInv, TypeOK, ConnectionsHeld, InLifecycle, GaveUp
  <1>3. PoolIsClean'
    BY NoneAssumption DEF OrphanEnds, IInv, TypeOK, PoolIsClean, SessionsOwned,
       ConnectionsHeld, InLifecycle, GaveUp
  <1>4. SessionsOwned'
    BY NoneAssumption DEF OrphanEnds, IInv, TypeOK, PoolIsClean, SessionsOwned,
       ConnectionsHeld, InLifecycle, GaveUp
  <1>5. OutcomesDecided'
    BY DEF OrphanEnds, IInv, TypeOK, OutcomesDecided
  <1>6. BoundBodiesEnd'
    BY DEF OrphanEnds, IInv, TypeOK, BoundBodiesEnd
  <1> QED BY <1>1, <1>2, <1>3, <1>4, <1>5, <1>6 DEF IInv

LEMMA DrainedInv ==
  ASSUME IInv, NEW t \in Txs, Drained(t) PROVE IInv'
  <1>1. TypeOK'
    BY DEF Drained, Goto, callbackVars, IInv, TypeOK, TxStates, OutcomesDecided
  <1>2. ConnectionsHeld'
    BY NoneAssumption DEF Drained, Goto, callbackVars, IInv, TypeOK, ConnectionsHeld,
       InLifecycle, GaveUp, OutcomesDecided
  <1>3. PoolIsClean'
    BY NoneAssumption DEF Drained, Goto, callbackVars, IInv, TypeOK, PoolIsClean,
       SessionsOwned, ConnectionsHeld, InLifecycle, GaveUp
  <1>4. SessionsOwned'
    BY NoneAssumption DEF Drained, Goto, callbackVars, IInv, TypeOK, PoolIsClean,
       SessionsOwned, ConnectionsHeld, InLifecycle, GaveUp
  <1>5. OutcomesDecided'
    BY DEF Drained, Goto, callbackVars, IInv, TypeOK, OutcomesDecided
  <1>6. BoundBodiesEnd'
    BY DEF Drained, Goto, callbackVars, IInv, TypeOK, BoundBodiesEnd
  <1> QED BY <1>1, <1>2, <1>3, <1>4, <1>5, <1>6 DEF IInv

LEMMA CommitInv ==
  ASSUME IInv, NEW t \in Txs, Commit(t) PROVE IInv'
  <1>1. TypeOK'
    BY DEF Commit, Goto, IInv, TypeOK, TxStates
  <1>2. ConnectionsHeld'
    BY NoneAssumption DEF Commit, Goto, IInv, TypeOK, ConnectionsHeld, InLifecycle,
       GaveUp
  <1>3. PoolIsClean'
    BY NoneAssumption DEF Commit, Goto, IInv, TypeOK, PoolIsClean, SessionsOwned,
       ConnectionsHeld, InLifecycle, GaveUp
  <1>4. SessionsOwned'
    BY NoneAssumption DEF Commit, Goto, IInv, TypeOK, PoolIsClean, SessionsOwned,
       ConnectionsHeld, InLifecycle, GaveUp
  <1>5. OutcomesDecided'
    BY DEF Commit, Goto, IInv, TypeOK, OutcomesDecided
  <1>6. BoundBodiesEnd'
    BY DEF Commit, Goto, IInv, TypeOK, BoundBodiesEnd
  <1> QED BY <1>1, <1>2, <1>3, <1>4, <1>5, <1>6 DEF IInv

LEMMA RollbackInv ==
  ASSUME IInv, NEW t \in Txs, Rollback(t) PROVE IInv'
  <1>1. TypeOK'
    <2>1. conn[t] \in Conns
      BY DEF Rollback, IInv, TypeOK, ConnectionsHeld, InLifecycle
    <2>2. session' \in [Conns -> Txs \cup {None}]
      BY <2>1 DEF Rollback, IInv, TypeOK
    <2>3. tx' \in [Txs -> TxStates] /\ releaseError' \in [Txs -> BOOLEAN]
      BY DEF Rollback, Goto, IInv, TypeOK, TxStates
    <2> QED BY <2>2, <2>3 DEF Rollback, callbackVars, IInv, TypeOK
  <1>2. ConnectionsHeld'
    BY NoneAssumption DEF Rollback, Goto, callbackVars, IInv, TypeOK, ConnectionsHeld,
       InLifecycle, GaveUp
  <1>3. PoolIsClean'
    BY NoneAssumption DEF Rollback, Goto, callbackVars, IInv, TypeOK, PoolIsClean,
       SessionsOwned, ConnectionsHeld, InLifecycle, GaveUp
  <1>4. SessionsOwned'
    BY NoneAssumption DEF Rollback, Goto, callbackVars, IInv, TypeOK, PoolIsClean,
       SessionsOwned, ConnectionsHeld, InLifecycle, GaveUp
  <1>5. OutcomesDecided'
    BY DEF Rollback, Goto, callbackVars, IInv, TypeOK, OutcomesDecided
  <1>6. BoundBodiesEnd'
    BY DEF Rollback, Goto, callbackVars, IInv, TypeOK, BoundBodiesEnd
  <1> QED BY <1>1, <1>2, <1>3, <1>4, <1>5, <1>6 DEF IInv

LEMMA CloseInv ==
  ASSUME IInv, NEW t \in Txs, Close(t) PROVE IInv'
  <1>1. TypeOK'
    <2>1. conn[t] \in Conns
      BY DEF Close, IInv, TypeOK, ConnectionsHeld, InLifecycle
    <2>2. /\ pool' \in [Conns -> {"absent", "idle", "out"}]
          /\ session' \in [Conns -> Txs \cup {None}]
          /\ conn' \in [Txs -> Conns \cup {None}]
      BY <2>1 DEF Close, PoolTakes, PoolThrows, IInv, TypeOK
    <2>3. tx' \in [Txs -> TxStates] /\ poisoned' \in BOOLEAN
      BY DEF Close, Goto, IInv, TypeOK, TxStates
    <2>4. throws' \in 0..MaxThrows
      BY PoolAssumption DEF Close, PoolTakes, PoolThrows, IInv, TypeOK
    <2> QED BY <2>2, <2>3, <2>4 DEF Close, callbackVars, IInv, TypeOK
  <1>2. ConnectionsHeld'
    BY NoneAssumption DEF Close, Goto, PoolTakes, PoolThrows, callbackVars, IInv,
       TypeOK, ConnectionsHeld, InLifecycle, GaveUp
  <1>3. PoolIsClean'
    BY NoneAssumption DEF Close, Goto, PoolTakes, PoolThrows, callbackVars, IInv,
       TypeOK, PoolIsClean, SessionsOwned, ConnectionsHeld, InLifecycle, GaveUp
  <1>4. SessionsOwned'
    <2>1. CASE PoolThrows
      BY <2>1 DEF Close, Goto, PoolThrows, PoolTakes, IInv, TypeOK, SessionsOwned,
                  ConnectionsHeld, InLifecycle, GaveUp
    <2> DEFINE mark == IF releaseError[t] THEN "absent" ELSE "idle"
    <2>2. CASE PoolTakes(t, mark)
      <3>1. \A c \in Conns : session'[c] = IF c = conn[t] THEN None ELSE session[c]
        BY <2>2 DEF Close, PoolTakes, IInv, TypeOK, SessionsOwned
      <3>2. \A u \in Txs : conn'[u] = IF u = t THEN None ELSE conn[u]
        BY <2>2 DEF PoolTakes, IInv, TypeOK
      <3>3. /\ \A u \in Txs \ {t} : tx'[u] = tx[u]
            /\ tx'[t] \in {"ok", "failed"}
            /\ UNCHANGED releaseError
        BY <2>2 DEF Close, Goto, IInv, TypeOK
      <3> QED BY <3>1, <3>2, <3>3, NoneAssumption
              DEF Close, IInv, TypeOK, SessionsOwned, ConnectionsHeld, InLifecycle, GaveUp
    <2> QED BY <2>1, <2>2 DEF Close
  <1>5. OutcomesDecided'
    BY DEF Close, Goto, PoolTakes, PoolThrows, callbackVars, IInv, TypeOK,
       OutcomesDecided
  <1>6. BoundBodiesEnd'
    BY DEF Close, Goto, PoolTakes, PoolThrows, callbackVars, IInv, TypeOK,
       BoundBodiesEnd
  <1> QED BY <1>1, <1>2, <1>3, <1>4, <1>5, <1>6 DEF IInv

-----------------------------------------------------------------------------

LEMMA StepInv == IInv /\ [Next]_vars => IInv'
  <1> SUFFICES ASSUME IInv, [Next]_vars PROVE IInv'
    OBVIOUS
  <1>1. CASE UNCHANGED vars
    BY <1>1 DEF vars, IInv, TypeOK, ConnectionsHeld, PoolIsClean, SessionsOwned,
                OutcomesDecided, BoundBodiesEnd
  <1>2. CASE Next
    <2> PICK t \in Txs : \/ Start(t) \/ Grant(t) \/ GrantFails(t) \/ MaxWaitExceeded(t)
                         \/ Issue(t) \/ Answer(t) \/ Callback(t) \/ Lifecycle(t)
      BY <1>2 DEF Next
    <2>1. CASE Start(t) \/ Grant(t) \/ GrantFails(t) \/ MaxWaitExceeded(t)
      BY <2>1, StartInv, GrantInv, GrantFailsInv, MaxWaitExceededInv
    <2>2. CASE Issue(t) \/ Answer(t)
      BY <2>2, IssueInv, AnswerInv
    <2>3. CASE Callback(t)
      BY <2>3, BodyEndsInv, TimeoutInv, OrphanEndsInv DEF Callback
    <2>4. CASE Lifecycle(t)
      BY <2>4, BeginInv, DrainedInv, CommitInv, RollbackInv, CloseInv,
         ReleaseAbandonedInv DEF Lifecycle
    <2> QED BY <2>1, <2>2, <2>3, <2>4
  <1> QED BY <1>1, <1>2

\* The inductive invariant of the pooled transactions, for all of them.
THEOREM InvariantHolds == Spec => []IInv
  BY InitInv, StepInv, PTL DEF Spec

\* However grants, expiries and failures meet, a connection that is out of the pool
\* has one holder, who will give it back or whose failure to do so was noticed.
THEOREM NoConnectionIsLost == Spec => []NoConnectionLost
  <1>1. IInv => NoConnectionLost
    <2> SUFFICES ASSUME IInv, NEW c \in Conns, pool[c] = "out"
                 PROVE  \E t \in Txs : /\ conn[t] = c
                                       /\ \A u \in Txs \ {t} : conn[u] # c
                                       /\ tx[t] \in InLifecycle \cup GaveUp \/ poisoned
      BY DEF NoConnectionLost
    <2>1. PICK t \in Txs : conn[t] = c
      BY DEF IInv, ConnectionsHeld
    <2>2. c # None
      BY NoneAssumption
    <2> QED BY <2>1, <2>2 DEF IInv, ConnectionsHeld
  <1> QED BY <1>1, InvariantHolds, PTL

\* release hands the pool no connection on which a transaction is still open.
THEOREM PoolStaysClean == Spec => []PoolIsClean
  <1>1. IInv => PoolIsClean
    BY DEF IInv
  <1> QED BY <1>1, InvariantHolds, PTL

\* Draining the scope of a bound transaction before COMMIT or ROLLBACK is enough:
\* its callback has no statement outside it, timed out or not.
THEOREM BoundBodiesAreDrained == Spec => []BodyDrained
  <1>1. IInv => BodyDrained
    <2> SUFFICES ASSUME IInv, NEW t \in Txs \ Raw, statement[t]
                 PROVE  conn[t] # None /\ session[conn[t]] = t
      BY DEF BodyDrained, InItsTransaction
    <2>1. tx[t] \in {"body", "draining"}
      BY DEF IInv, BoundBodiesEnd
    <2> QED BY <2>1 DEF IInv, ConnectionsHeld, SessionsOwned, InLifecycle
  <1> QED BY <1>1, InvariantHolds, PTL

\* transaction() returns a value only after a COMMIT that succeeded.
THEOREM SuccessHolds == Spec => []SuccessIsDurable
  <1>1. IInv => SuccessIsDurable
    BY DEF IInv, OutcomesDecided, SuccessIsDurable
  <1> QED BY <1>1, InvariantHolds, PTL

LEMMA GivenUpStays ==
  ASSUME IInv, [Next]_vars, NEW t \in Txs, tx[t] \in GaveUp
  PROVE  tx'[t] \in GaveUp
  <1>1. CASE UNCHANGED vars
    BY <1>1 DEF vars
  <1>2. ASSUME NEW u \in Txs,
               \/ Start(u) \/ Grant(u) \/ GrantFails(u) \/ MaxWaitExceeded(u)
               \/ Issue(u) \/ Answer(u)
        PROVE  tx'[t] \in GaveUp
    BY <1>2 DEF Start, Grant, GrantFails, MaxWaitExceeded, Issue, Answer, Goto, GaveUp,
                IInv, TypeOK
  <1>3. ASSUME NEW u \in Txs, Callback(u) PROVE tx'[t] \in GaveUp
    BY <1>3 DEF Callback, BodyEnds, Timeout, OrphanEnds, Goto, GaveUp, IInv, TypeOK
  <1>4. ASSUME NEW u \in Txs, Lifecycle(u) PROVE tx'[t] \in GaveUp
    BY <1>4 DEF Lifecycle, Begin, Drained, Commit, Rollback, Close, ReleaseAbandoned,
                Goto, GaveUp, IInv, TypeOK
  <1> QED BY <1>1, <1>2, <1>3, <1>4 DEF Next

\* A caller whose maxWait ran out never has a transaction begin behind its back.
THEOREM ExpiryHolds == Spec => ExpiredNeverRuns
  <1> DEFINE Stays == \A t \in Txs : tx[t] \in GaveUp => /\ tx'[t] \in GaveUp
                                                         /\ \A c \in Conns : session'[c] # t
  <1>1. ASSUME IInv, [Next]_vars PROVE [Stays]_vars
    <2> SUFFICES ASSUME NEW t \in Txs, tx[t] \in GaveUp, NEW c \in Conns
                 PROVE  tx'[t] \in GaveUp /\ session'[c] # t
      BY <1>1, GivenUpStays
    <2>i. IInv'
      BY <1>1, StepInv
    <2>1. tx'[t] \in GaveUp
      BY <1>1, GivenUpStays
    <2>2. t # None
      BY NoneAssumption
    <2>3. session'[c] = t => c = conn'[t] /\ conn'[t] # None
      BY <2>i, <2>2, NoneAssumption DEF IInv, SessionsOwned
    <2>4. conn'[t] # None => session'[conn'[t]] = None
      BY <2>i, <2>1 DEF IInv, SessionsOwned
    <2> QED BY <2>1, <2>2, <2>3, <2>4
  <1> QED BY <1>1, InvariantHolds, PTL DEF Spec, ExpiredNeverRuns
-----------------------------------------------------------------------------
(***************************************************************************)
(* A transaction that the provider runs.                                   *)
(***************************************************************************)

LEMMA ProviderInitInv == ProviderInit => ProviderInv
  <1> SUFFICES ASSUME ProviderInit PROVE ProviderInv
    OBVIOUS
  <1>1. ProviderTypeOK
    BY DEF ProviderInit, ProviderTypeOK, Failures
  <1>2. OutcomesAgree /\ ClosedEarly
    BY DEF ProviderInit, OutcomesAgree, ClosedEarly
  <1>3. AllCollected /\ SuccessIsCommitted /\ UncertainClientIsGone /\ NoFailureLost
    BY DEF ProviderInit, AllCollected, SuccessIsCommitted, UncertainClientIsGone,
        NoFailureLost
  <1> QED BY <1>1, <1>2, <1>3 DEF ProviderInv

-----------------------------------------------------------------------------

\* What is reported are failures, and the first of them is one.
LEMMA ReportedType == Reported \subseteq Failures /\ Primary(Reported) \in Failures
  BY DEF Reported, Contract, Primary, Failures

\* The contract as the disjunction of its clauses.
LEMMA ContractMembers ==
  /\ "early" \in Contract <=> early
  /\ "count" \in Contract <=> provider = "resolved" /\ invoked # 1
  /\ "resolvedAnyway" \in Contract <=> provider = "resolved" /\ callback = "rejected"
  /\ Contract \subseteq {"early", "count", "resolvedAnyway"}
  BY DEF Contract

\* A failure of the callback that the provider did not pass on as it was is never
\* the only one.
LEMMA ReportedBeside ==
  ASSUME ProviderInv, main \in {"judging", "cleaning"}, callback = "rejected", ~Rethrown
  PROVE  Reported \ {"callback"} # {}
  <1>1. CASE provider = "resolved"
    BY <1>1, ContractMembers DEF Reported
  <1>2. CASE provider = "rejected"
    BY <1>2 DEF Reported
  <1> QED BY <1>1, <1>2 DEF ProviderInv, ProviderTypeOK, OutcomesAgree

\* The provider's failure and an early close are always told, one of them first.
LEMMA ReportedTold ==
  ASSUME ProviderInv
  PROVE  LET all == {Primary(Reported)} \cup (Reported \ {Primary(Reported)})
         IN  /\ error = "other" => "provider" \in all
             /\ close = "failed" => "close" \in all
             /\ early => "early" \in all
  BY ContractMembers DEF Reported, ProviderInv, OutcomesAgree

\* The verdict and the guards of the steps before it.
LEMMA SuccessMeans ==
  ASSUME ProviderInv, main = "judging", Success
  PROVE  invoked = 1 /\ callback = "fulfilled" /\ provider = "resolved" /\ ~early
      /\ close = "none"
  BY ContractMembers DEF Success, ProviderInv, ProviderTypeOK, OutcomesAgree, ClosedEarly

-----------------------------------------------------------------------------

LEMMA InvokeInv == ASSUME ProviderInv, Invoke PROVE ProviderInv'
  <1>1. main = "running"
    BY DEF Invoke, ProviderInv, OutcomesAgree
  <1>2. invoked' \in Nat /\ invoked' # 0
    BY DEF Invoke, ProviderInv, ProviderTypeOK
  <1>3. callback' = "rejected" <=> callback = "rejected"
    BY DEF Invoke, ProviderInv, OutcomesAgree
  <1>4. ProviderTypeOK' /\ OutcomesAgree'
    BY <1>2, <1>3 DEF Invoke, ProviderInv, ProviderTypeOK, OutcomesAgree
  <1>5. ClosedEarly' /\ AllCollected' /\ SuccessIsCommitted'
        /\ UncertainClientIsGone' /\ NoFailureLost'
    BY <1>1 DEF Invoke, ProviderInv, ClosedEarly, AllCollected, SuccessIsCommitted,
                UncertainClientIsGone, NoFailureLost
  <1> QED BY <1>4, <1>5 DEF ProviderInv

LEMMA CallbackSettlesInv == ASSUME ProviderInv, CallbackSettles PROVE ProviderInv'
  <1>1. main \in {"running", "closing", "draining"}
    BY DEF CallbackSettles, ProviderInv, ProviderTypeOK, ClosedEarly
  <1>2. ProviderTypeOK' /\ OutcomesAgree'
    BY DEF CallbackSettles, ProviderInv, ProviderTypeOK, OutcomesAgree
  <1>3. ClosedEarly' /\ AllCollected' /\ SuccessIsCommitted'
        /\ UncertainClientIsGone' /\ NoFailureLost'
    BY <1>1 DEF CallbackSettles, ProviderInv, ClosedEarly, AllCollected, SuccessIsCommitted,
                UncertainClientIsGone, NoFailureLost
  <1> QED BY <1>2, <1>3 DEF ProviderInv

LEMMA ProviderSettlesInv == ASSUME ProviderInv, ProviderSettles PROVE ProviderInv'
  <1>1. main = "running"
    BY DEF ProviderSettles, ProviderInv, OutcomesAgree
  <1>2. ProviderTypeOK' /\ OutcomesAgree'
    BY <1>1 DEF ProviderSettles, ProviderInv, ProviderTypeOK, OutcomesAgree
  <1>3. ClosedEarly'
    BY <1>1 DEF ProviderSettles, ProviderInv, ProviderTypeOK, ClosedEarly
  <1>4. AllCollected' /\ SuccessIsCommitted' /\ UncertainClientIsGone' /\ NoFailureLost'
    BY <1>1 DEF ProviderSettles, AllCollected, SuccessIsCommitted,
        UncertainClientIsGone,
                NoFailureLost
  <1> QED BY <1>2, <1>3, <1>4 DEF ProviderInv

LEMMA CloseFirstInv == ASSUME ProviderInv, CloseFirst PROVE ProviderInv'
  BY DEF CloseFirst, ProviderInv, ProviderTypeOK, OutcomesAgree, ClosedEarly,
         AllCollected, SuccessIsCommitted, UncertainClientIsGone, NoFailureLost

LEMMA ProviderDrainedInv == ASSUME ProviderInv, CallbackDrained PROVE ProviderInv'
  BY DEF CallbackDrained, ProviderInv, ProviderTypeOK, OutcomesAgree, ClosedEarly,
         AllCollected, SuccessIsCommitted, UncertainClientIsGone, NoFailureLost

LEMMA JudgeInv == ASSUME ProviderInv, Judge PROVE ProviderInv'
  <1> USE DEF Judge
  <1>1. OutcomesAgree'
    BY DEF ProviderInv, OutcomesAgree
  <1>2. Reported' = Reported /\ Primary(Reported)' = Primary(Reported)
        /\ (Success' <=> Success) /\ (Rethrown' <=> Rethrown)
    BY DEF Reported, Contract, Primary, Success, Rethrown
  <1>3. CASE Success
    <2>1. main' = "ok" /\ thrown' = thrown /\ ~driverPoisoned'
      BY <1>3
    <2>2. ProviderTypeOK'
      BY <2>1 DEF ProviderInv, ProviderTypeOK
    <2>3. ClosedEarly' /\ AllCollected' /\ SuccessIsCommitted'
      BY <2>1, <1>3, SuccessMeans DEF ProviderInv, ClosedEarly, AllCollected,
          SuccessIsCommitted
    <2>4. UncertainClientIsGone' /\ NoFailureLost'
      BY <2>1 DEF UncertainClientIsGone, NoFailureLost
    <2> QED BY <1>1, <2>2, <2>3, <2>4 DEF ProviderInv
  <1>4. CASE ~Success /\ Rethrown
    <2>1. /\ main' = "failed" /\ thrown' = [primary |-> "callback", others |-> {}]
          /\ driverPoisoned' = (failure # "body")
      BY <1>4
    <2>2. callback = "rejected" /\ ~early /\ error = "callback" /\ close = "none"
      BY <1>4 DEF Rethrown, ProviderInv, ClosedEarly
    <2>3. ProviderTypeOK'
      BY <2>1 DEF ProviderInv, ProviderTypeOK, Failures
    <2>4. ClosedEarly' /\ AllCollected' /\ SuccessIsCommitted'
      BY <2>1, <2>2 DEF ProviderInv, ClosedEarly, AllCollected, SuccessIsCommitted
    <2>5. UncertainClientIsGone'
      BY <1>2, <1>4, <2>2 DEF UncertainClientIsGone
    <2>6. NoFailureLost'
      BY <2>1, <2>2 DEF NoFailureLost
    <2> QED BY <1>1, <2>3, <2>4, <2>5, <2>6 DEF ProviderInv
  <1>5. CASE ~Success /\ ~Rethrown
    <2>1. /\ main' = "cleaning" /\ ~driverPoisoned'
          /\ thrown' = [primary |-> Primary(Reported),
                others |-> Reported \ {Primary(Reported)}]
      BY <1>5
    <2>2. ProviderTypeOK'
      BY <2>1, ReportedType DEF ProviderInv, ProviderTypeOK
    <2>3. ClosedEarly' /\ AllCollected'
      BY <1>2, <1>5, <2>1 DEF ProviderInv, ClosedEarly, AllCollected
    <2>4. SuccessIsCommitted' /\ UncertainClientIsGone' /\ NoFailureLost'
      BY <2>1 DEF SuccessIsCommitted, UncertainClientIsGone, NoFailureLost
    <2> QED BY <1>1, <2>2, <2>3, <2>4 DEF ProviderInv
  <1> QED BY <1>3, <1>4, <1>5

LEMMA CleanInv == ASSUME ProviderInv, Clean PROVE ProviderInv'
  <1>1. /\ main = "cleaning" /\ main' = "failed" /\ ~Rethrown /\ callback # "pending"
        /\ thrown.primary = Primary(Reported)
              /\ thrown.others = Reported \ {Primary(Reported)}
    BY DEF Clean, ProviderInv, AllCollected, ClosedEarly
  <1>2. close' \in {"closed", "failed"} /\ (close = "failed" => close' = "failed")
    BY DEF Clean, ProviderInv, ProviderTypeOK
  <1> DEFINE more == thrown.others \cup (IF close' = "failed" THEN {"close"} ELSE {})
  <1>3. thrown' = [primary |-> thrown.primary, others |-> more]
    BY DEF Clean, ProviderInv, ProviderTypeOK
  <1>4. thrown'.primary = Primary(Reported) /\ thrown'.others = more
    BY <1>1, <1>3
  <1>5. ProviderTypeOK'
    BY <1>2, <1>3 DEF Clean, ProviderInv, ProviderTypeOK, Failures
  <1>6. OutcomesAgree' /\ ClosedEarly' /\ AllCollected' /\ SuccessIsCommitted'
    BY <1>1 DEF Clean, ProviderInv, OutcomesAgree, ClosedEarly, AllCollected,
        SuccessIsCommitted
  <1>7. UncertainClientIsGone'
    <2>1. ~Rethrown'
      BY <1>1 DEF Clean, Rethrown
    <2>2. CASE failure = "body"
      <3>1. callback = "rejected"
        BY <2>2 DEF ProviderInv, OutcomesAgree
      <3>2. Primary(Reported) = "callback"
        BY <3>1 DEF Primary
      <3>3. thrown'.others # {}
        BY <1>1, <1>4, <3>1, <3>2, ReportedBeside
      <3> QED BY <1>2, <2>1, <3>3 DEF Clean, UncertainClientIsGone
    <2>3. CASE failure # "body"
      BY <1>2, <2>1, <2>3 DEF Clean, UncertainClientIsGone
    <2> QED BY <2>2, <2>3
  <1>8. NoFailureLost'
    <2>1. callback' = callback /\ error' = error /\ early' = early
      BY DEF Clean
    <2>2. callback = "rejected" => thrown'.primary = "callback"
      BY <1>4 DEF Primary
    <2> QED BY <1>1, <1>4, <2>1, <2>2, ReportedTold DEF NoFailureLost
  <1> QED BY <1>5, <1>6, <1>7, <1>8 DEF ProviderInv

LEMMA ProviderStepInv == ASSUME ProviderInv, [ProviderNext]_providerVars PROVE ProviderInv'
  <1>1. CASE Invoke           BY <1>1, InvokeInv
  <1>2. CASE CallbackSettles  BY <1>2, CallbackSettlesInv
  <1>3. CASE ProviderSettles  BY <1>3, ProviderSettlesInv
  <1>4. CASE CloseFirst       BY <1>4, CloseFirstInv
  <1>5. CASE CallbackDrained          BY <1>5, ProviderDrainedInv
  <1>6. CASE Judge            BY <1>6, JudgeInv
  <1>7. CASE Clean            BY <1>7, CleanInv
  <1>8. CASE UNCHANGED providerVars
    BY <1>8 DEF providerVars, ProviderInv, ProviderTypeOK, OutcomesAgree, ClosedEarly, AllCollected,
       SuccessIsCommitted, UncertainClientIsGone, NoFailureLost, Rethrown, Success,
       Reported, Contract, Primary
  <1> QED BY <1>1, <1>2, <1>3, <1>4, <1>5, <1>6, <1>7, <1>8 DEF ProviderNext, Wrapper

\* The invariant behind the three theorems below, on every reachable state
\* (runProviderManagedTransaction with runTransaction's handling of its outcome).
THEOREM ProviderSafety == ProviderSpec => []ProviderInv
  <1>1. ProviderInit => ProviderInv
    BY ProviderInitInv
  <1>2. ProviderInv /\ [ProviderNext]_providerVars => ProviderInv'
    BY ProviderStepInv
  <1> QED BY <1>1, <1>2, PTL DEF ProviderSpec

\* Success is reported only for one call of the callback that succeeded before the
\* provider had committed (the contract errors of runProviderManagedTransaction).
THEOREM SuccessCommitted == ProviderSpec => []SuccessIsCommitted
  <1>1. ProviderInv => SuccessIsCommitted
    BY DEF ProviderInv
  <1> QED BY <1>1, ProviderSafety, PTL

\* A client in doubt is closed and its driver poisoned, and no other client is
\* (lifecycle.close, transactionCleanupFailed).
THEOREM UncertainGone == ProviderSpec => []UncertainClientIsGone
  <1>1. ProviderInv => UncertainClientIsGone
    BY DEF ProviderInv
  <1> QED BY <1>1, ProviderSafety, PTL

\* Whatever failed is in the error the caller gets, the callback's failure first
\* (throwAfterCleanup).
THEOREM FailuresTold == ProviderSpec => []NoFailureLost
  <1>1. ProviderInv => NoFailureLost
    BY DEF ProviderInv
  <1> QED BY <1>1, ProviderSafety, PTL
=============================================================================
