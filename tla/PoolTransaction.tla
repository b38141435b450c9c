--------------------------- MODULE PoolTransaction ---------------------------
(***************************************************************************)
(* Interactive transactions of the drivers that check a connection out of  *)
(* a pool: transaction() of src/src/drivers/pg/index.ts (mysql2 does the   *)
(* same with destroy for release(error)), acquireWithMaxWait and           *)
(* runWithTransactionTimeout of shared/transaction-options.ts, and         *)
(* runTransactionLifecycle of shared/transactions.ts.                      *)
(*                                                                         *)
(* The pool and the server are external.  A bound transaction is one made  *)
(* by withTransaction: its callback ends by closing its scope and draining *)
(* it (TransactionScope.tla).  A raw one is made by calling _transaction,  *)
(* whose callback gets the connection itself; its callback awaits what it  *)
(* issues, so only a timeout can leave it running.                         *)
(***************************************************************************)
EXTENDS Naturals

CONSTANTS Txs,       \* the transactions user code may start, each once
          MaxWaited, \* those with a maxWait
          Timed,     \* those with a timeout
          Raw,       \* those started by _transaction
          Conns,     \* the connections the pool may have
          MaxThrows  \* bound on the times the pool's release throws

ASSUME PoolAssumption == /\ MaxWaited \subseteq Txs
                         /\ Timed \subseteq Txs
                         /\ Raw \subseteq Txs
                         /\ MaxThrows \in Nat

None == "none"
ASSUME NoneAssumption == None \notin Txs \cup Conns

VARIABLES
  tx,          \* each transaction
  conn,        \* the connection it has
  awaited,     \* pool.connect() has not been answered
  verdict,     \* how the callback ended
  orphan,      \* the callback of a timed-out transaction is still running
  statement,   \* a statement of the callback is under way
  releaseError,\* a lifecycle statement failed (shouldDestroy)
  pool,        \* each connection as the pool sees it
  session,     \* the transaction open on each connection's session
  durable,     \* the transactions the server committed
  poisoned,    \* transactionPoisonError is set
  throws       \* how often a release has thrown

vars == <<tx, conn, awaited, verdict, orphan, statement, releaseError, pool,
          session, durable, poisoned, throws>>

\* "stuck": expired, and the pool would not take the late connection back.
TxStates == {"idle", "acquiring", "expired", "stuck", "begin", "body", "draining",
             "commit", "rollback", "close", "ok", "failed"}

\* Every variable keeps to its type.
TypeOK ==
  /\ tx \in [Txs -> TxStates]
  /\ conn \in [Txs -> Conns \cup {None}]
  /\ awaited \in [Txs -> BOOLEAN]
  /\ verdict \in [Txs -> {"none", "commit", "rollback"}]
  /\ orphan \in [Txs -> BOOLEAN]
  /\ statement \in [Txs -> BOOLEAN]
  /\ releaseError \in [Txs -> BOOLEAN]
  /\ pool \in [Conns -> {"absent", "idle", "out"}]
  /\ session \in [Conns -> Txs \cup {None}]
  /\ durable \in SUBSET Txs
  /\ poisoned \in BOOLEAN
  /\ throws \in 0..MaxThrows

Init ==
  /\ tx = [t \in Txs |-> "idle"]
  /\ conn = [t \in Txs |-> None]
  /\ awaited = [t \in Txs |-> FALSE]
  /\ verdict = [t \in Txs |-> "none"]
  /\ orphan = [t \in Txs |-> FALSE]
  /\ statement = [t \in Txs |-> FALSE]
  /\ releaseError = [t \in Txs |-> FALSE]
  /\ pool = [c \in Conns |-> "absent"]
  /\ session = [c \in Conns |-> None]
  /\ durable = {}
  /\ poisoned = FALSE
  /\ throws = 0

GaveUp == {"expired", "stuck"}
Settled == GaveUp \cup {"ok", "failed"}
callbackVars == <<verdict, orphan, statement>>

Goto(t, state) == tx' = [tx EXCEPT ![t] = state]

-----------------------------------------------------------------------------
(* acquireWithMaxWait.                                                     *)

\* getClient, and then pool.connect().
Start(t) ==
  /\ tx[t] = "idle"
  /\ Goto(t, IF poisoned THEN "failed" ELSE "acquiring")
  /\ awaited' = [awaited EXCEPT ![t] = ~poisoned]
  /\ UNCHANGED <<conn, callbackVars, releaseError, pool, session, durable, poisoned, throws>>

\* A connection the pool may hand out: an idle one, or one it opens for this.
CheckOut(t, c) ==
  /\ pool[c] # "out"
  /\ pool' = [pool EXCEPT ![c] = "out"]
  /\ conn' = [conn EXCEPT ![t] = c]
  /\ awaited' = [awaited EXCEPT ![t] = FALSE]

\* The pool answers; what a transaction no longer waits for is released below.
Grant(t) ==
  /\ awaited[t]
  /\ \E c \in Conns : CheckOut(t, c)
  /\ IF tx[t] = "acquiring" THEN Goto(t, "begin") ELSE UNCHANGED tx
  /\ UNCHANGED <<callbackVars, releaseError, session, durable, poisoned, throws>>

\* The pool cannot connect.
GrantFails(t) ==
  /\ awaited[t]
  /\ awaited' = [awaited EXCEPT ![t] = FALSE]
  /\ IF tx[t] = "acquiring" THEN Goto(t, "failed") ELSE UNCHANGED tx
  /\ UNCHANGED <<conn, callbackVars, releaseError, pool, session, durable, poisoned, throws>>

\* maxWait runs out: the caller is rejected, the request to the pool stands.
MaxWaitExceeded(t) ==
  /\ t \in MaxWaited
  /\ tx[t] = "acquiring"
  /\ Goto(t, "expired")
  /\ UNCHANGED <<conn, awaited, callbackVars, releaseError, pool, session, durable,
                 poisoned, throws>>

\* The pool takes t's connection back, clean or to be destroyed; or it throws and
\* the connection stays out.
PoolTakes(t, state) ==
  /\ pool' = [pool EXCEPT ![conn[t]] = state]
  /\ session' = [session EXCEPT ![conn[t]] = IF state = "absent" THEN None ELSE @]
  /\ conn' = [conn EXCEPT ![t] = None]
  /\ UNCHANGED throws
PoolThrows == /\ throws < MaxThrows
              /\ throws' = throws + 1
              /\ UNCHANGED <<pool, session, conn>>

\* Nobody releases a connection that came too late.
ReleaseAbandonedForgotten(t) ==
  /\ tx[t] = "expired" /\ conn[t] # None
  /\ conn' = [conn EXCEPT ![t] = None]
  /\ UNCHANGED <<tx, awaited, callbackVars, releaseError, pool, session, durable,
                 poisoned, throws>>

\* The handler acquireWithMaxWait left on the abandoned acquisition; it ignores a
\* release that throws.
ReleaseAbandoned(t) ==
  /\ tx[t] = "expired" /\ conn[t] # None
  /\ \/ PoolTakes(t, "idle") /\ UNCHANGED tx
     \/ PoolThrows /\ Goto(t, "stuck")
  /\ UNCHANGED <<awaited, callbackVars, releaseError, durable, poisoned>>

-----------------------------------------------------------------------------
(* runTransactionLifecycle.                                                *)

\* BEGIN fails, and nothing closes the transaction.
BeginUnguarded(t) ==
  /\ tx[t] = "begin"
  /\ \/ /\ Goto(t, "body")
        /\ session' = [session EXCEPT ![conn[t]] = t]
        /\ UNCHANGED releaseError
     \/ /\ Goto(t, "failed")
        /\ \E s \in {None, t} : session' = [session EXCEPT ![conn[t]] = s]
        /\ UNCHANGED releaseError
  /\ UNCHANGED <<conn, awaited, callbackVars, pool, durable, poisoned, throws>>

\* BEGIN.  One that reports an error may have opened the transaction.
Begin(t) ==
  /\ tx[t] = "begin"
  /\ \/ /\ Goto(t, "body")
        /\ session' = [session EXCEPT ![conn[t]] = t]
        /\ UNCHANGED releaseError
     \/ /\ Goto(t, "close")
        /\ \E s \in {None, t} : session' = [session EXCEPT ![conn[t]] = s]
        /\ releaseError' = [releaseError EXCEPT ![t] = TRUE]
  /\ UNCHANGED <<conn, awaited, callbackVars, pool, durable, poisoned, throws>>

\* The callback issues a statement on its connection: it can while it runs, and
\* after a timeout too if nothing stands between it and the connection.
Issue(t) ==
  /\ tx[t] = "body" \/ orphan[t]
  /\ ~statement[t]
  /\ statement' = [statement EXCEPT ![t] = TRUE]
  /\ UNCHANGED <<tx, conn, awaited, verdict, orphan, releaseError, pool, session,
                 durable, poisoned, throws>>

Answer(t) ==
  /\ statement[t]
  /\ statement' = [statement EXCEPT ![t] = FALSE]
  /\ UNCHANGED <<tx, conn, awaited, verdict, orphan, releaseError, pool, session,
                 durable, poisoned, throws>>

\* The callback returns or throws; only a bound one may leave a statement behind.
BodyEnds(t) ==
  /\ tx[t] = "body"
  /\ t \in Raw => ~statement[t]
  /\ \E v \in {"commit", "rollback"} : verdict' = [verdict EXCEPT ![t] = v]
  /\ Goto(t, "draining")
  /\ UNCHANGED <<conn, awaited, orphan, statement, releaseError, pool, session,
                 durable, poisoned, throws>>

\* Leaves the scope open: the callback can go on issuing statements.
TimeoutScopeLeftOpen(t) ==
  /\ t \in Timed
  /\ tx[t] = "body"
  /\ verdict' = [verdict EXCEPT ![t] = "rollback"]
  /\ orphan' = [orphan EXCEPT ![t] = TRUE]
  /\ Goto(t, "draining")
  /\ UNCHANGED <<conn, awaited, statement, releaseError, pool, session, durable,
                 poisoned, throws>>

\* runWithTransactionTimeout rejects while the callback runs on.  A bound one is
\* cut off by its closed scope; a raw one is not.
Timeout(t) ==
  /\ t \in Timed
  /\ tx[t] = "body"
  /\ verdict' = [verdict EXCEPT ![t] = "rollback"]
  /\ orphan' = [orphan EXCEPT ![t] = t \in Raw]
  /\ Goto(t, "draining")
  /\ UNCHANGED <<conn, awaited, statement, releaseError, pool, session, durable,
                 poisoned, throws>>

\* The callback of a timed-out raw transaction comes to its end.
OrphanEnds(t) ==
  /\ orphan[t] /\ ~statement[t]
  /\ orphan' = [orphan EXCEPT ![t] = FALSE]
  /\ UNCHANGED <<tx, conn, awaited, verdict, statement, releaseError, pool, session,
                 durable, poisoned, throws>>

\* waitForActiveOperations of the bound scope; a raw transaction goes straight on.
Drained(t) ==
  /\ tx[t] = "draining"
  /\ t \notin Raw => ~statement[t]
  /\ Goto(t, verdict[t])
  /\ UNCHANGED <<conn, awaited, callbackVars, releaseError, pool, session, durable,
                 poisoned, throws>>

\* Keeps the verdict of the callback when COMMIT fails.
CommitErrorDropped(t) ==
  /\ tx[t] = "commit"
  /\ ~statement[t]
  /\ \/ /\ Goto(t, "close")
        /\ durable' = durable \cup {t}
        /\ session' = [session EXCEPT ![conn[t]] = None]
        /\ UNCHANGED releaseError
     \/ /\ Goto(t, "rollback")
        /\ releaseError' = [releaseError EXCEPT ![t] = TRUE]
        /\ UNCHANGED <<durable, session>>
  /\ UNCHANGED <<conn, awaited, verdict, orphan, statement, pool, poisoned, throws>>

\* COMMIT and ROLLBACK are answered after the statements before them.  One that
\* reports an error may have taken effect.
Commit(t) ==
  /\ tx[t] = "commit"
  /\ ~statement[t]
  /\ \/ /\ Goto(t, "close")
        /\ durable' = durable \cup {t}
        /\ session' = [session EXCEPT ![conn[t]] = None]
        /\ UNCHANGED <<verdict, releaseError>>
     \/ /\ Goto(t, "rollback")
        /\ releaseError' = [releaseError EXCEPT ![t] = TRUE]
        /\ verdict' = [verdict EXCEPT ![t] = "rollback"]
        /\ \/ /\ durable' = durable \cup {t}
              /\ session' = [session EXCEPT ![conn[t]] = None]
           \/ UNCHANGED <<durable, session>>
  /\ UNCHANGED <<conn, awaited, orphan, statement, pool, poisoned, throws>>

\* The error of a failed ROLLBACK is reported, and the connection reused.
RollbackUnnoted(t) ==
  /\ tx[t] = "rollback"
  /\ ~statement[t]
  /\ Goto(t, "close")
  /\ \E s \in {None, session[conn[t]]} : session' = [session EXCEPT ![conn[t]] = s]
  /\ UNCHANGED <<conn, awaited, callbackVars, releaseError, pool, durable, poisoned, throws>>

Rollback(t) ==
  /\ tx[t] = "rollback"
  /\ ~statement[t]
  /\ Goto(t, "close")
  /\ \/ /\ session' = [session EXCEPT ![conn[t]] = None]
        /\ UNCHANGED releaseError
     \/ /\ \E s \in {None, session[conn[t]]} : session' = [session EXCEPT ![conn[t]] = s]
        /\ releaseError' = [releaseError EXCEPT ![t] = TRUE]
  /\ UNCHANGED <<conn, awaited, callbackVars, pool, durable, poisoned, throws>>

\* The connection goes back, or is destroyed if its state is in doubt.  If the
\* pool throws, super.transactionCleanupFailed poisons the driver.
Close(t) ==
  /\ tx[t] = "close"
  /\ \/ /\ PoolTakes(t, IF releaseError[t] THEN "absent" ELSE "idle")
        /\ Goto(t, IF verdict[t] = "commit" THEN "ok" ELSE "failed")
        /\ UNCHANGED poisoned
     \/ /\ PoolThrows
        /\ Goto(t, "failed")
        /\ poisoned' = TRUE
  /\ UNCHANGED <<awaited, callbackVars, releaseError, durable>>

Lifecycle(t) == \/ Begin(t) \/ Drained(t) \/ Commit(t) \/ Rollback(t) \/ Close(t)
                \/ ReleaseAbandoned(t)

Callback(t) == BodyEnds(t) \/ Timeout(t) \/ OrphanEnds(t)

Next == \E t \in Txs : \/ Start(t) \/ Grant(t) \/ GrantFails(t) \/ MaxWaitExceeded(t)
                       \/ Issue(t) \/ Answer(t) \/ Callback(t) \/ Lifecycle(t)

Spec == Init /\ [][Next]_vars

\* The pool and each connection serve in order of arrival, so a request, COMMIT or
\* ROLLBACK is not passed over for ever; callbacks end, if they are not cut off.
FairSpec == /\ Spec
            /\ \A t \in Txs : /\ SF_vars(Grant(t) \/ Callback(t) \/ Lifecycle(t))
                              /\ WF_vars(Answer(t))

-----------------------------------------------------------------------------
(* Properties.                                                             *)

InLifecycle == {"begin", "body", "draining", "commit", "rollback", "close"}

\* Every connection out of the pool is in the hands of one transaction that will
\* give it back, or that tried and the pool threw; then the driver is poisoned, or
\* the connection came after maxWait had run out.  None is simply forgotten.
NoConnectionLost ==
  \A c \in Conns : pool[c] = "out" =>
    \E t \in Txs : /\ conn[t] = c
                   /\ \A u \in Txs \ {t} : conn[u] # c
                   /\ tx[t] \in InLifecycle \cup GaveUp \/ poisoned

\* No connection goes back to the pool with a transaction still open on its
\* session: the next user would write into it, or be rolled back with it.
PoolIsClean == \A c \in Conns : pool[c] # "out" => session[c] = None

\* A statement of a callback runs in its transaction, never after the COMMIT or
\* ROLLBACK, where it would be on its own or in somebody else's transaction: what
\* withTransaction closes and drains its scope for.
InItsTransaction(t) == statement[t] => conn[t] # None /\ session[conn[t]] = t
BodyDrained == \A t \in Txs \ Raw : InItsTransaction(t)

\* Success is reported for what is durable, on a connection that is beyond doubt.
SuccessIsDurable == \A t \in Txs : tx[t] = "ok" => t \in durable /\ ~releaseError[t]

\* A caller told that the wait for a connection was too long can be sure that
\* nothing ran and nothing will, however late the connection comes.
ExpiredNeverRuns ==
  [][\A t \in Txs : tx[t] \in GaveUp => /\ tx'[t] \in GaveUp
                                        /\ \A c \in Conns : session'[c] # t]_vars

\* Every transaction is answered, also when the pool is exhausted and when
\* connections are granted to transactions that have given up; the pool is assumed to
\* throw less often than it has connections (MaxThrows).
EveryTransactionSettles == \A t \in Txs : tx[t] = "acquiring" ~> tx[t] \in Settled

-----------------------------------------------------------------------------
(* The inductive invariant.                                                *)

\* Who has a connection, and that one the pool handed out is held by somebody.
ConnectionsHeld ==
  /\ \A t \in Txs : tx[t] \in InLifecycle => conn[t] # None
  /\ \A t \in Txs : tx[t] = "acquiring" => awaited[t]
  /\ \A t \in Txs : awaited[t] => tx[t] \in {"acquiring", "expired"} /\ conn[t] = None
  /\ \A t \in Txs : conn[t] # None => /\ pool[conn[t]] = "out"
                                      /\ poisoned \/ tx[t] \in InLifecycle \cup GaveUp
  /\ \A t, u \in Txs : conn[t] # None /\ conn[t] = conn[u] => t = u
  /\ \A c \in Conns : pool[c] = "out" => \E t \in Txs : conn[t] = c

\* When a session is clean, and that what is open on one belongs to its holder.
SessionsOwned ==
  /\ \A t \in Txs : tx[t] \in {"begin"} \cup GaveUp /\ conn[t] # None => session[conn[t]] = None
  /\ \A t \in Txs : tx[t] = "close" /\ ~releaseError[t] => session[conn[t]] = None
  /\ \A t \in Txs : tx[t] \in {"body", "draining", "commit"} => session[conn[t]] = t
  /\ \A c \in Conns : session[c] # None => conn[session[c]] = c

\* What is known of the outcome at each step of the lifecycle.
OutcomesDecided ==
  \A t \in Txs :
    /\ tx[t] \in {"idle", "acquiring", "begin", "body", "draining", "commit"}
         => ~releaseError[t]
    /\ tx[t] \in {"idle", "acquiring", "begin", "rollback"} => verdict[t] # "commit"
    /\ tx[t] = "draining" => verdict[t] # "none"
    /\ tx[t] = "ok" \/ (tx[t] = "close" /\ verdict[t] = "commit")
         => t \in durable /\ ~releaseError[t]

\* A bound transaction has no statement under way once it is drained.
BoundBodiesEnd ==
  \A t \in Txs \ Raw : ~orphan[t] /\ (statement[t] => tx[t] \in {"body", "draining"})

\* The inductive invariant: connections, sessions, outcomes and statements agree.
IInv == /\ TypeOK /\ ConnectionsHeld /\ PoolIsClean /\ SessionsOwned
        /\ OutcomesDecided /\ BoundBodiesEnd
=============================================================================
