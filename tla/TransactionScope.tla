-------------------------- MODULE TransactionScope --------------------------
(***************************************************************************)
(* One interactive transaction and the nested transactions inside it:      *)
(* TransactionBoundDriver (src/src/drivers/driver.ts) and withTransaction  *)
(* (src/src/drivers/driver-transaction-base.ts) over runSavepoint          *)
(* (src/src/drivers/shared/transactions.ts).                               *)
(*                                                                         *)
(* A scope is the driver one callback receives: the root transaction, or a *)
(* SAVEPOINT inside its parent.  User code holds on to the drivers and may *)
(* call any of them at any time, awaited or not, also after its callback   *)
(* has returned, thrown or been timed out; that is the environment here.   *)
(* Statements reach the provider one at a time, each a step of the model.  *)
(* The scope's queue is used as SerialJobs.tla specifies it: FIFO, one job *)
(* at a time.                                                              *)
(***************************************************************************)
EXTENDS Naturals, Sequences

CONSTANTS Scopes,    \* the root transaction and the nested ones
          Root,
          Parent,    \* the scope each nested one is called on
          Above,     \* the proper ancestors of each scope
          Ops,       \* the statements user code may issue, each once
          ScopeOf    \* the scope whose driver each is issued on

Nested == Scopes \ {Root}

ASSUME TreeAssumption ==
  /\ Root \in Scopes
  /\ Parent \in [Nested -> Scopes]
  /\ Above \in [Scopes -> SUBSET Scopes]
  /\ Above[Root] = {}
  /\ \A n \in Nested : Above[n] = Above[Parent[n]] \cup {Parent[n]}
  /\ \A s \in Scopes : s \notin Above[s]
  /\ \A s \in Scopes : \A a \in Above[s] :
        \E c \in (Above[s] \cup {s}) \cap Nested : Parent[c] = a
  /\ \A n \in Nested : Root \in Above[n]
  /\ \A s \in Scopes : \A a \in Above[s] : Above[a] \subseteq Above[s]
  /\ \A s \in Scopes : \A a, b \in Above[s] : a = b \/ a \in Above[b] \/ b \in Above[a]
  /\ ScopeOf \in [Ops -> Scopes]
  /\ Ops \cap Scopes = {}

VARIABLES
  op,               \* each statement, from its call to its settling
  scope,            \* each scope, likewise
  line,             \* scopeQueue of each scope: jobs admitted and not started
  closed,           \* transactionClosed
  rollbackOnly,     \* rollbackOnlyError is set
  savepointActive,  \* isSavepointActive
  outcome,          \* how the callback of a closed scope ended, or that its
                    \* timeout ran out first
  cleanupFailed,    \* a rollback step of runSavepoint failed
  observed,         \* a rejection handler was attached to the nested call
  log,              \* what the server holds: its open savepoints, outermost
                    \* first, each with the work done since it was opened
  committed         \* what COMMIT made durable

vars == <<op, scope, line, closed, rollbackOnly, savepointActive, outcome,
          cleanupFailed, observed, log, committed>>

OpStates == {"idle", "refused", "called", "queued", "running",
             "ok", "failed", "rejected"}

\* "called" to "queued" is the microtask of trackTransactionOperation;
\* "starting" to "releasing" is the job in the parent's queue; "failing",
\* "barring" and "succeeding" are settled jobs not yet taken off
\* activeOperations.
ScopeStates == {"idle", "refused", "called", "queued", "starting", "opening",
                "body", "draining", "committing", "aborting", "recovering",
                "releasing", "rereleasing", "succeeding", "failing",
                "barring", "done", "failed", "rejected"}

\* How a callback leaves withTransaction: its timeout may come first.
Endings == {"returned", "threw", "expired"}

\* The transaction itself, or a savepoint, and the work done inside it.
Frames   == [of : Scopes, work : SUBSET Ops]
Frame(s) == [of |-> s, work |-> {}]

\* Every variable keeps to its type (the fields of TransactionBoundDriver); the
\* type of the log is part of SavepointsNest.
TypeOK ==
  /\ op \in [Ops -> OpStates]
  /\ scope \in [Scopes -> ScopeStates]
  /\ line \in [Scopes -> Seq(Ops \cup Nested)]
  /\ closed \in [Scopes -> BOOLEAN]
  /\ rollbackOnly \in [Scopes -> BOOLEAN]
  /\ savepointActive \in [Scopes -> BOOLEAN]
  /\ outcome \in [Scopes -> {"none"} \cup Endings]
  /\ cleanupFailed \in [Scopes -> BOOLEAN]
  /\ observed \in [Scopes -> BOOLEAN]
  /\ committed \in SUBSET Ops

\* withTransaction has opened the root transaction and built its driver.
Init ==
  /\ op = [o \in Ops |-> "idle"]
  /\ scope = [s \in Scopes |-> IF s = Root THEN "body" ELSE "idle"]
  /\ line = [s \in Scopes |-> <<>>]
  /\ closed = [s \in Scopes |-> FALSE]
  /\ rollbackOnly = [s \in Scopes |-> FALSE]
  /\ savepointActive = [s \in Scopes |-> FALSE]
  /\ outcome = [s \in Scopes |-> "none"]
  /\ cleanupFailed = [s \in Scopes |-> FALSE]
  /\ observed = [s \in Scopes |-> FALSE]
  /\ log = <<Frame(Root)>>
  /\ committed = {}

-----------------------------------------------------------------------------
(* The scope's own tests and marks.                                        *)

Chain(s) == Above[s] \cup {s}

\* The callback has been given its driver, so user code can call it.
HasDriver(s) == scope[s] = "body" \/ closed[s]

\* The job of nested scope n holds its parent's queue.
HoldsQueue == {"starting", "opening", "body", "draining", "committing",
               "aborting", "recovering", "releasing", "rereleasing"}

Busy(s) == \/ \E o \in Ops : ScopeOf[o] = s /\ op[o] = "running"
           \/ \E n \in Nested : Parent[n] = s /\ scope[n] \in HoldsQueue

\* activeOperations of scope s.
ActiveOps(s) == {o \in Ops : ScopeOf[o] = s /\ op[o] \in {"called", "queued", "running"}}
ActiveNested(s) ==
  {n \in Nested : /\ Parent[n] = s
                  /\ scope[n] \in HoldsQueue \cup
                        {"called", "queued", "succeeding", "failing", "barring"}}

\* assertTransactionCommittable: the parents first.
Committable(s) == \A a \in Chain(s) : ~rollbackOnly[a]

\* assertTransactionOpen
IsOpen(s) == \A a \in Chain(s) : ~rollbackOnly[a] /\ ~closed[a]

\* markCurrentScopeRollbackOnly and markRootTransactionRollbackOnly
Poison(s) == rollbackOnly' = [rollbackOnly EXCEPT ![s] = TRUE]

\* A nested failure nobody attached a handler to.
Unhandled(n) == scope[n] \in {"failed", "rejected"} /\ ~observed[n]

-----------------------------------------------------------------------------
(* Statements: _execute, _executeRaw and _executeBatch of a scope.         *)

\* The synchronous part: refused outright while a nested transaction is active.
CallOp(o) ==
  /\ op[o] = "idle"
  /\ HasDriver(ScopeOf[o])
  /\ op' = [op EXCEPT ![o] = IF savepointActive[ScopeOf[o]] THEN "refused" ELSE "called"]
  /\ UNCHANGED <<scope, line, closed, rollbackOnly, savepointActive, outcome,
                 cleanupFailed, observed, log, committed>>

\* Queues the statement without asking whether the scope is still open.
AdmitOpUnchecked(o) ==
  LET s == ScopeOf[o] IN
  /\ op[o] = "called"
  /\ op' = [op EXCEPT ![o] = "queued"]
  /\ line' = [line EXCEPT ![s] = Append(@, o)]
  /\ UNCHANGED <<scope, closed, rollbackOnly, savepointActive, outcome,
                 cleanupFailed, observed, log, committed>>

\* The microtask of trackTransactionOperation: into the queue, or rejected and
\* the scope poisoned.
AdmitOp(o) ==
  LET s == ScopeOf[o] IN
  /\ op[o] = "called"
  /\ IF IsOpen(s)
     THEN /\ op' = [op EXCEPT ![o] = "queued"]
          /\ line' = [line EXCEPT ![s] = Append(@, o)]
          /\ UNCHANGED rollbackOnly
     ELSE /\ op' = [op EXCEPT ![o] = "rejected"]
          /\ Poison(s)
          /\ UNCHANGED line
  /\ UNCHANGED <<scope, closed, savepointActive, outcome, cleanupFailed,
                 observed, log, committed>>

AtHead(s, job) == line[s] # <<>> /\ Head(line[s]) = job /\ ~Busy(s)

\* The queue is not consulted: admitted work goes straight to the provider.
StartOpAnyOrder(o) ==
  LET s == ScopeOf[o] IN
  /\ op[o] = "queued"
  /\ op' = [op EXCEPT ![o] = "running"]
  /\ line' = [line EXCEPT ![s] = SelectSeq(@, LAMBDA j : j # o)]
  /\ UNCHANGED <<scope, closed, rollbackOnly, savepointActive, outcome,
                 cleanupFailed, observed, log, committed>>

\* The queue runs the job: its first act is assertTransactionCommittable.
StartOp(o) ==
  LET s == ScopeOf[o] IN
  /\ op[o] = "queued"
  /\ AtHead(s, o)
  /\ line' = [line EXCEPT ![s] = Tail(@)]
  /\ IF Committable(s)
     THEN /\ op' = [op EXCEPT ![o] = "running"]
          /\ UNCHANGED rollbackOnly
     ELSE /\ op' = [op EXCEPT ![o] = "rejected"]
          /\ Poison(s)
  /\ UNCHANGED <<scope, closed, savepointActive, outcome, cleanupFailed,
                 observed, log, committed>>

\* The server does the statement inside its innermost savepoint.
Effect(o) == [log EXCEPT ![Len(log)].work = @ \cup {o}]

\* The provider answers.  A failed statement poisons its scope, even if the
\* caller catches the error; it may have had its effect all the same (part of a
\* batch, a result that cannot be normalised).
FinishOp(o) ==
  /\ op[o] = "running"
  /\ \/ /\ op' = [op EXCEPT ![o] = "ok"]
        /\ log' = Effect(o)
        /\ UNCHANGED rollbackOnly
     \/ /\ op' = [op EXCEPT ![o] = "failed"]
        /\ Poison(ScopeOf[o])
        /\ log' \in {log, Effect(o)}
  /\ UNCHANGED <<scope, line, closed, savepointActive, outcome, cleanupFailed,
                 observed, committed>>

-----------------------------------------------------------------------------
(* Nested transactions: withTransaction on a transaction-bound driver.     *)

CallNested(n) ==
  LET p == Parent[n] IN
  /\ scope[n] = "idle"
  /\ HasDriver(p)
  /\ scope' = [scope EXCEPT ![n] = IF savepointActive[p] THEN "refused" ELSE "called"]
  /\ UNCHANGED <<op, line, closed, rollbackOnly, savepointActive, outcome,
                 cleanupFailed, observed, log, committed>>

\* User code attaches a rejection handler (await, catch, then) to the promise.
Observe(n) ==
  /\ scope[n] \notin {"idle", "refused"}
  /\ ~observed[n]
  /\ observed' = [observed EXCEPT ![n] = TRUE]
  /\ UNCHANGED <<op, scope, line, closed, rollbackOnly, savepointActive,
                 outcome, cleanupFailed, log, committed>>

AdmitNested(n) ==
  LET p == Parent[n] IN
  /\ scope[n] = "called"
  /\ IF IsOpen(p)
     THEN /\ scope' = [scope EXCEPT ![n] = "queued"]
          /\ line' = [line EXCEPT ![p] = Append(@, n)]
     ELSE /\ scope' = [scope EXCEPT ![n] = "barring"]
          /\ UNCHANGED line
  /\ UNCHANGED <<op, closed, rollbackOnly, savepointActive, outcome,
                 cleanupFailed, observed, log, committed>>

\* A job that finds the scope poisoned is dropped and never answered.
StartNestedDropped(n) ==
  LET p == Parent[n] IN
  /\ scope[n] = "queued"
  /\ AtHead(p, n)
  /\ line' = [line EXCEPT ![p] = Tail(@)]
  /\ IF Committable(p)
     THEN /\ scope' = [scope EXCEPT ![n] = "starting"]
          /\ savepointActive' = [savepointActive EXCEPT ![p] = TRUE]
     ELSE UNCHANGED <<scope, savepointActive>>
  /\ UNCHANGED <<op, closed, rollbackOnly, outcome, cleanupFailed, observed,
                 log, committed>>

\* The queue runs the job: assertTransactionCommittable, then the flag.
StartNested(n) ==
  LET p == Parent[n] IN
  /\ scope[n] = "queued"
  /\ AtHead(p, n)
  /\ line' = [line EXCEPT ![p] = Tail(@)]
  /\ IF Committable(p)
     THEN /\ scope' = [scope EXCEPT ![n] = "starting"]
          /\ savepointActive' = [savepointActive EXCEPT ![p] = TRUE]
     ELSE /\ scope' = [scope EXCEPT ![n] = "failing"]
          /\ UNCHANGED savepointActive
  /\ UNCHANGED <<op, closed, rollbackOnly, outcome, cleanupFailed, observed,
                 log, committed>>

\* The job ends without success; the finally clause lowers the flag.
FailNested(n) ==
  /\ scope' = [scope EXCEPT ![n] = "failing"]
  /\ savepointActive' = [savepointActive EXCEPT ![Parent[n]] = FALSE]

\* The second look, after the awaits of _transaction.  The callback has not run,
\* so a failure from here to "body" is one of the lifecycle and poisons the root.
CheckNested(n) ==
  /\ scope[n] = "starting"
  /\ IF Committable(Parent[n])
     THEN /\ scope' = [scope EXCEPT ![n] = "opening"]
          /\ UNCHANGED <<savepointActive, rollbackOnly>>
     ELSE FailNested(n) /\ Poison(Root)
  /\ UNCHANGED <<op, line, closed, outcome, cleanupFailed, observed, log, committed>>

\* SAVEPOINT is answered.
OpenSavepoint(n) ==
  /\ scope[n] = "opening"
  /\ \/ /\ log' = Append(log, Frame(n))
        /\ scope' = [scope EXCEPT ![n] = "body"]
        /\ UNCHANGED <<savepointActive, rollbackOnly>>
     \/ /\ FailNested(n)
        /\ Poison(Root)
        /\ UNCHANGED log
  /\ UNCHANGED <<op, line, closed, outcome, cleanupFailed, observed, committed>>

\* Forgets the failures nobody handled.
CloseScopeForgetful(s) ==
  /\ scope[s] = "body"
  /\ scope' = [scope EXCEPT ![s] = "draining"]
  /\ closed' = [closed EXCEPT ![s] = TRUE]
  /\ \E how \in Endings : outcome' = [outcome EXCEPT ![s] = how]
  /\ UNCHANGED <<op, line, rollbackOnly, savepointActive, cleanupFailed,
                 observed, log, committed>>

\* The callback returns, throws or is timed out: closeTransactionScope.  After a
\* timeout the callback keeps running and may go on calling its driver.
CloseScope(s) ==
  /\ scope[s] = "body"
  /\ scope' = [scope EXCEPT ![s] = "draining"]
  /\ closed' = [closed EXCEPT ![s] = TRUE]
  /\ \E how \in Endings : outcome' = [outcome EXCEPT ![s] = how]
  /\ IF \E n \in Nested : Parent[n] = s /\ Unhandled(n)
     THEN Poison(s)
     ELSE UNCHANGED rollbackOnly
  /\ UNCHANGED <<op, line, savepointActive, cleanupFailed, observed, log, committed>>

\* waitForActiveOperations, then the verdict of assertTransactionCommittable.
Decide(s) ==
  /\ scope[s] = "draining"
  /\ ActiveOps(s) = {} /\ ActiveNested(s) = {}
  /\ scope' = [scope EXCEPT ![s] =
        IF outcome[s] = "returned" /\ Committable(s) THEN "committing" ELSE "aborting"]
  /\ UNCHANGED <<op, line, closed, rollbackOnly, savepointActive, outcome,
                 cleanupFailed, observed, log, committed>>

-----------------------------------------------------------------------------
(* The end of a nested transaction: runSavepoint.                          *)

\* The server knows the savepoint; it answers an unknown one with an error.
Held(n) == \E i \in DOMAIN log : log[i].of = n

Position(n) == CHOOSE i \in DOMAIN log : log[i].of = n

\* RELEASE SAVEPOINT n drops n and the savepoints inside it and keeps their work.
Released(n) ==
  LET last == Position(n) - 1 IN
  [SubSeq(log, 1, last) EXCEPT ![last].work =
     @ \cup UNION {log[i].work : i \in Position(n) .. Len(log)}]

\* ROLLBACK TO SAVEPOINT n keeps n itself.
RolledBack(n) == Append(SubSeq(log, 1, Position(n) - 1), Frame(n))

\* The callback succeeded: RELEASE, and on failure the way back.
Release(n) ==
  /\ scope[n] = "committing"
  /\ \/ /\ Held(n)
        /\ log' = Released(n)
        /\ scope' = [scope EXCEPT ![n] = "succeeding"]
        /\ savepointActive' = [savepointActive EXCEPT ![Parent[n]] = FALSE]
     \/ /\ scope' = [scope EXCEPT ![n] = "recovering"]
        /\ UNCHANGED <<log, savepointActive>>
  /\ UNCHANGED <<op, line, closed, rollbackOnly, outcome, cleanupFailed,
                 observed, committed>>

\* ROLLBACK TO SAVEPOINT; throwAfterCleanup goes on whether or not it fails.
RollbackTo(n) ==
  /\ scope[n] \in {"aborting", "recovering"}
  /\ \/ /\ Held(n)
        /\ log' = RolledBack(n)
        /\ UNCHANGED cleanupFailed
     \/ /\ cleanupFailed' = [cleanupFailed EXCEPT ![n] = TRUE]
        /\ UNCHANGED log
  /\ scope' = [scope EXCEPT ![n] =
        IF scope[n] = "aborting" THEN "releasing" ELSE "rereleasing"]
  /\ UNCHANGED <<op, line, closed, rollbackOnly, savepointActive, outcome,
                 observed, committed>>

\* Reports the failure of the callback and drops the failure of the cleanup.
ReleaseAfterRollbackUnchecked(n) ==
  /\ scope[n] \in {"releasing", "rereleasing"}
  /\ \/ Held(n) /\ log' = Released(n)
     \/ UNCHANGED log
  /\ FailNested(n)
  /\ UNCHANGED <<op, line, closed, rollbackOnly, outcome, cleanupFailed,
                 observed, committed>>

\* The closing RELEASE.  A cleanup that failed, or a RELEASE that had to be
\* recovered from, poisons the whole transaction (transactionCleanupFailed).
ReleaseAfterRollback(n) ==
  /\ scope[n] \in {"releasing", "rereleasing"}
  /\ \E released \in {Held(n), FALSE} :
        /\ log' = IF released THEN Released(n) ELSE log
        /\ IF released /\ ~cleanupFailed[n] /\ scope[n] = "releasing"
           THEN UNCHANGED rollbackOnly
           ELSE Poison(Root)
  /\ FailNested(n)
  /\ UNCHANGED <<op, line, closed, outcome, cleanupFailed, observed, committed>>

SettledAs == [succeeding |-> "done", failing |-> "failed", barring |-> "rejected"]

\* The handler of trackTransactionOperation takes the job off activeOperations.
SettleNested(n) ==
  LET p == Parent[n] IN
  /\ scope[n] \in {"succeeding", "failing", "barring"}
  /\ scope' = [scope EXCEPT ![n] = SettledAs[scope[n]]]
  /\ IF scope[n] # "succeeding" /\ closed[p] /\ ~observed[n]
     THEN Poison(p)
     ELSE UNCHANGED rollbackOnly
  /\ UNCHANGED <<op, line, closed, savepointActive, outcome, cleanupFailed,
                 observed, log, committed>>

-----------------------------------------------------------------------------
(* The end of the root transaction: the lifecycle's COMMIT and ROLLBACK.   *)

Surviving == {o \in Ops : \E i \in DOMAIN log : o \in log[i].work}

\* COMMIT is answered, or its answer is an error whether or not it took effect,
\* or ROLLBACK has been tried.
EndRoot ==
  /\ \/ /\ scope[Root] = "committing"
        /\ scope' = [scope EXCEPT ![Root] = "done"]
        /\ committed' = Surviving
     \/ /\ scope[Root] = "committing"
        /\ scope' = [scope EXCEPT ![Root] = "failed"]
        /\ committed' \in {{}, Surviving}
     \/ /\ scope[Root] = "aborting"
        /\ scope' = [scope EXCEPT ![Root] = "failed"]
        /\ UNCHANGED committed
  /\ log' = <<Frame(Root)>>
  /\ UNCHANGED <<op, line, closed, rollbackOnly, savepointActive, outcome,
                 cleanupFailed, observed>>

OpStep(o) == AdmitOp(o) \/ StartOp(o) \/ FinishOp(o)

NestedStep(n) == \/ AdmitNested(n) \/ StartNested(n) \/ CheckNested(n)
                 \/ OpenSavepoint(n) \/ Release(n) \/ RollbackTo(n) \/ ReleaseAfterRollback(n)
                 \/ SettleNested(n)

Next == \/ \E o \in Ops : CallOp(o) \/ OpStep(o)
        \/ \E n \in Nested : CallNested(n) \/ Observe(n) \/ NestedStep(n)
        \/ \E s \in Scopes : CloseScope(s) \/ Decide(s)
        \/ EndRoot

Spec == Init /\ [][Next]_vars

\* The event loop and the provider make progress; user code need not.
SystemFairness == /\ \A o \in Ops : WF_vars(OpStep(o))
                  /\ \A n \in Nested : WF_vars(NestedStep(n))
                  /\ \A s \in Scopes : WF_vars(Decide(s))
                  /\ WF_vars(EndRoot)

SystemSpec == Spec /\ SystemFairness

\* As above, and every callback returns or throws.
FairSpec == SystemSpec /\ \A s \in Scopes : WF_vars(CloseScope(s))

-----------------------------------------------------------------------------
(* Properties.                                                             *)

Settled == {"done", "failed", "rejected"}

\* The statements that succeeded in callbacks that all committed.
Kept == {o \in Ops : op[o] = "ok" /\ \A s \in Chain(ScopeOf[o]) \ {Root} : scope[s] = "done"}

\* All or nothing, whatever was caught, abandoned or left unawaited: what
\* becomes durable is what the committed callbacks did, in full, or nothing at
\* all; and a transaction that reports success made all of it durable.
AllOrNothing == /\ committed \in {{}, Kept}
                /\ scope[Root] = "done" => committed = Kept

\* A scope goes on to COMMIT or RELEASE only if every statement issued on it so
\* far succeeded and every nested transaction succeeded or had its failure
\* seen by the caller: nothing unawaited is lost in silence.
NoSilentFailure ==
  [][\A s \in Scopes : scope[s] # "committing" /\ scope'[s] = "committing" =>
       /\ \A o \in Ops : ScopeOf[o] = s => op[o] \in {"idle", "refused", "ok"}
       /\ \A n \in Nested : Parent[n] = s =>
            \/ scope[n] \in {"idle", "refused", "done"}
            \/ scope[n] \in {"failed", "rejected"} /\ observed[n]]_vars

\* The savepoint the server would roll back to first.
Innermost == log[Len(log)].of

\* A statement takes effect in the scope it was issued on, never inside a
\* savepoint of a sibling or of a nested callback, which would undo it or keep it
\* against its caller's knowledge (the queue and the savepoint flag).
InItsOwnScope ==
  [][\A o \in Ops : op[o] = "running" /\ op'[o] = "ok" => Innermost = ScopeOf[o]]_vars

\* What a job in progress may rely on in the scopes around it.
Open == {"body", "draining"}

\* Once a scope is past waitForActiveOperations nothing below it is queued or
\* running, although its callback may still be: its connection is quiet when
\* COMMIT, ROLLBACK or RELEASE goes out.
Quiescent ==
  \A s \in Scopes :
    scope[s] \in (HoldsQueue \cup Settled) \ (Open \cup {"starting", "opening"}) =>
      /\ \A o \in Ops : s \in Chain(ScopeOf[o]) => op[o] \notin {"queued", "running"}
      /\ \A n \in Nested : s \in Above[n] => scope[n] \notin HoldsQueue \cup {"queued"}

\* The inductive invariant.  A scope is called only through its driver; it is
\* closed exactly when its callback has ended; and whatever is queued or under way
\* lives in scopes that have not got past waitForActiveOperations.
DriverGiven ==
  /\ \A o \in Ops : op[o] \in {"called", "queued", "running"} => HasDriver(ScopeOf[o])
  /\ \A n \in Nested : scope[n] = "called" => HasDriver(Parent[n])
ClosedAfterBody ==
  \A s \in Scopes : scope[s] \in {"idle", "refused", "called", "queued", "starting",
                                  "opening", "body", "barring", "rejected"} => ~closed[s]
WorkIsInOpenScopes ==
  /\ \A o \in Ops : op[o] \in {"queued", "running"} =>
        \A a \in Chain(ScopeOf[o]) : scope[a] \in Open
  /\ \A s \in Scopes : scope[s] \in HoldsQueue \cup {"queued"} =>
        \A a \in Above[s] : scope[a] \in Open
IInv == TypeOK /\ DriverGiven /\ ClosedAfterBody /\ WorkIsInOpenScopes

\* What the end of the transaction rests on, beside IInv.  A queue has one job at
\* a time.
OneJobAtATime ==
  /\ \A o, q \in Ops : op[o] = "running" /\ op[q] = "running" /\ ScopeOf[o] = ScopeOf[q] => o = q
  /\ \A m, n \in Nested :
        scope[m] \in HoldsQueue /\ scope[n] \in HoldsQueue /\ Parent[m] = Parent[n] => m = n
  /\ \A o \in Ops, n \in Nested :
        ~(op[o] = "running" /\ scope[n] \in HoldsQueue /\ Parent[n] = ScopeOf[o])

\* A failure leaves its mark on the scope it happened in, and the mark stays.
FailuresMark ==
  /\ \A o \in Ops : op[o] \in {"failed", "rejected"} => rollbackOnly[ScopeOf[o]]
  /\ \A n \in Nested : closed[Parent[n]] /\ Unhandled(n) => rollbackOnly[Parent[n]]
  /\ \A s \in Scopes : scope[s] = "draining" => closed[s]

\* A scope succeeds without a failed statement, inside scopes that wait for it.
SuccessIsClean ==
  /\ \A s \in Scopes : scope[s] \in {"committing", "succeeding", "done"} =>
        \A o \in Ops : ScopeOf[o] = s => op[o] # "failed"
  /\ \A s \in Scopes : scope[s] = "succeeding" => \A a \in Above[s] : scope[a] \in Open

\* The server's savepoints are those of scopes nested in each other, and no stale
\* one is among them as long as the transaction can still be committed.
InSavepoint == HoldsQueue \ {"starting", "opening"}
Committing  == ~rollbackOnly[Root] \/ scope[Root] = "committing"
SavepointsNest ==
  /\ log \in Seq(Frames) /\ log # <<>> /\ log[1].of = Root
  /\ \A i \in 2..Len(log) : log[i].of \in Nested /\ Parent[log[i].of] = log[i - 1].of
  /\ \A i, j \in DOMAIN log : i < j => log[i].of \in Above[log[j].of]
  /\ \A n \in Nested : scope[n] \in InSavepoint => Held(n)
  /\ Committing => \A i \in 2..Len(log) : scope[log[i].of] \in InSavepoint

\* What is sent to the server finds its own scope innermost.
WorkIsInnermost ==
  /\ \A o \in Ops : op[o] = "running" => Innermost = ScopeOf[o]
  /\ \A n \in Nested : scope[n] \in {"starting", "opening"} => Innermost = Parent[n]
  /\ \A n \in Nested : scope[n] = "releasing" /\ ~cleanupFailed[n] => log[Len(log)] = Frame(n)

\* The work in a frame is that of its scope and of scopes released into it; a
\* statement's work is missing only if a scope around it was rolled back.
Ended    == scope[Root] \in {"done", "failed"}
RolledUp == {"releasing", "rereleasing", "failing", "failed"}
WorkIsWhereItBelongs ==
  \A i \in DOMAIN log : \A o \in log[i].work :
    /\ op[o] \in {"ok", "failed"}
    /\ log[i].of \in Chain(ScopeOf[o])
    /\ \A a \in Chain(ScopeOf[o]) : log[i].of \in Above[a] => scope[a] \in {"succeeding", "done"}
WorkIsThere ==
  \A o \in Ops : op[o] = "ok" =>
    o \in Surviving \/ \E a \in Chain(ScopeOf[o]) \ {Root} : scope[a] \in RolledUp
LogIsExact == Committing /\ ~Ended => WorkIsWhereItBelongs /\ WorkIsThere

\* The outcome.
RootEnds == /\ scope[Root] \in Open \cup {"committing", "aborting", "done", "failed"}
            /\ ~Ended => committed = {}
            /\ AllOrNothing

LogInv == /\ OneJobAtATime /\ FailuresMark /\ SuccessIsClean /\ SavepointsNest
          /\ WorkIsInnermost /\ LogIsExact /\ RootEnds

\* If every callback ends, every callback's scope ends, and every statement and
\* every nested transaction that was called is answered.
EverythingSettles ==
  /\ scope[Root] = "body" ~> scope[Root] \in Settled
  /\ \A n \in Nested : scope[n] = "called" ~> scope[n] \in Settled
  /\ \A o \in Ops : op[o] = "called" ~> op[o] \in {"ok", "failed", "rejected"}

\* "timeout bounds how long the callback body may run. On expiry the transaction
\* is rolled back and the call rejects" (docs/content/docs/client/
\* transactions.mdx:103).
TimeoutEndsTransaction == outcome[Root] = "expired" ~> scope[Root] \in Settled
=============================================================================
