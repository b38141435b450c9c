-------------------------- MODULE DriverConnection --------------------------
(***************************************************************************)
(* A base driver's connection: lazy initialisation shared by concurrent    *)
(* callers, disconnect, the connection queue and lease of drivers with one *)
(* connection, and the poisoning of a driver whose transaction cleanup     *)
(* failed (src/src/drivers/driver.ts, driver-transaction-base.ts,          *)
(* driver-instrumentation.ts; the lifecycle on one connection is that of   *)
(* sqlite3/index.ts over shared/transactions.ts).                          *)
(*                                                                         *)
(* Serialized drivers (sqlite3, bun-sqlite, in-memory libsql) send every   *)
(* call through connectionQueue, used as SerialJobs.tla specifies it; the  *)
(* others call straight through, and their transactions take connections   *)
(* of their own from the pool, so a transaction there is one more user of  *)
(* the pool.                                                               *)
(***************************************************************************)
EXTENDS Naturals, Sequences

CONSTANTS Calls,        \* the calls user code may make, each once
          Drivers,      \* a driver: serialized (serializeTransactions), the kind of
                        \* each call, the transactions with a maxWait
          MaxClients    \* bound on the clients initialised in a run

Kinds == {"query", "connect", "transaction", "disconnect"}

ASSUME DriverAssumption ==
  /\ Drivers \subseteq [serialized : BOOLEAN, kind : [Calls -> Kinds], bounded : SUBSET Calls]
  /\ \A d \in Drivers : \A c \in d.bounded : d.kind[c] = "transaction"
  /\ MaxClients \in Nat

ClientIds == 1..MaxClients
None == 0

VARIABLES
  driver,        \* one of Drivers
  call,          \* each call, from its making to its settling
  line,          \* connectionQueue: the jobs not yet started
  given,         \* the init promise a call awaits, then the client it got
  promise,       \* each init promise; its client has the same number
  initPromise,   \* the promise shared by callers, or None
  client,        \* this.client, or None
  provider,      \* each client as the provider sees it
  disconnecting, \* isDisconnecting
  lease,         \* isConnectionTransactionActive
  poisoned,      \* transactionPoisonError is set
  shouldClose    \* a lifecycle statement of the current transaction failed

vars == <<driver, call, line, given, promise, initPromise, client, provider,
          disconnecting, lease, poisoned, shouldClose>>

Serialized == driver.serialized
Kind == driver.kind

Init ==
  /\ driver \in Drivers
  /\ call = [c \in Calls |-> "idle"]
  /\ line = <<>>
  /\ given = [c \in Calls |-> None]
  /\ promise = [i \in ClientIds |-> "none"]
  /\ initPromise = None
  /\ client = None
  /\ provider = [i \in ClientIds |-> "none"]
  /\ disconnecting = FALSE
  /\ lease = FALSE
  /\ poisoned = FALSE
  /\ shouldClose = FALSE

connection == <<promise, initPromise, client, provider, disconnecting>>

\* A call's move to its next state.
Goto(c, state) == call' = [call EXCEPT ![c] = state]

Answered == {"ok", "failed"}
Running(c) == call[c] \notin {"idle", "refused", "waiting", "expired"} \cup Answered

-----------------------------------------------------------------------------
(* Admission.                                                              *)

\* assertBaseOperationAllowedDuringTransaction, then the queue; a driver that is
\* not serialized goes straight on.
Call(c) ==
  /\ call[c] = "idle"
  /\ IF ~Serialized
     THEN /\ Goto(c, "starting")
          /\ UNCHANGED line
     ELSE IF lease
          THEN /\ Goto(c, "refused")
               /\ UNCHANGED line
          ELSE /\ Goto(c, "waiting")
               /\ line' = Append(line, c)
  /\ UNCHANGED <<given, connection, lease, poisoned, shouldClose>>

\* maxWait runs out on a transaction still in the queue.
Expire(c) ==
  /\ c \in driver.bounded
  /\ call[c] = "waiting"
  /\ Goto(c, "expired")
  /\ UNCHANGED <<line, given, connection, lease, poisoned, shouldClose>>

\* The queue starts jobs without waiting for the one before.
TurnOverlapping(c) ==
  /\ line # <<>> /\ Head(line) = c
  /\ line' = Tail(line)
  /\ IF call[c] = "expired"
     THEN UNCHANGED <<call, lease>>
     ELSE /\ Goto(c, "starting")
          /\ lease' = (lease \/ Kind[c] = "transaction")
  /\ UNCHANGED <<given, connection, poisoned, shouldClose>>

\* Waits at an expired job instead of skipping it.
TurnExpiredBlocks(c) ==
  /\ line # <<>> /\ Head(line) = c
  /\ \A d \in Calls : ~Running(d)
  /\ call[c] = "waiting"
  /\ line' = Tail(line)
  /\ Goto(c, "starting")
  /\ lease' = (Kind[c] = "transaction")
  /\ UNCHANGED <<given, connection, poisoned, shouldClose>>

\* The queue's next job; one that expired is skipped.  A transaction takes the
\* lease (runConnectionTransactionLease).
Turn(c) ==
  /\ line # <<>> /\ Head(line) = c
  /\ \A d \in Calls : ~Running(d)
  /\ line' = Tail(line)
  /\ IF call[c] = "expired"
     THEN UNCHANGED <<call, lease>>
     ELSE /\ Goto(c, "starting")
          /\ lease' = (Kind[c] = "transaction")
  /\ UNCHANGED <<given, connection, poisoned, shouldClose>>

\* A call settles; runConnectionTransactionLease's finally gives up the lease.
Finish(c, state) ==
  /\ Goto(c, state)
  /\ lease' = (lease /\ Kind[c] # "transaction")

-----------------------------------------------------------------------------
(* getClient.                                                              *)

\* What a call does once it has a client.
Onward(c) == CASE Kind[c] = "connect" -> "ok"
               [] Kind[c] = "transaction" /\ Serialized -> "begin"
               [] OTHER -> "using"

Refused(c) ==
  /\ poisoned \/ disconnecting
  /\ Finish(c, "failed")
  /\ UNCHANGED <<given, promise, initPromise>>

UseClient(c) ==
  /\ ~poisoned /\ ~disconnecting
  /\ client # None
  /\ given' = [given EXCEPT ![c] = client]
  /\ Goto(c, Onward(c))
  /\ UNCHANGED <<promise, initPromise, lease>>

JoinInit(c) ==
  /\ ~poisoned /\ ~disconnecting
  /\ client = None /\ initPromise # None
  /\ given' = [given EXCEPT ![c] = initPromise]
  /\ Goto(c, "init")
  /\ UNCHANGED <<promise, initPromise, lease>>

StartInit(c) ==
  /\ ~poisoned /\ ~disconnecting
  /\ client = None /\ initPromise = None
  /\ \E i \in ClientIds :
       /\ \A j \in ClientIds : promise[j] = "none" <=> j >= i
       /\ promise' = [promise EXCEPT ![i] = "pending"]
       /\ initPromise' = i
       /\ given' = [given EXCEPT ![c] = i]
  /\ Goto(c, "init")
  /\ UNCHANGED lease

GetClient(c) ==
  /\ call[c] = "starting" /\ Kind[c] # "disconnect"
  /\ Refused(c) \/ UseClient(c) \/ JoinInit(c) \/ StartInit(c)
  /\ UNCHANGED <<line, client, provider, disconnecting, poisoned, shouldClose>>

\* initClient settles; a rejected promise stays where it is.
InitSettles(i) ==
  /\ promise[i] = "pending"
  /\ \/ /\ promise' = [promise EXCEPT ![i] = "ready"]
        /\ provider' = [provider EXCEPT ![i] = "live"]
        /\ client' = i
     \/ /\ promise' = [promise EXCEPT ![i] = "rejected"]
        /\ UNCHANGED <<provider, client>>
  /\ UNCHANGED <<call, line, given, initPromise, disconnecting, lease, poisoned,
                 shouldClose>>

\* The caller's await of the shared promise resumes.
AwaitedInit(c) ==
  /\ call[c] = "init"
  /\ \/ /\ promise[given[c]] = "ready"
        /\ Goto(c, Onward(c))
        /\ lease' = lease
     \/ /\ promise[given[c]] = "rejected"
        /\ Finish(c, "failed")
  /\ UNCHANGED <<line, given, connection, poisoned, shouldClose>>

\* A statement, or a whole transaction of a pooled driver, runs on the client.
Query(c) ==
  /\ call[c] = "using"
  /\ \E result \in Answered : Finish(c, result)
  /\ UNCHANGED <<line, given, connection, poisoned, shouldClose>>

-----------------------------------------------------------------------------
(* A transaction on the single connection: runTransactionLifecycle with the *)
(* executeOrClose of sqlite3.                                              *)

\* A lifecycle statement of the only running transaction succeeds or fails.
Begin(c) ==
  /\ call[c] = "begin"
  /\ \/ Goto(c, "body") /\ UNCHANGED shouldClose
     \/ Goto(c, "close") /\ shouldClose' = TRUE
  /\ UNCHANGED <<line, given, connection, lease, poisoned>>

\* The callback settles (TransactionScope.tla is what happens until then).
Body(c) ==
  /\ call[c] = "body"
  /\ Goto(c, "commit") \/ Goto(c, "rollback")
  /\ UNCHANGED <<line, given, connection, lease, poisoned, shouldClose>>

Commit(c) ==
  /\ call[c] = "commit"
  /\ \/ Finish(c, "ok") /\ UNCHANGED shouldClose
     \/ Goto(c, "rollback") /\ shouldClose' = TRUE /\ UNCHANGED lease
  /\ UNCHANGED <<line, given, connection, poisoned>>

\* ROLLBACK.  If no lifecycle statement failed the connection stays.
Rollback(c) ==
  /\ call[c] = "rollback"
  /\ \E fails \in BOOLEAN :
       /\ shouldClose' = (shouldClose \/ fails)
       /\ IF shouldClose \/ fails THEN Goto(c, "close") /\ UNCHANGED lease
                                ELSE Finish(c, "failed")
  /\ UNCHANGED <<line, given, connection, poisoned>>

\* The connection is closed and forgotten, unless closing it throws; the promise
\* it came from is kept.
Close(c) ==
  /\ call[c] = "close"
  /\ \/ /\ provider' = [provider EXCEPT ![given[c]] = "closed"]
        /\ client' = None
     \/ UNCHANGED <<provider, client>>
  /\ Goto(c, "poisoning")
  /\ shouldClose' = FALSE
  /\ UNCHANGED <<line, given, promise, initPromise, disconnecting, lease, poisoned>>

\* Reports the failure and leaves the driver usable.
PoisonForgotten(c) ==
  /\ call[c] = "poisoning"
  /\ Finish(c, "failed")
  /\ UNCHANGED <<line, given, connection, poisoned, shouldClose>>

\* transactionCleanupFailed, in the catch of runTransaction.
Poison(c) ==
  /\ call[c] = "poisoning"
  /\ poisoned' = TRUE
  /\ Finish(c, "failed")
  /\ UNCHANGED <<line, given, connection, shouldClose>>

-----------------------------------------------------------------------------
(* _disconnect.                                                            *)

StartDisconnect(c) ==
  /\ call[c] = "starting" /\ Kind[c] = "disconnect"
  /\ IF disconnecting
     THEN /\ Goto(c, "failed")
          /\ UNCHANGED <<given, disconnecting>>
     ELSE /\ Goto(c, "awaitInit")
          /\ disconnecting' = TRUE
          /\ given' = [given EXCEPT ![c] = initPromise]
  /\ UNCHANGED <<line, promise, initPromise, client, provider, lease, poisoned, shouldClose>>

\* Closes what there is now, not what an initialisation under way will add.
AwaitInitSkipped(c) ==
  /\ call[c] = "awaitInit"
  /\ Goto(c, "closing")
  /\ provider' = [i \in ClientIds |-> IF i = client THEN "closed" ELSE provider[i]]
  /\ UNCHANGED <<line, given, promise, initPromise, client, disconnecting, lease,
                 poisoned, shouldClose>>

\* An initialisation under way is waited for, then the client is closed.
AwaitInit(c) ==
  /\ call[c] = "awaitInit"
  /\ given[c] # None => promise[given[c]] # "pending"
  /\ Goto(c, "closing")
  /\ provider' = [i \in ClientIds |-> IF i = client THEN "closed" ELSE provider[i]]
  /\ UNCHANGED <<line, given, promise, initPromise, client, disconnecting, lease,
                 poisoned, shouldClose>>

\* Closing is answered; the finally clause resets the driver either way.
EndDisconnect(c) ==
  /\ call[c] = "closing"
  /\ client' = None
  /\ initPromise' = None
  /\ disconnecting' = FALSE
  /\ \/ /\ Goto(c, "ok")
        /\ UNCHANGED provider
     \/ /\ client # None
        /\ provider' = [provider EXCEPT ![client] = "leaked"]
        /\ Goto(c, "failed")
  /\ UNCHANGED <<line, given, promise, lease, poisoned, shouldClose>>

Step(c) == /\ \/ Turn(c) \/ GetClient(c) \/ AwaitedInit(c) \/ Query(c)
              \/ Begin(c) \/ Body(c) \/ Commit(c) \/ Rollback(c) \/ Close(c) \/ Poison(c)
              \/ StartDisconnect(c) \/ AwaitInit(c) \/ EndDisconnect(c)
           /\ UNCHANGED driver

User(c) == (Call(c) \/ Expire(c)) /\ UNCHANGED driver

Initialised(i) == InitSettles(i) /\ UNCHANGED driver

Next == \/ \E c \in Calls : User(c) \/ Step(c)
        \/ \E i \in ClientIds : Initialised(i)

Spec == Init /\ [][Next]_vars

\* Jobs are taken in their turn, providers answer and callbacks settle.
FairSpec == /\ Spec
            /\ \A c \in Calls : WF_vars(Step(c))
            /\ \A i \in ClientIds : WF_vars(Initialised(i))

-----------------------------------------------------------------------------
(* Properties.                                                             *)

OnConnection == {"using", "begin", "body", "commit", "rollback"}
InLifecycle == {"begin", "body", "commit", "rollback", "close", "poisoning"}

\* On a single connection nothing else is under way between the BEGIN of a
\* transaction and the end of its cleanup: no statement falls into it, no second
\* BEGIN joins it, no disconnect closes it (serializeTransactions).
TransactionAlone ==
  \A c, d \in Calls : c # d /\ call[c] \in InLifecycle => ~Running(d)

\* A serialized driver never sends anything to a client it has closed, not even
\* after a failed COMMIT or ROLLBACK has closed the connection and left its
\* initPromise behind (the queue and transactionPoisonError together).
NoUseAfterClose ==
  Serialized => \A c \in Calls : call[c] \in OnConnection => provider[given[c]] = "live"

\* Whatever initialisations and disconnects overlap, a client the provider keeps
\* open is the driver's current one, and one being opened is the one everybody
\* awaits: none is lost where no disconnect can reach it.
NoClientLost ==
  \A i \in ClientIds : /\ provider[i] = "live" => client = i
                       /\ promise[i] = "pending" => initPromise = i

\* Every call that was made is answered.
EveryCallSettles ==
  \A c \in Calls : call[c] # "idle" ~> call[c] \in Answered \cup {"refused", "expired"}

-----------------------------------------------------------------------------
(* An inductive invariant (proved in DriverConnectionProofs).              *)

CallStates == {"idle", "refused", "waiting", "expired", "starting", "init", "using", "begin",
               "body", "commit", "rollback", "close", "poisoning", "awaitInit", "closing",
               "ok", "failed"}

TypeOK ==
  /\ driver \in Drivers
  /\ call \in [Calls -> CallStates]
  /\ given \in [Calls -> ClientIds \cup {None}]
  /\ promise \in [ClientIds -> {"none", "pending", "ready", "rejected"}]
  /\ initPromise \in ClientIds \cup {None}
  /\ client \in ClientIds \cup {None}
  /\ provider \in [ClientIds -> {"none", "live", "closed", "leaked"}]
  /\ disconnecting \in BOOLEAN
  /\ poisoned \in BOOLEAN

\* The queue runs one job, and only behind it are there lifecycles.
OneAtATime ==
  /\ Serialized => \A c, d \in Calls : Running(c) /\ Running(d) => c = d
  /\ ~Serialized => line = <<>> /\ \A c \in Calls : call[c] \notin InLifecycle

\* A disconnect is alone with the initialisation it found, and has closed what
\* that has left.
DisconnectAlone ==
  /\ \A c \in Calls : call[c] \in {"awaitInit", "closing"} => disconnecting
  /\ \A c, d \in Calls : call[c] \in {"awaitInit", "closing"}
                          /\ call[d] \in {"awaitInit", "closing"} => c = d
  /\ \A c \in Calls : call[c] = "awaitInit" => given[c] = initPromise
  /\ \A c \in Calls : call[c] = "closing" =>
       \A i \in ClientIds : promise[i] # "pending" /\ provider[i] # "live"

\* While a client is being opened there is none, and the one there is can be used
\* until a disconnect closes it.
ClientCurrent ==
  /\ \A i \in ClientIds : promise[i] = "pending" => client = None
  /\ client # None => \/ provider[client] = "live"
                      \/ \E c \in Calls : call[c] = "closing"

\* A promise whose client has been closed is found by nobody: the driver is
\* poisoned, or about to be while the queue waits.
StalePromise ==
  Serialized /\ initPromise # None /\ client = None =>
    \/ promise[initPromise] # "ready"
    \/ poisoned
    \/ \E c \in Calls : call[c] = "poisoning"

\* What the running call of a serialized driver holds is the driver's client.
ClientHeld ==
  Serialized => \A c \in Calls :
    /\ call[c] \in OnConnection \cup {"close"} =>
         client # None /\ given[c] = client /\ provider[client] = "live"
    /\ call[c] = "init" =>
         /\ given[c] # None /\ given[c] = initPromise
         /\ promise[given[c]] = "ready" => client = given[c] /\ provider[client] = "live"

IInv == /\ TypeOK /\ OneAtATime /\ DisconnectAlone /\ ClientCurrent /\ StalePromise
        /\ ClientHeld /\ NoClientLost
=============================================================================
