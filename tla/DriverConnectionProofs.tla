------------------------- MODULE DriverConnectionProofs -------------------------
(***************************************************************************)
(* For any calls on any serialized or pooled driver and any number of      *)
(* clients: a transaction is alone on a single connection, nothing is      *)
(* sent to a client that was closed, and no client is lost.                *)
(*                                                                         *)
(* The argument is IInv.  No use after a close is not inductive: an init   *)
(* promise outlives its client, so the invariant has to say who could      *)
(* still find it (StalePromise), and that the client in the hands of the   *)
(* running call is the driver's own (ClientHeld), which rests on there     *)
(* being one running call (OneAtATime).                                    *)
(***************************************************************************)
EXTENDS DriverConnection, TLAPS

LEMMA InitInv == Init => IInv
  <1> SUFFICES ASSUME Init PROVE IInv
    OBVIOUS
  <1>1. TypeOK
    BY DEF Init, TypeOK, CallStates, None
  <1>2. OneAtATime /\ ClientHeld
    BY DEF Init, OneAtATime, ClientHeld, Running, InLifecycle, OnConnection
  <1>3. DisconnectAlone /\ ClientCurrent /\ StalePromise /\ NoClientLost
    BY DEF Init, DisconnectAlone, ClientCurrent, StalePromise, NoClientLost
  <1> QED BY <1>1, <1>2, <1>3 DEF IInv

-----------------------------------------------------------------------------

\* A call enters the queue or goes straight on: nothing of the connection
\* moves.
LEMMA CallInv ==
  ASSUME IInv, NEW c \in Calls, Call(c), UNCHANGED driver PROVE IInv'
  <1>1. TypeOK'
    BY DEF Call, Goto, connection, IInv, TypeOK, CallStates
  <1>2. OneAtATime'
    BY DEF Call, Goto, connection, IInv, TypeOK, OneAtATime, Running, InLifecycle,
           Serialized, Answered
  <1>3. DisconnectAlone'
    BY DEF Call, Goto, connection, IInv, TypeOK, DisconnectAlone
  <1>4. ClientCurrent'
    BY DEF Call, Goto, connection, IInv, TypeOK, ClientCurrent
  <1>5. StalePromise'
    BY DEF Call, Goto, connection, IInv, TypeOK, StalePromise, Serialized
  <1>6. ClientHeld'
    BY DEF Call, Goto, connection, IInv, TypeOK, ClientHeld, OnConnection, Serialized
  <1>7. NoClientLost'
    BY DEF Call, Goto, connection, IInv, TypeOK, NoClientLost
  <1> QED BY <1>1, <1>2, <1>3, <1>4, <1>5, <1>6, <1>7 DEF IInv

LEMMA ExpireInv ==
  ASSUME IInv, NEW c \in Calls, Expire(c), UNCHANGED driver PROVE IInv'
  <1>1. TypeOK'
    BY DEF Expire, Goto, connection, IInv, TypeOK, CallStates
  <1>2. OneAtATime'
    BY DEF Expire, Goto, connection, IInv, TypeOK, OneAtATime, Running, InLifecycle,
           Serialized, Answered
  <1>3. DisconnectAlone'
    BY DEF Expire, Goto, connection, IInv, TypeOK, DisconnectAlone
  <1>4. ClientCurrent'
    BY DEF Expire, Goto, connection, IInv, TypeOK, ClientCurrent
  <1>5. StalePromise'
    BY DEF Expire, Goto, connection, IInv, TypeOK, StalePromise, Serialized
  <1>6. ClientHeld'
    BY DEF Expire, Goto, connection, IInv, TypeOK, ClientHeld, OnConnection, Serialized
  <1>7. NoClientLost'
    BY DEF Expire, Goto, connection, IInv, TypeOK, NoClientLost
  <1> QED BY <1>1, <1>2, <1>3, <1>4, <1>5, <1>6, <1>7 DEF IInv

\* A job starts when none is running, so what it finds is not in use.
LEMMA TurnInv ==
  ASSUME IInv, NEW c \in Calls, Turn(c), UNCHANGED driver PROVE IInv'
  <1>1. TypeOK'
    BY DEF Turn, Goto, connection, IInv, TypeOK, CallStates
  <1>2. OneAtATime'
    BY DEF Turn, Goto, connection, IInv, TypeOK, OneAtATime, Running, InLifecycle,
           Serialized, Answered
  <1>3. DisconnectAlone'
    BY DEF Turn, Goto, connection, IInv, TypeOK, DisconnectAlone
  <1>4. ClientCurrent'
    BY DEF Turn, Goto, connection, IInv, TypeOK, ClientCurrent, Running, Answered
  <1>5. StalePromise'
    BY DEF Turn, Goto, connection, IInv, TypeOK, StalePromise, Serialized, Running,
           Answered
  <1>6. ClientHeld'
    BY DEF Turn, Goto, connection, IInv, TypeOK, ClientHeld, OnConnection, Serialized,
           Running, Answered
  <1>7. NoClientLost'
    BY DEF Turn, Goto, connection, IInv, TypeOK, NoClientLost
  <1> QED BY <1>1, <1>2, <1>3, <1>4, <1>5, <1>6, <1>7 DEF IInv

\* getClient refuses, or gives what the running call may use until it ends.
LEMMA RefusedInv ==
  ASSUME IInv, NEW c \in Calls, GetClient(c), Refused(c), UNCHANGED driver PROVE IInv'
  <1>1. TypeOK'
    BY DEF GetClient, Refused, Finish, Goto, IInv, TypeOK, CallStates
  <1>2. OneAtATime'
    BY DEF GetClient, Refused, Finish, Goto, IInv, TypeOK, OneAtATime, Running,
           InLifecycle, Serialized, Answered
  <1>3. DisconnectAlone'
    BY DEF GetClient, Refused, Finish, Goto, IInv, TypeOK, DisconnectAlone
  <1>4. ClientCurrent'
    BY DEF GetClient, Refused, Finish, Goto, IInv, TypeOK, ClientCurrent
  <1>5. StalePromise'
    BY DEF GetClient, Refused, Finish, Goto, IInv, TypeOK, StalePromise, Serialized
  <1>6. ClientHeld'
    BY DEF GetClient, Refused, Finish, Goto, IInv, TypeOK, ClientHeld, OnConnection,
           Serialized
  <1>7. NoClientLost'
    BY DEF GetClient, Refused, Finish, Goto, IInv, TypeOK, NoClientLost
  <1> QED BY <1>1, <1>2, <1>3, <1>4, <1>5, <1>6, <1>7 DEF IInv

LEMMA UseClientInv ==
  ASSUME IInv, NEW c \in Calls, GetClient(c), UseClient(c), UNCHANGED driver PROVE IInv'
  <1>1. TypeOK'
    BY DEF GetClient, UseClient, Goto, IInv, TypeOK, CallStates, Onward, Kind
  <1>2. OneAtATime'
    BY DEF GetClient, UseClient, Goto, IInv, TypeOK, OneAtATime, Running, InLifecycle,
           Serialized, Answered, Onward, Kind
  <1>3. DisconnectAlone'
    BY DEF GetClient, UseClient, Goto, IInv, TypeOK, DisconnectAlone, Onward, Kind
  <1>4. ClientCurrent'
    BY DEF GetClient, UseClient, Goto, IInv, TypeOK, ClientCurrent, Onward, Kind
  <1>5. StalePromise'
    BY DEF GetClient, UseClient, Goto, IInv, TypeOK, StalePromise, Onward, Kind,
           Serialized
  <1>6. ClientHeld'
    BY DEF GetClient, UseClient, Goto, IInv, TypeOK, ClientHeld, OnConnection, Onward,
           Kind, Serialized, ClientCurrent, OneAtATime, Running, Answered
  <1>7. NoClientLost'
    BY DEF GetClient, UseClient, Goto, IInv, TypeOK, NoClientLost
  <1> QED BY <1>1, <1>2, <1>3, <1>4, <1>5, <1>6, <1>7 DEF IInv

LEMMA JoinInitInv ==
  ASSUME IInv, NEW c \in Calls, GetClient(c), JoinInit(c), UNCHANGED driver PROVE IInv'
  <1>1. TypeOK'
    BY DEF GetClient, JoinInit, Goto, IInv, TypeOK, CallStates
  <1>2. OneAtATime'
    BY DEF GetClient, JoinInit, Goto, IInv, TypeOK, OneAtATime, Running, InLifecycle,
           Serialized, Answered
  <1>3. DisconnectAlone'
    BY DEF GetClient, JoinInit, Goto, IInv, TypeOK, DisconnectAlone
  <1>4. ClientCurrent'
    BY DEF GetClient, JoinInit, Goto, IInv, TypeOK, ClientCurrent
  <1>5. StalePromise'
    BY DEF GetClient, JoinInit, Goto, IInv, TypeOK, StalePromise, Serialized
  <1>6. ClientHeld'
    BY DEF GetClient, JoinInit, Goto, IInv, TypeOK, ClientHeld, OnConnection,
           Serialized, StalePromise, OneAtATime, Running, Answered
  <1>7. NoClientLost'
    BY DEF GetClient, JoinInit, Goto, IInv, TypeOK, NoClientLost
  <1> QED BY <1>1, <1>2, <1>3, <1>4, <1>5, <1>6, <1>7 DEF IInv

\* A new initialisation starts only where there is neither client nor promise.
LEMMA StartInitInv ==
  ASSUME IInv, NEW c \in Calls, GetClient(c), StartInit(c), UNCHANGED driver PROVE IInv'
  <1>1. TypeOK'
    BY DEF GetClient, StartInit, Goto, IInv, TypeOK, CallStates
  <1>2. OneAtATime'
    BY DEF GetClient, StartInit, Goto, IInv, TypeOK, OneAtATime, Running, InLifecycle,
           Serialized, Answered
  <1>3. DisconnectAlone'
    BY DEF GetClient, StartInit, Goto, IInv, TypeOK, DisconnectAlone
  <1>4. ClientCurrent'
    BY DEF GetClient, StartInit, Goto, IInv, TypeOK, ClientCurrent, NoClientLost
  <1>5. StalePromise'
    BY DEF GetClient, StartInit, Goto, IInv, TypeOK, StalePromise, Serialized
  <1>6. ClientHeld'
    BY DEF GetClient, StartInit, Goto, IInv, TypeOK, ClientHeld, OnConnection,
           Serialized, OneAtATime, Running, Answered, ClientIds, None
  <1>7. NoClientLost'
    BY DEF GetClient, StartInit, Goto, IInv, TypeOK, NoClientLost, DisconnectAlone,
           ClientCurrent, ClientIds, None
  <1> QED BY <1>1, <1>2, <1>3, <1>4, <1>5, <1>6, <1>7 DEF IInv

\* A client appears where there was none, and is the one of the shared
\* promise.
LEMMA InitSettlesInv ==
  ASSUME IInv, NEW i \in ClientIds, InitSettles(i), UNCHANGED driver PROVE IInv'
  <1>1. TypeOK'
    BY DEF InitSettles, IInv, TypeOK, CallStates
  <1>2. OneAtATime'
    BY DEF InitSettles, IInv, TypeOK, OneAtATime, Running, InLifecycle, Serialized,
           Answered
  <1>3. DisconnectAlone'
    BY DEF InitSettles, IInv, TypeOK, DisconnectAlone
  <1>4. ClientCurrent'
    BY DEF InitSettles, IInv, TypeOK, ClientCurrent, NoClientLost, ClientIds, None
  <1>5. StalePromise'
    BY DEF InitSettles, IInv, TypeOK, StalePromise, Serialized, NoClientLost, ClientIds,
           None
  <1>6. ClientHeld'
    BY DEF InitSettles, IInv, TypeOK, ClientHeld, OnConnection, Serialized,
           NoClientLost, ClientCurrent
  <1>7. NoClientLost'
    <2>1. promise[i] = "pending" /\ client = None /\ i # None
      BY DEF InitSettles, IInv, ClientCurrent, ClientIds, None
    <2>2. \A j \in ClientIds : provider[j] # "live" /\ (promise[j] = "pending" => j = i)
      BY <2>1 DEF IInv, NoClientLost, ClientIds, None
    <2>3. \A j \in ClientIds : promise'[j] # "pending" /\ (provider'[j] = "live" => client' = j)
      BY <2>2 DEF InitSettles, IInv, TypeOK
    <2> QED BY <2>3 DEF NoClientLost
  <1> QED BY <1>1, <1>2, <1>3, <1>4, <1>5, <1>6, <1>7 DEF IInv

\* The awaited client is still the current one: nothing else has run
\* meanwhile.
LEMMA AwaitedInitInv ==
  ASSUME IInv, NEW c \in Calls, AwaitedInit(c), UNCHANGED driver PROVE IInv'
  <1>1. TypeOK'
    BY DEF AwaitedInit, Goto, Finish, connection, IInv, TypeOK, CallStates, Onward, Kind
  <1>2. OneAtATime'
    BY DEF AwaitedInit, Goto, Finish, connection, IInv, TypeOK, OneAtATime, Running,
           InLifecycle, Serialized, Answered, Onward, Kind
  <1>3. DisconnectAlone'
    BY DEF AwaitedInit, Goto, Finish, connection, IInv, TypeOK, DisconnectAlone, Onward,
           Kind
  <1>4. ClientCurrent'
    BY DEF AwaitedInit, Goto, Finish, connection, IInv, TypeOK, ClientCurrent, Onward,
           Kind
  <1>5. StalePromise'
    BY DEF AwaitedInit, Goto, Finish, connection, IInv, TypeOK, StalePromise, Onward,
           Kind, Serialized
  <1>6. ClientHeld'
    BY DEF AwaitedInit, Goto, Finish, connection, IInv, TypeOK, ClientHeld,
           OnConnection, Onward, Kind, Serialized
  <1>7. NoClientLost'
    BY DEF AwaitedInit, Goto, Finish, connection, IInv, TypeOK, NoClientLost
  <1> QED BY <1>1, <1>2, <1>3, <1>4, <1>5, <1>6, <1>7 DEF IInv

LEMMA QueryInv ==
  ASSUME IInv, NEW c \in Calls, Query(c), UNCHANGED driver PROVE IInv'
  <1>1. TypeOK'
    BY DEF Query, Goto, Finish, connection, IInv, TypeOK, CallStates, Answered
  <1>2. OneAtATime'
    BY DEF Query, Goto, Finish, connection, IInv, TypeOK, OneAtATime, Running,
           InLifecycle, Serialized, Answered
  <1>3. DisconnectAlone'
    BY DEF Query, Goto, Finish, connection, IInv, TypeOK, DisconnectAlone, Answered
  <1>4. ClientCurrent'
    BY DEF Query, Goto, Finish, connection, IInv, TypeOK, ClientCurrent
  <1>5. StalePromise'
    BY DEF Query, Goto, Finish, connection, IInv, TypeOK, StalePromise, Answered,
           Serialized
  <1>6. ClientHeld'
    BY DEF Query, Goto, Finish, connection, IInv, TypeOK, ClientHeld, OnConnection,
           Answered, Serialized
  <1>7. NoClientLost'
    BY DEF Query, Goto, Finish, connection, IInv, TypeOK, NoClientLost
  <1> QED BY <1>1, <1>2, <1>3, <1>4, <1>5, <1>6, <1>7 DEF IInv

\* The lifecycle of the only running transaction.
LEMMA BeginInv ==
  ASSUME IInv, NEW c \in Calls, Begin(c), UNCHANGED driver PROVE IInv'
  <1>1. TypeOK'
    BY DEF Begin, Goto, connection, IInv, TypeOK, CallStates
  <1>2. OneAtATime'
    BY DEF Begin, Goto, connection, IInv, TypeOK, OneAtATime, Running, InLifecycle,
           Serialized, Answered
  <1>3. DisconnectAlone'
    BY DEF Begin, Goto, connection, IInv, TypeOK, DisconnectAlone
  <1>4. ClientCurrent'
    BY DEF Begin, Goto, connection, IInv, TypeOK, ClientCurrent
  <1>5. StalePromise'
    BY DEF Begin, Goto, connection, IInv, TypeOK, StalePromise, Serialized
  <1>6. ClientHeld'
    BY DEF Begin, Goto, connection, IInv, TypeOK, ClientHeld, OnConnection, Serialized
  <1>7. NoClientLost'
    BY DEF Begin, Goto, connection, IInv, TypeOK, NoClientLost
  <1> QED BY <1>1, <1>2, <1>3, <1>4, <1>5, <1>6, <1>7 DEF IInv

LEMMA BodyInv ==
  ASSUME IInv, NEW c \in Calls, Body(c), UNCHANGED driver PROVE IInv'
  <1>1. TypeOK'
    BY DEF Body, Goto, connection, IInv, TypeOK, CallStates
  <1>2. OneAtATime'
    BY DEF Body, Goto, connection, IInv, TypeOK, OneAtATime, Running, InLifecycle,
           Serialized, Answered
  <1>3. DisconnectAlone'
    BY DEF Body, Goto, connection, IInv, TypeOK, DisconnectAlone
  <1>4. ClientCurrent'
    BY DEF Body, Goto, connection, IInv, TypeOK, ClientCurrent
  <1>5. StalePromise'
    BY DEF Body, Goto, connection, IInv, TypeOK, StalePromise, Serialized
  <1>6. ClientHeld'
    BY DEF Body, Goto, connection, IInv, TypeOK, ClientHeld, OnConnection, Serialized
  <1>7. NoClientLost'
    BY DEF Body, Goto, connection, IInv, TypeOK, NoClientLost
  <1> QED BY <1>1, <1>2, <1>3, <1>4, <1>5, <1>6, <1>7 DEF IInv

LEMMA CommitInv ==
  ASSUME IInv, NEW c \in Calls, Commit(c), UNCHANGED driver PROVE IInv'
  <1>1. TypeOK'
    BY DEF Commit, Goto, Finish, connection, IInv, TypeOK, CallStates
  <1>2. OneAtATime'
    BY DEF Commit, Goto, Finish, connection, IInv, TypeOK, OneAtATime, Running,
           InLifecycle, Serialized, Answered
  <1>3. DisconnectAlone'
    BY DEF Commit, Goto, Finish, connection, IInv, TypeOK, DisconnectAlone
  <1>4. ClientCurrent'
    BY DEF Commit, Goto, Finish, connection, IInv, TypeOK, ClientCurrent
  <1>5. StalePromise'
    BY DEF Commit, Goto, Finish, connection, IInv, TypeOK, StalePromise, Serialized
  <1>6. ClientHeld'
    BY DEF Commit, Goto, Finish, connection, IInv, TypeOK, ClientHeld, OnConnection,
           Serialized
  <1>7. NoClientLost'
    BY DEF Commit, Goto, Finish, connection, IInv, TypeOK, NoClientLost
  <1> QED BY <1>1, <1>2, <1>3, <1>4, <1>5, <1>6, <1>7 DEF IInv

LEMMA RollbackInv ==
  ASSUME IInv, NEW c \in Calls, Rollback(c), UNCHANGED driver PROVE IInv'
  <1>1. TypeOK'
    BY DEF Rollback, Goto, Finish, connection, IInv, TypeOK, CallStates
  <1>2. OneAtATime'
    BY DEF Rollback, Goto, Finish, connection, IInv, TypeOK, OneAtATime, Running,
           InLifecycle, Serialized, Answered
  <1>3. DisconnectAlone'
    BY DEF Rollback, Goto, Finish, connection, IInv, TypeOK, DisconnectAlone
  <1>4. ClientCurrent'
    BY DEF Rollback, Goto, Finish, connection, IInv, TypeOK, ClientCurrent
  <1>5. StalePromise'
    BY DEF Rollback, Goto, Finish, connection, IInv, TypeOK, StalePromise, Serialized
  <1>6. ClientHeld'
    BY DEF Rollback, Goto, Finish, connection, IInv, TypeOK, ClientHeld, OnConnection,
           Serialized
  <1>7. NoClientLost'
    BY DEF Rollback, Goto, Finish, connection, IInv, TypeOK, NoClientLost
  <1> QED BY <1>1, <1>2, <1>3, <1>4, <1>5, <1>6, <1>7 DEF IInv

\* The client is gone but its promise stays, which is why Poison has to
\* follow.
LEMMA CloseInv ==
  ASSUME IInv, NEW c \in Calls, Close(c), UNCHANGED driver PROVE IInv'
  <1>1. TypeOK'
    BY DEF Close, Goto, connection, IInv, TypeOK, CallStates
  <1>2. OneAtATime'
    BY DEF Close, Goto, connection, IInv, TypeOK, OneAtATime, Running, InLifecycle,
           Serialized, Answered
  <1>3. DisconnectAlone'
    BY DEF Close, Goto, connection, IInv, TypeOK, DisconnectAlone
  <1>4. ClientCurrent'
    BY DEF Close, Goto, connection, IInv, TypeOK, ClientCurrent
  <1>5. StalePromise'
    BY DEF Close, Goto, connection, IInv, TypeOK, StalePromise, Serialized
  <1>6. ClientHeld'
    BY DEF Close, Goto, connection, IInv, TypeOK, ClientHeld, OnConnection, Serialized,
           OneAtATime, Running, Answered
  <1>7. NoClientLost'
    BY DEF Close, Goto, connection, IInv, TypeOK, NoClientLost, ClientHeld,
           OnConnection, Serialized, OneAtATime, InLifecycle
  <1> QED BY <1>1, <1>2, <1>3, <1>4, <1>5, <1>6, <1>7 DEF IInv

LEMMA PoisonInv ==
  ASSUME IInv, NEW c \in Calls, Poison(c), UNCHANGED driver PROVE IInv'
  <1>1. TypeOK'
    BY DEF Poison, Goto, Finish, connection, IInv, TypeOK, CallStates
  <1>2. OneAtATime'
    BY DEF Poison, Goto, Finish, connection, IInv, TypeOK, OneAtATime, Running,
           InLifecycle, Serialized, Answered
  <1>3. DisconnectAlone'
    BY DEF Poison, Goto, Finish, connection, IInv, TypeOK, DisconnectAlone
  <1>4. ClientCurrent'
    BY DEF Poison, Goto, Finish, connection, IInv, TypeOK, ClientCurrent
  <1>5. StalePromise'
    BY DEF Poison, Goto, Finish, connection, IInv, TypeOK, StalePromise, Serialized
  <1>6. ClientHeld'
    BY DEF Poison, Goto, Finish, connection, IInv, TypeOK, ClientHeld, OnConnection,
           Serialized
  <1>7. NoClientLost'
    BY DEF Poison, Goto, Finish, connection, IInv, TypeOK, NoClientLost
  <1> QED BY <1>1, <1>2, <1>3, <1>4, <1>5, <1>6, <1>7 DEF IInv

\* A disconnect closes what it finds, and while it does getClient refuses.
LEMMA StartDisconnectInv ==
  ASSUME IInv, NEW c \in Calls, StartDisconnect(c), UNCHANGED driver PROVE IInv'
  <1>1. TypeOK'
    BY DEF StartDisconnect, Goto, connection, IInv, TypeOK, CallStates
  <1>2. OneAtATime'
    BY DEF StartDisconnect, Goto, connection, IInv, TypeOK, OneAtATime, Running,
           InLifecycle, Serialized, Answered
  <1>3. DisconnectAlone'
    BY DEF StartDisconnect, Goto, connection, IInv, TypeOK, DisconnectAlone
  <1>4. ClientCurrent'
    BY DEF StartDisconnect, Goto, connection, IInv, TypeOK, ClientCurrent
  <1>5. StalePromise'
    BY DEF StartDisconnect, Goto, connection, IInv, TypeOK, StalePromise, Serialized
  <1>6. ClientHeld'
    BY DEF StartDisconnect, Goto, connection, IInv, TypeOK, ClientHeld, OnConnection,
           Serialized, OneAtATime, Running, Answered
  <1>7. NoClientLost'
    BY DEF StartDisconnect, Goto, connection, IInv, TypeOK, NoClientLost
  <1> QED BY <1>1, <1>2, <1>3, <1>4, <1>5, <1>6, <1>7 DEF IInv

LEMMA AwaitInitInv ==
  ASSUME IInv, NEW c \in Calls, AwaitInit(c), UNCHANGED driver PROVE IInv'
  <1>1. TypeOK'
    BY DEF AwaitInit, Goto, connection, IInv, TypeOK, CallStates
  <1>2. OneAtATime'
    BY DEF AwaitInit, Goto, connection, IInv, TypeOK, OneAtATime, Running, InLifecycle,
           Serialized, Answered
  <1>3. DisconnectAlone'
    BY DEF AwaitInit, Goto, connection, IInv, TypeOK, DisconnectAlone, NoClientLost,
           ClientIds, None
  <1>4. ClientCurrent'
    BY DEF AwaitInit, Goto, connection, IInv, TypeOK, ClientCurrent
  <1>5. StalePromise'
    BY DEF AwaitInit, Goto, connection, IInv, TypeOK, StalePromise, Serialized
  <1>6. ClientHeld'
    BY DEF AwaitInit, Goto, connection, IInv, TypeOK, ClientHeld, OnConnection,
           Serialized, OneAtATime, Running, Answered
  <1>7. NoClientLost'
    BY DEF AwaitInit, Goto, connection, IInv, TypeOK, NoClientLost
  <1> QED BY <1>1, <1>2, <1>3, <1>4, <1>5, <1>6, <1>7 DEF IInv

LEMMA EndDisconnectInv ==
  ASSUME IInv, NEW c \in Calls, EndDisconnect(c), UNCHANGED driver PROVE IInv'
  <1>1. TypeOK'
    BY DEF EndDisconnect, Goto, connection, IInv, TypeOK, CallStates
  <1>2. OneAtATime'
    BY DEF EndDisconnect, Goto, connection, IInv, TypeOK, OneAtATime, Running,
           InLifecycle, Serialized, Answered
  <1>3. DisconnectAlone'
    BY DEF EndDisconnect, Goto, connection, IInv, TypeOK, DisconnectAlone
  <1>4. ClientCurrent'
    BY DEF EndDisconnect, Goto, connection, IInv, TypeOK, ClientCurrent
  <1>5. StalePromise'
    BY DEF EndDisconnect, Goto, connection, IInv, TypeOK, StalePromise, Serialized, None
  <1>6. ClientHeld'
    BY DEF EndDisconnect, Goto, connection, IInv, TypeOK, ClientHeld, OnConnection,
           Serialized, OneAtATime, Running, Answered
  <1>7. NoClientLost'
    BY DEF EndDisconnect, Goto, connection, IInv, TypeOK, NoClientLost, DisconnectAlone
  <1> QED BY <1>1, <1>2, <1>3, <1>4, <1>5, <1>6, <1>7 DEF IInv

LEMMA GetClientInv ==
  ASSUME IInv, NEW c \in Calls, GetClient(c), UNCHANGED driver PROVE IInv'
  <1>1. Refused(c) \/ UseClient(c) \/ JoinInit(c) \/ StartInit(c)
    BY DEF GetClient
  <1> QED BY <1>1, RefusedInv, UseClientInv, JoinInitInv, StartInitInv

-----------------------------------------------------------------------------

LEMMA StepInv == ASSUME IInv, [Next]_vars PROVE IInv'
  <1>1. ASSUME NEW c \in Calls, User(c) PROVE IInv'
    BY <1>1, CallInv, ExpireInv DEF User
  <1>2. ASSUME NEW c \in Calls, Step(c) PROVE IInv'
    <2>1. UNCHANGED driver
      BY <1>2 DEF Step
    <2>2. CASE Turn(c)            BY <2>1, <2>2, TurnInv
    <2>3. CASE GetClient(c)       BY <2>1, <2>3, GetClientInv
    <2>4. CASE AwaitedInit(c)     BY <2>1, <2>4, AwaitedInitInv
    <2>5. CASE Query(c)           BY <2>1, <2>5, QueryInv
    <2>6. CASE Begin(c)           BY <2>1, <2>6, BeginInv
    <2>7. CASE Body(c)            BY <2>1, <2>7, BodyInv
    <2>8. CASE Commit(c)          BY <2>1, <2>8, CommitInv
    <2>9. CASE Rollback(c)        BY <2>1, <2>9, RollbackInv
    <2>10. CASE Close(c)          BY <2>1, <2>10, CloseInv
    <2>11. CASE Poison(c)         BY <2>1, <2>11, PoisonInv
    <2>12. CASE StartDisconnect(c) BY <2>1, <2>12, StartDisconnectInv
    <2>13. CASE AwaitInit(c)      BY <2>1, <2>13, AwaitInitInv
    <2>14. CASE EndDisconnect(c)  BY <2>1, <2>14, EndDisconnectInv
    <2> QED BY <1>2, <2>2, <2>3, <2>4, <2>5, <2>6, <2>7, <2>8, <2>9, <2>10, <2>11, <2>12,
               <2>13, <2>14 DEF Step
  <1>3. ASSUME NEW i \in ClientIds, Initialised(i) PROVE IInv'
    BY <1>3, InitSettlesInv DEF Initialised
  <1>4. CASE UNCHANGED vars
    BY <1>4 DEF vars, IInv, TypeOK, OneAtATime, DisconnectAlone, ClientCurrent, StalePromise,
       ClientHeld, NoClientLost, Running, Serialized
  <1> QED BY <1>1, <1>2, <1>3, <1>4 DEF Next

\* The invariant behind the three theorems below, on every reachable state (getClient,
\* _disconnect, the connection queue and lease, and the lifecycle on one connection).
THEOREM ConnectionSafety == Spec => []IInv
  <1>1. Init => IInv
    BY InitInv
  <1>2. IInv /\ [Next]_vars => IInv'
    BY StepInv
  <1> QED BY <1>1, <1>2, PTL DEF Spec

\* Between the BEGIN of a transaction and the end of its cleanup nothing else is under
\* way on a driver with one connection (serializeTransactions).
THEOREM Alone == Spec => []TransactionAlone
  <1>1. IInv => TransactionAlone
    <2> SUFFICES ASSUME IInv, NEW c \in Calls, NEW d \in Calls, c # d, call[c] \in InLifecycle
                 PROVE  ~Running(d)
      BY DEF TransactionAlone
    <2>1. Serialized
      BY DEF IInv, OneAtATime
    <2>2. Running(c)
      BY DEF Running, InLifecycle, Answered
    <2> QED BY <2>1, <2>2 DEF IInv, OneAtATime
  <1> QED BY <1>1, ConnectionSafety, PTL

\* A serialized driver sends nothing to a client it has closed, not even after a failed
\* COMMIT or ROLLBACK (executeOrClose, transactionPoisonError).
THEOREM NotUsedAfterClose == Spec => []NoUseAfterClose
  <1>1. IInv => NoUseAfterClose
    BY DEF IInv, ClientHeld, NoUseAfterClose
  <1> QED BY <1>1, ConnectionSafety, PTL

\* A client that is open, or being opened, is one that a disconnect will find
\* (getClient, _disconnect).
THEOREM ClientsKept == Spec => []NoClientLost
  <1>1. IInv => NoClientLost
    BY DEF IInv
  <1> QED BY <1>1, ConnectionSafety, PTL
=============================================================================
