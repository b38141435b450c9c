------------------------ MODULE SavepointQueueProofs ------------------------
(***************************************************************************)
(* SavepointQueue for every set of jobs: its inductive invariant, the      *)
(* exclusion and expiry properties, and that it implements SerialJobs.     *)
(***************************************************************************)
EXTENDS SavepointQueue, TLAPS

\* Appending keeps the old entries in place and adds one at the end.
LEMMA AppendFacts ==
  ASSUME NEW S, NEW s \in Seq(S), NEW e \in S
  PROVE  /\ Append(s, e) \in Seq(S)
         /\ Len(s) \in Nat
         /\ Len(Append(s, e)) = Len(s) + 1
         /\ \A i \in 1..Len(s) : Append(s, e)[i] = s[i]
         /\ Append(s, e)[Len(s) + 1] = e
  OBVIOUS

\* The empty queue of a fresh SavepointQueue satisfies the invariant.
LEMMA InitInv == Init => IInv
<1> SUFFICES ASSUME Init PROVE IInv
  OBVIOUS
<1>1. queue = <<>> /\ Len(queue) = 0 /\ queue \in Seq(Jobs) /\ head = 0
  BY DEF Init
<1>2. TypeOK
  <2>1. head \in 0..Len(queue)
    BY <1>1
  <2>2. processing \in BOOLEAN /\ flusher \in FlusherStates
    BY Zenon DEF Init, FlusherStates
  <2>3. phase \in [Jobs -> Abstract!Phases] /\ before \in [Jobs -> SUBSET Jobs]
    BY DEF Init, Abstract!Phases
  <2>4. /\ timer \in [Jobs -> {"none", "armed", "cleared", "fired"}]
        /\ abandoned \in [Jobs -> BOOLEAN]
    BY Zenon DEF Init
  <2>5. QED BY <1>1, <2>1, <2>2, <2>3, <2>4 DEF TypeOK
<1>3. PendingJobs
  BY <1>1 DEF Init, PendingJobs
<1>4. ArrayOrder /\ LoopState /\ TimerState /\ HistoryState
  BY <1>1 DEF Init, ArrayOrder, LoopState, OneAtATime, TimerState, HistoryState
<1>5. QED BY <1>2, <1>3, <1>4 DEF IInv

\* enqueue() keeps the invariant: the new job is last in the array and last in
\* the history.
LEMMA EnqueueInv ==
  ASSUME IInv, NEW j \in Jobs, Enqueue(j)
  PROVE  IInv'
<1> USE DEF IInv, Enqueue
<1>1. /\ queue' \in Seq(Jobs)
      /\ Len(queue) \in Nat
      /\ Len(queue') = Len(queue) + 1
      /\ \A i \in 1..Len(queue) : queue'[i] = queue[i]
      /\ queue'[Len(queue) + 1] = j
  BY AppendFacts DEF TypeOK
<1>2. /\ head' = head /\ head \in Nat /\ head <= Len(queue)
      /\ phase' = [phase EXCEPT ![j] = "waiting"] /\ phase \in [Jobs -> Abstract!Phases]
      /\ \A k \in Jobs : phase'[k] = IF k = j THEN "waiting" ELSE phase[k]
  BY <1>1 DEF TypeOK
<1>3. TypeOK'
  <2>1. head' \in 0..Len(queue')
    BY <1>1, <1>2
  <2>2. processing' \in BOOLEAN /\ flusher' \in FlusherStates
    BY DEF TypeOK, ScheduleFlush, FlusherStates
  <2>3. timer' \in [Jobs -> {"none", "armed", "cleared", "fired"}]
    BY DEF TypeOK
  <2>4. phase' \in [Jobs -> Abstract!Phases] /\ before' \in [Jobs -> SUBSET Jobs]
    BY DEF TypeOK, Abstract!Phases
  <2>5. QED BY <1>1, <2>1, <2>2, <2>3, <2>4 DEF TypeOK
<1>4. \A i \in 1..Len(queue) : queue[i] # j /\ queue[i] \in Jobs
  BY <1>1, <1>2 DEF PendingJobs, TypeOK
<1>5. PendingJobs'
  <2>1. \A i \in 1..head' : phase'[queue'[i]] \notin {"idle", "waiting"}
    BY <1>1, <1>2, <1>4 DEF PendingJobs
  <2>2. \A i \in (head' + 1)..Len(queue') : phase'[queue'[i]] \in {"waiting", "expired"}
    BY <1>1, <1>2, <1>4 DEF PendingJobs
  <2>3. ASSUME NEW k \in Jobs, phase'[k] = "waiting" PROVE Listed(k)'
    BY <1>1, <1>2, <2>3 DEF PendingJobs, Listed
  <2>4. \A i, k \in 1..Len(queue') : queue'[i] = queue'[k] => i = k
    BY <1>1, <1>4 DEF PendingJobs
  <2>5. QED BY <2>1, <2>2, <2>3, <2>4 DEF PendingJobs
<1>6. ArrayOrder'
  <2>1. \A k \in Jobs : before'[k] = IF k = j THEN {l \in Jobs : phase[l] # "idle"}
                                     ELSE before[k]
    BY DEF TypeOK
  <2>2. \A k \in Jobs : k # j => j \notin before[k]
    BY DEF HistoryState
  <2>3. QED BY <1>1, <1>2, <1>4, <2>1, <2>2 DEF ArrayOrder
<1>7. LoopState'
  BY <1>1, <1>2 DEF LoopState, OneAtATime, ScheduleFlush, TypeOK
<1>8. TimerState'
  BY <1>2 DEF TimerState, TypeOK
<1>9. HistoryState'
  BY <1>2 DEF HistoryState, TypeOK
<1>10. QED BY <1>3, <1>5, <1>6, <1>7, <1>8, <1>9

\* The timer callback keeps the invariant: an abandoned job stays in the array.
LEMMA MaxWaitInv ==
  ASSUME IInv, NEW j \in Jobs, MaxWaitExceeded(j)
  PROVE  IInv'
<1> USE DEF IInv, MaxWaitExceeded
<1>1. /\ phase[j] = "waiting"
      /\ \A k \in Jobs : phase'[k] = IF k = j THEN "expired" ELSE phase[k]
      /\ \A i \in 1..Len(queue) : queue[i] \in Jobs
      /\ Len(queue) \in Nat /\ head \in Nat /\ head <= Len(queue)
  BY DEF TimerState, TypeOK
<1>2. TypeOK'
  BY DEF TypeOK, Abstract!Phases, Abstract!Settled
<1>3. PendingJobs'
  BY <1>1 DEF PendingJobs, Listed
<1>4. ArrayOrder'
  BY DEF ArrayOrder
<1>5. LoopState'
  BY <1>1 DEF LoopState, OneAtATime
<1>6. TimerState'
  BY <1>1 DEF TimerState, TypeOK
<1>7. HistoryState'
  BY <1>1 DEF HistoryState
<1>8. QED BY <1>2, <1>3, <1>4, <1>5, <1>6, <1>7

\* A turn of the loop keeps the invariant.
LEMMA FlushTakeInv ==
  ASSUME IInv, FlushTake
  PROVE  IInv'
<1> DEFINE j == queue[head + 1]
<1> USE DEF IInv, FlushTake
<1>1. /\ Len(queue) \in Nat /\ head \in Nat /\ head + 1 <= Len(queue)
      /\ head + 1 \in 1..Len(queue) /\ j \in Jobs
      /\ \A i \in 1..Len(queue) : queue[i] \in Jobs
  BY DEF TypeOK
<1>2. phase[j] \in {"waiting", "expired"} /\ (abandoned[j] <=> phase[j] = "expired")
  BY <1>1 DEF PendingJobs, TimerState
<1>3. \A k \in Jobs : phase[k] # "running"
  BY DEF LoopState
<1>4. \A k \in Jobs : phase'[k] = IF k = j /\ ~abandoned[j] THEN "running" ELSE phase[k]
  BY <1>1 DEF TypeOK
<1>5. TypeOK'
  BY <1>1 DEF TypeOK, FlusherStates, ClearTimer, Abstract!Phases, Abstract!Settled
<1>6. PendingJobs'
  <2>1. \A i \in 1..head' : phase'[queue'[i]] \notin {"idle", "waiting"}
    BY <1>1, <1>2, <1>4 DEF PendingJobs
  <2>2. \A i \in (head' + 1)..Len(queue') : phase'[queue'[i]] \in {"waiting", "expired"}
    BY <1>1, <1>4 DEF PendingJobs
  <2>3. ASSUME NEW k \in Jobs, phase'[k] = "waiting" PROVE Listed(k)'
    <3>1. phase[k] = "waiting" /\ k # j
      BY <1>2, <1>4, <2>3
    <3>2. PICK i \in (head + 1)..Len(queue) : queue[i] = k
      BY <3>1 DEF PendingJobs, Listed
    <3>3. i \in (head' + 1)..Len(queue')
      BY <1>1, <3>1, <3>2
    <3>4. QED BY <3>2, <3>3 DEF Listed
  <2>4. QED BY <2>1, <2>2, <2>3 DEF PendingJobs
<1>7. ArrayOrder'
  BY <1>1 DEF ArrayOrder
<1>8. LoopState'
  BY <1>1, <1>3, <1>4 DEF LoopState, OneAtATime
<1>9. TimerState'
  <2>1. \A k \in Jobs : timer'[k] = IF k = j THEN ClearTimer(j) ELSE timer[k]
    BY <1>1 DEF TypeOK
  <2>2. ClearTimer(j) # "armed"
    BY DEF ClearTimer
  <2>3. QED BY <1>2, <1>4, <2>1, <2>2 DEF TimerState
<1>10. HistoryState'
  BY <1>1, <1>2, <1>4 DEF HistoryState, TypeOK
<1>11. QED BY <1>5, <1>6, <1>7, <1>8, <1>9, <1>10

\* The settling of the awaited job keeps the invariant.
LEMMA SettleInv ==
  ASSUME IInv, NEW j \in Jobs, Settle(j)
  PROVE  IInv'
<1> USE DEF IInv, Settle
<1>1. PICK o \in {"fulfilled", "rejected"} : phase' = [phase EXCEPT ![j] = o]
  OBVIOUS
<1>2. /\ \A k \in Jobs : phase'[k] = IF k = j THEN o ELSE phase[k]
      /\ \A i \in 1..Len(queue) : queue[i] \in Jobs
      /\ Len(queue) \in Nat /\ head \in Nat /\ head <= Len(queue)
  BY <1>1 DEF TypeOK
<1>3. TypeOK'
  BY <1>1 DEF TypeOK, FlusherStates, Abstract!Phases, Abstract!Settled
<1>4. PendingJobs'
  BY <1>2 DEF PendingJobs, Listed
<1>5. ArrayOrder'
  BY DEF ArrayOrder
<1>6. LoopState'
  BY <1>2 DEF LoopState, OneAtATime
<1>7. TimerState'
  BY <1>2 DEF TimerState
<1>8. HistoryState'
  BY <1>2 DEF HistoryState
<1>9. QED BY <1>3, <1>4, <1>5, <1>6, <1>7, <1>8

\* The end of a flush keeps the invariant: nothing that waits is dropped.
LEMMA FlushResetInv ==
  ASSUME IInv, FlushReset
  PROVE  IInv'
<1> USE DEF IInv, FlushReset
<1>1. queue' = <<>> /\ Len(queue') = 0 /\ queue' \in Seq(Jobs) /\ head' = 0
  OBVIOUS
<1>2. TypeOK'
  <2>1. head' \in 0..Len(queue')
    BY <1>1
  <2>2. processing' \in BOOLEAN /\ flusher' \in FlusherStates
    BY Zenon DEF FlusherStates
  <2>3. QED BY <1>1, <2>1, <2>2 DEF TypeOK
<1>3. \A k \in Jobs : phase[k] # "waiting"
  BY DEF PendingJobs, Listed, TypeOK
<1>4. PendingJobs'
  BY <1>1, <1>3 DEF PendingJobs
<1>5. ArrayOrder'
  BY <1>1 DEF ArrayOrder
<1>6. LoopState'
  BY DEF LoopState, OneAtATime
<1>7. TimerState'
  BY DEF TimerState
<1>8. HistoryState'
  BY DEF HistoryState
<1>9. QED BY <1>2, <1>4, <1>5, <1>6, <1>7, <1>8

\* Every step of the queue keeps the invariant.
LEMMA StepInv == IInv /\ [Next]_vars => IInv'
<1> SUFFICES ASSUME IInv, [Next]_vars PROVE IInv'
  OBVIOUS
<1>1. CASE UNCHANGED vars
  BY <1>1 DEF vars, IInv, TypeOK, PendingJobs, ArrayOrder, LoopState, OneAtATime,
              TimerState, HistoryState, Listed
<1>2. CASE Next
  BY <1>2, EnqueueInv, MaxWaitInv, SettleInv, FlushTakeInv, FlushResetInv DEF Next
<1>3. QED BY <1>1, <1>2

\* The variables of a SavepointQueue keep their types and the invariant that
\* ties the array, the loop, the timers and the callers' promises together.
THEOREM InvariantHolds == Spec => []IInv
  BY InitInv, StepInv, PTL DEF Spec

\* At most one job of a SavepointQueue runs at a time, however many callers
\* enqueue and whenever they do.
THEOREM ExclusionHolds == Spec => []OneAtATime
<1>1. IInv => OneAtATime
  BY DEF IInv, LoopState
<1>2. QED BY <1>1, InvariantHolds, PTL

\* A step of the queue is a step of the serial executor or hidden from it.
LEMMA StepRefines ==
  ASSUME IInv, [Next]_vars
  PROVE  [Abstract!JobNext]_Abstract!jobVars
<1> USE DEF Abstract!jobVars
<1>1. ASSUME NEW j \in Jobs, Enqueue(j) PROVE Abstract!JobNext
  BY <1>1 DEF Enqueue, Abstract!JobNext, Abstract!Submit
<1>2. ASSUME NEW j \in Jobs, MaxWaitExceeded(j) PROVE Abstract!JobNext
  BY <1>2 DEF MaxWaitExceeded, Abstract!JobNext, Abstract!Expire, IInv, TimerState
<1>3. ASSUME NEW j \in Jobs, Settle(j) PROVE Abstract!JobNext
  BY <1>3 DEF Settle, Abstract!JobNext, Abstract!Finish
<1>4. ASSUME FlushTake, ~abandoned[queue[head + 1]] PROVE Abstract!JobNext
  <2> DEFINE j == queue[head + 1]
  <2>1. /\ Len(queue) \in Nat /\ head \in Nat /\ head + 1 <= Len(queue)
        /\ j \in Jobs
    BY <1>4 DEF FlushTake, IInv, TypeOK
  <2>2. phase[j] = "waiting"
    BY <1>4, <2>1 DEF IInv, PendingJobs, TimerState
  <2>3. \A k \in Jobs : phase[k] # "running"
    BY <1>4 DEF FlushTake, IInv, LoopState
  <2>4. ASSUME NEW k \in before[j], phase[k] = "waiting" PROVE FALSE
    <3>1. k \in Jobs
      BY <2>1, <2>4 DEF IInv, TypeOK
    <3>2. PICK i \in (head + 1)..Len(queue) : queue[i] = k
      BY <2>4, <3>1 DEF IInv, PendingJobs, Listed
    <3>3. i # head + 1
      BY <2>1, <2>4, <3>2 DEF IInv, HistoryState
    <3>4. QED BY <2>1, <2>4, <3>2, <3>3 DEF IInv, ArrayOrder
  <2>5. phase' = [phase EXCEPT ![j] = "running"] /\ before' = before
    BY <1>4 DEF FlushTake
  <2>6. Abstract!Start(j)
    BY <2>2, <2>3, <2>4, <2>5 DEF Abstract!Start
  <2>7. QED BY <2>1, <2>6 DEF Abstract!JobNext
<1>5. ASSUME FlushTake, abandoned[queue[head + 1]] PROVE UNCHANGED Abstract!jobVars
  BY <1>5 DEF FlushTake
<1>6. ASSUME FlushReset PROVE UNCHANGED Abstract!jobVars
  BY <1>6 DEF FlushReset
<1>7. ASSUME UNCHANGED vars PROVE UNCHANGED Abstract!jobVars
  BY <1>7 DEF vars
<1>8. QED BY <1>1, <1>2, <1>3, <1>4, <1>5, <1>6, <1>7 DEF Next

\* SavepointQueue implements the serial executor its users rely on: first
\* called, first run; one at a time; never after having expired.
THEOREM QueueImplementsSerialJobs == Spec => ImplementsSerialJobs
<1>1. Init => Abstract!JobInit
  BY DEF Init, Abstract!JobInit
<1>2. IInv /\ [Next]_vars => [Abstract!JobNext]_Abstract!jobVars
  BY StepRefines
<1>3. QED
  BY <1>1, <1>2, InvariantHolds, PTL DEF Spec, Abstract!JobSpec, ImplementsSerialJobs

\* A job that was given up on never runs, and only a waiting job is given up on.
THEOREM ExpiryHolds == Spec => ExpiryOnlyWhileWaiting
<1> DEFINE A == \A j \in Jobs : /\ phase[j] = "expired" => phase'[j] = "expired"
                                /\ phase'[j] = "expired" /\ phase[j] # "expired"
                                      => phase[j] = "waiting"
<1>1. ASSUME IInv, [Next]_vars PROVE [A]_vars
  <2>1. phase \in [Jobs -> Abstract!Phases]
    BY <1>1 DEF IInv, TypeOK
  <2>2. ASSUME [Abstract!JobNext]_Abstract!jobVars PROVE A
    BY <2>1, <2>2 DEF Abstract!jobVars, Abstract!JobNext, Abstract!Submit,
                      Abstract!Start, Abstract!Finish, Abstract!Expire
  <2>3. QED BY <1>1, <2>2, StepRefines
<1>2. QED
  BY <1>1, InvariantHolds, PTL DEF Spec, ExpiryOnlyWhileWaiting
=============================================================================
