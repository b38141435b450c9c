--------------------------- MODULE SavepointQueue ---------------------------
(***************************************************************************)
(* The queue of src/src/drivers/savepoint-queue.ts.  Every transaction     *)
(* scope owns one (scopeQueue) and every driver on a single connection     *)
(* owns one (connectionQueue).  A step of the model is one uninterrupted   *)
(* run of the event loop: the synchronous part of enqueue(), one turn of   *)
(* the flush loop up to its next await, the settling of the job the loop   *)
(* awaits, or a timer callback.                                            *)
(***************************************************************************)
EXTENDS Naturals, Sequences

CONSTANTS Jobs,      \* the calls of enqueue(), each made at most once
          Bounded    \* the calls that pass a QueueWaitBound

ASSUME BoundedAssumption == Bounded \subseteq Jobs

VARIABLES queue,      \* this.queue: the jobs of the current batch
          head,       \* this.head: how many of them the loop has taken
          processing, \* this.processing
          flusher,    \* where flush() stands
          timer,      \* each job's maxWait timer
          abandoned,  \* each job's abandoned flag
          phase,      \* each job as its caller sees it
          before      \* the jobs enqueued before it (history)

queueVars == <<queue, head, processing, flusher, timer, abandoned>>
vars == <<queue, head, processing, flusher, timer, abandoned, phase, before>>

Abstract == INSTANCE SerialJobs
              WITH Jobs <- Jobs, Bounded <- Bounded, phase <- phase, before <- before

\* "scheduled": the microtask is queued; "between": the loop is about to test
\* its condition again; "awaiting": it awaits a running job.
FlusherStates == {"idle", "scheduled", "between", "awaiting"}

TypeOK == /\ queue \in Seq(Jobs)
          /\ head \in 0..Len(queue)
          /\ processing \in BOOLEAN
          /\ flusher \in FlusherStates
          /\ timer \in [Jobs -> {"none", "armed", "cleared", "fired"}]
          /\ abandoned \in [Jobs -> BOOLEAN]
          /\ phase \in [Jobs -> Abstract!Phases]
          /\ before \in [Jobs -> SUBSET Jobs]

Init == /\ queue = <<>>
        /\ head = 0
        /\ processing = FALSE
        /\ flusher = "idle"
        /\ timer = [j \in Jobs |-> "none"]
        /\ abandoned = [j \in Jobs |-> FALSE]
        /\ phase = [j \in Jobs |-> "idle"]
        /\ before = [j \in Jobs |-> {}]

-----------------------------------------------------------------------------
\* Forgets the processing flag: every enqueue schedules a flush of its own.
ScheduleFlushAlways == /\ processing' = TRUE
                       /\ flusher' = "scheduled"

ScheduleFlush ==
  IF processing
  THEN UNCHANGED <<processing, flusher>>
  ELSE /\ processing' = TRUE
       /\ flusher' = "scheduled"

\* enqueue(fn, wait): arm the timer, push the job, make sure a flush will run.
Enqueue(j) ==
  /\ phase[j] = "idle"
  /\ timer' = [timer EXCEPT ![j] = IF j \in Bounded THEN "armed" ELSE "none"]
  /\ queue' = Append(queue, j)
  /\ phase' = [phase EXCEPT ![j] = "waiting"]
  /\ before' = [before EXCEPT ![j] = {k \in Jobs : phase[k] # "idle"}]
  /\ ScheduleFlush
  /\ UNCHANGED <<head, abandoned>>

\* The timer callback raises the flag but forgets to reject the caller.
MaxWaitExceededSilently(j) ==
  /\ timer[j] = "armed"
  /\ timer' = [timer EXCEPT ![j] = "fired"]
  /\ abandoned' = [abandoned EXCEPT ![j] = TRUE]
  /\ UNCHANGED <<queue, head, processing, flusher, phase, before>>

\* The timer callback: nothing but the flag and the rejection.
MaxWaitExceeded(j) ==
  /\ timer[j] = "armed"
  /\ timer' = [timer EXCEPT ![j] = "fired"]
  /\ abandoned' = [abandoned EXCEPT ![j] = TRUE]
  /\ phase' = [phase EXCEPT ![j] = "expired"]
  /\ UNCHANGED <<queue, head, processing, flusher, before>>

\* Clears the timer of a bounded job and leaves every other timer alone.
ClearTimer(j) == IF timer[j] = "armed" THEN "cleared" ELSE timer[j]

\* The loop takes an abandoned job all the same.
FlushTakeUnchecked ==
  /\ flusher \in {"scheduled", "between"}
  /\ head < Len(queue)
  /\ LET j == queue[head + 1]
     IN /\ timer' = [timer EXCEPT ![j] = ClearTimer(j)]
        /\ phase' = [phase EXCEPT ![j] = "running"]
        /\ flusher' = "awaiting"
  /\ head' = head + 1
  /\ UNCHANGED <<queue, processing, abandoned, before>>

\* The loop takes a job but leaves its timer armed.
FlushTakeTimerLeft ==
  /\ flusher \in {"scheduled", "between"}
  /\ head < Len(queue)
  /\ LET j == queue[head + 1]
     IN IF abandoned[j]
        THEN /\ flusher' = "between"
             /\ UNCHANGED phase
        ELSE /\ phase' = [phase EXCEPT ![j] = "running"]
             /\ flusher' = "awaiting"
  /\ head' = head + 1
  /\ UNCHANGED <<queue, processing, timer, abandoned, before>>

\* One turn of the loop takes the next job; an abandoned one returns at once.
FlushTake ==
  /\ flusher \in {"scheduled", "between"}
  /\ head < Len(queue)
  /\ LET j == queue[head + 1]
     IN /\ timer' = [timer EXCEPT ![j] = ClearTimer(j)]
        /\ IF abandoned[j]
           THEN /\ flusher' = "between"
                /\ UNCHANGED phase
           ELSE /\ phase' = [phase EXCEPT ![j] = "running"]
                /\ flusher' = "awaiting"
  /\ head' = head + 1
  /\ UNCHANGED <<queue, processing, abandoned, before>>

\* The job the loop awaits settles; the caller's promise settles with it.
Settle(j) ==
  /\ flusher = "awaiting"
  /\ phase[j] = "running"
  /\ \E outcome \in {"fulfilled", "rejected"} :
        phase' = [phase EXCEPT ![j] = outcome]
  /\ flusher' = "between"
  /\ UNCHANGED <<queue, head, processing, timer, abandoned, before>>

\* Leaves the processing flag set when the batch is reset.
FlushResetKeepsFlag ==
  /\ flusher \in {"scheduled", "between"}
  /\ head = Len(queue)
  /\ queue' = <<>>
  /\ head' = 0
  /\ flusher' = "idle"
  /\ UNCHANGED <<processing, timer, abandoned, phase, before>>

\* The loop finds nothing left: the batch is dropped and the flag lowered.
FlushReset ==
  /\ flusher \in {"scheduled", "between"}
  /\ head = Len(queue)
  /\ queue' = <<>>
  /\ head' = 0
  /\ processing' = FALSE
  /\ flusher' = "idle"
  /\ UNCHANGED <<timer, abandoned, phase, before>>

Next == \/ \E j \in Jobs : Enqueue(j) \/ MaxWaitExceeded(j) \/ Settle(j)
        \/ FlushTake
        \/ FlushReset

Spec == Init /\ [][Next]_vars

\* The event loop runs its microtasks and fires its timers; nothing is assumed
\* of the functions the jobs run.
LoopFairness == /\ WF_vars(FlushTake)
                /\ WF_vars(FlushReset)
                /\ \A j \in Jobs : WF_vars(MaxWaitExceeded(j))

LoopSpec == Spec /\ LoopFairness

-----------------------------------------------------------------------------
(* Properties.                                                             *)

\* At most one job of a queue runs at any time, even when jobs are enqueued
\* while the loop is between two awaits: the flag of scheduleFlush and the
\* single flush() are what keeps two savepoints from interleaving.
OneAtATime == \A j, k \in Jobs :
                 phase[j] = "running" /\ phase[k] = "running" => j = k

\* A job that was given up on is never invoked, and a job that was invoked is
\* never given up on: a bounded-out transaction reached no BEGIN, a started
\* one is never reported as never started.
ExpiryOnlyWhileWaiting ==
  [][\A j \in Jobs : /\ phase[j] = "expired" => phase'[j] = "expired"
                     /\ phase'[j] = "expired" /\ phase[j] # "expired"
                           => phase[j] = "waiting"]_vars

\* The queue implements the serial executor: FIFO, one at a time, once each.
ImplementsSerialJobs == Abstract!JobSpec

\* A wait bound bounds the wait: a bounded job leaves the queue, started or
\* given up on, even if the job in front of it hangs forever.
BoundedWaitEnds ==
  \A j \in Bounded : phase[j] = "waiting" ~> phase[j] # "waiting"

\* No job is lost: if every function that is invoked settles, whatever is enqueued
\* settles, including what is enqueued while the loop starts or comes to its end.
FunctionsSettle == \A j \in Jobs : WF_vars(Settle(j))
EveryJobSettles ==
  FunctionsSettle => \A j \in Jobs : phase[j] = "waiting" ~> phase[j] \in Abstract!Settled

-----------------------------------------------------------------------------
(* The inductive invariant behind the safety properties.                   *)

Listed(j) == \E i \in (head + 1)..Len(queue) : queue[i] = j

\* The jobs not yet taken are exactly those that wait, plus abandoned ones.
PendingJobs ==
  /\ \A i \in 1..head : phase[queue[i]] \notin {"idle", "waiting"}
  /\ \A i \in (head + 1)..Len(queue) : phase[queue[i]] \in {"waiting", "expired"}
  /\ \A j \in Jobs : phase[j] = "waiting" => Listed(j)
  /\ \A i, k \in 1..Len(queue) : queue[i] = queue[k] => i = k

\* The array is in the order of the enqueue calls.
ArrayOrder ==
  \A i, k \in (head + 1)..Len(queue) :
     i < k => queue[k] \notin before[queue[i]]

\* Only the flush loop runs jobs, and it runs the one it awaits.
LoopState ==
  /\ \A j \in Jobs : phase[j] = "running" => flusher = "awaiting"
  /\ OneAtATime
  /\ processing <=> flusher # "idle"
  /\ flusher = "idle" => queue = <<>>

\* Timers, flags and outcomes agree.
TimerState ==
  \A j \in Jobs : /\ abandoned[j] <=> phase[j] = "expired"
                  /\ timer[j] = "armed" => phase[j] = "waiting" /\ j \in Bounded

\* A job that was never enqueued precedes nothing.
HistoryState ==
  \A j \in Jobs : /\ phase[j] = "idle" => before[j] = {}
                  /\ j \notin before[j]
                  /\ \A k \in before[j] : phase[k] # "idle"

IInv == TypeOK /\ PendingJobs /\ ArrayOrder /\ LoopState /\ TimerState /\ HistoryState
=============================================================================
