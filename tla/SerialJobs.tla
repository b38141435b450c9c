----------------------------- MODULE SerialJobs -----------------------------
(***************************************************************************)
(* What a SavepointQueue promises to the scopes that share it: jobs run    *)
(* one at a time, in the order of their enqueue calls, each at most once;  *)
(* a job with a wait bound may be given up on, but only while it waits.    *)
(* How the queue keeps the promise (an array, a head index, a flushing     *)
(* microtask) is SavepointQueue.tla, which implements this specification.  *)
(***************************************************************************)
CONSTANTS Jobs,      \* the jobs that may ever be enqueued
          Bounded    \* those enqueued with a maxWait bound

VARIABLES phase,     \* what the caller of enqueue can see of each job
          before     \* the jobs enqueued before each job (history)

jobVars == <<phase, before>>

Settled == {"fulfilled", "rejected", "expired"}
Phases  == {"idle", "waiting", "running"} \cup Settled

JobTypeOK == /\ phase \in [Jobs -> Phases]
             /\ before \in [Jobs -> SUBSET Jobs]

JobInit == /\ phase = [j \in Jobs |-> "idle"]
           /\ before = [j \in Jobs |-> {}]

\* enqueue() was called: everything called earlier goes first.
Submit(j) == /\ phase[j] = "idle"
             /\ phase' = [phase EXCEPT ![j] = "waiting"]
             /\ before' = [before EXCEPT ![j] = {k \in Jobs : phase[k] # "idle"}]

\* The queue invokes the job's function.
Start(j) == /\ phase[j] = "waiting"
            /\ \A k \in Jobs : phase[k] # "running"
            /\ \A k \in before[j] : phase[k] # "waiting"
            /\ phase' = [phase EXCEPT ![j] = "running"]
            /\ UNCHANGED before

\* The function's promise settles, and with it the promise enqueue() returned.
Finish(j) == /\ phase[j] = "running"
             /\ \E outcome \in {"fulfilled", "rejected"} :
                   phase' = [phase EXCEPT ![j] = outcome]
             /\ UNCHANGED before

\* The bound expires first: the job is rejected without having run.
Expire(j) == /\ j \in Bounded
             /\ phase[j] = "waiting"
             /\ phase' = [phase EXCEPT ![j] = "expired"]
             /\ UNCHANGED before

JobNext == \E j \in Jobs : Submit(j) \/ Start(j) \/ Finish(j) \/ Expire(j)

JobSpec == JobInit /\ [][JobNext]_jobVars
=============================================================================
