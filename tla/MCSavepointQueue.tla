-------------------------- MODULE MCSavepointQueue --------------------------
(* Four callers, two of them with a wait bound: enough for a job to be      *)
(* enqueued while one runs, one is abandoned and one waits behind both.     *)
EXTENDS SavepointQueue

CONSTANTS j1, j2, j3, j4

MCJobs == {j1, j2, j3, j4}
MCBounded == {j2, j3}
=============================================================================
