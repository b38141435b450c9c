CONSTANTS
  j1 = j1
  j2 = j2
  j3 = j3
  j4 = j4
  Jobs <- MCJobs
  Bounded <- MCBounded
SPECIFICATION LoopSpec
PROPERTIES ExpiryOnlyWhileWaiting ImplementsSerialJobs BoundedWaitEnds EveryJobSettles
\* Every job is enqueued at most once: the model stops when all have settled.
CHECK_DEADLOCK FALSE
