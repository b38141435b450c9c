CONSTANT Workloads <- MCWorkloads
SPECIFICATION Spec
INVARIANTS EveryScriptRuns ReachesTarget DataKept
CHECK_DEADLOCK FALSE
