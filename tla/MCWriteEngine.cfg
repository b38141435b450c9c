CONSTANTS
  c1 = c1
  c2 = c2
  c3 = c3
  c4 = c4
  r1 = r1
  r2 = r2
  r3 = r3
  r4 = r4
  r5 = r5
  a = a
  b = b
  z = z
  Absent = Absent
  NoRow = NoRow
  Same = Same
  Nobody = Nobody
  Calls = {c1, c2, c3, c4}
  Rows = {r1, r2, r3, r4, r5}
  Keys = {a, b, z}
  Workloads <- MCWorkloads
SPECIFICATION FairSpec
INVARIANTS ConflictOutlivesRetry NotFoundIsTrue
PROPERTIES ImplementsAtomicWrites EveryCallIsAnswered
CHECK_DEADLOCK FALSE
