CONSTANTS
  p1 = p1
  p2 = p2
  p3 = p3
  m1 = m1
  m2 = m2
  m3 = m3
  m4 = m4
  sq = sq
  x1 = x1
  x2 = x2
  x3 = x3
  x4 = x4
  Nobody = Nobody
  Procs = {p1, p2, p3}
  MigrationNames = {m1, m2, m3, m4, sq}
  Changes = {x1, x2, x3, x4}
  Workloads <- MCWorkloads
SPECIFICATION FairSpec
INVARIANTS EffectsAreTracked NoMigrationTwice AppliedInOrder EntriesHaveFiles
PROPERTY EveryCommandEnds
CHECK_DEADLOCK FALSE
