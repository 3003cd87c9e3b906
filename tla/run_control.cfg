SPECIFICATION LiveSpec
CONSTANTS
  k1 = k1
  k2 = k2
  c1 = c1
  s1 = s1
  Retries = {k1, k2}
  Cancels = {c1}
  Resumes = {s1}
  Attempts = 2
  MaxStalls = 1
  MaxFaults = 2
CONSTRAINTS NamesInOrder TwoOthers FaultsApart
PROPERTY QueuedRunsMove
CHECK_DEADLOCK FALSE
INVARIANTS
  QueuedRunHasAJob
  IgnoredOnlyForANewcomer
  CanceledRunIsNotRun
