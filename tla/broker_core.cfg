\* Two flow runs of a project with room for one, beside a run that does not parse, a
\* job a caller waits for and a repeating job: refusals, returns, a retry, a lease that
\* lapses, a report repeated and a process that dies anywhere.
CONSTANTS
  j1 = j1
  j2 = j2
  j3 = j3
  j4 = j4
  j5 = j5
  t1 = t1
  t2 = t2
  Jobs = {j1, j2, j3, j4, j5}
  Limited = {j1, j2, j5}
  Interactive = {j3}
  Polling = {j4}
  Malformed = {j5}
  Tokens = {t1, t2}
  None = None
  Limit = 1
  MaxAttempts = 2
  MaxStalls = 1
  MaxLapses = 1
  MaxLosses = 1
  MaxLostReports = 1
  MaxUnread = 0
  MaxStaleScores = 0
  ReleaseBeatsDelay = TRUE
SYMMETRY Interchangeable
CONSTRAINT FewAtOnce
SPECIFICATION Spec
INVARIANTS
  WithinLimit
  SlotReturned
PROPERTIES
  SlotKept
  HolderAnswers
\* Every job may finish, and then nothing is left to do.
CHECK_DEADLOCK FALSE
