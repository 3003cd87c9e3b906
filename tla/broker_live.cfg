\* Two flow runs with room for one, a lost lease, a lock that cannot be read,
\* slots that leak or age too early: both are finished in the end.
CONSTANTS
  j1 = j1
  j2 = j2
  t1 = t1
  t2 = t2
  Jobs = {j1, j2}
  Limited = {j1, j2}
  Interactive = {}
  Polling = {}
  Malformed = {}
  Tokens = {t1, t2}
  None = None
  Limit = 1
  MaxAttempts = 1
  MaxStalls = 0
  MaxLapses = 1
  MaxLosses = 0
  MaxLostReports = 0
  MaxUnread = 1
  MaxStaleScores = 1
  ReleaseBeatsDelay = FALSE
SPECIFICATION FairSpec
PROPERTIES
  EveryJobFinishes
\* Every job may finish, and then nothing is left to do.
CHECK_DEADLOCK FALSE
