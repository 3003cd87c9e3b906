\* Two updates with two faults, or three with one: failed attempts, a lost uploader,
\* a lost worker and a lease that lapses under its holder.
SPECIFICATION LiveSpec
CONSTANTS
  Jobs = {j1, j2, j3}
  MaxUploads = 3
  MaxIterations = 2
  Attempts = 2
  MaxFailures = 2
  MaxLosses = 1
  MaxStalls = 1
  MaxCrashes = 2
  MaxLapses = 1
  None = None
  j1 = j1
  j2 = j2
  j3 = j3
CONSTRAINT FourEvents
INVARIANTS NoOrphanSnapshot NothingDropped FinishAnnounced
PROPERTIES RowContract HashDrains RowCatchesUp
\* Updates are bounded: the queue is empty in the end.
CHECK_DEADLOCK FALSE
