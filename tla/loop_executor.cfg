\* Two items of two steps: the first tolerates failures, the second may pause.
SPECIFICATION FairSpec
CONSTANTS
  N = 2
  K = 2
  Settings <- LoopSettings
  Tolerant = {1}
  Pausing = {2}
  MaxIncidents = 3
  MaxUserRetries = 1
INVARIANTS
  NoStepRepeated
  EveryItemDecided
  PauseNotAbandoned
  OwnResume
  NobodyLeftRunning
  RetriesHoldAcrossCheckpoints
PROPERTIES
  LoopEnds
\* The run may end, and nothing happens to it again.
CHECK_DEADLOCK FALSE
