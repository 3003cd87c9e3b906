\* One item: its second step fails, the run is retried, and it pauses after a
\* tolerated failure.
SPECIFICATION Spec
CONSTANTS
  N = 1
  K = 2
  Settings <- LoopSettings
  Tolerant = {1}
  Pausing = {2}
  MaxIncidents = 3
  MaxUserRetries = 1
INVARIANT PausedActionIsInvokedAgain
\* The run may end, and nothing happens to it again.
CHECK_DEADLOCK FALSE
