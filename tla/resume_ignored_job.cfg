\* One pausing step, one waitpoint and one call.
SPECIFICATION Spec
CONSTANTS
  Steps = {st1}
  Waitpoints = {w1}
  Calls = {k1}
  MaxAbandons = 0
  MaxStalls = 0
  MaxCrashes = 0
  MaxAborts = 0
  NoWaitpoint = NoWaitpoint
  NoStep = NoStep
  st1 = st1
  st2 = st2
  w1 = w1
  w2 = w2
  k1 = k1
  k2 = k2
SYMMETRY Symmetry
INVARIANT AcceptedSignalIsEnqueued
\* The run ends, or waits for a call that may never come.
CHECK_DEADLOCK FALSE
