\* Two pausing steps, two waitpoints, two calls and one fault.
SPECIFICATION FairSpec
CONSTANTS
  Steps = {st1, st2}
  Waitpoints = {w1, w2}
  Calls = {k1, k2}
  MaxAbandons = 1
  MaxStalls = 1
  MaxCrashes = 1
  MaxAborts = 1
  NoWaitpoint = NoWaitpoint
  NoStep = NoStep
  st1 = st1
  st2 = st2
  w1 = w1
  w2 = w2
  k1 = k1
  k2 = k2
CONSTRAINTS OneFault NamesInOrder
INVARIANTS ResumedAtMostOnce StrandedOnlyByKnownRaces OnlyThePausedStepIsResumed
PROPERTY CompletedIsTaken
\* The run ends, or waits for a call that may never come.
CHECK_DEADLOCK FALSE
