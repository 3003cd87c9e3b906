\* A quorum of two over three slots, two children, and a replay of the step or a
\* lost process.
SPECIFICATION FairSpec
CONSTANTS
  Policy = "QUORUM"
  Quorum = 2
  HasTimeout = TRUE
  MaxReplays = 1
  MaxCrashes = 1
  Slots = {s1, s2, s3}
  Children = {c1, c2}
  NoChild = NoChild
  NoSlot = NoSlot
  s1 = s1
  s2 = s2
  s3 = s3
  c1 = c1
  c2 = c2
CONSTRAINTS OneFault NamesInOrder
INVARIANTS
  OneChildPerSlot
  CompletedJoinHasASignal
  AttachedChildAnswers
PROPERTIES ImplementsContract JoinResumesItsRun
\* The run that waits on the join may end, and nothing happens to it again.
CHECK_DEADLOCK FALSE
