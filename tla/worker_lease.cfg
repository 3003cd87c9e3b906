SPECIFICATION Spec
CONSTANTS
  Calls = {c1, c2}
  Last = 2
  LockDuration = 5
  TrustTime = 2
  MaxHandOver = 1
  MaxLate = 1
  MaxStalls = 1
SYMMETRY CallSymmetry
CHECK_DEADLOCK FALSE
INVARIANTS
  OneEngine
  RunAgainOnlyIfLost
