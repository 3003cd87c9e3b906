\* Three polls that time out, lose their socket or come back, two jobs, and room
\* for a second loop that must not start.
CONSTANTS
  j1 = j1
  j2 = j2
  p1 = p1
  p2 = p2
  p3 = p3
  l1 = l1
  l2 = l2
  Jobs = {j1, j2}
  Polls = {p1, p2, p3}
  Loops = {l1, l2}
  None = None
  MaxDisconnects = 2
  MaxErrors = 1
  MaxFailedReturns = 1
SPECIFICATION FairSpec
INVARIANTS
  OneLoop
  NoWaiterForgotten
  JobsAccountedFor
PROPERTIES
  EveryoneIsServed
