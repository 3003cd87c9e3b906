\* A webhook, two resumes that wait for an answer and one that does not, two pauses,
\* a quick retry, and a worker, an upload and an answer lost: at most four at a time.
CONSTANTS
  s1 = s1
  s2 = s2
  w1 = w1
  w2 = w2
  Webhook = webhook
  SyncResumers = {s1, s2}
  Resumers = {r1}
  Waitpoints = {w1, w2}
  Attempts = 2
  MayFail = {"worker", "upload", "answer"}
  Nobody = nobody
SPECIFICATION SyncLiveSpec
CONSTRAINTS NamesInOrder FewEvents
INVARIANTS
  NobodyIsForgotten
PROPERTIES
  FailureIsFinal
  EveryCallerIsAnswered
\* The run ends, and then nothing is left to do.
CHECK_DEADLOCK FALSE
