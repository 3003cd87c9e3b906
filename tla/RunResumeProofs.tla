-------------------------- MODULE RunResumeProofs --------------------------
(***************************************************************************)
(* The safety of RunResume, for any steps, waitpoints, calls and bounds.   *)
(* A waitpoint is resumed by deleting its row; a run whose waitpoint rows  *)
(* are as its engine left them resumes at its own step; and a row that was *)
(* completed in time still has the PAUSED upload's look at it to come.     *)
(***************************************************************************)
EXTENDS RunResume, TLAPS

-----------------------------------------------------------------------------
(* The inductive invariant *)

\* A row that is still there was never resumed, unless the resume was aborted.
Enqueues ==
  \A w \in Waitpoints :
    /\ enqueued[w] <= 1 + aborts
    /\ row[w] \in {"absent", "PENDING", "COMPLETED"} => enqueued[w] <= aborts

\* A row belongs to the step the engine is at, or to the one the run paused at;
\* there are none while the engine runs between steps or a job waits for it.
RowsOfTheStep ==
  Faultless =>
    \A w \in Waitpoints : Exists(w) =>
      \/ engine.pc \in {"created", "flushed", "done"} /\ engine.step = stepOf[w]
         /\ (engine.pc # "created" => pausedAt = stepOf[w])
      \/ job.state = "none" /\ pausedAt = stepOf[w]

\* A run has one row at a time.
OneRow ==
  Faultless => \A v, w \in Waitpoints : Exists(v) /\ Exists(w) => v = w

\* A resume waits for the engine at the step the run paused at.
OwnStep ==
  Faultless /\ job.state = "waiting" /\ job.resumes # NoWaitpoint
    => stepOf[job.resumes] = pausedAt

\* The drain is on the status it read, unless an upload was merged since.
DrainFollows ==
  /\ drain.pc \in {"read", "written"} /\ ~merged => hash = drain.snapshot
  /\ drain.pc \in {"written", "consumed", "resuming"} => status = drain.snapshot
  /\ drain.pc = "resuming" => drain.snapshot = "PAUSED"

Last == IF hash # "none" THEN hash ELSE status

\* A run that is over, or between two jobs, was reported as what it is.
Reported ==
  Raceless /\ (engine.pc = "done" \/ job.state = "none") =>
    \/ Last = "SUCCEEDED" /\ \A w \in Waitpoints : ~Exists(w)
    \/ Last = "PAUSED" /\ \E w \in Waitpoints : Exists(w) /\ stepOf[w] = pausedAt

\* The row of the step the engine is at is there.
RowAwaited ==
  Raceless /\ engine.pc \in {"created", "flushed"} =>
    \E w \in Waitpoints : Exists(w) /\ stepOf[w] = engine.step

\* A completed row is still to be looked at by a PAUSED upload's drain.
LookToCome ==
  Raceless =>
    \A w \in Waitpoints : row[w] = "COMPLETED" =>
      \/ engine.pc \in {"created", "flushed"}
      \/ hash = "PAUSED"
      \/ drain.pc \in {"read", "written", "consumed"} /\ drain.snapshot = "PAUSED"
      \/ drain.pc = "resuming" /\ drain.resumes = w

\* A run uploaded, drained or stored as SUCCEEDED runs no more and has no row.
Over ==
  Raceless /\ "SUCCEEDED" \in {status, hash, drain.snapshot} =>
    /\ engine.pc \in {"done", "off"} /\ job.state # "waiting"
    /\ \A w \in Waitpoints : ~Exists(w)

\* A call is of a row that was created; once handled, it left no PENDING row,
\* unless it found no run. None finds a run that is over beside a row.
CallAnswered(c) ==
  /\ call[c].pc = "idle" => call[c].w = NoWaitpoint
  /\ call[c].pc # "idle" =>
       /\ row[call[c].w] # "absent"
       /\ call[c].seen = "SUCCEEDED" => ~Exists(call[c].w)
       /\ call[c].pc = "handled" /\ row[call[c].w] = "PENDING"
            => call[c].seen = "absent"

Answered == Raceless => \A c \in Calls : CallAnswered(c)

-----------------------------------------------------------------------------
(* The types *)

USE ResumeAssumption DEF Statuses

\* Idle workers and free ids are of their types.
LEMMA Constants == Idle \in DrainStates /\ NoJob \in JobStates
BY DEF Idle, NoJob, DrainStates, JobStates

\* A signal's effect on the rows and on the queue keeps their types, and never
\* takes a job away from a worker.
LEMMA ResumeTypes ==
  ASSUME TypeOK, NEW w \in Waitpoints, ResumePaused(w)
  PROVE  /\ row' \in [Waitpoints -> {"absent", "PENDING", "COMPLETED", "resumed", "dropped"}]
         /\ enqueued' \in [Waitpoints -> Nat]
         /\ job' \in JobStates /\ (job'.state = "active" <=> job.state = "active")
<1>1. CASE Exists(w) /\ Free
  BY <1>1 DEF TypeOK, ResumePaused, Enqueue, DeleteRow, JobStates, Free
<1>2. CASE Exists(w) /\ ~Free
  BY <1>2 DEF TypeOK, ResumePaused, Enqueue, DeleteRow
<1>3. CASE ~Exists(w)
  BY <1>3 DEF TypeOK, ResumePaused
<1> QED BY <1>1, <1>2, <1>3

\* The first states are of their types.
LEMMA TypeInit == Init => TypeOK
<1> SUFFICES ASSUME Init PROVE TypeOK
  OBVIOUS
<1>1. call \in [Calls -> CallStates]
      /\ \A c \in Calls : call[c].pc = "idle"
  BY DEF Init, CallStates
<1>2. drain \in DrainStates /\ drain.pc = "idle"
  BY Constants DEF Init, Idle
<1>3. job \in JobStates /\ job.state = "waiting"
  BY DEF Init, NoJob, JobStates
<1>4. engine \in EngineStates /\ engine.pc = "off"
  BY DEF Init, EngineStates
<1>5. /\ row \in [Waitpoints -> {"absent", "PENDING", "COMPLETED", "resumed", "dropped"}]
      /\ stepOf \in [Waitpoints -> Steps \cup {NoStep}]
      /\ enqueued \in [Waitpoints -> Nat]
      /\ abandons \in 0..MaxAbandons /\ stalls \in 0..MaxStalls
      /\ crashes \in 0..MaxCrashes /\ aborts \in 0..MaxAborts
  BY DEF Init
<1> QED BY <1>1, <1>2, <1>3, <1>4, <1>5 DEF Init, TypeOK

\* Every step keeps the types.
LEMMA TypeNext == TypeOK /\ [Next]_vars => TypeOK'
<1> SUFFICES ASSUME TypeOK, [Next]_vars PROVE TypeOK'
  OBVIOUS
<1> USE DEF TypeOK, uploads, faults
<1>1. CASE StartJob
  BY <1>1 DEF StartJob, JobStates, EngineStates
<1>2. CASE UploadRunning
  BY <1>2 DEF UploadRunning, Upload
<1>3. CASE UploadPaused
  BY <1>3 DEF UploadPaused, Upload, EngineStates
<1>4. CASE Finish
  BY <1>4 DEF Finish, Upload, EngineStates
<1>5. CASE CompleteJob
  BY <1>5, Constants DEF CompleteJob, NoJob, EngineStates
<1>6. ASSUME NEW s \in Steps, CreateWaitpoint(s) PROVE TypeOK'
  BY <1>6 DEF CreateWaitpoint, EngineStates
<1>7. CASE AbandonWaitpoint
  BY <1>7 DEF AbandonWaitpoint, EngineStates
<1>8. ASSUME NEW c \in Calls, NEW w \in Waitpoints, ReadStatus(c, w) PROVE TypeOK'
  <2>1. call' \in [Calls -> CallStates]
    BY <1>8 DEF ReadStatus, CallStates
  <2>2. \A d \in Calls : call'[d].pc # "idle" => call'[d].w \in Waitpoints
    BY <1>8 DEF ReadStatus
  <2> QED BY <1>8, <2>1, <2>2 DEF ReadStatus
<1>9. ASSUME NEW c \in Calls, HandleSignal(c) PROVE TypeOK'
  <2>1. call[c].w \in Waitpoints
    BY <1>9 DEF HandleSignal
  <2>2. call' \in [Calls -> CallStates]
    BY <1>9 DEF HandleSignal, CallStates
  <2>3. \A d \in Calls : call'[d].pc # "idle" => call'[d].w \in Waitpoints
    BY <1>9 DEF HandleSignal, CallStates
  <2>4. CASE ResumePaused(call[c].w) /\ UNCHANGED late
    <3> HIDE DEF TypeOK
    <3>1. /\ row' \in [Waitpoints -> {"absent", "PENDING", "COMPLETED", "resumed", "dropped"}]
          /\ enqueued' \in [Waitpoints -> Nat]
          /\ job' \in JobStates /\ (job'.state = "active" <=> job.state = "active")
      BY <2>1, <2>4, ResumeTypes
    <3> QED BY <1>9, <2>2, <2>3, <2>4, <3>1 DEF HandleSignal, TypeOK
  <2>5. CASE ResumeLater(call[c].w) /\ UNCHANGED <<job, enqueued>>
    BY <1>9, <2>1, <2>2, <2>3, <2>5 DEF HandleSignal, ResumeLater, Completed
  <2>6. CASE UNCHANGED <<row, job, enqueued, late>>
    BY <1>9, <2>2, <2>3, <2>6 DEF HandleSignal
  <2> QED BY <1>9, <2>4, <2>5, <2>6 DEF HandleSignal
<1>10. CASE DrainRead
  <2>1. drain' \in DrainStates /\ drain'.pc = "read"
    BY <1>10 DEF DrainRead, Idle, DrainStates
  <2>2. drain'.snapshot = hash
    BY <1>10 DEF DrainRead, Idle
  <2> QED BY <1>10, <2>1, <2>2 DEF DrainRead
<1>11. CASE DrainWrite
  <2>1. /\ drain' \in DrainStates /\ drain'.pc = "written"
        /\ drain'.snapshot = drain.snapshot /\ drain.snapshot \in Statuses
    BY <1>11 DEF DrainWrite, DrainStates
  <2> QED BY <1>11, <2>1 DEF DrainWrite
<1>12. CASE DrainConsume
  <2>1. /\ drain' \in DrainStates /\ drain'.pc = "consumed"
        /\ drain'.snapshot = drain.snapshot
    BY <1>12 DEF DrainConsume, DrainStates
  <2> QED BY <1>12, <2>1 DEF DrainConsume, Consumed
<1>13. CASE DrainCheck
  <2>1. drain' \in DrainStates
    BY <1>13, Constants DEF DrainCheck, PreCompleted, DrainStates
  <2>2. \/ /\ drain'.pc = "resuming" /\ drain'.resumes \in Waitpoints
           /\ drain'.snapshot = drain.snapshot
        \/ drain'.pc = "idle"
    <3>1. CASE drain.snapshot = "PAUSED" /\ PreCompleted # {}
      <4>1. PICK w \in PreCompleted :
              drain' = [drain EXCEPT !.pc = "resuming", !.resumes = w]
        BY <1>13, <3>1 DEF DrainCheck
      <4> QED BY <4>1 DEF PreCompleted, DrainStates
    <3>2. CASE drain.snapshot # "PAUSED" \/ PreCompleted = {}
      <4> HIDE DEF TypeOK, Idle, PreCompleted
      <4>1. drain' = Idle
        BY <1>13, <3>2 DEF DrainCheck
      <4> QED BY <4>1 DEF Idle
    <3> QED BY <3>1, <3>2
  <2> QED BY <1>13, <2>1, <2>2 DEF DrainCheck
<1>14. CASE DrainResume
  <2> HIDE DEF TypeOK
  <2>1. /\ row' \in [Waitpoints -> {"absent", "PENDING", "COMPLETED", "resumed", "dropped"}]
        /\ enqueued' \in [Waitpoints -> Nat]
        /\ job' \in JobStates /\ (job'.state = "active" <=> job.state = "active")
    BY <1>14, ResumeTypes DEF DrainResume, TypeOK
  <2>2. drain' \in DrainStates /\ drain'.pc = "idle"
    BY <1>14, Constants DEF DrainResume, Idle
  <2> QED BY <1>14, <2>1, <2>2 DEF DrainResume, TypeOK
<1>15. CASE LoseWorker
  BY <1>15 DEF LoseWorker, JobStates, EngineStates
<1>16. CASE CrashDrain
  BY <1>16, Constants DEF CrashDrain, Idle
<1>17. ASSUME NEW c \in Calls, AbortSignal(c) PROVE TypeOK'
  <2>1. call' \in [Calls -> CallStates] /\ call[c].w \in Waitpoints
    BY <1>17 DEF AbortSignal, CallStates
  <2>2. \A d \in Calls : call'[d].pc # "idle" => call'[d].w \in Waitpoints
    BY <1>17 DEF AbortSignal, CallStates
  <2>3. /\ job' \in JobStates /\ (job'.state = "active" <=> job.state = "active")
        /\ enqueued' \in [Waitpoints -> Nat]
    BY <1>17, <2>1 DEF AbortSignal, Enqueue, Free, JobStates
  <2> QED BY <1>17, <2>1, <2>2, <2>3 DEF AbortSignal
<1>18. CASE UNCHANGED vars
  BY <1>18 DEF vars
<1> QED
  BY <1>1, <1>2, <1>3, <1>4, <1>5, <1>6, <1>7, <1>8, <1>9, <1>10, <1>11, <1>12,
     <1>13, <1>14, <1>15, <1>16, <1>17, <1>18
     DEF Next, EngineStep, CallStep, DrainStep, Faults

\* Every variable keeps its type in every reachable state.
THEOREM TypeCorrect == Spec => []TypeOK
<1>1. TypeOK /\ [Next]_vars => TypeOK'
  BY TypeNext
<1> QED BY <1>1, TypeInit, PTL DEF Spec

-----------------------------------------------------------------------------
(* One resume per waitpoint *)

\* A step enqueues a resume only for a row it deletes, or counts it as aborted.
LEMMA EnqueuesNext == TypeOK /\ Enqueues /\ [Next]_vars => Enqueues'
<1> SUFFICES ASSUME TypeOK, Enqueues, [Next]_vars PROVE Enqueues'
  OBVIOUS
<1> USE DEF faults, uploads
<1>0. /\ aborts \in Nat /\ \A w \in Waitpoints : enqueued[w] \in Nat
      /\ row \in [Waitpoints -> {"absent", "PENDING", "COMPLETED", "resumed", "dropped"}]
      /\ enqueued \in [Waitpoints -> Nat]
  BY DEF TypeOK
<1>1. ASSUME NEW w \in Waitpoints, ResumePaused(w), UNCHANGED aborts PROVE Enqueues'
  BY <1>0, <1>1 DEF Enqueues, ResumePaused, Enqueue, DeleteRow, Free, Exists
<1>2. CASE UNCHANGED <<row, enqueued, aborts>>
  BY <1>2 DEF Enqueues
<1>3. ASSUME NEW s \in Steps, CreateWaitpoint(s) PROVE Enqueues'
  BY <1>0, <1>3 DEF Enqueues, CreateWaitpoint
<1>4. ASSUME NEW c \in Calls, HandleSignal(c) PROVE Enqueues'
  <2>1. call[c].w \in Waitpoints
    BY <1>4 DEF HandleSignal, TypeOK
  <2>2. CASE ResumeLater(call[c].w) /\ UNCHANGED <<job, enqueued>>
    BY <1>0, <1>4, <2>1, <2>2 DEF Enqueues, HandleSignal, ResumeLater, Completed
  <2> QED BY <1>1, <1>2, <1>4, <2>1, <2>2 DEF HandleSignal
<1>5. ASSUME NEW c \in Calls, AbortSignal(c) PROVE Enqueues'
  BY <1>0, <1>5 DEF Enqueues, AbortSignal, Enqueue
<1>6. CASE DrainResume
  BY <1>1, <1>6 DEF DrainResume, TypeOK
<1>7. CASE StartJob \/ UploadRunning \/ UploadPaused \/ Finish \/ CompleteJob
           \/ AbandonWaitpoint \/ LoseWorker
  BY <1>2, <1>7 DEF StartJob, UploadRunning, UploadPaused, Finish, CompleteJob,
                    AbandonWaitpoint, LoseWorker
<1>8. CASE DrainRead \/ DrainWrite \/ DrainConsume \/ DrainCheck \/ CrashDrain
  BY <1>2, <1>8 DEF DrainRead, DrainWrite, DrainConsume, DrainCheck, CrashDrain
<1>9. ASSUME NEW c \in Calls, NEW w \in Waitpoints, ReadStatus(c, w) PROVE Enqueues'
  BY <1>2, <1>9 DEF ReadStatus
<1>10. CASE UNCHANGED vars
  BY <1>2, <1>10 DEF vars
<1> QED
  BY <1>3, <1>4, <1>5, <1>6, <1>7, <1>8, <1>9, <1>10
     DEF Next, EngineStep, CallStep, DrainStep, Faults

\* A waitpoint resumes its run once, and once more for each aborted resume.
THEOREM ResumedOnce == Spec => []ResumedAtMostOnce
<1>1. Init => Enqueues
  BY DEF Init, Enqueues
<1>2. TypeOK /\ Enqueues /\ [Next]_vars => Enqueues'
  BY EnqueuesNext
<1>3. Enqueues => ResumedAtMostOnce
  BY DEF Enqueues, ResumedAtMostOnce
<1> QED BY <1>1, <1>2, <1>3, TypeCorrect, PTL DEF Spec

-----------------------------------------------------------------------------
(* A resume waits for the engine at its own step *)

Rows == RowsOfTheStep /\ OneRow /\ OwnStep

\* Between two pauses of an engine that runs, no row is left.
LEMMA NoRowWhileRunning ==
  ASSUME TypeOK, Rows, Faultless, engine.pc = "running" \/ job.state = "waiting"
  PROVE  \A w \in Waitpoints : ~Exists(w)
BY DEF TypeOK, Rows, RowsOfTheStep

\* A signal takes the run's only row, and enqueues a resume for its step.
LEMMA ResumeKeepsRows ==
  ASSUME TypeOK, Rows, NEW w \in Waitpoints, ResumePaused(w),
         UNCHANGED <<stepOf, engine, pausedAt, abandons, stalls, aborts>>
  PROVE  Rows'
<1> SUFFICES ASSUME Faultless PROVE Rows'
  BY DEF Rows, RowsOfTheStep, OneRow, OwnStep, Faultless
<1>0. row \in [Waitpoints -> {"absent", "PENDING", "COMPLETED", "resumed", "dropped"}]
  BY DEF TypeOK
<1>1. CASE ~Exists(w)
  BY <1>1 DEF Rows, RowsOfTheStep, OneRow, OwnStep, ResumePaused, Exists, Faultless
<1>2. CASE Exists(w) /\ Free
  <2>1. \A v \in Waitpoints : ~Exists(v)'
    BY <1>0, <1>2 DEF Rows, OneRow, ResumePaused, DeleteRow, Exists
  <2>2. pausedAt = stepOf[w]
    BY <1>2 DEF Rows, RowsOfTheStep, Free, TypeOK
  <2>3. job' = [state |-> "waiting", resumes |-> w]
    BY <1>2 DEF ResumePaused, Enqueue
  <2> QED BY <2>1, <2>2, <2>3 DEF Rows, RowsOfTheStep, OneRow, OwnStep
<1>3. CASE Exists(w) /\ ~Free
  <2>1. \A v \in Waitpoints : Exists(v)' => Exists(v)
    BY <1>0, <1>3 DEF ResumePaused, DeleteRow, Exists
  <2>2. job' = job
    BY <1>3 DEF ResumePaused, Enqueue
  <2> QED BY <2>1, <2>2 DEF Rows, RowsOfTheStep, OneRow, OwnStep, Faultless
<1> QED BY <1>1, <1>2, <1>3

\* Every step keeps the rows with the step that waits for them.
LEMMA RowsNext == TypeOK /\ Rows /\ [Next]_vars => Rows'
<1> SUFFICES ASSUME TypeOK, Rows, [Next]_vars PROVE Rows'
  OBVIOUS
<1> USE DEF uploads, faults
<1>1. CASE UNCHANGED <<row, stepOf, job, engine, pausedAt, abandons, stalls, aborts>>
  BY <1>1 DEF Rows, RowsOfTheStep, OneRow, OwnStep, Exists, Faultless
<1>2. CASE StartJob
  <2> SUFFICES ASSUME Faultless PROVE Rows'
    BY <1>2 DEF StartJob, Rows, RowsOfTheStep, OneRow, OwnStep, Faultless
  <2>1. \A w \in Waitpoints : ~Exists(w)'
    BY <1>2, NoRowWhileRunning DEF StartJob, Exists
  <2>2. job'.state = "active"
    BY <1>2 DEF StartJob, TypeOK, JobStates
  <2> QED BY <2>1, <2>2 DEF Rows, RowsOfTheStep, OneRow, OwnStep
<1>3. CASE UploadPaused
  <2>1. /\ engine'.step = engine.step /\ engine'.pc \in {"flushed", "done"}
        /\ pausedAt' = engine.step /\ job.state = "active"
    BY <1>3 DEF UploadPaused, TypeOK, EngineStates
  <2>2. UNCHANGED <<row, stepOf, job, abandons, stalls, aborts>>
    BY <1>3 DEF UploadPaused
  <2> QED BY <2>1, <2>2 DEF Rows, RowsOfTheStep, OneRow, OwnStep, Exists, Faultless
<1>4. CASE Finish
  <2> SUFFICES ASSUME Faultless PROVE Rows'
    BY <1>4 DEF Finish, Rows, RowsOfTheStep, OneRow, OwnStep, Faultless
  <2>1. \A w \in Waitpoints : ~Exists(w)'
    BY <1>4, NoRowWhileRunning DEF Finish, Exists
  <2>2. job'.state = "active"
    BY <1>4 DEF Finish, TypeOK
  <2> QED BY <2>1, <2>2 DEF Rows, RowsOfTheStep, OneRow, OwnStep
<1>5. CASE CompleteJob
  BY <1>5 DEF CompleteJob, NoJob, TypeOK, Rows, RowsOfTheStep, OneRow, OwnStep,
              Exists, Faultless
<1>6. ASSUME NEW s \in Steps, CreateWaitpoint(s) PROVE Rows'
  <2> SUFFICES ASSUME Faultless PROVE Rows'
    BY <1>6 DEF CreateWaitpoint, Rows, RowsOfTheStep, OneRow, OwnStep, Faultless
  <2>1. \A w \in Waitpoints : ~Exists(w)
    BY <1>6, NoRowWhileRunning DEF CreateWaitpoint
  <2>2. PICK w \in Waitpoints : /\ row' = [row EXCEPT ![w] = "PENDING"]
                                /\ stepOf' = [stepOf EXCEPT ![w] = s]
    BY <1>6, <2>1 DEF CreateWaitpoint, RowOf
  <2>3. \A v \in Waitpoints : Exists(v)' => v = w
    BY <2>1, <2>2 DEF Exists, TypeOK
  <2>4. stepOf'[w] = s
    BY <2>2 DEF TypeOK
  <2>5. engine' = [pc |-> "created", step |-> s] /\ job' = job /\ job.state = "active"
    BY <1>6 DEF CreateWaitpoint, TypeOK
  <2> QED BY <2>3, <2>4, <2>5 DEF Rows, RowsOfTheStep, OneRow, OwnStep
<1>7. CASE AbandonWaitpoint
  BY <1>7 DEF AbandonWaitpoint, Rows, RowsOfTheStep, OneRow, OwnStep, Faultless, TypeOK
<1>8. CASE LoseWorker
  BY <1>8 DEF LoseWorker, Rows, RowsOfTheStep, OneRow, OwnStep, Faultless, TypeOK
<1>9. ASSUME NEW c \in Calls, HandleSignal(c) PROVE Rows'
  <2>1. call[c].w \in Waitpoints
    BY <1>9 DEF HandleSignal, TypeOK
  <2>2. CASE ResumePaused(call[c].w)
    BY <1>9, <2>1, <2>2, ResumeKeepsRows DEF HandleSignal
  <2>3. CASE ResumeLater(call[c].w) /\ UNCHANGED <<job, enqueued>>
    <3>1. \A v \in Waitpoints : Exists(v)' <=> Exists(v)
      BY <2>1, <2>3 DEF ResumeLater, Completed, Exists, TypeOK
    <3> QED BY <1>9, <2>3, <3>1
            DEF HandleSignal, Rows, RowsOfTheStep, OneRow, OwnStep, Faultless
  <2>4. CASE UNCHANGED <<row, job>>
    BY <1>1, <1>9, <2>4 DEF HandleSignal
  <2> QED BY <1>9, <2>2, <2>3, <2>4 DEF HandleSignal
<1>10. ASSUME NEW c \in Calls, AbortSignal(c) PROVE Rows'
  BY <1>10 DEF AbortSignal, Rows, RowsOfTheStep, OneRow, OwnStep, Faultless, TypeOK
<1>11. CASE DrainResume
  BY <1>11, ResumeKeepsRows DEF DrainResume, TypeOK
<1>12. CASE DrainRead \/ DrainWrite \/ DrainConsume \/ DrainCheck \/ CrashDrain
            \/ UploadRunning
  BY <1>1, <1>12
     DEF DrainRead, DrainWrite, DrainConsume, DrainCheck, CrashDrain, UploadRunning
<1>13. ASSUME NEW c \in Calls, NEW w \in Waitpoints, ReadStatus(c, w) PROVE Rows'
  BY <1>1, <1>13 DEF ReadStatus
<1>14. CASE UNCHANGED vars
  BY <1>1, <1>14 DEF vars
<1> QED
  BY <1>2, <1>3, <1>4, <1>5, <1>6, <1>7, <1>8, <1>9, <1>10, <1>11, <1>12, <1>13, <1>14
     DEF Next, EngineStep, CallStep, DrainStep, Faults

\* The rows are with their step in every reachable state.
LEMMA RowsAlways == Spec => []Rows
<1>1. Init => Rows
  BY DEF Init, Rows, RowsOfTheStep, OneRow, OwnStep, Exists, NoJob
<1>2. TypeOK /\ Rows /\ [Next]_vars => Rows'
  BY RowsNext
<1> QED BY <1>1, <1>2, TypeCorrect, PTL DEF Spec

\* As long as no step abandoned its waitpoint, no worker was lost and every resume
\* committed, the signal a run resumes with is the one its PAUSED step waits for.
THEOREM ResumedAtItsStep == Spec => []OnlyThePausedStepIsResumed
<1>1. TypeOK /\ Rows => OnlyThePausedStepIsResumed
  BY DEF TypeOK, Rows, OwnStep, Faultless, OnlyThePausedStepIsResumed
<1> QED BY <1>1, TypeCorrect, RowsAlways, PTL

-----------------------------------------------------------------------------
(* Standing still *)

\* The drain stays on the status it read.
LEMMA DrainFollowsNext == TypeOK /\ DrainFollows /\ [Next]_vars => DrainFollows'
<1> SUFFICES ASSUME TypeOK, DrainFollows, [Next]_vars PROVE DrainFollows'
  OBVIOUS
<1> USE DEF uploads, faults
<1>1. CASE UNCHANGED <<status, drain>> /\ (merged' \/ UNCHANGED uploads)
  BY <1>1 DEF DrainFollows
<1>2. CASE DrainRead
  BY <1>2 DEF DrainRead, DrainFollows, Idle
<1>3. CASE DrainWrite
  BY <1>3 DEF DrainWrite, DrainFollows, TypeOK, DrainStates
<1>4. CASE DrainConsume
  BY <1>4 DEF DrainConsume, DrainFollows, TypeOK, DrainStates
<1>5. CASE DrainCheck
  <2>1. CASE drain' = Idle
    BY <2>1 DEF DrainFollows, Idle
  <2>2. ASSUME NEW w, drain' = [drain EXCEPT !.pc = "resuming", !.resumes = w],
               drain.snapshot = "PAUSED"
        PROVE  DrainFollows'
    BY <1>5, <2>2 DEF DrainCheck, DrainFollows, TypeOK, DrainStates
  <2> QED BY <1>5, <2>1, <2>2 DEF DrainCheck
<1>6. CASE DrainResume \/ CrashDrain
  BY <1>6 DEF DrainResume, CrashDrain, DrainFollows, Idle
<1>7. CASE StartJob \/ UploadRunning \/ UploadPaused \/ Finish \/ CompleteJob
           \/ AbandonWaitpoint \/ LoseWorker
  BY <1>1, <1>7 DEF StartJob, UploadRunning, UploadPaused, Finish, CompleteJob,
                    AbandonWaitpoint, LoseWorker, Upload
<1>8. ASSUME NEW s \in Steps, CreateWaitpoint(s) PROVE DrainFollows'
  BY <1>1, <1>8 DEF CreateWaitpoint
<1>9. ASSUME NEW c \in Calls, HandleSignal(c) \/ AbortSignal(c) PROVE DrainFollows'
  BY <1>1, <1>9 DEF HandleSignal, AbortSignal
<1>10. ASSUME NEW c \in Calls, NEW w \in Waitpoints, ReadStatus(c, w) PROVE DrainFollows'
  BY <1>1, <1>10 DEF ReadStatus
<1>11. CASE UNCHANGED vars
  BY <1>1, <1>11 DEF vars
<1> QED
  BY <1>2, <1>3, <1>4, <1>5, <1>6, <1>7, <1>8, <1>9, <1>10, <1>11
     DEF Next, EngineStep, CallStep, DrainStep, Faults

\* A signal to a run that another job holds is a race: it drops its row.
LEMMA ResumeWithoutRace ==
  ASSUME TypeOK, NEW w \in Waitpoints, ResumePaused(w), Raceless'
  PROVE  \/ UNCHANGED <<row, job>>
         \/ /\ Free /\ Exists(w) /\ job' = [state |-> "waiting", resumes |-> w]
            /\ row' = [row EXCEPT ![w] = "resumed"]
BY DEF TypeOK, Raceless, ResumePaused, Enqueue, DeleteRow, Exists

\* A race, once it has happened, is not undone.
LEMMA RacelessBefore == TypeOK /\ [Next]_vars /\ Raceless' => Raceless
<1> SUFFICES ASSUME TypeOK, [Next]_vars, Raceless' PROVE Raceless
  OBVIOUS
<1> USE DEF uploads, faults
<1>0. /\ row \in [Waitpoints -> {"absent", "PENDING", "COMPLETED", "resumed", "dropped"}]
      /\ abandons \in Nat /\ stalls \in Nat /\ crashes \in Nat /\ aborts \in Nat
  BY DEF TypeOK
<1>1. CASE UNCHANGED <<row, late, abandons, stalls, crashes, aborts>>
  BY <1>1 DEF Raceless, Faultless
<1>2. ASSUME NEW w \in Waitpoints, ResumePaused(w),
             UNCHANGED <<late, abandons, stalls, crashes, aborts>>
      PROVE  Raceless
  BY <1>0, <1>2 DEF ResumePaused, DeleteRow, Exists, Raceless, Faultless
<1>3. ASSUME NEW s \in Steps, CreateWaitpoint(s) PROVE Raceless
  BY <1>0, <1>3 DEF CreateWaitpoint, Raceless, Faultless
<1>4. ASSUME NEW c \in Calls, HandleSignal(c) PROVE Raceless
  <2>1. call[c].w \in Waitpoints
    BY <1>4 DEF HandleSignal, TypeOK
  <2>2. CASE ResumeLater(call[c].w)
    BY <1>0, <1>4, <2>1, <2>2 DEF HandleSignal, ResumeLater, Completed, Raceless, Faultless
  <2> QED BY <1>1, <1>2, <1>4, <2>1, <2>2 DEF HandleSignal
<1>5. CASE DrainResume
  BY <1>2, <1>5 DEF DrainResume, TypeOK
<1>6. CASE AbandonWaitpoint \/ LoseWorker \/ CrashDrain
  BY <1>0, <1>6 DEF AbandonWaitpoint, LoseWorker, CrashDrain, Raceless, Faultless
<1>7. ASSUME NEW c \in Calls, AbortSignal(c) PROVE Raceless
  BY <1>0, <1>7 DEF AbortSignal, Raceless, Faultless
<1>8. CASE StartJob \/ UploadRunning \/ UploadPaused \/ Finish \/ CompleteJob
  BY <1>1, <1>8 DEF StartJob, UploadRunning, UploadPaused, Finish, CompleteJob
<1>9. CASE DrainRead \/ DrainWrite \/ DrainConsume \/ DrainCheck
  BY <1>1, <1>9 DEF DrainRead, DrainWrite, DrainConsume, DrainCheck
<1>10. ASSUME NEW c \in Calls, NEW w \in Waitpoints, ReadStatus(c, w) PROVE Raceless
  BY <1>1, <1>10 DEF ReadStatus
<1>11. CASE UNCHANGED vars
  BY <1>1, <1>11 DEF vars
<1> QED
  BY <1>3, <1>4, <1>5, <1>6, <1>7, <1>8, <1>9, <1>10, <1>11
     DEF Next, EngineStep, CallStep, DrainStep, Faults

Standing == Reported /\ RowAwaited /\ LookToCome

\* What an action must leave alone for the three parts to stand.
LEMMA StandingUnchanged ==
  ASSUME Standing, Raceless,
         UNCHANGED <<stepOf, engine, pausedAt, status, hash, drain>>,
         \A w \in Waitpoints : Exists(w)' <=> Exists(w),
         \A w \in Waitpoints : row'[w] = "COMPLETED" => row[w] = "COMPLETED",
         job'.state = "none" <=> job.state = "none"
  PROVE  Standing'
BY DEF Standing, Reported, RowAwaited, LookToCome, Last

\* A signal that resumes the run takes its row; the engine is not there.
LEMMA ResumeKeepsStanding ==
  ASSUME TypeOK, Rows, Standing, Raceless, Raceless', NEW w \in Waitpoints,
         ResumePaused(w), UNCHANGED <<stepOf, engine, pausedAt, status, hash>>
  PROVE  /\ Reported' /\ RowAwaited'
         /\ (row' = row /\ job' = job) \/ \A v \in Waitpoints : ~Exists(v)'
<1>1. CASE UNCHANGED <<row, job>>
  BY <1>1 DEF Standing, Reported, RowAwaited, Last, Exists
<1>2. CASE Free /\ Exists(w) /\ job' = [state |-> "waiting", resumes |-> w]
           /\ row' = [row EXCEPT ![w] = "resumed"]
  <2>1. \A v \in Waitpoints : ~Exists(v)'
    BY <1>2 DEF TypeOK, Rows, OneRow, Raceless, Exists
  <2>2. engine'.pc = "off" /\ job'.state = "waiting"
    BY <1>2 DEF Free, TypeOK
  <2> QED BY <2>1, <2>2 DEF Reported, RowAwaited
<1> QED BY <1>1, <1>2, ResumeWithoutRace

\* A run completed in time, by a call that found it not PAUSED yet, has its
\* PAUSED upload to come or on its way.
LEMMA CompletedInTime ==
  ASSUME TypeOK, Rows, Standing, Raceless, NEW w \in Waitpoints, Exists(w),
         status # "PAUSED"
  PROVE  engine.pc \in {"created", "flushed"} \/ hash = "PAUSED"
<1>1. CASE engine.pc = "done" \/ job.state = "none"
  BY <1>1 DEF Standing, Reported, Last
<1> QED BY <1>1 DEF Rows, RowsOfTheStep, Raceless

\* Every step keeps a run that stands still explained.
LEMMA StandingNext ==
  TypeOK /\ Rows /\ DrainFollows /\ Standing /\ [Next]_vars => Standing'
<1> SUFFICES ASSUME TypeOK, Rows, DrainFollows, Standing, [Next]_vars, Raceless'
             PROVE  Standing'
  BY DEF Standing, Reported, RowAwaited, LookToCome
<1> USE DEF uploads, faults
<1>0. Raceless /\ Faultless
  BY RacelessBefore DEF Raceless
<1>1. CASE UNCHANGED <<stepOf, engine, pausedAt, status, hash, drain, row, job>>
  BY <1>0, <1>1, StandingUnchanged DEF Exists
<1>2. CASE StartJob
  <2>1. \A w \in Waitpoints : ~Exists(w)'
    BY <1>0, <1>2, NoRowWhileRunning DEF StartJob, Exists
  <2>2. engine'.pc = "running" /\ job'.state = "active"
    BY <1>2 DEF StartJob, TypeOK, JobStates
  <2> QED BY <2>1, <2>2 DEF Standing, Reported, RowAwaited, LookToCome, Exists
<1>3. CASE UploadRunning
  <2>1. CASE engine.pc = "running"
    <3>1. \A w \in Waitpoints : ~Exists(w)'
      BY <1>0, <1>3, <2>1, NoRowWhileRunning DEF UploadRunning, Exists
    <3> QED BY <1>3, <2>1, <3>1
            DEF UploadRunning, TypeOK, Standing, Reported, RowAwaited, LookToCome, Exists
  <2>2. CASE engine.pc = "created"
    BY <1>0, <1>3, <2>2
       DEF UploadRunning, TypeOK, Standing, Reported, RowAwaited, LookToCome, Exists
  <2> QED BY <1>3, <2>1, <2>2 DEF UploadRunning
<1>4. CASE UploadPaused
  <2>1. /\ hash' = "PAUSED" /\ engine'.step = engine.step /\ pausedAt' = engine.step
        /\ engine'.pc \in {"flushed", "done"}
    BY <1>4 DEF UploadPaused, Upload, TypeOK, EngineStates
  <2>2. PICK w \in Waitpoints : Exists(w)' /\ stepOf'[w] = engine.step
    BY <1>0, <1>4 DEF UploadPaused, Standing, RowAwaited, Exists
  <2> QED BY <2>1, <2>2 DEF Standing, Reported, RowAwaited, LookToCome, Last
<1>5. CASE Finish
  <2>1. \A w \in Waitpoints : ~Exists(w)'
    BY <1>0, <1>5, NoRowWhileRunning DEF Finish, Exists
  <2>2. hash' = "SUCCEEDED" /\ engine'.pc = "done"
    BY <1>5 DEF Finish, Upload, TypeOK, EngineStates
  <2> QED BY <2>1, <2>2 DEF Standing, Reported, RowAwaited, LookToCome, Last, Exists
<1>6. CASE CompleteJob
  <2>1. engine'.pc = "off" /\ engine.pc = "done"
    BY <1>6 DEF CompleteJob
  <2> QED BY <1>0, <1>6, <2>1
          DEF CompleteJob, Standing, Reported, RowAwaited, LookToCome, Last, Exists
<1>7. ASSUME NEW s \in Steps, CreateWaitpoint(s) PROVE Standing'
  <2>1. \A w \in Waitpoints : ~Exists(w)
    BY <1>0, <1>7, NoRowWhileRunning DEF CreateWaitpoint
  <2>2. PICK w \in Waitpoints : /\ row' = [row EXCEPT ![w] = "PENDING"]
                                /\ stepOf' = [stepOf EXCEPT ![w] = s]
    BY <1>7, <2>1 DEF CreateWaitpoint, RowOf
  <2>3. Exists(w)' /\ stepOf'[w] = s /\ \A v \in Waitpoints : row'[v] # "COMPLETED"
    BY <2>1, <2>2 DEF Exists, TypeOK
  <2>4. engine' = [pc |-> "created", step |-> s] /\ job' = job /\ job.state = "active"
    BY <1>7 DEF CreateWaitpoint, TypeOK
  <2> QED BY <2>3, <2>4 DEF Standing, Reported, RowAwaited, LookToCome
<1>8. CASE AbandonWaitpoint \/ LoseWorker \/ CrashDrain
  <2>1. abandons \in Nat /\ stalls \in Nat /\ crashes \in Nat
    BY DEF TypeOK
  <2> QED BY <1>0, <1>8, <2>1
          DEF AbandonWaitpoint, LoseWorker, CrashDrain, Raceless, Faultless
<1>9. ASSUME NEW c \in Calls, HandleSignal(c) PROVE Standing'
  <2>1. call[c].w \in Waitpoints
    BY <1>9 DEF HandleSignal, TypeOK
  <2>2. UNCHANGED <<stepOf, engine, pausedAt, status, hash, drain>>
    BY <1>9 DEF HandleSignal
  <2>3. CASE ResumePaused(call[c].w)
    <3>1. /\ Reported' /\ RowAwaited'
          /\ (row' = row /\ job' = job) \/ \A v \in Waitpoints : ~Exists(v)'
      BY <1>0, <2>1, <2>2, <2>3, ResumeKeepsStanding
    <3> QED BY <1>0, <2>2, <3>1 DEF Standing, LookToCome, Exists
  <2>4. CASE ResumeLater(call[c].w) /\ UNCHANGED <<job, enqueued>>
    <3>1. CASE row[call[c].w] # "PENDING"
      BY <1>1, <2>2, <2>4, <3>1 DEF ResumeLater
    <3>2. CASE row[call[c].w] = "PENDING"
      <4>1. row' = [row EXCEPT ![call[c].w] = "COMPLETED"] /\ status # "PAUSED"
        BY <2>4, <3>2 DEF ResumeLater, Completed, OutOfDate, Raceless
      <4>2. \A v \in Waitpoints : Exists(v)' <=> Exists(v)
        BY <2>1, <3>2, <4>1 DEF Exists, TypeOK
      <4>3. engine.pc \in {"created", "flushed"} \/ hash = "PAUSED"
        BY <1>0, <2>1, <3>2, <4>1, CompletedInTime DEF Exists
      <4> QED BY <1>0, <2>2, <2>4, <4>2, <4>3
              DEF Standing, Reported, RowAwaited, LookToCome, Last
    <3> QED BY <3>1, <3>2
  <2>5. CASE UNCHANGED <<row, job>>
    BY <1>1, <2>2, <2>5
  <2> QED BY <1>9, <2>3, <2>4, <2>5 DEF HandleSignal
<1>10. ASSUME NEW c \in Calls, AbortSignal(c) PROVE Standing'
  <2>1. aborts \in Nat
    BY DEF TypeOK
  <2> QED BY <1>0, <1>10, <2>1 DEF AbortSignal, Raceless, Faultless
<1>11. CASE DrainRead
  <2>1. drain'.pc = "read" /\ drain'.snapshot = hash /\ drain.pc = "idle"
    BY <1>11 DEF DrainRead, Idle
  <2> QED BY <1>0, <1>11, <2>1
          DEF DrainRead, Standing, Reported, RowAwaited, LookToCome, Last, Exists
<1>12. CASE DrainWrite
  <2>1. /\ drain'.pc = "written" /\ drain'.snapshot = drain.snapshot
        /\ hash # "none" /\ drain.pc = "read"
    BY <1>12 DEF DrainWrite, TypeOK, DrainStates
  <2> QED BY <1>0, <1>12, <2>1
          DEF DrainWrite, Standing, Reported, RowAwaited, LookToCome, Last, Exists
<1>13. CASE DrainConsume
  <2>1. /\ drain'.pc = "consumed" /\ drain'.snapshot = drain.snapshot
        /\ hash # "none" /\ drain.pc = "written"
    BY <1>13 DEF DrainConsume, TypeOK, DrainStates
  <2>2. \/ hash' = hash
        \/ hash' = "none" /\ hash = status /\ hash = drain.snapshot
    BY <1>13 DEF DrainConsume, Consumed, DrainFollows
  <2> QED BY <1>0, <1>13, <2>1, <2>2
          DEF DrainConsume, Standing, Reported, RowAwaited, LookToCome, Last, Exists
<1>14. CASE DrainCheck
  <2>1. Reported' /\ RowAwaited'
    BY <1>0, <1>14 DEF DrainCheck, Standing, Reported, RowAwaited, Last, Exists
  <2>2. ASSUME NEW w \in Waitpoints, row[w] = "COMPLETED", drain.snapshot = "PAUSED"
        PROVE  drain'.pc = "resuming" /\ drain'.resumes = w
    <3>1. PICK v \in PreCompleted :
            drain' = [drain EXCEPT !.pc = "resuming", !.resumes = v]
      BY <1>14, <2>2 DEF DrainCheck, PreCompleted
    <3>2. v = w
      BY <1>0, <2>2 DEF PreCompleted, Rows, OneRow, Exists
    <3> QED BY <3>1, <3>2 DEF TypeOK, DrainStates
  <2>3. UNCHANGED <<row, hash, engine>> /\ drain.pc = "consumed"
    BY <1>14 DEF DrainCheck
  <2> QED BY <1>0, <2>1, <2>2, <2>3 DEF Standing, LookToCome
<1>15. CASE DrainResume
  <2>1. drain.resumes \in Waitpoints /\ ResumePaused(drain.resumes)
    BY <1>15 DEF DrainResume, TypeOK
  <2>2. /\ Reported' /\ RowAwaited'
        /\ (row' = row /\ job' = job) \/ \A v \in Waitpoints : ~Exists(v)'
    BY <1>0, <1>15, <2>1, ResumeKeepsStanding DEF DrainResume
  <2>3. row'[drain.resumes] # "COMPLETED"
    BY <2>1 DEF ResumePaused, DeleteRow, Exists, TypeOK
  <2>4. UNCHANGED <<hash, engine>> /\ drain.pc = "resuming"
    BY <1>15 DEF DrainResume
  <2>5. LookToCome'
    BY <1>0, <2>2, <2>3, <2>4 DEF Standing, LookToCome, Exists
  <2> QED BY <2>2, <2>5 DEF Standing
<1>16. ASSUME NEW c \in Calls, NEW w \in Waitpoints, ReadStatus(c, w) PROVE Standing'
  BY <1>1, <1>16 DEF ReadStatus
<1>17. CASE UNCHANGED vars
  BY <1>1, <1>17 DEF vars
<1> QED
  BY <1>2, <1>3, <1>4, <1>5, <1>6, <1>7, <1>8, <1>9, <1>10, <1>11, <1>12, <1>13,
     <1>14, <1>15, <1>16, <1>17
     DEF Next, EngineStep, CallStep, DrainStep, Faults

\* A run that is over stays over: only a row could bring a job.
LEMMA OverNext == TypeOK /\ Rows /\ Over /\ [Next]_vars => Over'
<1> SUFFICES ASSUME TypeOK, Rows, Over, [Next]_vars, Raceless' PROVE Over'
  BY DEF Over
<1> USE DEF uploads, faults
<1>0. Raceless /\ Faultless
  BY RacelessBefore DEF Raceless
<1>1. CASE UNCHANGED <<engine, row, job>>
           /\ {status', hash', drain'.snapshot}
                \subseteq {status, hash, drain.snapshot, "none"}
  BY <1>0, <1>1 DEF Over, Exists
<1>2. ASSUME UNCHANGED <<status, hash>>, drain' \in {drain, Idle},
             NEW w \in Waitpoints, ResumePaused(w), UNCHANGED engine
      PROVE  Over'
  <2>1. CASE UNCHANGED <<row, job>>
    BY <1>1, <1>2, <2>1 DEF Idle
  <2>2. CASE Exists(w)
    BY <1>0, <1>2, <2>2 DEF Over, Idle
  <2> QED BY <1>2, <2>1, <2>2, ResumeWithoutRace
<1>3. CASE StartJob \/ UploadRunning \/ UploadPaused
  <2>1. "SUCCEEDED" \notin {status, hash, drain.snapshot}
    BY <1>0, <1>3 DEF StartJob, UploadRunning, UploadPaused, Over, TypeOK
  <2> QED BY <1>3, <2>1 DEF StartJob, UploadRunning, UploadPaused, Upload, Over
<1>4. CASE Finish
  <2>1. \A w \in Waitpoints : ~Exists(w)'
    BY <1>0, <1>4, NoRowWhileRunning DEF Finish, Exists
  <2> QED BY <1>4, <2>1 DEF Finish, Over, TypeOK, EngineStates
<1>5. CASE CompleteJob
  BY <1>0, <1>5 DEF CompleteJob, NoJob, Over, Exists
<1>6. ASSUME NEW s \in Steps, CreateWaitpoint(s) PROVE Over'
  BY <1>0, <1>6 DEF CreateWaitpoint, Over
<1>7. ASSUME NEW c \in Calls, HandleSignal(c) PROVE Over'
  <2>1. call[c].w \in Waitpoints
    BY <1>7 DEF HandleSignal, TypeOK
  <2>2. CASE ResumePaused(call[c].w)
    <3>1. UNCHANGED <<status, hash>> /\ drain' \in {drain, Idle} /\ UNCHANGED engine
      BY <1>7 DEF HandleSignal
    <3> QED BY <1>2, <2>1, <2>2, <3>1
  <2>3. CASE ResumeLater(call[c].w) /\ UNCHANGED <<job, enqueued>>
    <3>1. \A v \in Waitpoints : Exists(v)' <=> Exists(v)
      BY <2>1, <2>3 DEF ResumeLater, Completed, Exists, TypeOK
    <3> QED BY <1>0, <1>7, <2>3, <3>1 DEF HandleSignal, Over
  <2>4. CASE UNCHANGED <<row, job>>
    BY <1>1, <1>7, <2>4 DEF HandleSignal
  <2> QED BY <1>7, <2>2, <2>3, <2>4 DEF HandleSignal
<1>8. CASE AbandonWaitpoint \/ LoseWorker \/ CrashDrain
  <2>1. abandons \in Nat /\ stalls \in Nat /\ crashes \in Nat
    BY DEF TypeOK
  <2> QED BY <1>0, <1>8, <2>1
          DEF AbandonWaitpoint, LoseWorker, CrashDrain, Raceless, Faultless
<1>9. ASSUME NEW c \in Calls, AbortSignal(c) PROVE Over'
  <2>1. aborts \in Nat
    BY DEF TypeOK
  <2> QED BY <1>0, <1>9, <2>1 DEF AbortSignal, Raceless, Faultless
<1>10. CASE DrainRead \/ DrainWrite \/ DrainConsume
  BY <1>1, <1>10
     DEF DrainRead, DrainWrite, DrainConsume, Consumed, Idle, TypeOK, DrainStates
<1>11. CASE DrainCheck
  <2>1. drain'.snapshot \in {drain.snapshot, "none"}
    <3>1. CASE drain' = Idle
      BY <3>1 DEF Idle
    <3>2. ASSUME NEW w \in PreCompleted,
                 drain' = [drain EXCEPT !.pc = "resuming", !.resumes = w]
          PROVE  drain'.snapshot = drain.snapshot
      BY <3>2 DEF TypeOK, DrainStates
    <3> QED BY <1>11, <3>1, <3>2 DEF DrainCheck
  <2> QED BY <1>1, <1>11, <2>1 DEF DrainCheck
<1>12. CASE DrainResume
  BY <1>2, <1>12 DEF DrainResume, TypeOK
<1>13. ASSUME NEW c \in Calls, NEW w \in Waitpoints, ReadStatus(c, w) PROVE Over'
  BY <1>1, <1>13 DEF ReadStatus
<1>14. CASE UNCHANGED vars
  BY <1>1, <1>14 DEF vars
<1> QED
  BY <1>3, <1>4, <1>5, <1>6, <1>7, <1>8, <1>9, <1>10, <1>11, <1>12, <1>13, <1>14
     DEF Next, EngineStep, CallStep, DrainStep, Faults

\* What the rows must do for the calls made to stay answered: none comes back,
\* none is PENDING again.
LEMMA AnsweredUnchanged ==
  ASSUME TypeOK, Answered, Raceless, UNCHANGED call,
         \A w \in Waitpoints : row[w] # "absent" =>
           /\ row'[w] # "absent"
           /\ row'[w] = "PENDING" => row[w] = "PENDING"
           /\ row'[w] \in {"PENDING", "COMPLETED"} => Exists(w)
  PROVE  Answered'
BY DEF TypeOK, Answered, CallAnswered, Exists

\* Every step keeps the calls answered.
LEMMA AnsweredNext == TypeOK /\ Over /\ Answered /\ [Next]_vars => Answered'
<1> SUFFICES ASSUME TypeOK, Over, Answered, [Next]_vars, Raceless' PROVE Answered'
  BY DEF Answered
<1> USE DEF uploads, faults
<1>0. Raceless /\ row \in [Waitpoints -> {"absent", "PENDING", "COMPLETED", "resumed", "dropped"}]
  BY RacelessBefore DEF TypeOK
<1>1. CASE UNCHANGED <<row, call>>
  BY <1>0, <1>1, AnsweredUnchanged DEF Exists
<1>2. ASSUME NEW c \in Calls, NEW w \in Waitpoints, ReadStatus(c, w) PROVE Answered'
  <2>1. call' = [call EXCEPT ![c] = [pc |-> "read", w |-> w, seen |-> status]]
        /\ row[w] # "absent" /\ row' = row
    BY <1>2 DEF ReadStatus
  <2>2. status = "SUCCEEDED" => ~Exists(w)
    BY <1>0 DEF Over
  <2>3. call'[c] = [pc |-> "read", w |-> w, seen |-> status]
        /\ \A d \in Calls : d # c => call'[d] = call[d]
    BY <2>1 DEF TypeOK
  <2> QED BY <1>0, <2>1, <2>2, <2>3 DEF Answered, CallAnswered, Exists
<1>3. ASSUME NEW c \in Calls, HandleSignal(c) PROVE Answered'
  <2>1. /\ call[c].w \in Waitpoints /\ call[c].pc = "read"
        /\ call[c].seen \in Statuses \cup {"absent"}
    BY <1>3 DEF HandleSignal, TypeOK, CallStates
  <2>2. /\ call'[c].pc = "handled" /\ call'[c].w = call[c].w
        /\ call'[c].seen = call[c].seen
        /\ \A d \in Calls : d # c => call'[d] = call[d]
    BY <1>3 DEF HandleSignal, TypeOK, CallStates
  <2>3. \A v \in Waitpoints : row[v] # "absent" =>
          /\ row'[v] # "absent"
          /\ row'[v] = "PENDING" => row[v] = "PENDING"
          /\ row'[v] \in {"PENDING", "COMPLETED"} => Exists(v)
    BY <1>0, <1>3, <2>1
       DEF HandleSignal, ResumePaused, DeleteRow, ResumeLater, Completed, Exists
  <2>4. row'[call[c].w] = "PENDING" => call[c].seen \in {"SUCCEEDED", "absent"}
    BY <1>0, <1>3, <2>1
       DEF HandleSignal, ResumePaused, DeleteRow, ResumeLater, Completed, Exists
  <2>5. row[call[c].w] # "absent" /\ (call[c].seen = "SUCCEEDED" => ~Exists(call[c].w))
    BY <1>0, <2>1 DEF Answered, CallAnswered
  <2>6. CallAnswered(c)'
    BY <2>1, <2>2, <2>3, <2>4, <2>5 DEF CallAnswered, Exists
  <2>7. ASSUME NEW d \in Calls, d # c PROVE CallAnswered(d)'
    <3>1. call'[d] = call[d] /\ (call[d].pc # "idle" => call[d].w \in Waitpoints)
      BY <2>2, <2>7 DEF TypeOK
    <3>2. CallAnswered(d)
      BY <1>0 DEF Answered
    <3> QED BY <2>3, <3>1, <3>2 DEF CallAnswered, Exists
  <2> QED BY <2>6, <2>7 DEF Answered
<1>4. ASSUME NEW c \in Calls, AbortSignal(c) PROVE Answered'
  <2>1. aborts \in Nat
    BY DEF TypeOK
  <2> QED BY <1>0, <1>4, <2>1 DEF AbortSignal, Raceless, Faultless
<1>5. ASSUME NEW s \in Steps, CreateWaitpoint(s) PROVE Answered'
  BY <1>0, <1>5, AnsweredUnchanged DEF CreateWaitpoint, Exists
<1>6. CASE DrainResume
  <2>1. drain.resumes \in Waitpoints /\ ResumePaused(drain.resumes) /\ UNCHANGED call
    BY <1>6 DEF DrainResume, TypeOK
  <2> QED BY <1>0, <2>1, AnsweredUnchanged DEF ResumePaused, DeleteRow, Exists
<1>7. CASE StartJob \/ UploadRunning \/ UploadPaused \/ Finish \/ CompleteJob
           \/ AbandonWaitpoint \/ LoseWorker
  BY <1>1, <1>7 DEF StartJob, UploadRunning, UploadPaused, Finish, CompleteJob,
                    AbandonWaitpoint, LoseWorker
<1>8. CASE DrainRead \/ DrainWrite \/ DrainConsume \/ DrainCheck \/ CrashDrain
  BY <1>1, <1>8 DEF DrainRead, DrainWrite, DrainConsume, DrainCheck, CrashDrain
<1>9. CASE UNCHANGED vars
  BY <1>1, <1>9 DEF vars
<1> QED
  BY <1>2, <1>3, <1>4, <1>5, <1>6, <1>7, <1>8, <1>9
     DEF Next, EngineStep, CallStep, DrainStep, Faults

\* With nothing under way a run is finished, or waits for a waitpoint that no call
\* but one from before the run was stored has been made for, unless one of the
\* three races of the code has happened.
THEOREM OnlyKnownRacesStrand == Spec => []StrandedOnlyByKnownRaces
<1>1. Init => DrainFollows /\ Standing /\ Over /\ Answered
  BY DEF Init, Idle, NoJob, DrainFollows, Standing, Reported, RowAwaited, LookToCome,
         Over, Answered, CallAnswered
<1>2. TypeOK /\ DrainFollows /\ [Next]_vars => DrainFollows'
  BY DrainFollowsNext
<1>3. TypeOK /\ Rows /\ DrainFollows /\ Standing /\ [Next]_vars => Standing'
  BY StandingNext
<1>4. TypeOK /\ Standing /\ Answered => StrandedOnlyByKnownRaces
  <2> SUFFICES ASSUME TypeOK, Standing, Answered, Quiet, Raceless, status # "SUCCEEDED"
               PROVE  /\ status = "PAUSED"
                      /\ \E w \in RowOf(pausedAt) :
                           /\ row[w] = "PENDING"
                           /\ \A c \in Calls : call[c].w = w => call[c].seen = "absent"
    BY DEF StrandedOnlyByKnownRaces
  <2>1. status = "PAUSED"
    BY DEF Standing, Reported, Last, Quiet
  <2>2. PICK w \in Waitpoints : Exists(w) /\ stepOf[w] = pausedAt
    BY <2>1 DEF Standing, Reported, Last, Quiet
  <2>3. row[w] = "PENDING"
    BY <2>2 DEF TypeOK, Standing, LookToCome, Quiet, Exists
  <2>4. ASSUME NEW c \in Calls, call[c].w = w PROVE call[c].seen = "absent"
    <3>1. call[c].pc = "handled"
      BY <2>4 DEF TypeOK, CallStates, Answered, CallAnswered, Quiet
    <3> QED BY <2>3, <2>4, <3>1 DEF Answered, CallAnswered
  <2> QED BY <2>1, <2>2, <2>3, <2>4 DEF RowOf
<1>5. TypeOK /\ Rows /\ Over /\ [Next]_vars => Over'
  BY OverNext
<1>6. TypeOK /\ Over /\ Answered /\ [Next]_vars => Answered'
  BY AnsweredNext
<1> QED
  BY <1>1, <1>2, <1>3, <1>4, <1>5, <1>6, TypeCorrect, RowsAlways, PTL DEF Spec

=============================================================================
