----------------------------- MODULE RunResume -----------------------------
(***************************************************************************)
(* One run that pauses and is resumed: the engine that executes it, the    *)
(* job that carries it, the uploads that report it, the worker that drains *)
(* them into the stored run, its waitpoints, and the calls that resume it. *)
(*                                                                         *)
(* The stored status trails the engine: a call to resume reads it, and     *)
(* only then takes the waitpoint's lock.                                   *)
(***************************************************************************)
EXTENDS Integers

CONSTANTS
  Steps,        \* the steps of the flow that pause
  Waitpoints,   \* bound: waitpoint rows the run creates
  Calls,        \* bound: calls of resumeFromWaitpoint, from a URL or a delay job
  MaxAbandons,  \* bound: steps that throw after they created their waitpoint
  MaxStalls,    \* bound: workers lost with the job in hand
  MaxCrashes,   \* bound: drains lost between the consume and the resume
  MaxAborts,    \* bound: resumes enqueued whose transaction did not commit
  NoWaitpoint, NoStep

ASSUME ResumeAssumption ==
  /\ MaxAbandons \in Nat /\ MaxStalls \in Nat /\ MaxCrashes \in Nat /\ MaxAborts \in Nat
  /\ NoWaitpoint \notin Waitpoints /\ NoStep \notin Steps

VARIABLES
  status,       \* flow_run.status as stored, "absent" before the first drain
  hash,         \* the runs_metadata hash: the last status uploaded, not drained
  merged,       \* whether an upload was merged since the drain read the hash
  drain,        \* the runs-metadata worker: where it is, on which snapshot
  row,          \* the waitpoint rows; one deleted is "resumed" or "dropped"
  stepOf,       \* stepName of each row
  call,         \* the calls of resumeFromWaitpoint
  job,          \* the run's job in the worker queue, whose id is the run's
  engine,       \* the engine, and the step whose waitpoint it created
  pausedAt,     \* the step the uploaded log holds as PAUSED
  enqueued,     \* RESUME jobs the queue accepted for each waitpoint
  late,         \* waitpoints a call completed on a status that was out of date
  abandons, stalls, crashes, aborts

vars == <<status, hash, merged, drain, row, stepOf, call, job, engine, pausedAt,
          enqueued, late, abandons, stalls, crashes, aborts>>
uploads == <<hash, merged>>
faults == <<abandons, stalls, crashes, aborts>>

Statuses == {"QUEUED", "RUNNING", "PAUSED", "SUCCEEDED"}

\* A waitpoint row that has not been deleted.
Exists(w) == row[w] \in {"PENDING", "COMPLETED"}

NoJob == [state |-> "none", resumes |-> NoWaitpoint]
Idle == [pc |-> "idle", snapshot |-> "none", resumes |-> NoWaitpoint]

-----------------------------------------------------------------------------
(* The engine *)

\* queue.add in runsMetadataQueue: merged into the hash, under a new requestId.
Upload(s) == hash' = s /\ merged' = TRUE

\* A worker takes the job: a RESUME restores the log and runs its PAUSED step.
StartJob ==
  /\ job.state = "waiting"
  /\ job' = [job EXCEPT !.state = "active"]
  /\ engine' = [pc |-> "running", step |-> NoStep]
  /\ UNCHANGED <<status, uploads, drain, row, stepOf, call, pausedAt, enqueued, late,
                 faults>>

UploadRunning ==
  /\ engine.pc \in {"running", "created"}
  /\ Upload("RUNNING")
  /\ UNCHANGED <<status, drain, row, stepOf, call, job, engine, pausedAt, enqueued,
                 late, faults>>

\* The rows of a step: (flowRunId, stepName) is unique.
RowOf(s) == {w \in Waitpoints : Exists(w) /\ stepOf[w] = s}

\* createForPause: a step that has a row already gets it back, whatever it holds.
CreateWaitpoint(s) ==
  /\ engine.pc = "running"
  /\ engine' = [pc |-> "created", step |-> s]
  /\ IF RowOf(s) # {}
     THEN UNCHANGED <<row, stepOf>>
     ELSE \E w \in Waitpoints :
            /\ row[w] = "absent"
            /\ row' = [row EXCEPT ![w] = "PENDING"]
            /\ stepOf' = [stepOf EXCEPT ![w] = s]
  /\ UNCHANGED <<status, uploads, drain, call, job, pausedAt, enqueued, late, faults>>

\* The step throws after that and the flow goes on from the failure.
AbandonWaitpoint ==
  /\ engine.pc = "created" /\ abandons < MaxAbandons
  /\ abandons' = abandons + 1
  /\ engine' = [pc |-> "running", step |-> NoStep]
  /\ UNCHANGED <<status, uploads, drain, row, stepOf, call, job, pausedAt, enqueued,
                 late, stalls, crashes, aborts>>

\* The log and the PAUSED verdict, by the flush loop, by the final backup or by
\* one after the other: the engine waits for the backup only.
UploadPaused ==
  /\ engine.pc \in {"created", "flushed"}
  /\ Upload("PAUSED")
  /\ pausedAt' = engine.step
  /\ \E pc \in {"flushed", "done"} : engine' = [engine EXCEPT !.pc = pc]
  /\ UNCHANGED <<status, drain, row, stepOf, call, job, enqueued, late, faults>>

Finish ==
  /\ engine.pc = "running"
  /\ Upload("SUCCEEDED")
  /\ engine' = [engine EXCEPT !.pc = "done"]
  /\ UNCHANGED <<status, drain, row, stepOf, call, job, pausedAt, enqueued, late,
                 faults>>

\* The engine has answered and the worker reports the job: its id is free again.
CompleteJob ==
  /\ engine.pc = "done"
  /\ job' = NoJob
  /\ engine' = [pc |-> "off", step |-> NoStep]
  /\ UNCHANGED <<status, uploads, drain, row, stepOf, call, pausedAt, enqueued, late,
                 faults>>

\* The worker is lost: the stalled scan hands its job, as it was, to another.
LoseWorker ==
  /\ engine.pc # "off" /\ stalls < MaxStalls
  /\ stalls' = stalls + 1
  /\ job' = [job EXCEPT !.state = "waiting"]
  /\ engine' = [pc |-> "off", step |-> NoStep]
  /\ UNCHANGED <<status, uploads, drain, row, stepOf, call, pausedAt, enqueued, late,
                 abandons, crashes, aborts>>

-----------------------------------------------------------------------------
(* Resuming *)

\* jobQueue.add with the run's id: BullMQ ignores it while the id is taken.
Free == job.state = "none"

Enqueue(w) ==
  IF Free
  THEN /\ job' = [state |-> "waiting", resumes |-> w]
       /\ enqueued' = [enqueued EXCEPT ![w] = @ + 1]
  ELSE UNCHANGED <<job, enqueued>>

\* Mutant: the row is deleted by another transaction, later.
KeepRow(w) == row

\* Deleted with the job enqueued, or with the job ignored.
DeleteRow(w) == [row EXCEPT ![w] = IF Free THEN "resumed" ELSE "dropped"]

\* handleResumeSignal of a PAUSED run: enqueued under the row's lock, which is
\* then deleted; whoever comes second finds no row.
ResumePaused(w) ==
  IF Exists(w)
  THEN Enqueue(w) /\ row' = DeleteRow(w)
  ELSE UNCHANGED <<job, enqueued, row>>

\* The stored status a call reads says the run has been reported PAUSED since.
OutOfDate == status = "PAUSED"

Completed(w) == [row EXCEPT ![w] = "COMPLETED"]

\* handleResumeSignal of a run still RUNNING or QUEUED: complete().
ResumeLater(w) ==
  IF row[w] = "PENDING"
  THEN row' = Completed(w) /\ late' = IF OutOfDate THEN late \cup {w} ELSE late
  ELSE UNCHANGED <<row, late>>

\* resumeFromWaitpoint reads the run, or finds that it is not stored yet ...
ReadStatus(c, w) ==
  /\ call[c].pc = "idle" /\ row[w] # "absent"
  /\ call' = [call EXCEPT ![c] = [pc |-> "read", w |-> w, seen |-> status]]
  /\ UNCHANGED <<status, uploads, drain, row, stepOf, job, engine, pausedAt, enqueued,
                 late, faults>>

\* ... and acts on what it read: a run that is over or not there makes the call
\* stale, and the row stays as it is.
HandleSignal(c) ==
  /\ call[c].pc = "read"
  /\ call' = [call EXCEPT ![c].pc = "handled"]
  /\ \/ call[c].seen = "PAUSED" /\ ResumePaused(call[c].w) /\ UNCHANGED late
     \/ call[c].seen \in {"RUNNING", "QUEUED"} /\ ResumeLater(call[c].w)
        /\ UNCHANGED <<job, enqueued>>
     \/ call[c].seen \in {"SUCCEEDED", "absent"} /\ UNCHANGED <<row, job, enqueued, late>>
  /\ UNCHANGED <<status, uploads, drain, stepOf, engine, pausedAt, faults>>

\* The process dies, or its commit fails, after the job was added: the row stays.
AbortSignal(c) ==
  /\ call[c].pc = "read" /\ call[c].seen = "PAUSED" /\ aborts < MaxAborts
  /\ Exists(call[c].w)
  /\ aborts' = aborts + 1
  /\ call' = [call EXCEPT ![c].pc = "handled"]
  /\ Enqueue(call[c].w)
  /\ UNCHANGED <<status, uploads, drain, row, stepOf, engine, pausedAt, late, abandons,
                 stalls, crashes>>

-----------------------------------------------------------------------------
(* The runs-metadata worker, one job per run at a time *)

DrainRead ==
  /\ drain.pc = "idle" /\ hash # "none"
  /\ drain' = [Idle EXCEPT !.pc = "read", !.snapshot = hash]
  /\ merged' = FALSE
  /\ UNCHANGED <<status, hash, row, stepOf, call, job, engine, pausedAt, enqueued,
                 late, faults>>

DrainWrite ==
  /\ drain.pc = "read"
  /\ status' = drain.snapshot
  /\ drain' = [drain EXCEPT !.pc = "written"]
  /\ UNCHANGED <<uploads, row, stepOf, call, job, engine, pausedAt, enqueued, late,
                 faults>>

\* Mutant: the hash is deleted whatever was merged into it.
ConsumedWhole == "none"

\* deleteKeyIfFieldValueMatches: an upload merged meanwhile survives.
Consumed == IF merged THEN hash ELSE "none"

DrainConsume ==
  /\ drain.pc = "written"
  /\ hash' = Consumed
  /\ drain' = [drain EXCEPT !.pc = "consumed"]
  /\ UNCHANGED <<status, merged, row, stepOf, call, job, engine, pausedAt, enqueued,
                 late, faults>>

\* Mutant: the row of the pause under way is taken, signalled or not.
PendingOne == {w \in Waitpoints : row[w] = "PENDING"}

\* getByFlowRunId: a COMPLETED row if there is one, of whatever step.
PreCompleted == {w \in Waitpoints : row[w] = "COMPLETED"}

\* A run saved as PAUSED is resumed at once by a row completed before.
DrainCheck ==
  /\ drain.pc = "consumed"
  /\ IF drain.snapshot = "PAUSED" /\ PreCompleted # {}
     THEN \E w \in PreCompleted :
            drain' = [drain EXCEPT !.pc = "resuming", !.resumes = w]
     ELSE drain' = Idle
  /\ UNCHANGED <<status, uploads, row, stepOf, call, job, engine, pausedAt, enqueued,
                 late, faults>>

\* resumeFromWaitpoint again: only this worker writes the status it reads.
DrainResume ==
  /\ drain.pc = "resuming"
  /\ ResumePaused(drain.resumes)
  /\ drain' = Idle
  /\ UNCHANGED <<status, uploads, stepOf, call, engine, pausedAt, late, faults>>

\* Lost once the snapshot is consumed: the retry finds an empty hash.
CrashDrain ==
  /\ drain.pc \in {"consumed", "resuming"} /\ crashes < MaxCrashes
  /\ crashes' = crashes + 1
  /\ drain' = Idle
  /\ UNCHANGED <<status, uploads, row, stepOf, call, job, engine, pausedAt, enqueued,
                 late, abandons, stalls, aborts>>

-----------------------------------------------------------------------------
\* persistOrQueueRun: a TESTING run is stored, a PRODUCTION run left to the drain.
Init ==
  /\ \/ status = "QUEUED" /\ hash = "none" /\ merged = FALSE
     \/ status = "absent" /\ hash = "QUEUED" /\ merged = TRUE
  /\ drain = Idle
  /\ row = [w \in Waitpoints |-> "absent"]
  /\ stepOf = [w \in Waitpoints |-> NoStep]
  /\ call = [c \in Calls |-> [pc |-> "idle", w |-> NoWaitpoint, seen |-> "QUEUED"]]
  /\ job = [NoJob EXCEPT !.state = "waiting"]
  /\ engine = [pc |-> "off", step |-> NoStep]
  /\ pausedAt = NoStep
  /\ enqueued = [w \in Waitpoints |-> 0]
  /\ late = {}
  /\ abandons = 0 /\ stalls = 0 /\ crashes = 0 /\ aborts = 0

EngineStep ==
  \/ StartJob \/ UploadRunning \/ UploadPaused \/ Finish \/ CompleteJob
  \/ \E s \in Steps : CreateWaitpoint(s)
  \/ AbandonWaitpoint

CallStep(c) == (\E w \in Waitpoints : ReadStatus(c, w)) \/ HandleSignal(c)

DrainStep == DrainRead \/ DrainWrite \/ DrainConsume \/ DrainCheck \/ DrainResume

Faults == LoseWorker \/ CrashDrain \/ \E c \in Calls : AbortSignal(c)

Next == EngineStep \/ (\E c \in Calls : CallStep(c)) \/ DrainStep \/ Faults

Spec == Init /\ [][Next]_vars

\* A job is taken, a run ends or pauses under its timeout, an upload is drained
\* and a call begun is answered. That anyone calls, nothing promises.
Fairness ==
  /\ WF_vars(StartJob) /\ WF_vars(CompleteJob) /\ WF_vars(DrainStep)
  /\ WF_vars(UploadPaused /\ engine'.pc = "done") /\ WF_vars(Finish)
  /\ \A c \in Calls : WF_vars(HandleSignal(c))

FairSpec == Spec /\ Fairness
-----------------------------------------------------------------------------
(* Properties *)

DrainStates == [pc : {"idle", "read", "written", "consumed", "resuming"},
                snapshot : Statuses \cup {"none"},
                resumes : Waitpoints \cup {NoWaitpoint}]
CallStates == [pc : {"idle", "read", "handled"}, w : Waitpoints \cup {NoWaitpoint},
               seen : Statuses \cup {"absent"}]
JobStates == [state : {"none", "waiting", "active"},
              resumes : Waitpoints \cup {NoWaitpoint}]
EngineStates == [pc : {"off", "running", "created", "flushed", "done"},
                 step : Steps \cup {NoStep}]

\* The types; a job is active exactly while an engine runs, and the hash is there
\* from the drain's read to its consume.
TypeOK ==
  /\ status \in Statuses \cup {"absent"} /\ hash \in Statuses \cup {"none"} /\ merged \in BOOLEAN
  /\ drain \in DrainStates /\ job \in JobStates /\ engine \in EngineStates
  /\ call \in [Calls -> CallStates]
  /\ (\A c \in Calls : call[c].pc # "idle" => call[c].w \in Waitpoints)
  /\ (drain.pc # "idle" => drain.snapshot # "none")
  /\ (drain.pc = "resuming" => drain.resumes \in Waitpoints)
  /\ row \in [Waitpoints -> {"absent", "PENDING", "COMPLETED", "resumed", "dropped"}]
  /\ stepOf \in [Waitpoints -> Steps \cup {NoStep}]
  /\ (job.state = "active" <=> engine.pc # "off")
  /\ (drain.pc \in {"read", "written"} => hash # "none")
  /\ pausedAt \in Steps \cup {NoStep}
  /\ enqueued \in [Waitpoints -> Nat]
  /\ late \subseteq Waitpoints
  /\ abandons \in 0..MaxAbandons /\ stalls \in 0..MaxStalls
  /\ crashes \in 0..MaxCrashes /\ aborts \in 0..MaxAborts

\* A waitpoint resumes its run once, however often its URL is called, its delay
\* fires and the drain finds it completed; only a resume whose transaction does
\* not commit is made again (handleResumeSignal).
ResumedAtMostOnce == \A w \in Waitpoints : enqueued[w] <= 1 + aborts

Quiet ==
  /\ job.state = "none" /\ hash = "none" /\ drain.pc = "idle"
  /\ \A c \in Calls : call[c].pc # "read"

\* No step abandoned its waitpoint, no worker was lost, every resume committed.
Faultless == abandons = 0 /\ stalls = 0 /\ aborts = 0

\* None of the three races of the code has happened: a job ignored because the
\* run's own was still there, a call that acted on an outdated status, a drain
\* lost before the resume.
Raceless ==
  Faultless /\ crashes = 0 /\ late = {} /\ \A w \in Waitpoints : row[w] # "dropped"

\* With nothing under way, a run is finished or it waits: its PAUSED step has a
\* PENDING waitpoint that nobody has called yet, or only calls that came before
\* the run was stored and were dropped as stale (resumeFromWaitpoint): a URL may
\* be called again, a delay fires once. The three races are the only ways to
\* stand still otherwise.
StrandedOnlyByKnownRaces ==
  Quiet /\ Raceless
    => \/ status = "SUCCEEDED"
       \/ /\ status = "PAUSED"
          /\ \E w \in RowOf(pausedAt) :
               /\ row[w] = "PENDING"
               /\ \A c \in Calls : call[c].w = w => call[c].seen = "absent"

\* The signal that resumes a run is the one its PAUSED step waits for: the
\* payload of another step's waitpoint never reaches it (qadam-executor), as
\* long as no step abandons its waitpoint and no worker is lost.
OnlyThePausedStepIsResumed ==
  Faultless /\ job.state = "waiting" /\ job.resumes # NoWaitpoint
    => stepOf[job.resumes] = pausedAt

\* A call that was told it resumed the run did enqueue its resume.
AcceptedSignalIsEnqueued == \A w \in Waitpoints : row[w] # "dropped"

\* A waitpoint completed in time is taken by the PAUSED upload that follows,
\* unless a step, a worker or a drain was lost on the way.
CompletedIsTaken ==
  \A w \in Waitpoints :
    row[w] = "COMPLETED" ~>
      row[w] \in {"resumed", "dropped"} \/ w \in late \/ ~Faultless \/ crashes > 0
=============================================================================
