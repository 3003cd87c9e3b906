----------------------------- MODULE SyncAnswers -----------------------------
(***************************************************************************)
(* One run and the HTTP callers that wait for it: the webhook that started *)
(* it, and resumes of the /sync route. Each keeps one listener, under an   *)
(* id of its own. The id travels in the run's job, from the job into the   *)
(* waitpoint of a pause, and from there into the job that resumes the run, *)
(* and whoever finds the run at its end answers the id it carries: the     *)
(* engine, or the worker when the engine never told of its verdict.        *)
(*                                                                         *)
(* The run's job, uploads and waitpoints are as much of RunResume and      *)
(* RunControl as decides whose id is answered: a drain takes the last      *)
(* upload in one step, and no run is retried or cancelled, since neither   *)
(* carries an id. Jobs have the quick backoff.                             *)
(***************************************************************************)
EXTENDS Integers

CONSTANTS
  Webhook,       \* the caller of handleSync
  SyncResumers,  \* bound: callers of handleSyncResumeFlow
  Resumers,      \* bound: resumes nobody waits for, by URL or timer
  Waitpoints,    \* bound: waitpoint rows the run creates
  Attempts,      \* attempts of an EXECUTE_FLOW job
  MayFail,       \* bound: the faults that may happen, once each
  Nobody

ASSUME SyncAssumption ==
  /\ Attempts \in Nat \ {0} /\ MayFail \subseteq {"worker", "upload", "answer"}
  /\ Webhook \notin SyncResumers \cup Resumers /\ SyncResumers \cap Resumers = {}
  /\ Nobody \notin {Webhook} \cup SyncResumers \cup Resumers

VARIABLES
  call,      \* each call: where it is, the waitpoint it names, the status it read
  promise,   \* what each caller's listener has come to
  wire,      \* the callers an answer is under way to
  job,       \* the run's job, and the caller whose id it carries
  attempt,   \* the attempt of the active job, and the verdict it has come to
  hash,      \* the last status uploaded and not drained
  status,    \* flow_run.status as stored
  looking,   \* whether the drain has stored PAUSED and not looked for a COMPLETED row
  row,       \* the waitpoint rows
  serves,    \* the caller whose id each row carries
  excused,   \* callers that lost their answer to a fault or to another's resume
  told,      \* whether an attempt of this job, not lost since, told its caller it failed
  mishaps     \* the faults that have happened

syncVars == <<call, promise, wire, job, attempt, hash, status, looking, row, serves,
          excused, told, mishaps>>
callers == <<call, promise>>
run == <<hash, status, looking>>
waits == <<row, serves>>
history == <<excused, told, mishaps>>

Statuses == {"none", "QUEUED", "RUNNING", "PAUSED", "ENDED"}
Callers == {Webhook} \cup SyncResumers
Signals == SyncResumers \cup Resumers
Pending(c) == promise[c] = "pending"
Exists(w) == row[w] \in {"PENDING", "COMPLETED"}

NoJob == [state |-> "none", begins |-> FALSE, for |-> Nobody, tries |-> 0, stalled |-> FALSE]
FailedJob == [NoJob EXCEPT !.state = "failed"]
JobFor(c, begins) == [NoJob EXCEPT !.state = "waiting", !.for = c, !.begins = begins]
Now(pc) == [pc |-> pc, w |-> Nobody, seen |-> "none"]
At(pc, verdict) == [pc |-> pc, verdict |-> verdict]
NoAttempt == At("off", "none")
Responded == At("over", "none")

Fails(kind) == kind \in MayFail \ mishaps /\ mishaps' = mishaps \cup {kind}

-----------------------------------------------------------------------------
(* The listeners *)

\* oneTimeListener, by a webhook before it starts the run.
Register ==
  /\ call[Webhook].pc = "idle" /\ status = "none" /\ hash = "none"
  /\ call' = [call EXCEPT ![Webhook] = Now("listening")]
  /\ promise' = [promise EXCEPT ![Webhook] = "pending"]
  /\ UNCHANGED <<wire, job, attempt, run, waits, history>>

\* The timer of the listener, which resolves it with the default response.
TimeOut(c) ==
  /\ Pending(c)
  /\ promise' = [promise EXCEPT ![c] = "default"]
  /\ wire' = wire \ {c}
  /\ UNCHANGED <<call, job, attempt, run, waits, history>>

\* A listener takes the first answer under its id; those that come later, or to a
\* listener that is gone, are kept off the wire.
Deliver(c) ==
  /\ c \in wire
  /\ wire' = wire \ {c}
  /\ promise' = [promise EXCEPT ![c] = "answered"]
  /\ UNCHANGED <<call, job, attempt, run, waits, history>>

\* The pubsub channel keeps nothing, and a sender logs an error and goes on.
LoseAnswer(c) ==
  /\ c \in wire /\ Fails("answer")
  /\ wire' = wire \ {c}
  /\ excused' = excused \cup {c}
  /\ UNCHANGED <<callers, job, attempt, run, waits, told>>

\* sendFlowResponse, for a job that carries an id.
Publish == wire' = wire \cup {c \in Callers : c = job.for /\ Pending(c)}

-----------------------------------------------------------------------------
(* Starting and resuming the run *)

\* start of handleSync, or of a run that nobody waits for.
Start(c) ==
  /\ job.state = "none" /\ status = "none" /\ hash = "none"
  /\ \/ c = Webhook /\ call[c].pc = "listening"
        /\ call' = [call EXCEPT ![c] = Now("accepted")]
     \/ c = Nobody /\ call[Webhook].pc = "idle" /\ UNCHANGED call
  /\ job' = JobFor(c, TRUE)
  /\ hash' = "QUEUED"
  /\ UNCHANGED <<promise, wire, attempt, status, looking, waits, history>>

\* The caller is refused and its own listener cancelled.
Refuse(c) ==
  /\ call' = [call EXCEPT ![c] = Now("refused")]
  /\ promise' = [promise EXCEPT ![c] = IF @ = "pending" THEN "default" ELSE @]

StartFails ==
  /\ call[Webhook].pc = "listening"
  /\ Refuse(Webhook)
  /\ UNCHANGED <<wire, job, attempt, run, waits, history>>

\* A call of a resume route reads the run's status. That of /sync listens first (and
\* is refused with 409 before that, if the run is seen to have ended).
Call(r, w) ==
  /\ call[r].pc = "idle" /\ row[w] # "absent"
  /\ call' = [call EXCEPT ![r] = [pc |-> "read", w |-> w, seen |-> status]]
  /\ \/ r \in SyncResumers /\ promise' = [promise EXCEPT ![r] = "pending"]
     \/ r \in Resumers /\ UNCHANGED promise
  /\ UNCHANGED <<wire, job, attempt, run, waits, history>>

\* Mutant: a resume carries its own id only.
CarriedByCall(r, w) == IF r \in Callers THEN r ELSE Nobody

\* httpRequestId ?? waitpoint.httpRequestId
Carried(r, w) == IF r \in Callers THEN r ELSE serves[w]

\* The caller whose id the row carried, when one that waits takes its place.
Displaced(r, w) == IF r \in Callers THEN {serves[w]} \ {r} ELSE {}

\* The callers of other waitpoints that stand, which a lost worker has left behind:
\* the run goes on without them.
PassedBy(r, w) ==
  {serves[v] : v \in {u \in Waitpoints \ {w} : row[u] = "PENDING"}} \ {Carried(r, w)}

\* onReady and the delete: BullMQ ignores the job while the run's id is taken.
Resume(r, w) ==
  /\ row' = [row EXCEPT ![w] = "gone"]
  /\ IF job.state = "none"
     THEN /\ job' = JobFor(Carried(r, w), FALSE) /\ told' = FALSE
          /\ excused' = excused \cup Displaced(r, w) \cup PassedBy(r, w)
     ELSE /\ UNCHANGED <<job, told>>
          /\ excused' = excused \cup {serves[w], Carried(r, w)}

\* complete(), which keeps the row's id if the call brings none.
Complete(r, w) ==
  /\ row' = [row EXCEPT ![w] = "COMPLETED"]
  /\ serves' = [serves EXCEPT ![w] = Carried(r, w)]
  /\ excused' = excused \cup Displaced(r, w)

Accept(r) == call' = [call EXCEPT ![r] = Now("accepted")] /\ UNCHANGED promise

\* Whether the row a call names is there for the status it read.
Stale(r) ==
  ~ \/ call[r].seen = "PAUSED" /\ Exists(call[r].w)
    \/ call[r].seen \in {"RUNNING", "QUEUED"} /\ row[call[r].w] = "PENDING"

\* handleResumeSignal, and what handleSyncResumeFlow makes of its result.
HandleSignal(r) ==
  /\ r \in Signals /\ call[r].pc = "read"
  /\ \/ Stale(r) /\ Refuse(r) /\ UNCHANGED <<waits, job, excused, told>>
     \/ /\ ~Stale(r) /\ Accept(r)
        /\ \/ call[r].seen = "PAUSED" /\ Resume(r, call[r].w) /\ UNCHANGED serves
           \/ call[r].seen # "PAUSED" /\ Complete(r, call[r].w) /\ UNCHANGED <<job, told>>
  /\ UNCHANGED <<wire, attempt, run, mishaps>>

\* The runs-metadata worker stores the last upload ...
Drain ==
  /\ hash # "none" /\ ~looking
  /\ status' = hash /\ hash' = "none"
  /\ looking' = (hash = "PAUSED")
  /\ UNCHANGED <<callers, wire, job, attempt, waits, history>>

\* ... and resumes a run saved as PAUSED by a row completed before.
Look ==
  /\ looking /\ looking' = FALSE
  /\ \/ \E w \in Waitpoints : row[w] = "COMPLETED" /\ Resume(Nobody, w)
     \/ /\ \A w \in Waitpoints : row[w] # "COMPLETED"
        /\ UNCHANGED <<row, job, excused, told>>
  /\ UNCHANGED <<callers, wire, attempt, hash, status, serves, mishaps>>

-----------------------------------------------------------------------------
(* An attempt: before the engine has the operation *)

\* attemptsStarted = 0: neither retried nor handed out again.
FirstDelivery == job.tries = 0 /\ ~job.stalled

\* syncDeadline: a webhook's run is not begun once its listener has timed out, which
\* a worker tells by its own clock.
MayBeLate == job.begins /\ job.for = Webhook /\ FirstDelivery

Take ==
  /\ job.state = "waiting"
  /\ job' = [job EXCEPT !.state = "active"]
  /\ \/ attempt' = At("before", "none")
     \/ MayBeLate /\ attempt' = At("refusing", "failed")
  /\ UNCHANGED <<callers, wire, run, waits, history>>

\* The flow or a dependency of it is not there, or the log of a resume: final.
FindNotRunnable ==
  /\ attempt.pc = "before"
  /\ attempt' = At("refusing", "failed")
  /\ UNCHANGED <<callers, wire, job, run, waits, history>>

AttemptsLeft == job.tries + 1 < Attempts

\* Mutant: a failure is reported whenever it happens.
RetriesNever == FALSE

\* canRetryBeforeExecution: what BullMQ will check when the attempt is settled.
RetriesQuickly == AttemptsLeft

\* failBeforeExecution: silent when the next attempt will answer.
FailBefore ==
  /\ attempt.pc = "before"
  /\ attempt' = At(IF RetriesQuickly THEN "over" ELSE "failing", "retry")
  /\ UNCHANGED <<callers, wire, job, run, waits, history>>

Send ==
  /\ attempt.pc = "before"
  /\ attempt' = At("executing", "none")
  /\ hash' = "RUNNING"
  /\ UNCHANGED <<callers, wire, job, status, looking, waits, history>>

-----------------------------------------------------------------------------
(* The engine *)

\* A step that responds: published when its run method has returned.
Respond ==
  /\ attempt.pc = "executing"
  /\ Publish
  /\ UNCHANGED <<callers, job, attempt, run, waits, history>>

\* createWaitpoint: the row carries the id of the engine's own job. A job handed
\* out again may come to a step whose row is there.
CreateWaitpoint ==
  /\ attempt.pc = "executing"
  /\ attempt' = At("created", "none")
  /\ \/ \E w \in Waitpoints :
          /\ row[w] = "absent"
          /\ row' = [row EXCEPT ![w] = "PENDING"]
          /\ serves' = [serves EXCEPT ![w] = job.for]
     \/ job.stalled /\ (\E w \in Waitpoints : Exists(w)) /\ UNCHANGED waits
  /\ UNCHANGED <<callers, wire, job, run, history>>

\* The step returns: its pause is the verdict, and responseToSend is published.
Pause ==
  /\ attempt.pc = "created"
  /\ attempt' = At("ended", "paused")
  /\ Publish \/ UNCHANGED wire
  /\ UNCHANGED <<callers, job, run, waits, history>>

\* The flow ends, well or not; a step that created a waitpoint may throw.
EndFlow ==
  /\ \/ attempt.pc = "executing" /\ attempt' \in {At("ended", "succeeded"), At("ended", "failed")}
     \/ attempt.pc = "created" /\ attempt' = At("ended", "failed")
  /\ UNCHANGED <<callers, wire, job, run, waits, history>>

\* The final sendUpdate and backup.
BackUp ==
  /\ attempt.pc = "ended"
  /\ attempt' = [attempt EXCEPT !.pc = "backedUp"]
  /\ hash' = IF attempt.verdict = "paused" THEN "PAUSED" ELSE "ENDED"
  /\ UNCHANGED <<callers, wire, job, status, looking, waits, history>>

\* syncResponseForVerdict: 204, 500, or silence.
AnswerVerdict ==
  \/ attempt.verdict \in {"succeeded", "failed"} /\ Publish
  \/ attempt.verdict = "paused" /\ UNCHANGED wire

RespondToSyncCaller ==
  /\ attempt.pc = "backedUp"
  /\ attempt' = Responded
  /\ AnswerVerdict
  /\ told' = (told \/ attempt.verdict = "failed")
  /\ UNCHANGED <<callers, job, run, waits, excused, mishaps>>

\* The sandbox dies, is out of time or memory, or the engine reports an error.
Break ==
  /\ attempt.pc \in {"executing", "created", "ended", "backedUp"} \/ attempt = Responded
  /\ attempt' = At("failing", "failed")
  /\ UNCHANGED <<callers, wire, job, run, waits, history>>

-----------------------------------------------------------------------------
(* The worker reports for the engine, and the job is settled *)

\* Mutant: the status is uploaded and nobody is told.
ReportStatusOnly ==
  /\ attempt.pc \in {"refusing", "failing"}
  /\ attempt' = [attempt EXCEPT !.pc = IF @ = "refusing" THEN "refused" ELSE "reporting"]
  /\ told' = TRUE
  /\ UNCHANGED <<callers, wire, job, run, waits, excused, mishaps>>

\* respondToSyncCallerOnFailure, which comes before the upload of the status.
Report ==
  /\ attempt.pc \in {"refusing", "failing"}
  /\ attempt' = [attempt EXCEPT !.pc = IF @ = "refusing" THEN "refused" ELSE "reporting"]
  /\ Publish
  /\ told' = TRUE
  /\ UNCHANGED <<callers, job, run, waits, excused, mishaps>>

\* uploadRunLog; reportBestEffort goes on if it throws, but a report of a run that
\* was refused throws itself, and the attempt is retried.
UploadEnd ==
  /\ attempt.pc \in {"refused", "reporting"}
  /\ \/ /\ hash' = "ENDED"
        /\ attempt' = [attempt EXCEPT !.pc = "over"]
        /\ UNCHANGED <<told, mishaps>>
     \/ /\ Fails("upload") /\ UNCHANGED hash
        /\ attempt' = At("over", IF attempt.pc = "refused" THEN "retry" ELSE attempt.verdict)
        /\ told' = (told /\ attempt.pc = "reporting")
  /\ UNCHANGED <<callers, wire, job, status, looking, waits, excused>>

\* completeJob: a run that failed may have failed its job, which keeps the run's id.
Settle ==
  /\ attempt.pc = "over"
  /\ attempt' = NoAttempt
  /\ \/ attempt.verdict # "retry" /\ job' = NoJob
     \/ attempt.verdict = "failed" /\ job' = FailedJob
     \/ /\ attempt.verdict = "retry"
        /\ job' = IF AttemptsLeft THEN [job EXCEPT !.state = "delayed", !.tries = @ + 1]
                   ELSE FailedJob
  /\ UNCHANGED <<callers, wire, run, waits, history>>

BackoffOver ==
  /\ job.state = "delayed"
  /\ job' = [job EXCEPT !.state = "waiting"]
  /\ UNCHANGED <<callers, wire, attempt, run, waits, history>>

\* The worker is lost: the job is handed out again, id and all.
LoseWorker ==
  /\ attempt # NoAttempt /\ Fails("worker")
  /\ attempt' = NoAttempt
  /\ job' = [job EXCEPT !.state = "waiting", !.stalled = TRUE]
  /\ told' = FALSE
  /\ UNCHANGED <<callers, wire, run, waits, excused>>

-----------------------------------------------------------------------------
SyncInit ==
  /\ call = [c \in {Webhook} \cup Signals |-> Now("idle")]
  /\ promise = [c \in Callers |-> "none"]
  /\ looking = FALSE
  /\ wire = {}
  /\ job = NoJob /\ attempt = NoAttempt
  /\ hash = "none" /\ status = "none"
  /\ row = [w \in Waitpoints |-> "absent"] /\ serves = [w \in Waitpoints |-> Nobody]
  /\ excused = {} /\ told = FALSE /\ mishaps = {}

Engine == CreateWaitpoint \/ Pause \/ EndFlow \/ BackUp \/ RespondToSyncCaller \/ Break

Worker ==
  \/ Take \/ FindNotRunnable \/ FailBefore \/ Send
  \/ Report \/ UploadEnd \/ Settle \/ BackoffOver

SyncNext ==
  \/ Register \/ StartFails
  \/ (\E c \in {Webhook, Nobody} : Start(c)) \/ (\E c \in Callers : TimeOut(c))
  \/ (\E c \in Callers : Deliver(c) \/ LoseAnswer(c))
  \/ (\E r \in Signals : HandleSignal(r) \/ \E w \in Waitpoints : Call(r, w))
  \/ Drain \/ Look \/ Engine \/ Respond \/ Worker \/ LoseWorker

SyncSpec == SyncInit /\ [][SyncNext]_syncVars

\* Workers take jobs and settle them, a flow ends, pauses or runs out of time, and
\* what is published, uploaded or called goes through. No timer is needed.
SyncFairness ==
  /\ WF_syncVars(Engine \/ Worker) /\ WF_syncVars(Drain \/ Look)
  /\ WF_syncVars(\E c \in Callers : Deliver(c))
  /\ \A r \in Signals : WF_syncVars(HandleSignal(r))

SyncLiveSpec == SyncSpec /\ SyncFairness

-----------------------------------------------------------------------------
(* Properties *)

Ids == Callers \cup {Nobody}
CallStates == [pc : {"idle", "listening", "read", "accepted", "refused"},
               w : Waitpoints \cup {Nobody}, seen : Statuses]
JobStates == [state : {"none", "waiting", "active", "delayed", "failed"}, begins : BOOLEAN,
              for : Ids, tries : Nat, stalled : BOOLEAN]
AttemptStates ==
  [pc : {"off", "before", "refusing", "refused", "executing", "created", "ended",
         "backedUp", "failing", "reporting", "over"},
   verdict : {"none", "succeeded", "failed", "paused", "retry"}]

\* The types.
SyncTypeOK ==
  /\ call \in [{Webhook} \cup Signals -> CallStates]
  /\ \A r \in Signals : call[r].pc = "read" => call[r].w \in Waitpoints
  /\ promise \in [Callers -> {"none", "pending", "default", "answered"}]
  /\ wire \subseteq Callers /\ job \in JobStates /\ attempt \in AttemptStates
  /\ hash \in Statuses /\ status \in Statuses /\ looking \in BOOLEAN
  /\ row \in [Waitpoints -> {"absent", "PENDING", "COMPLETED", "gone"}]
  /\ serves \in [Waitpoints -> Ids] /\ excused \subseteq Ids
  /\ told \in BOOLEAN /\ mishaps \subseteq MayFail

Waiting(c) == call[c].pc = "accepted" /\ Pending(c) /\ c \notin excused

\* The last status reported of the run is its end.
Over == (IF hash = "none" THEN status ELSE hash) = "ENDED"

\* A row that will have its caller answered: that of a run which has not ended, or
\* one completed for a pause that did not come.
Keeps(w, c) == serves[w] = c /\ (row[w] = "COMPLETED" \/ (row[w] = "PENDING" /\ ~Over))

\* A caller that was accepted and waits has its answer under way, or its id is in
\* the run's job or in the waitpoint of its pause: over pauses, resumes by others,
\* retries and lost workers, nobody ends the run without answering (respondToSyncCaller,
\* respondToSyncCallerOnFailure). Else its answer was lost, its resume ignored, or
\* another caller took its place, or its waitpoint was one of two that a lost worker
\* left and the run was resumed by the other.
NobodyIsForgotten ==
  \A c \in Callers : Waiting(c) =>
    \/ c \in wire \/ job.for = c
    \/ \E w \in Waitpoints : Keeps(w, c)

\* No flow is executed for a caller that has been told it failed: a failure before
\* execution stays silent while a quick retry is to come (failBeforeExecution).
FailureIsFinal == [][attempt'.pc = "executing" /\ attempt.pc = "before" => ~told]_syncVars

\* Every caller that was accepted is answered without its timer, unless its run
\* waits at a pause that keeps its id, or it is excused.
EveryCallerIsAnswered ==
  \A c \in Callers : []<>(Waiting(c) => \E w \in Waitpoints : Keeps(w, c))
=============================================================================
