----------------------------- MODULE RunControl -----------------------------
(***************************************************************************)
(* One run, its stored row and the one job that may carry its id, while    *)
(* callers start, retry, cancel and resume it. Each call is several awaits *)
(* on two stores: it looks at one, changes the other, and acts on what it  *)
(* saw. The worker's attempt is a third party that frees the id, keeps it  *)
(* for a backoff, or leaves it taken by a job that failed for good.        *)
(*                                                                         *)
(* A descendant reached by cancel's walk gets what a run named by the call *)
(* gets, on the same condition on its row. A drain is one step here, as    *)
(* the contract of RunsMetadataQueue allows; a resume other than that of a *)
(* PAUSED row is in RunResume.                                             *)
(***************************************************************************)
EXTENDS Integers

CONSTANTS
  Retries,    \* bound: calls of retry, FROM_FAILED_STEP
  Cancels,    \* bound: calls of cancel
  Resumes,    \* bound: resume signals
  Attempts,   \* attempts of an EXECUTE_FLOW job
  MaxStalls,  \* maxStalledCount
  MaxFaults   \* bound: callers, reports and workers lost

ASSUME ControlAssumption ==
  Attempts \in Nat \ {0} /\ MaxStalls \in Nat /\ MaxFaults \in Nat

VARIABLES
  row,        \* flow_run.status as stored
  hash,       \* the status uploaded and not drained yet
  job,        \* the job under the run's id
  attempt,    \* the attempt of the active job, and what its worker will report
  waiting,    \* whether the waitpoint of the last pause is still there
  start,      \* queueOrCreateInstantly and addToQueue of start
  retry,      \* the calls of retry: where each is, and whether the run had ended
  newer,      \* the retries since whose last look at the id a job was added
  cancel,     \* the calls of cancel
  resume,     \* the resume signals
  ignored,    \* whether an add of a retry was ignored
  abandoned,  \* whether a caller or the report of an attempt was lost
  crossed,    \* whether the last CANCELED was stored while a job or a caller was on its way
  faults

vars == <<row, hash, job, newer, attempt, waiting, start, retry, cancel, resume,
          ignored, abandoned, crossed, faults>>
callers == <<start, retry, cancel, resume>>
history == <<ignored, abandoned, crossed>>

Cancellable == {"QUEUED", "PAUSED"}
Terminal == {"ENDED", "CANCELED"}    \* ENDED: any verdict but a cancellation
Statuses == {"RUNNING"} \cup Cancellable \cup Terminal

NoJob == [state |-> "none", attempts |-> 0, stalls |-> 0, quick |-> TRUE]
InFlight == {"waiting", "active"}
HasJob == job.state # "none"

-----------------------------------------------------------------------------
(* The queue *)

Looking == {"find", "state", "again", "remove"}
Retrying(k) == retry[k].pc \in Looking \cup {"update", "add"}

\* The add of a job with an id that is free. One enqueued by an older version has
\* no quick backoff.
AddJob(quick) ==
  /\ job' = [NoJob EXCEPT !.state = "waiting", !.quick = quick]
  /\ newer' = newer \cup {k \in Retries : Retrying(k)}

\* BullMQ ignores an add under an id it holds, whatever the state of its job.
AddIfFree(quick) ==
  IF HasJob THEN UNCHANGED <<job, newer>> ELSE AddJob(quick)

\* Mutant: the job keeps the id.
JobStays == UNCHANGED job

RemoveJob == job' = NoJob

StalledTooOften == job.stalls > MaxStalls

Take ==
  /\ job.state = "waiting" /\ ~StalledTooOften
  /\ job' = [job EXCEPT !.state = "active"]
  /\ attempt' = "taken"
  /\ UNCHANGED <<row, hash, newer, waiting, callers, history, faults>>

\* tryDequeue of a job with a deferredFailure: it is failed, whatever the row says.
FailStalled ==
  /\ job.state = "waiting" /\ StalledTooOften
  /\ job' = [job EXCEPT !.state = "failed"]
  /\ UNCHANGED <<row, hash, newer, attempt, waiting, callers, history, faults>>

BackoffOver ==
  /\ job.state = "delayed"
  /\ job' = [job EXCEPT !.state = "waiting"]
  /\ UNCHANGED <<row, hash, newer, attempt, waiting, callers, history, faults>>

LastAttempt == job.attempts + 1 >= Attempts

\* completeJob: the id is free once a job completed, and taken while it waits for
\* its backoff or has failed for good.
Settle ==
  /\ \/ attempt = "complete" /\ job' = NoJob
     \/ /\ attempt = "retryable" /\ ~LastAttempt
        /\ job' = [job EXCEPT !.state = "delayed", !.attempts = @ + 1]
     \/ /\ attempt = "final" \/ (attempt = "retryable" /\ LastAttempt)
        /\ job' = [job EXCEPT !.state = "failed"]
  /\ attempt' = "off"
  /\ UNCHANGED <<row, hash, newer, waiting, callers, history, faults>>

\* The worker is lost: the stalled scan puts the job back.
LoseWorker ==
  /\ attempt # "off" /\ faults < MaxFaults
  /\ faults' = faults + 1
  /\ job' = [job EXCEPT !.state = "waiting", !.stalls = @ + 1]
  /\ attempt' = "off"
  /\ UNCHANGED <<row, hash, newer, waiting, callers, history>>

-----------------------------------------------------------------------------
(* The attempt *)

\* The engine receives the operation and backs the run up as RUNNING.
Send ==
  /\ attempt = "taken"
  /\ attempt' = "running"
  /\ hash' = "RUNNING"
  /\ UNCHANGED <<row, job, newer, waiting, callers, history, faults>>

Finish ==
  /\ attempt = "running"
  /\ attempt' = "complete"
  /\ \/ hash' = "ENDED" /\ UNCHANGED waiting
     \/ hash' = "PAUSED" /\ waiting' = TRUE
  /\ UNCHANGED <<row, job, newer, callers, history, faults>>

Reported == hash' = "ENDED" /\ UNCHANGED <<abandoned, faults>>

\* The report throws. The run is on its own if no attempt follows.
ReportLost ==
  /\ faults < MaxFaults
  /\ faults' = faults + 1
  /\ abandoned' = (abandoned \/ attempt = "running" \/ LastAttempt)
  /\ UNCHANGED hash

\* Mutant: the attempts left are not counted.
QuickBackoff == job.quick

\* canRetryBeforeExecution.
RetriesQuickly == job.quick /\ ~LastAttempt

\* failBeforeExecution: nothing is reported when a quick retry comes, and a report
\* that throws changes nothing else.
FailBefore ==
  /\ attempt = "taken"
  /\ attempt' = "retryable"
  /\ IF RetriesQuickly THEN UNCHANGED <<hash, abandoned, faults>> ELSE Reported \/ ReportLost
  /\ UNCHANGED <<row, job, newer, waiting, callers, ignored, crossed>>

\* The handler ends the run itself, as a failure of the job or not: once steps may
\* have run with reportBestEffort, before that with a report whose throw is retried.
EndRun ==
  /\ \/ attempt = "running" /\ attempt' \in {"final", "complete"} /\ (Reported \/ ReportLost)
     \/ attempt = "taken" /\ attempt' \in {"final", "complete"} /\ Reported
     \/ attempt = "taken" /\ attempt' = "retryable" /\ ReportLost
  /\ UNCHANGED <<row, job, newer, waiting, callers, ignored, crossed>>

-----------------------------------------------------------------------------
(* Starting *)

\* queueOrCreateInstantly uploads the run, whose row comes with the first drain ...
Start ==
  /\ start = "idle"
  /\ start' = "uploaded"
  /\ hash' = "QUEUED"
  /\ UNCHANGED <<row, job, newer, attempt, waiting, retry, cancel, resume, history, faults>>

\* ... and addToQueue follows.
StartAdd ==
  /\ start = "uploaded"
  /\ start' = "done"
  /\ \E quick \in BOOLEAN : AddIfFree(quick)
  /\ UNCHANGED <<row, hash, attempt, waiting, retry, cancel, resume, history, faults>>

-----------------------------------------------------------------------------
(* Retrying *)

\* What was read of the run counts until the state of the job is known.
RetryTo(k, pc) ==
  retry' = [retry EXCEPT ![k] = [pc |-> pc, ended |-> @.ended /\ pc = "state"]]

\* What a caller that only looks, or removes, leaves as it is.
Untouched == UNCHANGED <<row, hash, attempt, waiting, start, history, faults>>

RetryRead(k) ==
  /\ retry[k].pc = "idle" /\ row # "absent"
  /\ retry' = [retry EXCEPT ![k] = [pc |-> "find", ended |-> row \in Terminal]]
  /\ UNCHANGED <<job, newer, cancel, resume>> /\ Untouched

\* The call looks at the id. The job's timestamp would tell it of a later one.
Looks(k) == newer' = newer \ {k}

\* Nobody holds the id: on to the row.
GoOn(k) == RetryTo(k, "update") /\ Looks(k)

RetryFind(k) ==
  /\ retry[k].pc = "find"
  /\ RetryTo(k, IF HasJob THEN "state" ELSE "update")
  /\ Looks(k)
  /\ UNCHANGED <<job, cancel, resume>> /\ Untouched

\* alreadyInFlight. A delayed job is its run's next attempt, unless the run ended.
LeavesJob(k) == job.state \in InFlight \/ (job.state = "delayed" /\ ~retry[k].ended)

RetryState(k) ==
  /\ retry[k].pc = "state"
  /\ RetryTo(k, IF LeavesJob(k) THEN "over" ELSE IF HasJob THEN "remove" ELSE "again")
  /\ UNCHANGED <<job, newer, cancel, resume>> /\ Untouched

\* A state that is unknown: the job went away, or another came since.
RetryFindAgain(k) ==
  /\ retry[k].pc = "again"
  /\ IF HasJob THEN RetryTo(k, "remove") /\ UNCHANGED newer ELSE GoOn(k)
  /\ UNCHANGED <<job, cancel, resume>> /\ Untouched

\* job.remove, by id: of whatever job is there but a locked one. An error ends the
\* call, be it alreadyInFlight, for a job added since the look, or a throw.
RetryRemove(k) ==
  /\ retry[k].pc = "remove"
  /\ IF job.state \in {"none", "active"}
     THEN RetryTo(k, "over") /\ UNCHANGED <<job, newer>>
     ELSE GoOn(k) /\ RemoveJob
  /\ UNCHANGED <<cancel, resume>> /\ Untouched

\* The row is queued afresh, beside whatever upload is still to be drained.
RetryUpdate(k) ==
  /\ retry[k].pc = "update"
  /\ RetryTo(k, "add")
  /\ row' = "QUEUED"
  /\ UNCHANGED <<hash, job, newer, attempt, waiting, start, cancel, resume, history, faults>>

RetryAdd(k) ==
  /\ retry[k].pc = "add"
  /\ AddIfFree(TRUE)
  /\ RetryTo(k, IF HasJob THEN "ignored" ELSE "over")
  /\ ignored' = (ignored \/ HasJob)
  /\ UNCHANGED <<row, hash, attempt, waiting, start, cancel, resume, abandoned, crossed,
                 faults>>

-----------------------------------------------------------------------------
(* Cancelling *)

CancelTo(c, pc) == cancel' = [cancel EXCEPT ![c] = pc]

\* The filter of cancel, or the walk over the descendants.
CancelLook(c) ==
  /\ cancel[c] = "idle" /\ row \in Cancellable
  /\ CancelTo(c, "find")
  /\ UNCHANGED <<job, newer, retry, resume>> /\ Untouched

CancelFind(c) ==
  /\ cancel[c] = "find"
  /\ CancelTo(c, IF HasJob THEN "remove" ELSE "upload")
  /\ UNCHANGED <<job, newer, retry, resume>> /\ Untouched

CancelRemove(c) ==
  /\ cancel[c] = "remove"
  /\ IF job.state \in {"none", "active"}
     THEN CancelTo(c, "over") /\ UNCHANGED job
     ELSE CancelTo(c, "upload") /\ RemoveJob
  /\ UNCHANGED <<newer, retry, resume>> /\ Untouched

CancelUpload(c) ==
  /\ cancel[c] = "upload"
  /\ CancelTo(c, "over")
  /\ hash' = "CANCELED"
  /\ UNCHANGED <<row, job, newer, attempt, waiting, start, retry, resume, history, faults>>

-----------------------------------------------------------------------------
(* Resuming *)

\* Mutant: any row that is not RUNNING is resumed at once.
NotRunning == row # "RUNNING"

Resumable == row = "PAUSED"

ResumeRead(s) ==
  /\ resume[s] = "idle" /\ waiting /\ Resumable
  /\ resume' = [resume EXCEPT ![s] = "read"]
  /\ UNCHANGED <<job, newer, retry, cancel>> /\ Untouched

\* The waitpoint goes with the first signal, whether or not the job was accepted.
ResumeAdd(s) ==
  /\ resume[s] = "read"
  /\ resume' = [resume EXCEPT ![s] = "done"]
  /\ IF waiting THEN AddIfFree(TRUE) ELSE UNCHANGED <<job, newer>>
  /\ waiting' = FALSE
  /\ UNCHANGED <<row, hash, attempt, start, retry, cancel, history, faults>>

-----------------------------------------------------------------------------
(* Storing, and losing callers *)

Starting == start = "uploaded"
Cancelling(c) == cancel[c] \in {"find", "remove", "upload"}
Resuming(s) == resume[s] = "read"

\* Someone who will still add a job.
Coming ==
  Starting \/ (\E k \in Retries : Retrying(k)) \/ (\E s \in Resumes : Resuming(s))

Drain ==
  /\ hash # "none"
  /\ row' = hash /\ hash' = "none"
  /\ crossed' = IF hash = "CANCELED" THEN HasJob \/ Coming ELSE crossed
  /\ UNCHANGED <<job, newer, attempt, waiting, callers, ignored, abandoned, faults>>

\* The process of a caller dies between two of its steps.
LoseCaller ==
  /\ faults < MaxFaults
  /\ faults' = faults + 1
  /\ abandoned' = TRUE
  /\ \/ Starting /\ start' = "lost" /\ UNCHANGED <<retry, cancel>>
     \/ \E k \in Retries : Retrying(k) /\ RetryTo(k, "over") /\ UNCHANGED <<start, cancel>>
     \/ \E c \in Cancels : Cancelling(c) /\ CancelTo(c, "over") /\ UNCHANGED <<start, retry>>
  /\ UNCHANGED <<row, hash, job, newer, attempt, waiting, resume, ignored, crossed>>

-----------------------------------------------------------------------------
Init ==
  /\ row = "absent" /\ hash = "none"
  /\ job = NoJob /\ newer = {} /\ attempt = "off" /\ waiting = FALSE
  /\ start = "idle"
  /\ retry = [k \in Retries |-> [pc |-> "idle", ended |-> FALSE]]
  /\ cancel = [c \in Cancels |-> "idle"]
  /\ resume = [s \in Resumes |-> "idle"]
  /\ ignored = FALSE /\ abandoned = FALSE /\ crossed = FALSE /\ faults = 0

RetryStep(k) ==
  RetryFind(k) \/ RetryState(k) \/ RetryFindAgain(k) \/ RetryRemove(k)
  \/ RetryUpdate(k) \/ RetryAdd(k)

CancelStep(c) == CancelFind(c) \/ CancelRemove(c) \/ CancelUpload(c)

Work == Take \/ FailStalled \/ BackoffOver \/ Settle \/ Send \/ Finish \/ FailBefore \/ EndRun

Next ==
  \/ Start \/ StartAdd \/ Drain \/ Work \/ LoseWorker \/ LoseCaller
  \/ \E k \in Retries : RetryRead(k) \/ RetryStep(k)
  \/ \E c \in Cancels : CancelLook(c) \/ CancelStep(c)
  \/ \E s \in Resumes : ResumeRead(s) \/ ResumeAdd(s)

Spec == Init /\ [][Next]_vars

\* Workers take jobs and settle them, uploads are drained, and a call goes on.
Fairness ==
  /\ WF_vars(Work) /\ WF_vars(Drain) /\ WF_vars(StartAdd)
  /\ \A k \in Retries : WF_vars(RetryStep(k))
  /\ \A c \in Cancels : WF_vars(CancelStep(c))
  /\ \A s \in Resumes : WF_vars(ResumeAdd(s))

LiveSpec == Spec /\ Fairness

-----------------------------------------------------------------------------
(* Properties *)

\* The variables keep their types, and a job is active exactly while it is attempted.
TypeOK ==
  /\ row \in Statuses \cup {"absent"} /\ hash \in Statuses \cup {"none"}
  /\ job \in [state : InFlight \cup {"none", "delayed", "failed"}, attempts : Nat,
              stalls : Nat, quick : BOOLEAN]
  /\ newer \subseteq Retries
  /\ attempt \in {"off", "taken", "running", "complete", "retryable", "final"}
  /\ attempt # "off" <=> job.state = "active"
  /\ waiting \in BOOLEAN
  /\ start \in {"idle", "uploaded", "done", "lost"}
  /\ retry \in [Retries -> [pc : Looking \cup {"idle", "update", "add", "ignored", "over"},
                            ended : BOOLEAN]]
  /\ cancel \in [Cancels -> {"idle", "find", "remove", "upload", "over"}]
  /\ resume \in [Resumes -> {"idle", "read", "done"}]
  /\ ignored \in BOOLEAN /\ abandoned \in BOOLEAN /\ crossed \in BOOLEAN
  /\ faults \in 0 .. MaxFaults

\* Someone is still to change the job, the uploads or the row.
Busy == Coming \/ (\E c \in Cancels : Cancelling(c)) \/ attempt # "off"

StalledOut == job.state = "failed" /\ StalledTooOften

\* A run that says QUEUED has a job that will run it, or someone at work on it: a
\* retry does not leave it QUEUED for ever, as it did before #584. Else a process
\* died half way, the report of a failure was lost, the job was failed for stalling
\* too often, which nobody reports, or a retry's add was ignored.
QueuedRunHasAJob ==
  row = "QUEUED" /\ hash = "none" /\ ~Busy =>
    job.state \in {"waiting", "delayed"} \/ abandoned \/ ignored \/ StalledOut

\* A retry's add is ignored only in favour of a job added since the retry saw the
\* id free: not of the job the run had, failed or waiting for its backoff.
IgnoredOnlyForANewcomer ==
  \A k \in Retries : retry[k].pc = "ignored" => k \in newer

\* A run stored as CANCELED is not run again by anyone who looked at it afterwards
\* and did not queue it afresh: its job is gone before CANCELED is uploaded, and
\* only a caller under way when it was stored brings another.
CanceledRunIsNotRun == row = "CANCELED" /\ HasJob => crossed

\* A run that says QUEUED says something else in the end.
QueuedRunsMove == row = "QUEUED" ~> (row # "QUEUED" \/ abandoned \/ ignored \/ StalledOut)
=============================================================================
