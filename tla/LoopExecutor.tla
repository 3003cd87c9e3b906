---------------------------- MODULE LoopExecutor ----------------------------
(***************************************************************************)
(* A top-level loop over a list of items: its iterations in flight, the    *)
(* journal they write, what it records of each finished one, the verdict   *)
(* it returns, its checkpoints, and the run that enters it again after a   *)
(* pause, a checkpoint or a retry from the failed step, from the log that   *)
(* was last stored.                                                        *)
(*                                                                         *)
(* Iterations run as promises of one process: a step of any of them may    *)
(* end between two steps of the loop. Time is left out: a budget may be    *)
(* low and a wait long whenever the code could find it so.                 *)
(***************************************************************************)
EXTENDS Integers, FiniteSets, SequencesExt

CONSTANTS
  N, K,            \* items of the list, steps of the loop's body
  Settings,        \* the loop's settings a flow may be published with
  Tolerant,        \* steps of the body that continue on failure
  Pausing,         \* steps of the body that may pause
  MaxIncidents,    \* bound: failures, pauses, stops and the like in one history
  MaxUserRetries   \* bound: FROM_FAILED_STEP retries of the run

Items == 1..N
Steps == 1..K

\* mode and maxConcurrency, onIterationFailure, tolerateFailures, durable,
\* maxRateLimitRetries, a rate limit that spaces items apart, collect,
\* keepBodies, and whether the run is an inline child.
SettingsType ==
  [concurrency : Nat \ {0}, continues : BOOLEAN, tolerates : BOOLEAN,
   durable : BOOLEAN, maxRetries : Nat, spaced : BOOLEAN, collects : BOOLEAN,
   keep : {"ALL", "FAILED_ONLY", "NONE"}, inline : BOOLEAN]

ASSUME LoopAssumption ==
  /\ N \in Nat \ {0} /\ K \in Nat \ {0}
  /\ Settings \subseteq SettingsType
  /\ Tolerant \subseteq Steps /\ Pausing \subseteq Steps
  /\ MaxIncidents \in Nat /\ MaxUserRetries \in Nat

VARIABLES
  settings,
  journal,          \* the status of each step of each item
  iterationStatus, failures, loopStatus,   \* the loop's own output and status
  checkpoint,       \* output.checkpoint: whether taken, rateLimitedRetries
  waiting, again,   \* the indexes pending: never started, and sent back to the head
  fork,             \* the iterations in flight
  terminal, reason, \* the verdict that ends the loop, the checkpoint's reason
  paused,           \* the item whose pause that verdict is, or 0
  retries,          \* rateLimitedRetries
  finished, dispatched,   \* whether this execution has finished, started an item
  asked,            \* whether a provider asked this execution to wait
  run,              \* the run, and what its current execution was resumed by
  ran,              \* times a step succeeded since the loop was first entered
  foreign,          \* items whose paused step was given another pause's resume
  cutOff,           \* paused steps that the retry of a lost run goes on from
  overlooked,       \* items with a paused step that a resume took for decided
  granted,          \* retries of rate-limited items since other than a checkpoint
  collectFailed,    \* whether a result could not be collected
  unobserved,       \* whether collecting it failed with an engine error
  incidents, userRetries

kept == <<iterationStatus, failures, loopStatus, checkpoint>>
pool == <<waiting, again, terminal, reason, paused, retries, finished, dispatched, asked>>
history == <<ran, foreign, cutOff, overlooked, granted, collectFailed, unobserved>>
bounds == <<incidents, userRetries>>
vars == <<settings, journal, fork, kept, pool, run, history, bounds>>

Blank == [s \in Steps |-> "none"]
Zeros == [i \in Items |-> 0]
Off == [pc |-> "off", at |-> 0, verdict |-> "RUNNING"]
NoCheckpoint == [taken |-> FALSE, retries |-> Zeros]

Pending == waiting \cup {again[p] : p \in DOMAIN again}
InFlight == {i \in Items : fork[i].pc # "off"}
Has(i, status) == \E s \in Steps : journal[i][s] = status

Incident == incidents < MaxIncidents /\ incidents' = incidents + 1

-----------------------------------------------------------------------------
(* The body of one iteration: flowExecutor.execute in its fork *)

\* isCompleted: any step in the journal that is not PAUSED is skipped.
Reach(steps, from) ==
  LET open == {s \in from..K : steps[s] \in {"none", "PAUSED"}}
  IN IF open = {} THEN [Off EXCEPT !.pc = "over"]
     ELSE [Off EXCEPT !.pc = "body", !.at = Min(open)]

\* The step of item i that runs now.
Runs(i, s) == run.pc # "ended" /\ fork[i].pc = "body" /\ fork[i].at = s

\* It is written to the shared journal; a PAUSED one was given the resume payload,
\* of which a retry has none.
Write(i, s, status) ==
  /\ journal' = [journal EXCEPT ![i][s] = status]
  /\ foreign' = IF journal[i][s] = "PAUSED" /\ <<i, s>> \notin cutOff /\ run.item # i
                THEN foreign \cup {i} ELSE foreign
  /\ cutOff' = cutOff \ {<<i, s>>}
  /\ UNCHANGED <<settings, kept, pool, run, overlooked, granted, collectFailed,
                 unobserved, userRetries>>

GoesOn(i, s) == fork' = [fork EXCEPT ![i] = Reach(journal[i], s + 1)]
Ends(i, verdict) == fork' = [fork EXCEPT ![i].pc = "over", ![i].verdict = verdict]
Succeeds(i, s) == ran' = [ran EXCEPT ![i][s] = IF @ < 2 THEN @ + 1 ELSE @]

StepSucceeds(i, s) ==
  /\ Runs(i, s) /\ Write(i, s, "SUCCEEDED") /\ Succeeds(i, s) /\ GoesOn(i, s)
  /\ UNCHANGED incidents

\* run.stop
StepStops(i, s) ==
  /\ Runs(i, s) /\ Incident
  /\ Write(i, s, "SUCCEEDED") /\ Succeeds(i, s) /\ Ends(i, "SUCCEEDED")

\* continueIfFailureHandler
FailsWith(i, s, verdict) ==
  /\ Write(i, s, "FAILED") /\ UNCHANGED ran
  /\ IF s \in Tolerant THEN GoesOn(i, s) ELSE Ends(i, verdict)

StepFails(i, s) == Runs(i, s) /\ Incident /\ FailsWith(i, s, "FAILED")

\* The provider answers 429 with the time to wait.
StepIsLimited(i, s) ==
  /\ Runs(i, s) /\ settings.maxRetries > 0 /\ FailsWith(i, s, "LIMITED")
  /\ UNCHANGED incidents

\* Mutant: pauseRefusalFor forgets the concurrent fork.
NeverRefused == FALSE

\* pauseRefusalFor: a fork of a concurrent loop.
PauseRefused == settings.concurrency > 1

StepPauses(i, s) ==
  /\ Runs(i, s) /\ s \in Pausing /\ Incident
  /\ IF PauseRefused
     THEN FailsWith(i, s, "FAILED")
     ELSE Write(i, s, "PAUSED") /\ Ends(i, "PAUSED") /\ UNCHANGED ran

\* applyLogSizeLimitIfExceeded after the step.
StepOutgrowsTheLog(i, s) ==
  /\ Runs(i, s) /\ Incident
  /\ Write(i, s, "FAILED") /\ Ends(i, "LOG_SIZE_EXCEEDED") /\ UNCHANGED ran

\* An error of the engine's own leaves the body; the step is not restored.
StepBreaks(i, s) ==
  /\ Runs(i, s) /\ Incident
  /\ Ends(i, "ENGINE_ERROR")
  /\ UNCHANGED <<settings, journal, kept, pool, run, history, userRetries>>

BodyStep(i) ==
  \E s \in Steps :
    \/ StepSucceeds(i, s) \/ StepFails(i, s) \/ StepIsLimited(i, s)
    \/ StepPauses(i, s) \/ StepStops(i, s) \/ StepOutgrowsTheLog(i, s)
    \/ StepBreaks(i, s)

-----------------------------------------------------------------------------
(* The pool *)

Looping == run.pc = "looping"

\* The condition of the inner while.
CanDispatch ==
  /\ Looping /\ terminal = "none" /\ reason = "none"
  /\ Pending # {} /\ Cardinality(InFlight) < settings.concurrency

\* Mutant: an execution may checkpoint before any of its items has finished.
DueAtOnce ==
  {r \in {"BUDGET", "RATE_LIMIT"} :
     r = "RATE_LIMIT" => (dispatched /\ (settings.spaced \/ asked))}

\* checkpointNeeded
Due ==
  {r \in {"BUDGET", "RATE_LIMIT"} :
     \/ r = "BUDGET" /\ finished
     \/ r = "RATE_LIMIT" /\ dispatched /\ (settings.spaced \/ asked)}

NeedsCheckpoint ==
  /\ CanDispatch /\ settings.durable
  /\ reason' \in Due
  /\ UNCHANGED <<settings, journal, fork, kept, waiting, again, terminal, paused,
                 retries, finished, dispatched, asked, run, history, bounds>>

\* A loop that cannot checkpoint fails when its next start outlasts the budget.
SpacingOutlastsBudget ==
  /\ CanDispatch /\ ~settings.durable
  /\ dispatched /\ (settings.spaced \/ asked)
  /\ terminal' = "FAILED"
  /\ UNCHANGED <<settings, journal, fork, kept, waiting, again, reason, paused,
                 retries, finished, dispatched, asked, run, history, bounds>>

\* pending.shift(): the items sent back, the last one first, then the others in order.
Shift(i) ==
  IF again # <<>>
  THEN i = Head(again) /\ again' = Tail(again) /\ UNCHANGED waiting
  ELSE i \in waiting /\ (\A j \in waiting : i <= j) /\ waiting' = waiting \ {i}
       /\ UNCHANGED again

Dispatch(i) ==
  /\ CanDispatch /\ Shift(i)
  /\ fork' = [fork EXCEPT ![i] = Reach(journal[i], 1)]
  /\ dispatched' = TRUE
  /\ loopStatus' = "SUCCEEDED"
  /\ UNCHANGED <<settings, journal, iterationStatus, failures, checkpoint, terminal,
                 reason, paused, retries, finished, asked, run, history, bounds>>

\* Promise.race gives the loop an iteration that is over.
Settles(i) == Looping /\ ~CanDispatch /\ fork[i].pc = "over"

\* Mutant: the steps that succeeded are dropped too.
DropAll(steps) == Blank

\* dropFailedSteps
DropFailed(steps) == [s \in Steps |-> IF steps[s] = "FAILED" THEN "none" ELSE steps[s]]

\* A rate-limited item goes back to the head of the line, its FAILED steps dropped.
RetryLimited(i) ==
  /\ Settles(i) /\ fork[i].verdict = "LIMITED"
  /\ retries[i] < settings.maxRetries /\ terminal = "none"
  /\ retries' = [retries EXCEPT ![i] = @ + 1]
  /\ granted' = [granted EXCEPT ![i] = IF @ <= settings.maxRetries THEN @ + 1 ELSE @]
  /\ journal' = [journal EXCEPT ![i] = DropFailed(@)]
  /\ again' = <<i>> \o again
  /\ fork' = [fork EXCEPT ![i] = Off]
  /\ finished' = TRUE /\ asked' = TRUE
  /\ UNCHANGED <<settings, kept, waiting, terminal, reason, paused, dispatched,
                 run, ran, foreign, cutOff, overlooked, collectFailed, unobserved, bounds>>

Rank ==
  [v \in {"none", "RUNNING", "PAUSED", "SUCCEEDED", "FAILED", "LOG_SIZE_EXCEEDED"} |->
     CASE v = "LOG_SIZE_EXCEEDED" -> 4 [] v = "FAILED" -> 3 [] v = "SUCCEEDED" -> 2
       [] v = "PAUSED" -> 1 [] OTHER -> 0]

\* The verdict of a finished iteration as the loop sees it.
EndsTheLoop(v) == v # "RUNNING" /\ ~(settings.continues /\ v = "FAILED")
Outranking(v) == IF EndsTheLoop(v) /\ Rank[v] > Rank[terminal] THEN v ELSE terminal

\* failures: the earlier one of the item goes.
Unlisted(list, i) ==
  LET at == {p \in DOMAIN list : list[p] = i}
  IN IF at = {} THEN list ELSE RemoveAt(list, Min(at))

\* sortedInsertIndex
SortedPosition(list, i) ==
  LET after == {p \in DOMAIN list : list[p] > i}
  IN IF after = {} THEN Len(list) + 1 ELSE Min(after)

\* Its new one goes where it belongs.
Relist(list, i, failed) ==
  LET rest == Unlisted(list, i)
  IN IF failed THEN InsertAt(rest, SortedPosition(rest, i), i) ELSE rest

\* shouldKeepBody
KeepBody(i) ==
  \/ settings.keep = "ALL"
  \/ settings.keep = "FAILED_ONLY" /\ Has(i, "FAILED")

\* recordOutcome of a FAILED or SUCCEEDED iteration.
Record(i, status) ==
  /\ iterationStatus' = [iterationStatus EXCEPT ![i] = status]
  /\ retries' = [retries EXCEPT ![i] = 0]
  /\ failures' = Relist(failures, i, status = "FAILED")
  /\ journal' = IF status = "SUCCEEDED" /\ ~KeepBody(i)
                THEN [journal EXCEPT ![i] = Blank] ELSE journal

Settled(i, verdict) ==
  /\ terminal' = Outranking(verdict)
  /\ fork' = [fork EXCEPT ![i] = Off]
  /\ finished' = TRUE
  /\ UNCHANGED <<settings, loopStatus, checkpoint, waiting, again, reason,
                 dispatched, asked, run, ran, foreign, cutOff, overlooked, granted,
                 unobserved, userRetries>>

\* evaluateIteration of one that paused: nothing is recorded yet.
SettlePaused(i) ==
  /\ Settles(i) /\ fork[i].verdict = "PAUSED"
  /\ Settled(i, "PAUSED")
  /\ paused' = i
  /\ UNCHANGED <<iterationStatus, retries, failures, journal, collectFailed, incidents>>

\* One that failed, with no retry left or a wait that does not fit.
SettleFailed(i) ==
  /\ Settles(i) /\ fork[i].verdict \in {"FAILED", "LIMITED", "LOG_SIZE_EXCEEDED"}
  /\ Record(i, "FAILED")
  /\ Settled(i, IF fork[i].verdict = "LIMITED" THEN "FAILED" ELSE fork[i].verdict)
  /\ UNCHANGED <<paused, collectFailed, incidents>>

SettleSucceeded(i) ==
  /\ Settles(i) /\ fork[i].verdict \in {"RUNNING", "SUCCEEDED"}
  /\ Record(i, "SUCCEEDED")
  /\ Settled(i, fork[i].verdict)
  /\ UNCHANGED <<paused, collectFailed, incidents>>

\* The value to collect does not resolve: the iteration fails, no step of it does.
FailToCollect(i) ==
  /\ Settles(i) /\ fork[i].verdict \in {"RUNNING", "SUCCEEDED"}
  /\ settings.collects /\ Incident
  /\ Record(i, "FAILED")
  /\ Settled(i, "FAILED")
  /\ collectFailed' = TRUE
  /\ UNCHANGED paused

-----------------------------------------------------------------------------
(* The end of an execution *)

\* The locals of the loop go with it.
Leave ==
  /\ waiting' = {} /\ again' = <<>>
  /\ terminal' = "none" /\ reason' = "none" /\ paused' = 0
  /\ retries' = Zeros /\ finished' = FALSE /\ dispatched' = FALSE /\ asked' = FALSE

\* An execution without an end of its own stores no last snapshot. It may be lost at
\* any step, so it is lost where its last snapshot was taken: what it did after that
\* is in no log. (A run that is killed is reported as TIMEOUT, MEMORY_LIMIT_EXCEEDED,
\* LOG_SIZE_EXCEEDED or INTERNAL_ERROR, which differ in name only.)
Lost == run' = [run EXCEPT !.pc = "ended", !.verdict = "INTERNAL_ERROR"]

\* An engine error in one item: the others are awaited, then it is thrown.
Unwind(i) ==
  /\ Settles(i) /\ fork[i].verdict = "ENGINE_ERROR"
  /\ run' = [run EXCEPT !.pc = "unwinding"]
  /\ Leave
  /\ UNCHANGED <<settings, journal, fork, kept, history, bounds>>

\* Mutant: the error is thrown with the other items in flight.
AnyState == TRUE

\* Promise.allSettled
AllSettled == \A i \in InFlight : fork[i].pc = "over"

Unwound ==
  /\ run.pc = "unwinding" /\ AllSettled
  /\ Lost
  /\ fork' = [i \in Items |-> IF fork[i].pc = "over" THEN Off ELSE fork[i]]
  /\ UNCHANGED <<settings, journal, kept, pool, history, bounds>>

\* An engine error while a result is collected is not caught: nobody waits.
CollectBreaks(i) ==
  /\ Settles(i) /\ fork[i].verdict \in {"RUNNING", "SUCCEEDED"}
  /\ settings.collects /\ Incident
  /\ Lost /\ Leave
  /\ fork' = [fork EXCEPT ![i] = Off]
  /\ unobserved' = TRUE
  /\ UNCHANGED <<settings, journal, kept, ran, foreign, cutOff, overlooked, granted,
                 collectFailed, userRetries>>

Done == Looping /\ InFlight = {} /\ ~CanDispatch

\* continueVerdict
ContinueVerdict ==
  IF settings.continues /\ ~settings.tolerates /\ failures # <<>> THEN "FAILED"
  ELSE "RUNNING"

Checkpoints == terminal = "none" /\ reason # "none" /\ Pending # {}

Verdict ==
  IF terminal # "none" THEN terminal
  ELSE IF Checkpoints THEN IF settings.inline THEN "FAILED" ELSE "PAUSED"
  ELSE ContinueVerdict

\* What the run does with the verdict of the loop.
Takes(verdict, on, item) ==
  run' = CASE verdict = "RUNNING" -> [pc |-> "after", verdict |-> "RUNNING",
                                      on |-> "none", item |-> 0]
           [] verdict = "PAUSED" -> [pc |-> "paused", verdict |-> "PAUSED",
                                     on |-> on, item |-> item]
           [] OTHER -> [pc |-> "ended", verdict |-> verdict, on |-> "none", item |-> 0]

ReturnVerdict ==
  /\ Done /\ ~(Checkpoints /\ ~settings.inline)
  /\ loopStatus' = "SUCCEEDED"
  /\ Takes(Verdict, "item", IF Verdict = "PAUSED" THEN paused ELSE 0)
  /\ Leave
  /\ UNCHANGED <<settings, journal, fork, iterationStatus, failures, checkpoint,
                 history, bounds>>

\* Mutant: the retries spent are not carried.
CarryNone == Zeros

\* checkpoint.rateLimitedRetries
Carried == retries

TakeCheckpoint ==
  /\ Done /\ Checkpoints /\ ~settings.inline
  /\ loopStatus' = "PAUSED"
  /\ checkpoint' = [taken |-> TRUE, retries |-> Carried]
  /\ Takes("PAUSED", "loop", 0)
  /\ Leave
  /\ UNCHANGED <<settings, journal, fork, iterationStatus, failures, history, bounds>>

\* Its waitpoint cannot be created: the error leaves the loop.
CheckpointBreaks ==
  /\ Done /\ Checkpoints /\ ~settings.inline /\ Incident
  /\ Lost /\ Leave
  /\ UNCHANGED <<settings, journal, fork, kept, history, userRetries>>

\* applyLogSizeLimitIfExceeded after the loop: its own output is replaced.
LoopOutgrowsTheLog ==
  /\ Done
  /\ \/ terminal = "LOG_SIZE_EXCEEDED" /\ UNCHANGED incidents
     \/ Incident
  /\ loopStatus' = "FAILED"
  /\ Takes("LOG_SIZE_EXCEEDED", "none", 0)
  /\ Leave
  /\ UNCHANGED <<settings, journal, fork, iterationStatus, failures, checkpoint,
                 history, userRetries>>

-----------------------------------------------------------------------------
(* The run around the loop *)

FlowEnds ==
  /\ run.pc = "after"
  /\ run' = [run EXCEPT !.pc = "ended", !.verdict = "SUCCEEDED"]
  /\ UNCHANGED <<settings, journal, fork, kept, pool, history, bounds>>

\* A step after the loop pauses, or fails: the loop will be entered again.
LaterStep ==
  /\ run.pc = "after" /\ Incident
  /\ \E v \in {"PAUSED", "FAILED"} : Takes(v, "later", 0)
  /\ UNCHANGED <<settings, journal, fork, kept, pool, history, userRetries>>

\* The engine's process is killed, or an error of its own leaves a later step.
EngineLost ==
  /\ run.pc \in {"looping", "unwinding", "after"} /\ Incident
  /\ Lost /\ Leave
  /\ fork' = [i \in Items |-> Off]
  /\ UNCHANGED <<settings, journal, kept, history, userRetries>>

\* Mutant: a failed iteration counts as finished.
NeverStarted(i, j) == iterationStatus[i] = "none"

\* isPending, over the journal as restored.
IsPending(i, j) ==
  CASE iterationStatus[i] = "SUCCEEDED" -> FALSE
    [] iterationStatus[i] = "FAILED" -> \A s \in Steps : j[i][s] # "FAILED"
    [] OTHER -> TRUE

\* insertSuccessStepsOrPausedRecursively: a retry drops the FAILED steps of the
\* iterations that did not succeed.
Restored(waitpoint) ==
  [i \in Items |-> IF waitpoint \/ iterationStatus[i] = "SUCCEEDED"
                   THEN journal[i] ELSE DropFailed(journal[i])]

\* The restored output is the loop's again. One that was left at a checkpoint takes up
\* the retries counted there.
Enter(j) ==
  /\ journal' = j
  /\ waiting' = {i \in Items : IsPending(i, j)}
  /\ retries' = IF loopStatus = "PAUSED" THEN checkpoint.retries ELSE Zeros
  /\ fork' = [i \in Items |-> Off]
  /\ UNCHANGED <<settings, kept, again, terminal, reason, paused, finished, dispatched,
                 asked>>

Begin ==
  /\ run.pc = "queued"
  /\ run' = [run EXCEPT !.pc = "looping"]
  /\ Enter(journal)
  /\ UNCHANGED <<history, bounds>>

\* An item decided FAILED by an earlier attempt that has paused since, with a
\* tolerated failure in its body: a resume takes it for decided.
Overlooked(i) ==
  iterationStatus[i] = "FAILED" /\ Has(i, "PAUSED") /\ Has(i, "FAILED")

\* A waitpoint, the loop's own or another, resumes the run.
Resume ==
  /\ run.pc = "paused"
  /\ run' = [run EXCEPT !.pc = "looping"]
  /\ Enter(Restored(TRUE))
  /\ granted' = IF run.on = "loop" THEN granted ELSE Zeros
  /\ overlooked' = overlooked \cup {i \in Items : Overlooked(i)}
  /\ UNCHANGED <<ran, foreign, cutOff, collectFailed, unobserved, bounds>>

\* A user retries a run that has ended, whatever its verdict.
Retryable ==
  /\ run.pc = "ended"
  /\ userRetries < MaxUserRetries
  /\ userRetries' = userRetries + 1

\* It goes on as a resume without a payload, in a process of its own.
Retried == run' = [pc |-> "looping", verdict |-> "RUNNING", on |-> "none", item |-> 0]

\* The pauses that stand in the log of a run that was lost.
CutOff ==
  {p \in Items \X Steps : journal[p[1]][p[2]] = "PAUSED" /\ run.verdict = "INTERNAL_ERROR"}

\* An inline child that was lost has left none.
HasLog == ~(settings.inline /\ run.verdict = "INTERNAL_ERROR")

RetryFromFailedStep ==
  /\ loopStatus # "FAILED" /\ HasLog /\ Retryable /\ Retried
  /\ Enter(Restored(FALSE))
  /\ granted' = Zeros /\ unobserved' = FALSE
  /\ cutOff' = cutOff \cup CutOff
  /\ UNCHANGED <<ran, foreign, overlooked, collectFailed, incidents>>

\* A loop whose own step FAILED is not restored: all of it is run again.
RetryFromScratch ==
  /\ loopStatus = "FAILED" /\ HasLog /\ Retryable /\ Retried
  /\ journal' = [i \in Items |-> Blank]
  /\ iterationStatus' = [i \in Items |-> "none"]
  /\ failures' = <<>> /\ checkpoint' = NoCheckpoint /\ loopStatus' = "SUCCEEDED"
  /\ waiting' = Items /\ retries' = Zeros /\ fork' = [i \in Items |-> Off]
  /\ ran' = [i \in Items |-> [s \in Steps |-> 0]]
  /\ foreign' = {} /\ cutOff' = {} /\ overlooked' = {} /\ granted' = Zeros
  /\ collectFailed' = FALSE /\ unobserved' = FALSE
  /\ UNCHANGED <<settings, again, terminal, reason, paused, finished, dispatched,
                 asked, incidents>>

\* The items do not resolve, are no list, or are not those a checkpoint was taken over.
EntryFails ==
  /\ \/ run.pc \in {"queued", "paused"} /\ UNCHANGED userRetries
     \/ HasLog /\ Retryable
  /\ Incident
  /\ loopStatus' = "FAILED"
  /\ Takes("FAILED", "none", 0)
  /\ fork' = [i \in Items |-> Off] /\ unobserved' = FALSE
  /\ UNCHANGED <<settings, journal, iterationStatus, failures, checkpoint, pool, ran,
                 foreign, cutOff, overlooked, granted, collectFailed>>

-----------------------------------------------------------------------------
Init ==
  /\ settings \in Settings
  /\ journal = [i \in Items |-> Blank]
  /\ iterationStatus = [i \in Items |-> "none"]
  /\ failures = <<>> /\ loopStatus = "SUCCEEDED" /\ checkpoint = NoCheckpoint
  /\ ran = [i \in Items |-> [s \in Steps |-> 0]]
  /\ fork = [i \in Items |-> Off]
  /\ waiting = {} /\ again = <<>> /\ terminal = "none" /\ reason = "none" /\ paused = 0
  /\ retries = Zeros
  /\ finished = FALSE /\ dispatched = FALSE /\ asked = FALSE
  /\ run = [pc |-> "queued", verdict |-> "RUNNING", on |-> "none", item |-> 0]
  /\ foreign = {} /\ cutOff = {} /\ overlooked = {} /\ granted = Zeros
  /\ collectFailed = FALSE /\ unobserved = FALSE
  /\ incidents = 0 /\ userRetries = 0

Settle(i) ==
  \/ RetryLimited(i) \/ SettlePaused(i) \/ SettleFailed(i) \/ SettleSucceeded(i)
  \/ FailToCollect(i) \/ CollectBreaks(i) \/ Unwind(i)

PoolStep ==
  \/ NeedsCheckpoint \/ SpacingOutlastsBudget \/ \E i \in Items : Dispatch(i)
  \/ ReturnVerdict \/ TakeCheckpoint \/ CheckpointBreaks \/ LoopOutgrowsTheLog
  \/ Unwound

RunStep ==
  \/ Begin \/ Resume \/ EntryFails \/ FlowEnds \/ LaterStep
  \/ RetryFromFailedStep \/ RetryFromScratch \/ EngineLost

ProcessStep == (\E i \in Items : BodyStep(i) \/ Settle(i)) \/ PoolStep

Next == ProcessStep \/ RunStep

Spec == Init /\ [][Next]_vars

\* The process goes on with what it has started, and the delay of a checkpoint
\* fires. That anyone else resumes a pause, or retries, nothing promises.
Fairness ==
  WF_vars(ProcessStep) /\ WF_vars(Begin \/ FlowEnds) /\ WF_vars(run.on = "loop" /\ Resume)

FairSpec == Spec /\ Fairness
-----------------------------------------------------------------------------
(* Properties *)

Verdicts == {"RUNNING", "PAUSED", "SUCCEEDED", "FAILED", "LOG_SIZE_EXCEEDED"}
Bodies == [Steps -> {"none", "SUCCEEDED", "FAILED", "PAUSED"}]
Journals == [Items -> Bodies]
Statuses == [Items -> {"none", "SUCCEEDED", "FAILED"}]
Counts == [Items -> Nat]
CheckpointStates == [taken : BOOLEAN, retries : Counts]
Forks == [Items -> [pc : {"off", "body", "over"}, at : 0..K,
                    verdict : Verdicts \cup {"LIMITED", "ENGINE_ERROR"}]]
RunStates == [pc : {"queued", "looping", "unwinding", "after", "paused", "ended"},
              verdict : Verdicts \cup {"INTERNAL_ERROR"},
              on : {"none", "item", "loop", "later"}, item : 0..N]
Successes == [Items -> [Steps -> 0..2]]

\* The types.
TypeOK ==
  /\ settings \in Settings
  /\ journal \in Journals /\ iterationStatus \in Statuses /\ failures \in Seq(Items)
  /\ loopStatus \in {"SUCCEEDED", "PAUSED", "FAILED"} /\ checkpoint \in CheckpointStates
  /\ waiting \subseteq Items /\ again \in Seq(Items) /\ fork \in Forks
  /\ terminal \in Verdicts \cup {"none"} /\ reason \in {"none", "BUDGET", "RATE_LIMIT"}
  /\ paused \in 0..N /\ retries \in Counts
  /\ finished \in BOOLEAN /\ dispatched \in BOOLEAN /\ asked \in BOOLEAN
  /\ run \in RunStates
  /\ ran \in Successes /\ foreign \subseteq Items
  /\ cutOff \subseteq Items \X Steps /\ overlooked \subseteq Items /\ granted \in Counts
  /\ collectFailed \in BOOLEAN /\ unobserved \in BOOLEAN
  /\ incidents \in 0..MaxIncidents /\ userRetries \in 0..MaxUserRetries

\* A step that succeeded is not run again, by a rate-limited retry of its item, a
\* resume, a checkpoint or a retry of the run: unless the loop's own output was
\* replaced and all of it starts over. (A success that an execution had not stored
\* before it was lost is in no log: it may be repeated, and is not counted in ran.)
NoStepRepeated == \A i \in Items, s \in Steps : ran[i][s] <= 1

\* A loop that lets the flow go on has decided every item; it has failed ones only
\* if the flow tolerates them (continueVerdict), and its failures list exactly these,
\* each once and in the order of the items.
EveryItemDecided ==
  run.pc = "after" =>
    /\ \A i \in Items :
         \/ iterationStatus[i] = "SUCCEEDED"
         \/ iterationStatus[i] = "FAILED" /\ settings.continues /\ settings.tolerates
         \/ Overlooked(i)
    /\ \A p, q \in DOMAIN failures : p < q => failures[p] < failures[q]
    /\ \A i \in Items :
         iterationStatus[i] = "FAILED" <=> \E p \in DOMAIN failures : failures[p] = i

\* No pause is left behind: a loop that returns another verdict holds no PAUSED
\* step, whose waitpoint would stay PENDING, but in an item that a resume overlooked
\* or one that lost its resume with an execution.
PauseNotAbandoned ==
  run.pc \in {"after", "ended"} /\ run.verdict # "INTERNAL_ERROR" /\ loopStatus # "FAILED"
    => \A i \in Items, s \in Steps : journal[i][s] = "PAUSED" =>
         i \in overlooked \/ <<i, s>> \in cutOff \/ collectFailed

\* As the documentation of qadams has it: the action that paused is invoked again
\* once its waitpoint is resumed.
PausedActionIsInvokedAgain ==
  run.pc = "after" => \A i \in Items : ~Has(i, "PAUSED")

\* A paused step is run again by its own resume, never by another's: unless its
\* resume overlooked it, or the loop enters an item whose result could not be
\* collected before it. (The retry of a lost run resumes the steps that its log has
\* as paused, all of them, and has no payload for any: those are cutOff.)
OwnResume == collectFailed \/ foreign \subseteq overlooked

\* A run that is over has no iteration in flight, unless collecting a result broke.
NobodyLeftRunning ==
  run.pc \notin {"looping", "unwinding"} => InFlight = {} \/ unobserved

\* maxRateLimitRetries holds across checkpoints; an item whose result could not be
\* collected is entered again with none of them counted.
RetriesHoldAcrossCheckpoints ==
  collectFailed \/ \A i \in Items : granted[i] <= settings.maxRetries

\* However low its budget and long its waits, a loop ends or waits for a waitpoint
\* of someone else: its checkpoints cannot go on for ever.
LoopEnds == <>[](run.pc = "ended" \/ (run.pc = "paused" /\ run.on # "loop"))
=============================================================================
