# Qadam Flow: verification models

TLA+ models of the run engine of Qadam Flow: how a flow run is queued, handed
to a worker, paused, resumed, joined with its children and stored. Each model
is checked by TLC on a small instance, and its main safety properties are
proved with TLAPS for every value of the constants.

Source paths below are relative to `src/packages/server/api/src/app/` unless
they start with `packages/`. `PROJECT.json` maps every definition that models
code to its lines.

## 1. The system

Qadam Flow runs workflow automations. An **API server** (one or more processes)
serves HTTP and webhooks and owns PostgreSQL and Redis; **workers** hold a socket
to an API process, poll it for jobs and run each in a **sandbox** with an
**engine** that walks the flow's steps; **pieces** ("qadams") are the steps'
implementations. Jobs travel through BullMQ (Redis); a run's row reaches
PostgreSQL through a queue of its own.

| component | state it keeps | operations | hard behaviour | what makes it correct |
|---|---|---|---|---|
| Waitpoints and resume (in `flows/flow-run/`: `waitpoint-service.ts`, `resume-service.ts`, `flow-runs-queue.ts`) | waitpoint row, run status, the run's job | create, complete, resume, drain's look for a completed row | callbacks before, during and after the pause; status read before the lock; jobs that BullMQ ignores | one resume per waitpoint, by the step that waits; no accepted signal lost |
| Join waitpoints (`join-waitpoint-service.ts`, `packages/qadams/core/subflows`) | slots, claims, aggregate, timeout job | dispatch, claim, answer, expire, resume | concurrent answers, replays of the parent, failed creations, crashes after the commit | one answer per slot, one verdict, one resume |
| Runs-metadata queue (`workers/job/runs-metadata-queue-factory.ts`, `flow-runs-queue.ts`) | Redis hash, deduplication key, lock, row | upload (merge, add), drain, re-add | add ignored while a job is active; update merged while a snapshot is stored; leases that lapse | no update stays behind or goes backwards |
| Job broker and rate limiter (`workers/job-queue/job-broker.ts`, `interceptors/`) | BullMQ state, lock, counters, pool of slots | tryDequeue, returnToQueue, completeJob, extendLock | stalled jobs redelivered while the old worker still reports; slots that leak | limit of concurrent runs, one answer per caller, every job ends |
| Queue dispatcher and poll RPC (`queue-dispatcher.ts`, `rpc/worker-rpc-service.ts`) | list of waiting polls, loop flag | poll, loop, time out, close | poll against loop end, disconnect against hand-out | one loop, no forgotten poll, no job lost |
| Start, retry and cancel (`flow-run-service.ts`, `job-queue.ts`, the report of a failed attempt in the worker) | row, job | start, retry, cancel, resume | several stores, no transaction; an id that a failed or waiting job still holds | a run that says QUEUED has a job, a cancelled one is not run |
| Worker leases (`packages/server/worker`: `worker.ts`, `lease-tracker.ts`, `execute-flow.ts`; `extendLock` in the broker) | lock at the API, deadline at the worker | receive, renew, give up, kill, report, retry | renewals late, lost or overtaken; a lock that lapses under a running engine | one engine at a time, steps repeated only if a worker was lost |
| Engine loops (`packages/server/engine`: `loop-executor.ts`, `flow-executor.ts`) | journal, outcome of each item, checkpoint, pool of iterations | start and settle an item, pause, checkpoint, re-enter | concurrent iterations, a pause or a retry inside a loop, rate limits over several jobs | no step repeated, no item skipped, no iteration or pause left behind |
| Sandboxes (`packages/server/worker`: `sandbox/`, `execute/`) | processes, reservations | acquire, run, kill | reuse of a process, its death against an answer | *not modelled* |
| Synchronous answers (`workers/engine-response-watcher.ts`, `webhooks/`, `resume-service.ts`, the ends of a run in engine and worker) | listener of each caller, the id in job and waitpoint | register, answer, time out, cancel | an id handed on over pauses, resumes and retries; answers over pub/sub, which keeps nothing | whoever waits is answered when the run ends, and told of a failure only if it is one |
| Triggers (`trigger/`) | trigger source, pollers, dedupe keys | enable, disable, poll | ownership across servers | *not modelled yet* |

How they interact: the dispatcher asks the broker to dequeue and gives it back
orphaned jobs; a worker's report goes to the broker (`completeJob`); the engine
uploads through the metadata queue, whose drain stores the row, fills the join
slot of a finished child and resumes a run that was signalled before it was
PAUSED; a resume adds a job to the run's queue, under the run's own id. The
remaining parts (accounts, connections, tables, agents, formula evaluator, web
client, CLI, community pieces) are listed in `PROJECT.json` as not modelled,
each with its reason.

The models split along these interfaces. `RunResume` has a simplified drain (a
snapshot, the store, the consume, the look at the waitpoints) because the order
of those four steps is what decides whether a signal is lost; `RunsMetadataQueue`
has the whole drain, with the waitpoints left out; `JoinWaitpoint` has the whole
join, with the drain reduced to the store and the look. `JobBroker` and
`QueueDispatcher` meet at "ready": what the dispatcher hands out (`HandOver`) or
returns (`Return`). `WorkerLease` looks into what `JobBroker` calls a lease that
lapses: there it is a choice of the environment, here time passes and the worker
tries to be gone before the lock is. `RunControl` has the run's job as one more
actor whose attempts end well, fail or are retried, and takes the drain for one
step, as `RunRow` says it may. `LoopExecutor` is inside an engine that the others
see as a run which pauses, resumes, and ends. `SyncAnswers` follows the caller's id
through the run's job and waitpoints, and has as much of `RunResume` and
`RunControl` as decides whose id is answered.

## 2. Modules

| module | models |
|---|---|
| `JoinContract` | abstract: what a join promises the run that waits on it |
| `JoinWaitpoint` | one join: rows, parent step, children, timeout, resume |
| `RunResume` | one run: engine, uploads, drain, waitpoints, resume calls, job |
| `RunRow` | abstract: what the metadata queue promises of a stored row |
| `RunsMetadataQueue` | uploads, hash, deduplicated jobs, lock, drain, failures |
| `JobBroker` | the life of a job under leases, and the concurrency pool |
| `QueueDispatcher` | waiting polls, the loop, the poll RPC |
| `RunControl` | one run's row and job under start, retry, cancel and resume |
| `WorkerLease` | one job from delivery to delivery, in discrete time |
| `LoopExecutor` | a top-level loop: pool, journal, verdict, checkpoints, re-entry |
| `SyncAnswers` | the callers that wait for a run: listeners, the id's way, who answers |
| `MC<X>` | instance, constraints and symmetry of `<X>` for TLC |
| `<X>Proofs` | theorems about `<X>` |
| `WaitersProofs` | theorems about `QueueDispatcher` and `SyncAnswers` |

In every module a transaction, a Redis or BullMQ script, or a stretch of
JavaScript between two awaits is one action; whatever the code does in two of
them is two actions, so that everything else can happen in between. Payloads,
names and logs are left out. Definitions marked `Mutant:` are plausible bugs of
the definition that follows them; each property is known to fail with one of
them in its place (`PROJECT.json`, "mutants").

### JoinWaitpoint

`wp`, `slot`, `claim`, `result` are the columns of the waitpoint and slot rows;
`step` is where the parent's `callFlowForEach` step is; `child` holds each child
run, the slot URL it carries and whether its row names the slot; `timer` is the
`JOIN_WAITPOINT_TIMEOUT` job; `run` is the parent's PAUSED upload on its way to
the row; `signals` are calls of `resumeFromWaitpoint` and how far they have got.

- `CreateForPause`, `ArmTimer`, `CreateAgain`: `createForPause`, whose timeout
  job is scheduled after the commit, by the call that inserted the row only.
- `Dispatch`, `DispatchFails`, `AnswerForFailedDispatch`, `Pause`, `Replay`: the
  step in the subflows piece; a replay starts the run over.
- `VerifyParent`, `ClaimSlot`, `Persist`, `PersistFails`: `queueOrCreateInstantly`
  of a child, with the release of its claim, which may fail as well.
- `Respond`, `Finish`, `FillSlotForFinishedChild`, `Expire`: every way a slot is
  answered, through `FillSlot`/`CompleteIfDecided`, one transaction under the
  row's lock.
- `StorePaused`, `ResumePreCompleted`, `ReadRunStatus`, `HandleResumeSignal`: the
  resume, from either the completing transaction or the drain.
- `CrashBeforeArming`, `CrashBeforeResume`: a process lost after a commit.

### RunResume

`status` is what is stored, `hash`/`merged`/`drain` the upload on its way, `job`
the run's BullMQ job, whose id is the run's, `row`/`stepOf` the waitpoints (a
deleted one is `resumed` or, if its job was ignored, `dropped`), `call` the calls
of `resumeFromWaitpoint`. `enqueued` and `late` are history, for properties only.
`ReadStatus` and `HandleSignal` are two actions because the code reads the run
before it takes the waitpoint's lock; it may also find no run, as a PRODUCTION run
is stored by its first drain only (`Init`), and the call is then dropped as stale,
like one to a run that is over. `UploadPaused` covers the flush loop and
the final backup. `Enqueue` does nothing while the run's id is taken, as BullMQ.

### RunsMetadataQueue

An update is its number, and the hash is the last number merged with the fields
that stick (`flowId`, `finishTime`). `Merge` and `Add` are the two halves of an
upload. A job goes through `lock`, `read`, `write`, `consume`, `after`, `unkey`,
`recheck`, `readd`, `end`; `Throw`, `Crash`, `Retry`, `Redeliver` are its
failures, `FailStalled` the end BullMQ makes of a job that was lost more than
`MaxStalls` times, `LoseLease` a lease that redlock cannot extend while the handler
goes on, and whose release at `end` may then throw. MAX_DRAIN_ITERATIONS, the
attempts and the stalls allowed are constants of any size.

### JobBroker

`state`, `lock`, `attempts`, `stalls` are BullMQ's keys; `slot` is the job's
member of the pool, `aged` once its score is too old; a delivery (one token) is a
`getNextJob` and what follows. `Take` to `HandOver` are `tryDequeue` with its two
interceptors, `Return`/`ReleaseReturned` are `returnJobToQueue`, and
`CheckLease`/`Finish`/`FailToFinish`/`Release` are `completeJob`, up to two calls
of it per delivery. `ExpireDead`, `ExpireLive`, `ScanStalled`, `AgeSlot`,
`Promote` are BullMQ and the clock.

### QueueDispatcher

`waiters`, `loopRunning` and `closed` are the dispatcher's fields; `poll` is each
call of the RPC with its abort signal; `loop` has ids for more loops than there
should be, so that a second one can be seen. `Reply` is the handler after
`jobBroker.poll`: it looks at the signal, and acknowledges or returns the job.

### RunControl

`row` and `hash` are what is stored and what is uploaded, `job` the job under the
run's id with its state in BullMQ, `attempt` what the worker's attempt has come to.
Every call is its awaits, each one action:

- `Start`, `StartAdd`: the upload of a new run and `addToQueue`.
- `RetryRead` to `RetryAdd`: `retry` FROM_FAILED_STEP. `RetryFind`, `RetryState`,
  `RetryFindAgain`, `RetryRemove` are `removeFinishedOneTimeJob`, which looks the
  job up, asks its state, looks again when that is unknown, and removes it *by id*,
  whatever has come there since; then the row is updated and the job added.
- `CancelLook` to `CancelUpload`: `cancelSingleRun`, for a run that is named or that
  the walk over the descendants reaches. `ResumeRead`, `ResumeAdd`: a PAUSED row.
- `Take`, `Send`, `Finish`, `FailBefore`, `EndRun`, `Settle`, `BackoffOver`: one
  attempt, from `getNextJob` to `completeJob`. `FailBefore` is `failBeforeExecution`,
  which reports nothing while a quick retry is to come (`RetriesQuickly`).
- `LoseWorker`, `LoseCaller`, `ReportLost`: the faults. A job lost more than
  `MaxStalls` times is failed by the broker when it is next dequeued, without a word
  to the run (`FailStalled`). `ignored`, `abandoned`,
  `newer` and `crossed` are history, for properties only.

### WorkerLease

Time is a number of ticks. `lock` is what is left of BullMQ's lock, `left` what is
left of the worker's own deadline, which it counts from the *sending* of the last
renewal that was confirmed (`FromSending`) and which starts at the receipt of the
job, so `age`, the time of the hand-over, is missing from it. `call` are the
`extendLock` calls: sent, granted or refused at the API, answered, or lost; several
are under way at once and may be answered in any order. `Expire`, `Refuse` and
`Abandon` give the job up and `Kill` ends its engine, at most `MaxLate` after the
deadline. `SendOperation`, `Return`, `Complete` are the handler of EXECUTE_FLOW and
its report, which the API takes from the holder of the lock only and which is sent
again when the answer is lost.

### LoopExecutor

`journal` has the status of each step of each item, `iterationStatus`, `failures`,
`checkpoint` and `loopStatus` are the loop's output. `waiting` and `again` are the
pool of items not in flight and `fork` the iterations that are; `terminal`, `reason`
and `paused` the verdict under way; `run` the run around the loop and what resumed
it.

- `StepSucceeds` to `StepBreaks`: the body of one iteration, with its failures,
  pauses (refused in a concurrent fork), stops, rate limits and engine errors.
- `Settle`: what the pool does with an iteration that is over: send it back to the
  head with a retry counted, record a pause, a failure or a success, collect the
  result, which may fail or break.
- `Dispatch`, `NeedsCheckpoint`, `SpacingOutlastsBudget`, `TakeCheckpoint`,
  `ReturnVerdict`, `Unwound`: the pool's loop and its exits.
- `Begin`, `Resume`, `RetryFromFailedStep`, `RetryFromScratch`, `LaterStep`,
  `FlowEnds`: the run that enters the loop again, with what `restoreLoop` and
  `isPending` make of the stored output. `EntryFails` is an entry, of any kind, whose
  items do not resolve, are no list, or are not those a checkpoint was taken over.
- `EngineLost`: the process is killed, at any point of the loop or after it. The run
  ends as INTERNAL_ERROR (`Lost`, which stands for TIMEOUT and MEMORY_LIMIT_EXCEEDED
  as well), as it does when a step breaks, and its log stays as the last upload had it. A retry asks for no particular end (`Retryable`).

`ran`, `foreign`, `cutOff`, `overlooked`, `granted`, `collectFailed` and `unobserved`
are history, for properties only: `foreign` are the items whose paused step was run
with another's resume, `overlooked` those whose own resume took them for decided, and
`cutOff` the steps that stood PAUSED in the log of a lost run when it was retried.

### SyncAnswers

`promise` is the listener of each caller (a webhook, `/sync` resumes), `wire` the
answers published and not arrived, `call` a resume with the status it read, `job.for`
the id in the run's job and `serves` that in each waitpoint row. `excused` lists who
lost an answer to a fault, to a resume that BullMQ ignored or to another caller.

- `Register`, `Start`, `StartFails`: `handleSync`. `Call`, `HandleSignal`: a resume
  with or without a caller, by `Resume` of a PAUSED run or `Complete` of one that is
  still going; `Carried` is `httpRequestId ?? waitpoint.httpRequestId`, `Displaced`
  the caller it takes the place of and `PassedBy` those of other waitpoints. `Drain`,
  `Look`: the drain's resume of a completed row, which brings no id of its own.
- `Take`, `FindNotRunnable`, `FailBefore`, `Send`: an attempt up to the operation,
  with the deadline of a sync webhook (`MayBeLate`).
- `Respond`, `CreateWaitpoint`, `Pause`, `EndFlow`, `BackUp`, `RespondToSyncCaller`:
  the engine. `Break`, `Report`, `UploadEnd`, `Settle`: the worker when the engine
  failed, which answers before it uploads.
- `TimeOut`, `LoseAnswer`, `LoseWorker` and an upload that throws are the faults.

Its `SyncInit`, `SyncNext` and `SyncSpec` have names of their own because one proof
module extends it together with `QueueDispatcher`.

## 3. Runs

| run | instance | shows |
|---|---|---|
| `join` | QUORUM 2 of 3 slots, 2 children, a replay or a crash | one child per slot; an attached child answers; a completed join has its signal; refines `JoinContract`; with no crash, a join resumes its run, by its timeout at the latest |
| `resume_core` | 2 steps, 2 waitpoints, 2 calls, one fault (abandoned waitpoint, stall, lost drain, failed commit) | one resume per waitpoint, at its own step; a signal in time is taken; a run stands still for want of a call or by one of three known races |
| `resume_ignored_job` | 1 step, 1 waitpoint, 1 call; violation | a signal taken and its job ignored |
| `metadata` | 3 jobs; 2 updates with 2 faults or 3 with one: failures, lost uploader, lost workers, a job lost twice and failed for it, lapsed lease; a deleted flow | no orphan snapshot, nothing dropped, finish announced, row only advances (`RunRow`); the hash drains, the row catches up |
| `broker_core` | 2 flow runs, one that does not parse, an interactive and a polling job, limit 1, 2 tokens, 2 attempts, a stall, a lapse, a lost process, a repeated report | limit kept, slots kept and returned; only the holder of a job answers its caller |
| `broker_live` | 2 jobs, limit 1, lapses, unreadable lock, aged slots | every job ends |
| `dispatcher` | 3 polls, 2 jobs, 2 loop ids, disconnects, a throw, a failed return | one loop, nobody forgotten, jobs in one place; jobs and polls served |
| `loop_executor` | 2 items of 2 steps, 5 settings, 3 incidents, engines lost and a retry of the run among them | no step repeated, every item decided and its failure listed, no pause abandoned or resumed by another's signal, nobody left running, rate-limit retries bounded; the loop ends |
| `loop_overlooked` | 1 item of 2 steps; violation | a paused action is not invoked again |
| `run_control` | 2 retries, a cancel, a resume, 2 attempts, a fault; or one retry and a job lost twice | a QUEUED run has its job; a retry's add loses to a newer job only; a CANCELED run is run only by who was under way; QUEUED runs move |
| `worker_lease` | 2 deliveries, 2 renewals under way, lock 5, trust 2, hand-over 1, lateness 1 | one engine at a time; steps repeated only if the first delivery was lost or given up |
| `sync_answers` | a webhook, 2 resumes that wait and one that does not, 2 waitpoints, 2 attempts, a lost worker, upload or answer; four of these at a time | a caller that waits is not forgotten; no run goes on after its caller was told it failed; every caller is answered |

### Bounds

Two actors of a kind (answers, calls, jobs, deliveries, retries) are the least that
can race, and three where a third party matters: a third metadata job can be added
while a retried and a re-added one are alive (an add that would need a fourth waits);
a third slot puts a quorum between its
reachable and unreachable counts; a third poll stands behind one that leaves and one
that is served. In `worker_lease` the margin is exactly one tick, the least that
`MarginAssumption` allows, so a lease counted one tick too generously is caught; the
two renewals are one that is late and one that overtakes it. In `loop_executor`
three incidents are a failure, a pause and something after them; the five settings
put each option of a loop beside those it interacts with, and the retry of the run is
of one that failed or that was lost; what a second retry makes of an item that was
overlooked is left to the proofs. BullMQ's limits on stalled jobs (1 for the metadata
queue, 3 for the worker jobs) are 1 in both instances, and two workers may be lost, so
that the limit is reached. Each fault happens at every place the code can suffer it.

Counters that the code does not bound (uploads, replays, crashes, stalls, lapses,
incidents) are bounded by constants named `Max...`; the theorems hold for every
value of them. Six constraints in the MC modules bound them jointly: `OneFault` (a
replay or a crash of a join; one fault of a paused run), `FourEvents` (updates plus
faults of the metadata queue), `TwoOthers` (two of a cancel, a resume and a fault
beside two retries), `FaultsApart` (two workers lost beside one retry and nothing
else), `FewEvents` (four resumes, pauses, timeouts and faults of the
callers, a fault counting twice) and `FewAtOnce` (two flow runs of the broker with
every fault but a lost report, one job of any kind with two faults, or two of any
kinds with none). `NamesInOrder` names actors in the order in which they come on
stage; it takes out the symmetry of a set where a liveness property forbids TLC's
`SYMMETRY`, and it loses no behaviour but renamed ones. A step that leaves a
constraint is not followed, so under these six the
runs say nothing of more faults; the safety part is what the proofs are for.
`CHECK_DEADLOCK FALSE` stands where a bounded run or queue really has nothing left
to do.

### Fairness

- Join: the step runs under its flow's timeout and a run ends by its own
  (`Finish`); an armed BullMQ job fires; an upload is drained and a call to resume
  goes through. Nothing says that a child is ever created or answers.
- Resume: a job is taken, a run pauses or ends, an upload drains, a call that
  began acts. Nothing says that anyone calls.
- Metadata: BullMQ runs, retries and redelivers each job; a lease nobody extends
  lapses.
- Broker: BullMQ's list is in order, so a waiting job is taken in the end though
  others come and go (strong fairness of `TakeJob`); timers fire and processes
  go on; a waiter stays often enough to be given a job (strong fairness of
  `HandOver`), as the next item says.
- Dispatcher: a poll waits 50 s and a dequeue blocks for at most 15 s, so polls
  cannot for ever time out before a job comes; hence strong fairness of the
  loop's take and hand-out. Workers poll again. A poll parked after `close` is
  served, as a test of `queue-dispatcher.ts` has it.
- Run control: workers take jobs and settle them (`Work`), uploads are drained, and
  a call that began goes on. Nothing says that anyone retries, cancels or resumes.
- Synchronous answers: workers take jobs and settle them, a flow ends, pauses or runs
  out of its time, uploads are drained, what is published arrives and a call that
  began goes on. No timer need fire, and nobody need resume a pause.
- Loop: the process goes on with what it has started and the delay of its own
  checkpoint fires. Nothing says that anyone resumes a pause or retries.

`worker_lease` has no liveness property: a lease may lapse again and again as far as
the code goes, and what then becomes of the job is `EveryJobFinishes` of the broker.

## 4. What the checks found

Two disagreements of code and documentation have a run each (`findings`):

- **An accepted resume can be ignored** (`resume_ignored_job`). A RESUME job has
  the run's id. The engine's PAUSED upload is stored before the worker has
  reported the pausing job, so a call or the drain may resume the run in between:
  BullMQ ignores the job, the waitpoint is deleted, the caller told all is well.
- **A paused item can be overlooked** (`loop_overlooked`). A FROM_FAILED_STEP retry
  runs a FAILED item again; a step of it that tolerates failures fails, the next
  pauses. The item's status is still that of the earlier attempt, so on the resume
  `isPending` takes it for decided and the loop goes on without the paused action. If
  the user retries the run once more, that action may be run after all, with the
  resume of another pause, or stay PAUSED when the loop has ended (`overlooked` in
  `OwnResume` and `PauseNotAbandoned`).

The others are gaps that a property names as its exception, or that a constant
brings out. The checked properties hold without them.

*Resume and join*

- The status is read before the lock (`flows/flow-run/waitpoint/resume-service.ts:40`):
  a call that read RUNNING completes the waitpoint after the drain's only look at it,
  and the signal stays in a COMPLETED row. `late` in `RunResume`; it is one of the
  three races of `StrandedOnlyByKnownRaces`, with the ignored job and a drain lost
  after the consume.
- A call that comes before the first drain has stored the run finds no row and is
  dropped as stale (`resume-service.ts:38-45`); the waitpoint stays PENDING. Its URL may
  be called again, but a delay fires once: the checkpoint of a durable loop, due at
  once, would then wait for ever. `StrandedOnlyByKnownRaces` leaves that case open
  (`call[c].seen = "absent"`). The model and the proof say that a run stands still in
  these ways only, as long as no step abandons its waitpoint, no worker is lost and
  every resume commits.
- A server lost between the commit that completes a join and the resume leaves the
  parent PAUSED; one lost between the creation of a join and its timeout job leaves
  it without a timeout, as the retried step schedules none (`crashes > 0` in
  `JoinResumesItsRun`).
- A step that throws after creating its waitpoint, in a flow that continues, leaves a
  row whose URL resumes another step (`abandons` in `OnlyThePausedStepIsResumed`).

*Queue and leases*

- A returned or retried job released after its delay, or redelivered past its slot's
  score, lets one run more than the limit execute (`WithinLimit`, with
  `ReleaseBeatsDelay = FALSE` or `MaxStaleScores = 1`).
- What `tryDequeue` and the answer of the poll take between the lock and the receipt
  of the job comes out of the margin of the worker's trust, and nothing bounds it.
  With `TrustTime + MaxHandOver + MaxLate = LockDuration` TLC finds two engines.
- A metadata job whose worker is lost twice is failed by BullMQ without the attempt that
  was left, and the hash it was to drain has no job until the next upload (`orphaned` in
  `NoOrphanSnapshot`, as for a job that has used up its attempts).
- A job whose engine was lost or given up after its operation was sent is handed out
  again as it was (`RunAgainOnlyIfLost` has no other case). A BEGIN job then starts
  over at the trigger (`getFlowExecutionState` reads the log for RESUME only), whereas
  `docs/install/architecture/durable-execution.mdx:57` says that the steps before the
  crash are skipped. No run is about that: what a job carries is not in the model.

*Retry and cancel*

- `retry` does not ask whether the run has ended, as
  `.agents/features/flow-runs.md:73` has it ("only terminal states"): one that saw the id free before
  a start, a resume or another retry took it, and reaches its update after that job
  ended or beside it, writes QUEUED; if its add is then ignored, the row says QUEUED
  once nothing is left to change it (`ignored`). A process that dies between retry's
  update and its add leaves the same (`abandoned`).
- A run's job that stalled more than `maxStalledCount` times is failed when it is next
  dequeued (`workers/job-queue/job-broker.ts:107-119`), and nobody uploads a verdict: a
  run that was still QUEUED stays so without a job to come (`StalledOut`, the other
  exception of `QueuedRunHasAJob` and `QueuedRunsMove`).
- A caller that looked before CANCELED was stored may still add a job (`crossed`): a
  cancellation removes what it sees and then uploads.

*Synchronous answers*

- `packages/server/engine/src/lib/operations/flow.operation.ts:67` says that the
  timeout default "is only ever reached by a run that is genuinely still going". It is
  so but for the callers in `excused`: one whose place in the waitpoint or in the job
  is taken by a later `/sync` resume, as a run answers one id; one whose resume BullMQ
  ignored; one whose answer was lost on the way; and the one that the
  next item is about.
- A worker lost while its run creates a waitpoint may leave the run with two that
  stand: the job is handed out again and creates one of its own. Either can be resumed.
  If one is resumed by a new caller, whose id the run then leaves in a third, and after
  that the other is, the run may end without answering the caller of the third
  (`PassedBy`). The run has two waitpoints and does not show it; the proof of
  `NobodyIsForgotten` failed on it, and TLC confirmed it with three.
- A `/sync` resume accepted while the run is RUNNING leaves its id in a COMPLETED row;
  if the run then fails before it is stored as PAUSED, the row is never looked at and
  the caller waits for its timer (`Keeps` counts such a row as still to be answered).
- The deadline gate and the other refusals answer 500 and then upload; if the upload
  throws, the attempt is retried, and the retry passes the gate and runs the flow for
  a caller that was told it failed. A worker lost after it told does the same. Both are
  exceptions to `FailureIsFinal`, which resets `told` there.

*Loops*

- A result that cannot be collected leaves an item FAILED with no FAILED step in its
  body, which `isPending` enters again on any resume; a checkpoint or a spacing that
  comes before the paused item then takes its resume payload, or leaves its pause
  behind, and the rate-limited retries count from none (`collectFailed`).
- A run that ended in INTERNAL_ERROR or TIMEOUT may be retried
  (`flows/flow-run/flow-run-service.ts:220-305` looks at no status). Its log may hold
  steps as PAUSED: that of a resume which broke, or of a pause whose run was killed
  before it could report it. The retry runs each with `executionType` RESUME
  (`packages/server/engine/src/lib/handler/qadam-executor.ts:104-111`), though nobody
  resumed it and there is no payload, whereas `.agents/features/flow-runs.md:101` has a
  resumed step get `waitpoint.resumePayload`. These steps are `cutOff`, which
  `OwnResume` and `PauseNotAbandoned` except one by one; a step that pauses *after* the
  retry is again under both.
- Nothing is uploaded after such an end (`flow.operation.ts:41-51`), so a step that
  succeeded after the last flush is not in the log and the retry runs it again.
  `NoStepRepeated` is about what the log has.
- An engine error while collecting is thrown outside the pool's `tryCatch`, so the
  other iterations go on after the run has failed (`unobserved`).

## 5. Proofs

All theorems are of the form `Spec => []P` or `Spec => [][A]_vars`, from an
inductive invariant; the last step is temporal logic. They assume only the named
`ASSUME` of the module (finite, non-empty sets, bounds in `Nat`, a quorum within
the slots) and what is said below.

- **Join**. The refinement needs that counting statuses and quantifying over slots
  agree: `DecideIsOutcome` and `ExpiredIsOutcome`, from `CountSum`, relate the
  code's counts with the contract's sets. `VerdictInv` says that a PENDING join
  has no verdict yet and a completed one has that of its slots; it is what makes
  each step an `Answer`, `Expire`, `Resume` or stutter of `JoinContract`.
  `SignalInv` ties the drain's look to completion, and `ClaimInv` (a slot's owner
  is the child its row names) gives one child per slot. `AttachedChildAnswers` adds
  that nothing is dispatched before the join exists, that an answered slot stays
  answered while the join is PENDING, and, from `ClaimInv`, that a fill by a child
  whose row names the slot meets the condition of the UPDATE. Every policy, number of
  slots, replays and crashes is covered.
- **Resume**. `Enqueues` counts a waitpoint's jobs against its row;
  `Rows` (a step has one row, created by the step under way or waited for) gives
  the resume of the right step; `DrainFollows` and `Standing` (the last status
  reported agrees with the engine, its waitpoint stands, and a completed one has
  a look still to come) give that only known races strand a run. `Over` (a run that
  was reported SUCCEEDED has no row and no job) and `Answered` (a call that was handled
  left its row PENDING only if it found no run) give that nobody has called the
  waitpoint such a run waits for.
- **Metadata**. `KeyHeld` (the key's holder has yet to look at the hash) is why an
  ignored add does no harm; `Sound` and `Faithful` tie snapshots to updates for
  the finish side effects. Crashes and stalls are any number; a job that BullMQ fails
  for its stalls leaves an orphan by name (`orphaned`), and these theorems except no
  other. `OneHolder` and `Fresh`, for leases that do not lapse,
  give that nothing is dropped and that the queue implements `RunRow`.
- **Broker**. `TypeOK`, locks belong to active jobs, attempts left, calls belong to
  deliveries; then `PoolBound`, that no release is on its way for a job someone
  else holds (`ReleaseInv`), and that an admitted delivery has its slot
  (`SlotInv`). The last two, and the limit, are proved under `PromptRelease`: a
  release is quicker than a delay, locks can be read, no score is outlived.
  `HolderAnswers` needs only that locks can be read. `SlotReturned` needs nothing:
  `HeldInv` (a delivery on its way to a worker holds its job), `FateInv` (why a
  delivery is given up, and who may be in the pool) and `ReturnInv` (the release of a
  finished job is owed by a call of `completeJob`, as that of a returned delivery may
  be lost) carry it.
- **Run control**. `QueuedInv` counts only on who cannot turn back: a start whose id is
  still free, a retry that has seen the id free, a cancellation about to be uploaded,
  or a job that will be run or handed out again. `NewerInv` says that a job which a
  retry meets after that look is newer than the look, which gives
  `IgnoredOnlyForANewcomer` and closes the retry's case of `QueuedInv`. `CanceledInv`
  says that nobody is left who could add a job to a run stored as CANCELED without
  queueing it first; `StartInv` is for the state before the run exists. Any number of
  retries, cancellations, resumes, attempts and faults is covered, and a job that stalls
  more often than the broker allows, which is the named exception (`StalledOut`).
- **Worker leases**. `EngineInv` is the argument: while an engine runs, the lock has at
  least what is left of its deadline, plus `LockDuration - TrustTime - MaxHandOver`.
  `HandOverInv` starts it, `GrantInv` (a granted renewal stamped the lock no earlier
  than it was sent) keeps it over answers that come late, and `left >= -MaxLate` with
  `MarginAssumption` makes the lock positive, so no other delivery can begin.
  `VerdictInv` follows a report: *retryable* is said only of an attempt that sent
  nothing, and any other verdict ends the job. The times are any numbers that satisfy
  the assumption.
- **Loop**. `OnePlace` (an item is waiting, sent back or in flight, once),
  `PoolIsUndecided` (an item in the pool is not SUCCEEDED), `PoolIsLocal` (outside the
  loop the pool is empty), `NobodyElseRuns`, then `AtOpenStep` (an iteration stands at
  a step that has not succeeded) and `SuccessIsKept` (a step that ran is in the
  journal, or its item is done) are inductive and give `NoStepRepeated` and
  `NobodyLeftRunning`, for any list, body and settings. On top of these:
  - `FailuresMatch` (the sorted list of failures has the FAILED items, each once),
    which rests on `UnlistedIs` and `RelistIs`, what removing from and inserting into
    an ascending list does, and `Decisions` (what has left the pool is decided while
    no verdict ends the loop, and a loop that stops at its first failure has none
    outside the pool but those that have paused since) give `EveryItemDecided`.
  - `CountsHold` follows the retries granted to an item from the loop that runs into
    its checkpoint and back, for as long as either may enter the item again: it gives
    `RetriesHoldAcrossCheckpoints`.
  - `Order` says that a loop which runs its items one by one has one in flight, ahead
    of all that wait, and that one which does not has no pause at all. With it
    `PausesAreOwn` follows the item a run is paused at (`Pauses`: it holds a PAUSED step
    that is not `cutOff`, and was not overlooked): outside the loop it
    is the one the run waits for and comes before all pending ones; inside it is first
    in line, at its pause with its own resume, over, or the one whose pause ends the
    loop. It gives `OwnResume` and `PauseNotAbandoned`. An invariant on `foreign` alone
    is not inductive: TLC's counterexample was the further retry of section 4, for
    which `overlooked` was added. The retry of a lost run turns every pause in the log
    into a `cutOff` one, so the argument starts again from an empty `Pauses`.
- **Dispatcher**. The flag is set exactly while one loop runs, a loop about to sleep
  on an empty list has cleared it, the list holds the waiting polls once each, and
  a job is in one hand. Together they are inductive.
- **Synchronous answers**. `NobodyIsForgotten` says where the id is now, and `AnswerInv`
  what an attempt owes it at each point: once the engine has created a waitpoint the
  caller has its answer or a row, once the worker has reported it has the answer, and
  so when the attempt is over and not to be retried. `JobInv` (an attempt and its
  verdict, and a job that is over carries no id) and `LastInv` (no end is reported of a
  run that is executing or has paused, so a PENDING row still counts) carry that.
  `OwnersInv` is about a job that is alive beside waitpoints: none of them waits for a
  caller other than the job's or an excused one, and a row that a second delivery
  finds has the id of its job. It needs `RowsInv`, by which a run has one waitpoint at a
  time until a worker is lost, and `BegunInv`, which empties the state before the
  start. `ToldInv` (after a failure was told, no attempt is left that would execute)
  gives `FailureIsFinal`. Any number of callers, waitpoints and attempts is covered,
  and every order of the faults, which `FewEvents` bounds in the run.

The type invariants are proved, so no run spends its time on them.

Every invariant and action property of a passing run is stated by a theorem. Only
model-checked: the liveness properties (`JoinResumesItsRun`, `CompletedIsTaken`,
`HashDrains`, `RowCatchesUp`,
`EveryJobFinishes`, `EveryoneIsServed`, `QueuedRunsMove`, `LoopEnds`,
`EveryCallerIsAnswered`), because liveness under fairness and `ENABLED` are out of the
prover's reach.

## 6. Not modelled, and assumptions

- `JobBroker` takes `tryDequeue` to be quicker than the two minutes of its lock: a
  lease lapses only once a worker has the job. `WorkerLease` has the hand-over, with a
  bound that the code does not state.
- `RunControl`: ON_LATEST_VERSION, which starts another run; the retention window and
  the filters; the order of the walk over descendants, which misses a child created
  while it walks and cancels children although the removal of their parent's job was
  refused; archiving; the bulk loop over runs.
- `WorkerLease`: the slots of a process, the version gate, the reconnect of the socket
  and the grace of a drain (`Abandon` may happen at any time instead).
- `JoinWaitpoint`: a replay of the parent happens while it dispatches. One after its
  PAUSED upload, by a worker lost before its report, or after the join has resumed it,
  is not followed here; `RunResume` has the redelivered job (`LoseWorker`).
- `LoopExecutor`: a retry of a run that has not ended, which is `RunControl`'s; the
  PENDING waitpoint of a pause whose execution was lost, which is `RunResume`'s
  (`abandons`); iterations that go on after collecting a result broke; what was done
  after the last upload of an execution that was lost, which is taken not to have been
  done (`ran`); a step restored as RUNNING, which is run like one that is not there;
  loops in loops, the test of a single step, routers, code, and the
  retries of one step; time, in whose place a budget may be low, and a wait long,
  whenever the code could find it so.
- `SyncAnswers`: retries and cancellations of a run, which carry no id (a cancelled
  run's caller waits for its timer); the legacy routes; the capacity check before a
  sync webhook; what an answer says. The caller of a user interaction is one job's, and
  `HolderAnswers` of `JobBroker` is about it.
- Sandboxes, triggers, publishing, inline subflows: see the plan.
  The other parts (accounts, tables, agents, formula evaluator, web client, CLI and
  the several hundred pieces, which are most of the repository's lines) have no
  protocol of this system in them; `PROJECT.json` gives the reason for each.
- Priorities, delays' lengths, data migrations of jobs, payload offloading, HTTP
  authentication, logging and telemetry.
- Legacy (V0) waitpoints and children without a `parentWaitpointId`.
- The order in which a waiting run's other uploads arrive beyond the last status.
- A deleted flow while a run is paused (the metadata queue has it).
- Redis that loses what it acknowledged, and a clock that jumps.

## 7. Plan

Order of the modules, most important first: the run's life cycle (join, resume,
metadata queue), the queue below it (broker, dispatcher), then retry and cancel, the
worker's leases, the engine's loop and the waiting callers: done, with the contracts
`JoinContract` and `RunRow` and the theorems above. What is left:

1. **ParentFailure**: `markParentRunAsFailed` between a child and its parent.
2. **Triggers and publishing**: trigger source, long polling host, dedupe, publish
   recovery.
3. Composition of `QueueDispatcher` with an abstract broker, and of `WorkerLease` with
   `JobBroker`: what lapses there is decided here.
4. Nested loops and the router in the walk of `LoopExecutor`; the inline depth guard
   as pure operators.
5. The refinement of the metadata queue by the drain of `RunResume`.

Where two runs of a component ask questions one instance can answer they are merged
before a run for a new module is added. A proof module holds one component, but for
`WaitersProofs`, which holds two small ones that share no state.
