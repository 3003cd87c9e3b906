------------------------- MODULE RunsMetadataQueue -------------------------
(***************************************************************************)
(* The updates of one run on their way to its row. An upload merges its    *)
(* fields into the run's hash and then adds a job, which BullMQ ignores    *)
(* while another holds the run's deduplication key. A job takes the run's  *)
(* lock, stores what the hash holds until it is empty, gives the key back  *)
(* and looks at the hash once more.                                        *)
(*                                                                         *)
(* An update is its number: the hash holds every field merged since it was *)
(* last consumed, so the last number stands for them all. What happens to  *)
(* the waitpoints on the way is in RunResume and JoinWaitpoint.            *)
(***************************************************************************)
EXTENDS Integers

CONSTANTS
  Jobs,           \* bound: BullMQ jobs that exist at a time
  None,
  MaxUploads,     \* bound: updates of the run
  MaxIterations,  \* MAX_DRAIN_ITERATIONS
  Attempts,       \* attempts of a job
  MaxStalls,      \* maxStalledCount of its worker: BullMQ's default, 1
  MaxFailures,    \* bound: attempts that throw
  MaxLosses,      \* bound: uploaders that die between the merge and the add
  MaxCrashes,     \* bound: workers lost with a job
  MaxLapses       \* bound: leases that lapse while their holder still works

ASSUME QueueAssumption ==
  /\ None \notin Jobs
  /\ MaxUploads \in Nat /\ MaxFailures \in Nat /\ MaxLosses \in Nat /\ MaxLapses \in Nat
  /\ MaxCrashes \in Nat /\ MaxStalls \in Nat
  /\ MaxIterations \in Nat \ {0} /\ Attempts \in Nat \ {0}

VARIABLES
  merged,       \* updates merged so far
  hash,         \* the runs_metadata hash of the run
  adding,       \* uploaders between the merge and the add
  key,          \* the job that holds the deduplication key
  job,          \* the jobs: where each is, and the snapshot it works on
  lock,         \* the job whose lease of the run's lock stands
  row,          \* the last update the row holds; Absent without a row
  gone,         \* whether the flow was deleted, and its runs with it
  ended,        \* whether an update with a finishTime was merged
  announced,    \* whether the finish side effects ran
  skipped,      \* whether they were lost after the consume
  orphaned,     \* whether an add or a job was lost for good since the last add
  failures, losses, crashes, lapses

uploads == <<merged, hash, adding, ended>>
finish == <<announced, skipped>>
faults == <<failures, losses, crashes, lapses>>
vars == <<uploads, key, job, lock, row, gone, finish, orphaned, faults>>

Absent == -1
Snapshot == [v : 0 .. MaxUploads, creates : BOOLEAN, finish : BOOLEAN]
Empty == [v |-> 0, creates |-> FALSE, finish |-> FALSE]

\* The places of a job that holds the lock, and of one that is alive.
Holding == {"read", "write", "consume", "drop", "after", "unkey", "recheck", "readd", "end"}
Running == Holding \cup {"lock"}
Alive == Running \cup {"waiting", "backoff", "stalled"}

Job == [pc : Alive \cup {"gone"}, snap : Snapshot,
        iter : 0 .. MaxIterations - 1, attempts : 0 .. Attempts - 1, stalls : Nat]
NoJob == [pc |-> "gone", snap |-> Empty, iter |-> 0, attempts |-> 0, stalls |-> 0]
NewJob == [NoJob EXCEPT !.pc = "waiting"]

-----------------------------------------------------------------------------
(* Uploading *)

\* Mutant: the update replaces the hash instead of being merged into it.
Overwrite(f) ==
  [v |-> merged + 1, creates |-> merged = 0 /\ row = Absent, finish |-> f]

\* distributedStore.merge: fields already there stay. The first update of a run
\* without a row is the run itself, and the only one with a flowId.
MergedHash(f) ==
  [v |-> merged + 1,
   creates |-> hash.creates \/ (merged = 0 /\ row = Absent),
   finish |-> hash.finish \/ f]

\* The first half of add. f: whether the update carries a finishTime.
Merge(f) ==
  /\ merged < MaxUploads
  /\ f => merged > 0 \/ row # Absent
  /\ hash' = MergedHash(f)
  /\ merged' = merged + 1
  /\ ended' = (ended \/ f)
  /\ adding' = adding + 1
  /\ UNCHANGED <<key, job, lock, row, gone, finish, orphaned, faults>>

\* Queue.add with a deduplication id, applied to the jobs as they are in jobs.
QueueAdd(jobs) ==
  IF key = None
  THEN \E j \in Jobs :
         /\ jobs[j].pc = "gone"
         /\ job' = [jobs EXCEPT ![j] = NewJob]
         /\ key' = j
  ELSE job' = jobs /\ UNCHANGED key

\* The second half of add.
Add ==
  /\ adding > 0
  /\ adding' = adding - 1
  /\ QueueAdd(job)
  /\ orphaned' = FALSE
  /\ UNCHANGED <<merged, hash, ended, lock, row, gone, finish, faults>>

LoseUploader ==
  /\ adding > 0 /\ losses < MaxLosses
  /\ losses' = losses + 1
  /\ adding' = adding - 1
  /\ orphaned' = TRUE
  /\ UNCHANGED <<merged, hash, ended, key, job, lock, row, gone, finish, failures,
                 crashes, lapses>>

-----------------------------------------------------------------------------
(* The worker *)

Goto(j, pc) == job' = [job EXCEPT ![j].pc = pc]

\* A pass that is over leaves nothing behind but the job's counters.
Leave(j, pc) == job' = [job EXCEPT ![j] = [@ EXCEPT !.pc = pc, !.snap = Empty, !.iter = 0]]

Take(j) ==
  /\ job[j].pc = "waiting"
  /\ Goto(j, "lock")
  /\ UNCHANGED <<uploads, key, lock, row, gone, finish, orphaned, faults>>

\* Mutant: the handler runs whoever else runs it for the same run.
LockIgnored == TRUE

\* runExclusive: one holder of the run's lock.
LockIsFree == lock = None

TakeLock(j) ==
  /\ job[j].pc = "lock" /\ LockIsFree
  /\ lock' = j
  /\ Goto(j, "read")
  /\ UNCHANGED <<uploads, key, row, gone, finish, orphaned, faults>>

\* processRunsMetadataUpdate, up to its first await on the database.
Read(j) ==
  /\ job[j].pc = "read"
  /\ IF hash.v = 0
     THEN Leave(j, "unkey")
     ELSE job' = [job EXCEPT ![j].pc = "write", ![j].snap = hash]
  /\ UNCHANGED <<uploads, key, lock, row, gone, finish, orphaned, faults>>

\* A row is updated. One that is missing is inserted if the snapshot names a flow
\* and the flow exists; a snapshot without either is dropped.
Write(j) ==
  /\ job[j].pc = "write"
  /\ IF row # Absent \/ (job[j].snap.creates /\ ~gone)
     THEN row' = job[j].snap.v /\ Goto(j, "consume")
     ELSE Goto(j, "drop") /\ UNCHANGED row
  /\ UNCHANGED <<uploads, key, lock, gone, finish, orphaned, faults>>

\* Mutant: the hash is deleted whatever was merged since it was read.
ConsumedWhole(j) == Empty

\* Mutant: a snapshot that is dropped stays in the hash.
ConsumedIfStored(j) ==
  IF job[j].pc = "consume" /\ hash.v = job[j].snap.v THEN Empty ELSE hash

\* deleteKeyIfFieldValueMatches: an update merged meanwhile stays, with the rest.
Consumed(j) == IF hash.v = job[j].snap.v THEN Empty ELSE hash

\* consumeProcessedMetadata, of a snapshot that was stored or dropped.
Consume(j) ==
  /\ job[j].pc \in {"consume", "drop"}
  /\ hash' = Consumed(j)
  /\ IF job[j].pc = "consume" THEN Goto(j, "after") ELSE Leave(j, "unkey")
  /\ UNCHANGED <<merged, adding, ended, key, lock, row, gone, finish, orphaned, faults>>

\* The loop of drainRunsMetadataUpdates.
PassesAgain(j) == job[j].iter + 1 < MaxIterations

\* onFinish, for a snapshot with a finishTime, and the end of the pass.
After(j) ==
  /\ job[j].pc = "after"
  /\ announced' = (announced \/ job[j].snap.finish)
  /\ IF PassesAgain(j)
     THEN job' = [job EXCEPT ![j].iter = @ + 1, ![j].pc = "read", ![j].snap = Empty]
     ELSE Leave(j, "unkey")
  /\ UNCHANGED <<uploads, key, lock, row, gone, skipped, orphaned, faults>>

\* Mutant: the worker leaves the key to BullMQ, which frees it with the job.
KeyLeftToJob == key

\* removeDeduplicationKey: whichever job holds it.
KeyAfterDrain == None

RemoveKey(j) ==
  /\ job[j].pc = "unkey"
  /\ key' = KeyAfterDrain
  /\ Goto(j, "recheck")
  /\ UNCHANGED <<uploads, lock, row, gone, finish, orphaned, faults>>

\* reenqueueWhenUpdatesArrivedLate: the look at the hash, then the add.
Recheck(j) ==
  /\ job[j].pc = "recheck"
  /\ Goto(j, IF hash.v = 0 THEN "end" ELSE "readd")
  /\ UNCHANGED <<uploads, key, lock, row, gone, finish, orphaned, faults>>

Readd(j) ==
  /\ job[j].pc = "readd"
  /\ QueueAdd([job EXCEPT ![j].pc = "end"])
  /\ UNCHANGED <<uploads, lock, row, gone, finish, orphaned, faults>>

\* BullMQ frees the key with the job, if this job holds it.
KeyWithout(j) == IF key = j THEN None ELSE key

Unlocked(j) == IF lock = j THEN None ELSE lock

Complete(j) ==
  /\ job[j].pc = "end"
  /\ lock' = Unlocked(j)
  /\ key' = KeyWithout(j)
  /\ job' = [job EXCEPT ![j] = NoJob]
  /\ UNCHANGED <<uploads, row, gone, finish, orphaned, faults>>

-----------------------------------------------------------------------------
(* Failures *)

\* What a pass that stops after the consume leaves undone for good.
SkippedAt(j) == skipped \/ (job[j].pc = "after" /\ job[j].snap.finish)

\* The key outlives a failed attempt, unless it was the last.
KeyAfterFailure(j) ==
  IF job[j].attempts + 1 < Attempts THEN key ELSE KeyWithout(j)

\* The handler throws, the lock was not to be had in time, or redlock cannot release
\* one that has lapsed.
Throws(j) ==
  \/ job[j].pc \in Running \ {"end"}
  \/ job[j].pc = "end" /\ lock # j

Throw(j) ==
  /\ Throws(j) /\ failures < MaxFailures
  /\ failures' = failures + 1
  /\ lock' = IF job[j].pc \in Holding THEN Unlocked(j) ELSE lock
  /\ key' = KeyAfterFailure(j)
  /\ skipped' = SkippedAt(j)
  /\ IF job[j].attempts + 1 < Attempts
     THEN /\ job' = [job EXCEPT ![j] = [NoJob EXCEPT !.pc = "backoff",
                                                    !.attempts = job[j].attempts + 1,
                                                    !.stalls = job[j].stalls]]
          /\ UNCHANGED orphaned
     ELSE job' = [job EXCEPT ![j] = NoJob] /\ orphaned' = TRUE
  /\ UNCHANGED <<uploads, row, gone, announced, losses, crashes, lapses>>

\* The backoff is over.
Retry(j) ==
  /\ job[j].pc = "backoff"
  /\ Goto(j, "waiting")
  /\ UNCHANGED <<uploads, key, lock, row, gone, finish, orphaned, faults>>

\* The process dies: its lease of the lock stands until it lapses.
Crash(j) ==
  /\ job[j].pc \in Running /\ crashes < MaxCrashes
  /\ crashes' = crashes + 1
  /\ skipped' = SkippedAt(j)
  /\ job' = [job EXCEPT ![j] = [NoJob EXCEPT !.pc = "stalled",
                                             !.attempts = job[j].attempts,
                                             !.stalls = job[j].stalls + 1]]
  /\ UNCHANGED <<uploads, key, lock, row, gone, announced, orphaned, failures, losses,
                 lapses>>

StalledTooOften(j) == job[j].stalls > MaxStalls

Redeliver(j) ==
  /\ job[j].pc = "stalled" /\ ~StalledTooOften(j)
  /\ Goto(j, "waiting")
  /\ UNCHANGED <<uploads, key, lock, row, gone, finish, orphaned, faults>>

\* A job that stalled too often is failed, whatever attempts it has left.
FailStalled(j) ==
  /\ job[j].pc = "stalled" /\ StalledTooOften(j)
  /\ key' = KeyWithout(j)
  /\ job' = [job EXCEPT ![j] = NoJob]
  /\ orphaned' = TRUE
  /\ UNCHANGED <<uploads, lock, row, gone, finish, faults>>

\* The lease of a process that died.
LockLapses ==
  /\ lock \in Jobs /\ job[lock].pc \notin Holding
  /\ lock' = None
  /\ UNCHANGED <<uploads, key, job, row, gone, finish, orphaned, faults>>

\* redlock cannot extend a lease in time. The worker takes no notice of the signal.
LoseLease ==
  /\ lock \in Jobs /\ job[lock].pc \in Holding /\ lapses < MaxLapses
  /\ lapses' = lapses + 1
  /\ lock' = None
  /\ UNCHANGED <<uploads, key, job, row, gone, finish, orphaned, failures, losses,
                 crashes>>

\* The flow is deleted, and its runs with it.
DeleteFlow ==
  /\ ~gone
  /\ gone' = TRUE /\ row' = Absent
  /\ UNCHANGED <<uploads, key, job, lock, finish, orphaned, faults>>

-----------------------------------------------------------------------------
(* A run in TESTING is saved before its first update. *)
Init ==
  /\ merged = 0 /\ hash = Empty /\ adding = 0 /\ ended = FALSE
  /\ key = None /\ lock = None
  /\ job = [j \in Jobs |-> NoJob]
  /\ row \in {Absent, 0} /\ gone = FALSE
  /\ announced = FALSE /\ skipped = FALSE /\ orphaned = FALSE
  /\ failures = 0 /\ losses = 0 /\ crashes = 0 /\ lapses = 0

Step(j) ==
  \/ Take(j) \/ TakeLock(j) \/ Read(j) \/ Write(j) \/ Consume(j) \/ After(j)
  \/ RemoveKey(j) \/ Recheck(j) \/ Readd(j) \/ Complete(j) \/ Retry(j) \/ Redeliver(j)
  \/ FailStalled(j)

Next ==
  \/ \E f \in BOOLEAN : Merge(f)
  \/ Add \/ LoseUploader \/ LockLapses \/ LoseLease \/ DeleteFlow
  \/ \E j \in Jobs : Step(j) \/ Throw(j) \/ Crash(j)

Spec == Init /\ [][Next]_vars

\* BullMQ runs every job, retries and redelivers it; a lease lapses.
Fairness ==
  /\ WF_vars(Add) /\ WF_vars(LockLapses)
  /\ \A j \in Jobs : WF_vars(Step(j))

LiveSpec == Spec /\ Fairness

-----------------------------------------------------------------------------
(* Properties *)

\* The variables keep their types.
TypeOK ==
  /\ merged \in 0 .. MaxUploads /\ adding \in 0 .. MaxUploads
  /\ hash \in Snapshot
  /\ key \in Jobs \cup {None} /\ lock \in Jobs \cup {None}
  /\ job \in [Jobs -> Job]
  /\ row \in -1 .. MaxUploads
  /\ gone \in BOOLEAN /\ ended \in BOOLEAN /\ announced \in BOOLEAN
  /\ skipped \in BOOLEAN /\ orphaned \in BOOLEAN
  /\ failures \in 0 .. MaxFailures /\ losses \in 0 .. MaxLosses
  /\ crashes \in 0 .. MaxCrashes /\ lapses \in 0 .. MaxLapses

\* What the hash holds has someone to store it: an uploader about to add a job, or
\* a job that will look at the hash again. Else an uploader died half way, or a job
\* ran out of attempts or stalled too often, and no upload has come since. It is what the order of
\* merge and add, and of freeing the key and looking again, is for.
NoOrphanSnapshot ==
  hash.v # 0 => adding > 0 \/ orphaned \/ \E j \in Jobs : job[j].pc \in Alive \ {"end"}

\* An update leaves the hash only for the row: with the hash empty the row holds
\* the last one, whatever was merged while a job worked, failed or was lost. A
\* lease that lapses under its holder may leave an earlier one.
NothingDropped ==
  hash.v = 0 /\ merged > 0 /\ lapses = 0 => gone \/ row = merged

\* Once the finishTime has left the hash the finish side effects have run, or are
\* about to, or were lost by an attempt that stopped after the consume, the one gap
\* the comment over notifyRunProgress admits.
FinishAnnounced ==
  ended /\ ~hash.finish =>
    announced \/ skipped \/ gone \/ \E j \in Jobs : job[j].pc = "after" /\ job[j].snap.finish

Contract == INSTANCE RunRow WITH accepted <- merged, stored <- row,
                                 deleted <- gone, lapsed <- lapses > 0

\* The row never takes an earlier update after a later one, while leases last.
RowContract == Contract!Spec

\* The row takes the last update in the end, unless its flow is deleted, a lease
\* lapsed under its holder or nobody is left to store it.
RowCatchesUp == []<>(gone \/ row = merged \/ merged = 0 \/ lapses > 0 \/ orphaned)

\* What is merged is consumed, of a run whose flow is gone too: no job keeps
\* finding the same snapshot and adding the next one.
HashDrains == []<>(hash.v = 0 \/ orphaned)
=============================================================================
